--------------------------- MODULE TraceLife_proofs ---------------------------
(***************************************************************************)
(* Proofs about TraceLife, for every cell, every answer of the model,      *)
(* every stream of a local brain, every price table, and every place where *)
(* a budget, an error, a death or the limit may stop the child.  First,    *)
(* the tokens on the step lines are the tokens codex reported.  Then what  *)
(* a file owes the counters while the child lives, what a stopped child    *)
(* leaves, and what the parent makes of it: the validator passes the trace *)
(* (TracePasses), and passes no damaged one (DamageShows).                 *)
(***************************************************************************)
EXTENDS TraceLife, TLAPS, FiniteSetTheorems, SequenceTheorems, WellFoundedInduction

Tokens == [Keys -> Nat]
Total(usage) == usage["input"] + usage["cache_read"] + usage["cache_write"] + usage["output"]

\* A step in flight has declared nothing.
Unspent(step) ==
  \E calls, results, hashed, reason :
    step = [calls |-> calls, results |-> results, usage |-> NoUsage, hashed |-> hashed,
            stop_reason |-> reason]

StepperShape(s) ==
  s = [open |-> s.open, steps |-> s.steps, tool_calls |-> s.tool_calls, submits |-> s.submits,
       totals |-> s.totals, stop |-> s.stop]

Reported(totals, n) ==
  /\ n \in Nat
  /\ \/ totals = {} /\ n = 0
     \/ \E t \in Tokens : totals = {t} /\ Total(t) = n

\* The stepper holds what codex reported, on no step in flight.
Stepping ==
  /\ StepperShape(stepper)
  /\ \A step \in stepper.open : Unspent(step)
  /\ Reported(stepper.totals, reported)

\* The driver has declared nothing before the last step; from the first step it wrote on
\* there is one in flight.
Reading ==
  /\ sums.written \in Nat
  /\ pc \in {"born", "turn", "stream", "closing"} => sums.spent = NoUsage
  /\ pc = "born" => sums.written = 0
  /\ pc \in {"stream", "closing"} /\ sums.written > 0 => stepper.open # {}

Reconciled == sums.written > 0 => Total(sums.spent) = reported

Closed ==
  cell.brain = "codex" =>
    /\ pc \in {"born", "stream", "closing", "gate", "draft", "render", "stopping", "ended",
               "gone", "filed"}
    /\ pc \in {"gate", "draft", "render", "stopping", "ended"} /\ ~raised => Reconciled

Live == pc \notin {"gone", "filed"} => Stepping /\ Reading
TInv == Live /\ Closed
-----------------------------------------------------------------------------
(* The stepper *)

LEMMA KeysAre == Keys = {"input", "cache_read", "cache_write", "output"}
  BY DEF Keys

\* A usage is split into keys that add up to what codex called input and output.
LEMMA UsageSplits ==
  ASSUME NEW raw \in Usages
  PROVE  /\ UsageOf(raw) \in Tokens
         /\ Total(UsageOf(raw)) = raw.input_tokens + raw.output_tokens
<1>1. /\ raw.input_tokens \in Nat /\ raw.cached_input_tokens \in Nat
      /\ raw.cache_write_input_tokens \in Nat /\ raw.output_tokens \in Nat
  BY LifeAssumption
<1> DEFINE cached == Smaller(raw.cached_input_tokens, raw.input_tokens)
           written == Smaller(raw.cache_write_input_tokens, raw.input_tokens - cached)
<1>2. cached \in Nat /\ raw.input_tokens - cached \in Nat
  BY <1>1 DEF Smaller
<1>3. written \in Nat /\ raw.input_tokens - cached - written \in Nat
  BY <1>1, <1>2 DEF Smaller
<1>4. UsageOf(raw) = [input |-> raw.input_tokens - cached - written, cache_read |-> cached,
                      cache_write |-> written, output |-> raw.output_tokens]
  BY DEF UsageOf
<1> HIDE DEF cached, written
<1> QED BY <1>1, <1>2, <1>3, <1>4 DEF Tokens, Total, Keys

\* The totals of a run grow by what a turn reports.
LEMMA TotalsGrow ==
  ASSUME NEW s, NEW raw \in Usages, NEW n, Reported(s.totals, n)
  PROVE  Reported(Totals(s, raw), n + raw.input_tokens + raw.output_tokens)
<1> DEFINE fresh == UsageOf(raw)
<1>1. /\ fresh \in Tokens /\ Total(fresh) = raw.input_tokens + raw.output_tokens
      /\ raw.input_tokens \in Nat /\ raw.output_tokens \in Nat
  BY UsageSplits, LifeAssumption
<1>2. Totals(s, raw) = IF s.totals = {} THEN {fresh}
                       ELSE {[key \in Keys |-> seen[key] + fresh[key]] : seen \in s.totals}
  BY DEF Totals
<1>3. n \in Nat BY DEF Reported
<1> HIDE DEF fresh
<1>4. CASE s.totals = {}
  <2>1. n = 0 BY <1>4 DEF Reported
  <2> QED BY <1>1, <1>2, <1>4, <2>1 DEF Reported
<1>5. CASE s.totals # {}
  <2>1. PICK t \in Tokens : s.totals = {t} /\ Total(t) = n
    BY <1>5 DEF Reported
  <2> DEFINE sum == [key \in Keys |-> t[key] + fresh[key]]
  <2>2. Totals(s, raw) = {sum}
    BY <1>2, <1>5, <2>1
  <2>3. /\ "input" \in Keys /\ "cache_read" \in Keys /\ "cache_write" \in Keys /\ "output" \in Keys
    BY DEF Keys
  <2>4. \A key \in Keys : t[key] \in Nat /\ fresh[key] \in Nat
    BY <1>1 DEF Tokens
  <2>5. sum \in Tokens BY <2>4 DEF Tokens
  <2>6. Total(sum) = Total(t) + Total(fresh)
    BY <2>3, <2>4 DEF Total
  <2> HIDE DEF sum
  <2> QED BY <1>1, <1>3, <2>1, <2>2, <2>5, <2>6 DEF Reported
<1> QED BY <1>4, <1>5

\* A step in flight that takes a call still declares nothing.
LEMMA FilledDeclaresNothing ==
  ASSUME NEW step, Unspent(step), NEW calls, NEW results, NEW reason,
         NEW next, next = [step EXCEPT !.calls = calls, !.results = results, !.stop_reason = reason]
  PROVE  Unspent(next)
<1>1. PICK c, r, h, s : step = [calls |-> c, results |-> r, usage |-> NoUsage, hashed |-> h,
                                stop_reason |-> s]
  BY DEF Unspent
<1>2. next = [calls |-> calls, results |-> results, usage |-> NoUsage, hashed |-> h,
              stop_reason |-> reason]
  BY <1>1
<1> QED BY <1>2 DEF Unspent

\* What the stepper does with an item leaves the totals, opens steps that declare nothing,
\* and once it has begun there is one in flight.
LEMMA ItemsDeclareNothing ==
  ASSUME NEW s, NEW item, StepperShape(s), \A step \in s.open : Unspent(step),
         NEW s2, s2 = Absorbed(Begun(s), item, cell)
  PROVE  /\ StepperShape(s2) /\ s2.totals = s.totals
         /\ \A step \in s2.open : Unspent(step)
         /\ s2.open # {}
<1> DEFINE b == Begun(s)
<1>1. /\ StepperShape(b) /\ b.totals = s.totals /\ b.open # {}
      /\ \A step \in b.open : Unspent(step)
  <2>1. CASE Joins(s) BY <2>1 DEF Begun, Joins
  <2>2. CASE ~Joins(s)
    <3>0. PICK next : next = [s EXCEPT !.open = {OpenStep}, !.steps = @ + 1]
      OBVIOUS
    <3>1. StepperShape(next) /\ next.open = {OpenStep} /\ next.totals = s.totals
      BY <3>0 DEF StepperShape
    <3>2. Unspent(OpenStep) BY DEF Unspent, OpenStep
    <3>3. b = IF next.steps > MaxTurns THEN Halted(next, "budget_exhausted") ELSE next
      BY <2>2, <3>0 DEF Begun
    <3>4. /\ StepperShape(Halted(next, "budget_exhausted"))
          /\ Halted(next, "budget_exhausted").open = {OpenStep}
          /\ Halted(next, "budget_exhausted").totals = s.totals
      BY <3>1 DEF Halted, StepperShape
    <3> QED BY <3>1, <3>2, <3>3, <3>4
  <2> QED BY <2>1, <2>2
<1> HIDE DEF b
<1>2. s2 = IF item.type \in TextItems THEN b
           ELSE IF Affordable(b, NameOf(item), cell) THEN Bought(b, item) ELSE Refused(b, cell)
  BY DEF Absorbed, b
<1>3. /\ StepperShape(Refused(b, cell)) /\ Refused(b, cell).totals = b.totals
      /\ Refused(b, cell).open = b.open
  BY <1>1 DEF Refused, Halted, StepperShape
<1>4. /\ StepperShape(Bought(b, item)) /\ Bought(b, item).totals = b.totals
      /\ Bought(b, item).open # {}
      /\ \A step \in Bought(b, item).open : Unspent(step)
  <2> DEFINE More(step) == [step EXCEPT !.calls = Append(@, Call(item.id, NameOf(item))),
                                        !.results = Append(@, Answer(item.id, SaysOf(item))),
                                        !.stop_reason = "tool_use"]
             more == {More(step) : step \in b.open}
  <2>1. Bought(b, item) =
          [b EXCEPT !.tool_calls = @ + 1,
                    !.submits = IF NameOf(item) = "submit_record" THEN @ + 1 ELSE @,
                    !.open = more]
    BY <1>1 DEF Bought, StepperShape
  <2>2. ASSUME NEW step, Unspent(step) PROVE Unspent(More(step))
    <3>1. PICK next : next = More(step) OBVIOUS
    <3> QED BY <2>2, <3>1, FilledDeclaresNothing
  <2>3. more # {} /\ \A step \in more : Unspent(step)
    BY <1>1, <2>2
  <2> HIDE DEF more
  <2>4. /\ StepperShape(Bought(b, item)) /\ Bought(b, item).totals = b.totals
        /\ Bought(b, item).open = more
    BY <1>1, <2>1 DEF StepperShape
  <2> QED BY <2>3, <2>4
<1> QED BY <1>1, <1>2, <1>3, <1>4
-----------------------------------------------------------------------------
(* The driver *)

\* A step written before the last declares nothing.
LEMMA EarlyStepsAreFree ==
  ASSUME NEW step, Unspent(step), sums.spent = NoUsage, sums.written \in Nat
  PROVE  /\ Summed(sums, step, {}, prices).spent = NoUsage
         /\ Summed(sums, step, {}, prices).written = sums.written + 1
<1>1. step.usage = NoUsage BY DEF Unspent
<1>2. Settled(sums, step, {}) = [key \in Keys |-> NoUsage[key] + 0]
  BY <1>1 DEF Settled
<1>3. [key \in Keys |-> NoUsage[key] + 0] = NoUsage /\ [key \in Keys |-> NoUsage[key] + NoUsage[key]] = NoUsage
  BY DEF Keys, NoUsage
<1> QED BY <1>2, <1>3 DEF Summed

\* The last one declares all of it.
LEMMA LastStepSettles ==
  ASSUME NEW step, Unspent(step), sums.spent = NoUsage, sums.written \in Nat,
         NEW totals, NEW n, Reported(totals, n)
  PROVE  /\ Total(Summed(sums, step, totals, prices).spent) = n
         /\ Summed(sums, step, totals, prices).written = sums.written + 1
<1>1. step.usage = NoUsage BY DEF Unspent
<1>2. Summed(sums, step, totals, prices).spent
        = [key \in Keys |-> NoUsage[key] + Settled(sums, step, totals)[key]]
      /\ Summed(sums, step, totals, prices).written = sums.written + 1
  BY DEF Summed
<1>3. \A key \in Keys : NoUsage[key] = 0 BY DEF Keys, NoUsage
<1>4. /\ "input" \in Keys /\ "cache_read" \in Keys /\ "cache_write" \in Keys /\ "output" \in Keys
  BY DEF Keys
<1>5. CASE totals = {}
  <2>1. n = 0 BY <1>5 DEF Reported
  <2>2. \A key \in Keys : Settled(sums, step, totals)[key] = 0
    BY <1>1, <1>3, <1>5 DEF Settled
  <2> QED BY <1>2, <1>3, <1>4, <2>1, <2>2 DEF Total
<1>6. CASE totals # {}
  <2>1. PICK t \in Tokens : totals = {t} /\ Total(t) = n
    BY <1>6 DEF Reported
  <2>2. (CHOOSE u \in totals : TRUE) = t BY <2>1
  <2>3. \A key \in Keys : t[key] \in Nat BY DEF Tokens
  <2>4. \A key \in Keys : Settled(sums, step, totals)[key] = 0 + Larger(0, t[key] - 0 - 0)
    BY <1>1, <1>3, <1>6, <2>2 DEF Settled
  <2>5. \A key \in Keys : Settled(sums, step, totals)[key] = t[key]
    BY <2>3, <2>4 DEF Larger
  <2>6. \A key \in Keys : Summed(sums, step, totals, prices).spent[key] = t[key]
    BY <1>2, <1>3, <2>3, <2>5
  <2> QED BY <1>2, <1>4, <2>1, <2>6 DEF Total
<1> QED BY <1>5, <1>6
-----------------------------------------------------------------------------
(* The invariant *)

LEMMA InitTokens == Init => TInv
<1> SUFFICES ASSUME Init PROVE TInv OBVIOUS
<1>1. StepperShape(NewStepper) /\ NewStepper.open = {} /\ NewStepper.totals = {}
  BY DEF StepperShape, NewStepper
<1>2. NewSums.spent = NoUsage /\ NewSums.written = 0 BY DEF NewSums
<1> QED BY <1>1, <1>2 DEF Init, TInv, Live, Closed, Stepping, Reading, Reported

\* A step that leaves the stepper and the sums.
LEMMA ElsewhereKeeps ==
  ASSUME TInv, UNCHANGED <<cell, stepper, sums, reported>>, raised' = raised, pc' # "born",
         pc' \notin {"gone", "filed"} => pc \notin {"gone", "filed"},
         pc' \in {"born", "turn", "stream", "closing"} => pc \in {"born", "turn", "stream", "closing"},
         pc' \in {"stream", "closing"} => pc \in {"born", "stream", "closing"},
         pc \in {"gate", "draft", "render", "stopping", "ended"} =>
           pc' \in {"gate", "draft", "render", "stopping", "ended", "gone", "filed"},
         pc' \in {"gate", "draft", "render", "stopping", "ended"} =>
           pc \in {"turn", "gate", "draft", "render", "stopping", "ended"},
         cell.brain = "codex" =>
           pc' \in {"stream", "closing", "gate", "draft", "render", "stopping", "ended",
                    "gone", "filed"}
  PROVE  TInv'
<1>1. Live'
  BY DEF TInv, Live, Stepping, Reading
<1>2. Closed'
  BY DEF TInv, Closed, Reconciled
<1> QED BY <1>1, <1>2 DEF TInv

LEMMA ApiKeeps ==
  ASSUME TInv,
         \/ CallFails
         \/ \E cost \in Costs :
              \/ QuietTurn(cost)
              \/ \E names \in Batches, verdict \in {"yes", "no"} :
                   ToolTurn(names, verdict, cost) \/ BatchRaises(names, verdict, cost)
  PROVE  TInv'
<1>1. /\ pc = "turn" /\ pc' \in {"turn", "gate", "stopping"}
      /\ UNCHANGED <<cell, stepper, sums, reported, raised>>
  BY DEF CallFails, QuietTurn, ToolTurn, BatchRaises, Stops, codex
<1>2. cell.brain # "codex" BY <1>1 DEF TInv, Closed
<1> QED BY <1>1, <1>2, ElsewhereKeeps

LEMMA FinishKeeps ==
  ASSUME TInv,
         Open \/ StreamEnds \/ PricesChange \/ NoGate \/ GateAnswers \/ GateRaises \/ Draft
         \/ Render \/ EndRun
  PROVE  TInv'
<1>1. /\ UNCHANGED <<cell, stepper, sums, reported, raised>>
      /\ \/ pc = "born" /\ pc' = IF cell.brain = "api" THEN "turn" ELSE "stream"
         \/ pc = "stream" /\ pc' \in {"stream", "closing"}
         \/ /\ pc \in {"gate", "draft", "render", "stopping"}
            /\ pc' \in {"gate", "draft", "render", "stopping", "ended"}
  BY DEF Open, StreamEnds, PricesChange, NoGate, GateAnswers, GateRaises, Draft, Render, EndRun,
         Stops, codex
<1> QED BY <1>1, ElsewhereKeeps

LEMMA RaiseKeeps == ASSUME TInv, StreamRaises PROVE TInv'
  BY DEF StreamRaises, Stops, TInv, Live, Closed, Stepping, Reading

LEMMA ExitKeeps == ASSUME TInv, Killed \/ Dies \/ FinishCell PROVE TInv'
  BY DEF Killed, Dies, FinishCell, TInv, Live, Closed

LEMMA CloseKeeps == ASSUME TInv, StreamCloses PROVE TInv'
<1>1. /\ pc = "closing" /\ pc' \in {"gate", "stopping"}
      /\ stepper' = [stepper EXCEPT !.open = {}]
      /\ UNCHANGED <<cell, prices, raised, reported>>
      /\ IF stepper.open = {} THEN sums' = sums
         ELSE \E step \in stepper.open : sums' = Summed(sums, step, stepper.totals, prices)
  BY DEF StreamCloses, Stops
<1>2. Stepping /\ Reading BY <1>1 DEF TInv, Live
<1>3. StepperShape(stepper') /\ stepper'.open = {} /\ stepper'.totals = stepper.totals
  BY <1>1, <1>2 DEF Stepping, StepperShape
<1>4. Stepping'
  BY <1>1, <1>2, <1>3 DEF Stepping, Reported
<1>5. sums'.written \in Nat /\ (sums'.written > 0 => Total(sums'.spent) = reported)
  <2>1. CASE stepper.open = {} BY <1>1, <1>2, <2>1 DEF Reading
  <2>2. CASE stepper.open # {}
    <3>1. PICK step \in stepper.open : sums' = Summed(sums, step, stepper.totals, prices)
      BY <1>1, <2>2
    <3>2. Unspent(step) /\ Reported(stepper.totals, reported) BY <1>2 DEF Stepping
    <3>3. sums.spent = NoUsage /\ sums.written \in Nat BY <1>1, <1>2 DEF Reading
    <3> QED BY <3>1, <3>2, <3>3, LastStepSettles
  <2> QED BY <2>1, <2>2
<1> QED BY <1>1, <1>4, <1>5 DEF TInv, Live, Closed, Reading, Reconciled

LEMMA EventKeeps ==
  ASSUME TInv, NEW event \in Happenings, CodexEvent(event)
  PROVE  TInv'
<1> DEFINE fed == Fed(stepper, event, cell)
           done == Closes(stepper, event)
<1>1. /\ pc = "stream" /\ pc' \in {"stream", "closing"} /\ UNCHANGED <<cell, prices, raised>>
      /\ IF done = {} THEN sums' = sums
         ELSE \E step \in done : sums' = Summed(sums, step, {}, prices)
      /\ \/ stepper' = fed
         \/ stepper' = Halted(fed, "max_submits")
      /\ reported' = IF event.kind = "turn.completed"
                     THEN reported + event.usage.input_tokens + event.usage.output_tokens
                     ELSE reported
  BY DEF CodexEvent
<1>2. Stepping /\ Reading /\ sums.spent = NoUsage BY <1>1 DEF TInv, Live, Reading
<1>3. /\ event.kind = "turn.completed" => event.usage \in Usages
  BY DEF Happenings
<1>4. /\ StepperShape(fed) /\ \A step \in fed.open : Unspent(step)
      /\ Reported(fed.totals, reported')
      /\ done # {} \/ stepper.open # {} => fed.open # {}
      /\ \A step \in done : Unspent(step)
  <2>1. CASE event.kind = "turn.completed"
    <3>1. /\ fed = [stepper EXCEPT !.totals = Totals(stepper, event.usage)] /\ done = {}
      BY <2>1 DEF Fed, Closes
    <3>2. Reported(Totals(stepper, event.usage), reported')
      BY <1>1, <1>2, <1>3, <2>1, TotalsGrow DEF Stepping
    <3> HIDE DEF fed, done
    <3> QED BY <1>2, <3>1, <3>2 DEF Stepping, StepperShape
  <2>2. CASE event.kind = "turn.failed"
    <3>1. fed = Halted(stepper, "api_error") /\ done = {} /\ reported' = reported
      BY <1>1, <2>2 DEF Fed, Closes
    <3> HIDE DEF fed, done
    <3> QED BY <1>2, <3>1 DEF Stepping, StepperShape, Halted
  <2>3. CASE event.kind \notin {"turn.completed", "turn.failed"}
    <3>0. reported' = reported BY <1>1, <2>3
    <3>1. CASE event.item.type \in CallItems \cup TextItems
      <4>1. fed = Absorbed(Begun(stepper), event.item, cell) /\ done \subseteq stepper.open
        BY <2>3, <3>1 DEF Fed, Closes, Finished
      <4> HIDE DEF fed, done
      <4> QED BY <1>2, <3>0, <4>1, ItemsDeclareNothing DEF Stepping
    <3>2. CASE event.item.type \notin CallItems \cup TextItems
      <4>1. fed = stepper /\ done = {} BY <2>3, <3>2 DEF Fed, Closes
      <4> QED BY <1>2, <3>0, <4>1 DEF Stepping
    <3> QED BY <3>1, <3>2
  <2> QED BY <2>1, <2>2, <2>3
<1> HIDE DEF fed, done
<1>5. StepperShape(stepper') /\ stepper'.open = fed.open /\ stepper'.totals = fed.totals
  BY <1>1, <1>4 DEF Halted, StepperShape
<1>6. Stepping'
  BY <1>4, <1>5 DEF Stepping
<1>7. /\ sums'.written \in Nat /\ sums'.spent = NoUsage
      /\ sums'.written > 0 => stepper'.open # {}
  <2>1. CASE done = {}
    BY <1>1, <1>2, <1>4, <1>5, <2>1 DEF Reading
  <2>2. CASE done # {}
    <3>1. PICK step \in done : sums' = Summed(sums, step, {}, prices)
      BY <1>1, <2>2
    <3> QED BY <1>2, <1>4, <1>5, <2>2, <3>1, EarlyStepsAreFree DEF Reading
  <2> QED BY <2>1, <2>2
<1> QED BY <1>1, <1>6, <1>7 DEF TInv, Live, Closed, Reading

LEMMA StepTokens == TInv /\ [Next]_vars => TInv'
<1> SUFFICES ASSUME TInv, [Next]_vars PROVE TInv'
  OBVIOUS
<1>1. CASE UNCHANGED vars
  BY <1>1 DEF vars, codex, TInv, Live, Closed, Stepping, Reading, Reconciled
<1>2. CASE Next
  BY <1>2, ApiKeeps, FinishKeeps, RaiseKeeps, ExitKeeps, CloseKeeps, EventKeeps DEF Next
<1> QED BY <1>1, <1>2

LEMMA Invariant == Spec => []TInv
  BY InitTokens, StepTokens, PTL DEF Spec

\* Every token codex reported is on one step line, whatever the number of its turns and
\* wherever a budget or its own end stopped the stream (driver.py _usage, codex_events.py).
THEOREM TokensAddUp == Spec => []TokensReconcile
<1>1. TInv => TokensReconcile
  BY DEF TInv, Closed, Reconciled, Total, TokensReconcile
<1> QED BY <1>1, Invariant, PTL

(* The lines of a type *)

\* How many there are from one place to another.
LEMMA Between ==
  ASSUME NEW a \in Int, NEW b \in Int, a <= b + 1
  PROVE  IsFiniteSet(a..b) /\ Cardinality(a..b) = b - a + 1
<1>1. IsFiniteSet(a..b) /\ Cardinality(a..b) = IF a > b THEN 0 ELSE b - a + 1 BY FS_Interval
<1> QED BY <1>1

\* The places of a type in a file.
Places(f, type) == {i \in DOMAIN f : f[i].type = type}

\* The k-th place of a stretch.
LEMMA KthPlace ==
  ASSUME NEW a \in Int, NEW b \in Int, NEW k \in 1..(b - a + 1)
  PROVE  (CHOOSE i \in a..b : Cardinality({j \in a..b : j <= i}) = k) = a - 1 + k
<1>1. ASSUME NEW i \in a..b PROVE Cardinality({j \in a..b : j <= i}) = i - a + 1
  <2>1. i \in Int /\ a <= i + 1 /\ i <= b BY <1>1
  <2>2. {j \in a..b : j <= i} = a..i BY <2>1
  <2>3. Cardinality(a..i) = i - a + 1 BY <2>1, Between
  <2> QED BY <2>2, <2>3
<1> DEFINE Kth(i) == Cardinality({j \in a..b : j <= i}) = k
<1>2. PICK c \in Int : c = a - 1 + k OBVIOUS
<1>3. c \in a..b /\ \A i \in a..b : i - a + 1 = k <=> i = c BY <1>2
<1>4. \A i \in a..b : Kth(i) <=> i = c BY <1>1, <1>3
<1> HIDE DEF Kth
<1>5. (CHOOSE i \in a..b : Kth(i)) = c BY <1>3, <1>4
<1> QED BY <1>2, <1>5 DEF Kth

\* The lines at some places of a file, in their order.
Picked(f, at) ==
  [k \in 1..Cardinality(at) |-> f[CHOOSE i \in at : Cardinality({j \in at : j <= i}) = k]]

LEMMA OnlyPicks ==
  ASSUME NEW f, NEW type
  PROVE  Only(f, type) = Picked(f, Places(f, type))
  BY DEF Only, Picked, Places

\* What a type picks out of a file is a stretch of it, when its lines are one.
LEMMA OnlyStretch ==
  ASSUME NEW f, NEW type, NEW a \in Int, NEW m \in Nat, Places(f, type) = (a + 1)..(a + m)
  PROVE  Only(f, type) = [k \in 1..m |-> f[a + k]]
<1>1. PICK b, c \in Int : b = a + 1 /\ c = a + m
  OBVIOUS
<1>2. Cardinality(b..c) = m
  <2>1. b <= c + 1 /\ c - b + 1 = m BY <1>1
  <2> QED BY <2>1, Between
<1>3. Only(f, type) = Picked(f, b..c) BY <1>1, OnlyPicks
<1> DEFINE Nth(k) == CHOOSE i \in b..c : Cardinality({j \in b..c : j <= i}) = k
<1>4. Picked(f, b..c) = [k \in 1..m |-> f[Nth(k)]] BY <1>2 DEF Picked
<1>5. ASSUME NEW k \in 1..m PROVE Nth(k) = a + k
  <2>1. k \in 1..(c - b + 1) /\ b - 1 + k = a + k BY <1>1, <1>5
  <2> QED BY <2>1, KthPlace
<1> HIDE DEF Nth
<1> QED BY <1>3, <1>4, <1>5

\* A type picks out as many lines as it has places.
LEMMA OnlyCounts ==
  ASSUME NEW f, NEW type, IsFiniteSet(Places(f, type))
  PROVE  Len(Only(f, type)) = Cardinality(Places(f, type)) /\ Cardinality(Places(f, type)) \in Nat
<1>1. Cardinality(Places(f, type)) \in Nat BY FS_CardinalityType
<1>2. DOMAIN Only(f, type) = 1..Cardinality(Places(f, type)) BY DEF Only, Places
<1>3. PICK m \in Nat : m = Cardinality(Places(f, type)) BY <1>1
<1>4. Only(f, type) = [k \in 1..m |-> Only(f, type)[k]] BY <1>3 DEF Only, Places
<1>5. Len(Only(f, type)) = m
  <2>1. PICK g : g = Only(f, type) OBVIOUS
  <2>2. g = [k \in 1..m |-> g[k]] BY <1>4, <2>1
  <2> DEFINE X == {g[k] : k \in 1..m}
  <2>3. g \in Seq(X) BY <2>2, <1>3
  <2>4. DOMAIN g = 1..m BY <2>2
  <2> QED BY <2>1, <2>3, <2>4, <1>3
<1> QED BY <1>3, <1>5
-----------------------------------------------------------------------------
(* A trace: a run_start, n steps, at most one checkpoint, and what ends it. *)

Framed(f, n, p, e) ==
  /\ n \in Nat /\ p \in {0, 1} /\ e \in Nat
  /\ \E X : f \in Seq(X)
  /\ Len(f) = 1 + n + p + e
  /\ f[1].type = "run_start"
  /\ \A i \in 2..(1 + n) : f[i].type = "step"
  /\ \A i \in (2 + n)..(1 + n + p) : f[i].type = "checkpoint"
  /\ \A i \in (2 + n + p)..(1 + n + p + e) : f[i].type = "run_end"

StepsOf(f, n) == [k \in 1..n |-> f[k + 1]]

LEMMA FramedDomain ==
  ASSUME NEW f, NEW n, NEW p, NEW e, Framed(f, n, p, e)
  PROVE  /\ n \in Nat /\ p \in Nat /\ e \in Nat /\ p <= 1
         /\ DOMAIN f = 1..(1 + n + p + e) /\ Len(f) = 1 + n + p + e /\ Len(f) \in Nat
         /\ f # <<>> /\ f = [i \in 1..(1 + n + p + e) |-> f[i]]
<1>1. PICK X : f \in Seq(X) BY DEF Framed
<1>2. n \in Nat /\ p \in Nat /\ e \in Nat /\ p <= 1 /\ Len(f) = 1 + n + p + e BY DEF Framed
<1>3. DOMAIN f = 1..Len(f) /\ f = [i \in 1..Len(f) |-> f[i]] BY <1>1
<1> QED BY <1>2, <1>3

LEMMA FramedPlaces ==
  ASSUME NEW f, NEW n, NEW p, NEW e, Framed(f, n, p, e)
  PROVE  /\ Places(f, "run_start") = (0 + 1)..(0 + 1)
         /\ Places(f, "step") = (1 + 1)..(1 + n)
         /\ Places(f, "checkpoint") = (1 + n + 1)..(1 + n + p)
         /\ Places(f, "run_end") = (1 + n + p + 1)..(1 + n + p + e)
<1>1. DOMAIN f = 1..(1 + n + p + e) /\ n \in Nat /\ p \in Nat /\ e \in Nat BY FramedDomain
<1>2. \A i \in DOMAIN f : \/ i = 1 /\ f[i].type = "run_start"
                          \/ i \in 2..(1 + n) /\ f[i].type = "step"
                          \/ i \in (2 + n)..(1 + n + p) /\ f[i].type = "checkpoint"
                          \/ i \in (2 + n + p)..(1 + n + p + e) /\ f[i].type = "run_end"
  BY <1>1 DEF Framed
<1>3. ASSUME NEW i \in DOMAIN f
      PROVE  /\ f[i].type = "run_start" <=> i = 1
             /\ f[i].type = "step" <=> i \in 2..(1 + n)
             /\ f[i].type = "checkpoint" <=> i \in (2 + n)..(1 + n + p)
             /\ f[i].type = "run_end" <=> i \in (2 + n + p)..(1 + n + p + e)
  BY <1>1, <1>2
<1>4. /\ Places(f, "run_start") = {i \in 1..(1 + n + p + e) : i = 1}
      /\ Places(f, "step") = {i \in 1..(1 + n + p + e) : i \in 2..(1 + n)}
      /\ Places(f, "checkpoint") = {i \in 1..(1 + n + p + e) : i \in (2 + n)..(1 + n + p)}
      /\ Places(f, "run_end") = {i \in 1..(1 + n + p + e) : i \in (2 + n + p)..(1 + n + p + e)}
  BY <1>1, <1>3 DEF Places
<1>5. {i \in 1..(1 + n + p + e) : i = 1} = (0 + 1)..(0 + 1) BY <1>1
<1>6. {i \in 1..(1 + n + p + e) : i \in 2..(1 + n)} = (1 + 1)..(1 + n) BY <1>1
<1>7. {i \in 1..(1 + n + p + e) : i \in (2 + n)..(1 + n + p)} = (1 + n + 1)..(1 + n + p) BY <1>1
<1>8. {i \in 1..(1 + n + p + e) : i \in (2 + n + p)..(1 + n + p + e)}
        = (1 + n + p + 1)..(1 + n + p + e)
  BY <1>1
<1> QED BY <1>4, <1>5, <1>6, <1>7, <1>8

\* What the validator takes out of such a file.
LEMMA FramedOnly ==
  ASSUME NEW f, NEW n, NEW p, NEW e, Framed(f, n, p, e)
  PROVE  /\ Only(f, "run_start") = [k \in 1..1 |-> f[k]]
         /\ Only(f, "step") = StepsOf(f, n)
         /\ Only(f, "checkpoint") = [k \in 1..p |-> f[1 + n + k]]
         /\ Only(f, "run_end") = [k \in 1..e |-> f[1 + n + p + k]]
<1>1. n \in Nat /\ p \in Nat /\ e \in Nat BY FramedDomain
<1>2. PICK a, b, zero, one \in Int : a = 1 + n /\ b = 1 + n + p /\ zero = 0 /\ one = 1 /\ one \in Nat
  BY <1>1
<1>3. /\ Places(f, "run_start") = (zero + 1)..(zero + one)
      /\ Places(f, "step") = (one + 1)..(one + n)
      /\ Places(f, "checkpoint") = (a + 1)..(a + p)
      /\ Places(f, "run_end") = (b + 1)..(b + e)
  BY <1>2, FramedPlaces
<1>2a. one \in Nat BY <1>2
<1>4. Only(f, "run_start") = [k \in 1..one |-> f[zero + k]] BY <1>2a, <1>3, OnlyStretch
<1>5. Only(f, "step") = [k \in 1..n |-> f[one + k]] BY <1>1, <1>3, OnlyStretch
<1>6. Only(f, "checkpoint") = [k \in 1..p |-> f[a + k]] BY <1>1, <1>3, OnlyStretch
<1>7. Only(f, "run_end") = [k \in 1..e |-> f[b + k]] BY <1>1, <1>3, OnlyStretch
<1>8. \A k \in 1..1 : zero + k = k BY <1>2
<1>9. \A k \in 1..n : one + k = k + 1 BY <1>2
<1> QED BY <1>2, <1>4, <1>5, <1>6, <1>7, <1>8, <1>9 DEF StepsOf

(* What the step lines count *)

SubmitsOf(line) == {j \in DOMAIN line.calls : line.calls[j].name = "submit_record"}
RejectedOf(line) ==
  {k \in DOMAIN line.results : /\ line.results[k].says = "no"
                               /\ \E j \in SubmitsOf(line) : line.calls[j].id = line.results[k].call}

\* The steps with an attempt in them; two attempts in one step.
Attempts(S) == {i \in DOMAIN S : SubmitsOf(S[i]) # {}}
TwoIn(S) == \E at, bt \in Submits(S) : at[1] = bt[1] /\ at # bt

\* T is S and one line more.
Grown(S, T, n, line) ==
  /\ n \in Nat /\ DOMAIN S = 1..n /\ DOMAIN T = 1..(n + 1)
  /\ \A i \in 1..n : T[i] = S[i]
  /\ T[n + 1] = line

LEMMA PairsAre ==
  ASSUME NEW S
  PROVE  /\ \A at : at \in Calls(S) <=> \E i \in DOMAIN S : \E j \in DOMAIN S[i].calls : at = <<i, j>>
         /\ \A at : at \in Submits(S) <=> \E i \in DOMAIN S : \E j \in SubmitsOf(S[i]) : at = <<i, j>>
         /\ \A at : at \in Rejections(S) <=>
              \E i \in DOMAIN S : \E k \in RejectedOf(S[i]) : at = <<i, k>>
<1>1. \A at : at \in Calls(S) <=> \E i \in DOMAIN S : \E j \in DOMAIN S[i].calls : at = <<i, j>>
  BY DEF Calls
<1>2. \A at : at \in Submits(S) <=> \E i \in DOMAIN S : \E j \in SubmitsOf(S[i]) : at = <<i, j>>
  BY <1>1 DEF Submits, SubmitsOf
<1>3. ASSUME NEW at
      PROVE  at \in Rejections(S) <=> \E i \in DOMAIN S : \E k \in RejectedOf(S[i]) : at = <<i, k>>
  <2>1. at \in UNION {{i} \X DOMAIN S[i].results : i \in DOMAIN S}
          <=> \E i \in DOMAIN S : \E k \in DOMAIN S[i].results : at = <<i, k>>
    OBVIOUS
  <2>2. ASSUME NEW i \in DOMAIN S, NEW k \in DOMAIN S[i].results
        PROVE  (\E sub \in Submits(S) : sub[1] = i /\ S[i].calls[sub[2]].id = S[i].results[k].call)
                 <=> \E j \in SubmitsOf(S[i]) : S[i].calls[j].id = S[i].results[k].call
    <3>1. ASSUME NEW sub \in Submits(S), sub[1] = i, S[i].calls[sub[2]].id = S[i].results[k].call
          PROVE  \E j \in SubmitsOf(S[i]) : S[i].calls[j].id = S[i].results[k].call
      <4>1. PICK h \in DOMAIN S : \E j \in SubmitsOf(S[h]) : sub = <<h, j>> BY <1>2, <3>1
      <4>2. PICK j \in SubmitsOf(S[h]) : sub = <<h, j>> BY <4>1
      <4>3. h = i /\ sub[2] = j BY <3>1, <4>2
      <4> QED BY <3>1, <4>2, <4>3
    <3>2. ASSUME NEW j \in SubmitsOf(S[i]), S[i].calls[j].id = S[i].results[k].call
          PROVE  \E sub \in Submits(S) : sub[1] = i /\ S[i].calls[sub[2]].id = S[i].results[k].call
      <4>1. <<i, j>> \in Submits(S) BY <1>2
      <4> QED BY <3>2, <4>1
    <3> QED BY <3>1, <3>2
  <2>3. at \in Rejections(S)
          <=> \E i \in DOMAIN S : \E k \in DOMAIN S[i].results :
                /\ at = <<i, k>> /\ S[i].results[k].says = "no"
                /\ \E sub \in Submits(S) : sub[1] = i /\ S[i].calls[sub[2]].id = S[i].results[k].call
    BY <2>1 DEF Rejections
  <2> QED BY <2>2, <2>3 DEF RejectedOf
<1> QED BY <1>1, <1>2, <1>3

\* A line more adds its pairs, which are new.
LEMMA PairsGrow ==
  ASSUME NEW Q, NEW n \in Nat, NEW K, IsFiniteSet(Q), IsFiniteSet(K),
         \A at \in Q : \E i \in 1..n : \E j : at = <<i, j>>
  PROVE  /\ IsFiniteSet(Q \cup ({n + 1} \X K))
         /\ Cardinality(Q \cup ({n + 1} \X K)) = Cardinality(Q) + Cardinality(K)
         /\ Cardinality(Q) \in Nat /\ Cardinality(K) \in Nat
<1> DEFINE P == {n + 1} \X K
<1>1. IsFiniteSet({n + 1}) /\ Cardinality({n + 1}) = 1 BY FS_Singleton
<1>2. Cardinality(K) \in Nat /\ Cardinality(Q) \in Nat BY FS_CardinalityType
<1>3. IsFiniteSet(P) /\ Cardinality(P) = 1 * Cardinality(K) BY <1>1, FS_Product
<1>4. Q \cap P = {}
  <2> SUFFICES ASSUME NEW at \in Q, at \in P PROVE FALSE OBVIOUS
  <2>1. PICK i \in 1..n : \E j : at = <<i, j>> OBVIOUS
  <2>2. at[1] = i /\ at[1] = n + 1 BY <2>1
  <2> QED BY <2>2
<1> HIDE DEF P
<1>5. Cardinality(Q \cap P) = 0 BY <1>4, FS_EmptySet
<1>6. /\ IsFiniteSet(Q \cup P)
      /\ Cardinality(Q \cup P) = Cardinality(Q) + Cardinality(P) - Cardinality(Q \cap P)
  BY <1>3, FS_Union
<1> QED BY <1>2, <1>3, <1>5, <1>6 DEF P

LEMMA CountsGrow ==
  ASSUME NEW S, NEW T, NEW n, NEW line, Grown(S, T, n, line)
  PROVE  /\ Calls(T) = Calls(S) \cup ({n + 1} \X DOMAIN line.calls)
         /\ Submits(T) = Submits(S) \cup ({n + 1} \X SubmitsOf(line))
         /\ Rejections(T) = Rejections(S) \cup ({n + 1} \X RejectedOf(line))
         /\ Attempts(T) = IF SubmitsOf(line) = {} THEN Attempts(S) ELSE Attempts(S) \cup {n + 1}
         /\ n + 1 \notin Attempts(S)
<1>1. /\ n \in Nat /\ DOMAIN S = 1..n /\ DOMAIN T = 1..(n + 1) /\ n + 1 \notin 1..n
      /\ \A i \in 1..n : T[i] = S[i]
      /\ T[n + 1] = line
  BY DEF Grown
<1>2. 1..(n + 1) = 1..n \cup {n + 1} BY <1>1
<1>3. ASSUME NEW at
      PROVE  at \in Calls(T) <=> at \in Calls(S) \cup ({n + 1} \X DOMAIN line.calls)
  BY <1>1, <1>2, PairsAre
<1>4. ASSUME NEW at
      PROVE  at \in Submits(T) <=> at \in Submits(S) \cup ({n + 1} \X SubmitsOf(line))
  BY <1>1, <1>2, PairsAre
<1>5. ASSUME NEW at
      PROVE  at \in Rejections(T) <=> at \in Rejections(S) \cup ({n + 1} \X RejectedOf(line))
  BY <1>1, <1>2, PairsAre
<1>6. Attempts(T) = IF SubmitsOf(line) = {} THEN Attempts(S) ELSE Attempts(S) \cup {n + 1}
  BY <1>1, <1>2 DEF Attempts
<1>7. n + 1 \notin Attempts(S) BY <1>1 DEF Attempts
<1> QED BY <1>3, <1>4, <1>5, <1>6, <1>7

\* With one attempt a step there are as many attempts as steps that have one.
LEMMA OneEach ==
  ASSUME NEW S, ~TwoIn(S), IsFiniteSet(Submits(S))
  PROVE  Cardinality(Submits(S)) = Cardinality(Attempts(S)) /\ IsFiniteSet(Attempts(S))
<1> DEFINE first == [at \in Submits(S) |-> at[1]]
<1>1. ASSUME NEW at \in Submits(S) PROVE at[1] \in Attempts(S)
  <2>1. PICK i \in DOMAIN S : \E j \in SubmitsOf(S[i]) : at = <<i, j>> BY PairsAre
  <2> QED BY <2>1 DEF Attempts
<1>2. \A i \in Attempts(S) : \E at \in Submits(S) : at[1] = i
  <2> TAKE i \in Attempts(S)
  <2>1. PICK j \in SubmitsOf(S[i]) : i \in DOMAIN S BY DEF Attempts
  <2>2. <<i, j>> \in Submits(S) BY <2>1, PairsAre
  <2> QED BY <2>2
<1>3. \A at, bt \in Submits(S) : at[1] = bt[1] => at = bt
  BY DEF TwoIn
<1>4. first \in Bijection(Submits(S), Attempts(S))
  <2>1. first \in [Submits(S) -> Attempts(S)] BY <1>1
  <2>2. first \in Injection(Submits(S), Attempts(S)) BY <1>3, <2>1 DEF Injection, IsInjective
  <2>3. first \in Surjection(Submits(S), Attempts(S)) BY <1>2, <2>1 DEF Surjection
  <2> QED BY <2>2, <2>3 DEF Bijection
<1> HIDE DEF first
<1>5. ExistsBijection(Submits(S), Attempts(S)) BY <1>4 DEF ExistsBijection
<1> QED BY <1>5, FS_Bijection

(* The steps of a trace *)

\* Each result answers the call of its place; the last calls may be owed theirs.
Paired(s) ==
  \E m, r \in Nat :
    /\ r <= m /\ DOMAIN s.calls = 1..m /\ DOMAIN s.results = 1..r
    /\ \A k \in 1..r : s.results[k].call = s.calls[k].id
Full(s) == DOMAIN s.results = DOMAIN s.calls
Shaped(s) ==
  /\ \E i, body, cost, cum : s = StepLine(i, body, cost, cum)
  /\ \E X : s.results \in Seq(X)

StepOK(s, i, before, brain) ==
  /\ s.type = "step" /\ s.step = i
  /\ s.cost \in Nat /\ s.cum \in Nat /\ s.cum = before + s.cost
  /\ \A key \in UsageKeys : s.usage[key] \in Nat
  /\ brain = "api" => s.hashed = TRUE
  /\ s.stop_reason # ""
  /\ Paired(s) /\ Shaped(s)

CumOf(S, n) == IF n = 0 THEN 0 ELSE S[n].cum

\* No two calls have one id.
IdsApart(S) ==
  \A i, h \in DOMAIN S : \A j \in DOMAIN S[i].calls : \A k \in DOMAIN S[h].calls :
    S[i].calls[j].id = S[h].calls[k].id => i = h /\ j = k

StepsOK(S, n, brain) ==
  /\ n \in Nat /\ DOMAIN S = 1..n
  /\ \A i \in 1..n : StepOK(S[i], i, CumOf(S, i - 1), brain)
  /\ \A i \in 1..(n - 1) : Full(S[i])
  /\ IdsApart(S)

LEMMA CheckStepOK ==
  ASSUME NEW S, NEW n, NEW brain, StepsOK(S, n, brain), Len(S) = n, NEW accepted \in BOOLEAN,
         accepted /\ n > 0 => Full(S[n]),
         NEW i \in 1..n
  PROVE  CheckStep(S, i, accepted, brain) = {}
<1> DEFINE step == S[i]
           before == IF i = 1 THEN 0 ELSE S[i - 1].cum
           ids == {step.calls[j].id : j \in DOMAIN step.calls}
           Answered(id) == Cardinality({k \in DOMAIN step.results : step.results[k].call = id})
           mayOwe == i = Len(S) /\ ~accepted
           Earlier(at, j) == at[1] < i \/ (at[1] = i /\ at[2] < j)
           three == step.step # i
           four == \/ \E k \in DOMAIN step.results : step.results[k].call \notin ids
                   \/ \E id \in ids : Answered(id) # 1 /\ ~(Answered(id) = 0 /\ mayOwe)
           five == \E j \in DOMAIN step.calls, at \in Calls(S) :
                     Earlier(at, j) /\ S[at[1]].calls[at[2]].id = step.calls[j].id
           six == step.cum < before \/ step.cum # before + step.cost
           twelve == \/ \E key \in UsageKeys : step.usage[key] < 0
                     \/ HashMissing(step, brain) \/ step.stop_reason = ""
<1>1. /\ n \in Nat /\ DOMAIN S = 1..n /\ StepOK(step, i, CumOf(S, i - 1), brain) /\ IdsApart(S)
      /\ i # n => Full(step)
  BY DEF StepsOK
<1>2. PICK m, r \in Nat : /\ r <= m /\ DOMAIN step.calls = 1..m /\ DOMAIN step.results = 1..r
                          /\ \A k \in 1..r : step.results[k].call = step.calls[k].id
  BY <1>1 DEF StepOK, Paired
<1>3. ~three BY <1>1 DEF StepOK
<1>4. ~four
  <2>1. \A k \in DOMAIN step.results : step.results[k].call \in ids
    BY <1>2
  <2>2. ASSUME NEW j \in 1..m
        PROVE  LET id == step.calls[j].id IN Answered(id) = 1 \/ (Answered(id) = 0 /\ mayOwe)
    <3> DEFINE id == step.calls[j].id
               at == {k \in DOMAIN step.results : step.results[k].call = id}
    <3>1. \A k \in 1..r : step.results[k].call = id <=> k = j
      BY <1>1, <1>2 DEF IdsApart
    <3>2. CASE j \in 1..r
      <4>1. at = {j} BY <1>2, <3>1, <3>2
      <4>2. Cardinality(at) = 1 BY <4>1, FS_Singleton
      <4> QED BY <4>2
    <3>3. CASE j \notin 1..r
      <4>1. at = {} BY <1>2, <3>1, <3>3
      <4>2. Cardinality(at) = 0 BY <4>1, FS_EmptySet
      <4>3. ~Full(step) BY <1>2, <3>3 DEF Full
      <4>4. mayOwe BY <1>1, <4>3
      <4> QED BY <4>2, <4>4
    <3> QED BY <3>2, <3>3
  <2> HIDE DEF Answered, mayOwe
  <2> QED BY <1>2, <2>1, <2>2
<1>5. ~five
  <2> SUFFICES ASSUME NEW j \in DOMAIN step.calls, NEW at \in Calls(S), Earlier(at, j),
                      S[at[1]].calls[at[2]].id = step.calls[j].id
               PROVE  FALSE
    OBVIOUS
  <2>1. PICK h \in DOMAIN S : \E k \in DOMAIN S[h].calls : at = <<h, k>> BY PairsAre
  <2>2. PICK k \in DOMAIN S[h].calls : at = <<h, k>> BY <2>1
  <2>3. at[1] = h /\ at[2] = k BY <2>2
  <2>4. h = i /\ k = j BY <1>1, <2>2, <2>3 DEF IdsApart
  <2> QED BY <1>2, <2>3, <2>4
<1>6. ~six
  <2>1. before = CumOf(S, i - 1) /\ before \in Nat
    <3>1. CASE i = 1 BY <3>1 DEF CumOf
    <3>2. CASE i # 1
      <4>1. i - 1 \in 1..n /\ i - 1 # 0 BY <1>1, <3>2
      <4>2. S[i - 1].cum \in Nat BY <4>1 DEF StepsOK, StepOK
      <4> QED BY <3>2, <4>1, <4>2 DEF CumOf
    <3> QED BY <3>1, <3>2
  <2>2. step.cum = CumOf(S, i - 1) + step.cost /\ step.cost \in Nat
    BY <1>1 DEF StepOK
  <2> HIDE DEF before, step
  <2> QED BY <2>1, <2>2
<1>7. ~twelve
  <2>1. ~HashMissing(step, brain)
    <3>1. brain = "api" => step.hashed = TRUE BY <1>1 DEF StepOK
    <3> QED BY <3>1, Zenon DEF HashMissing
  <2>2. \A key \in UsageKeys : ~(step.usage[key] < 0)
    <3>1. \A key \in UsageKeys : step.usage[key] \in Nat
      BY <1>1 DEF StepOK
    <3> HIDE DEF step
    <3>2. \A x \in Nat : ~(x < 0) OBVIOUS
    <3> QED BY <3>1, <3>2
  <2>3. step.stop_reason # "" BY <1>1 DEF StepOK
  <2> QED BY <2>1, <2>2, <2>3
<1>8. CheckStep(S, i, accepted, brain)
        = When(three, 3) \cup When(four, 4) \cup When(five, 5) \cup When(six, 6) \cup When(twelve, 12)
  BY DEF CheckStep
<1> HIDE DEF three, four, five, six, twelve
<1> QED BY <1>3, <1>4, <1>5, <1>6, <1>7, <1>8 DEF When

\* Nothing wrong with the steps.
LEMMA CheckStepsOK ==
  ASSUME NEW S, NEW n, NEW brain, StepsOK(S, n, brain), Len(S) = n, NEW accepted \in BOOLEAN,
         accepted /\ n > 0 => Full(S[n])
  PROVE  CheckSteps(S, accepted, brain) = {}
<1>1. DOMAIN S = 1..n BY DEF StepsOK
<1>2. \A i \in DOMAIN S : CheckStep(S, i, accepted, brain) = {} BY <1>1, CheckStepOK
<1> QED BY <1>2 DEF CheckSteps

(* A whole trace, and what the validator says of it *)

Finite(S) ==
  /\ IsFiniteSet(Calls(S)) /\ IsFiniteSet(Submits(S))
  /\ IsFiniteSet(Rejections(S)) /\ IsFiniteSet(Attempts(S))
Within(S, c) == Cardinality(Calls(S)) <= c.tools /\ Cardinality(Attempts(S)) <= c.submits

PointOK(point, stored) ==
  /\ point.type = "checkpoint" /\ point.caller = "harness"
  /\ \A stores \in stored : point.risk = Risk(stores)
  /\ \/ point.filled = {}
     \/ /\ point.by # "simulated"
        /\ \A stores \in stored, kinds \in point.filled :
             kinds \subseteq {stores[i].name : i \in DOMAIN stores}

\* The lines before an ending.
BodyOK(f, n, p, e, c, stored) ==
  /\ Framed(f, n, p, e) /\ f[1] = RunStart(c)
  /\ StepsOK(StepsOf(f, n), n, c.brain)
  /\ Finite(StepsOf(f, n)) /\ Within(StepsOf(f, n), c)
  /\ p = 1 => PointOK(f[2 + n], stored)
  /\ c.arm = "baseline" => p = 0

\* An ending, and that it is what the steps add up to.
StopOK(end, S, n, p, c) ==
  /\ end.type = "run_end" /\ end.stop \in StopConditions
  /\ end.note.truncat = FALSE /\ end.note.counts \in {0, 1}
  /\ end.stop = "accepted" /\ n > 0 => Full(S[n])
  /\ c.arm = "advanced" /\ end.stop \in {"accepted", "gate_rejected"} => p = 1
TotalsOK(end, S, n) ==
  /\ end.steps = n /\ end.cost = CumOf(S, n) /\ end.calls = Cardinality(Calls(S))
  /\ ~TwoIn(S) => /\ end.submits = Cardinality(Submits(S))
                  /\ end.rounds = Cardinality(Rejections(S))

Pardoned(S, end, c) ==
  When(TwoIn(S), 8) \cup When(TwoIn(S), 9) \cup When(c.model # ConfiguredModel, 13)
  \cup When(end.stop # "timeout" /\ end.note.counts > 0, 16)

LEMMA WhenIs == ASSUME NEW wrong \in BOOLEAN, NEW check
                PROVE  (wrong => When(wrong, check) = {check}) /\ (~wrong => When(wrong, check) = {})
  BY DEF When

LEMMA StartPasses ==
  ASSUME NEW c \in Cells, NEW place, place.case = c.case, place.arm = c.arm
  PROVE  CheckStart(place, RunStart(c)) \subseteq When(c.model # ConfiguredModel, 13)
<1>1. c.overridden \subseteq Art30Vars BY LifeAssumption
<1>2. PICK start : start = RunStart(c) OBVIOUS
<1>3. /\ start.case = c.case /\ start.arm = c.arm /\ start.mode = "live" /\ start.model = c.model
      /\ start.overridden = c.overridden
  BY <1>2 DEF RunStart
<1> QED BY <1>1, <1>2, <1>3 DEF CheckStart, When

\* The two budgets the validator finds in a run_start allow what the cell does.
LEMMA BudgetsRead ==
  ASSUME NEW c \in Cells
  PROVE  c.tools <= ToolsAllowed(RunStart(c)) /\ ToolsAllowed(RunStart(c)) \in Nat /\ SubmitsAllowed(RunStart(c)) = c.submits
<1>1. /\ "ART30_TOOL_BUDGET" \notin c.overridden =>
           c.tools <= IF c.kind = "real" THEN RealTools ELSE SyntheticTools
      /\ "ART30_SUBMIT_BUDGET" \notin c.overridden => c.submits = SubmitBudget
      /\ c.tools \in Nat
  BY LifeAssumption
<1>2. PICK start : start = RunStart(c) OBVIOUS
<1>3. /\ start.kind = c.kind /\ start.tool_budget = c.tools /\ start.submit_budget = c.submits
      /\ start.overridden = c.overridden
  BY <1>2 DEF RunStart
<1> QED BY <1>1, <1>2, <1>3, BudgetAssumption DEF ToolsAllowed, SubmitsAllowed

LEMMA EndPasses ==
  ASSUME NEW c \in Cells, NEW S, NEW n \in Nat, Len(S) = n, DOMAIN S = 1..n,
         Finite(S), Within(S, c), NEW p, NEW end, StopOK(end, S, n, p, c), TotalsOK(end, S, n)
  PROVE  CheckRunEnd(end, S, RunStart(c)) \subseteq Pardoned(S, end, c)
<1> DEFINE start == RunStart(c)
           cum == IF S = <<>> THEN 0 ELSE S[Len(S)].cum
           submits == Cardinality(Submits(S))
           truncated == end.note.truncat \/ end.note.counts > 0
           fourteen == end.stop \notin StopConditions
           seven == end.cost # cum \/ end.steps # Len(S) \/ end.calls # Cardinality(Calls(S))
           eight == \/ end.submits # submits \/ submits > SubmitsAllowed(start)
                    \/ end.calls > ToolsAllowed(start)
           nine == end.rounds # Cardinality(Rejections(S))
           sixteen == truncated /\ (end.stop # "timeout" \/ end.note.counts # 1)
<1>1. ~fourteen BY DEF StopOK
<1>2. ~seven
  <2>1. S = <<>> <=> n = 0 BY Len(S) = n
  <2> QED BY <2>1 DEF TotalsOK, CumOf
<1>3. eight => TwoIn(S)
  <2> SUFFICES ASSUME ~TwoIn(S) PROVE ~eight OBVIOUS
  <2>1. end.submits = submits /\ end.calls = Cardinality(Calls(S)) BY DEF TotalsOK
  <2>2. submits = Cardinality(Attempts(S)) BY OneEach DEF Finite
  <2>3. Cardinality(Calls(S)) \in Nat /\ submits \in Nat BY FS_CardinalityType DEF Finite
  <2>4. c.tools \in Nat /\ c.submits \in Nat BY LifeAssumption
  <2>5. Cardinality(Calls(S)) <= c.tools /\ submits <= c.submits BY <2>2 DEF Within
  <2> HIDE DEF submits
  <2> QED BY <2>1, <2>3, <2>4, <2>5, BudgetsRead
<1>4. nine => TwoIn(S) BY DEF TotalsOK
<1>5. sixteen => end.stop # "timeout" /\ end.note.counts > 0
  <2>1. end.note.truncat = FALSE BY DEF StopOK
  <2>2. truncated => end.note.counts > 0 BY <2>1, Zenon
  <2>3. end.note.counts \in {0, 1} BY DEF StopOK
  <2>4. end.note.counts > 0 => end.note.counts = 1 BY <2>3
  <2> HIDE DEF truncated
  <2> QED BY <2>2, <2>4
<1>6. CheckRunEnd(end, S, start)
        = When(fourteen, 14) \cup When(seven, 7) \cup When(eight, 8) \cup When(nine, 9)
          \cup When(sixteen, 16)
  BY DEF CheckRunEnd
<1> HIDE DEF fourteen, seven, eight, nine, sixteen, start
<1>7. When(fourteen, 14) = {} /\ When(seven, 7) = {} BY <1>1, <1>2 DEF When
<1>8. When(eight, 8) \subseteq When(TwoIn(S), 8) BY <1>3 DEF When
<1>9. When(nine, 9) \subseteq When(TwoIn(S), 9) BY <1>4 DEF When
<1>10. When(sixteen, 16) \subseteq When(end.stop # "timeout" /\ end.note.counts > 0, 16)
  BY <1>5 DEF When
<1> QED BY <1>6, <1>7, <1>8, <1>9, <1>10 DEF Pardoned, start

LEMMA GatePasses ==
  ASSUME NEW c \in Cells, NEW points, NEW p \in {0, 1}, DOMAIN points = 1..p, Len(points) = p,
         NEW stored, p = 1 => PointOK(points[1], stored), c.arm = "baseline" => p = 0,
         NEW S, NEW n, NEW end, StopOK(end, S, n, p, c)
  PROVE  CheckGate(points, RunStart(c), end, stored) = {}
<1> DEFINE start == RunStart(c)
           some == start.arm = "baseline" /\ points # <<>>
           many == /\ start.arm = "advanced" /\ end.stop \in {"accepted", "gate_rejected"}
                   /\ Len(points) # 1
           Wrong(i) == When(points[i].caller # "harness", 10)
              \cup When(\E stores \in stored : points[i].risk # Risk(stores), 11)
              \cup CheckCompletions(points[i], stored)
<1>1. start.arm = c.arm BY DEF RunStart
<1> HIDE DEF start
<1>2. points = <<>> <=> p = 0 BY DOMAIN points = 1..p, Len(points) = p
<1>3. ~some BY <1>1, <1>2
<1>4. ~many BY <1>1 DEF StopOK
<1>5. ASSUME NEW i \in DOMAIN points PROVE Wrong(i) = {}
  <2>1. i = 1 /\ p = 1 BY <1>5
  <2>2. PointOK(points[i], stored) BY <2>1
  <2>3. PICK point : point = points[i] OBVIOUS
  <2>4. PointOK(point, stored) BY <2>2, <2>3
  <2>5. When(point.caller # "harness", 10) = {} BY <2>4 DEF PointOK, When
  <2>6. When(\E stores \in stored : point.risk # Risk(stores), 11) = {} BY <2>4 DEF PointOK, When
  <2>7. CheckCompletions(point, stored) = {} BY <2>4 DEF PointOK, CheckCompletions, When
  <2> QED BY <2>3, <2>5, <2>6, <2>7
<1>6. CheckGate(points, start, end, stored)
        = When(some, 10) \cup When(many, 10) \cup UNION {Wrong(i) : i \in DOMAIN points}
  BY DEF CheckGate
<1> HIDE DEF some, many, Wrong
<1>7. UNION {Wrong(i) : i \in DOMAIN points} = {} BY <1>5
<1>8. When(some, 10) = {} /\ When(many, 10) = {} BY <1>3, <1>4 DEF When
<1> QED BY <1>6, <1>7, <1>8 DEF start

\* What a line is to the validator.
Whole(f) == \A i \in DOMAIN f : f[i].type \notin {"torn", "unended"}

LEMMA WholeIsParsed ==
  ASSUME NEW n \in Nat, NEW f, f = [i \in 1..n |-> f[i]], Whole(f)
  PROVE  Parsed(f) = f
<1>1. \A i \in 1..n : Line(f[i]) = f[i] BY DEF Whole, Line
<1>2. DOMAIN f = 1..n OBVIOUS
<1>3. Parsed(f) = [i \in 1..n |-> f[i]] BY <1>1, <1>2 DEF Parsed
<1> QED BY <1>3

LEMMA LastLine ==
  ASSUME NEW f, NEW n, NEW p, Framed(f, n, p, 1)
  PROVE  /\ Len(f) = 2 + n + p /\ f[Len(f)].type = "run_end" /\ f[1].type = "run_start"
         /\ f # <<>>
<1>1. n \in Nat /\ p \in Nat /\ Len(f) = 1 + n + p + 1 /\ f # <<>> BY FramedDomain
<1>2. f[1].type = "run_start" /\ \A i \in (2 + n + p)..(1 + n + p + 1) : f[i].type = "run_end"
  BY DEF Framed
<1> QED BY <1>1, <1>2

\* Sequences by their lengths.
LEMMA StretchLen ==
  ASSUME NEW m \in Nat, NEW g, g = [k \in 1..m |-> g[k]]
  PROVE  Len(g) = m /\ DOMAIN g = 1..m
<1> DEFINE X == {g[k] : k \in 1..m}
<1>1. DOMAIN g = 1..m OBVIOUS
<1>2. g \in Seq(X)
  <2>1. g \in [1..m -> X] OBVIOUS
  <2> QED BY <2>1
<1> QED BY <1>1, <1>2

LEMMA StepsLen ==
  ASSUME NEW f, NEW n \in Nat
  PROVE  Len(StepsOf(f, n)) = n /\ DOMAIN StepsOf(f, n) = 1..n
<1> DEFINE g == StepsOf(f, n)
<1>1. g = [k \in 1..n |-> g[k]] BY DEF StepsOf
<1> HIDE DEF g
<1>2. Len(g) = n /\ DOMAIN g = 1..n BY <1>1, StretchLen
<1> QED BY <1>2 DEF g

\* Only a framed trace without a step after its checkpoint gets past check 2.
LEMMA FrameReads ==
  ASSUME NEW n, NEW p, NEW place, NEW left, NEW stored, Framed(Parsed(left), n, p, 1),
         \A i \in DOMAIN left : left[i].type # "torn"
  PROVE  LET f == Parsed(left)
             end == f[Len(f)]
             points == [k \in 1..p |-> f[1 + n + k]]
         IN
         CheckTrace(place, left, stored)
           = CheckStart(place, f[1])
             \cup CheckSteps(StepsOf(f, n), end.stop = "accepted", f[1].brain)
             \cup CheckRunEnd(end, StepsOf(f, n), f[1])
             \cup CheckGate(points, f[1], end, IF end.cites THEN stored ELSE {})
             \cup (IF end.stop = "accepted" THEN {} ELSE CheckDiagnosis(place, end))
<1> DEFINE f == Parsed(left)
           end == f[Len(f)]
           points == [k \in 1..p |-> f[1 + n + k]]
           steps == Only(f, "step")
           seen == Only(f, "checkpoint")
           framed == /\ f[1].type = "run_start" /\ end.type = "run_end"
                     /\ Len(Only(f, "run_start")) = 1 /\ Len(Only(f, "run_end")) = 1
           pointFirst == /\ seen # <<>> /\ steps # <<>>
                         /\ \E i, j \in DOMAIN f :
                              /\ i < j /\ f[j].type = "step" /\ f[i].type = "checkpoint"
                              /\ \A k \in 1..i-1 : f[k].type # "checkpoint"
           damaged == left = <<>> \/ \E i \in DOMAIN left : left[i].type = "torn"
           rest == CheckStart(place, f[1])
                   \cup CheckSteps(steps, end.stop = "accepted", f[1].brain)
                   \cup CheckRunEnd(end, steps, f[1])
                   \cup CheckGate(seen, f[1], end, IF end.cites THEN stored ELSE {})
                   \cup (IF end.stop = "accepted" THEN {} ELSE CheckDiagnosis(place, end))
<1>0. Framed(f, n, p, 1) /\ DOMAIN f = DOMAIN left BY DEF Parsed
<1> HIDE DEF f
<1>1. /\ n \in Nat /\ p \in Nat /\ DOMAIN f = 1..(2 + n + p) /\ Len(f) = 2 + n + p
  <2>1. n \in Nat /\ p \in Nat /\ DOMAIN f = 1..(1 + n + p + 1) /\ Len(f) = 1 + n + p + 1
    BY <1>0, FramedDomain
  <2> QED BY <2>1
<1>2. framed
  <2>1. Only(f, "run_start") = [k \in 1..1 |-> f[k]] /\ Only(f, "run_end") = [k \in 1..1 |-> f[1 + n + p + k]]
    BY <1>0, FramedOnly
  <2> DEFINE starts == [k \in 1..1 |-> f[k]]
             ends == [k \in 1..1 |-> f[1 + n + p + k]]
  <2>2. Len(starts) = 1
    <3>1. starts = [k \in 1..1 |-> starts[k]] OBVIOUS
    <3> HIDE DEF starts
    <3> QED BY <3>1, StretchLen
  <2>3. Len(ends) = 1
    <3>1. ends = [k \in 1..1 |-> ends[k]] OBVIOUS
    <3> HIDE DEF ends
    <3> QED BY <3>1, StretchLen
  <2> HIDE DEF starts, ends
  <2> QED BY <2>1, <2>2, <2>3, <1>0, LastLine DEF starts, ends
<1>3. ~pointFirst
  <2> SUFFICES ASSUME NEW i \in DOMAIN f, NEW j \in DOMAIN f, i < j, f[j].type = "step",
                      f[i].type = "checkpoint"
               PROVE  FALSE
    OBVIOUS
  <2>1. Places(f, "step") = (1 + 1)..(1 + n) /\ Places(f, "checkpoint") = (1 + n + 1)..(1 + n + p)
    BY <1>0, FramedPlaces
  <2>2. j \in (1 + 1)..(1 + n) /\ i \in (1 + n + 1)..(1 + n + p) BY <2>1 DEF Places
  <2> QED BY <1>1, <2>2
<1>4. ~damaged
  <2>1. 1 \in DOMAIN left BY <1>0, <1>1
  <2> QED BY <2>1
<1>5. CheckTrace(place, left, stored)
        = IF damaged THEN {1} ELSE IF ~framed THEN {2} ELSE When(pointFirst, 2) \cup rest
  BY DEF CheckTrace, f
<1> HIDE DEF damaged, framed, pointFirst
<1>6. CheckTrace(place, left, stored) = rest
  BY <1>2, <1>3, <1>4, <1>5 DEF When
<1>7. steps = StepsOf(f, n) /\ seen = points BY <1>0, FramedOnly
<1> HIDE DEF steps, seen
<1> QED BY <1>6, <1>7 DEF end, f

\* A trace with an ending that is true passes, but for what is pardoned.
LEMMA Passes ==
  ASSUME NEW c \in Cells, NEW left, NEW n, NEW p, NEW stored, NEW S, NEW end,
         BodyOK(Parsed(left), n, p, 1, c, stored), S = StepsOf(Parsed(left), n),
         end = Parsed(left)[Len(Parsed(left))], StopOK(end, S, n, p, c), TotalsOK(end, S, n),
         \A i \in DOMAIN left : left[i].type # "torn",
         NEW place, place.case = c.case, place.arm = c.arm,
         CheckDiagnosis(place, end) = {} \/ end.stop = "accepted"
  PROVE  CheckTrace(place, left, stored) \subseteq Pardoned(S, end, c)
<1> DEFINE f == Parsed(left)
           points == [k \in 1..p |-> f[1 + n + k]]
           cited == IF end.cites THEN stored ELSE {}
<1>1. cited \subseteq stored /\ S = StepsOf(f, n) OBVIOUS
<1>2. /\ Framed(f, n, p, 1) /\ f[1] = RunStart(c) /\ StepsOK(S, n, c.brain)
      /\ Finite(S) /\ Within(S, c)
      /\ p = 1 => PointOK(f[2 + n], stored)
      /\ c.arm = "baseline" => p = 0
  BY <1>1 DEF BodyOK
<1>3. n \in Nat /\ p \in {0, 1} BY <1>2 DEF Framed
<1>4. Len(S) = n /\ DOMAIN S = 1..n BY <1>1, <1>3, StepsLen
<1>5. StopOK(end, S, n, p, c) /\ TotalsOK(end, S, n) OBVIOUS
<1>6. /\ points = [k \in 1..p |-> points[k]] /\ (p = 1 => points[1] = f[2 + n]) BY <1>3
<1>7. CheckTrace(place, left, stored)
        = CheckStart(place, f[1]) \cup CheckSteps(S, end.stop = "accepted", f[1].brain)
          \cup CheckRunEnd(end, S, f[1]) \cup CheckGate(points, f[1], end, cited)
          \cup (IF end.stop = "accepted" THEN {} ELSE CheckDiagnosis(place, end))
  BY <1>2, FrameReads
<1> HIDE DEF points, f, cited
<1>8. CheckStart(place, f[1]) \subseteq When(c.model # ConfiguredModel, 13) BY <1>2, StartPasses
<1>9. CheckSteps(S, end.stop = "accepted", f[1].brain) = {}
  <2>1. f[1].brain = c.brain BY <1>2 DEF RunStart
  <2>2. PICK accepted \in BOOLEAN : accepted = (end.stop = "accepted") OBVIOUS
  <2>3. accepted /\ n > 0 => Full(S[n]) BY <1>5, <2>2 DEF StopOK
  <2> QED BY <1>2, <1>4, <2>1, <2>2, <2>3, CheckStepsOK
<1>10. CheckRunEnd(end, S, f[1]) \subseteq Pardoned(S, end, c) BY <1>2, <1>3, <1>4, <1>5, EndPasses
<1>11. CheckGate(points, f[1], end, cited) = {}
  <2>1. Len(points) = p /\ DOMAIN points = 1..p BY <1>3, <1>6, StretchLen
  <2>2. p = 1 => PointOK(points[1], cited) BY <1>1, <1>2, <1>6 DEF PointOK
  <2> QED BY <1>2, <1>3, <1>5, <2>1, <2>2, GatePasses
<1>12. When(c.model # ConfiguredModel, 13) \subseteq Pardoned(S, end, c) BY DEF Pardoned
<1> QED BY <1>7, <1>8, <1>9, <1>10, <1>11, <1>12

(* A trace that grows *)

LEMMA AppendIs ==
  ASSUME NEW f, NEW X, f \in Seq(X), NEW line
  PROVE  /\ \E Y : Append(f, line) \in Seq(Y)
         /\ Len(Append(f, line)) = Len(f) + 1 /\ Len(f) \in Nat
         /\ \A i \in 1..Len(f) : Append(f, line)[i] = f[i]
         /\ Append(f, line)[Len(f) + 1] = line
<1> DEFINE Y == X \cup {line}
<1>1. f \in Seq(Y) /\ line \in Y OBVIOUS
<1> HIDE DEF Y
<1>2. Append(f, line) \in Seq(Y) BY <1>1
<1> QED BY <1>1, <1>2

LEMMA FramedGrows ==
  ASSUME NEW f, NEW n, NEW p, NEW e, Framed(f, n, p, e), NEW line
  PROVE  /\ line.type = "step" /\ p = 0 /\ e = 0 => Framed(Append(f, line), n + 1, 0, 0)
         /\ line.type = "checkpoint" /\ p = 0 /\ e = 0 => Framed(Append(f, line), n, 1, 0)
         /\ line.type = "run_end" => Framed(Append(f, line), n, p, e + 1)
         /\ StepsOf(Append(f, line), n) = StepsOf(f, n)
         /\ Append(f, line)[Len(Append(f, line))] = line
<1>1. PICK X : f \in Seq(X) BY DEF Framed
<1>2. /\ n \in Nat /\ p \in {0, 1} /\ e \in Nat /\ Len(f) = 1 + n + p + e
      /\ f[1].type = "run_start"
      /\ \A i \in 2..(1 + n) : f[i].type = "step"
      /\ \A i \in (2 + n)..(1 + n + p) : f[i].type = "checkpoint"
      /\ \A i \in (2 + n + p)..(1 + n + p + e) : f[i].type = "run_end"
  BY DEF Framed
<1>3. PICK g : g = Append(f, line) OBVIOUS
<1>4. /\ \E Y : g \in Seq(Y)
      /\ Len(g) = 2 + n + p + e
      /\ \A i \in 1..(1 + n + p + e) : g[i] = f[i]
      /\ g[2 + n + p + e] = line
  <2>1. /\ \E Y : g \in Seq(Y)
        /\ Len(g) = Len(f) + 1
        /\ \A i \in 1..Len(f) : g[i] = f[i]
        /\ g[Len(f) + 1] = line
    <3>1. /\ \E Y : Append(f, line) \in Seq(Y)
          /\ Len(Append(f, line)) = Len(f) + 1 /\ Len(f) \in Nat
          /\ \A i \in 1..Len(f) : Append(f, line)[i] = f[i]
          /\ Append(f, line)[Len(f) + 1] = line
      BY <1>1, AppendIs, Zenon
    <3> QED BY <1>3, <3>1, Zenon
  <2>2. Len(f) + 1 = 2 + n + p + e BY <1>2
  <2>3. g[2 + n + p + e] = line BY <2>1, <2>2
  <2>4. Len(g) = 2 + n + p + e BY <2>1, <2>2
  <2>5. \A i \in 1..(1 + n + p + e) : g[i] = f[i] BY <1>2, <2>1
  <2> QED BY <2>1, <2>3, <2>4, <2>5, Zenon
<1>5. ASSUME line.type = "step", p = 0, e = 0 PROVE Framed(g, n + 1, 0, 0)
  <2>1. n + 1 \in Nat /\ Len(g) = 1 + (n + 1) + 0 + 0 BY <1>2, <1>4, <1>5
  <2>2. g[1].type = "run_start" BY <1>2, <1>4
  <2>3. \A i \in 2..(1 + (n + 1)) : g[i].type = "step" BY <1>2, <1>4, <1>5
  <2>4. 2 + (n + 1)..(1 + (n + 1) + 0) = {} /\ (2 + (n + 1) + 0)..(1 + (n + 1) + 0 + 0) = {} BY <1>2
  <2> QED BY <1>4, <2>1, <2>2, <2>3, <2>4 DEF Framed
<1>6. ASSUME line.type = "checkpoint", p = 0, e = 0 PROVE Framed(g, n, 1, 0)
  <2>1. Len(g) = 1 + n + 1 + 0 BY <1>2, <1>4, <1>6
  <2>2. g[1].type = "run_start" /\ \A i \in 2..(1 + n) : g[i].type = "step" BY <1>2, <1>4
  <2>3. \A i \in (2 + n)..(1 + n + 1) : g[i].type = "checkpoint" BY <1>2, <1>4, <1>6
  <2>4. (2 + n + 1)..(1 + n + 1 + 0) = {} BY <1>2
  <2> QED BY <1>2, <1>4, <2>1, <2>2, <2>3, <2>4 DEF Framed
<1>7. ASSUME line.type = "run_end" PROVE Framed(g, n, p, e + 1)
  <2>1. Len(g) = 1 + n + p + (e + 1) /\ e + 1 \in Nat BY <1>2, <1>4
  <2>2. g[1].type = "run_start" /\ \A i \in 2..(1 + n) : g[i].type = "step" BY <1>2, <1>4
  <2>3. \A i \in (2 + n)..(1 + n + p) : g[i].type = "checkpoint" BY <1>2, <1>4
  <2>4. \A i \in (2 + n + p)..(1 + n + p + (e + 1)) : g[i].type = "run_end" BY <1>2, <1>4, <1>7
  <2> QED BY <1>2, <1>4, <2>1, <2>2, <2>3, <2>4 DEF Framed
<1>8. StepsOf(g, n) = StepsOf(f, n)
  <2>1. \A k \in 1..n : k + 1 \in 1..(1 + n + p + e) BY <1>2
  <2> QED BY <1>4, <2>1 DEF StepsOf
<1> QED BY <1>3, <1>4, <1>5, <1>6, <1>7, <1>8

\* A step line more.
LEMMA StepGrows ==
  ASSUME NEW f, NEW n, Framed(f, n, 0, 0), NEW line, line.type = "step"
  PROVE  Grown(StepsOf(f, n), StepsOf(Append(f, line), n + 1), n, line)
<1>1. n \in Nat BY FramedDomain
<1>2. PICK X : f \in Seq(X) /\ Len(f) = 1 + n BY <1>1 DEF Framed
<1> DEFINE g == Append(f, line)
<1>3. /\ \A i \in 1..Len(f) : g[i] = f[i]
      /\ g[Len(f) + 1] = line
  BY <1>2, AppendIs
<1> HIDE DEF g
<1>4. \A i \in 1..(1 + n) : g[i] = f[i] BY <1>2, <1>3
<1>5. g[n + 2] = line
  <2>1. n + 2 = Len(f) + 1 BY <1>1, <1>2
  <2> QED BY <1>3, <2>1
<1>6. \A i \in 1..n : StepsOf(g, n + 1)[i] = StepsOf(f, n)[i] BY <1>1, <1>4 DEF StepsOf
<1>7. StepsOf(g, n + 1)[n + 1] = line BY <1>1, <1>5 DEF StepsOf
<1>8. DOMAIN StepsOf(f, n) = 1..n /\ DOMAIN StepsOf(g, n + 1) = 1..(n + 1) BY DEF StepsOf
<1> QED BY <1>1, <1>6, <1>7, <1>8 DEF Grown, g

LEMMA CumGrows ==
  ASSUME NEW S, NEW T, NEW n, NEW line, Grown(S, T, n, line)
  PROVE  /\ \A i \in 0..n : CumOf(T, i) = CumOf(S, i)
         /\ CumOf(T, n + 1) = line.cum
<1>1. n \in Nat /\ (\A i \in 1..n : T[i] = S[i]) /\ T[n + 1] = line BY DEF Grown
<1>2. ASSUME NEW i \in 0..n PROVE CumOf(T, i) = CumOf(S, i)
  <2>1. CASE i = 0 BY <2>1 DEF CumOf
  <2>2. CASE i # 0
    <3>1. i \in 1..n BY <1>1, <2>2
    <3> QED BY <1>1, <2>2, <3>1 DEF CumOf
  <2> QED BY <2>1, <2>2
<1>3. CumOf(T, n + 1) = line.cum
  <2>1. n + 1 # 0 BY <1>1
  <2> QED BY <1>1, <2>1 DEF CumOf
<1> QED BY <1>2, <1>3

LEMMA StepsOKGrow ==
  ASSUME NEW S, NEW T, NEW n, NEW line, Grown(S, T, n, line), NEW brain,
         StepsOK(S, n, brain), n > 0 => Full(S[n]),
         StepOK(line, n + 1, CumOf(S, n), brain),
         \A j, k \in DOMAIN line.calls : line.calls[j].id = line.calls[k].id => j = k,
         \A i \in 1..n : \A j \in DOMAIN S[i].calls : \A k \in DOMAIN line.calls :
           S[i].calls[j].id # line.calls[k].id
  PROVE  StepsOK(T, n + 1, brain)
<1>1. /\ n \in Nat /\ DOMAIN S = 1..n /\ DOMAIN T = 1..(n + 1) /\ n + 1 \in Nat
      /\ \A i \in 1..n : T[i] = S[i]
      /\ T[n + 1] = line
  BY DEF Grown
<1>2. \A i \in 1..(n + 1) : StepOK(T[i], i, CumOf(T, i - 1), brain)
  <2> TAKE i \in 1..(n + 1)
  <2>1. PICK h \in 0..n : h = i - 1 BY <1>1
  <2>2. CumOf(T, h) = CumOf(S, h) BY CumGrows
  <2>3. CASE i = n + 1
    <3>1. h = n BY <1>1, <2>1, <2>3
    <3> QED BY <1>1, <2>1, <2>2, <2>3, <3>1
  <2>4. CASE i # n + 1
    <3>1. i \in 1..n BY <1>1, <2>4
    <3>2. StepOK(S[i], i, CumOf(S, i - 1), brain) BY <3>1 DEF StepsOK
    <3> QED BY <1>1, <2>1, <2>2, <3>1, <3>2
  <2> QED BY <2>3, <2>4
<1>3. \A i \in 1..n : Full(T[i])
  <2> TAKE i \in 1..n
  <2>1. CASE i = n BY <1>1, <2>1
  <2>2. CASE i # n
    <3>1. i \in 1..(n - 1) BY <1>1, <2>2
    <3> QED BY <1>1, <3>1 DEF StepsOK
  <2> QED BY <2>1, <2>2
<1>4. IdsApart(T)
  <2> SUFFICES ASSUME NEW i \in 1..(n + 1), NEW h \in 1..(n + 1),
                      NEW j \in DOMAIN T[i].calls, NEW k \in DOMAIN T[h].calls,
                      T[i].calls[j].id = T[h].calls[k].id
               PROVE  i = h /\ j = k
    BY <1>1 DEF IdsApart
  <2>1. IdsApart(S) BY DEF StepsOK
  <2>2. CASE i \in 1..n /\ h \in 1..n BY <1>1, <2>1, <2>2 DEF IdsApart
  <2>3. CASE i \in 1..n /\ h = n + 1 BY <1>1, <2>3
  <2>4. CASE i = n + 1 /\ h \in 1..n
    <3>1. T[i] = line /\ T[h] = S[h] BY <1>1, <2>4
    <3>2. S[h].calls[k].id # line.calls[j].id BY <2>4, <3>1
    <3> QED BY <3>1, <3>2
  <2>5. CASE i = n + 1 /\ h = n + 1 BY <1>1, <2>5
  <2>6. \A x \in 1..(n + 1) : x \in 1..n \/ x = n + 1 BY <1>1
  <2> QED BY <2>2, <2>3, <2>4, <2>5, <2>6
<1>5. n + 1 - 1 = n BY <1>1
<1> QED BY <1>1, <1>2, <1>3, <1>4, <1>5 DEF StepsOK

LEMMA PairedIsFinite ==
  ASSUME NEW line, Paired(line)
  PROVE  /\ IsFiniteSet(DOMAIN line.calls) /\ IsFiniteSet(DOMAIN line.results)
         /\ IsFiniteSet(SubmitsOf(line)) /\ IsFiniteSet(RejectedOf(line))
<1>1. PICK m, r \in Nat : DOMAIN line.calls = 1..m /\ DOMAIN line.results = 1..r BY DEF Paired
<1>2. IsFiniteSet(1..m) /\ IsFiniteSet(1..r) BY FS_Interval
<1>3. IsFiniteSet(DOMAIN line.calls) /\ IsFiniteSet(DOMAIN line.results) BY <1>1, <1>2
<1>4. SubmitsOf(line) \in SUBSET DOMAIN line.calls BY DEF SubmitsOf
<1>5. RejectedOf(line) \in SUBSET DOMAIN line.results BY DEF RejectedOf
<1> QED BY <1>3, <1>4, <1>5, FS_Subset

\* What a line adds to the counts.
LEMMA CountsAdd ==
  ASSUME NEW S, NEW T, NEW n, NEW line, Grown(S, T, n, line), Finite(S), Paired(line)
  PROVE  /\ Finite(T)
         /\ Cardinality(Calls(T)) = Cardinality(Calls(S)) + Cardinality(DOMAIN line.calls)
         /\ Cardinality(Rejections(T)) = Cardinality(Rejections(S)) + Cardinality(RejectedOf(line))
         /\ Cardinality(Attempts(T))
              = IF SubmitsOf(line) = {} THEN Cardinality(Attempts(S))
                ELSE Cardinality(Attempts(S)) + 1
         /\ Cardinality(Calls(S)) \in Nat /\ Cardinality(Rejections(S)) \in Nat
         /\ Cardinality(Attempts(S)) \in Nat /\ Cardinality(RejectedOf(line)) \in Nat
         /\ Cardinality(DOMAIN line.calls) \in Nat
         /\ TwoIn(S) => TwoIn(T)
         /\ (\E j, k \in SubmitsOf(line) : j # k) => TwoIn(T)
<1>1. /\ Calls(T) = Calls(S) \cup ({n + 1} \X DOMAIN line.calls)
      /\ Submits(T) = Submits(S) \cup ({n + 1} \X SubmitsOf(line))
      /\ Rejections(T) = Rejections(S) \cup ({n + 1} \X RejectedOf(line))
      /\ Attempts(T) = IF SubmitsOf(line) = {} THEN Attempts(S) ELSE Attempts(S) \cup {n + 1}
      /\ n + 1 \notin Attempts(S)
  BY CountsGrow
<1>2. /\ IsFiniteSet(Calls(S)) /\ IsFiniteSet(Submits(S))
      /\ IsFiniteSet(Rejections(S)) /\ IsFiniteSet(Attempts(S))
  BY DEF Finite
<1>3. /\ IsFiniteSet(DOMAIN line.calls)
      /\ IsFiniteSet(SubmitsOf(line)) /\ IsFiniteSet(RejectedOf(line))
  BY PairedIsFinite
<1>4. n \in Nat /\ DOMAIN S = 1..n BY DEF Grown
<1>5. \A at \in Calls(S) : \E i \in 1..n : \E j : at = <<i, j>> BY <1>4, PairsAre
<1>6. \A at \in Submits(S) : \E i \in 1..n : \E j : at = <<i, j>> BY <1>4, PairsAre
<1>7. \A at \in Rejections(S) : \E i \in 1..n : \E j : at = <<i, j>> BY <1>4, PairsAre
<1>8. /\ IsFiniteSet(Calls(T))
      /\ Cardinality(Calls(T)) = Cardinality(Calls(S)) + Cardinality(DOMAIN line.calls)
      /\ Cardinality(Calls(S)) \in Nat /\ Cardinality(DOMAIN line.calls) \in Nat
  <2>1. PICK Q, K : Q = Calls(S) /\ K = DOMAIN line.calls OBVIOUS
  <2>2. IsFiniteSet(Q) /\ IsFiniteSet(K) /\ \A at \in Q : \E i \in 1..n : \E j : at = <<i, j>>
    BY <1>2, <1>3, <1>5, <2>1
  <2>3. /\ IsFiniteSet(Q \cup ({n + 1} \X K))
        /\ Cardinality(Q \cup ({n + 1} \X K)) = Cardinality(Q) + Cardinality(K)
        /\ Cardinality(Q) \in Nat /\ Cardinality(K) \in Nat
    BY <1>4, <2>2, PairsGrow
  <2> QED BY <1>1, <2>1, <2>3
<1>9. IsFiniteSet(Submits(T))
  BY <1>1, <1>2, <1>3, <1>4, <1>6, PairsGrow
<1>10. /\ IsFiniteSet(Rejections(T))
       /\ Cardinality(Rejections(T)) = Cardinality(Rejections(S)) + Cardinality(RejectedOf(line))
       /\ Cardinality(Rejections(S)) \in Nat /\ Cardinality(RejectedOf(line)) \in Nat
  <2>1. PICK Q, K : Q = Rejections(S) /\ K = RejectedOf(line) OBVIOUS
  <2>2. IsFiniteSet(Q) /\ IsFiniteSet(K) /\ \A at \in Q : \E i \in 1..n : \E j : at = <<i, j>>
    BY <1>2, <1>3, <1>7, <2>1
  <2>3. /\ IsFiniteSet(Q \cup ({n + 1} \X K))
        /\ Cardinality(Q \cup ({n + 1} \X K)) = Cardinality(Q) + Cardinality(K)
        /\ Cardinality(Q) \in Nat /\ Cardinality(K) \in Nat
    BY <1>4, <2>2, PairsGrow
  <2> QED BY <1>1, <2>1, <2>3
<1>11. /\ IsFiniteSet(Attempts(T))
       /\ Cardinality(Attempts(T))
              = IF SubmitsOf(line) = {} THEN Cardinality(Attempts(S))
                ELSE Cardinality(Attempts(S)) + 1
       /\ Cardinality(Attempts(S)) \in Nat
  <2>1. /\ IsFiniteSet(Attempts(S) \cup {n + 1})
        /\ Cardinality(Attempts(S) \cup {n + 1})
             = IF n + 1 \in Attempts(S) THEN Cardinality(Attempts(S)) ELSE Cardinality(Attempts(S)) + 1
    BY <1>2, FS_AddElement
  <2>2. Cardinality(Attempts(S)) \in Nat BY <1>2, FS_CardinalityType
  <2> QED BY <1>1, <1>2, <2>1, <2>2
<1>12. TwoIn(S) => TwoIn(T)
  BY <1>1 DEF TwoIn
<1>13. (\E j, k \in SubmitsOf(line) : j # k) => TwoIn(T)
  <2> SUFFICES ASSUME NEW j \in SubmitsOf(line), NEW k \in SubmitsOf(line), j # k PROVE TwoIn(T)
    OBVIOUS
  <2>1. <<n + 1, j>> \in Submits(T) /\ <<n + 1, k>> \in Submits(T) BY <1>1
  <2>2. <<n + 1, j>> # <<n + 1, k>> /\ <<n + 1, j>>[1] = <<n + 1, k>>[1] OBVIOUS
  <2> QED BY <2>1, <2>2 DEF TwoIn
<1> QED BY <1>8, <1>9, <1>10, <1>11, <1>12, <1>13 DEF Finite

\* A step line more leaves the body of a trace in order.
LEMMA BodyGrows ==
  ASSUME NEW f, NEW n, NEW c \in Cells, NEW stored, BodyOK(f, n, 0, 0, c, stored),
         NEW S, S = StepsOf(f, n), n > 0 => Full(S[n]),
         NEW line, StepOK(line, n + 1, CumOf(S, n), c.brain),
         \A j, k \in DOMAIN line.calls : line.calls[j].id = line.calls[k].id => j = k,
         \A i \in 1..n : \A j \in DOMAIN S[i].calls : \A k \in DOMAIN line.calls :
           S[i].calls[j].id # line.calls[k].id,
         Cardinality(Calls(S)) + Cardinality(DOMAIN line.calls) <= c.tools,
         SubmitsOf(line) # {} => Cardinality(Attempts(S)) + 1 <= c.submits
  PROVE  /\ BodyOK(Append(f, line), n + 1, 0, 0, c, stored)
         /\ Grown(S, StepsOf(Append(f, line), n + 1), n, line)
<1> DEFINE g == Append(f, line)
           T == StepsOf(g, n + 1)
<1>1. /\ Framed(f, n, 0, 0) /\ f[1] = RunStart(c)
      /\ StepsOK(S, n, c.brain) /\ Finite(S) /\ Within(S, c)
  BY DEF BodyOK
<1>2. line.type = "step" /\ Paired(line) BY DEF StepOK
<1>3. n \in Nat BY <1>1 DEF Framed
<1>4. Framed(g, n + 1, 0, 0) BY <1>1, <1>2, FramedGrows
<1>5. g[1] = RunStart(c)
  <2>1. PICK X : f \in Seq(X) /\ Len(f) = 1 + n BY <1>1, <1>3 DEF Framed
  <2>2. \A i \in 1..Len(f) : g[i] = f[i] BY <2>1, AppendIs
  <2>3. 1 \in 1..Len(f) BY <1>3, <2>1
  <2> HIDE DEF g
  <2> QED BY <1>1, <2>2, <2>3
<1>6. Grown(S, T, n, line) BY <1>1, <1>2, StepGrows
<1> HIDE DEF g, T
<1>7. StepsOK(T, n + 1, c.brain) BY <1>1, <1>6, StepsOKGrow
<1>8. Finite(T) /\ Within(T, c)
  <2>1. /\ Finite(T)
        /\ Cardinality(Calls(T)) = Cardinality(Calls(S)) + Cardinality(DOMAIN line.calls)
        /\ Cardinality(Attempts(T))
             = IF SubmitsOf(line) = {} THEN Cardinality(Attempts(S))
               ELSE Cardinality(Attempts(S)) + 1
    BY <1>1, <1>2, <1>6, CountsAdd
  <2> QED BY <1>1, <2>1 DEF Within
<1>9. BodyOK(g, n + 1, 0, 0, c, stored)
  BY <1>4, <1>5, <1>7, <1>8 DEF BodyOK, T
<1> QED BY <1>6, <1>9 DEF g, T

\* So does the checkpoint of an arm that has a gate.
LEMMA PointGrows ==
  ASSUME NEW f, NEW n, NEW c, NEW stored, BodyOK(f, n, 0, 0, c, stored), c.arm # "baseline",
         NEW point, PointOK(point, stored)
  PROVE  /\ BodyOK(Append(f, point), n, 1, 0, c, stored)
         /\ StepsOf(Append(f, point), n) = StepsOf(f, n)
<1>1. Framed(f, n, 0, 0) /\ f[1] = RunStart(c) BY DEF BodyOK
<1>2. point.type = "checkpoint" BY DEF PointOK
<1>3. PICK X : f \in Seq(X) /\ Len(f) = 1 + n /\ n \in Nat
  <2>1. Len(f) = 1 + n + 0 + 0 /\ n \in Nat BY <1>1 DEF Framed
  <2> QED BY <1>1, <2>1 DEF Framed
<1>4. PICK g : g = Append(f, point) OBVIOUS
<1>5. Framed(g, n, 1, 0) /\ StepsOf(g, n) = StepsOf(f, n) BY <1>1, <1>2, <1>4, FramedGrows
<1>6. (\A i \in 1..Len(f) : g[i] = f[i]) /\ g[Len(f) + 1] = point
  BY <1>3, <1>4, AppendIs
<1>7. g[1] = RunStart(c) /\ g[2 + n] = point
  <2>1. 1 \in 1..Len(f) /\ 2 + n = Len(f) + 1 BY <1>3
  <2> QED BY <1>1, <1>6, <2>1
<1> QED BY <1>4, <1>5, <1>7 DEF BodyOK

\* And an ending.
LEMMA EndGrows ==
  ASSUME NEW f, NEW n, NEW p, NEW e, NEW c, NEW stored, BodyOK(f, n, p, e, c, stored),
         NEW end, end.type = "run_end"
  PROVE  /\ BodyOK(Append(f, end), n, p, e + 1, c, stored)
         /\ StepsOf(Append(f, end), n) = StepsOf(f, n)
         /\ Append(f, end)[Len(Append(f, end))] = end
<1>1. Framed(f, n, p, e) /\ f[1] = RunStart(c) BY DEF BodyOK
<1>2. PICK g : g = Append(f, end) OBVIOUS
<1>3. Framed(g, n, p, e + 1) /\ StepsOf(g, n) = StepsOf(f, n) /\ g[Len(g)] = end
  BY <1>1, <1>2, FramedGrows
<1>4. PICK X : f \in Seq(X) /\ Len(f) = 1 + n + p + e /\ n \in Nat /\ p \in {0, 1} /\ e \in Nat
  BY <1>1 DEF Framed
<1>5. g[1] = RunStart(c) /\ (p = 1 => g[2 + n] = f[2 + n])
  <2>1. \A i \in 1..Len(f) : g[i] = f[i] BY <1>2, <1>4, AppendIs
  <2>2. 1 \in 1..Len(f) /\ (p = 1 => 2 + n \in 1..Len(f)) BY <1>4
  <2> QED BY <1>1, <2>1, <2>2
<1> QED BY <1>2, <1>3, <1>5 DEF BodyOK

(* What the file owes the counters while the child lives *)

Tally == [steps : Nat, nudges : Nat, tool_calls : Nat, submits : Nat, rounds : Nat, cum : Nat]

\* The API brain's counters x, after the n steps S.
ApiBooks(S, n, x) ==
  /\ x \in Tally /\ x.steps = n /\ x.cum = CumOf(S, n)
  /\ x.tool_calls = Cardinality(Calls(S)) /\ x.submits = Cardinality(Attempts(S))
  /\ ~TwoIn(S) => x.rounds = Cardinality(Rejections(S))
  /\ \A i \in 1..n : \A j \in DOMAIN S[i].calls : S[i].calls[j].id = <<i - 1, j>>

\* A step in flight after m events: it has no call, or one with its result.
InFlight(step, bought, tried, S, n, m) ==
  \E calls, results, reason :
    /\ step = [calls |-> calls, results |-> results, usage |-> NoUsage, hashed |-> FALSE,
               stop_reason |-> reason]
    /\ reason # ""
    /\ \/ calls = <<>> /\ results = <<>> /\ bought = 0 /\ tried = 0
       \/ \E id \in Nat : \E name, says :
            /\ calls = <<Call(id, name)>> /\ results = <<Answer(id, says)>>
            /\ id < m /\ bought = 1 /\ tried = IF name = "submit_record" THEN 1 ELSE 0
            /\ \A i \in 1..n : \A j \in DOMAIN S[i].calls : S[i].calls[j].id # id

\* The stepper s and the driver's sums u of a local brain, after m events.
CodexBooks(S, n, c, s, u, m) ==
  /\ m \in Nat
  /\ u.written = n /\ u.cum = CumOf(S, n) /\ u.rejected = Cardinality(Rejections(S))
  /\ \A i \in 1..n : \A j \in DOMAIN S[i].calls : S[i].calls[j].id \in Nat /\ S[i].calls[j].id < m
  /\ \A i \in 1..n : Full(S[i])
  /\ \E bought, tried \in {0, 1} :
       /\ \/ s.open = {} /\ bought = 0 /\ tried = 0
          \/ \E step : s.open = {step} /\ InFlight(step, bought, tried, S, n, m)
       /\ s.tool_calls = Cardinality(Calls(S)) + bought
       /\ s.submits = Cardinality(Attempts(S)) + tried
  /\ s.tool_calls <= c.tools /\ s.submits <= c.submits
  /\ s.stop \in {"none", "budget_exhausted", "max_submits", "api_error"}

EndingOK(f, n, p, c, r) ==
  /\ StopOK(f[Len(f)], StepsOf(f, n), n, p, c)
  /\ ~r => TotalsOK(f[Len(f)], StepsOf(f, n), n)

AtGate == {"accepted", "gate_rejected"}

\* Where the child stands, what it has written, and whether the last step may owe a result.
Living(n, p) ==
  /\ BodyOK(file, n, p, IF pc = "ended" THEN 1 ELSE 0, cell, record)
  /\ cell.brain = "api" => ApiBooks(StepsOf(file, n), n, ctx)
  /\ cell.brain = "codex" => CodexBooks(StepsOf(file, n), n, cell, stepper, sums, events)
  /\ pc \in {"turn", "stream", "closing", "gate"} => p = 0
  /\ pc \in {"draft", "render"} /\ cell.arm = "advanced" => p = 1
  /\ pc = "stopping" /\ cell.arm = "advanced" /\ why \in AtGate => p = 1
  /\ pc # "ended" /\ ~(pc = "stopping" /\ why = "api_error") /\ n > 0 => Full(StepsOf(file, n)[n])
  /\ pc = "ended" => EndingOK(file, n, p, cell, raised)

LivesOn == {"turn", "stream", "closing", "gate", "draft", "render", "stopping", "ended"}
Told == pc \in LivesOn => \E n, p : Living(n, p)

Fresh ==
  /\ file = <<>> /\ ctx = NewCtx /\ stepper = NewStepper /\ sums = NewSums
  /\ record = {} /\ events = 0
Standing ==
  /\ cell \in Cells
  /\ pc \in LivesOn \cup {"born", "gone", "filed"}
  /\ record = {} \/ \E stores \in Records : record = {stores}
  /\ pc \in LivesOn \cup {"born"} =>
       /\ disk \subseteq record /\ timed = FALSE /\ diagnosis = {}
       /\ closer = IF pc = "ended" THEN "child" ELSE "none"
       /\ cell.brain = "codex" => prices \in PriceTables
  /\ pc = "born" => Fresh
  /\ pc = "stopping" => why \in StopConditions
  /\ pc = "turn" => cell.brain = "api" /\ ctx.submits < cell.submits /\ record = {}
  /\ pc \in {"stream", "closing"} => cell.brain = "codex"
  /\ cell.brain = "codex" /\ ~raised /\ pc \in {"gate", "draft", "render", "stopping"} =>
       stepper.open = {}

\* A file the child left: whole, or its last line cut or without its newline.
Cuts(f) == {f, [f EXCEPT ![Len(f)] = Torn], [f EXCEPT ![Len(f)] = Unended(@)]}
LeftOver(left, c, stored, r) ==
  \E f, n, p : \E e \in {0, 1} :
    /\ BodyOK(f, n, p, e, c, stored) /\ left \in Cuts(f)
    /\ e = 1 => EndingOK(f, n, p, c, r)
Left ==
  pc = "gone" =>
    /\ LeftOver(file, cell, disk, raised) /\ diagnosis = {}
    /\ closer = IF Ended(file) = <<>> THEN "none" ELSE "child"

LiveInv == Standing /\ Told
-----------------------------------------------------------------------------
LEMMA InitStands == Init => Standing /\ Told
<1> SUFFICES ASSUME Init PROVE Standing /\ Told OBVIOUS
<1> QED BY DEF Init, Standing, Told, Fresh, LivesOn

LEMMA EmptyBooks ==
  ASSUME NEW S, DOMAIN S = {}
  PROVE  /\ Finite(S) /\ Cardinality(Calls(S)) = 0 /\ Cardinality(Attempts(S)) = 0
         /\ Cardinality(Rejections(S)) = 0
<1>1. Calls(S) = {} /\ Submits(S) = {} /\ Rejections(S) = {} /\ Attempts(S) = {}
  <2>1. \A at : at \notin Calls(S) /\ at \notin Submits(S) /\ at \notin Rejections(S) BY PairsAre
  <2> QED BY <2>1 DEF Attempts
<1> QED BY <1>1, FS_EmptySet DEF Finite

LEMMA OpenKeeps == ASSUME Standing, Open PROVE Standing' /\ Told'
<1>1. /\ pc = "born" /\ file' = <<RunStart(cell)>>
      /\ pc' = IF cell.brain = "api" THEN "turn" ELSE "stream"
      /\ UNCHANGED <<cell, why, ctx, stepper, sums, prices, raised, events, record, disk, timed, closer, diagnosis>>
  BY DEF Open, api, codex, parent
<1>2. /\ cell \in Cells /\ Fresh /\ cell.brain \in {"api", "codex"} /\ cell.tools \in Nat /\ cell.submits \in Nat \ {0}
  BY <1>1, LifeAssumption DEF Standing
<1>3. ctx.submits = 0 /\ ApiBooks(StepsOf(file', 0), 0, ctx)
  <2>1. DOMAIN StepsOf(file', 0) = {} BY DEF StepsOf
  <2>2. Cardinality(Calls(StepsOf(file', 0))) = 0 /\ Cardinality(Attempts(StepsOf(file', 0))) = 0
        /\ Cardinality(Rejections(StepsOf(file', 0))) = 0
    BY <2>1, EmptyBooks
  <2>3. ctx = NewCtx BY <1>2 DEF Fresh
  <2> QED BY <2>2, <2>3 DEF ApiBooks, NewCtx, CumOf, Tally
<1>4. CodexBooks(StepsOf(file', 0), 0, cell, stepper, sums, events)
  <2>1. DOMAIN StepsOf(file', 0) = {} BY DEF StepsOf
  <2>2. Cardinality(Calls(StepsOf(file', 0))) = 0 /\ Cardinality(Attempts(StepsOf(file', 0))) = 0
        /\ Cardinality(Rejections(StepsOf(file', 0))) = 0
    BY <2>1, EmptyBooks
  <2>3. stepper = NewStepper /\ sums = NewSums /\ events = 0 BY <1>2 DEF Fresh
  <2>4. /\ stepper.open = {} /\ stepper.tool_calls = 0 /\ stepper.submits = 0 /\ stepper.stop = "none"
        /\ sums.written = 0 /\ sums.cum = 0 /\ sums.rejected = 0
    BY <2>3 DEF NewStepper, NewSums
  <2> QED BY <1>2, <2>2, <2>3, <2>4 DEF CodexBooks, CumOf
<1>5. BodyOK(file', 0, 0, 0, cell, record)
  <2>1. DOMAIN StepsOf(file', 0) = {} /\ DOMAIN StepsOf(file', 0) = 1..0 BY DEF StepsOf
  <2>2. Finite(StepsOf(file', 0)) /\ Within(StepsOf(file', 0), cell)
    BY <1>2, <2>1, EmptyBooks DEF Within
  <2>3. Framed(file', 0, 0, 0)
    <3>1. file' \in Seq({RunStart(cell)}) /\ Len(file') = 1 /\ file'[1] = RunStart(cell) BY <1>1
    <3>2. RunStart(cell).type = "run_start" BY DEF RunStart
    <3> QED BY <3>1, <3>2 DEF Framed
  <2>4. StepsOK(StepsOf(file', 0), 0, cell.brain)
    BY <2>1 DEF StepsOK, IdsApart
  <2>5. file'[1] = RunStart(cell) BY <1>1
  <2> QED BY <2>2, <2>3, <2>4, <2>5 DEF BodyOK
<1>6. Living(0, 0)'
  BY <1>1, <1>2, <1>3, <1>4, <1>5 DEF Living
<1>7. record = {} BY <1>2 DEF Fresh
<1> QED BY <1>1, <1>2, <1>3, <1>6, <1>7 DEF Standing, Told, LivesOn

LEMMA StopsAre == StopConditions =
  {"accepted", "gate_rejected", "budget_exhausted", "max_submits", "max_tokens",
   "no_submission", "timeout", "crashed", "replay_miss", "render_failed", "api_error", "refusal"}
  BY DEF StopConditions

\* The moves that write nothing.
LEMMA MovesKeep ==
  ASSUME LiveInv,
         CallFails \/ StreamEnds \/ StreamRaises \/ PricesChange \/ NoGate \/ GateRaises \/ Draft \/ Render
  PROVE  LiveInv'
<1>1. /\ UNCHANGED <<file, ctx, stepper, sums, events, cell, record, timed, closer, diagnosis>>
      /\ \/ pc = "turn" /\ pc' = "stopping" /\ why' \in {"api_error", "replay_miss"} /\ UNCHANGED <<raised, disk, prices>>
         \/ pc = "stream" /\ pc' = "closing" /\ UNCHANGED <<raised, disk, prices>>
         \/ pc = "stream" /\ pc' = "stopping" /\ why' = "api_error" /\ raised' = TRUE /\ UNCHANGED <<disk, prices>>
         \/ pc = "stream" /\ pc' = "stream" /\ prices' \in PriceTables /\ UNCHANGED <<raised, disk>>
         \/ pc = "gate" /\ cell.arm = "baseline" /\ pc' = "render" /\ UNCHANGED <<raised, disk, prices>>
         \/ pc = "gate" /\ pc' = "stopping" /\ why' = "api_error" /\ UNCHANGED <<raised, disk, prices>>
         \/ pc = "draft" /\ pc' = "stopping" /\ why' \in {"gate_rejected", "api_error"} /\ UNCHANGED <<raised, disk, prices>>
         \/ /\ pc = "render" /\ pc' = "stopping" /\ why' \in {"accepted", "render_failed", "api_error"}
            /\ disk' \in {disk, record} /\ UNCHANGED <<raised, prices>>
  BY DEF CallFails, StreamEnds, StreamRaises, PricesChange, NoGate, GateRaises, Draft, Render, Stops,
         api, codex, parent
<1>2. Standing BY DEF LiveInv
<1>3. pc \in LivesOn /\ pc # "ended" /\ pc' \in LivesOn /\ pc' # "ended" /\ pc' # "turn"
      /\ pc # "stopping"
  BY <1>1 DEF LivesOn
<1>4. PICK n, p : Living(n, p) BY <1>3 DEF LiveInv, Told
<1>5. /\ BodyOK(file, n, p, 0, cell, record)
      /\ cell.brain = "api" => ApiBooks(StepsOf(file, n), n, ctx)
      /\ cell.brain = "codex" => CodexBooks(StepsOf(file, n), n, cell, stepper, sums, events)
      /\ n > 0 => Full(StepsOf(file, n)[n])
      /\ pc \in {"turn", "stream", "closing", "gate"} => p = 0
      /\ pc \in {"draft", "render"} /\ cell.arm = "advanced" => p = 1
  BY <1>3, <1>4 DEF Living
<1>6. /\ pc' \in {"turn", "stream", "closing", "gate"} => p = 0
      /\ pc' \in {"draft", "render"} /\ cell.arm = "advanced" => p = 1
      /\ pc' = "stopping" /\ cell.arm = "advanced" /\ why' \in AtGate => p = 1
  BY <1>1, <1>5 DEF AtGate
<1>7. Living(n, p)'
  BY <1>1, <1>3, <1>5, <1>6 DEF Living
<1>8. pc' = "stopping" => why' \in StopConditions
  BY <1>1, StopsAre
<1>9. /\ disk' \subseteq record' /\ timed' = FALSE /\ diagnosis' = {} /\ closer' = "none"
      /\ cell'.brain = "codex" => prices' \in PriceTables
  BY <1>1, <1>2, <1>3 DEF Standing
<1>10. cell'.brain = "codex" /\ ~raised' /\ pc' \in {"gate", "draft", "render", "stopping"} =>
         stepper'.open = {}
  BY <1>1, <1>2 DEF Standing
<1>11. pc' \in {"stream", "closing"} => cell'.brain = "codex"
  BY <1>1, <1>2 DEF Standing
<1>12. Standing'
  BY <1>1, <1>2, <1>3, <1>8, <1>9, <1>10, <1>11 DEF Standing, LivesOn
<1> QED BY <1>3, <1>7, <1>12 DEF LiveInv, Told

\* The checkpoint.
LEMMA GateKeeps == ASSUME LiveInv, GateAnswers PROVE LiveInv'
<1>1. PICK stores \in record, by \in {"human", "simulated"}, verdict \in {"approved", "rejected"} :
        /\ by = "simulated" => verdict = "approved"
        /\ \E filled \in {{}} \cup (IF by = "human" /\ stores # <<>> THEN {{{stores[1].name}}} ELSE {}) :
             file' = Append(file, Checkpoint([risk |-> RiskRating(stores), verdict |-> verdict, by |-> by,
                                              filled |-> filled]))
        /\ pc' = IF verdict = "approved" THEN "render" ELSE "draft"
  BY DEF GateAnswers, Writes
<1>2. PICK filled \in {{}} \cup (IF by = "human" /\ stores # <<>> THEN {{{stores[1].name}}} ELSE {}) :
             file' = Append(file, Checkpoint([risk |-> RiskRating(stores), verdict |-> verdict, by |-> by,
                                              filled |-> filled]))
  BY <1>1
<1>3. /\ pc = "gate" /\ cell.arm = "advanced"
      /\ UNCHANGED <<cell, why, ctx, stepper, sums, prices, raised, events, record, disk, timed, closer, diagnosis>>
  BY DEF GateAnswers, api, codex, parent
<1>4. PICK n, p : Living(n, p) BY <1>3 DEF LiveInv, Told, LivesOn
<1>5. /\ BodyOK(file, n, 0, 0, cell, record) /\ p = 0
      /\ cell.brain = "api" => ApiBooks(StepsOf(file, n), n, ctx)
      /\ cell.brain = "codex" => CodexBooks(StepsOf(file, n), n, cell, stepper, sums, events)
      /\ n > 0 => Full(StepsOf(file, n)[n])
  BY <1>3, <1>4 DEF Living
<1>6. Standing BY DEF LiveInv
<1>7. record = {stores} /\ stores \in Records BY <1>1, <1>6 DEF Standing
<1>8. PICK point : point = Checkpoint([risk |-> RiskRating(stores), verdict |-> verdict, by |-> by,
                                       filled |-> filled])
  OBVIOUS
<1>9. PointOK(point, record)
  <2>1. RiskRating(stores) = Risk(stores)
    <3>1. Verdicts(stores) = {stores[i].verdict : i \in DOMAIN stores} BY DEF Verdicts
    <3>2. stores = <<>> => Verdicts(stores) = {} BY <3>1
    <3> DEFINE verdicts == {stores[i].verdict : i \in DOMAIN stores}
               high == \E i \in DOMAIN stores : /\ stores[i].verdict \in HighVerdicts
                                                /\ stores[i].categories \cap HighCategories # {}
    <3>3. RiskRating(stores) = IF high THEN "high"
                               ELSE IF stores # <<>> /\ Verdicts(stores) \subseteq Reaches
                                       /\ "erased_after_timer" \in Verdicts(stores)
                                    THEN "medium" ELSE "low"
      BY DEF RiskRating
    <3>4. Risk(stores) = IF high THEN "high"
                         ELSE IF verdicts \subseteq Reaches /\ "erased_after_timer" \in verdicts
                              THEN "medium" ELSE "low"
      BY DEF Risk
    <3> HIDE DEF high
    <3> QED BY <3>1, <3>2, <3>3, <3>4
  <2>2. /\ point.type = "checkpoint" /\ point.caller = "harness" /\ point.risk = RiskRating(stores)
        /\ point.by = by /\ point.filled = filled
    BY <1>8 DEF Checkpoint
  <2>3. CASE filled = {} BY <1>7, <2>1, <2>2, <2>3 DEF PointOK
  <2>4. CASE filled # {}
    <3>1. by # "simulated" /\ stores # <<>> /\ filled = {{stores[1].name}} BY <1>2, <2>4
    <3>2. 1 \in DOMAIN stores BY <1>7, <3>1, LifeAssumption
    <3>3. \A kinds \in filled : kinds \subseteq {stores[i].name : i \in DOMAIN stores} BY <3>1, <3>2
    <3> QED BY <1>7, <2>1, <2>2, <3>1, <3>3 DEF PointOK
  <2> QED BY <2>3, <2>4
<1>10. file' = Append(file, point) BY <1>2, <1>8
<1>11. BodyOK(file', n, 1, 0, cell, record) /\ StepsOf(file', n) = StepsOf(file, n)
  BY <1>3, <1>5, <1>9, <1>10, PointGrows
<1>12. pc' \in {"render", "draft"} BY <1>1
<1>13. Living(n, 1)'
  BY <1>3, <1>5, <1>11, <1>12 DEF Living
<1>14. Standing'
  BY <1>3, <1>6, <1>12 DEF Standing, LivesOn
<1> QED BY <1>12, <1>13, <1>14 DEF LiveInv, Told

\* The ending, by the counters.
LEMMA EndKeeps == ASSUME LiveInv, EndRun PROVE LiveInv'
<1>1. PICK note \in Notes(why) :
        file' = Append(file, RunEnd(why, Counters, why \in {"accepted", "render_failed"}, note))
  BY DEF EndRun, Writes
<1>2. /\ pc = "stopping" /\ pc' = "ended" /\ closer' = "child"
      /\ UNCHANGED <<cell, why, ctx, stepper, sums, prices, raised, events, record, disk, timed, diagnosis>>
  BY DEF EndRun, api, codex
<1>3. PICK n, p : Living(n, p) BY <1>2 DEF LiveInv, Told, LivesOn
<1> DEFINE S == StepsOf(file, n)
<1>4. /\ BodyOK(file, n, p, 0, cell, record)
      /\ cell.brain = "api" => ApiBooks(S, n, ctx)
      /\ cell.brain = "codex" => CodexBooks(S, n, cell, stepper, sums, events)
      /\ cell.arm = "advanced" /\ why \in AtGate => p = 1
      /\ why # "api_error" /\ n > 0 => Full(S[n])
  BY <1>2, <1>3 DEF Living
<1>5. Standing /\ why \in StopConditions BY <1>2 DEF LiveInv, Standing
<1>6. cell.brain \in {"api", "codex"} BY <1>5, LifeAssumption DEF Standing
<1>7. PICK end : end = RunEnd(why, Counters, why \in {"accepted", "render_failed"}, note) OBVIOUS
<1>8. /\ end.type = "run_end" /\ end.stop = why /\ end.note = note
      /\ end.steps = Counters.steps /\ end.calls = Counters.calls /\ end.submits = Counters.submits
      /\ end.rounds = Counters.rounds /\ end.cost = Counters.cost
  BY <1>7 DEF RunEnd
<1>9. file' = Append(file, end) BY <1>1, <1>7
<1>10. /\ BodyOK(file', n, p, 1, cell, record) /\ StepsOf(file', n) = S /\ file'[Len(file')] = end
  <2>1. PICK e : e = 0 OBVIOUS
  <2>2. e + 1 = 1 /\ BodyOK(file, n, p, e, cell, record) BY <1>4, <2>1
  <2> QED BY <1>8, <1>9, <2>2, EndGrows
<1>11. note.truncat = FALSE /\ note.counts \in {0, 1}
  <2>1. note = CleanNote \/ note = [CleanNote EXCEPT !.counts = 1] BY <1>1 DEF Notes
  <2> QED BY <2>1 DEF CleanNote
<1>12. StopOK(end, S, n, p, cell)
  BY <1>4, <1>5, <1>8, <1>11 DEF StopOK, AtGate
<1>13. ~raised => TotalsOK(end, S, n)
  <2> SUFFICES ASSUME ~raised PROVE TotalsOK(end, S, n) OBVIOUS
  <2>0. Finite(S) BY <1>4 DEF BodyOK
  <2>1. ~TwoIn(S) => Cardinality(Submits(S)) = Cardinality(Attempts(S)) BY <2>0, OneEach DEF Finite
  <2>2. CASE cell.brain = "api"
    <3>1. /\ Counters.steps = ctx.steps /\ Counters.calls = ctx.tool_calls /\ Counters.submits = ctx.submits
          /\ Counters.rounds = ctx.rounds /\ Counters.cost = ctx.cum
      BY <2>2 DEF Counters
    <3>2. ApiBooks(S, n, ctx) BY <1>4, <2>2
    <3> HIDE DEF S
    <3> QED BY <1>8, <2>1, <3>1, <3>2 DEF ApiBooks, TotalsOK
  <2>3. CASE cell.brain = "codex"
    <3>1. /\ Counters.steps = sums.written /\ Counters.calls = stepper.tool_calls
          /\ Counters.submits = stepper.submits /\ Counters.rounds = sums.rejected /\ Counters.cost = sums.cum
      BY <2>3 DEF Counters
    <3>2. CodexBooks(S, n, cell, stepper, sums, events) BY <1>4, <2>3
    <3>3. stepper.open = {} BY <1>2, <1>5, <2>3 DEF Standing
    <3>4. Cardinality(Calls(S)) \in Nat /\ Cardinality(Attempts(S)) \in Nat
      BY <2>0, FS_CardinalityType DEF Finite
    <3> HIDE DEF S
    <3>5. stepper.tool_calls = Cardinality(Calls(S)) /\ stepper.submits = Cardinality(Attempts(S))
      BY <3>2, <3>3, <3>4 DEF CodexBooks
    <3> QED BY <1>8, <2>1, <3>1, <3>2, <3>5 DEF CodexBooks, TotalsOK
  <2> QED BY <1>6, <2>2, <2>3
<1>14. EndingOK(file', n, p, cell, raised)
  BY <1>10, <1>12, <1>13 DEF EndingOK
<1>15. Living(n, p)'
  BY <1>2, <1>4, <1>10, <1>14 DEF Living
<1>16. Standing'
  BY <1>2, <1>5 DEF Standing, LivesOn
<1> QED BY <1>2, <1>15, <1>16 DEF LiveInv, Told

\* A turn of the API brain adds its line to the file and to the counters.
LEMMA TurnGrows ==
  ASSUME LiveInv, pc = "turn", NEW line, NEW cost \in Nat, file' = Append(file, line),
         line.type = "step", line.step = ctx.steps + 1, line.cost = cost, line.cum = ctx.cum + cost,
         line.usage = NoUsage, line.hashed = TRUE, line.stop_reason = "tool_use", Paired(line), Shaped(line),
         \A j \in DOMAIN line.calls : line.calls[j].id = <<ctx.steps, j>>,
         ctx' \in Tally, ctx'.steps = ctx.steps + 1, ctx'.cum = ctx.cum + cost,
         ctx'.tool_calls = ctx.tool_calls + Cardinality(DOMAIN line.calls),
         ctx'.tool_calls <= cell.tools,
         ctx'.submits = IF SubmitsOf(line) = {} THEN ctx.submits ELSE ctx.submits + 1,
         (\E j, k \in SubmitsOf(line) : j # k)
           \/ ctx'.rounds = ctx.rounds + Cardinality(RejectedOf(line)),
         pc' \in {"turn", "gate", "stopping"},
         Full(line) \/ (pc' = "stopping" /\ why' = "api_error"),
         pc' = "turn" => ctx'.submits < cell.submits,
         pc' = "stopping" => why' \in StopConditions \ AtGate,
         record' = {} \/ \E stores \in Records : record' = {stores}, pc' = "turn" => record' = {},
         UNCHANGED <<cell, codex, disk, parent>>
  PROVE  LiveInv'
<1>1. /\ UNCHANGED <<cell, stepper, sums, prices, raised, reported, events, disk, timed, closer, diagnosis>>
      /\ pc \in LivesOn /\ pc' \in LivesOn /\ pc # "ended" /\ pc' # "ended" /\ pc # "stopping" /\ pc # "born"
      /\ pc' # "born"
  BY DEF codex, parent, LivesOn
<1>2. Standing BY DEF LiveInv
<1>3. /\ cell \in Cells /\ cell.brain = "api" /\ ctx.submits < cell.submits /\ record = {} /\ disk = {}
      /\ timed = FALSE /\ diagnosis = {} /\ closer = "none"
  BY <1>1, <1>2 DEF Standing
<1>4. cell.tools \in Nat /\ cell.submits \in Nat BY <1>3, LifeAssumption
<1>5. PICK n, p : Living(n, p) BY <1>1 DEF LiveInv, Told
<1>6. PICK S : S = StepsOf(file, n) OBVIOUS
<1>7. /\ BodyOK(file, n, 0, 0, cell, record) /\ ApiBooks(S, n, ctx)
      /\ n > 0 => Full(S[n])
  BY <1>1, <1>3, <1>5, <1>6 DEF Living
<1>8. /\ n \in Nat /\ Finite(S) /\ StepsOK(S, n, "api")
  BY <1>3, <1>6, <1>7 DEF BodyOK, Framed
<1>9. /\ ctx \in Tally /\ ctx.steps = n /\ ctx.cum = CumOf(S, n)
      /\ ctx.tool_calls = Cardinality(Calls(S)) /\ ctx.submits = Cardinality(Attempts(S))
      /\ ~TwoIn(S) => ctx.rounds = Cardinality(Rejections(S))
      /\ \A i \in 1..n : \A j \in DOMAIN S[i].calls : S[i].calls[j].id = <<i - 1, j>>
  BY <1>7 DEF ApiBooks
<1>10. StepOK(line, n + 1, CumOf(S, n), cell.brain)
  <2>1. \A key \in UsageKeys : line.usage[key] \in Nat BY DEF UsageKeys, NoUsage
  <2>2. ctx.cum \in Nat /\ ctx.cum + cost \in Nat BY <1>9 DEF Tally
  <2>3. line.stop_reason # "" OBVIOUS
  <2> QED BY <1>9, <2>1, <2>2, <2>3 DEF StepOK
<1>11. \A j, k \in DOMAIN line.calls : line.calls[j].id = line.calls[k].id => j = k
  OBVIOUS
<1>12. \A i \in 1..n : \A j \in DOMAIN S[i].calls : \A k \in DOMAIN line.calls :
         S[i].calls[j].id # line.calls[k].id
  <2> SUFFICES ASSUME NEW i \in 1..n, NEW j \in DOMAIN S[i].calls, NEW k \in DOMAIN line.calls
               PROVE  S[i].calls[j].id # line.calls[k].id
    OBVIOUS
  <2>1. S[i].calls[j].id = <<i - 1, j>> /\ line.calls[k].id = <<n, k>> BY <1>9
  <2>2. i - 1 # n BY <1>8
  <2> QED BY <2>1, <2>2
<1>13. Cardinality(Calls(S)) + Cardinality(DOMAIN line.calls) <= cell.tools
  BY <1>9
<1>14. SubmitsOf(line) # {} => Cardinality(Attempts(S)) + 1 <= cell.submits
  BY <1>3, <1>4, <1>9 DEF Tally
<1>15. PICK T : T = StepsOf(file', n + 1) OBVIOUS
<1>16. BodyOK(file', n + 1, 0, 0, cell, record) /\ Grown(S, T, n, line)
  <2>1. PICK c : c = cell OBVIOUS
  <2>2. BodyOK(Append(file, line), n + 1, 0, 0, c, record)
        /\ Grown(S, StepsOf(Append(file, line), n + 1), n, line)
    BY <1>3, <1>6, <1>7, <1>10, <1>11, <1>12, <1>13, <1>14, <2>1, BodyGrows
  <2> QED BY <1>15, <2>1, <2>2
<1>17. BodyOK(file', n + 1, 0, 0, cell, record')
  BY <1>16 DEF BodyOK
<1>18. /\ Cardinality(Calls(T)) = Cardinality(Calls(S)) + Cardinality(DOMAIN line.calls)
       /\ Cardinality(Rejections(T)) = Cardinality(Rejections(S)) + Cardinality(RejectedOf(line))
       /\ Cardinality(Attempts(T))
              = IF SubmitsOf(line) = {} THEN Cardinality(Attempts(S))
                ELSE Cardinality(Attempts(S)) + 1
       /\ TwoIn(S) => TwoIn(T)
       /\ (\E j, k \in SubmitsOf(line) : j # k) => TwoIn(T)
  BY <1>8, <1>16, CountsAdd
<1>19. CumOf(T, n + 1) = line.cum BY <1>16, CumGrows
<1>20. \A i \in 1..(n + 1) : \A j \in DOMAIN T[i].calls : T[i].calls[j].id = <<i - 1, j>>
  <2> SUFFICES ASSUME NEW i \in 1..(n + 1), NEW j \in DOMAIN T[i].calls
               PROVE  T[i].calls[j].id = <<i - 1, j>>
    OBVIOUS
  <2>1. CASE i \in 1..n
    <3>1. T[i] = S[i] BY <1>16, <2>1 DEF Grown
    <3> QED BY <1>9, <2>1, <3>1
  <2>2. CASE i = n + 1
    <3>1. T[i] = line /\ i - 1 = n BY <1>8, <1>16, <2>2 DEF Grown
    <3> QED BY <1>9, <3>1
  <2> QED BY <1>8, <2>1, <2>2
<1>21. ApiBooks(T, n + 1, ctx')
  BY <1>9, <1>18, <1>19, <1>20 DEF ApiBooks
<1>22. Full(line) => Full(T[n + 1]) BY <1>16 DEF Grown
<1>23. Living(n + 1, 0)'
  <2>1. /\ pc' # "ended" /\ ~(pc' = "stopping" /\ why' = "api_error") => Full(T[n + 1])
    BY <1>22
  <2>2. ~(pc' = "stopping" /\ why' \in AtGate) /\ pc' \notin {"draft", "render"} OBVIOUS
  <2> QED BY <1>1, <1>3, <1>15, <1>17, <1>21, <2>1, <2>2 DEF Living
<1>24. Standing'
  BY <1>1, <1>2, <1>3 DEF Standing
<1> QED BY <1>1, <1>23, <1>24 DEF LiveInv, Told

\* A counter set is its six fields.
LEMMA CountersAre ==
  ASSUME NEW x \in Tally
  PROVE  x = [steps |-> x.steps, nudges |-> x.nudges, tool_calls |-> x.tool_calls,
              submits |-> x.submits, rounds |-> x.rounds, cum |-> x.cum]
  BY DEF Tally

\* What every turn adds to them.
LEMMA BilledIs ==
  ASSUME ctx \in Tally, NEW cost \in Nat, NEW y, y = Billed(cost)
  PROVE  /\ y \in Tally /\ y.steps = ctx.steps + 1 /\ y.cum = ctx.cum + cost
         /\ y.nudges = ctx.nudges /\ y.tool_calls = ctx.tool_calls /\ y.submits = ctx.submits
         /\ y.rounds = ctx.rounds
<1>1. PICK x : x = ctx OBVIOUS
<1>2. x = [steps |-> x.steps, nudges |-> x.nudges, tool_calls |-> x.tool_calls,
           submits |-> x.submits, rounds |-> x.rounds, cum |-> x.cum]
  BY <1>1, CountersAre
<1>3. y = [x EXCEPT !.steps = @ + 1, !.cum = @ + cost] BY <1>1 DEF Billed
<1>4. y = [steps |-> x.steps + 1, nudges |-> x.nudges, tool_calls |-> x.tool_calls,
           submits |-> x.submits, rounds |-> x.rounds, cum |-> x.cum + cost]
  BY <1>2, <1>3
<1>5. x.steps \in Nat /\ x.cum \in Nat /\ x.nudges \in Nat /\ x.tool_calls \in Nat /\ x.submits \in Nat
      /\ x.rounds \in Nat
  BY <1>1 DEF Tally
<1> QED BY <1>1, <1>4, <1>5 DEF Tally

LEMMA QuietKeeps == ASSUME LiveInv, NEW cost \in Costs, QuietTurn(cost) PROVE LiveInv'
<1>1. PICK line : line = TurnLine(<<>>, <<>>, cost) OBVIOUS
<1>2. /\ file' = Append(file, line) /\ pc = "turn"
      /\ ctx' = [Billed(cost) EXCEPT !.nudges = @ + 1]
      /\ UNCHANGED <<cell, codex, record, disk, parent>>
      /\ \/ pc' = "stopping" /\ why' \in {"refusal", "max_tokens", "api_error", "no_submission"}
         \/ pc' = "turn"
  BY <1>1 DEF QuietTurn, Writes, Stops
<1>3. cost \in Nat BY LifeAssumption
<1>4. /\ line.type = "step" /\ line.step = ctx.steps + 1 /\ line.cost = cost /\ line.cum = ctx.cum + cost
      /\ line.usage = NoUsage /\ line.stop_reason = "tool_use"
      /\ line.calls = <<>> /\ line.results = <<>>
  BY <1>1 DEF TurnLine, StepLine, Body
<1>5. line.hashed = TRUE BY <1>1, Zenon DEF TurnLine, StepLine, Body
<1>6. DOMAIN line.calls = {} /\ DOMAIN line.results = {} /\ DOMAIN line.calls = 1..0 /\ DOMAIN line.results = 1..0
  BY <1>4
<1>7. Paired(line) /\ Full(line)
  BY <1>6 DEF Paired, Full
<1>7a. Shaped(line)
  <2>1. \E i, body, c, m : line = StepLine(i, body, c, m) BY <1>1, Zenon DEF TurnLine
  <2>2. <<>> \in Seq({}) OBVIOUS
  <2>3. \E X : line.results \in Seq(X) BY <1>4, <2>2, Zenon
  <2> QED BY <2>1, <2>3 DEF Shaped
<1>8. SubmitsOf(line) = {} /\ RejectedOf(line) = {} BY <1>6 DEF SubmitsOf, RejectedOf
<1>9. Cardinality(DOMAIN line.calls) = 0 /\ Cardinality(RejectedOf(line)) = 0
  BY <1>6, <1>8, FS_EmptySet
<1>10. PICK n, p : Living(n, p) BY <1>2 DEF LiveInv, Told, LivesOn
<1>11. Standing /\ cell.brain = "api" /\ record = {} /\ ctx.submits < cell.submits /\ cell \in Cells
  BY <1>2 DEF LiveInv, Standing
<1>12. ApiBooks(StepsOf(file, n), n, ctx) /\ BodyOK(file, n, p, 0, cell, record)
  BY <1>2, <1>10, <1>11 DEF Living
<1>13. ctx \in Tally /\ ctx.tool_calls <= cell.tools
  BY <1>12 DEF ApiBooks, BodyOK, Within
<1>14. /\ ctx' \in Tally /\ ctx'.steps = ctx.steps + 1 /\ ctx'.cum = ctx.cum + cost
       /\ ctx'.tool_calls = ctx.tool_calls /\ ctx'.submits = ctx.submits /\ ctx'.rounds = ctx.rounds
  <2>1. PICK b : b = Billed(cost) OBVIOUS
  <2>2. /\ b \in Tally /\ b.steps = ctx.steps + 1 /\ b.cum = ctx.cum + cost
        /\ b.tool_calls = ctx.tool_calls /\ b.submits = ctx.submits /\ b.rounds = ctx.rounds
    BY <1>3, <1>13, <2>1, BilledIs
  <2>3. ctx' = [b EXCEPT !.nudges = b.nudges + 1] BY <1>2, <2>1
  <2> QED BY <2>2, <2>3 DEF Tally
<1>15. /\ ctx'.tool_calls = ctx.tool_calls + Cardinality(DOMAIN line.calls)
       /\ ctx'.rounds = ctx.rounds + Cardinality(RejectedOf(line))
  BY <1>9, <1>13, <1>14 DEF Tally
<1>16. pc' = "stopping" => why' \in StopConditions \ AtGate
  BY <1>2, StopsAre DEF AtGate
<1>17. \A j \in DOMAIN line.calls : line.calls[j].id = <<ctx.steps, j>> BY <1>6
<1>18. pc' \in {"turn", "gate", "stopping"} BY <1>2
<1>19. ctx'.tool_calls <= cell.tools /\ (pc' = "turn" => ctx'.submits < cell.submits)
       /\ record' = {}
  BY <1>2, <1>11, <1>13, <1>14
<1>20. ctx'.submits = IF SubmitsOf(line) = {} THEN ctx.submits ELSE ctx.submits + 1
  BY <1>8, <1>14
<1> QED BY <1>2, <1>3, <1>4, <1>5, <1>7, <1>7a, <1>14, <1>15, <1>16, <1>17, <1>18, <1>19, <1>20, TurnGrows

\* A set of numbers that is not empty has a least element.
LEMMA Least ==
  ASSUME NEW Q, Q \subseteq Nat, Q # {}
  PROVE  \E x \in Q : \A y \in Q : x <= y
<1> DEFINE R == {ss \in Nat \X Nat : ss[1] < ss[2]}
<1>1. IsWellFoundedOn(R, Nat)
  BY NatLessThanWellFounded, Zenon DEF OpToRel
<1>2. \A x, y \in Nat : <<y, x>> \in R <=> y < x
  OBVIOUS
<1> HIDE DEF R
<1>3. PICK x \in Q : \A y \in Q : ~(<<y, x>> \in R)
  BY <1>1, WFMin
<1>4. \A y \in Q : ~(y < x)
  BY <1>2, <1>3
<1> QED BY <1>4

\* The submit the arm is handed is the first one.
LEMMA HandledIs ==
  ASSUME NEW names \in Seq(STRING)
  PROVE  \/ Handled(names) = 0 /\ \A j \in DOMAIN names : names[j] # "submit_record"
         \/ /\ Handled(names) \in DOMAIN names /\ names[Handled(names)] = "submit_record"
            /\ \A j \in DOMAIN names : names[j] = "submit_record" => Handled(names) <= j
<1> DEFINE at == {j \in DOMAIN names : names[j] = "submit_record"}
           First(j) == \A k \in at : j <= k
<1>1. Handled(names) = IF at = {} THEN 0 ELSE CHOOSE j \in at : First(j) BY DEF Handled
<1>2. CASE at = {} BY <1>1, <1>2
<1>3. CASE at # {}
  <2>1. DOMAIN names = 1..Len(names) /\ Len(names) \in Nat OBVIOUS
  <2>2. at \in SUBSET Nat BY <2>1
  <2>3. \E j \in at : First(j) BY <1>3, <2>2, Least
  <2> QED BY <1>1, <1>3, <2>3
<1> QED BY <1>2, <1>3

\* What a batch adds to the counters.
LEMMA CountedIs ==
  ASSUME ctx \in Tally, NEW cost \in Nat, NEW names, NEW verdict, NEW taken \in Nat, NEW answered,
         NEW y, y = Counted(names, verdict, taken, answered, cost)
  PROVE  /\ y \in Tally /\ y.steps = ctx.steps + 1 /\ y.cum = ctx.cum + cost
         /\ y.tool_calls = ctx.tool_calls + taken
         /\ y.submits = IF Handled(names) \in 1..taken THEN ctx.submits + 1 ELSE ctx.submits
         /\ y.rounds = IF Handled(names) \in 1..answered /\ verdict = "no" THEN ctx.rounds + 1 ELSE ctx.rounds
<1>1. PICK x : x = Billed(cost) OBVIOUS
<1>2. /\ x \in Tally /\ x.steps = ctx.steps + 1 /\ x.cum = ctx.cum + cost
      /\ x.nudges = ctx.nudges /\ x.tool_calls = ctx.tool_calls /\ x.submits = ctx.submits
      /\ x.rounds = ctx.rounds
  BY <1>1, BilledIs
<1>3. x = [steps |-> x.steps, nudges |-> x.nudges, tool_calls |-> x.tool_calls,
           submits |-> x.submits, rounds |-> x.rounds, cum |-> x.cum]
  BY <1>2, CountersAre
<1>4. PICK tried : tried = IF Handled(names) \in 1..taken THEN x.submits + 1 ELSE x.submits OBVIOUS
<1>5. PICK lost : lost = IF Handled(names) \in 1..answered /\ verdict = "no" THEN x.rounds + 1 ELSE x.rounds
  OBVIOUS
<1>6. y = [x EXCEPT !.nudges = 0, !.tool_calls = x.tool_calls + taken, !.submits = tried, !.rounds = lost]
  BY <1>1, <1>4, <1>5, Zenon DEF Counted
<1>7. y = [steps |-> x.steps, nudges |-> 0, tool_calls |-> x.tool_calls + taken,
           submits |-> tried, rounds |-> lost, cum |-> x.cum]
  BY <1>3, <1>6
<1>8. /\ x.steps \in Nat /\ x.cum \in Nat /\ x.tool_calls \in Nat /\ x.submits \in Nat /\ x.rounds \in Nat
  BY <1>2 DEF Tally
<1>9. tried \in Nat /\ lost \in Nat BY <1>4, <1>5, <1>8
<1> QED BY <1>2, <1>4, <1>5, <1>7, <1>8, <1>9 DEF Tally

LEMMA BatchIsHashed ==
  ASSUME NEW names, NEW verdict, NEW taken, NEW answered, NEW cost,
         NEW line, line = BatchLine(names, verdict, taken, answered, cost)
  PROVE  line.hashed = TRUE
<1>1. PICK calls, results : line = TurnLine(calls, results, cost) BY Zenon DEF BatchLine
<1>2. PICK body : body = Body(calls, results) OBVIOUS
<1>3. body.hashed = TRUE BY <1>2, Zenon DEF Body
<1>4. line = StepLine(ctx.steps + 1, body, cost, ctx.cum + cost) BY <1>1, <1>2, Zenon DEF TurnLine
<1>5. line.hashed = body.hashed BY <1>4 DEF StepLine
<1> QED BY <1>3, <1>5, Zenon

\* The line of a batch: taken calls of it, the first answered of them answered.
Batched(line, names, verdict, taken, answered, turn) ==
  /\ DOMAIN line.calls = 1..taken /\ DOMAIN line.results = 1..answered
  /\ \A j \in 1..taken : line.calls[j].id = <<turn, j>> /\ line.calls[j].name = names[j]
  /\ \A j \in 1..answered : /\ line.results[j].call = <<turn, j>>
                            /\ line.results[j].says = Says(names, verdict, j)
LEMMA BatchIs ==
  ASSUME NEW names, NEW verdict, NEW taken \in Nat, NEW answered \in Nat, answered <= taken, NEW cost,
         NEW line, line = BatchLine(names, verdict, taken, answered, cost)
  PROVE  /\ line.type = "step" /\ line.step = ctx.steps + 1 /\ line.cost = cost /\ line.cum = ctx.cum + cost
         /\ line.usage = NoUsage /\ line.stop_reason = "tool_use"
         /\ Batched(line, names, verdict, taken, answered, ctx.steps)
         /\ Paired(line) /\ (answered = taken => Full(line)) /\ Shaped(line)
<1>1. PICK calls, results :
        /\ calls = [j \in 1..taken |-> Call(<<ctx.steps, j>>, names[j])]
        /\ results = [j \in 1..answered |-> Answer(<<ctx.steps, j>>, Says(names, verdict, j))]
  OBVIOUS
<1>2. line = TurnLine(calls, results, cost) BY <1>1 DEF BatchLine
<1>3. /\ line.type = "step" /\ line.step = ctx.steps + 1 /\ line.cost = cost /\ line.cum = ctx.cum + cost
      /\ line.usage = NoUsage /\ line.stop_reason = "tool_use"
      /\ line.calls = calls /\ line.results = results
  BY <1>2 DEF TurnLine, StepLine, Body
<1>5. DOMAIN line.calls = 1..taken /\ DOMAIN line.results = 1..answered BY <1>1, <1>3
<1>6. \A j \in 1..taken : line.calls[j].id = <<ctx.steps, j>> /\ line.calls[j].name = names[j]
  BY <1>1, <1>3 DEF Call
<1>7. \A j \in 1..answered : /\ line.results[j].call = <<ctx.steps, j>>
                             /\ line.results[j].says = Says(names, verdict, j)
  BY <1>1, <1>3 DEF Answer
<1>8. \A j \in 1..answered : j \in 1..taken OBVIOUS
<1>9. \A j \in 1..answered : line.results[j].call = line.calls[j].id BY <1>6, <1>7, <1>8
<1>10. Paired(line) BY <1>5, <1>9 DEF Paired
<1>11. answered = taken => Full(line) BY <1>5 DEF Full
<1>12. Shaped(line)
  <2>1. \E i, body, c, m : line = StepLine(i, body, c, m) BY <1>2, Zenon DEF TurnLine
  <2>2. PICK X : X = {results[j] : j \in 1..answered} OBVIOUS
  <2>3. results = [j \in 1..answered |-> results[j]] BY <1>1
  <2>4. results \in Seq(X)
    <3>1. \A j \in 1..answered : results[j] \in X BY <2>2
    <3> QED BY <2>3, <3>1
  <2>5. \E Y : line.results \in Seq(Y) BY <1>3, <2>4, Zenon
  <2> QED BY <2>1, <2>5 DEF Shaped
<1> HIDE DEF Says
<1> QED BY <1>3, <1>5, <1>6, <1>7, <1>10, <1>11, <1>12 DEF Batched

\* With one submit in it at most, a batch is rejected when its submit is.
LEMMA BatchSubmits ==
  ASSUME NEW names \in Seq(STRING), NEW verdict \in {"yes", "no"}, NEW taken \in Nat, NEW answered \in Nat,
         answered <= taken, taken <= Len(names), NEW cost,
         NEW line, line = BatchLine(names, verdict, taken, answered, cost)
  PROVE  /\ SubmitsOf(line) = {} <=> Handled(names) \notin 1..taken
         /\ \/ \E j, k \in SubmitsOf(line) : j # k
            \/ Cardinality(RejectedOf(line))
                 = IF Handled(names) \in 1..answered /\ verdict = "no" THEN 1 ELSE 0
<1>1. /\ DOMAIN line.calls = 1..taken /\ DOMAIN line.results = 1..answered
      /\ \A j \in 1..taken : line.calls[j].id = <<ctx.steps, j>> /\ line.calls[j].name = names[j]
      /\ \A j \in 1..answered : /\ line.results[j].call = <<ctx.steps, j>>
                                /\ line.results[j].says = Says(names, verdict, j)
  <2>1. Batched(line, names, verdict, taken, answered, ctx.steps) BY BatchIs
  <2> QED BY <2>1 DEF Batched
<1>2. DOMAIN names = 1..Len(names) /\ Len(names) \in Nat OBVIOUS
<1>3. PICK h : h = Handled(names) OBVIOUS
<1>4. \/ h = 0 /\ \A j \in DOMAIN names : names[j] # "submit_record"
      \/ /\ h \in DOMAIN names /\ names[h] = "submit_record"
         /\ \A j \in DOMAIN names : names[j] = "submit_record" => h <= j
  BY <1>3, HandledIs
<1>5. SubmitsOf(line) = {j \in 1..taken : names[j] = "submit_record"} BY <1>1 DEF SubmitsOf
<1>6. \A j \in 1..taken : j \in DOMAIN names BY <1>2
<1>7. SubmitsOf(line) = {} <=> h \notin 1..taken
  BY <1>2, <1>4, <1>5, <1>6
<1>8. ASSUME \A j, k \in SubmitsOf(line) : j = k
      PROVE  Cardinality(RejectedOf(line)) = IF h \in 1..answered /\ verdict = "no" THEN 1 ELSE 0
  <2>1. \A k \in 1..answered : k \in RejectedOf(line) <=>
          Says(names, verdict, k) = "no" /\ k \in SubmitsOf(line)
    <3> TAKE k \in 1..answered
    <3>1. k \in 1..taken OBVIOUS
    <3>2. ASSUME NEW j \in SubmitsOf(line), line.calls[j].id = line.results[k].call PROVE j = k
      <4>1. j \in 1..taken BY <1>5
      <4>2. <<ctx.steps, j>> = <<ctx.steps, k>> BY <1>1, <3>2, <4>1
      <4> QED BY <4>2
    <3>3. line.calls[k].id = line.results[k].call BY <1>1, <3>1
    <3>4. k \in RejectedOf(line) <=>
            /\ line.results[k].says = "no"
            /\ \E j \in SubmitsOf(line) : line.calls[j].id = line.results[k].call
      BY <1>1 DEF RejectedOf
    <3> HIDE DEF Says
    <3> QED BY <1>1, <3>2, <3>3, <3>4
  <2>2. \A k \in SubmitsOf(line) : k = h
    BY <1>4, <1>5, <1>6, <1>7, <1>8
  <2>3. h \in 1..taken => Says(names, verdict, h) = verdict
    <3> SUFFICES ASSUME h \in 1..taken PROVE Says(names, verdict, h) = verdict OBVIOUS
    <3>1. names[h] = "submit_record" BY <1>4, <1>6
    <3> QED BY <1>3, <3>1 DEF Says
  <2>4. RejectedOf(line) \subseteq 1..answered BY <1>1 DEF RejectedOf
  <2>5. RejectedOf(line) = IF h \in 1..answered /\ verdict = "no" THEN {h} ELSE {}
    <3>1. \A k \in 1..answered : k \in 1..taken OBVIOUS
    <3>2. h \in 1..answered => h \in SubmitsOf(line) BY <1>4, <1>5, <1>6, <3>1
    <3> HIDE DEF Says
    <3>3. CASE h \in 1..answered /\ verdict = "no"
      BY <2>1, <2>2, <2>3, <2>4, <3>1, <3>2, <3>3
    <3>4. CASE ~(h \in 1..answered /\ verdict = "no")
      BY <2>1, <2>2, <2>3, <2>4, <3>1, <3>2, <3>4
    <3> QED BY <3>3, <3>4
  <2> QED BY <2>5, FS_EmptySet, FS_Singleton
<1> QED BY <1>3, <1>7, <1>8

\* A batch, read as far as it is paid for and answered as far as it was read.
LEMMA BatchGrows ==
  ASSUME LiveInv, pc = "turn", NEW names \in Batches, NEW verdict \in {"yes", "no"}, NEW cost \in Costs,
         NEW taken \in Nat, NEW answered \in Nat, answered <= taken, taken <= Len(names),
         taken <= cell.tools - ctx.tool_calls,
         file' = Append(file, BatchLine(names, verdict, taken, answered, cost)),
         ctx' = Counted(names, verdict, taken, answered, cost),
         pc' \in {"turn", "gate", "stopping"},
         answered = taken \/ (pc' = "stopping" /\ why' = "api_error"),
         pc' = "turn" => (Handled(names) \in 1..taken => ctx.submits + 1 < cell.submits),
         pc' = "stopping" => why' \in {"api_error", "budget_exhausted", "max_submits"},
         record' = record \/ (pc' # "turn" /\ \E stores \in Records : record' = {stores}),
         UNCHANGED <<cell, codex, disk, parent>>
  PROVE  LiveInv'
<1>1. PICK line : line = BatchLine(names, verdict, taken, answered, cost) OBVIOUS
<1>2. cost \in Nat /\ names \in Seq(STRING) BY LifeAssumption
<1>3. /\ line.type = "step" /\ line.step = ctx.steps + 1 /\ line.cost = cost /\ line.cum = ctx.cum + cost
      /\ line.usage = NoUsage /\ line.stop_reason = "tool_use"
      /\ Batched(line, names, verdict, taken, answered, ctx.steps)
      /\ Paired(line) /\ (answered = taken => Full(line)) /\ Shaped(line)
  BY <1>1, BatchIs
<1>4. line.hashed = TRUE BY <1>1, BatchIsHashed
<1>5. /\ SubmitsOf(line) = {} <=> Handled(names) \notin 1..taken
      /\ \/ \E j, k \in SubmitsOf(line) : j # k
         \/ Cardinality(RejectedOf(line))
              = IF Handled(names) \in 1..answered /\ verdict = "no" THEN 1 ELSE 0
  BY <1>1, <1>2, BatchSubmits
<1>6. PICK n, p : Living(n, p) BY DEF LiveInv, Told, LivesOn
<1>7. Standing /\ cell.brain = "api" /\ record = {} /\ ctx.submits < cell.submits /\ cell \in Cells
  BY DEF LiveInv, Standing
<1>8. ApiBooks(StepsOf(file, n), n, ctx) /\ BodyOK(file, n, p, 0, cell, record)
  BY <1>6, <1>7 DEF Living
<1>9. ctx \in Tally /\ ctx.tool_calls <= cell.tools
  BY <1>8 DEF ApiBooks, BodyOK, Within
<1>10. PICK y : y = ctx' OBVIOUS
<1>11. /\ y \in Tally /\ y.steps = ctx.steps + 1 /\ y.cum = ctx.cum + cost
       /\ y.tool_calls = ctx.tool_calls + taken
       /\ y.submits = IF Handled(names) \in 1..taken THEN ctx.submits + 1 ELSE ctx.submits
       /\ y.rounds = IF Handled(names) \in 1..answered /\ verdict = "no" THEN ctx.rounds + 1 ELSE ctx.rounds
  BY <1>2, <1>9, <1>10, CountedIs
<1>12. DOMAIN line.calls = 1..taken /\ \A j \in DOMAIN line.calls : line.calls[j].id = <<ctx.steps, j>>
  BY <1>3 DEF Batched
<1>13. Cardinality(DOMAIN line.calls) = taken
  <2>1. PICK one : one = 1 /\ one \in Int OBVIOUS
  <2>2. one <= taken + 1 /\ taken - one + 1 = taken BY <2>1
  <2>3. Cardinality(one..taken) = taken - one + 1 BY <2>1, <2>2, Between
  <2> QED BY <1>12, <2>1, <2>2, <2>3
<1>14. ctx'.tool_calls = ctx.tool_calls + Cardinality(DOMAIN line.calls) /\ ctx'.tool_calls <= cell.tools
  <2>1. cell.tools \in Nat /\ ctx.tool_calls \in Nat BY <1>7, <1>9, LifeAssumption DEF Tally
  <2> QED BY <1>10, <1>11, <1>13, <2>1
<1>15. ctx'.submits = IF SubmitsOf(line) = {} THEN ctx.submits ELSE ctx.submits + 1
  BY <1>5, <1>10, <1>11
<1>16. (\E j, k \in SubmitsOf(line) : j # k)
           \/ ctx'.rounds = ctx.rounds + Cardinality(RejectedOf(line))
  <2>1. ctx.rounds \in Nat BY <1>9 DEF Tally
  <2>2. CASE \E j, k \in SubmitsOf(line) : j # k BY <2>2
  <2>3. CASE Cardinality(RejectedOf(line))
               = IF Handled(names) \in 1..answered /\ verdict = "no" THEN 1 ELSE 0
    BY <1>10, <1>11, <2>1, <2>3
  <2> QED BY <1>5, <2>2, <2>3
<1>17. Full(line) \/ (pc' = "stopping" /\ why' = "api_error") BY <1>3
<1>18. pc' = "turn" => ctx'.submits < cell.submits
  BY <1>7, <1>10, <1>11
<1>19. pc' = "stopping" => why' \in StopConditions \ AtGate
  BY StopsAre DEF AtGate
<1>20. /\ record' = {} \/ \E stores \in Records : record' = {stores}
       /\ pc' = "turn" => record' = {}
  BY <1>7
<1>21. ctx' \in Tally /\ ctx'.steps = ctx.steps + 1 /\ ctx'.cum = ctx.cum + cost
  BY <1>10, <1>11
<1>22. file' = Append(file, line) BY <1>1
<1>23. UNCHANGED <<cell, codex, disk, parent>> OBVIOUS
<1> QED
  BY <1>2, <1>3, <1>4, <1>12, <1>14, <1>15, <1>16, <1>17, <1>18, <1>19, <1>20, <1>21, <1>22, <1>23, TurnGrows

LEMMA ReadIs ==
  ASSUME LiveInv, pc = "turn", NEW names \in Batches, NEW verdict
  PROVE  /\ Read(names, verdict) \in Nat /\ Read(names, verdict) <= Len(names)
         /\ Paid(names, verdict) \in Nat /\ Paid(names, verdict) <= Read(names, verdict)
         /\ Paid(names, verdict) <= cell.tools - ctx.tool_calls
<1>1. names \in Seq(STRING) /\ Len(names) \in Nat /\ DOMAIN names = 1..Len(names) BY LifeAssumption
<1>2. Handled(names) \in 0..Len(names) BY <1>1, HandledIs
<1>3. Read(names, verdict) \in Nat /\ Read(names, verdict) <= Len(names)
  <2>1. Read(names, verdict) \in {Handled(names), Len(names)} BY DEF Read
  <2> QED BY <1>1, <1>2, <2>1
<1>4. PICK n, p : Living(n, p) BY DEF LiveInv, Told, LivesOn
<1>5. cell.brain = "api" /\ cell \in Cells BY DEF LiveInv, Standing
<1>6. ApiBooks(StepsOf(file, n), n, ctx) /\ BodyOK(file, n, p, 0, cell, record)
  BY <1>4, <1>5 DEF Living
<1>7. ctx.tool_calls \in Nat /\ ctx.tool_calls <= cell.tools /\ cell.tools \in Nat
  BY <1>5, <1>6, LifeAssumption DEF ApiBooks, BodyOK, Within, Tally
<1>8. PICK r, q \in Int : r = Read(names, verdict) /\ q = cell.tools - ctx.tool_calls BY <1>3, <1>7
<1>9. Paid(names, verdict) = IF r < q THEN r ELSE q BY <1>8 DEF Paid, Smaller
<1> QED BY <1>3, <1>7, <1>8, <1>9

LEMMA ToolKeeps ==
  ASSUME LiveInv, NEW names \in Batches, NEW verdict \in {"yes", "no"}, NEW cost \in Costs,
         ToolTurn(names, verdict, cost)
  PROVE  LiveInv'
<1>1. PICK n : n = Paid(names, verdict) OBVIOUS
<1>2. PICK handled, last : handled = Handled(names) /\ last = LastAttempt(names, verdict) OBVIOUS
<1>3. /\ pc = "turn"
      /\ file' = Append(file, BatchLine(names, verdict, n, n, cost))
      /\ ctx' = Counted(names, verdict, n, n, cost)
      /\ IF n < Read(names, verdict) THEN why' = "budget_exhausted" /\ pc' = "stopping" /\ UNCHANGED record
         ELSE IF LastAttempt(names, verdict) THEN why' = "max_submits" /\ pc' = "stopping" /\ UNCHANGED record
         ELSE IF Handled(names) \in 1..n /\ verdict = "yes"
         THEN /\ pc' = "gate" /\ UNCHANGED why
              /\ \E stores \in Records : record' = {stores}
         ELSE UNCHANGED <<pc, why, record>>
      /\ UNCHANGED <<cell, codex, disk, parent>>
  BY <1>1 DEF ToolTurn, Writes, Stops
<1>4. n \in Nat /\ n <= Read(names, verdict) /\ Read(names, verdict) \in Nat /\ n <= Len(names)
      /\ n <= cell.tools - ctx.tool_calls
  <2>1. Len(names) \in Nat BY LifeAssumption
  <2> QED BY <1>1, <1>3, <2>1, ReadIs
<1>5. /\ pc' \in {"turn", "gate", "stopping"}
      /\ pc' = "stopping" => why' \in {"api_error", "budget_exhausted", "max_submits"}
      /\ record' = record \/ (pc' # "turn" /\ \E stores \in Records : record' = {stores})
  BY <1>3
<1>6. pc' = "turn" => (Handled(names) \in 1..n => ctx.submits + 1 < cell.submits)
  <2> SUFFICES ASSUME pc' = "turn", Handled(names) \in 1..n PROVE ctx.submits + 1 < cell.submits
    OBVIOUS
  <2>1. ~LastAttempt(names, verdict) /\ verdict = "no" BY <1>3
  <2>2. Handled(names) # 0 BY <1>4
  <2>3. ~(ctx.submits + 1 >= cell.submits) BY <2>1, <2>2 DEF LastAttempt
  <2>4. cell.submits \in Nat /\ ctx.submits \in Nat
    <3>1. PICK m, p : Living(m, p) BY <1>3 DEF LiveInv, Told, LivesOn
    <3>2. cell.brain = "api" /\ cell \in Cells BY <1>3 DEF LiveInv, Standing
    <3>3. ctx \in Tally BY <3>1, <3>2 DEF Living, ApiBooks
    <3> QED BY <3>2, <3>3, LifeAssumption DEF Tally
  <2> QED BY <2>3, <2>4
<1>7. n <= n BY <1>4
<1> QED BY <1>3, <1>4, <1>5, <1>6, <1>7, BatchGrows

LEMMA RaisesKeep ==
  ASSUME LiveInv, NEW names \in Batches, NEW verdict \in {"yes", "no"}, NEW cost \in Costs,
         BatchRaises(names, verdict, cost)
  PROVE  LiveInv'
<1>1. PICK taken \in 1..Paid(names, verdict) :
       \E answered \in {taken} \cup ({Handled(names) - 1} \cap {taken - 1}) :
            /\ file' = Append(file, BatchLine(names, verdict, taken, answered, cost))
            /\ ctx' = Counted(names, verdict, taken, answered, cost)
  BY DEF BatchRaises, Writes
<1>2. PICK answered \in {taken, taken - 1} :
            /\ file' = Append(file, BatchLine(names, verdict, taken, answered, cost))
            /\ ctx' = Counted(names, verdict, taken, answered, cost)
  BY <1>1
<1>3. /\ pc = "turn" /\ pc' = "stopping" /\ why' = "api_error"
      /\ UNCHANGED <<cell, codex, record, disk, parent>>
  BY DEF BatchRaises, Stops
<1>4. /\ Read(names, verdict) \in Nat /\ Read(names, verdict) <= Len(names)
      /\ Paid(names, verdict) \in Nat /\ Paid(names, verdict) <= Read(names, verdict)
      /\ Paid(names, verdict) <= cell.tools - ctx.tool_calls
  BY <1>3, ReadIs
<1>5. cell.tools - ctx.tool_calls \in Int /\ Len(names) \in Nat
  <2>1. PICK m, p : Living(m, p) BY <1>3 DEF LiveInv, Told, LivesOn
  <2>2. cell.brain = "api" /\ cell \in Cells BY <1>3 DEF LiveInv, Standing
  <2>3. ctx \in Tally BY <2>1, <2>2 DEF Living, ApiBooks
  <2> QED BY <2>2, <2>3, LifeAssumption DEF Tally
<1>6. /\ taken \in Nat /\ answered \in Nat /\ answered <= taken /\ taken <= Len(names)
      /\ taken <= cell.tools - ctx.tool_calls
  BY <1>4, <1>5
<1>7. /\ pc' \in {"turn", "gate", "stopping"} /\ pc' # "turn"
      /\ why' \in {"api_error", "budget_exhausted", "max_submits"} /\ record' = record
      /\ UNCHANGED <<cell, codex, disk, parent>>
  BY <1>3
<1> QED BY <1>2, <1>3, <1>6, <1>7, BatchGrows

StreamStops == {"none", "budget_exhausted", "max_submits", "api_error"}

\* The steps S the driver's sums u are of, after m events.
Driven(S, n, u, m) ==
  /\ m \in Nat
  /\ u.written = n /\ u.cum = CumOf(S, n) /\ u.rejected = Cardinality(Rejections(S))
  /\ \A i \in 1..n : \A j \in DOMAIN S[i].calls : S[i].calls[j].id \in Nat /\ S[i].calls[j].id < m
  /\ \A i \in 1..n : Full(S[i])
\* What the stepper s holds beyond them.
Held(S, n, s, m) ==
  \E bought, tried \in {0, 1} :
    /\ \/ s.open = {} /\ bought = 0 /\ tried = 0
       \/ \E step : s.open = {step} /\ InFlight(step, bought, tried, S, n, m)
    /\ s.tool_calls = Cardinality(Calls(S)) + bought
    /\ s.submits = Cardinality(Attempts(S)) + tried
Frugal(s, c) == s.tool_calls <= c.tools /\ s.submits <= c.submits /\ s.stop \in StreamStops

LEMMA BooksAre ==
  ASSUME NEW S, NEW n, NEW c, NEW s, NEW u, NEW m
  PROVE  CodexBooks(S, n, c, s, u, m) <=> Driven(S, n, u, m) /\ Held(S, n, s, m) /\ Frugal(s, c)
  BY DEF CodexBooks, Driven, Held, Frugal, StreamStops

LEMMA LaterHeld ==
  ASSUME NEW S, NEW n, NEW u, NEW m, Driven(S, n, u, m),
         NEW s, Held(S, n, s, m), NEW t, t.open = s.open, t.tool_calls = s.tool_calls, t.submits = s.submits
  PROVE  Driven(S, n, u, m + 1) /\ Held(S, n, t, m + 1)
<1>1. m \in Nat BY DEF Driven
<1>2. ASSUME NEW id \in Nat, id < m PROVE id < m + 1 BY <1>1, <1>2
<1>3. Driven(S, n, u, m + 1) BY <1>1, <1>2 DEF Driven
<1>4. ASSUME NEW step, NEW bought, NEW tried, InFlight(step, bought, tried, S, n, m)
      PROVE  InFlight(step, bought, tried, S, n, m + 1)
  <2>1. PICK calls, results, reason :
          /\ step = [calls |-> calls, results |-> results, usage |-> NoUsage, hashed |-> FALSE,
                     stop_reason |-> reason]
          /\ reason # ""
          /\ \/ calls = <<>> /\ results = <<>> /\ bought = 0 /\ tried = 0
             \/ \E id \in Nat : \E name, says :
                  /\ calls = <<Call(id, name)>> /\ results = <<Answer(id, says)>>
                  /\ id < m /\ bought = 1 /\ tried = IF name = "submit_record" THEN 1 ELSE 0
                  /\ \A i \in 1..n : \A j \in DOMAIN S[i].calls : S[i].calls[j].id # id
    BY <1>4, Zenon DEF InFlight
  <2>2. \/ calls = <<>> /\ results = <<>> /\ bought = 0 /\ tried = 0
        \/ \E id \in Nat : \E name, says :
             /\ calls = <<Call(id, name)>> /\ results = <<Answer(id, says)>>
             /\ id < m + 1 /\ bought = 1 /\ tried = IF name = "submit_record" THEN 1 ELSE 0
             /\ \A i \in 1..n : \A j \in DOMAIN S[i].calls : S[i].calls[j].id # id
    BY <1>2, <2>1, Zenon
  <2>3. \E c, r, x :
          /\ step = [calls |-> c, results |-> r, usage |-> NoUsage, hashed |-> FALSE, stop_reason |-> x]
          /\ x # ""
          /\ \/ c = <<>> /\ r = <<>> /\ bought = 0 /\ tried = 0
             \/ \E id \in Nat : \E name, says :
                  /\ c = <<Call(id, name)>> /\ r = <<Answer(id, says)>>
                  /\ id < m + 1 /\ bought = 1 /\ tried = IF name = "submit_record" THEN 1 ELSE 0
                  /\ \A i \in 1..n : \A j \in DOMAIN S[i].calls : S[i].calls[j].id # id
    <3> WITNESS calls, results, reason
    <3> QED BY <2>1, <2>2, Zenon
  <2> QED BY <2>3, Zenon DEF InFlight
<1>5. Held(S, n, t, m + 1) BY <1>4 DEF Held
<1> QED BY <1>3, <1>5

LEMMA HaltedIs ==
  ASSUME NEW s, StepperShape(s), NEW halt, NEW t, t = Halted(s, halt)
  PROVE  /\ StepperShape(t) /\ t.open = s.open /\ t.tool_calls = s.tool_calls /\ t.submits = s.submits
         /\ t.totals = s.totals
         /\ s.stop \in StreamStops /\ halt \in StreamStops => t.stop \in StreamStops
  BY DEF StepperShape, Halted

\* An empty step in flight counts nothing.
LEMMA EmptyHeld ==
  ASSUME NEW S, NEW n, NEW m, NEW s, s.open = {OpenStep},
         Cardinality(Calls(S)) \in Nat, Cardinality(Attempts(S)) \in Nat,
         s.tool_calls = Cardinality(Calls(S)), s.submits = Cardinality(Attempts(S))
  PROVE  Held(S, n, s, m)
<1>1. PICK zero : zero = 0 OBVIOUS
<1>2. InFlight(OpenStep, zero, zero, S, n, m) BY <1>1 DEF InFlight, OpenStep
<1>3. /\ s.tool_calls = Cardinality(Calls(S)) + zero /\ s.submits = Cardinality(Attempts(S)) + zero
      /\ zero \in {0, 1}
  BY <1>1
<1> QED BY <1>2, <1>3 DEF Held

LEMMA BeginHolds ==
  ASSUME NEW S, NEW n, NEW m, NEW s, StepperShape(s), ~Joins(s), NEW b, b = Begun(s), NEW c, Frugal(s, c),
         Cardinality(Calls(S)) \in Nat, Cardinality(Attempts(S)) \in Nat,
         s.tool_calls = Cardinality(Calls(S)), s.submits = Cardinality(Attempts(S))
  PROVE  /\ Held(S, n, b, m) /\ StepperShape(b) /\ Frugal(b, c)
         /\ b.open = {OpenStep}
<1>0. PICK next : next = [s EXCEPT !.open = {OpenStep}, !.steps = @ + 1]
  OBVIOUS
<1>1. /\ StepperShape(next) /\ next.open = {OpenStep} /\ next.tool_calls = s.tool_calls
      /\ next.submits = s.submits /\ next.stop = s.stop
  BY <1>0 DEF StepperShape
<1>2. b = IF next.steps > MaxTurns THEN Halted(next, "budget_exhausted") ELSE next
  BY <1>0 DEF Begun
<1>3. PICK h : h = Halted(next, "budget_exhausted") OBVIOUS
<1>4. /\ StepperShape(h) /\ h.open = next.open /\ h.tool_calls = next.tool_calls /\ h.submits = next.submits
      /\ next.stop \in StreamStops => h.stop \in StreamStops
  <2>1. "budget_exhausted" \in StreamStops BY DEF StreamStops
  <2> QED BY <1>1, <1>3, <2>1, HaltedIs
<1>5. b = next \/ b = h BY <1>2, <1>3
<1>6. /\ StepperShape(b) /\ b.open = {OpenStep} /\ b.tool_calls = s.tool_calls /\ b.submits = s.submits
      /\ b.stop \in StreamStops
  BY <1>1, <1>4, <1>5 DEF Frugal
<1> QED BY <1>6, EmptyHeld DEF Frugal

\* An item goes into the empty step in flight, when a budget pays for it.
LEMMA AbsorbHolds ==
  ASSUME NEW S, NEW n, NEW u, NEW m, Driven(S, n, u, m), NEW c \in Cells,
         Cardinality(Calls(S)) \in Nat, Cardinality(Attempts(S)) \in Nat,
         NEW s, StepperShape(s), Held(S, n, s, m), Frugal(s, c), Joins(s),
         NEW item, item.id = m, NEW t, t = Absorbed(s, item, c)
  PROVE  /\ Held(S, n, t, m + 1) /\ StepperShape(t) /\ Frugal(t, c)
<1>0. m \in Nat BY DEF Driven
<1>1. PICK bought, tried \in {0, 1} :
        /\ \/ s.open = {} /\ bought = 0 /\ tried = 0
           \/ \E step : s.open = {step} /\ InFlight(step, bought, tried, S, n, m)
        /\ s.tool_calls = Cardinality(Calls(S)) + bought
        /\ s.submits = Cardinality(Attempts(S)) + tried
  BY DEF Held
<1>2. PICK step : s.open = {step} /\ step.calls = <<>> /\ InFlight(step, bought, tried, S, n, m)
  BY <1>1 DEF Joins
<1>3. PICK reason : step = [calls |-> <<>>, results |-> <<>>, usage |-> NoUsage, hashed |-> FALSE,
                            stop_reason |-> reason] /\ bought = 0 /\ tried = 0
  <2>1. PICK calls, results, reason :
          /\ step = [calls |-> calls, results |-> results, usage |-> NoUsage, hashed |-> FALSE,
                     stop_reason |-> reason]
          /\ \/ calls = <<>> /\ results = <<>> /\ bought = 0 /\ tried = 0
             \/ \E id \in Nat : \E name, says : calls = <<Call(id, name)>>
    BY <1>2 DEF InFlight
  <2>2. calls = <<>> BY <1>2, <2>1
  <2>3. \A x : <<x>> # <<>> OBVIOUS
  <2> QED BY <2>1, <2>2, <2>3
<1>4. s.tool_calls = Cardinality(Calls(S)) /\ s.submits = Cardinality(Attempts(S)) BY <1>1, <1>3
<1>5. t = IF item.type \in TextItems THEN s
          ELSE IF Affordable(s, NameOf(item), c) THEN Bought(s, item) ELSE Refused(s, c)
  BY DEF Absorbed
<1>6. CASE t = s
  BY <1>6, LaterHeld
<1>7. CASE t = Refused(s, c)
  <2>1. PICK halt \in {"budget_exhausted", "max_submits"} : t = Halted(s, halt) BY <1>7 DEF Refused
  <2>2. halt \in StreamStops BY DEF StreamStops
  <2>3. StepperShape(t) /\ t.open = s.open /\ t.tool_calls = s.tool_calls /\ t.submits = s.submits
        /\ t.stop \in StreamStops
    BY <2>1, <2>2, HaltedIs DEF Frugal
  <2> QED BY <2>3, LaterHeld DEF Frugal
<1>8. CASE t = Bought(s, item) /\ Affordable(s, NameOf(item), c)
  <2>1. PICK name, says : name = NameOf(item) /\ says = SaysOf(item) OBVIOUS
  <2> DEFINE More(x) == [x EXCEPT !.calls = Append(@, Call(item.id, NameOf(item))),
                                  !.results = Append(@, Answer(item.id, SaysOf(item))),
                                  !.stop_reason = "tool_use"]
             more == {More(x) : x \in s.open}
  <2>2. PICK full : full = More(step) OBVIOUS
  <2>3. full = [calls |-> <<Call(m, name)>>, results |-> <<Answer(m, says)>>, usage |-> NoUsage,
                hashed |-> FALSE, stop_reason |-> "tool_use"]
    <3>1. PICK calls, results : calls = Append(step.calls, Call(item.id, NameOf(item)))
                                /\ results = Append(step.results, Answer(item.id, SaysOf(item)))
      OBVIOUS
    <3>2. calls = <<Call(m, name)>> /\ results = <<Answer(m, says)>>
      <4>1. step.calls = <<>> /\ step.results = <<>> BY <1>3
      <4>2. \A x : Append(<<>>, x) = <<x>> OBVIOUS
      <4> QED BY <2>1, <3>1, <4>1, <4>2
    <3>3. full = [step EXCEPT !.calls = calls, !.results = results, !.stop_reason = "tool_use"]
      BY <2>2, <3>1
    <3>4. full = [calls |-> calls, results |-> results, usage |-> NoUsage,
                  hashed |-> FALSE, stop_reason |-> "tool_use"]
      BY <1>3, <3>3
    <3> QED BY <3>2, <3>4
  <2>4. more = {full} BY <1>2, <2>2
  <2>5. t = [s EXCEPT !.tool_calls = @ + 1,
                      !.submits = IF NameOf(item) = "submit_record" THEN @ + 1 ELSE @,
                      !.open = more]
    BY <1>8 DEF Bought, StepperShape
  <2> HIDE DEF more
  <2>6. PICK one : one = IF name = "submit_record" THEN 1 ELSE 0 OBVIOUS
  <2>7. /\ StepperShape(t) /\ t.open = {full} /\ t.tool_calls = s.tool_calls + 1
        /\ t.submits = IF name = "submit_record" THEN s.submits + 1 ELSE s.submits
        /\ t.stop = s.stop
    BY <2>1, <2>4, <2>5 DEF StepperShape
  <2>8. t.submits = Cardinality(Attempts(S)) + one /\ t.tool_calls = Cardinality(Calls(S)) + 1
        /\ one \in {0, 1}
    BY <1>4, <2>6, <2>7
  <2>9. \A i \in 1..n : \A j \in DOMAIN S[i].calls : S[i].calls[j].id # m
    BY <1>0 DEF Driven
  <2>10. InFlight(full, 1, one, S, n, m + 1)
    <3>1. m \in Nat /\ m < m + 1 BY <1>0
    <3>2. full = [calls |-> <<Call(m, name)>>, results |-> <<Answer(m, says)>>, usage |-> NoUsage,
                hashed |-> FALSE, stop_reason |-> "tool_use"] /\ "tool_use" # ""
      BY <2>3
    <3>3. \E id \in Nat : \E x, y :
             /\ <<Call(m, name)>> = <<Call(id, x)>> /\ <<Answer(m, says)>> = <<Answer(id, y)>>
             /\ id < m + 1 /\ 1 = 1 /\ one = IF x = "submit_record" THEN 1 ELSE 0
             /\ \A i \in 1..n : \A j \in DOMAIN S[i].calls : S[i].calls[j].id # id
      BY <2>6, <2>9, <3>1, Zenon
    <3> QED BY <3>2, <3>3, Zenon DEF InFlight
  <2>11. Held(S, n, t, m + 1)
    <3>1. PICK x : x = 1 /\ x \in {0, 1} OBVIOUS
    <3>2. InFlight(full, x, one, S, n, m + 1) /\ t.tool_calls = Cardinality(Calls(S)) + x BY <2>8, <2>10, <3>1
    <3> QED BY <2>7, <2>8, <3>1, <3>2 DEF Held
  <2>12. Frugal(t, c)
    <3>1. c.tools \in Nat /\ c.submits \in Nat BY LifeAssumption
    <3>2. s.tool_calls < c.tools /\ (name = "submit_record" => s.submits < c.submits)
      BY <1>8, <2>1 DEF Affordable
    <3> QED BY <1>4, <2>7, <3>1, <3>2 DEF Frugal
  <2> QED BY <2>7, <2>11, <2>12
<1> QED BY <1>5, <1>6, <1>7, <1>8

\* What a step declares and costs is counted in naturals.
LEMMA SettledCounts ==
  ASSUME NEW u, u.spent = NoUsage, NEW step, step.usage = NoUsage, NEW totals, NEW k, Reported(totals, k)
  PROVE  \A key \in UsageKeys : Settled(u, step, totals)[key] \in Nat
<1>1. \A key \in Keys : NoUsage[key] = 0 BY DEF Keys, NoUsage
<1>2. UsageKeys = Keys BY DEF UsageKeys, Keys
<1>3. CASE totals = {}
  <2>1. \A key \in Keys : Settled(u, step, totals)[key] = 0
    BY <1>1, <1>3 DEF Settled
  <2> QED BY <1>2, <2>1
<1>4. CASE totals # {}
  <2>1. PICK t \in Tokens : totals = {t} BY <1>4 DEF Reported
  <2>2. (CHOOSE x \in totals : TRUE) = t BY <2>1
  <2>3. \A key \in Keys : t[key] \in Nat BY DEF Tokens
  <2>4. \A key \in Keys : Settled(u, step, totals)[key] = 0 + Larger(0, t[key] - 0 - 0)
    BY <1>1, <1>4, <2>2 DEF Settled
  <2> QED BY <1>2, <2>3, <2>4 DEF Larger
<1> QED BY <1>3, <1>4

LEMMA EstimateCounts ==
  ASSUME NEW usage, \A key \in UsageKeys : usage[key] \in Nat,
         NEW table, table \subseteq [input : Nat, cached : Nat, output : Nat]
  PROVE  Estimate(usage, table) \in Nat
<1>1. CASE table = {} BY <1>1 DEF Estimate
<1>2. CASE table # {}
  <2>1. PICK price : price = CHOOSE p \in table : TRUE OBVIOUS
  <2>2. price.input \in Nat /\ price.cached \in Nat /\ price.output \in Nat BY <1>2, <2>1
  <2>3. usage["input"] \in Nat /\ usage["cache_read"] \in Nat /\ usage["cache_write"] \in Nat
        /\ usage["output"] \in Nat
    BY DEF UsageKeys
  <2>4. \A a, b \in Nat : a * b \in Nat OBVIOUS
  <2>5. PICK q, r, s, t \in Nat : /\ q = usage["input"] * price.input /\ r = usage["cache_read"] * price.cached
                                  /\ s = usage["cache_write"] * price.input /\ t = usage["output"] * price.output
    BY <2>2, <2>3, <2>4
  <2>6. Estimate(usage, table) = q + r + s + t BY <1>2, <2>1, <2>5 DEF Estimate
  <2> QED BY <2>6
<1> QED BY <1>1, <1>2

\* A step in flight, as the driver writes it.
Airborne(step, bought, tried, S, n, m) ==
  /\ step.usage = NoUsage /\ step.stop_reason # ""
  /\ Paired(step) /\ Full(step) /\ (\E X : step.results \in Seq(X))
  /\ DOMAIN step.calls = 1..bought
  /\ tried = IF SubmitsOf(step) = {} THEN 0 ELSE 1
  /\ \A j \in DOMAIN step.calls : /\ step.calls[j].id \in Nat /\ step.calls[j].id < m
                                  /\ \A i \in 1..n : \A h \in DOMAIN S[i].calls :
                                       S[i].calls[h].id # step.calls[j].id

LEMMA InFlightIs ==
  ASSUME NEW step, NEW bought \in {0, 1}, NEW tried, NEW S, NEW n, NEW m, InFlight(step, bought, tried, S, n, m)
  PROVE  Airborne(step, bought, tried, S, n, m)
<1>1. PICK calls, results, reason :
        /\ step = [calls |-> calls, results |-> results, usage |-> NoUsage, hashed |-> FALSE,
                   stop_reason |-> reason]
        /\ reason # ""
        /\ \/ calls = <<>> /\ results = <<>> /\ bought = 0 /\ tried = 0
           \/ \E id \in Nat : \E name, says :
                /\ calls = <<Call(id, name)>> /\ results = <<Answer(id, says)>>
                /\ id < m /\ bought = 1 /\ tried = IF name = "submit_record" THEN 1 ELSE 0
                /\ \A i \in 1..n : \A j \in DOMAIN S[i].calls : S[i].calls[j].id # id
  BY Zenon DEF InFlight
<1>2. step.usage = NoUsage /\ step.stop_reason # "" /\ step.calls = calls /\ step.results = results
  BY <1>1
<1>3. CASE calls = <<>> /\ results = <<>> /\ bought = 0 /\ tried = 0
  <2>1. DOMAIN calls = 1..0 /\ DOMAIN results = 1..0 /\ DOMAIN calls = {} /\ 1..bought = 1..0 BY <1>3
  <2>1a. DOMAIN step.calls = 1..0 /\ DOMAIN step.results = 1..0 BY <1>2, <2>1, Zenon
  <2>2. Paired(step)
    <3>1. PICK z \in Nat : z = 0 OBVIOUS
    <3>2. DOMAIN step.calls = 1..z /\ DOMAIN step.results = 1..z /\ z <= z
          /\ \A k \in 1..z : step.results[k].call = step.calls[k].id
      BY <2>1a, <3>1
    <3> QED BY <3>2 DEF Paired
  <2>3. Full(step) BY <1>2, <2>1 DEF Full
  <2>4. SubmitsOf(step) = {} BY <1>2, <2>1 DEF SubmitsOf
  <2>4a. \E X : step.results \in Seq(X)
    <3>1. <<>> \in Seq({}) OBVIOUS
    <3> QED BY <1>2, <1>3, <3>1, Zenon
  <2>5. 1..bought = 1..0 /\ DOMAIN step.calls = {} BY <1>3, <2>1a
  <2> QED BY <1>2, <1>3, <2>1a, <2>2, <2>3, <2>4, <2>4a, <2>5 DEF Airborne
<1>4. CASE \E id \in Nat : \E name, says :
             /\ calls = <<Call(id, name)>> /\ results = <<Answer(id, says)>>
             /\ id < m /\ bought = 1 /\ tried = IF name = "submit_record" THEN 1 ELSE 0
             /\ \A i \in 1..n : \A j \in DOMAIN S[i].calls : S[i].calls[j].id # id
  <2>0. PICK id \in Nat : \E name, says :
             /\ calls = <<Call(id, name)>> /\ results = <<Answer(id, says)>>
             /\ id < m /\ bought = 1 /\ tried = IF name = "submit_record" THEN 1 ELSE 0
             /\ \A i \in 1..n : \A j \in DOMAIN S[i].calls : S[i].calls[j].id # id
    BY <1>4
  <2>1. PICK name, says :
             /\ calls = <<Call(id, name)>> /\ results = <<Answer(id, says)>>
             /\ id < m /\ bought = 1 /\ tried = IF name = "submit_record" THEN 1 ELSE 0
             /\ \A i \in 1..n : \A j \in DOMAIN S[i].calls : S[i].calls[j].id # id
    BY <2>0
  <2>2. PICK call, answer : call = Call(id, name) /\ answer = Answer(id, says) OBVIOUS
  <2>3. call.id = id /\ call.name = name /\ answer.call = id BY <2>2 DEF Call, Answer
  <2>4. calls = <<call>> /\ results = <<answer>> BY <2>1, <2>2
  <2>5. DOMAIN calls = 1..1 /\ DOMAIN results = 1..1 /\ calls[1] = call /\ results[1] = answer /\ 1..bought = 1..1
    BY <2>1, <2>4
  <2>5a. DOMAIN step.calls = 1..1 /\ DOMAIN step.results = 1..1 /\ step.calls[1] = call /\ step.results[1] = answer
    BY <1>2, <2>5, Zenon
  <2>6. Paired(step)
    <3>1. \A k \in 1..1 : step.results[k].call = step.calls[k].id BY <2>3, <2>5a
    <3>2. PICK size \in Nat : size = 1 OBVIOUS
    <3>3. /\ size <= size /\ DOMAIN step.calls = 1..size /\ DOMAIN step.results = 1..size
          /\ \A k \in 1..size : step.results[k].call = step.calls[k].id
      BY <2>5a, <3>1, <3>2
    <3> QED BY <3>3 DEF Paired
  <2>7. Full(step) BY <2>5a DEF Full
  <2>8. tried = IF SubmitsOf(step) = {} THEN 0 ELSE 1
    <3>1. \A j \in DOMAIN step.calls : step.calls[j].name = name BY <2>3, <2>5a
    <3>2. 1 \in DOMAIN step.calls BY <2>5a
    <3>3. SubmitsOf(step) = {} <=> name # "submit_record" BY <3>1, <3>2 DEF SubmitsOf
    <3> QED BY <2>1, <3>3
  <2>9. \A j \in DOMAIN step.calls : step.calls[j].id = id BY <2>3, <2>5a
  <2>10. 1..bought = 1..1 BY <2>1
  <2>11. \E X : step.results \in Seq(X)
    <3>1. <<answer>> \in Seq({answer}) OBVIOUS
    <3> QED BY <1>2, <2>4, <3>1, Zenon
  <2> QED BY <1>2, <2>1, <2>5a, <2>6, <2>7, <2>8, <2>9, <2>10, <2>11 DEF Airborne
<1> QED BY <1>1, <1>3, <1>4

\* What the driver writes of a step.
LEMMA WrittenIs ==
  ASSUME NEW u, NEW step, NEW totals, NEW table, NEW line, line = Written(u, step, totals, table),
         NEW v, v = Summed(u, step, totals, table), NEW calls, NEW results, NEW reason,
         step = [calls |-> calls, results |-> results, usage |-> NoUsage, hashed |-> FALSE,
                 stop_reason |-> reason],
         NEW usage, usage = Settled(u, step, totals), NEW cost, cost = Estimate(usage, table)
  PROVE  /\ line.type = "step" /\ line.step = u.written + 1 /\ line.cost = cost
         /\ line.cum = u.cum + cost /\ line.usage = usage
         /\ line.calls = step.calls /\ line.results = step.results /\ line.stop_reason = step.stop_reason
         /\ v.written = u.written + 1 /\ v.cum = u.cum + cost
         /\ v.rejected = u.rejected + RejectedOn(step)
         /\ \E i, body, b, d : line = StepLine(i, body, b, d)
<1>1. PICK body : body = [step EXCEPT !.usage = usage] OBVIOUS
<1>2. body = [calls |-> calls, results |-> results, usage |-> usage, hashed |-> FALSE, stop_reason |-> reason]
  BY <1>1
<1>3. line = StepLine(u.written + 1, body, cost, u.cum + cost) BY <1>1 DEF Written
<1>4. /\ line.type = "step" /\ line.step = u.written + 1 /\ line.cost = cost
      /\ line.cum = u.cum + cost /\ line.usage = body.usage
      /\ line.calls = body.calls /\ line.results = body.results /\ line.stop_reason = body.stop_reason
  BY <1>3 DEF StepLine
<1>5. v.written = u.written + 1 /\ v.cum = u.cum + cost /\ v.rejected = u.rejected + RejectedOn(step)
  BY DEF Summed
<1>6. \E i, b, x, y : line = StepLine(i, b, x, y) BY <1>3, Zenon
<1> QED BY <1>2, <1>4, <1>5, <1>6

LEMMA RejectedSame ==
  ASSUME NEW step, NEW line, line.calls = step.calls, line.results = step.results
  PROVE  /\ RejectedOn(step) = Cardinality(RejectedOf(line)) /\ SubmitsOf(line) = SubmitsOf(step)
         /\ (Paired(step) => Paired(line)) /\ (Full(step) => Full(line))
<1>1. SubmitsOf(line) = SubmitsOf(step) BY DEF SubmitsOf
<1>2. RejectedOf(line) = RejectedOf(step) BY <1>1 DEF RejectedOf
<1>3. {k \in DOMAIN step.results :
     /\ step.results[k].says = "no"
     /\ \E j \in DOMAIN step.calls : /\ step.calls[j].id = step.results[k].call
                                     /\ step.calls[j].name = "submit_record"} = RejectedOf(step)
  BY DEF RejectedOf, SubmitsOf
<1> QED BY <1>1, <1>2, <1>3 DEF RejectedOn, Paired, Full

LEMMA WriteGrows ==
  ASSUME NEW f, NEW n, NEW c \in Cells, c.brain = "codex", NEW stored, BodyOK(f, n, 0, 0, c, stored),
         NEW S, S = StepsOf(f, n), NEW u, NEW m, Driven(S, n, u, m), u.spent = NoUsage,
         NEW s, Held(S, n, s, m), Frugal(s, c), NEW step, s.open = {step},
         NEW totals, NEW k, Reported(totals, k),
         NEW table, table \subseteq [input : Nat, cached : Nat, output : Nat],
         NEW line, line = Written(u, step, totals, table), NEW v, v = Summed(u, step, totals, table),
         NEW T, T = StepsOf(Append(f, line), n + 1)
  PROVE  /\ BodyOK(Append(f, line), n + 1, 0, 0, c, stored)
         /\ Driven(T, n + 1, v, m)
         /\ s.tool_calls = Cardinality(Calls(T)) /\ s.submits = Cardinality(Attempts(T))
         /\ Cardinality(Calls(T)) \in Nat /\ Cardinality(Attempts(T)) \in Nat
<1>1. PICK bought, tried \in {0, 1} :
        /\ InFlight(step, bought, tried, S, n, m)
        /\ s.tool_calls = Cardinality(Calls(S)) + bought
        /\ s.submits = Cardinality(Attempts(S)) + tried
  <2>1. PICK bought, tried \in {0, 1} :
        /\ \/ s.open = {} /\ bought = 0 /\ tried = 0
           \/ \E x : s.open = {x} /\ InFlight(x, bought, tried, S, n, m)
        /\ s.tool_calls = Cardinality(Calls(S)) + bought
        /\ s.submits = Cardinality(Attempts(S)) + tried
    BY DEF Held
  <2>2. PICK x : s.open = {x} /\ InFlight(x, bought, tried, S, n, m) BY <2>1
  <2>3. x = step BY <2>2
  <2> QED BY <2>1, <2>2, <2>3
<1>2. PICK calls, results, reason :
        step = [calls |-> calls, results |-> results, usage |-> NoUsage, hashed |-> FALSE,
                stop_reason |-> reason]
  BY <1>1, Zenon DEF InFlight
<1>3. /\ step.usage = NoUsage /\ step.stop_reason # "" /\ Paired(step) /\ Full(step)
      /\ \E X : step.results \in Seq(X)
      /\ DOMAIN step.calls = 1..bought
      /\ tried = IF SubmitsOf(step) = {} THEN 0 ELSE 1
      /\ \A j \in DOMAIN step.calls : /\ step.calls[j].id \in Nat /\ step.calls[j].id < m
                                      /\ \A i \in 1..n : \A h \in DOMAIN S[i].calls :
                                           S[i].calls[h].id # step.calls[j].id
  <2>1. Airborne(step, bought, tried, S, n, m) BY <1>1, InFlightIs
  <2> QED BY <2>1, Zenon DEF Airborne
<1>4. PICK usage, cost : usage = Settled(u, step, totals) /\ cost = Estimate(usage, table) OBVIOUS
<1>5. (\A key \in UsageKeys : usage[key] \in Nat) /\ cost \in Nat
  BY <1>3, <1>4, SettledCounts, EstimateCounts
<1>6. /\ line.type = "step" /\ line.step = u.written + 1 /\ line.cost = cost
      /\ line.cum = u.cum + cost /\ line.usage = usage
      /\ line.calls = step.calls /\ line.results = step.results /\ line.stop_reason = step.stop_reason
      /\ v.written = u.written + 1 /\ v.cum = u.cum + cost
      /\ v.rejected = u.rejected + RejectedOn(step)
      /\ \E i, body, x, y : line = StepLine(i, body, x, y)
  BY <1>2, <1>4, WrittenIs
<1>7. /\ RejectedOn(step) = Cardinality(RejectedOf(line)) /\ SubmitsOf(line) = SubmitsOf(step)
      /\ Paired(line) /\ Full(line)
  BY <1>3, <1>6, RejectedSame
<1>8. /\ Framed(f, n, 0, 0) /\ n \in Nat /\ StepsOK(S, n, c.brain) /\ Finite(S)
  BY DEF BodyOK, Framed
<1>9. /\ m \in Nat /\ u.written = n /\ u.cum = CumOf(S, n) /\ u.rejected = Cardinality(Rejections(S))
      /\ \A i \in 1..n : \A j \in DOMAIN S[i].calls : S[i].calls[j].id \in Nat /\ S[i].calls[j].id < m
      /\ \A i \in 1..n : Full(S[i])
  BY DEF Driven
<1>10. CumOf(S, n) \in Nat
  <2>1. CASE n = 0 BY <2>1 DEF CumOf
  <2>2. CASE n # 0
    <3>1. n \in 1..n BY <1>8, <2>2
    <3>2. StepOK(S[n], n, CumOf(S, n - 1), c.brain) BY <1>8, <3>1 DEF StepsOK
    <3> QED BY <2>2, <3>2 DEF StepOK, CumOf
  <2> QED BY <2>1, <2>2
<1>11. StepOK(line, n + 1, CumOf(S, n), c.brain)
  <2>1. line.step = n + 1 /\ line.cum = CumOf(S, n) + line.cost /\ line.cost \in Nat /\ line.cum \in Nat
    BY <1>5, <1>6, <1>8, <1>9, <1>10
  <2>2. c.brain # "api" OBVIOUS
  <2>3. line.stop_reason # "" BY <1>3, <1>6
  <2>4. \A key \in UsageKeys : line.usage[key] \in Nat BY <1>5, <1>6
  <2>5. \E X : line.results \in Seq(X) BY <1>3, <1>6, Zenon
  <2>6. Shaped(line) BY <1>6, <2>5, Zenon DEF Shaped
  <2> QED BY <1>6, <1>7, <2>1, <2>2, <2>3, <2>4, <2>6 DEF StepOK
<1>12. DOMAIN line.calls = 1..bought /\ \A j, h \in DOMAIN line.calls : j = h
  <2>1. DOMAIN line.calls = 1..bought BY <1>3, <1>6, Zenon
  <2>2. \A j, h \in 1..bought : j = h BY <1>1
  <2> QED BY <2>1, <2>2
<1>13. \A i \in 1..n : \A h \in DOMAIN S[i].calls : \A j \in DOMAIN line.calls :
         S[i].calls[h].id # line.calls[j].id
  <2>1. PICK asked : asked = step.calls /\ asked = line.calls BY <1>6
  <2>2. \A j \in DOMAIN asked : \A i \in 1..n : \A h \in DOMAIN S[i].calls :
          S[i].calls[h].id # asked[j].id
    BY <1>3, <2>1, Zenon
  <2>3. \A i \in 1..n : \A h \in DOMAIN S[i].calls : \A j \in DOMAIN asked :
          S[i].calls[h].id # asked[j].id
    BY <2>2, Zenon
  <2>4. line.calls = asked BY <2>1
  <2> HIDE <2>1
  <2> TAKE i \in 1..n
  <2> TAKE h \in DOMAIN S[i].calls
  <2> TAKE j \in DOMAIN line.calls
  <2>5. j \in DOMAIN asked /\ line.calls[j] = asked[j] BY <2>4
  <2> QED BY <2>3, <2>5
<1>14. Cardinality(DOMAIN line.calls) = bought
  <2>1. PICK one : one = 1 /\ one \in Int OBVIOUS
  <2>2. bought \in Int /\ one <= bought + 1 /\ bought - one + 1 = bought BY <1>1, <2>1
  <2>3. Cardinality(one..bought) = bought - one + 1 BY <2>1, <2>2, Between
  <2> QED BY <1>12, <2>1, <2>2, <2>3
<1>15. Cardinality(Calls(S)) \in Nat /\ Cardinality(Attempts(S)) \in Nat
  BY <1>8, FS_CardinalityType DEF Finite
<1>16. /\ Cardinality(Calls(S)) + Cardinality(DOMAIN line.calls) <= c.tools
       /\ SubmitsOf(line) # {} => Cardinality(Attempts(S)) + 1 <= c.submits
  BY <1>1, <1>3, <1>7, <1>14 DEF Frugal
<1>17. \A j, h \in DOMAIN line.calls : line.calls[j].id = line.calls[h].id => j = h BY <1>12
<1>18. n > 0 => Full(S[n])
  <2>1. n > 0 => n \in 1..n BY <1>8
  <2> QED BY <1>9, <2>1
<1>19. BodyOK(Append(f, line), n + 1, 0, 0, c, stored) /\ Grown(S, T, n, line)
  BY <1>11, <1>13, <1>16, <1>17, <1>18, BodyGrows
<1>20. /\ Finite(T)
       /\ Cardinality(Calls(T)) = Cardinality(Calls(S)) + Cardinality(DOMAIN line.calls)
       /\ Cardinality(Rejections(T)) = Cardinality(Rejections(S)) + Cardinality(RejectedOf(line))
       /\ Cardinality(Attempts(T))
              = IF SubmitsOf(line) = {} THEN Cardinality(Attempts(S))
                ELSE Cardinality(Attempts(S)) + 1
  BY <1>7, <1>8, <1>19, CountsAdd
<1>21. CumOf(T, n + 1) = line.cum BY <1>19, CumGrows
<1>22. /\ \A i \in 1..n : T[i] = S[i]
       /\ T[n + 1] = line
  BY <1>19 DEF Grown
<1>23. \A i \in 1..(n + 1) : i \in 1..n \/ i = n + 1 BY <1>8
<1>24. \A i \in 1..(n + 1) : Full(T[i]) BY <1>7, <1>9, <1>22, <1>23
<1>25. \A i \in 1..(n + 1) : \A j \in DOMAIN T[i].calls : T[i].calls[j].id \in Nat /\ T[i].calls[j].id < m
  <2> SUFFICES ASSUME NEW i \in 1..(n + 1), NEW j \in DOMAIN T[i].calls
               PROVE  T[i].calls[j].id \in Nat /\ T[i].calls[j].id < m
    OBVIOUS
  <2>1. CASE i \in 1..n
    <3>1. T[i] = S[i] BY <1>22, <2>1
    <3>2. j \in DOMAIN S[i].calls BY <3>1
    <3> QED BY <1>9, <2>1, <3>1, <3>2
  <2>2. CASE i = n + 1
    <3>1. T[i].calls = step.calls BY <1>6, <1>22, <2>2
    <3> QED BY <1>3, <3>1
  <2> QED BY <1>23, <2>1, <2>2
<1>26. Driven(T, n + 1, v, m)
  <2>1. v.written = n + 1 /\ v.cum = CumOf(T, n + 1) BY <1>6, <1>9, <1>21
  <2>2. v.rejected = Cardinality(Rejections(T)) BY <1>6, <1>7, <1>9, <1>20
  <2> QED BY <1>9, <1>24, <1>25, <2>1, <2>2 DEF Driven
<1>27. s.tool_calls = Cardinality(Calls(T)) /\ s.submits = Cardinality(Attempts(T))
  <2>1. PICK a, b, x, y : /\ a = Cardinality(Calls(T)) /\ b = Cardinality(Attempts(T))
                          /\ x = Cardinality(Calls(S)) /\ y = Cardinality(Attempts(S))
    OBVIOUS
  <2>2. a = x + bought /\ s.tool_calls = x + bought BY <1>1, <1>14, <1>20, <2>1
  <2>3. s.submits = y + tried /\ y \in Nat BY <1>1, <1>15, <2>1
  <2>4. b = IF SubmitsOf(step) = {} THEN y ELSE y + 1 BY <1>7, <1>20, <2>1
  <2>5. tried = IF SubmitsOf(step) = {} THEN 0 ELSE 1 BY <1>3
  <2> QED BY <2>1, <2>2, <2>3, <2>4, <2>5
<1>28. Cardinality(Calls(T)) \in Nat /\ Cardinality(Attempts(T)) \in Nat
  BY <1>20, FS_CardinalityType DEF Finite
<1> QED BY <1>19, <1>26, <1>27, <1>28

\* What the driver has written of a stream, after m events.
Streamed(f, k, c, stored, s, u, m) ==
  /\ BodyOK(f, k, 0, 0, c, stored)
  /\ Driven(StepsOf(f, k), k, u, m) /\ Held(StepsOf(f, k), k, s, m) /\ Frugal(s, c)

\* An item that begins a step, or goes into the one in flight.
LEMMA ItemStreams ==
  ASSUME NEW f, NEW n, NEW c \in Cells, c.brain = "codex", NEW stored, NEW s, NEW u, NEW m,
         Streamed(f, n, c, stored, s, u, m), StepperShape(s), u.spent = NoUsage,
         NEW table, table \subseteq [input : Nat, cached : Nat, output : Nat],
         NEW item, item.id = m, NEW fed, fed = Absorbed(Begun(s), item, c),
         NEW done, done = Finished(s), NEW g, NEW v,
         IF done = {} THEN g = f /\ v = u
         ELSE \E step \in done : /\ g = Append(f, Written(u, step, {}, table))
                                 /\ v = Summed(u, step, {}, table)
  PROVE  StepperShape(fed) /\ \E k : Streamed(g, k, c, stored, fed, v, m + 1)
<1>1. PICK S : S = StepsOf(f, n) OBVIOUS
<1>2. BodyOK(f, n, 0, 0, c, stored) /\ Driven(S, n, u, m) /\ Held(S, n, s, m) /\ Frugal(s, c)
  BY <1>1 DEF Streamed
<1>3. PICK b : b = Begun(s) OBVIOUS
<1>4. Cardinality(Calls(S)) \in Nat /\ Cardinality(Attempts(S)) \in Nat
  BY <1>1, <1>2, FS_CardinalityType DEF BodyOK, Finite
<1>5. s.open = {} \/ \E step : s.open = {step} BY <1>2 DEF Held
<1>6. ASSUME NEW T, NEW k, NEW w, Cardinality(Calls(T)) \in Nat, Cardinality(Attempts(T)) \in Nat,
             Driven(T, k, w, m), Held(T, k, b, m), Frugal(b, c), StepperShape(b), Joins(b)
      PROVE  Driven(T, k, w, m + 1) /\ Held(T, k, fed, m + 1) /\ Frugal(fed, c) /\ StepperShape(fed)
  <2>1. fed = Absorbed(b, item, c) BY <1>3
  <2>2. Held(T, k, fed, m + 1) /\ Frugal(fed, c) /\ StepperShape(fed)
    BY <1>6, <2>1, AbsorbHolds
  <2>3. Driven(T, k, w, m + 1) BY <1>6, LaterHeld
  <2> QED BY <2>2, <2>3
<1>7. CASE Joins(s)
  <2>1. b = s /\ done = {} BY <1>3, <1>7 DEF Begun, Finished
  <2>2. g = f /\ v = u BY <2>1
  <2> QED BY <1>1, <1>2, <1>4, <1>6, <1>7, <2>1, <2>2 DEF Streamed
<1>8. CASE ~Joins(s) /\ s.open = {}
  <2>1. done = {} BY <1>8 DEF Finished
  <2>2. g = f /\ v = u BY <2>1
  <2>3. s.tool_calls = Cardinality(Calls(S)) /\ s.submits = Cardinality(Attempts(S))
    BY <1>2, <1>4, <1>8 DEF Held
  <2>4. Held(S, n, b, m) /\ StepperShape(b) /\ Frugal(b, c) /\ b.open = {OpenStep}
    BY <1>2, <1>3, <1>4, <1>8, <2>3, BeginHolds
  <2>5. Joins(b) BY <2>4 DEF Joins, OpenStep
  <2> QED BY <1>1, <1>2, <1>4, <1>6, <2>2, <2>4, <2>5 DEF Streamed
<1>9. CASE ~Joins(s) /\ s.open # {}
  <2>1. PICK step : s.open = {step} /\ done = {step} BY <1>5, <1>9 DEF Finished
  <2>2. g = Append(f, Written(u, step, {}, table)) /\ v = Summed(u, step, {}, table) BY <2>1
  <2>3. PICK line, T : line = Written(u, step, {}, table) /\ T = StepsOf(g, n + 1) OBVIOUS
  <2>4. PICK zero : zero = 0 OBVIOUS
  <2>5. PICK none : none = {} OBVIOUS
  <2>6. Reported(none, zero) BY <2>4, <2>5 DEF Reported
  <2>7. /\ BodyOK(Append(f, line), n + 1, 0, 0, c, stored)
        /\ Driven(T, n + 1, v, m)
        /\ s.tool_calls = Cardinality(Calls(T)) /\ s.submits = Cardinality(Attempts(T))
        /\ Cardinality(Calls(T)) \in Nat /\ Cardinality(Attempts(T)) \in Nat
    <3>1. /\ line = Written(u, step, none, table) /\ v = Summed(u, step, none, table)
          /\ T = StepsOf(Append(f, line), n + 1)
      BY <2>2, <2>3, <2>5
    <3> QED BY <1>1, <1>2, <2>1, <2>6, <3>1, WriteGrows
  <2>8. Held(T, n + 1, b, m) /\ StepperShape(b) /\ Frugal(b, c) /\ b.open = {OpenStep}
    BY <1>2, <1>3, <1>9, <2>7, BeginHolds
  <2>9. Joins(b) BY <2>8 DEF Joins, OpenStep
  <2>10. Driven(T, n + 1, v, m + 1) /\ Held(T, n + 1, fed, m + 1) /\ Frugal(fed, c) /\ StepperShape(fed)
    BY <1>6, <2>7, <2>8, <2>9
  <2>11. Streamed(g, n + 1, c, stored, fed, v, m + 1)
    BY <2>2, <2>3, <2>7, <2>10 DEF Streamed
  <2> QED BY <2>10, <2>11
<1> QED BY <1>7, <1>8, <1>9

\* Any event.
LEMMA EventStreams ==
  ASSUME NEW f, NEW n, NEW c \in Cells, c.brain = "codex", NEW stored, NEW s, NEW u,
         Streamed(f, n, c, stored, s, u, events), StepperShape(s), u.spent = NoUsage,
         NEW table, table \subseteq [input : Nat, cached : Nat, output : Nat],
         NEW event \in Happenings, NEW fed, fed = Fed(s, event, c),
         NEW done, done = Closes(s, event), NEW g, NEW v,
         IF done = {} THEN g = f /\ v = u
         ELSE \E step \in done : /\ g = Append(f, Written(u, step, {}, table))
                                 /\ v = Summed(u, step, {}, table)
  PROVE  StepperShape(fed) /\ \E k : Streamed(g, k, c, stored, fed, v, events + 1)
<1>1. Driven(StepsOf(f, n), n, u, events) /\ Held(StepsOf(f, n), n, s, events) /\ Frugal(s, c)
      /\ BodyOK(f, n, 0, 0, c, stored)
  BY DEF Streamed
<1>2. ASSUME done = {}, StepperShape(fed), fed.open = s.open, fed.tool_calls = s.tool_calls,
             fed.submits = s.submits, fed.stop \in StreamStops
      PROVE  StepperShape(fed) /\ \E k : Streamed(g, k, c, stored, fed, v, events + 1)
  <2>1. g = f /\ v = u BY <1>2
  <2>2. Driven(StepsOf(f, n), n, u, events + 1) /\ Held(StepsOf(f, n), n, fed, events + 1)
    BY <1>1, <1>2, LaterHeld
  <2>3. Frugal(fed, c) BY <1>1, <1>2 DEF Frugal
  <2> QED BY <1>1, <1>2, <2>1, <2>2, <2>3 DEF Streamed
<1>3. s.stop \in StreamStops BY <1>1 DEF Frugal
<1>4. CASE event.kind = "turn.completed"
  <2>1. fed = [s EXCEPT !.totals = Totals(s, event.usage)] /\ done = {} BY <1>4 DEF Fed, Closes
  <2>2. StepperShape(fed) /\ fed.open = s.open /\ fed.tool_calls = s.tool_calls
        /\ fed.submits = s.submits /\ fed.stop \in StreamStops
    BY <1>3, <2>1 DEF StepperShape
  <2> QED BY <1>2, <2>1, <2>2
<1>5. CASE event.kind = "turn.failed"
  <2>1. fed = Halted(s, "api_error") /\ done = {} BY <1>5 DEF Fed, Closes
  <2>2. "api_error" \in StreamStops BY DEF StreamStops
  <2>3. StepperShape(fed) /\ fed.open = s.open /\ fed.tool_calls = s.tool_calls
        /\ fed.submits = s.submits /\ fed.stop \in StreamStops
    BY <1>3, <2>1, <2>2, HaltedIs
  <2> QED BY <1>2, <2>1, <2>3
<1>6. CASE event.kind \notin {"turn.completed", "turn.failed"}
  <2>1. event.kind = "item" /\ event.item.id = events BY <1>6 DEF Happenings
  <2>2. CASE event.item.type \in CallItems \cup TextItems
    <3>1. fed = Absorbed(Begun(s), event.item, c) /\ done = Finished(s)
      BY <2>1, <2>2 DEF Fed, Closes
    <3>2. PICK item : item = event.item OBVIOUS
    <3>3. PICK m : m = events OBVIOUS
    <3>4. Streamed(f, n, c, stored, s, u, m) /\ item.id = m /\ fed = Absorbed(Begun(s), item, c)
      BY <2>1, <3>1, <3>2, <3>3
    <3>5. StepperShape(fed) /\ \E k : Streamed(g, k, c, stored, fed, v, m + 1)
      BY <3>1, <3>4, ItemStreams
    <3> QED BY <3>3, <3>5
  <2>3. CASE event.item.type \notin CallItems \cup TextItems
    <3>1. fed = s /\ done = {} BY <2>1, <2>3 DEF Fed, Closes
    <3> QED BY <1>2, <1>3, <3>1
  <2> QED BY <2>2, <2>3
<1> QED BY <1>4, <1>5, <1>6

\* A local brain's run, between two events.
LEMMA StreamLives ==
  ASSUME LiveInv, TInv, pc \in {"stream", "closing"}
  PROVE  /\ cell \in Cells /\ cell.brain = "codex" /\ Standing
         /\ StepperShape(stepper) /\ sums.spent = NoUsage
         /\ prices \subseteq [input : Nat, cached : Nat, output : Nat]
         /\ Reported(stepper.totals, reported)
         /\ \E n : Streamed(file, n, cell, record, stepper, sums, events)
<1>1. Standing /\ cell \in Cells /\ cell.brain = "codex" /\ prices \in PriceTables
  BY DEF LiveInv, Standing, LivesOn
<1>2. Stepping /\ Reading /\ sums.spent = NoUsage BY DEF TInv, Live, Reading
<1>3. prices \subseteq [input : Nat, cached : Nat, output : Nat] BY <1>1, LifeAssumption
<1>4. PICK n, p : Living(n, p) BY DEF LiveInv, Told, LivesOn
<1>5. BodyOK(file, n, 0, 0, cell, record) /\ CodexBooks(StepsOf(file, n), n, cell, stepper, sums, events)
  BY <1>1, <1>4 DEF Living
<1>6. Streamed(file, n, cell, record, stepper, sums, events) BY <1>5, BooksAre DEF Streamed
<1> QED BY <1>1, <1>2, <1>3, <1>6 DEF Stepping

LEMMA EventLives ==
  ASSUME LiveInv, TInv, NEW event \in Happenings, CodexEvent(event)
  PROVE  LiveInv'
<1>1. PICK fed, done : fed = Fed(stepper, event, cell) /\ done = Closes(stepper, event) OBVIOUS
<1>2. /\ pc = "stream" /\ pc' \in {"stream", "closing"} /\ events' = events + 1
      /\ IF done = {} THEN file' = file /\ sums' = sums
         ELSE \E step \in done : /\ file' = Append(file, Written(sums, step, {}, prices))
                                 /\ sums' = Summed(sums, step, {}, prices)
      /\ stepper' = fed \/ stepper' = Halted(fed, "max_submits")
      /\ record' = record \/ (record = {} /\ \E stores \in Records : record' = {stores})
      /\ UNCHANGED <<cell, why, ctx, prices, raised, disk, timed, closer, diagnosis>>
  BY <1>1 DEF CodexEvent, Writes, api, parent
<1>3. /\ cell \in Cells /\ cell.brain = "codex" /\ Standing
      /\ StepperShape(stepper) /\ sums.spent = NoUsage
      /\ prices \subseteq [input : Nat, cached : Nat, output : Nat]
  BY <1>2, StreamLives
<1>4. PICK n : Streamed(file, n, cell, record, stepper, sums, events) BY <1>2, StreamLives
<1>5. StepperShape(fed) /\ \E k : Streamed(file', k, cell, record, fed, sums', events + 1)
  <2>1. PICK g, v : g = file' /\ v = sums' OBVIOUS
  <2>2. IF done = {} THEN g = file /\ v = sums
        ELSE \E step \in done : /\ g = Append(file, Written(sums, step, {}, prices))
                                /\ v = Summed(sums, step, {}, prices)
    BY <1>2, <2>1
  <2>3. StepperShape(fed) /\ \E k : Streamed(g, k, cell, record, fed, v, events + 1)
    BY <1>1, <1>3, <1>4, <2>2, EventStreams
  <2> QED BY <2>1, <2>3
<1>6. PICK k : Streamed(file', k, cell, record, fed, sums', events + 1) BY <1>5
<1>7. PICK s : s = stepper' OBVIOUS
<1>8. s.open = fed.open /\ s.tool_calls = fed.tool_calls /\ s.submits = fed.submits /\ s.stop \in StreamStops
  <2>1. fed.stop \in StreamStops /\ "max_submits" \in StreamStops BY <1>6 DEF Streamed, Frugal, StreamStops
  <2>2. CASE s = fed BY <2>1, <2>2
  <2>3. CASE s = Halted(fed, "max_submits") BY <1>5, <2>1, <2>3, HaltedIs
  <2> QED BY <1>2, <1>7, <2>2, <2>3
<1>9. /\ BodyOK(file', k, 0, 0, cell, record') /\ Driven(StepsOf(file', k), k, sums', events')
      /\ Held(StepsOf(file', k), k, s, events') /\ Frugal(s, cell)
  BY <1>2, <1>6, <1>8 DEF Streamed, BodyOK, Held, Frugal
<1>10. CodexBooks(StepsOf(file', k), k, cell, stepper', sums', events') BY <1>7, <1>9, BooksAre
<1>11. k > 0 => Full(StepsOf(file', k)[k])
  <2>1. k \in Nat BY <1>9 DEF BodyOK, Framed
  <2>2. k > 0 => k \in 1..k BY <2>1
  <2> QED BY <1>9, <2>2 DEF Driven
<1>12. Living(k, 0)' BY <1>2, <1>3, <1>9, <1>10, <1>11 DEF Living
<1>13. Standing'
  BY <1>2, <1>3 DEF Standing, LivesOn
<1> QED BY <1>12, <1>13 DEF LiveInv, Told

LEMMA CloseLives ==
  ASSUME LiveInv, TInv, StreamCloses
  PROVE  LiveInv'
<1>1. /\ pc = "closing" /\ pc' \in {"gate", "stopping"}
      /\ stepper' = [stepper EXCEPT !.open = {}]
      /\ IF stepper.open = {} THEN file' = file /\ sums' = sums
         ELSE \E step \in stepper.open :
                /\ file' = Append(file, Written(sums, step, stepper.totals, prices))
                /\ sums' = Summed(sums, step, stepper.totals, prices)
      /\ pc' = "stopping" => why' \in {stepper.stop, "api_error", "no_submission", "timeout", "max_submits"}
      /\ pc' = "stopping" => why' # "none"
      /\ UNCHANGED <<cell, ctx, prices, raised, events, record, disk, timed, closer, diagnosis>>
  BY DEF StreamCloses, Writes, Stops, api, parent
<1>2. /\ cell \in Cells /\ cell.brain = "codex" /\ Standing
      /\ StepperShape(stepper) /\ sums.spent = NoUsage
      /\ prices \subseteq [input : Nat, cached : Nat, output : Nat]
      /\ Reported(stepper.totals, reported)
  BY <1>1, StreamLives
<1>3. PICK n : Streamed(file, n, cell, record, stepper, sums, events) BY <1>1, StreamLives
<1>4. PICK S : S = StepsOf(file, n) OBVIOUS
<1>5. BodyOK(file, n, 0, 0, cell, record) /\ Driven(S, n, sums, events) /\ Held(S, n, stepper, events)
      /\ Frugal(stepper, cell)
  BY <1>3, <1>4 DEF Streamed
<1>6. PICK s : s = stepper' OBVIOUS
<1>7. s.open = {} /\ s.tool_calls = stepper.tool_calls /\ s.submits = stepper.submits
      /\ s.stop = stepper.stop
  BY <1>1, <1>2, <1>6 DEF StepperShape
<1>8. \E k : /\ BodyOK(file', k, 0, 0, cell, record) /\ Driven(StepsOf(file', k), k, sums', events)
             /\ Held(StepsOf(file', k), k, s, events)
  <2>0. Cardinality(Calls(S)) \in Nat /\ Cardinality(Attempts(S)) \in Nat
    BY <1>4, <1>5, FS_CardinalityType DEF BodyOK, Finite
  <2>1. CASE stepper.open = {}
    <3>1. file' = file /\ sums' = sums BY <1>1, <2>1
    <3>2. Held(S, n, s, events) BY <1>5, <1>7, <2>1 DEF Held
    <3> QED BY <1>4, <1>5, <3>1, <3>2
  <2>2. CASE stepper.open # {}
    <3>1. PICK step : stepper.open = {step} BY <1>5, <2>2 DEF Held
    <3>2. PICK line, v, totals : /\ line = Written(sums, step, totals, prices)
                                 /\ v = Summed(sums, step, totals, prices) /\ totals = stepper.totals
      OBVIOUS
    <3>3. file' = Append(file, line) /\ sums' = v BY <1>1, <2>2, <3>1, <3>2
    <3>4. PICK T : T = StepsOf(Append(file, line), n + 1) OBVIOUS
    <3>5. Reported(totals, reported) BY <1>2, <3>2
    <3>6. /\ BodyOK(Append(file, line), n + 1, 0, 0, cell, record)
          /\ Driven(T, n + 1, v, events)
          /\ stepper.tool_calls = Cardinality(Calls(T)) /\ stepper.submits = Cardinality(Attempts(T))
          /\ Cardinality(Calls(T)) \in Nat /\ Cardinality(Attempts(T)) \in Nat
      BY <1>2, <1>4, <1>5, <3>1, <3>2, <3>4, <3>5, WriteGrows
    <3>7. PICK zero : zero = 0 OBVIOUS
    <3>8. s.tool_calls = Cardinality(Calls(T)) + zero /\ s.submits = Cardinality(Attempts(T)) + zero
      BY <1>7, <3>6, <3>7
    <3>9. Held(T, n + 1, s, events) BY <1>7, <3>7, <3>8 DEF Held
    <3> QED BY <3>3, <3>4, <3>6, <3>9
  <2> QED BY <2>1, <2>2
<1>9. PICK k : /\ BodyOK(file', k, 0, 0, cell, record) /\ Driven(StepsOf(file', k), k, sums', events)
               /\ Held(StepsOf(file', k), k, s, events)
  BY <1>8
<1>10. Frugal(s, cell) BY <1>5, <1>7 DEF Frugal
<1>11. CodexBooks(StepsOf(file', k), k, cell, stepper', sums', events') BY <1>1, <1>6, <1>9, <1>10, BooksAre
<1>12. k > 0 => Full(StepsOf(file', k)[k])
  <2>1. k \in Nat BY <1>9 DEF BodyOK, Framed
  <2>2. k > 0 => k \in 1..k BY <2>1
  <2> QED BY <1>9, <2>2 DEF Driven
<1>13. pc' = "stopping" => why' \in StopConditions \ AtGate
  <2>1. stepper.stop \in StreamStops BY <1>5 DEF Frugal
  <2> QED BY <1>1, <2>1, StopsAre DEF AtGate, StreamStops
<1>14. BodyOK(file', k, 0, 0, cell', record') BY <1>1, <1>9
<1>15. Living(k, 0)' BY <1>1, <1>2, <1>11, <1>12, <1>13, <1>14 DEF Living
<1>16. Standing'
  BY <1>1, <1>2, <1>6, <1>7, <1>13 DEF Standing, LivesOn
<1> QED BY <1>1, <1>15, <1>16 DEF LiveInv, Told

LEMMA OnlyNone ==
  ASSUME NEW f, NEW type, Places(f, type) = {}
  PROVE  Only(f, type) = <<>>
<1>1. PICK a \in Int, m \in Nat : a = 0 /\ m = 0 OBVIOUS
<1>2. Places(f, type) = (a + 1)..(a + m) BY <1>1
<1>3. Only(f, type) = [k \in 1..m |-> f[a + k]] BY <1>2, OnlyStretch
<1>4. 1..m = {} BY <1>1
<1>5. [k \in 1..m |-> f[a + k]] = <<>> BY <1>4
<1> QED BY <1>3, <1>5

TornCut(f) == [f EXCEPT ![Len(f)] = Torn]
UnendedCut(f) == [f EXCEPT ![Len(f)] = Unended(@)]

LEMMA CutIs ==
  ASSUME NEW f, NEW n, NEW p, NEW e, Framed(f, n, p, e), NEW left \in Cuts(f)
  PROVE  /\ Len(f) \in Nat \ {0} /\ DOMAIN f = 1..Len(f) /\ DOMAIN left = 1..Len(f) /\ Len(left) = Len(f)
         /\ left = f \/ left = TornCut(f) \/ left = UnendedCut(f)
         /\ \A i \in 1..(Len(f) - 1) : left[i] = f[i]
         /\ left = f => left[Len(f)] = f[Len(f)]
         /\ left = TornCut(f) => left[Len(f)] = Torn
         /\ left = UnendedCut(f) => left[Len(f)] = Unended(f[Len(f)])
         /\ \E X : left \in Seq(X)
<1>1. PICK X : f \in Seq(X) BY DEF Framed
<1>2. n \in Nat /\ p \in Nat /\ e \in Nat /\ Len(f) = 1 + n + p + e BY FramedDomain
<1>3. PICK l \in Nat \ {0} : l = Len(f) BY <1>2
<1>4. DOMAIN f = 1..l /\ l \in 1..l /\ \A i \in 1..(l - 1) : i \in 1..l /\ i # l BY <1>1, <1>3
<1>5. PICK Y : Y = X \cup {Torn, Unended(f[l])} OBVIOUS
<1>6. f \in Seq(Y) /\ Torn \in Y /\ Unended(f[l]) \in Y BY <1>1, <1>5
<1>7. left = f \/ left = [f EXCEPT ![l] = Torn] \/ left = [f EXCEPT ![l] = Unended(f[l])]
  BY <1>3 DEF Cuts
<1>8. left \in Seq(Y) /\ Len(left) = l
  <2>1. CASE left = f BY <1>3, <1>6, <2>1
  <2>2. CASE left = [f EXCEPT ![l] = Torn] BY <1>3, <1>4, <1>6, <2>2
  <2>3. CASE left = [f EXCEPT ![l] = Unended(f[l])]
    <3>1. PICK x \in Y : x = Unended(f[l]) BY <1>6
    <3> QED BY <1>3, <1>4, <1>6, <2>3, <3>1
  <2> QED BY <1>7, <2>1, <2>2, <2>3
<1>9. /\ \A i \in 1..(l - 1) : left[i] = f[i]
      /\ left = TornCut(f) => left[l] = Torn
      /\ left = UnendedCut(f) => left[l] = Unended(f[l])
      /\ DOMAIN left = 1..l
  BY <1>3, <1>4, <1>7 DEF TornCut, UnendedCut
<1> QED BY <1>3, <1>4, <1>7, <1>8, <1>9 DEF TornCut, UnendedCut

\* What the validator, and the parent, read of a file that was left.
LEMMA CutParses ==
  ASSUME NEW f, NEW n, NEW p, NEW e, Framed(f, n, p, e), NEW left \in Cuts(f)
  PROVE  /\ left = f \/ left = UnendedCut(f) => Parsed(left) = f
         /\ (left = TornCut(f) \/ e = 0) /\ e \in {0, 1} => Ended(left) = <<>>
         /\ Whole(f)
<1>0. PICK l \in Nat \ {0} : l = Len(f) BY CutIs
<1>1. /\ DOMAIN f = 1..l /\ DOMAIN left = 1..l
      /\ left = f \/ left = TornCut(f) \/ left = UnendedCut(f)
      /\ \A i \in 1..(l - 1) : left[i] = f[i]
      /\ left = f => left[l] = f[l]
      /\ left = TornCut(f) => left[l] = Torn
      /\ left = UnendedCut(f) => left[l] = Unended(f[l])
  BY <1>0, CutIs
<1>2. Whole(f)
  <2>1. /\ Places(f, "run_start") = (0 + 1)..(0 + 1)
        /\ Places(f, "step") = (1 + 1)..(1 + n)
        /\ Places(f, "checkpoint") = (1 + n + 1)..(1 + n + p)
        /\ Places(f, "run_end") = (1 + n + p + 1)..(1 + n + p + e)
    BY FramedPlaces
  <2>2. DOMAIN f = 1..(1 + n + p + e) /\ n \in Nat /\ p \in Nat /\ e \in Nat BY FramedDomain
  <2>3. \A i \in DOMAIN f : \/ i \in (0 + 1)..(0 + 1) \/ i \in (1 + 1)..(1 + n)
                            \/ i \in (1 + n + 1)..(1 + n + p) \/ i \in (1 + n + p + 1)..(1 + n + p + e)
    BY <2>2
  <2>4. \A i \in DOMAIN f : f[i].type \in {"run_start", "step", "checkpoint", "run_end"}
    BY <2>1, <2>3 DEF Places
  <2> QED BY <2>4 DEF Whole
<1>3. \A i \in 1..l : Line(f[i]) = f[i] BY <1>1, <1>2 DEF Whole, Line
<1>4. f = [i \in 1..l |-> f[i]]
  <2>1. f = [i \in 1..(1 + n + p + e) |-> f[i]] /\ Len(f) = 1 + n + p + e BY FramedDomain
  <2> QED BY <1>0, <2>1
<1>5. Parsed(left) = [i \in 1..l |-> Line(left[i])] BY <1>1 DEF Parsed
<1>6. ASSUME left = f \/ left = UnendedCut(f) PROVE Parsed(left) = f
  <2>1. \A i \in 1..l : i \in 1..(l - 1) \/ i = l OBVIOUS
  <2>2. Line(Unended(f[l])) = f[l] BY DEF Line, Unended
  <2>3. \A i \in 1..l : Line(left[i]) = f[i] BY <1>1, <1>3, <1>6, <2>1, <2>2
  <2> QED BY <1>4, <1>5, <2>3
<1>7. ASSUME left = TornCut(f) \/ e = 0, e \in {0, 1} PROVE Ended(left) = <<>>
  <2>1. Places(Parsed(left), "run_end") = {}
    <3>1. Places(f, "run_end") = (1 + n + p + 1)..(1 + n + p + e) BY FramedPlaces
    <3>2. n \in Nat /\ p \in Nat /\ Len(f) = 1 + n + p + e BY FramedDomain
    <3>3. CASE e = 0 /\ left # TornCut(f)
      <4>1. Parsed(left) = f BY <1>1, <1>6, <3>3
      <4>2. (1 + n + p + 1)..(1 + n + p + e) = {} BY <3>2, <3>3
      <4> QED BY <3>1, <4>1, <4>2
    <3>4. CASE left = TornCut(f)
      <4>1. \A i \in (1 + n + p + 1)..(1 + n + p + e) : i = l BY <1>0, <1>7, <3>2
      <4>2. \A i \in 1..(l - 1) : f[i].type # "run_end"
        <5>1. \A i \in 1..(l - 1) : i \in DOMAIN f /\ i # l BY <1>1
        <5> QED BY <3>1, <4>1, <5>1 DEF Places
      <4>3. \A i \in 1..(l - 1) : i \in 1..l OBVIOUS
      <4>4. \A i \in 1..(l - 1) : Line(left[i]) = f[i] BY <1>1, <1>3, <4>3
      <4>5. Line(left[l]).type = "torn" BY <1>1, <3>4 DEF Line, Torn
      <4>6. \A i \in 1..l : i \in 1..(l - 1) \/ i = l OBVIOUS
      <4>7. \A i \in 1..l : Line(left[i]).type # "run_end" BY <4>2, <4>4, <4>5, <4>6
      <4> QED BY <1>5, <4>7 DEF Places
    <3> QED BY <1>7, <3>3, <3>4
  <2> QED BY <2>1, OnlyNone DEF Ended
<1> QED BY <1>2, <1>6, <1>7

\* A child that is stopped leaves its file whole, or cut in the last line.
LEMMA ExitLeaves ==
  ASSUME LiveInv, Killed \/ Dies
  PROVE  LiveInv' /\ Left'
<1>1. /\ Alive /\ file' \in Torns /\ pc' = "gone" /\ record' = {}
      /\ closer' = IF Ended(file') = <<>> THEN "none" ELSE closer
      /\ UNCHANGED <<cell, raised, disk, diagnosis>>
  BY DEF Killed, Dies, Exits
<1>2. Standing /\ pc \in LivesOn BY <1>1 DEF LiveInv, Standing, Alive, LivesOn
<1>3. /\ cell \in Cells /\ disk \subseteq record /\ diagnosis = {}
      /\ closer = IF pc = "ended" THEN "child" ELSE "none"
  BY <1>2 DEF Standing
<1>4. PICK n, p : Living(n, p) BY <1>2 DEF LiveInv, Told
<1>5. PICK e \in {0, 1} : e = IF pc = "ended" THEN 1 ELSE 0 OBVIOUS
<1>6. /\ BodyOK(file, n, p, e, cell, record)
      /\ e = 1 => EndingOK(file, n, p, cell, raised)
  BY <1>4, <1>5 DEF Living
<1>7. BodyOK(file, n, p, e, cell, disk)
  BY <1>3, <1>6 DEF BodyOK, PointOK
<1>8. file' \in Cuts(file)
  BY <1>1 DEF Torns, Cuts
<1>9. LeftOver(file', cell', disk', raised')
  <2>1. LeftOver(file', cell, disk, raised) BY <1>6, <1>7, <1>8 DEF LeftOver
  <2> QED BY <1>1, <2>1
<1>10. closer' = IF Ended(file') = <<>> THEN "none" ELSE "child"
  <2>1. CASE e = 0
    <3>1. Framed(file, n, p, e) BY <1>6 DEF BodyOK
    <3>2. Ended(file') = <<>> BY <1>8, <2>1, <3>1, CutParses
    <3> QED BY <1>1, <3>2
  <2>2. CASE e = 1 BY <1>1, <1>3, <1>5, <2>2
  <2> QED BY <2>1, <2>2
<1>11. Left' BY <1>1, <1>3, <1>9, <1>10 DEF Left
<1>12. LiveInv' BY <1>1, <1>3 DEF LiveInv, Standing, Told, LivesOn
<1> QED BY <1>11, <1>12

(* A trace without its last line *)

\* What a sequence without its last element is.
LEMMA FrontIs ==
  ASSUME NEW f, NEW X, f \in Seq(X), Len(f) > 0
  PROVE  /\ SubSeq(f, 1, Len(f) - 1) \in Seq(X) /\ Len(SubSeq(f, 1, Len(f) - 1)) = Len(f) - 1
         /\ Len(f) \in Nat /\ \A i \in 1..(Len(f) - 1) : SubSeq(f, 1, Len(f) - 1)[i] = f[i]
<1>1. PICK k \in Int, one \in Int : k = Len(f) - 1 /\ one = 1 /\ k >= 0 OBVIOUS
<1>2. \A i \in one..k : f[i] \in X BY <1>1
<1>3. /\ SubSeq(f, one, k) \in Seq(X)
      /\ Len(SubSeq(f, one, k)) = IF one <= k THEN k - one + 1 ELSE 0
      /\ \A i \in 1..(k - one + 1) : SubSeq(f, one, k)[i] = f[one + i - 1]
  BY <1>2, SubSeqProperties
<1>4. \A i \in 1..k : SubSeq(f, one, k)[i] = f[i] BY <1>1, <1>3
<1> QED BY <1>1, <1>3, <1>4

\* The lengths a trace without its last line has.
LEMMA FramedFront ==
  ASSUME NEW f, NEW n, NEW p, NEW e, Framed(f, n, p, e), e \in {0, 1}, NEW R,
         R = SubSeq(f, 1, Len(f) - 1)
  PROVE  /\ e = 1 => Framed(R, n, p, 0)
         /\ e = 0 /\ p = 1 => Framed(R, n, 0, 0)
         /\ e = 0 /\ p = 0 /\ n > 0 => Framed(R, n - 1, 0, 0)
         /\ e = 0 /\ p = 0 /\ n = 0 => R = <<>>
         /\ \A i \in 1..(Len(f) - 1) : R[i] = f[i]
<1>1. PICK X : f \in Seq(X) BY DEF Framed
<1>2. /\ n \in Nat /\ p \in {0, 1} /\ Len(f) = 1 + n + p + e
      /\ f[1].type = "run_start"
      /\ \A i \in 2..(1 + n) : f[i].type = "step"
      /\ \A i \in (2 + n)..(1 + n + p) : f[i].type = "checkpoint"
      /\ \A i \in (2 + n + p)..(1 + n + p + e) : f[i].type = "run_end"
  BY DEF Framed
<1>3. /\ R \in Seq(X) /\ Len(R) = n + p + e /\ \A i \in 1..(n + p + e) : R[i] = f[i]
  <2>1. PICK l \in Nat : l = Len(f) /\ l > 0 /\ l - 1 = n + p + e BY <1>2
  <2>2. R \in Seq(X) /\ Len(R) = l - 1 /\ \A i \in 1..(l - 1) : R[i] = f[i]
    BY <1>1, <2>1, FrontIs
  <2> QED BY <2>1, <2>2
<1>4. e = 1 => Framed(R, n, p, 0)
  <2> SUFFICES ASSUME e = 1 PROVE Framed(R, n, p, 0) OBVIOUS
  <2>1. Len(R) = 1 + n + p + 0 /\ \A i \in 1..(1 + n + p) : R[i] = f[i] BY <1>2, <1>3
  <2>2. R[1].type = "run_start" BY <1>2, <2>1
  <2>3. \A i \in 2..(1 + n) : R[i].type = "step" BY <1>2, <2>1
  <2>4. \A i \in (2 + n)..(1 + n + p) : R[i].type = "checkpoint" BY <1>2, <2>1
  <2> QED BY <1>2, <1>3, <2>1, <2>2, <2>3, <2>4 DEF Framed
<1>5. e = 0 /\ p = 1 => Framed(R, n, 0, 0)
  <2> SUFFICES ASSUME e = 0, p = 1 PROVE Framed(R, n, 0, 0) OBVIOUS
  <2>1. Len(R) = 1 + n + 0 + 0 /\ \A i \in 1..(1 + n) : R[i] = f[i] BY <1>2, <1>3
  <2>2. R[1].type = "run_start" BY <1>2, <2>1
  <2>3. \A i \in 2..(1 + n) : R[i].type = "step" BY <1>2, <2>1
  <2> QED BY <1>2, <1>3, <2>1, <2>2, <2>3 DEF Framed
<1>6. e = 0 /\ p = 0 /\ n > 0 => Framed(R, n - 1, 0, 0)
  <2> SUFFICES ASSUME e = 0, p = 0, n > 0 PROVE Framed(R, n - 1, 0, 0) OBVIOUS
  <2>1. PICK m \in Nat : m = n - 1 BY <1>2
  <2>2. Len(R) = 1 + m + 0 + 0 /\ \A i \in 1..(1 + m) : R[i] = f[i] /\ n = m + 1 BY <1>2, <1>3, <2>1
  <2>3. R[1].type = "run_start" BY <1>2, <2>2
  <2>4. \A i \in 2..(1 + m) : R[i].type = "step" BY <1>2, <2>2
  <2>5. Framed(R, m, 0, 0) BY <1>3, <2>1, <2>2, <2>3, <2>4 DEF Framed
  <2> QED BY <2>1, <2>5
<1>7. e = 0 /\ p = 0 /\ n = 0 => R = <<>>
  <2>1. R # <<>> => Len(R) \in Nat \ {0} BY <1>3, EmptySeq
  <2> QED BY <1>2, <1>3, <2>1
<1>8. \A i \in 1..(Len(f) - 1) : R[i] = f[i] BY <1>2, <1>3
<1> QED BY <1>4, <1>5, <1>6, <1>7, <1>8

\* The steps but the last.
LEMMA StepsShrink ==
  ASSUME NEW S, NEW T, NEW k, NEW line, Grown(T, S, k, line), NEW c,
         StepsOK(S, k + 1, c.brain), Finite(S), Within(S, c), c.tools \in Nat, c.submits \in Nat
  PROVE  StepsOK(T, k, c.brain) /\ Finite(T) /\ Within(T, c)
<1>1. k \in Nat /\ DOMAIN T = 1..k /\ DOMAIN S = 1..(k + 1) /\ \A i \in 1..k : S[i] = T[i]
  BY DEF Grown
<1>2. \A i \in 0..k : CumOf(S, i) = CumOf(T, i) BY CumGrows
<1>3. /\ Calls(T) \subseteq Calls(S) /\ Submits(T) \subseteq Submits(S)
      /\ Rejections(T) \subseteq Rejections(S) /\ Attempts(T) \subseteq Attempts(S)
  BY CountsGrow
<1>4. Finite(T) BY <1>3, FS_Subset DEF Finite
<1>5. Within(T, c)
  <2>1. IsFiniteSet(Calls(S)) /\ IsFiniteSet(Attempts(S)) BY DEF Finite
  <2>2. /\ Cardinality(Calls(T)) <= Cardinality(Calls(S))
        /\ Cardinality(Attempts(T)) <= Cardinality(Attempts(S))
    BY <1>3, <2>1, FS_Subset
  <2>3. /\ Cardinality(Calls(T)) \in Nat /\ Cardinality(Calls(S)) \in Nat
        /\ Cardinality(Attempts(T)) \in Nat /\ Cardinality(Attempts(S)) \in Nat
    BY <1>4, <2>1, FS_CardinalityType DEF Finite
  <2> QED BY <2>2, <2>3 DEF Within
<1>6. \A i \in 1..k : StepOK(T[i], i, CumOf(T, i - 1), c.brain)
  <2> TAKE i \in 1..k
  <2>1. i \in 1..(k + 1) /\ i - 1 \in 0..k BY <1>1
  <2>2. StepOK(S[i], i, CumOf(S, i - 1), c.brain) BY <2>1 DEF StepsOK
  <2>3. S[i] = T[i] /\ CumOf(S, i - 1) = CumOf(T, i - 1) BY <1>1, <1>2, <2>1
  <2> QED BY <2>2, <2>3
<1>7. \A i \in 1..(k - 1) : Full(T[i])
  <2> TAKE i \in 1..(k - 1)
  <2>1. i \in 1..((k + 1) - 1) /\ i \in 1..k BY <1>1
  <2>2. Full(S[i]) BY <2>1 DEF StepsOK
  <2> QED BY <1>1, <2>1, <2>2
<1>8. IdsApart(T)
  <2>1. IdsApart(S) BY DEF StepsOK
  <2>2. \A i \in DOMAIN T : i \in DOMAIN S /\ S[i] = T[i] BY <1>1
  <2> QED BY <2>1, <2>2 DEF IdsApart
<1> QED BY <1>1, <1>4, <1>5, <1>6, <1>7, <1>8 DEF StepsOK

\* Nothing, or a trace as far as it got.
Started(R, c, stored) ==
  R = <<>> \/ \E m, q : \E d \in {0, 1} : BodyOK(R, m, q, d, c, stored)

\* A trace without its last line is a trace, or nothing.
LEMMA BodyFront ==
  ASSUME NEW f, NEW n, NEW p, NEW e, NEW c \in Cells, NEW stored, BodyOK(f, n, p, e, c, stored),
         e \in {0, 1}, NEW R, R = SubSeq(f, 1, Len(f) - 1)
  PROVE  Started(R, c, stored)
<1>1. /\ Framed(f, n, p, e) /\ f[1] = RunStart(c) /\ StepsOK(StepsOf(f, n), n, c.brain)
      /\ Finite(StepsOf(f, n)) /\ Within(StepsOf(f, n), c)
      /\ p = 1 => PointOK(f[2 + n], stored)
      /\ c.arm = "baseline" => p = 0
  BY DEF BodyOK
<1>2. n \in Nat /\ p \in {0, 1} /\ Len(f) = 1 + n + p + e BY <1>1 DEF Framed
<1>3. \A i \in 1..(n + p + e) : R[i] = f[i]
  <2>1. Len(f) - 1 = n + p + e BY <1>2
  <2>2. \A i \in 1..(Len(f) - 1) : R[i] = f[i] BY <1>1, FramedFront
  <2> QED BY <2>1, <2>2
<1>4. CASE e = 1
  <2>1. Framed(R, n, p, 0) BY <1>1, <1>4, FramedFront
  <2>2. StepsOf(R, n) = StepsOf(f, n)
    <3>1. \A k \in 1..n : R[k + 1] = f[k + 1] BY <1>2, <1>3, <1>4
    <3> QED BY <3>1 DEF StepsOf
  <2>3. R[1] = f[1] /\ (p = 1 => R[2 + n] = f[2 + n]) BY <1>2, <1>3, <1>4
  <2>4. BodyOK(R, n, p, 0, c, stored) BY <1>1, <2>1, <2>2, <2>3 DEF BodyOK
  <2> QED BY <2>4 DEF Started
<1>5. CASE e = 0 /\ p = 1
  <2>1. Framed(R, n, 0, 0) BY <1>1, <1>5, FramedFront
  <2>2. StepsOf(R, n) = StepsOf(f, n)
    <3>1. \A k \in 1..n : R[k + 1] = f[k + 1] BY <1>2, <1>3, <1>5
    <3> QED BY <3>1 DEF StepsOf
  <2>3. R[1] = f[1] BY <1>2, <1>3, <1>5
  <2>4. PICK z \in Nat : z = 0 /\ ~(z = 1) OBVIOUS
  <2>5. Framed(R, n, z, z) BY <2>1, <2>4
  <2>6. BodyOK(R, n, z, z, c, stored) BY <1>1, <2>2, <2>3, <2>4, <2>5 DEF BodyOK
  <2>7. BodyOK(R, n, z, 0, c, stored) BY <2>4, <2>6
  <2> QED BY <2>7 DEF Started
<1>6. CASE e = 0 /\ p = 0 /\ n > 0
  <2>1. PICK k \in Nat : n = k + 1
    <3>1. n - 1 \in Nat /\ n = (n - 1) + 1 BY <1>2, <1>6
    <3> QED BY <3>1
  <2>2. n - 1 = k BY <2>1
  <2>3. Framed(R, k, 0, 0) BY <1>1, <1>6, <2>2, FramedFront
  <2>4. \A i \in 1..n : R[i] = f[i] BY <1>2, <1>3, <1>6
  <2>5. Grown(StepsOf(R, k), StepsOf(f, n), k, StepsOf(f, n)[n])
    <3>1. DOMAIN StepsOf(R, k) = 1..k /\ DOMAIN StepsOf(f, n) = 1..n BY <1>2, StepsLen
    <3>2. \A i \in 1..k : StepsOf(f, n)[i] = StepsOf(R, k)[i]
      <4>1. \A i \in 1..k : StepsOf(f, n)[i] = f[i + 1] /\ StepsOf(R, k)[i] = R[i + 1]
        <5>1. \A i \in 1..k : i \in 1..n BY <2>1
        <5> QED BY <5>1 DEF StepsOf
      <4>2. \A i \in 1..k : i + 1 \in 1..n BY <2>1
      <4>3. \A i \in 1..k : R[i + 1] = f[i + 1] BY <2>4, <4>2
      <4> QED BY <4>1, <4>3
    <3> QED BY <2>1, <3>1, <3>2 DEF Grown
  <2>6. c.tools \in Nat /\ c.submits \in Nat BY LifeAssumption
  <2>7. StepsOK(StepsOf(f, n), k + 1, c.brain) BY <1>1, <2>1
  <2>8. StepsOK(StepsOf(R, k), k, c.brain) /\ Finite(StepsOf(R, k)) /\ Within(StepsOf(R, k), c)
    BY <1>1, <2>5, <2>6, <2>7, StepsShrink
  <2>9. R[1] = f[1] BY <1>2, <1>6, <2>4
  <2>10. PICK z \in Nat : z = 0 /\ ~(z = 1) OBVIOUS
  <2>11. Framed(R, k, z, z) BY <2>3, <2>10
  <2>12. BodyOK(R, k, z, z, c, stored) BY <1>1, <2>8, <2>9, <2>10, <2>11 DEF BodyOK
  <2>13. BodyOK(R, k, z, 0, c, stored) BY <2>10, <2>12
  <2> QED BY <2>13 DEF Started
<1>7. CASE e = 0 /\ p = 0 /\ n = 0 BY <1>1, <1>7, FramedFront DEF Started
<1>8. e = 1 \/ (e = 0 /\ p = 1) \/ (e = 0 /\ p = 0 /\ n > 0) \/ (e = 0 /\ p = 0 /\ n = 0)
  BY <1>2
<1> QED BY <1>4, <1>5, <1>6, <1>7, <1>8

(* What the parent does to a file that was left *)

LEMMA GreatestIs ==
  ASSUME NEW k \in Nat
  PROVE  (CHOOSE i \in 0..k : \A m \in 0..k : m <= i) = k
<1>1. k \in 0..k /\ \A m \in 0..k : m <= k OBVIOUS
<1>2. \A i \in 0..k : (\A m \in 0..k : m <= i) => i = k BY <1>1
<1> QED BY <1>1, <1>2

\* The longest start of complete lines.
LEMMA RepairedKeeps ==
  ASSUME NEW left, NEW l \in Nat, Len(left) = l, NEW k \in Nat, k <= l,
         \A i \in 1..k : Complete(left[i]), k < l => ~Complete(left[k + 1])
  PROVE  Repaired(left) = SubSeq(left, 1, k)
<1> DEFINE kept == {m \in 0..Len(left) : \A i \in 1..m : Complete(left[i])}
<1>1. kept = 0..k
  <2>1. ASSUME NEW m \in kept PROVE m \in 0..k
    <3>1. m \in 0..l /\ \A i \in 1..m : Complete(left[i]) OBVIOUS
    <3>2. CASE k < l /\ k < m
      <4>1. k + 1 \in 1..m BY <3>1, <3>2
      <4> QED BY <3>1, <3>2, <4>1
    <3>3. CASE k = l BY <3>1, <3>3
    <3>4. CASE m <= k BY <3>1, <3>4
    <3> QED BY <3>1, <3>2, <3>3, <3>4
  <2>2. ASSUME NEW m \in 0..k PROVE m \in kept
    <3>1. m \in 0..l /\ \A i \in 1..m : i \in 1..k OBVIOUS
    <3> QED BY <3>1
  <2> QED BY <2>1, <2>2
<1>2. Repaired(left) = SubSeq(left, 1, CHOOSE i \in kept : \A m \in kept : m <= i) BY DEF Repaired
<1> HIDE DEF kept
<1> QED BY <1>1, <1>2, GreatestIs

LEMMA RepairedIs ==
  ASSUME NEW f, NEW n, NEW p, NEW e, Framed(f, n, p, e), e \in {0, 1}, NEW left \in Cuts(f)
  PROVE  /\ Repaired(left) = f \/ Repaired(left) = SubSeq(f, 1, Len(f) - 1)
         /\ left = f => Repaired(left) = f
<1>1. PICK l \in Nat \ {0} : l = Len(f) BY CutIs
<1>2. /\ DOMAIN f = 1..l /\ DOMAIN left = 1..l /\ Len(left) = l
      /\ left = f \/ left = TornCut(f) \/ left = UnendedCut(f)
      /\ \A i \in 1..(l - 1) : left[i] = f[i]
      /\ left = TornCut(f) => left[l] = Torn
      /\ left = UnendedCut(f) => left[l] = Unended(f[l])
  BY <1>1, CutIs
<1>3. \A i \in 1..l : Complete(f[i]) BY <1>2, CutParses DEF Whole, Complete
<1>4. PICK X : f \in Seq(X) BY DEF Framed
<1>5. CASE left = f
  <2>1. Repaired(left) = SubSeq(left, 1, l) BY <1>1, <1>2, <1>3, <1>5, RepairedKeeps
  <2>2. Repaired(left) = f BY <1>1, <1>4, <1>5, <2>1, SubSeqFull
  <2> QED BY <2>2
<1>6. CASE left # f
  <2>1. PICK k \in Nat : k = l - 1 BY <1>1
  <2>2. \A i \in 1..k : Complete(left[i])
    <3>1. \A i \in 1..k : i \in 1..l BY <2>1
    <3> QED BY <1>2, <1>3, <2>1, <3>1
  <2>3. ~Complete(left[k + 1])
    <3>1. ~Complete(Torn) /\ ~Complete(Unended(f[l])) BY DEF Complete, Torn, Unended
    <3>2. k + 1 = l BY <2>1
    <3> QED BY <1>2, <1>6, <3>1, <3>2
  <2>4. Repaired(left) = SubSeq(left, 1, k)
    <3>1. l \in Nat /\ k <= l /\ Len(left) = l BY <1>2, <2>1
    <3> QED BY <2>1, <2>2, <2>3, <3>1, RepairedKeeps
  <2>5. PICK Y : left \in Seq(Y) BY CutIs
  <2>6. SubSeq(left, 1, k) = SubSeq(f, 1, k)
    <3>1. /\ SubSeq(f, 1, k) \in Seq(X) /\ Len(SubSeq(f, 1, k)) = k
          /\ \A i \in 1..k : SubSeq(f, 1, k)[i] = f[i]
      BY <1>1, <1>4, <2>1, FrontIs
    <3>2. /\ SubSeq(left, 1, k) \in Seq(Y) /\ Len(SubSeq(left, 1, k)) = k
          /\ \A i \in 1..k : SubSeq(left, 1, k)[i] = left[i]
      BY <1>2, <2>1, <2>5, FrontIs
    <3>3. \A i \in 1..k : SubSeq(left, 1, k)[i] = SubSeq(f, 1, k)[i] BY <1>2, <2>1, <3>1, <3>2
    <3>4. SubSeq(f, 1, k) \in Seq(X \cup Y) /\ SubSeq(left, 1, k) \in Seq(X \cup Y) BY <3>1, <3>2
    <3> QED BY <3>1, <3>2, <3>3, <3>4
  <2> QED BY <1>1, <1>6, <2>1, <2>4, <2>6
<1> QED BY <1>5, <1>6

\* A line goes behind a file that is whole, and is swallowed by one that is cut.
LEMMA AppendedIs ==
  ASSUME NEW f, NEW n, NEW p, NEW e, Framed(f, n, p, e), e \in {0, 1}, NEW line
  PROVE  /\ Appended(f, line) = Append(f, line)
         /\ \A left \in {TornCut(f), UnendedCut(f)} :
              /\ Appended(left, line) # <<>>
              /\ Appended(left, line)[Len(Appended(left, line))].type = "torn"
<1>1. PICK l \in Nat \ {0} : l = Len(f) BY CutIs, f \in Cuts(f) DEF Cuts
<1>2. f \in Cuts(f) /\ TornCut(f) \in Cuts(f) /\ UnendedCut(f) \in Cuts(f)
  BY DEF Cuts, TornCut, UnendedCut
<1>3. DOMAIN f = 1..l BY <1>1, <1>2, CutIs
<1>4. Complete(f[l]) /\ f # <<>>
  <2>1. Whole(f) BY <1>2, CutParses
  <2> QED BY <1>3, <2>1 DEF Whole, Complete
<1>5. Appended(f, line) = Append(f, line) BY <1>1, <1>4 DEF Appended
<1>6. ASSUME NEW left \in {TornCut(f), UnendedCut(f)}
      PROVE  /\ Appended(left, line) # <<>>
             /\ Appended(left, line)[Len(Appended(left, line))].type = "torn"
  <2>1. /\ DOMAIN left = 1..l /\ Len(left) = l
        /\ left = TornCut(f) => left[l] = Torn
        /\ left = UnendedCut(f) => left[l] = Unended(f[l])
    BY <1>1, <1>2, CutIs
  <2>2. ~Complete(left[l])
    <3>1. ~Complete(Torn) /\ ~Complete(Unended(f[l])) BY DEF Complete, Torn, Unended
    <3> QED BY <2>1, <3>1
  <2>3. left # <<>> BY <2>1
  <2>4. PICK g : g = [left EXCEPT ![l] = Torn] OBVIOUS
  <2>5. Appended(left, line) = g BY <2>1, <2>2, <2>3, <2>4 DEF Appended
  <2>6. PICK Y : left \in Seq(Y) BY <1>2, CutIs
  <2>7. g \in Seq(Y \cup {Torn}) /\ Len(g) = l /\ g[l] = Torn BY <2>1, <2>4, <2>6
  <2>8. g[l].type = "torn" BY <2>7 DEF Torn
  <2>9. g # <<>> BY <2>7
  <2> QED BY <2>5, <2>7, <2>8, <2>9
<1> QED BY <1>5, <1>6

(* The file the parent leaves *)

Stamps == {CleanNote, [CleanNote EXCEPT !.counts = 1]}

\* A trace that ends with a true ending.
Sound(g, c, stored) ==
  \E n, p : /\ BodyOK(g, n, p, 1, c, stored)
            /\ StopOK(g[Len(g)], StepsOf(g, n), n, p, c)
            /\ TotalsOK(g[Len(g)], StepsOf(g, n), n)

ByChild(g, c, stored, r) ==
  \E f, n, p : /\ BodyOK(f, n, p, 1, c, stored) /\ EndingOK(f, n, p, c, r)
               /\ g = f \/ g = UnendedCut(f)
AfterKill(g, c, stored) ==
  \/ Sound(g, c, stored) /\ g[Len(g)].stop = "timeout"
  \/ 1 \in DOMAIN g /\ g[1].type = "run_end" /\ Whole(g)
  \/ \E n, p : BodyOK(g, n, p, 2, c, stored)
Swallowed(g) == g # <<>> /\ g[Len(g)].type = "torn"

Filed(g, c, stored, t, w, r) ==
  \/ w = "child" /\ ByChild(g, c, stored, r)
  \/ w = "parent" /\ t /\ AfterKill(g, c, stored)
  \/ w = "parent" /\ ~t /\ Sound(g, c, stored)
  \/ w # "child" /\ (w = "parent" => ~t) /\ Swallowed(g)

\* The ending of append_run_end is what the steps add up to.
LEMMA OwedIs ==
  ASSUME NEW R, NEW n, NEW p, NEW e, NEW c, NEW stored, BodyOK(R, n, p, e, c, stored), e \in {0, 1},
         NEW stop \in {"timeout", "api_error"}, NEW note \in Stamps,
         NEW end, end = Owed(R, stop, note)
  PROVE  /\ StopOK(end, StepsOf(R, n), n, p, c) /\ TotalsOK(end, StepsOf(R, n), n)
         /\ end.stop = stop /\ end.type = "run_end"
<1> DEFINE S == StepsOf(R, n)
<1>1. Framed(R, n, p, e) BY DEF BodyOK
<1>2. R \in Cuts(R) /\ n \in Nat BY <1>1, FramedDomain DEF Cuts
<1>3. Parsed(R) = R BY <1>1, <1>2, CutParses
<1>4. Only(Parsed(R), "step") = S BY <1>1, <1>3, FramedOnly
<1>5. Len(S) = n /\ DOMAIN S = 1..n BY <1>2, StepsLen
<1> HIDE DEF S
<1>6. end = RunEnd(stop, [steps |-> Len(S), calls |-> Cardinality(Calls(S)),
                          submits |-> Cardinality(Submits(S)), rounds |-> Cardinality(Rejections(S)),
                          cost |-> IF S = <<>> THEN 0 ELSE S[Len(S)].cum], FALSE, note)
  BY <1>4 DEF Owed
<1>7. /\ end.type = "run_end" /\ end.stop = stop /\ end.note = note
      /\ end.steps = Len(S) /\ end.calls = Cardinality(Calls(S))
      /\ end.submits = Cardinality(Submits(S)) /\ end.rounds = Cardinality(Rejections(S))
      /\ end.cost = IF S = <<>> THEN 0 ELSE S[Len(S)].cum
  BY <1>6 DEF RunEnd
<1>8. note.truncat = FALSE /\ note.counts \in {0, 1}
  BY DEF Stamps, CleanNote
<1>9. StopOK(end, S, n, p, c)
  <2>1. stop \in StopConditions /\ stop # "accepted" /\ stop # "gate_rejected" BY DEF StopConditions
  <2> QED BY <1>7, <1>8, <2>1 DEF StopOK
<1>10. end.cost = CumOf(S, n)
  <2>1. S = <<>> <=> n = 0
    <3>1. n = 0 => DOMAIN S = {} BY <1>2, <1>5
    <3>2. n # 0 => 1 \in DOMAIN S BY <1>2, <1>5
    <3>3. \E X : S \in Seq(X)
      <4>1. S = [k \in 1..n |-> S[k]] BY DEF S, StepsOf
      <4>2. PICK X : X = {S[k] : k \in 1..n} OBVIOUS
      <4>3. S \in [1..n -> X] BY <4>1, <4>2
      <4>4. S \in Seq(X) BY <1>2, <4>3
      <4> QED BY <4>4
    <3> QED BY <1>5, <3>1, <3>2, <3>3
  <2> QED BY <1>5, <1>7, <2>1 DEF CumOf
<1>11. TotalsOK(end, S, n) BY <1>5, <1>7, <1>10 DEF TotalsOK
<1> QED BY <1>7, <1>9, <1>11 DEF S

\* A file that is closed by its parent.
LEMMA OwedCloses ==
  ASSUME NEW R, NEW n, NEW p, NEW e, NEW c, NEW stored, BodyOK(R, n, p, e, c, stored), e \in {0, 1},
         NEW stop \in {"timeout", "api_error"}, NEW note \in Stamps,
         NEW g, g = Append(R, Owed(R, stop, note))
  PROVE  /\ e = 0 => Sound(g, c, stored) /\ g[Len(g)].stop = stop
         /\ e = 1 => BodyOK(g, n, p, 2, c, stored)
         /\ g # R
<1>1. PICK end : end = Owed(R, stop, note) OBVIOUS
<1>2. /\ StopOK(end, StepsOf(R, n), n, p, c) /\ TotalsOK(end, StepsOf(R, n), n)
      /\ end.stop = stop /\ end.type = "run_end"
  BY <1>1, OwedIs
<1>3. /\ BodyOK(g, n, p, e + 1, c, stored)
      /\ StepsOf(g, n) = StepsOf(R, n) /\ g[Len(g)] = end
  BY <1>1, <1>2, EndGrows
<1>4. e = 0 => Sound(g, c, stored) /\ g[Len(g)].stop = stop
  <2> SUFFICES ASSUME e = 0 PROVE Sound(g, c, stored) /\ g[Len(g)].stop = stop OBVIOUS
  <2>1. e + 1 = 1 OBVIOUS
  <2>2. BodyOK(g, n, p, 1, c, stored) BY <1>3, <2>1
  <2> QED BY <1>2, <1>3, <2>2 DEF Sound
<1>5. e = 1 => BodyOK(g, n, p, 2, c, stored)
  <2> SUFFICES ASSUME e = 1 PROVE BodyOK(g, n, p, 2, c, stored) OBVIOUS
  <2>1. e + 1 = 2 OBVIOUS
  <2> QED BY <1>3, <2>1
<1>6. g # R
  <2>1. Framed(R, n, p, e) BY DEF BodyOK
  <2>2. PICK X : R \in Seq(X) BY <2>1 DEF Framed
  <2>3. Len(g) = Len(R) + 1 /\ Len(R) \in Nat BY <1>1, <2>2, AppendIs
  <2> QED BY <2>3
<1> QED BY <1>4, <1>5, <1>6

LEMMA EndedIs ==
  ASSUME NEW f, NEW n, NEW p, NEW e, Framed(f, n, p, e)
  PROVE  /\ Ended(f) = [k \in 1..e |-> f[1 + n + p + k]] /\ Len(Ended(f)) = e
         /\ e = 0 <=> Ended(f) = <<>>
         /\ e = 1 => Ended(f)[Len(Ended(f))] = f[Len(f)]
<1>1. f \in Cuts(f) BY DEF Cuts
<1>2. Parsed(f) = f BY <1>1, CutParses
<1>3. Ended(f) = [k \in 1..e |-> f[1 + n + p + k]] BY <1>2, FramedOnly DEF Ended
<1>4. n \in Nat /\ p \in Nat /\ e \in Nat /\ Len(f) = 1 + n + p + e BY FramedDomain
<1>5. PICK g : g = Ended(f) OBVIOUS
<1>6. g = [k \in 1..e |-> g[k]] BY <1>3, <1>5
<1>7. Len(g) = e /\ DOMAIN g = 1..e BY <1>4, <1>6, StretchLen
<1>8. e = 0 => g = <<>>
  <2>1. e = 0 => Places(Parsed(f), "run_end") = {}
    <3>1. Places(f, "run_end") = (1 + n + p + 1)..(1 + n + p + e) BY FramedPlaces
    <3> QED BY <1>2, <1>4, <3>1
  <2> QED BY <1>5, <2>1, OnlyNone DEF Ended
<1>9. g = <<>> => e = 0
  <2>1. g = <<>> => DOMAIN g = {} OBVIOUS
  <2>2. e # 0 => 1 \in DOMAIN g BY <1>4, <1>7
  <2> QED BY <2>1, <2>2
<1>10. e = 1 => g[Len(g)] = f[Len(f)]
  <2> SUFFICES ASSUME e = 1 PROVE g[Len(g)] = f[Len(f)] OBVIOUS
  <2>1. Len(g) = 1 /\ 1 \in 1..e /\ Len(f) = 1 + n + p + 1 BY <1>4, <1>7
  <2>2. g[1] = f[1 + n + p + 1] BY <1>3, <1>5, <2>1
  <2> QED BY <2>1, <2>2
<1> QED BY <1>3, <1>5, <1>7, <1>8, <1>9, <1>10

\* A run_end and nothing else, in a file whose first line was cut.
LEMMA LoneEnding ==
  ASSUME NEW end, end.type = "run_end", NEW g, g = Append(<<>>, end)
  PROVE  1 \in DOMAIN g /\ g # <<>> /\ g[1].type = "run_end" /\ Whole(g)
<1>1. PICK Y : Y = {end} OBVIOUS
<1>2. <<>> \in Seq(Y) /\ Len(<<>>) = 0 BY EmptySeq
<1>3. PICK f : f = <<>> OBVIOUS
<1>4. Len(g) = Len(f) + 1 /\ g[Len(f) + 1] = end /\ \E Z : g \in Seq(Z) BY <1>2, <1>3, AppendIs
<1>5. Len(g) = 1 /\ g[1] = end BY <1>2, <1>3, <1>4
<1>6. DOMAIN g = 1..1 BY <1>4, <1>5
<1>7. \A i \in DOMAIN g : g[i].type = "run_end" BY <1>5, <1>6
<1> QED BY <1>2, <1>5, <1>6, <1>7 DEF Whole

LEMMA SoundIsWhole ==
  ASSUME NEW g, NEW c, NEW stored
  PROVE  /\ \A n, p, e : BodyOK(g, n, p, e, c, stored) => Whole(g) /\ Framed(g, n, p, e)
         /\ Sound(g, c, stored) => Whole(g)
         /\ AfterKill(g, c, stored) => Whole(g)
<1>1. ASSUME NEW n, NEW p, NEW e, BodyOK(g, n, p, e, c, stored)
      PROVE  Whole(g) /\ Framed(g, n, p, e)
  <2>1. Framed(g, n, p, e) /\ g \in Cuts(g) BY <1>1 DEF BodyOK, Cuts
  <2> QED BY <2>1, CutParses
<1>2. Sound(g, c, stored) => Whole(g) BY <1>1 DEF Sound
<1>3. AfterKill(g, c, stored) => Whole(g) BY <1>1, <1>2 DEF AfterKill
<1> QED BY <1>1, <1>2, <1>3

\* A file that is cut is not a whole one.
LEMMA CutIsNotWhole ==
  ASSUME NEW f, NEW n, NEW p, NEW e, Framed(f, n, p, e), NEW left \in Cuts(f), left # f,
         NEW g, Whole(g)
  PROVE  g # left
<1>1. PICK l \in Nat \ {0} : l = Len(f) BY CutIs
<1>2. /\ DOMAIN left = 1..l
      /\ left = TornCut(f) \/ left = UnendedCut(f)
      /\ left = TornCut(f) => left[l] = Torn
      /\ left = UnendedCut(f) => left[l] = Unended(f[l])
  BY <1>1, CutIs
<1>3. left[l].type \in {"torn", "unended"} /\ l \in DOMAIN left
  <2>1. Torn.type = "torn" /\ Unended(f[l]).type = "unended" BY DEF Torn, Unended
  <2> QED BY <1>2, <2>1
<1> QED BY <1>3 DEF Whole

\* After a kill.
LEMMA KillCloses ==
  ASSUME NEW c \in Cells, NEW f, NEW n, NEW p, NEW e, NEW stored, BodyOK(f, n, p, e, c, stored),
         e \in {0, 1}, NEW left \in Cuts(f), NEW note \in Stamps, NEW R, R = Repaired(left),
         NEW g, g = Appended(R, Owed(R, "timeout", note))
  PROVE  AfterKill(g, c, stored) /\ g # left
<1>1. Framed(f, n, p, e) BY DEF BodyOK
<1>2. (R = f \/ R = SubSeq(f, 1, Len(f) - 1)) /\ (left = f => R = f) BY <1>1, RepairedIs
<1>3. R = <<>> \/ \E m, q : \E d \in {0, 1} : BodyOK(R, m, q, d, c, stored)
  <2>1. CASE R = f BY <2>1
  <2>2. CASE R = SubSeq(f, 1, Len(f) - 1)
    <3>1. Started(R, c, stored) BY <2>2, BodyFront
    <3> QED BY <3>1 DEF Started
  <2> QED BY <1>2, <2>1, <2>2
<1>4. AfterKill(g, c, stored) /\ g # R
  <2>1. CASE R = <<>>
    <3>1. PICK end : end = Owed(R, "timeout", note) OBVIOUS
    <3>2. end.type = "run_end" BY <3>1 DEF Owed, RunEnd
    <3>3. g = Append(<<>>, end) BY <2>1, <3>1 DEF Appended
    <3>4. 1 \in DOMAIN g /\ g # <<>> /\ g[1].type = "run_end" /\ Whole(g) BY <3>2, <3>3, LoneEnding
    <3> QED BY <2>1, <3>4 DEF AfterKill
  <2>2. CASE \E m, q : \E d \in {0, 1} : BodyOK(R, m, q, d, c, stored)
    <3>1. PICK m, q : \E d \in {0, 1} : BodyOK(R, m, q, d, c, stored) BY <2>2
    <3>2. PICK d \in {0, 1} : BodyOK(R, m, q, d, c, stored) BY <3>1
    <3>3. Framed(R, m, q, d) BY <3>2 DEF BodyOK
    <3>4. g = Append(R, Owed(R, "timeout", note)) BY <3>2, <3>3, AppendedIs
    <3>5. /\ d = 0 => Sound(g, c, stored) /\ g[Len(g)].stop = "timeout"
          /\ d = 1 => BodyOK(g, m, q, 2, c, stored)
          /\ g # R
      BY <3>2, <3>4, OwedCloses
    <3> QED BY <3>2, <3>5 DEF AfterKill
  <2> QED BY <1>3, <2>1, <2>2
<1>5. g # left
  <2>1. CASE left = f BY <1>2, <1>4, <2>1
  <2>2. CASE left # f BY <1>1, <1>4, <2>2, CutIsNotWhole, SoundIsWhole
  <2> QED BY <2>1, <2>2
<1> QED BY <1>4, <1>5

\* After a death that left no ending.
LEMMA DeathCloses ==
  ASSUME NEW c \in Cells, NEW f, NEW n, NEW p, NEW e, NEW stored, BodyOK(f, n, p, e, c, stored),
         e \in {0, 1}, NEW left \in Cuts(f), Ended(left) = <<>>, NEW note \in Stamps,
         NEW g, g = Appended(left, Owed(left, "api_error", note))
  PROVE  (Sound(g, c, stored) /\ g # left) \/ Swallowed(g)
<1>1. Framed(f, n, p, e) BY DEF BodyOK
<1>2. left = f \/ left \in {TornCut(f), UnendedCut(f)} BY DEF Cuts, TornCut, UnendedCut
<1>3. CASE left = f
  <2>1. e = 0 BY <1>1, <1>3, EndedIs
  <2>2. g = Append(f, Owed(f, "api_error", note)) BY <1>1, <1>3, AppendedIs
  <2>3. /\ e = 0 => Sound(g, c, stored) /\ g[Len(g)].stop = "api_error"
        /\ g # f
    BY <2>2, OwedCloses
  <2> QED BY <1>3, <2>1, <2>3
<1>4. CASE left \in {TornCut(f), UnendedCut(f)}
  <2>1. g # <<>> /\ g[Len(g)].type = "torn" BY <1>1, <1>4, AppendedIs
  <2> QED BY <2>1 DEF Swallowed
<1> QED BY <1>2, <1>3, <1>4

Copied ==
  diagnosis = IF StopOf(file) = "accepted" THEN {}
              ELSE {[arm |-> cell.arm, case |-> cell.case, stop |-> StopOf(file)]}
Filing == pc = "filed" => Filed(file, cell, disk, timed, closer, raised) /\ Copied

\* What the parent finds: a run that ended by itself is left whole.
LEMMA FoundIs ==
  ASSUME LiveInv, Left, FinishCell
  PROVE  /\ cell \in Cells /\ LeftOver(file, cell, disk, raised)
         /\ closer = IF Ended(file) = <<>> THEN "none" ELSE "child"
<1>1. pc \in {"gone", "ended"} BY DEF FinishCell
<1>2. cell \in Cells BY DEF LiveInv, Standing
<1>3. CASE pc = "gone" BY <1>2, <1>3 DEF Left
<1>4. CASE pc = "ended"
  <2>1. disk \subseteq record /\ closer = "child" BY <1>4 DEF LiveInv, Standing, LivesOn
  <2>2. PICK n, p : Living(n, p) BY <1>4 DEF LiveInv, Told, LivesOn
  <2>3. BodyOK(file, n, p, 1, cell, record) /\ EndingOK(file, n, p, cell, raised)
    BY <1>4, <2>2 DEF Living
  <2>4. PICK e \in {0, 1} : e = 1 OBVIOUS
  <2>5. BodyOK(file, n, p, e, cell, record) BY <2>3, <2>4
  <2>6. BodyOK(file, n, p, e, cell, disk) BY <2>1, <2>5 DEF BodyOK, PointOK
  <2>7. LeftOver(file, cell, disk, raised)
    <3>1. file \in Cuts(file) BY DEF Cuts
    <3> QED BY <2>3, <2>6, <3>1 DEF LeftOver
  <2>8. Ended(file) # <<>>
    <3>1. Framed(file, n, p, e) BY <2>5 DEF BodyOK
    <3>2. e = 0 <=> Ended(file) = <<>> BY <3>1, EndedIs
    <3> QED BY <2>4, <3>2
  <2> QED BY <1>2, <2>1, <2>7, <2>8
<1> QED BY <1>1, <1>3, <1>4

\* A file that was left as the child ended it.
LEMMA LeftWithEnding ==
  ASSUME NEW f, NEW n, NEW p, NEW e, NEW c, NEW stored, BodyOK(f, n, p, e, c, stored),
         e \in {0, 1}, NEW left \in Cuts(f), Ended(left) # <<>>, NEW r,
         e = 1 => EndingOK(f, n, p, c, r)
  PROVE  ByChild(left, c, stored, r)
<1>1. Framed(f, n, p, e) BY DEF BodyOK
<1>2. left # TornCut(f) /\ e # 0 BY <1>1, CutParses
<1>3. left = f \/ left = UnendedCut(f) BY <1>2 DEF Cuts, TornCut, UnendedCut
<1>4. e = 1 BY <1>2
<1>5. BodyOK(f, n, p, 1, c, stored) BY <1>4
<1> QED BY <1>3, <1>4, <1>5 DEF ByChild

LEMMA SomethingReads ==
  ASSUME NEW f, NEW n, NEW p, NEW e, Framed(f, n, p, e), NEW left \in Cuts(f),
         Readable(left) = {}
  PROVE  Swallowed(left)
<1>1. PICK l \in Nat \ {0} : l = Len(f) BY CutIs
<1>2. DOMAIN left = 1..l /\ Len(left) = l BY <1>1, CutIs
<1>3. l \in DOMAIN left /\ left # <<>> BY <1>2
<1>4. left[l].type = "torn" BY <1>3 DEF Readable
<1> QED BY <1>2, <1>3, <1>4 DEF Swallowed

LEMMA ParentKeeps ==
  ASSUME LiveInv, Left, FinishCell
  PROVE  LiveInv' /\ Filing'
<1>1. /\ pc' = "filed" /\ file' \in Closing(file) /\ record' = {}
      /\ closer' = IF file' = file THEN closer ELSE "parent"
      /\ UNCHANGED <<cell, raised, disk, timed>>
      /\ diagnosis' = IF StopOf(file') = "accepted" THEN {}
                      ELSE {[arm |-> cell.arm, case |-> cell.case, stop |-> StopOf(file')]}
  BY DEF FinishCell, Exits
<1>2. cell \in Cells BY FoundIs
<1>3. LiveInv' BY <1>1, <1>2 DEF LiveInv, Standing, Told, LivesOn
<1>4. Copied' BY <1>1 DEF Copied
<1>5. Filed(file', cell, disk, timed, closer', raised)
  <2>1. /\ LeftOver(file, cell, disk, raised)
        /\ closer = IF Ended(file) = <<>> THEN "none" ELSE "child"
    BY FoundIs
  <2>2. PICK f, n, p : \E e \in {0, 1} :
          /\ BodyOK(f, n, p, e, cell, disk) /\ file \in Cuts(f)
          /\ e = 1 => EndingOK(f, n, p, cell, raised)
    BY <2>1 DEF LeftOver
  <2>3. PICK e \in {0, 1} :
          /\ BodyOK(f, n, p, e, cell, disk) /\ file \in Cuts(f)
          /\ e = 1 => EndingOK(f, n, p, cell, raised)
    BY <2>2
  <2>4. Framed(f, n, p, e) BY <2>3 DEF BodyOK
  <2>5. CASE timed
    <3>1. PICK note \in Stamps : note = [CleanNote EXCEPT !.counts = 1] BY DEF Stamps
    <3>2. PICK R : R = Repaired(file) OBVIOUS
    <3>3. file' = Appended(R, Owed(R, "timeout", note)) BY <1>1, <2>5, <3>1, <3>2 DEF Closing
    <3>4. AfterKill(file', cell, disk) /\ file' # file
      BY <1>2, <2>3, <3>1, <3>2, <3>3, KillCloses
    <3> QED BY <1>1, <2>5, <3>4 DEF Filed
  <2>6. CASE ~timed /\ Ended(file) = <<>> /\ Readable(file) # {}
    <3>1. PICK note \in Notes("api_error") : file' = Appended(file, Owed(file, "api_error", note))
      BY <1>1, <2>6 DEF Closing
    <3>2. note \in Stamps BY <3>1 DEF Notes, Stamps
    <3>3. (Sound(file', cell, disk) /\ file' # file) \/ Swallowed(file')
      BY <1>2, <2>3, <2>6, <3>1, <3>2, DeathCloses
    <3>4. closer' # "child" BY <1>1, <2>1, <2>6
    <3> QED BY <1>1, <2>6, <3>3, <3>4 DEF Filed
  <2>7. CASE ~timed /\ ~(Ended(file) = <<>> /\ Readable(file) # {})
    <3>1. file' = file /\ closer' = closer BY <1>1, <2>7 DEF Closing
    <3>2. CASE Ended(file) = <<>>
      <4>1. Swallowed(file) BY <2>3, <2>4, <2>7, <3>2, SomethingReads
      <4> QED BY <2>1, <3>1, <3>2, <4>1 DEF Filed
    <3>3. CASE Ended(file) # <<>>
      <4>1. ByChild(file, cell, disk, raised) BY <2>3, <3>3, LeftWithEnding
      <4> QED BY <2>1, <3>1, <3>3, <4>1 DEF Filed
    <3> QED BY <3>2, <3>3
  <2> QED BY <2>5, <2>6, <2>7
<1>6. Filed(file', cell', disk', timed', closer', raised') BY <1>1, <1>5
<1> QED BY <1>3, <1>4, <1>6 DEF Filing

TraceInv == TInv /\ LiveInv /\ Left /\ Filing

\* While the child lives nothing is said of what it leaves.
LEMMA OnlyLiving == ASSUME pc' \in LivesOn PROVE Left' /\ Filing'
  BY DEF Left, Filing, LivesOn

\* What the steps of a live child do to its place.
LEMMA StaysAlive ==
  ASSUME LiveInv, Next, ~(Killed \/ Dies \/ FinishCell)
  PROVE  pc' \in LivesOn
<1>0. pc \in LivesOn \cup {"born", "gone", "filed"} BY DEF LiveInv, Standing
<1>1. CASE Open BY <1>1 DEF Open, LivesOn
<1>2. CASE CallFails BY <1>2 DEF CallFails, Stops, LivesOn
<1>3. ASSUME NEW cost \in Costs, QuietTurn(cost) PROVE pc' \in LivesOn
  BY <1>3 DEF QuietTurn, Stops, LivesOn
<1>4. ASSUME NEW cost \in Costs, NEW names \in Batches, NEW verdict \in {"yes", "no"},
             ToolTurn(names, verdict, cost) \/ BatchRaises(names, verdict, cost)
      PROVE  pc' \in LivesOn
  BY <1>4 DEF ToolTurn, BatchRaises, Stops, LivesOn
<1>5. ASSUME NEW event \in Happenings, CodexEvent(event) PROVE pc' \in LivesOn
  BY <1>5 DEF CodexEvent, LivesOn
<1>6. CASE StreamEnds BY <1>6 DEF StreamEnds, LivesOn
<1>7. CASE StreamRaises BY <1>7 DEF StreamRaises, Stops, LivesOn
<1>8. CASE PricesChange BY <1>8 DEF PricesChange, LivesOn
<1>9. CASE StreamCloses BY <1>9 DEF StreamCloses, Stops, LivesOn
<1>10. CASE NoGate BY <1>10 DEF NoGate, LivesOn
<1>11. CASE GateAnswers BY <1>11 DEF GateAnswers, LivesOn
<1>12. CASE GateRaises BY <1>12 DEF GateRaises, Stops, LivesOn
<1>13. CASE Draft BY <1>13 DEF Draft, Stops, LivesOn
<1>14. CASE Render BY <1>14 DEF Render, Stops, LivesOn
<1>15. CASE EndRun BY <1>15 DEF EndRun, LivesOn
<1> QED BY <1>1, <1>2, <1>3, <1>4, <1>5, <1>6, <1>7, <1>8, <1>9, <1>10, <1>11, <1>12, <1>13, <1>14, <1>15
        DEF Next

LEMMA LiveKeeps ==
  ASSUME TInv, LiveInv, Next, ~(Killed \/ Dies \/ FinishCell)
  PROVE  LiveInv'
<1>1. CASE Open BY <1>1, OpenKeeps DEF LiveInv
<1>2. CASE CallFails \/ StreamEnds \/ StreamRaises \/ PricesChange \/ NoGate \/ GateRaises \/ Draft \/ Render
  BY <1>2, MovesKeep
<1>3. ASSUME NEW cost \in Costs, QuietTurn(cost) PROVE LiveInv' BY <1>3, QuietKeeps
<1>4. ASSUME NEW cost \in Costs, NEW names \in Batches, NEW verdict \in {"yes", "no"},
             ToolTurn(names, verdict, cost) \/ BatchRaises(names, verdict, cost)
      PROVE  LiveInv'
  BY <1>4, ToolKeeps, RaisesKeep
<1>5. ASSUME NEW event \in Happenings, CodexEvent(event) PROVE LiveInv' BY <1>5, EventLives
<1>6. CASE StreamCloses BY <1>6, CloseLives
<1>7. CASE GateAnswers BY <1>7, GateKeeps
<1>8. CASE EndRun BY <1>8, EndKeeps
<1> QED BY <1>1, <1>2, <1>3, <1>4, <1>5, <1>6, <1>7, <1>8 DEF Next

LEMMA InitTrace == Init => TraceInv
<1> SUFFICES ASSUME Init PROVE TraceInv OBVIOUS
<1>1. pc = "born" BY DEF Init
<1>2. Left /\ Filing BY <1>1 DEF Left, Filing
<1> QED BY <1>2, InitTokens, InitStands DEF TraceInv, LiveInv

LEMMA StepTrace == TraceInv /\ [Next]_vars => TraceInv'
<1> SUFFICES ASSUME TraceInv, [Next]_vars PROVE TraceInv' OBVIOUS
<1>0. TInv' BY StepTokens DEF TraceInv
<1>1. CASE UNCHANGED vars
  <2>1. UNCHANGED <<cell, pc, why, file, ctx, stepper, sums, prices, raised, events, record, disk,
                    timed, closer, diagnosis>>
    BY <1>1 DEF vars, api, codex, parent
  <2>2. LiveInv'
    <3>1. Standing' BY <2>1 DEF TraceInv, LiveInv, Standing, Fresh
    <3>2. Told'
      <4> SUFFICES ASSUME pc' \in LivesOn PROVE \E n, p : Living(n, p)' BY DEF Told
      <4>1. PICK n, p : Living(n, p) BY <2>1 DEF TraceInv, LiveInv, Told
      <4>2. Living(n, p)' BY <2>1, <4>1 DEF Living
      <4> QED BY <4>2
    <3> QED BY <3>1, <3>2 DEF LiveInv
  <2>3. Left' BY <2>1 DEF TraceInv, Left
  <2>4. Filing' BY <2>1 DEF TraceInv, Filing, Copied
  <2> QED BY <1>0, <2>2, <2>3, <2>4 DEF TraceInv
<1>2. CASE Killed \/ Dies
  <2>1. pc' = "gone" BY <1>2 DEF Killed, Dies
  <2>2. LiveInv' /\ Left' BY <1>2, ExitLeaves DEF TraceInv
  <2>3. Filing' BY <2>1 DEF Filing
  <2> QED BY <1>0, <2>2, <2>3 DEF TraceInv
<1>3. CASE FinishCell
  <2>1. pc' = "filed" BY <1>3 DEF FinishCell
  <2>2. LiveInv' /\ Filing' BY <1>3, ParentKeeps DEF TraceInv
  <2>3. Left' BY <2>1 DEF Left
  <2> QED BY <1>0, <2>2, <2>3 DEF TraceInv
<1>4. CASE Next /\ ~(Killed \/ Dies \/ FinishCell)
  <2>1. LiveInv' /\ pc' \in LivesOn BY <1>4, LiveKeeps, StaysAlive DEF TraceInv
  <2> QED BY <1>0, <2>1, OnlyLiving DEF TraceInv
<1> QED BY <1>1, <1>2, <1>3, <1>4

LEMMA TraceInvariant == Spec => []TraceInv
  BY InitTrace, StepTrace, PTL DEF Spec

\* What the parent, the failure copy and the validator read of a run that has one ending.
LEMMA EndingReads ==
  ASSUME NEW f, NEW n, NEW p, Framed(f, n, p, 1), file = f \/ file = UnendedCut(f)
  PROVE  /\ Parsed(file) = f /\ EndOf = f[Len(f)] /\ StopOf(file) = f[Len(f)].stop
         /\ Only(Parsed(file), "step") = StepsOf(f, n)
         /\ \A i \in DOMAIN file : file[i].type # "torn"
<1>1. f \in Cuts(f) /\ UnendedCut(f) \in Cuts(f) BY DEF Cuts, UnendedCut
<1>2. PICK l \in Nat \ {0} : l = Len(f) BY <1>1, CutIs
<1>3. Parsed(file) = f /\ Whole(f) BY <1>1, CutParses
<1>4. /\ DOMAIN f = 1..l /\ DOMAIN file = 1..l /\ Len(file) = l
      /\ \A i \in 1..(l - 1) : file[i] = f[i]
      /\ file = f => file[l] = f[l]
      /\ file = UnendedCut(f) => file[l] = Unended(f[l])
  BY <1>1, <1>2, CutIs
<1>5. EndOf = f[Len(f)]
  <2>1. Parsed(file)[l] = Line(file[l]) BY <1>4 DEF Parsed
  <2> QED BY <1>2, <1>3, <1>4, <2>1 DEF EndOf
<1>6. PICK e \in Nat : e = 1 /\ e # 0 OBVIOUS
<1>7. Framed(f, n, p, e) BY <1>6
<1>8. Parsed(f) = f BY <1>1, <1>7, CutParses
<1>9. Ended(file) = Ended(f) BY <1>3, <1>8 DEF Ended
<1>10. /\ e = 0 <=> Ended(f) = <<>>
       /\ e = 1 => Ended(f)[Len(Ended(f))] = f[Len(f)]
  BY <1>7, EndedIs
<1>11. StopOf(file) = f[Len(f)].stop BY <1>6, <1>9, <1>10 DEF StopOf
<1>12. Only(Parsed(file), "step") = StepsOf(f, n) BY <1>3, <1>7, FramedOnly
<1>13. \A i \in DOMAIN file : file[i].type # "torn"
  <2>1. \A i \in 1..l : i \in 1..(l - 1) \/ i = l OBVIOUS
  <2>2. Unended(f[l]).type # "torn" BY DEF Unended
  <2>3. \A i \in 1..l : f[i].type # "torn" BY <1>3, <1>4 DEF Whole
  <2>4. \A i \in 1..l : file[i] = f[i] \/ file[i] = Unended(f[l]) BY <1>4, <2>1
  <2> QED BY <1>4, <2>2, <2>3, <2>4
<1> QED BY <1>3, <1>5, <1>11, <1>12, <1>13

\* A true ending is found at fault only in what is pardoned.
LEMMA SoundPasses ==
  ASSUME cell \in Cells, Copied, NEW f, NEW n, NEW p, BodyOK(f, n, p, 1, cell, disk),
         file = f \/ file = UnendedCut(f),
         StopOK(f[Len(f)], StepsOf(f, n), n, p, cell), TotalsOK(f[Len(f)], StepsOf(f, n), n)
  PROVE  Faults \subseteq Disagreements
<1>1. Framed(f, n, p, 1) BY DEF BodyOK
<1>2. PICK S, end : S = StepsOf(f, n) /\ end = f[Len(f)] OBVIOUS
<1>3. /\ Parsed(file) = f /\ EndOf = end /\ StopOf(file) = end.stop
      /\ Only(Parsed(file), "step") = S
      /\ \A i \in DOMAIN file : file[i].type # "torn"
  BY <1>1, <1>2, EndingReads
<1>4. /\ BodyOK(Parsed(file), n, p, 1, cell, disk) /\ S = StepsOf(Parsed(file), n)
      /\ end = Parsed(file)[Len(Parsed(file))]
      /\ StopOK(end, S, n, p, cell) /\ TotalsOK(end, S, n)
  BY <1>2, <1>3
<1>5. ASSUME NEW place, place.case = cell.case, place.arm = cell.arm,
             CheckDiagnosis(place, end) = {} \/ end.stop = "accepted"
      PROVE  CheckTrace(place, file, disk) \subseteq Pardoned(S, end, cell)
  BY <1>3, <1>4, <1>5, Passes
<1>6. CheckTrace(Slot(FALSE, {}), file, disk) \subseteq Pardoned(S, end, cell)
  <2>1. PICK place : place = Slot(FALSE, {}) OBVIOUS
  <2>2. place.case = cell.case /\ place.arm = cell.arm /\ ~place.failures BY <2>1 DEF Slot
  <2>3. CheckDiagnosis(place, end) = {} BY <2>2 DEF CheckDiagnosis, When
  <2> QED BY <1>5, <2>1, <2>2, <2>3
<1>7. ASSUME diagnosis # {}
      PROVE  CheckTrace(Slot(TRUE, diagnosis), file, disk) \subseteq Pardoned(S, end, cell)
  <2>1. PICK place : place = Slot(TRUE, diagnosis) OBVIOUS
  <2>2. place.case = cell.case /\ place.arm = cell.arm /\ place.diagnosis = diagnosis BY <2>1 DEF Slot
  <2>3. PICK said : said = [arm |-> cell.arm, case |-> cell.case, stop |-> StopOf(file)] OBVIOUS
  <2>4. diagnosis = {said} BY <1>7, <2>3 DEF Copied
  <2>5. said.arm = cell.arm /\ said.case = cell.case /\ said.stop = end.stop BY <1>3, <2>3
  <2>6. ~(\E x \in place.diagnosis : x.arm # place.arm \/ x.case # place.case \/ x.stop # end.stop)
    BY <2>2, <2>4, <2>5
  <2>7. place.diagnosis # {} BY <2>2, <2>4
  <2>8. CheckDiagnosis(place, end) = {} BY <2>6, <2>7 DEF CheckDiagnosis, When
  <2> QED BY <1>5, <2>1, <2>2, <2>8
<1>8. Faults \subseteq Pardoned(S, end, cell) BY <1>6, <1>7 DEF Faults
<1>9. TwoSubmits <=> TwoIn(S) BY <1>3 DEF TwoSubmits, TwoIn
<1>10. end.type = "run_end" BY <1>4 DEF StopOK
<1>11. Pardoned(S, end, cell) \subseteq Disagreements
  BY <1>3, <1>9, <1>10 DEF Pardoned, Disagreements, When
<1> QED BY <1>8, <1>11

\* The validator (trace_check.py) finds nothing wrong, in any of its eighteen checks, with
\* a trace run_loop or the driver closed, nor with one cells.py repaired and closed after a
\* kill or a death, but for what the writers and the validator disagree about.
THEOREM TracePassesAlways == Spec => []TracePasses
<1>1. TraceInv => TracePasses
  <2> SUFFICES ASSUME TraceInv, pc = "filed" PROVE TracePasses BY DEF TracePasses
  <2>1. cell \in Cells /\ Copied /\ Filed(file, cell, disk, timed, closer, raised)
    BY DEF TraceInv, LiveInv, Standing, Filing
  <2>2. ASSUME Sound(file, cell, disk) PROVE Faults \subseteq Disagreements
    <3>1. PICK n, p : /\ BodyOK(file, n, p, 1, cell, disk)
                      /\ StopOK(file[Len(file)], StepsOf(file, n), n, p, cell)
                      /\ TotalsOK(file[Len(file)], StepsOf(file, n), n)
      BY <2>2 DEF Sound
    <3> QED BY <2>1, <3>1, SoundPasses
  <2>3. ASSUME closer = "child", ~raised PROVE Faults \subseteq Disagreements
    <3>1. ByChild(file, cell, disk, raised) BY <2>1, <2>3 DEF Filed
    <3>2. PICK f, n, p : /\ BodyOK(f, n, p, 1, cell, disk) /\ EndingOK(f, n, p, cell, raised)
                         /\ file = f \/ file = UnendedCut(f)
      BY <3>1 DEF ByChild
    <3>3. StopOK(f[Len(f)], StepsOf(f, n), n, p, cell) /\ TotalsOK(f[Len(f)], StepsOf(f, n), n)
      BY <2>3, <3>2 DEF EndingOK
    <3> QED BY <2>1, <3>2, <3>3, SoundPasses
  <2>4. ASSUME closer = "parent", timed, file[1].type = "run_start", Len(Ended(file)) <= 1
        PROVE  Faults \subseteq Disagreements
    <3>1. AfterKill(file, cell, disk) BY <2>1, <2>4 DEF Filed
    <3>2. ASSUME NEW n, NEW p, BodyOK(file, n, p, 2, cell, disk) PROVE FALSE
      <4>1. PICK e \in Nat : e = 2 OBVIOUS
      <4>2. Framed(file, n, p, e) BY <3>2, <4>1 DEF BodyOK
      <4>3. Len(Ended(file)) = e BY <4>2, EndedIs
      <4> QED BY <2>4, <4>1, <4>3
    <3> QED BY <2>2, <2>4, <3>1, <3>2 DEF AfterKill
  <2>5. ASSUME closer = "parent", ~timed, Complete(file[Len(file)])
        PROVE  Faults \subseteq Disagreements
    <3>1. Sound(file, cell, disk) BY <2>1, <2>5 DEF Filed, Swallowed, Complete
    <3> QED BY <2>2, <3>1
  <2> QED BY <2>3, <2>4, <2>5 DEF TracePasses
<1> QED BY <1>1, TraceInvariant, PTL

(* What a trace the validator passes has *)

\* A step line behind the first checkpoint.
Late(f) ==
  /\ Only(f, "checkpoint") # <<>> /\ Only(f, "step") # <<>>
  /\ \E i, j \in DOMAIN f :
       /\ i < j /\ f[j].type = "step" /\ f[i].type = "checkpoint"
       /\ \A k \in 1..i-1 : f[k].type # "checkpoint"

Passing(f) ==
  /\ f[1].type = "run_start" /\ f[Len(f)].type = "run_end"
  /\ Len(Only(f, "run_start")) = 1 /\ Len(Only(f, "run_end")) = 1
  /\ ~Late(f)
  /\ CheckSteps(Only(f, "step"), f[Len(f)].stop = "accepted", f[1].brain) = {}
  /\ f[Len(f)].steps = Len(Only(f, "step"))
  /\ f[1].arm = "advanced" /\ f[Len(f)].stop \in AtGate => Len(Only(f, "checkpoint")) = 1

LEMMA PassingIs ==
  ASSUME NEW place, NEW left, NEW stored, CheckTrace(place, left, stored) = {}
  PROVE  Passing(Parsed(left))
<1> DEFINE f == Parsed(left)
           end == f[Len(f)]
           steps == Only(f, "step")
           seen == Only(f, "checkpoint")
           framed == /\ f[1].type = "run_start" /\ end.type = "run_end"
                     /\ Len(Only(f, "run_start")) = 1 /\ Len(Only(f, "run_end")) = 1
           pointFirst == /\ seen # <<>> /\ steps # <<>>
                         /\ \E i, j \in DOMAIN f :
                              /\ i < j /\ f[j].type = "step" /\ f[i].type = "checkpoint"
                              /\ \A k \in 1..i-1 : f[k].type # "checkpoint"
           damaged == left = <<>> \/ \E i \in DOMAIN left : left[i].type = "torn"
           cited == IF end.cites THEN stored ELSE {}
           two == When(pointFirst, 2)
           five == CheckRunEnd(end, steps, f[1])
           six == CheckGate(seen, f[1], end, cited)
           four == CheckSteps(steps, end.stop = "accepted", f[1].brain)
           seven == IF end.stop = "accepted" THEN {} ELSE CheckDiagnosis(place, end)
           three == CheckStart(place, f[1])
<1>1. CheckTrace(place, left, stored)
        = IF damaged THEN {1} ELSE IF ~framed THEN {2}
          ELSE two \cup three \cup four \cup five \cup six \cup seven
  BY DEF CheckTrace
<1> HIDE DEF two, three, four, five, six, seven, framed, damaged
<1>2. framed /\ two = {} /\ four = {} /\ five = {} /\ six = {} BY <1>1
<1>3. ~Late(f) BY <1>2 DEF two, When, Late
<1>4. end.steps = Len(steps)
  <2> DEFINE cum == IF steps = <<>> THEN 0 ELSE steps[Len(steps)].cum
             wrong == end.cost # cum \/ end.steps # Len(steps) \/ end.calls # Cardinality(Calls(steps))
  <2>1. When(wrong, 7) \subseteq five BY DEF five, CheckRunEnd
  <2>2. ~wrong BY <1>2, <2>1 DEF When
  <2> QED BY <2>2
<1>5. f[1].arm = "advanced" /\ end.stop \in AtGate => Len(seen) = 1
  <2> DEFINE wrong == /\ f[1].arm = "advanced" /\ end.stop \in {"accepted", "gate_rejected"}
                      /\ Len(seen) # 1
  <2>1. When(wrong, 10) \subseteq six BY DEF six, CheckGate
  <2>2. ~wrong BY <1>2, <2>1 DEF When
  <2> QED BY <2>2 DEF AtGate
<1>6. framed BY <1>2
<1> QED BY <1>2, <1>3, <1>4, <1>5, <1>6 DEF framed, four, Passing

\* A type that two lines have picks out more than one, one that a line has picks out some.
LEMMA PlacesShow ==
  ASSUME NEW f, NEW m \in Nat, DOMAIN f = 1..m, NEW type
  PROVE  /\ \A a, b \in Places(f, type) : a # b => Len(Only(f, type)) # 1
         /\ Places(f, type) # {} => Only(f, type) # <<>>
         /\ Places(f, type) = {} => Len(Only(f, type)) = 0
<1>1. IsFiniteSet(Places(f, type))
  <2>1. Places(f, type) \subseteq 1..m BY DEF Places
  <2>2. IsFiniteSet(1..m) BY FS_Interval
  <2> QED BY <2>1, <2>2, FS_Subset
<1>2. Len(Only(f, type)) = Cardinality(Places(f, type)) BY <1>1, OnlyCounts
<1>3. ASSUME NEW a \in Places(f, type), NEW b \in Places(f, type), a # b
      PROVE  Len(Only(f, type)) # 1
  <2>1. ~(\E x : Places(f, type) = {x}) BY <1>3
  <2> QED BY <1>1, <1>2, <2>1, FS_Singleton
<1>4. Places(f, type) # {} => Only(f, type) # <<>>
  <2>1. Places(f, type) # {} => Cardinality(Places(f, type)) # 0 BY <1>1, FS_EmptySet
  <2>2. Only(f, type) = <<>> => Len(Only(f, type)) = 0 OBVIOUS
  <2> QED BY <1>2, <2>1, <2>2
<1>5. Places(f, type) = {} => Len(Only(f, type)) = 0 BY <1>2, FS_EmptySet
<1> QED BY <1>3, <1>4, <1>5

\* The types of the l lines of a trace with one ending.
Types(f, n, p, l) ==
  /\ n \in Nat /\ p \in {0, 1} /\ l = 2 + n + p /\ DOMAIN f = 1..l
  /\ \A k \in 1..l :
       /\ f[k].type = "run_start" <=> k = 1
       /\ f[k].type = "step" <=> k \in 2..(1 + n)
       /\ f[k].type = "checkpoint" <=> p = 1 /\ k = 2 + n
       /\ f[k].type = "run_end" <=> k = l

LEMMA FramedTypes ==
  ASSUME NEW f, NEW n, NEW p, Framed(f, n, p, 1), NEW l, l = Len(f)
  PROVE  Types(f, n, p, l)
<1>1. n \in Nat /\ p \in {0, 1} /\ p \in Nat BY DEF Framed
<1>2. DOMAIN f = 1..(1 + n + p + 1) /\ Len(f) = 1 + n + p + 1 BY FramedDomain
<1>3. DOMAIN f = 1..(2 + n + p) /\ Len(f) = 2 + n + p BY <1>1, <1>2
<1>4. /\ Places(f, "run_start") = (0 + 1)..(0 + 1)
      /\ Places(f, "step") = (1 + 1)..(1 + n)
      /\ Places(f, "checkpoint") = (1 + n + 1)..(1 + n + p)
      /\ Places(f, "run_end") = (1 + n + p + 1)..(1 + n + p + 1)
  <2>1. PICK e : e = 1 OBVIOUS
  <2>2. Framed(f, n, p, e) BY <2>1
  <2>3. /\ Places(f, "run_start") = (0 + 1)..(0 + 1)
        /\ Places(f, "step") = (1 + 1)..(1 + n)
        /\ Places(f, "checkpoint") = (1 + n + 1)..(1 + n + p)
        /\ Places(f, "run_end") = (1 + n + p + 1)..(1 + n + p + e)
    BY <2>2, FramedPlaces
  <2> QED BY <2>1, <2>3
<1>5. ASSUME NEW i \in 1..(2 + n + p)
      PROVE  /\ f[i].type = "run_start" <=> i = 1
             /\ f[i].type = "step" <=> i \in 2..(1 + n)
             /\ f[i].type = "checkpoint" <=> p = 1 /\ i = 2 + n
             /\ f[i].type = "run_end" <=> i = 2 + n + p
  <2>1. i \in DOMAIN f BY <1>3
  <2>2. /\ f[i].type = "run_start" <=> i \in (0 + 1)..(0 + 1)
        /\ f[i].type = "step" <=> i \in (1 + 1)..(1 + n)
        /\ f[i].type = "checkpoint" <=> i \in (1 + n + 1)..(1 + n + p)
        /\ f[i].type = "run_end" <=> i \in (1 + n + p + 1)..(1 + n + p + 1)
    BY <1>4, <2>1 DEF Places
  <2>3. /\ i \in (0 + 1)..(0 + 1) <=> i = 1
        /\ i \in (1 + 1)..(1 + n) <=> i \in 2..(1 + n)
        /\ i \in (1 + n + 1)..(1 + n + p) <=> p = 1 /\ i = 2 + n
        /\ i \in (1 + n + p + 1)..(1 + n + p + 1) <=> i = 2 + n + p
    BY <1>1
  <2> QED BY <2>2, <2>3
<1> QED BY <1>1, <1>3, <1>5 DEF Types

(* Damage to a trace that passes *)

\* A trace f of n steps and p checkpoints that the validator passes.
Clean(f, n, p, c) ==
  /\ Framed(f, n, p, 1) /\ f[1] = RunStart(c) /\ StepsOK(StepsOf(f, n), n, c.brain)
  /\ p = 1 => c.arm = "advanced"
  /\ f[Len(f)].steps = n

LEMMA PassedIsClean ==
  ASSUME TraceInv, pc = "filed", Faults = {}, Complete(file[Len(file)])
  PROVE  Whole(file) /\ \E n, p : Clean(file, n, p, cell)
<1>1. cell \in Cells /\ Filed(file, cell, disk, timed, closer, raised)
  BY DEF TraceInv, LiveInv, Standing, Filing
<1>2. CheckTrace(Slot(FALSE, {}), file, disk) = {} BY DEF Faults
<1>3. Passing(Parsed(file)) BY <1>2, PassingIs
<1>4. \E n, p, e : BodyOK(file, n, p, e, cell, disk) /\ e \in {1, 2}
  <2>1. CASE Sound(file, cell, disk)
    <3>1. PICK n, p : BodyOK(file, n, p, 1, cell, disk) BY <2>1 DEF Sound
    <3>2. PICK e : e = 1 OBVIOUS
    <3>3. BodyOK(file, n, p, e, cell, disk) /\ e \in {1, 2} BY <3>1, <3>2
    <3> QED BY <3>3
  <2>2. CASE ByChild(file, cell, disk, raised)
    <3>1. PICK f, n, p : /\ BodyOK(f, n, p, 1, cell, disk)
                         /\ file = f \/ file = UnendedCut(f)
      BY <2>2 DEF ByChild
    <3>2. Framed(f, n, p, 1) BY <3>1 DEF BodyOK
    <3>3. file = f
      <4> SUFFICES ASSUME file = UnendedCut(f) PROVE FALSE BY <3>1
      <4>1. UnendedCut(f) \in Cuts(f) BY DEF Cuts, UnendedCut
      <4>2. Len(file) = Len(f) /\ file[Len(f)] = Unended(f[Len(f)]) BY <3>2, <4>1, CutIs
      <4> QED BY <4>2 DEF Complete, Unended
    <3>4. PICK e : e = 1 OBVIOUS
    <3>5. BodyOK(file, n, p, e, cell, disk) /\ e \in {1, 2} BY <3>1, <3>3, <3>4
    <3> QED BY <3>5
  <2>3. CASE AfterKill(file, cell, disk)
    <3>1. CASE 1 \in DOMAIN file /\ file[1].type = "run_end" /\ Whole(file)
      <4>1. Parsed(file)[1] = Line(file[1]) BY <3>1 DEF Parsed
      <4> QED BY <1>3, <3>1, <4>1 DEF Passing, Line
    <3>2. CASE \E n, p : BodyOK(file, n, p, 2, cell, disk)
      <4>1. PICK n, p : BodyOK(file, n, p, 2, cell, disk) BY <3>2
      <4>2. PICK e : e = 2 OBVIOUS
      <4>3. BodyOK(file, n, p, e, cell, disk) /\ e \in {1, 2} BY <4>1, <4>2
      <4> QED BY <4>3
    <3> QED BY <2>1, <2>3, <3>1, <3>2 DEF AfterKill
  <2> QED BY <1>1, <2>1, <2>2, <2>3 DEF Filed, Swallowed, Complete
<1>5. PICK n, p, e : BodyOK(file, n, p, e, cell, disk) /\ e \in {1, 2} BY <1>4
<1>6. Framed(file, n, p, e) /\ Whole(file) BY <1>5, SoundIsWhole
<1>7. Parsed(file) = file
  <2>1. file \in Cuts(file) BY DEF Cuts
  <2> QED BY <1>6, <2>1, CutParses
<1>8. e = 1
  <2>1. Len(Ended(file)) = e BY <1>6, EndedIs
  <2>2. Len(Ended(file)) = 1 BY <1>3 DEF Passing, Ended
  <2> QED BY <2>1, <2>2
<1>9. file[Len(file)].steps = n
  <2>1. Only(Parsed(file), "step") = StepsOf(file, n) /\ n \in Nat
    BY <1>6, <1>7, FramedOnly, FramedDomain
  <2> QED BY <1>3, <1>7, <2>1, StepsLen DEF Passing
<1>10. p = 1 => cell.arm = "advanced" BY <1>1, <1>5, LifeAssumption DEF BodyOK
<1>11. Clean(file, n, p, cell) BY <1>5, <1>6, <1>8, <1>9, <1>10 DEF BodyOK, Clean
<1> QED BY <1>6, <1>11

\* A file of whole lines is read as it stands.
LEMMA WholeReads ==
  ASSUME NEW g, NEW m \in Nat, g = [k \in 1..m |-> g[k]], NEW f, Whole(f),
         \A k \in 1..m : \E i \in DOMAIN f : g[k].type = f[i].type
  PROVE  Parsed(g) = g /\ Len(g) = m /\ DOMAIN g = 1..m
<1>1. Len(g) = m /\ DOMAIN g = 1..m BY StretchLen
<1>2. Whole(g) BY <1>1 DEF Whole
<1>3. Parsed(g) = g BY <1>2, WholeIsParsed
<1> QED BY <1>1, <1>3

LEMMA StretchCounts ==
  ASSUME NEW f, NEW type, NEW a \in Int, NEW m \in Nat, Places(f, type) = (a + 1)..(a + m)
  PROVE  Len(Only(f, type)) = m
<1>1. PICK g : g = [k \in 1..m |-> f[a + k]] OBVIOUS
<1>2. Only(f, type) = g BY <1>1, OnlyStretch
<1>3. g = [k \in 1..m |-> g[k]] BY <1>1
<1> QED BY <1>2, <1>3, StretchLen

\* A line lost.
LEMMA LostShows ==
  ASSUME NEW f, NEW n, NEW p, NEW c, Clean(f, n, p, c), Whole(f), NEW i \in DOMAIN f,
         f[i].type # "checkpoint" \/ f[Len(f)].stop \in AtGate,
         NEW g, g = [j \in 1..Len(f)-1 |-> IF j < i THEN f[j] ELSE f[j + 1]],
         NEW place, NEW stored
  PROVE  CheckTrace(place, g, stored) # {}
<1> SUFFICES ASSUME CheckTrace(place, g, stored) = {} PROVE FALSE OBVIOUS
<1>1. /\ Framed(f, n, p, 1) /\ f[1] = RunStart(c)
      /\ p = 1 => c.arm = "advanced"
      /\ f[Len(f)].steps = n
  BY DEF Clean
<1>2. PICK l : l = Len(f) OBVIOUS
<1>3. /\ n \in Nat /\ p \in {0, 1} /\ DOMAIN f = 1..l /\ l = 2 + n + p
      /\ \A k \in 1..l :
           /\ f[k].type = "run_start" <=> k = 1
           /\ f[k].type = "step" <=> k \in 2..(1 + n)
           /\ f[k].type = "checkpoint" <=> p = 1 /\ k = 2 + n
           /\ f[k].type = "run_end" <=> k = l
  <2>1. Types(f, n, p, l) BY <1>1, <1>2, FramedTypes
  <2> QED BY <2>1 DEF Types
<1>4. PICK m \in Nat : m = l - 1 /\ m = 1 + n + p /\ l = m + 1 /\ m >= 1
  <2>1. 1 + n + p \in Nat /\ 1 + n + p = l - 1 /\ l = 1 + n + p + 1 /\ 1 + n + p >= 1 BY <1>3
  <2> QED BY <2>1
<1>5. g = [j \in 1..m |-> IF j < i THEN f[j] ELSE f[j + 1]] BY <1>2, <1>4
<1>6. /\ g = [j \in 1..m |-> g[j]]
      /\ \A j \in 1..m : (j < i => g[j] = f[j]) /\ (~(j < i) => g[j] = f[j + 1])
  BY <1>5
<1>7. \A j \in 1..m : j \in 1..l /\ j + 1 \in 1..l BY <1>4
<1>8. \A k \in 1..m : \E h \in DOMAIN f : g[k].type = f[h].type BY <1>3, <1>6, <1>7
<1>9. Parsed(g) = g /\ Len(g) = m /\ DOMAIN g = 1..m BY <1>6, <1>8, WholeReads
<1>10. Passing(g) BY <1>9, PassingIs
<1>11. i \in 1..l /\ 1 \in 1..m /\ m \in 1..m BY <1>3, <1>4
<1>12. CASE i = 1
  <2>1. g[1] = f[1 + 1] /\ 1 + 1 \in 1..l /\ 1 + 1 # 1 BY <1>6, <1>7, <1>11, <1>12
  <2> QED BY <1>3, <1>10, <2>1 DEF Passing
<1>13. CASE i = l
  <2>1. g[m] = f[m] /\ m \in 1..l /\ m # l BY <1>4, <1>6, <1>7, <1>11, <1>13
  <2> QED BY <1>3, <1>9, <1>10, <2>1 DEF Passing
<1>14. CASE i # 1 /\ i # l
  <2>1. g[1] = f[1] /\ g[m] = f[l] BY <1>4, <1>6, <1>11, <1>14
  <2>2. f[i].type = "step" \/ f[i].type = "checkpoint"
    <3>1. i \in 2..(1 + n) \/ (p = 1 /\ i = 2 + n) BY <1>3, <1>11, <1>14
    <3> QED BY <1>3, <1>11, <3>1
  <2>3. CASE f[i].type = "step"
    <3>1. i \in 2..(1 + n) BY <1>3, <1>11, <2>3
    <3>2. PICK k \in Nat, one \in Int : k = n - 1 /\ n = k + 1 /\ one = 1
      <4>1. n - 1 \in Nat /\ n = (n - 1) + 1 BY <1>3, <3>1
      <4> QED BY <4>1
    <3>3. \A j \in 1..m : g[j].type = "step" <=> j \in (one + 1)..(one + k)
      <4> TAKE j \in 1..m
      <4>1. CASE j < i
        <5>1. g[j].type = "step" <=> j \in 2..(1 + n) BY <1>3, <1>6, <1>7, <4>1
        <5> QED BY <1>3, <3>1, <3>2, <4>1, <5>1
      <4>2. CASE ~(j < i)
        <5>1. g[j].type = "step" <=> j + 1 \in 2..(1 + n) BY <1>3, <1>6, <1>7, <4>2
        <5> QED BY <1>3, <3>1, <3>2, <4>2, <5>1
      <4> QED BY <4>1, <4>2
    <3>4. (one + 1)..(one + k) \subseteq 1..m BY <1>3, <1>4, <3>2
    <3>5. Places(g, "step") = (one + 1)..(one + k) BY <1>9, <3>3, <3>4 DEF Places
    <3>6. Len(Only(g, "step")) = k BY <3>2, <3>5, StretchCounts
    <3> QED BY <1>1, <1>2, <1>3, <1>9, <1>10, <2>1, <3>2, <3>6 DEF Passing
  <2>4. CASE f[i].type = "checkpoint"
    <3>1. p = 1 /\ i = 2 + n BY <1>3, <1>11, <2>4
    <3>2. \A j \in 1..m : g[j].type # "checkpoint"
      <4> TAKE j \in 1..m
      <4>1. CASE j < i
        <5>1. g[j] = f[j] /\ j \in 1..l /\ j # 2 + n BY <1>3, <1>6, <1>7, <3>1, <4>1
        <5> QED BY <1>3, <5>1
      <4>2. CASE ~(j < i)
        <5>1. g[j] = f[j + 1] /\ j + 1 \in 1..l /\ j + 1 # 2 + n BY <1>3, <1>6, <1>7, <3>1, <4>2
        <5> QED BY <1>3, <5>1
      <4> QED BY <4>1, <4>2
    <3>3. Places(g, "checkpoint") = {} BY <1>9, <3>2 DEF Places
    <3>4. Len(Only(g, "checkpoint")) = 0 BY <1>9, <3>3, PlacesShow
    <3>5. g[1].arm = "advanced"
      <4>1. RunStart(c).arm = c.arm BY DEF RunStart
      <4> QED BY <1>1, <2>1, <3>1, <4>1
    <3>6. g[Len(g)].stop \in AtGate BY <1>2, <1>9, <2>1, <2>4
    <3>7. Len(Only(g, "checkpoint")) = 1 BY <1>10, <3>5, <3>6 DEF Passing
    <3>8. 0 # 1 OBVIOUS
    <3> QED BY <3>4, <3>7, <3>8
  <2> QED BY <2>2, <2>3, <2>4
<1> QED BY <1>12, <1>13, <1>14

\* A line doubled.
LEMMA DoubledShows ==
  ASSUME NEW f, NEW n, NEW p, NEW c, Clean(f, n, p, c), Whole(f), NEW i \in DOMAIN f,
         f[i].type # "checkpoint" \/ f[Len(f)].stop \in AtGate,
         NEW g, g = [j \in 1..Len(f)+1 |-> IF j <= i THEN f[j] ELSE f[j - 1]],
         NEW place, NEW stored
  PROVE  CheckTrace(place, g, stored) # {}
<1> SUFFICES ASSUME CheckTrace(place, g, stored) = {} PROVE FALSE OBVIOUS
<1>1. /\ Framed(f, n, p, 1) /\ f[1] = RunStart(c)
      /\ p = 1 => c.arm = "advanced"
      /\ f[Len(f)].steps = n
  BY DEF Clean
<1>2. PICK l : l = Len(f) OBVIOUS
<1>3. /\ n \in Nat /\ p \in {0, 1} /\ DOMAIN f = 1..l /\ l = 2 + n + p
      /\ \A k \in 1..l :
           /\ f[k].type = "run_start" <=> k = 1
           /\ f[k].type = "step" <=> k \in 2..(1 + n)
           /\ f[k].type = "checkpoint" <=> p = 1 /\ k = 2 + n
           /\ f[k].type = "run_end" <=> k = l
  <2>1. Types(f, n, p, l) BY <1>1, <1>2, FramedTypes
  <2> QED BY <2>1 DEF Types
<1>4. PICK m \in Nat : m = l + 1 /\ m = 3 + n + p /\ m - 1 = l
  <2>1. 3 + n + p \in Nat /\ 3 + n + p = l + 1 /\ (3 + n + p) - 1 = l BY <1>3
  <2> QED BY <2>1
<1>5. g = [j \in 1..m |-> IF j <= i THEN f[j] ELSE f[j - 1]] BY <1>2, <1>4
<1>6. /\ g = [j \in 1..m |-> g[j]]
      /\ \A j \in 1..m : (j <= i => g[j] = f[j]) /\ (~(j <= i) => g[j] = f[j - 1])
  BY <1>5
<1>7. i \in 1..l /\ \A j \in 1..m : (j <= i => j \in 1..l) /\ (~(j <= i) => j - 1 \in 1..l)
  BY <1>3, <1>4
<1>8. \A k \in 1..m : \E h \in DOMAIN f : g[k].type = f[h].type
  <2> TAKE k \in 1..m
  <2>1. CASE k <= i BY <1>3, <1>6, <1>7, <2>1
  <2>2. CASE ~(k <= i) BY <1>3, <1>6, <1>7, <2>2
  <2> QED BY <2>1, <2>2
<1>9. Parsed(g) = g /\ Len(g) = m /\ DOMAIN g = 1..m BY <1>6, <1>8, WholeReads
<1>10. Passing(g) BY <1>9, PassingIs
<1>11. /\ i \in 1..m /\ i + 1 \in 1..m /\ g[i] = f[i] /\ g[i + 1] = f[i] /\ g[1] = f[1] /\ g[m] = f[l]
       /\ i # i + 1
  <2>1. i \in 1..m /\ i + 1 \in 1..m /\ i <= i /\ ~(i + 1 <= i) /\ (i + 1) - 1 = i /\ i # i + 1 BY <1>4, <1>7
  <2>2. 1 \in 1..m /\ 1 <= i /\ m \in 1..m /\ ~(m <= i) BY <1>4, <1>7
  <2>3. g[i] = f[i] /\ g[i + 1] = f[(i + 1) - 1] BY <1>6, <2>1
  <2>4. g[1] = f[1] /\ g[m] = f[m - 1] BY <1>6, <2>2
  <2> QED BY <1>4, <2>1, <2>3, <2>4
<1>12. PICK type : type = f[i].type OBVIOUS
<1>13. i \in Places(g, type) /\ i + 1 \in Places(g, type) BY <1>9, <1>11, <1>12 DEF Places
<1>14. Len(Only(g, type)) # 1 BY <1>9, <1>11, <1>13, PlacesShow
<1>15. CASE type \in {"run_start", "run_end"} BY <1>10, <1>14, <1>15 DEF Passing
<1>16. CASE type = "step"
  <2>1. i \in 2..(1 + n) BY <1>3, <1>7, <1>12, <1>16
  <2>2. PICK k \in Nat, one \in Int : k = n + 1 /\ one = 1 /\ k # n
    <3>1. n + 1 \in Nat /\ n + 1 # n BY <1>3
    <3> QED BY <3>1
  <2>3. \A j \in 1..m : g[j].type = "step" <=> j \in (one + 1)..(one + k)
    <3> TAKE j \in 1..m
    <3>1. CASE j <= i
      <4>1. g[j].type = "step" <=> j \in 2..(1 + n) BY <1>3, <1>6, <1>7, <3>1
      <4> QED BY <1>3, <2>1, <2>2, <3>1, <4>1
    <3>2. CASE ~(j <= i)
      <4>1. g[j].type = "step" <=> j - 1 \in 2..(1 + n) BY <1>3, <1>6, <1>7, <3>2
      <4> QED BY <1>3, <2>1, <2>2, <3>2, <4>1
    <3> QED BY <3>1, <3>2
  <2>4. (one + 1)..(one + k) \subseteq 1..m BY <1>3, <1>4, <2>2
  <2>5. Places(g, "step") = (one + 1)..(one + k) BY <1>9, <2>3, <2>4 DEF Places
  <2>6. Len(Only(g, "step")) = k BY <2>2, <2>5, StretchCounts
  <2> QED BY <1>1, <1>2, <1>9, <1>10, <1>11, <2>2, <2>6 DEF Passing
<1>17. CASE type = "checkpoint"
  <2>1. p = 1 BY <1>3, <1>7, <1>12, <1>17
  <2>2. g[1].arm = "advanced"
    <3>1. RunStart(c).arm = c.arm BY DEF RunStart
    <3> QED BY <1>1, <1>11, <2>1, <3>1
  <2>3. g[Len(g)].stop \in AtGate BY <1>2, <1>9, <1>11, <1>12, <1>17
  <2> QED BY <1>10, <1>14, <1>17, <2>2, <2>3 DEF Passing
<1>18. type \in {"run_start", "step", "checkpoint", "run_end"}
  <2>1. i = 1 \/ i \in 2..(1 + n) \/ (p = 1 /\ i = 2 + n) \/ i = l BY <1>3, <1>7
  <2> QED BY <1>3, <1>7, <1>12, <2>1
<1> QED BY <1>15, <1>16, <1>17, <1>18

\* What the steps of a trace that passes are.
LEMMA StepsPassed ==
  ASSUME NEW S, NEW accepted \in BOOLEAN, NEW brain, CheckSteps(S, accepted, brain) = {}, NEW i \in DOMAIN S
  PROVE  /\ S[i].step = i
         /\ i # Len(S) \/ accepted =>
              \A j \in DOMAIN S[i].calls : \E k \in DOMAIN S[i].results :
                S[i].results[k].call = S[i].calls[j].id
<1> DEFINE step == S[i]
           before == IF i = 1 THEN 0 ELSE S[i - 1].cum
           ids == {step.calls[j].id : j \in DOMAIN step.calls}
           Answered(id) == Cardinality({k \in DOMAIN step.results : step.results[k].call = id})
           mayOwe == i = Len(S) /\ ~accepted
           Earlier(at, j) == at[1] < i \/ (at[1] = i /\ at[2] < j)
           three == step.step # i
           four == \/ \E k \in DOMAIN step.results : step.results[k].call \notin ids
                   \/ \E id \in ids : Answered(id) # 1 /\ ~(Answered(id) = 0 /\ mayOwe)
           five == \E j \in DOMAIN step.calls, at \in Calls(S) :
                     Earlier(at, j) /\ S[at[1]].calls[at[2]].id = step.calls[j].id
           six == step.cum < before \/ step.cum # before + step.cost
           twelve == \/ \E key \in UsageKeys : step.usage[key] < 0
                     \/ HashMissing(step, brain) \/ step.stop_reason = ""
<1>1. CheckStep(S, i, accepted, brain)
        = When(three, 3) \cup When(four, 4) \cup When(five, 5) \cup When(six, 6) \cup When(twelve, 12)
  BY DEF CheckStep
<1>2. CheckStep(S, i, accepted, brain) = {} BY DEF CheckSteps
<1> HIDE DEF three, four, five, six, twelve
<1>3. When(three, 3) = {} /\ When(four, 4) = {} BY <1>1, <1>2
<1>4. ~three /\ ~four BY <1>3 DEF When
<1>5. S[i].step = i BY <1>4 DEF three
<1>6. ASSUME i # Len(S) \/ accepted, NEW j \in DOMAIN S[i].calls,
             \A k \in DOMAIN S[i].results : S[i].results[k].call # S[i].calls[j].id
      PROVE  FALSE
  <2>1. PICK id : id = S[i].calls[j].id OBVIOUS
  <2>2. id \in ids BY <2>1
  <2>3. {k \in DOMAIN step.results : step.results[k].call = id} = {} BY <1>6, <2>1
  <2>4. Answered(id) = 0 BY <2>3, FS_EmptySet
  <2>5. ~mayOwe BY <1>6
  <2>6. 0 # 1 OBVIOUS
  <2>7. Answered(id) # 1 BY <2>4, <2>6
  <2> HIDE DEF Answered, mayOwe, ids
  <2> QED BY <1>4, <2>2, <2>5, <2>7 DEF four
<1> QED BY <1>5, <1>6

Strung(g, m) == g = [j \in 1..m |-> g[j]]

\* A line swapped with the next.
LEMMA SwappedShows ==
  ASSUME NEW f, NEW n, NEW p, NEW c, Clean(f, n, p, c), Whole(f), NEW i \in DOMAIN f, i < Len(f),
         NEW g, Strung(g, Len(f)), g[i] = f[i + 1], g[i + 1] = f[i],
         \A j \in 1..Len(f) : j # i /\ j # i + 1 => g[j] = f[j],
         NEW place, NEW stored
  PROVE  CheckTrace(place, g, stored) # {}
<1> SUFFICES ASSUME CheckTrace(place, g, stored) = {} PROVE FALSE OBVIOUS
<1>1. Framed(f, n, p, 1) /\ StepsOK(StepsOf(f, n), n, c.brain) BY DEF Clean
<1>2. PICK l : l = Len(f) OBVIOUS
<1>3. /\ n \in Nat /\ p \in {0, 1} /\ DOMAIN f = 1..l /\ l = 2 + n + p
      /\ \A k \in 1..l :
           /\ f[k].type = "run_start" <=> k = 1
           /\ f[k].type = "step" <=> k \in 2..(1 + n)
           /\ f[k].type = "checkpoint" <=> p = 1 /\ k = 2 + n
           /\ f[k].type = "run_end" <=> k = l
  <2>1. Types(f, n, p, l) BY <1>1, <1>2, FramedTypes
  <2> QED BY <2>1 DEF Types
<1>4. PICK h : h = i + 1 OBVIOUS
<1>5. l \in Nat /\ i \in 1..l /\ h \in 1..l /\ i # h /\ i < l BY <1>2, <1>3, <1>4
<1>6. /\ g = [j \in 1..l |-> g[j]] /\ g[i] = f[h] /\ g[h] = f[i]
      /\ \A j \in 1..l : j # i /\ j # h => g[j] = f[j]
  BY <1>2, <1>4 DEF Strung
<1>7. \A k \in 1..l : \E j \in DOMAIN f : g[k].type = f[j].type
  <2> TAKE k \in 1..l
  <2>1. g[k] = f[h] \/ g[k] = f[i] \/ g[k] = f[k] BY <1>6
  <2>2. h \in DOMAIN f /\ i \in DOMAIN f /\ k \in DOMAIN f BY <1>3, <1>5
  <2> QED BY <2>1, <2>2
<1>8. Parsed(g) = g /\ Len(g) = l /\ DOMAIN g = 1..l BY <1>5, <1>6, <1>7, WholeReads
<1>9. Passing(g) BY <1>8, PassingIs
<1>10. CASE i = 1
  <2>1. h # 1 BY <1>4, <1>10
  <2> QED BY <1>3, <1>5, <1>6, <1>9, <1>10, <2>1 DEF Passing
<1>11. CASE h = l
  <2>1. f[i].type # "run_end" BY <1>3, <1>5
  <2> QED BY <1>6, <1>8, <1>9, <1>11, <2>1 DEF Passing
<1>12. CASE i # 1 /\ h # l /\ f[h].type = "step"
  <2>1. h \in 2..(1 + n) BY <1>3, <1>5, <1>12
  <2>2. i \in 2..(1 + n) /\ f[i].type = "step"
    <3>1. i \in 2..(1 + n) BY <1>3, <1>4, <1>5, <1>12, <2>1
    <3> QED BY <1>3, <1>5, <3>1
  <2>3. \A j \in 1..l : g[j].type = "step" <=> j \in 2..(1 + n) BY <1>3, <1>5, <1>6, <1>12, <2>1, <2>2
  <2>4. PICK one \in Int : one = 1 OBVIOUS
  <2>5. Places(g, "step") = (one + 1)..(one + n)
    <3>1. Places(g, "step") = {j \in 1..l : j \in 2..(1 + n)} BY <1>8, <2>3 DEF Places
    <3>2. {j \in 1..l : j \in 2..(1 + n)} = (one + 1)..(one + n) BY <1>3, <2>4
    <3> QED BY <3>1, <3>2
  <2>6. Only(g, "step") = [k \in 1..n |-> g[one + k]]
    <3>1. n \in Nat BY <1>3
    <3> QED BY <2>5, <3>1, OnlyStretch
  <2>7. PICK k \in 1..n : k = i - 1 /\ one + k = i
    <3>1. i - 1 \in 1..n /\ one + (i - 1) = i BY <1>3, <2>2, <2>4
    <3> QED BY <3>1
  <2>8. PICK S : S = Only(g, "step") OBVIOUS
  <2>9. DOMAIN S = 1..n /\ S[k] = f[h] BY <1>6, <2>6, <2>7, <2>8
  <2>10. PICK accepted \in BOOLEAN : accepted = (g[Len(g)].stop = "accepted") OBVIOUS
  <2>11. CheckSteps(S, accepted, g[1].brain) = {} BY <1>9, <2>8, <2>10 DEF Passing
  <2>12. S[k].step = k BY <2>9, <2>11, StepsPassed
  <2>13. f[h].step = i
    <3>1. i \in 1..n BY <1>3, <1>4, <1>5, <2>1
    <3>2. StepsOf(f, n)[i] = f[h] BY <1>4, <3>1 DEF StepsOf
    <3>3. StepOK(StepsOf(f, n)[i], i, CumOf(StepsOf(f, n), i - 1), c.brain) BY <1>1, <3>1 DEF StepsOK
    <3> QED BY <3>2, <3>3 DEF StepOK
  <2>14. k # i BY <1>5, <2>7
  <2> QED BY <2>9, <2>12, <2>13, <2>14
<1>13. CASE i # 1 /\ h # l /\ f[h].type # "step"
  <2>1. p = 1 /\ h = 2 + n /\ i = 1 + n /\ i \in 2..(1 + n)
    BY <1>3, <1>4, <1>5, <1>13
  <2>2. g[i].type = "checkpoint" /\ g[h].type = "step" BY <1>3, <1>5, <1>6, <2>1
  <2>3. i \in Places(g, "checkpoint") /\ h \in Places(g, "step") BY <1>5, <1>8, <2>2 DEF Places
  <2>4. Only(g, "checkpoint") # <<>> /\ Only(g, "step") # <<>> BY <1>5, <1>8, <2>3, PlacesShow
  <2>5. \A k \in 1..i-1 : g[k].type # "checkpoint"
    <3> TAKE k \in 1..i-1
    <3>1. k \in 1..l /\ k # i /\ k # h /\ k # 2 + n BY <1>3, <1>4, <1>5, <2>1
    <3>2. g[k] = f[k] BY <1>6, <3>1
    <3> QED BY <1>3, <3>1, <3>2
  <2>6. i < h BY <1>4, <1>5
  <2>7. Late(g) BY <1>5, <1>8, <2>2, <2>4, <2>5, <2>6 DEF Late
  <2> QED BY <1>9, <2>7 DEF Passing
<1> QED BY <1>10, <1>11, <1>12, <1>13

LEMMA TailIs ==
  ASSUME NEW s, NEW X, s \in Seq(X), NEW r \in Nat, DOMAIN s = 1..r, s # <<>>
  PROVE  r >= 1 /\ DOMAIN Tail(s) = 1..(r - 1) /\ \A k \in 1..(r - 1) : Tail(s)[k] = s[k + 1]
<1>1. /\ Tail(s) \in Seq(X) /\ Len(Tail(s)) = Len(s) - 1
      /\ \A k \in 1..Len(Tail(s)) : Tail(s)[k] = s[k + 1]
  BY HeadTailProperties
<1>2. Len(s) = r BY <1>1
<1>3. r >= 1
  <2>1. Len(s) \in Nat \ {0} BY EmptySeq
  <2> QED BY <1>2, <2>1
<1> QED BY <1>1, <1>2, <1>3

\* The fields of a step line without its first result.
LEMMA ResultLost ==
  ASSUME NEW s, Shaped(s), NEW t, t = [s EXCEPT !.results = Tail(s.results)]
  PROVE  t.type = "step" /\ t.calls = s.calls /\ t.results = Tail(s.results)
<1>1. PICK a, body, cost, cum : s = StepLine(a, body, cost, cum) BY DEF Shaped
<1>2. PICK tail : tail = Tail(s.results) OBVIOUS
<1>3. t = [s EXCEPT !.results = tail] BY <1>2
<1>4. t.type = "step" /\ t.calls = s.calls /\ t.results = tail BY <1>1, <1>3 DEF StepLine
<1> QED BY <1>2, <1>4

\* A result of an earlier step lost.
LEMMA ResultShows ==
  ASSUME NEW f, NEW n, NEW p, NEW c, Clean(f, n, p, c), Whole(f), NEW i \in DOMAIN f,
         f[i].type = "step", f[i].results # <<>>,
         f[i + 1].type = "step" \/ f[Len(f)].stop = "accepted",
         NEW g, Strung(g, Len(f)), \A j \in 1..Len(f) : j # i => g[j] = f[j],
         g[i].type = "step", g[i].calls = f[i].calls, g[i].results = Tail(f[i].results),
         NEW place, NEW stored
  PROVE  CheckTrace(place, g, stored) # {}
<1> SUFFICES ASSUME CheckTrace(place, g, stored) = {} PROVE FALSE OBVIOUS
<1>1. Framed(f, n, p, 1) /\ StepsOK(StepsOf(f, n), n, c.brain) BY DEF Clean
<1>2. PICK l : l = Len(f) OBVIOUS
<1>3. /\ n \in Nat /\ p \in {0, 1} /\ DOMAIN f = 1..l /\ l = 2 + n + p
      /\ \A k \in 1..l :
           /\ f[k].type = "run_start" <=> k = 1
           /\ f[k].type = "step" <=> k \in 2..(1 + n)
           /\ f[k].type = "checkpoint" <=> p = 1 /\ k = 2 + n
           /\ f[k].type = "run_end" <=> k = l
  <2>1. Types(f, n, p, l) BY <1>1, <1>2, FramedTypes
  <2> QED BY <2>1 DEF Types
<1>4. l \in Nat /\ n \in Nat /\ i \in 1..l /\ i \in 2..(1 + n) /\ l \in 1..l /\ i # l BY <1>3
<1>5. g = [j \in 1..l |-> g[j]] BY <1>2 DEF Strung
<1>6. \A j \in 1..l : g[j].type = f[j].type /\ (j # i => g[j] = f[j]) BY <1>2
<1>7. \A k \in 1..l : \E j \in DOMAIN f : g[k].type = f[j].type BY <1>3, <1>6
<1>8. Parsed(g) = g /\ Len(g) = l /\ DOMAIN g = 1..l BY <1>4, <1>5, <1>7, WholeReads
<1>9. Passing(g) BY <1>8, PassingIs
<1>10. PICK one \in Int : one = 1 OBVIOUS
<1>11. Places(g, "step") = (one + 1)..(one + n)
  <2>1. \A j \in 1..l : g[j].type = "step" <=> j \in 2..(1 + n) BY <1>3, <1>6
  <2>2. Places(g, "step") = {j \in 1..l : j \in 2..(1 + n)} BY <1>8, <2>1 DEF Places
  <2>3. {j \in 1..l : j \in 2..(1 + n)} = (one + 1)..(one + n) BY <1>3, <1>10
  <2> QED BY <2>2, <2>3
<1>12. Only(g, "step") = [k \in 1..n |-> g[one + k]] BY <1>4, <1>11, OnlyStretch
<1>13. PICK k \in 1..n : k = i - 1 /\ one + k = i /\ k + 1 = i
  <2>1. i - 1 \in 1..n /\ one + (i - 1) = i /\ (i - 1) + 1 = i BY <1>4, <1>10
  <2> QED BY <2>1
<1>14. PICK S : S = Only(g, "step") OBVIOUS
<1>15. DOMAIN S = 1..n /\ S[k] = g[i] /\ Len(S) = n
  <2>1. DOMAIN S = 1..n /\ S[k] = g[i] BY <1>12, <1>13, <1>14
  <2>2. Len(S) = n BY <1>4, <1>11, <1>14, StretchCounts
  <2> QED BY <2>1, <2>2
<1>16. PICK accepted \in BOOLEAN : accepted = (g[Len(g)].stop = "accepted") OBVIOUS
<1>17. CheckSteps(S, accepted, g[1].brain) = {} BY <1>9, <1>14, <1>16 DEF Passing
<1>18. k # Len(S) \/ accepted
  <2>1. CASE f[Len(f)].stop = "accepted" BY <1>2, <1>4, <1>6, <1>8, <1>16, <2>1
  <2>2. CASE f[i + 1].type = "step"
    <3>1. i + 1 \in 1..l BY <1>3, <1>4
    <3>2. i + 1 \in 2..(1 + n) BY <1>3, <2>2, <3>1
    <3>3. PICK a \in 1..l : a = i BY <1>4
    <3>4. a + 1 <= 1 + n BY <3>2, <3>3
    <3>5. k # n
      <4>1. n \in Nat /\ l \in Nat /\ k \in 1..n /\ k + 1 = a BY <1>4, <1>13, <3>3
      <4> QED BY <3>3, <3>4, <4>1
    <3> QED BY <1>15, <3>5
  <2> QED BY <2>1, <2>2
<1>19. \A j \in DOMAIN S[k].calls : \E h \in DOMAIN S[k].results :
         S[k].results[h].call = S[k].calls[j].id
  BY <1>15, <1>17, <1>18, StepsPassed
<1>20. StepsOf(f, n)[k] = f[i] BY <1>13 DEF StepsOf
<1>21. Paired(f[i]) /\ Shaped(f[i])
  <2>1. StepOK(StepsOf(f, n)[k], k, CumOf(StepsOf(f, n), k - 1), c.brain) BY <1>1, <1>13 DEF StepsOK
  <2> QED BY <1>20, <2>1 DEF StepOK
<1>22. PICK m, r \in Nat :
         /\ r <= m /\ DOMAIN f[i].calls = 1..m /\ DOMAIN f[i].results = 1..r
         /\ \A h \in 1..r : f[i].results[h].call = f[i].calls[h].id
  BY <1>21 DEF Paired
<1>23. PICK X : f[i].results \in Seq(X) BY <1>21 DEF Shaped
<1>24. PICK results : results = f[i].results OBVIOUS
<1>25. /\ r >= 1 /\ DOMAIN Tail(results) = 1..(r - 1)
       /\ \A h \in 1..(r - 1) : Tail(results)[h] = results[h + 1]
  BY <1>22, <1>23, <1>24, TailIs
<1>26. PICK h \in 1..(r - 1) : results[h + 1].call = f[i].calls[1].id
  <2>1. 1 \in DOMAIN f[i].calls BY <1>22, <1>25
  <2>2. \E h \in DOMAIN g[i].results : g[i].results[h].call = g[i].calls[1].id
    BY <1>15, <1>19, <2>1
  <2>3. g[i].results = Tail(results) /\ g[i].calls = f[i].calls BY <1>24
  <2>4. PICK h \in DOMAIN Tail(results) : Tail(results)[h].call = f[i].calls[1].id BY <2>2, <2>3
  <2>5. h \in 1..(r - 1) BY <1>25, <2>4
  <2>6. Tail(results)[h] = results[h + 1] BY <1>25, <2>5
  <2> QED BY <2>4, <2>5, <2>6
<1>27. h + 1 \in 1..r /\ h + 1 \in 1..m /\ 1 \in 1..m /\ h + 1 # 1 BY <1>22, <1>25, <1>26
<1>28. f[i].calls[h + 1].id = f[i].calls[1].id BY <1>22, <1>24, <1>26, <1>27
<1>29. IdsApart(StepsOf(f, n)) /\ DOMAIN StepsOf(f, n) = 1..n BY <1>1 DEF StepsOK
<1>30. PICK T : T = StepsOf(f, n) OBVIOUS
<1>31. \A a, b \in DOMAIN T[k].calls : T[k].calls[a].id = T[k].calls[b].id => a = b
  BY <1>13, <1>29, <1>30 DEF IdsApart
<1> QED BY <1>20, <1>22, <1>27, <1>28, <1>30, <1>31

\* One position of a sequence replaced.
LEMMA Replaced ==
  ASSUME NEW f, NEW l, Strung(f, l), NEW i \in 1..l, NEW x, NEW g, g = [f EXCEPT ![i] = x]
  PROVE  Strung(g, l) /\ g[i] = x /\ \A j \in 1..l : j # i => g[j] = f[j]
<1>1. DOMAIN f = 1..l BY DEF Strung
<1>2. DOMAIN g = 1..l /\ g[i] = x /\ \A j \in 1..l : j # i => g[j] = f[j] BY <1>1
<1>3. g = [j \in DOMAIN g |-> g[j]] OBVIOUS
<1> QED BY <1>2, <1>3 DEF Strung

\* Two positions of a sequence replaced.
LEMMA Exchanged ==
  ASSUME NEW f, NEW l, Strung(f, l), NEW i \in 1..l, NEW h \in 1..l, i # h, NEW x, NEW y,
         NEW g, g = [f EXCEPT ![i] = x, ![h] = y]
  PROVE  Strung(g, l) /\ g[i] = x /\ g[h] = y /\ \A j \in 1..l : j # i /\ j # h => g[j] = f[j]
<1>1. DOMAIN f = 1..l BY DEF Strung
<1>2. DOMAIN g = 1..l /\ g[i] = x /\ g[h] = y /\ \A j \in 1..l : j # i /\ j # h => g[j] = f[j]
  BY <1>1
<1>3. g = [j \in DOMAIN g |-> g[j]] OBVIOUS
<1> QED BY <1>2, <1>3 DEF Strung

LEMMA DamageBy ==
  ASSUME TraceInv
  PROVE  DamageShows
<1> SUFFICES ASSUME pc = "filed", Faults = {}, Complete(file[Len(file)]), NEW i \in DOMAIN file
             PROVE  LET Shows(damaged) == CheckTrace(Slot(FALSE, {}), damaged, disk) # {}
                    IN /\ file[i].type # "checkpoint" \/ NeedsCheckpoint => Shows(LostLine(i)) /\ Shows(DoubledLine(i))
                       /\ i < Len(file) => Shows(SwappedLines(i))
                       /\ /\ file[i].type = "step" /\ file[i].results # <<>>
                          /\ file[i + 1].type = "step" \/ EndOf.stop = "accepted"
                          => Shows(LostResult(i))
  BY DEF DamageShows
<1>1. Whole(file) /\ \E n, p : Clean(file, n, p, cell) BY PassedIsClean
<1>2. PICK n, p : Clean(file, n, p, cell) BY <1>1
<1>3. Framed(file, n, p, 1) /\ StepsOK(StepsOf(file, n), n, cell.brain) BY <1>2 DEF Clean
<1>4. PICK f : f = file OBVIOUS
<1>5. PICK l : l = Len(f) OBVIOUS
<1>6. PICK place : place = Slot(FALSE, {}) OBVIOUS
<1>7. DOMAIN f = 1..l /\ l \in Nat \ {0} /\ i \in 1..l /\ Strung(f, l)
  <2>1. PICK m \in Nat : DOMAIN f = 1..m /\ Len(f) = m /\ f = [k \in 1..m |-> f[k]] /\ m # 0
    <3>1. /\ n \in Nat /\ p \in Nat
          /\ DOMAIN f = 1..(1 + n + p + 1) /\ Len(f) = 1 + n + p + 1 /\ Len(f) \in Nat
          /\ f = [k \in 1..(1 + n + p + 1) |-> f[k]]
      BY <1>3, <1>4, FramedDomain
    <3>2. PICK m : m = 1 + n + p + 1 OBVIOUS
    <3>3. m \in Nat /\ m # 0 BY <3>1, <3>2
    <3> QED BY <3>1, <3>2, <3>3
  <2>2. l = m BY <1>5, <2>1
  <2> QED BY <1>4, <2>1, <2>2 DEF Strung
<1>8. Line(f[l]) = f[l]
  <2>1. f[l].type # "unended" BY <1>1, <1>4, <1>7 DEF Whole
  <2> QED BY <2>1 DEF Line
<1>9. EndOf = f[l] BY <1>4, <1>5, <1>8 DEF EndOf
<1>10. NeedsCheckpoint <=> f[Len(f)].stop \in AtGate BY <1>5, <1>9 DEF NeedsCheckpoint, AtGate
<1>11. Clean(f, n, p, cell) /\ Whole(f) BY <1>1, <1>2, <1>4
<1>12. ASSUME f[i].type # "checkpoint" \/ NeedsCheckpoint
       PROVE  CheckTrace(place, LostLine(i), disk) # {} /\ CheckTrace(place, DoubledLine(i), disk) # {}
  <2>1. f[i].type # "checkpoint" \/ f[Len(f)].stop \in AtGate BY <1>10, <1>12
  <2>2. PICK g : g = [j \in 1..Len(f)-1 |-> IF j < i THEN f[j] ELSE f[j + 1]] OBVIOUS
  <2>3. PICK h : h = [j \in 1..Len(f)+1 |-> IF j <= i THEN f[j] ELSE f[j - 1]] OBVIOUS
  <2>4. LostLine(i) = g /\ DoubledLine(i) = h BY <1>4, <2>2, <2>3 DEF LostLine, DoubledLine
  <2>5. i \in DOMAIN f BY <1>4
  <2>6. CheckTrace(place, g, disk) # {} BY <1>11, <2>1, <2>2, <2>5, LostShows
  <2>7. CheckTrace(place, h, disk) # {} BY <1>11, <2>1, <2>3, <2>5, DoubledShows
  <2> QED BY <2>4, <2>6, <2>7
<1>13. ASSUME i < l PROVE CheckTrace(place, SwappedLines(i), disk) # {}
  <2>1. PICK k : k = i + 1 OBVIOUS
  <2>2. k \in 1..l /\ i # k BY <1>7, <1>13, <2>1
  <2>3. PICK x, y : x = f[k] /\ y = f[i] OBVIOUS
  <2>5. PICK g : g = [f EXCEPT ![i] = x, ![k] = y] OBVIOUS
  <2>8. Strung(g, l) /\ g[i] = f[k] /\ g[k] = f[i] /\ \A j \in 1..l : j # i /\ j # k => g[j] = f[j]
    <3>1. Strung(g, l) /\ g[i] = x /\ g[k] = y /\ \A j \in 1..l : j # i /\ j # k => g[j] = f[j]
      BY <1>7, <2>2, <2>5, Exchanged
    <3> QED BY <2>3, <3>1
  <2>9. SwappedLines(i) = g BY <1>4, <2>1, <2>3, <2>5 DEF SwappedLines
  <2>10. CheckTrace(place, g, disk) # {}
    <3>1. i \in DOMAIN f BY <1>4
    <3>2. Strung(g, Len(f)) /\ i < Len(f) BY <1>5, <1>13, <2>8
    <3>3. g[i] = f[i + 1] /\ g[i + 1] = f[i] /\ \A j \in 1..Len(f) : j # i /\ j # i + 1 => g[j] = f[j]
      BY <1>5, <2>1, <2>8
    <3> QED BY <1>11, <3>1, <3>2, <3>3, SwappedShows
  <2> QED BY <2>9, <2>10
<1>14. ASSUME f[i].type = "step", f[i].results # <<>>, f[i + 1].type = "step" \/ EndOf.stop = "accepted"
       PROVE  CheckTrace(place, LostResult(i), disk) # {}
  <2>1. PICK t : t = [f[i] EXCEPT !.results = Tail(f[i].results)] OBVIOUS
  <2>2. PICK g : g = [f EXCEPT ![i] = t] OBVIOUS
  <2>3. LostResult(i) = g BY <1>4, <2>1, <2>2 DEF LostResult
  <2>4. Strung(g, l) /\ g[i] = t /\ \A j \in 1..l : j # i => g[j] = f[j] BY <1>7, <2>2, Replaced
  <2>5. Shaped(f[i])
    <3>1. Types(f, n, p, l) BY <1>3, <1>4, <1>5, FramedTypes
    <3>2. i \in 2..(1 + n) /\ n \in Nat BY <1>7, <1>14, <3>1 DEF Types
    <3>3. PICK k \in 1..n : k = i - 1 /\ 1 + k = i
      <4>1. i - 1 \in 1..n /\ 1 + (i - 1) = i BY <3>2
      <4> QED BY <4>1
    <3>4. StepsOf(f, n)[k] = f[i] BY <3>3 DEF StepsOf
    <3>5. StepOK(StepsOf(f, n)[k], k, CumOf(StepsOf(f, n), k - 1), cell.brain) BY <1>3, <1>4, <3>3 DEF StepsOK
    <3> QED BY <3>4, <3>5 DEF StepOK
  <2>6. PICK s : s = f[i] OBVIOUS
  <2>7. t.type = "step" /\ t.calls = s.calls /\ t.results = Tail(s.results)
    <3>1. t = [s EXCEPT !.results = Tail(s.results)] /\ Shaped(s) BY <2>1, <2>5, <2>6
    <3> QED BY <3>1, ResultLost
  <2>8. g[i].type = "step" /\ g[i].calls = f[i].calls /\ g[i].results = Tail(f[i].results) BY <2>4, <2>6, <2>7
  <2>9. f[i + 1].type = "step" \/ f[Len(f)].stop = "accepted" BY <1>5, <1>9, <1>14
  <2>10. Strung(g, Len(f)) /\ \A j \in 1..Len(f) : j # i => g[j] = f[j] BY <1>5, <2>4
  <2>11. i \in DOMAIN f BY <1>4
  <2>12. CheckTrace(place, g, disk) # {} BY <1>11, <1>14, <2>8, <2>9, <2>10, <2>11, ResultShows
  <2> QED BY <2>3, <2>12
<1> QED
  <2>1. i < Len(file) => i < l BY <1>4, <1>5
  <2> QED BY <1>4, <1>6, <1>12, <1>13, <1>14, <2>1

\* "A truncated run must be recognisable as truncated": of a trace check_trace passes,
\* whatever the run and whoever closed it, no line can be lost, doubled or swapped with
\* the next, and no result of an earlier step lost, without a violation.  The one line
\* nothing counts is a checkpoint of a run neither accepted nor rejected at the gate.
THEOREM DamageShowsAlways == Spec => []DamageShows
<1>1. TraceInv => DamageShows BY DamageBy
<1> QED BY <1>1, TraceInvariant, PTL
=============================================================================
