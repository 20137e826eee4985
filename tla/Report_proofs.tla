----------------------------- MODULE Report_proofs -----------------------------
(***************************************************************************)
(* Proofs about the tree the sweeps leave and what is read off it.  What   *)
(* makes EndIsTrue, Rescores and OneEngine hold is one invariant: how far  *)
(* the parent has come with its batch says which children may still write, *)
(* which rows are known and which scores are of this sweep; and a trace    *)
(* that has an end has it on its last line.                                *)
(***************************************************************************)
EXTENDS Report, SequenceTheorems, FiniteSetTheorems, WellFoundedInduction, TLAPS

LineSet == [is : {"start", "step", "end", "torn", "junk"}, why : {"none"} \cup Outcomes, steps : Nat]

\* The last line is an end that counts the step lines.
EndsWell(lines) == lines # <<>> /\ lines[Len(lines)].is = "end" /\ lines[Len(lines)].steps = Steps(lines)

Begun(lines) == lines \in Seq(LineSet) /\ lines # <<>> /\ lines[1].is = "start"
Sound(lines) == Ends(lines) # {} => EndsWell(lines)

\* A trace begins with its run_start, and if it has an end it ends well.
Shape(t) ==
  /\ t \in [sweep : Nat, lines : Seq(LineSet)]
  /\ t.sweep = 0 => t.lines = <<>>
  /\ t.sweep # 0 => Begun(t.lines)
  /\ Sound(t.lines)

TypeOK ==
  /\ sweep \in 0..Sweeps
  /\ pc \in {"idle", "between", "running", "closing", "scoring", "filing"}
  /\ first \in Nat /\ last \in 0..Cells /\ at \in Nat
  /\ child \in [Plan -> {"none", "up", "tracing", "rendered", "ended", "gone"}]
  /\ killed \in [Plan -> BOOLEAN]
  /\ row \in [Plan -> {"none"} \cup Outcomes]
  /\ record \in [Plan -> 0..Sweeps]
  /\ scored \in [Plan -> [sweep : 0..Sweeps, record : 0..Sweeps, why : {"none"} \cup Outcomes]]

\* The cells of the batch that have no row yet, and those that have no score yet.
Unclosed == {c \in Batch : \/ pc = "running"
                           \/ pc = "closing" /\ c >= at
                           \/ pc \in {"scoring", "filing"} /\ c > at}
Unmeasured == {c \in Batch : \/ pc = "running"
                             \/ pc \in {"closing", "scoring"} /\ c >= at
                             \/ pc = "filing" /\ c > at}

\* How far the parent has come.
PlaceOK ==
  /\ pc = "idle" => first = 0 /\ last = 0 /\ \A c \in Plan : child[c] = "none" /\ row[c] = "none"
  /\ pc \in {"running", "closing", "scoring", "filing"} => 1 <= first /\ first <= last
  /\ pc \in {"closing", "scoring", "filing"} => at \in Batch
  /\ pc # "idle" => sweep # 0
  /\ \A c \in Plan : Alive(c) => pc = "running" /\ c \in Batch

TraceOK ==
  /\ trace \in [Plan -> [sweep : 0..sweep, lines : Seq(LineSet)]]
  /\ \A c \in Plan : /\ Shape(trace[c])
                     /\ Writing(c) => trace[c].sweep # 0 /\ Ends(trace[c].lines) = {}

\* A row is that of a cell that is closed out, and of its trace.
RowOK ==
  \A c \in Plan : row[c] # "none" =>
    c <= last /\ c \notin Unclosed /\ row[c] = TraceEnd(trace[c].lines)

\* A score is of what the slot and the trace hold; of a cell the sweep is still at there is none.
ScoreOK ==
  /\ pc = "scoring" => row[at] = TraceEnd(trace[at].lines)
  /\ pc \in {"running", "closing", "scoring", "filing"} => \A c \in Batch : record[c] \in {0, sweep}
  /\ \A c \in Plan : scored[c].sweep # 0 =>
       /\ c \notin Unmeasured
       /\ scored[c].record = record[c] /\ scored[c].why = TraceEnd(trace[c].lines)
       /\ record[c] \in {0, scored[c].sweep}

SweepInv == TypeOK /\ PlaceOK /\ TraceOK /\ RowOK /\ ScoreOK
-----------------------------------------------------------------------------
(* Files of lines.                                                           *)

\* A set of numbers has a least one.
LEMMA LeastOf ==
  ASSUME NEW T, T \subseteq Nat, T # {}
  PROVE  \E x \in T : \A y \in T : x <= y
<1> DEFINE R == {ss \in Nat \X Nat : ss[1] < ss[2]}
<1>1. IsWellFoundedOn(R, Nat)
  BY NatLessThanWellFounded, Zenon DEF OpToRel
<1>2. \A x, y \in Nat : <<y, x>> \in R <=> y < x
  OBVIOUS
<1> HIDE DEF R
<1>3. PICK x \in T : \A y \in T : ~(<<y, x>> \in R)
  BY <1>1, WFMin
<1>4. \A y \in T : ~(y < x)
  BY <1>2, <1>3
<1>5. QED
  BY <1>4

\* There are so many step lines.
LEMMA StepsCount ==
  ASSUME NEW lines \in Seq(LineSet)
  PROVE  Steps(lines) \in Nat
<1>1. IsFiniteSet(1..Len(lines)) /\ Kind(lines, "step") \subseteq 1..Len(lines)
  BY FS_Interval DEF Kind
<1>2. QED
  BY <1>1, FS_Subset, FS_CardinalityType DEF Steps

\* What one more line changes.
LEMMA OneMoreLine ==
  ASSUME NEW lines \in Seq(LineSet), NEW line \in LineSet
  PROVE  /\ Append(lines, line) \in Seq(LineSet) /\ Append(lines, line) # <<>>
         /\ Append(lines, line)[Len(Append(lines, line))] = line
         /\ lines # <<>> => Append(lines, line)[1] = lines[1]
         /\ line.is # "step" => Steps(Append(lines, line)) = Steps(lines)
         /\ line.is # "end" => Ends(Append(lines, line)) = Ends(lines)
<1> DEFINE new == Append(lines, line)
<1>1. /\ new \in Seq(LineSet) /\ new # <<>> /\ Len(new) = Len(lines) + 1 /\ new[Len(new)] = line
      /\ \A i \in 1..Len(lines) : new[i] = lines[i]
  OBVIOUS
<1>2. DOMAIN new = 1..(Len(lines) + 1) /\ DOMAIN lines = 1..Len(lines) /\ Len(lines) \in Nat
  BY <1>1
<1>3. lines # <<>> => 1 \in 1..Len(lines)
  OBVIOUS
<1> HIDE DEF new
<1>4. \A is : line.is # is => Kind(new, is) = Kind(lines, is)
  BY <1>1, <1>2 DEF Kind
<1>5. QED
  BY <1>1, <1>3, <1>4 DEF Steps, Ends, new

\* A line that may be added to a trace: any to one without an end, or an end that counts.
LEMMA AddedIs ==
  ASSUME NEW lines, Begun(lines), NEW line \in LineSet,
         line.is = "end" => line.steps = Steps(lines),
         line.is # "end" => Ends(lines) = {}
  PROVE  /\ Begun(Append(lines, line)) /\ Sound(Append(lines, line))
         /\ line.is # "end" => Ends(Append(lines, line)) = {}
<1>1. lines \in Seq(LineSet) /\ lines # <<>> /\ lines[1].is = "start"
  BY DEF Begun
<1> DEFINE longer == Append(lines, line)
<1>2. /\ longer \in Seq(LineSet) /\ longer # <<>> /\ longer[Len(longer)] = line
      /\ longer[1] = lines[1]
      /\ line.is # "step" => Steps(longer) = Steps(lines)
      /\ line.is # "end" => Ends(longer) = Ends(lines)
  BY <1>1, OneMoreLine
<1> HIDE DEF longer
<1>3. Begun(longer) /\ (line.is # "end" => Ends(longer) = {})
  BY <1>1, <1>2 DEF Begun
<1>4. Sound(longer)
  <2>1. CASE line.is = "end"
    BY <1>2, <2>1 DEF Sound, EndsWell
  <2>2. CASE line.is # "end"
    BY <1>3, <2>2 DEF Sound
  <2>3. QED
    BY <2>1, <2>2
<1>5. QED
  BY <1>3, <1>4 DEF longer

\* What append_run_end leaves, also of a line that nobody can parse.
LEMMA OweIs ==
  ASSUME NEW lines, Begun(lines), NEW why \in Outcomes, Torn(lines) => Ends(lines) = {}
  PROVE  Begun(Owe(lines, why)) /\ Sound(Owe(lines, why))
<1> DEFINE line == RunEnd(why, Steps(lines))
<1>1. lines \in Seq(LineSet) /\ lines # <<>> /\ lines[1].is = "start"
  BY DEF Begun
<1>2. line \in LineSet /\ line.is = "end" /\ line.steps = Steps(lines)
  BY <1>1, StepsCount DEF RunEnd, LineSet
<1> HIDE DEF line
<1>3. CASE ~Torn(lines)
  <2>1. Owe(lines, why) = Append(lines, line)
    BY <1>3 DEF Owe, Write, line
  <2>2. QED
    BY <1>2, <2>1, AddedIs
<1>4. CASE Torn(lines)
  <2> DEFINE n == Len(lines)
             new == [lines EXCEPT ![n] = Line("junk")]
  <2>1. Owe(lines, why) = new
    BY <1>4 DEF Owe, Write
  <2>2. n \in Nat /\ n # 0 /\ n # 1 /\ DOMAIN lines = 1..n /\ lines[n].is = "torn"
    BY <1>1, <1>4 DEF Torn
  <2>3. Line("junk") \in LineSet /\ Line("junk").is = "junk"
    BY DEF Line, LineSet
  <2> HIDE DEF n
  <2>4. new \in Seq(LineSet) /\ new # <<>> /\ new[1] = lines[1] /\ DOMAIN new = 1..n
    BY <1>1, <2>2, <2>3
  <2>5. \A i \in 1..n : new[i].is = "end" => lines[i].is = "end"
    BY <2>2, <2>3
  <2> HIDE DEF new
  <2>6. Ends(new) \subseteq Ends(lines)
    BY <2>2, <2>4, <2>5 DEF Ends, Kind
  <2>7. Ends(new) = {}
    BY <1>4, <2>6
  <2>8. QED
    BY <1>1, <2>1, <2>4, <2>7 DEF Begun, Sound
<1>5. QED
  BY <1>3, <1>4

\* What repair leaves reads to its end.
LEMMA RepairIs ==
  ASSUME NEW lines, Begun(lines)
  PROVE  Begun(Repair(lines)) /\ ~Torn(Repair(lines))
<1> DEFINE N == Len(lines)
           Cut(n) == /\ \A i \in 1..n : Parses(lines[i])
                     /\ n < N => ~Parses(lines[n + 1])
           bad == {i \in 1..N : ~Parses(lines[i])}
<1>1. lines \in Seq(LineSet) /\ lines # <<>> /\ lines[1].is = "start"
  BY DEF Begun
<1>2. N \in Nat /\ N # 0 /\ DOMAIN lines = 1..N
  BY <1>1
<1>3. Parses(lines[1])
  BY <1>1 DEF Parses
<1>4. Repair(lines) = SubSeq(lines, 1, CHOOSE n \in 0..N : Cut(n))
  BY DEF Repair
<1> HIDE DEF N
<1>5. \E n \in 0..N : Cut(n)
  <2>1. CASE bad = {}
    BY <1>2, <2>1
  <2>2. CASE bad # {}
    <3>0. bad \subseteq Nat
      BY <1>2
    <3>1. PICK x \in bad : \A y \in bad : x <= y
      BY <2>2, <3>0, LeastOf
    <3>2. x - 1 \in 0..N /\ (x - 1) + 1 = x
      BY <1>2, <3>1
    <3>3. ASSUME NEW i \in 1..(x - 1) PROVE Parses(lines[i])
      BY <1>2, <3>1
    <3>4. Cut(x - 1)
      BY <3>1, <3>2, <3>3
    <3>5. QED
      BY <3>2, <3>4
  <2>3. QED
    BY <2>1, <2>2
<1> DEFINE n == CHOOSE n \in 0..N : Cut(n)
<1>6. n \in 0..N /\ Cut(n)
  BY <1>5
<1>7. Repair(lines) = SubSeq(lines, 1, n)
  BY <1>4
<1> HIDE DEF n
<1>8. n # 0
  <2>1. SUFFICES ASSUME n = 0 PROVE FALSE
    OBVIOUS
  <2>2. ~Parses(lines[n + 1]) /\ n + 1 = 1
    BY <1>2, <1>6, <2>1
  <2>3. QED
    BY <1>3, <2>2
<1> DEFINE cut == Repair(lines)
<1>9. /\ cut \in Seq(LineSet) /\ Len(cut) = n /\ \A i \in 1..n : cut[i] = lines[i]
  BY <1>1, <1>2, <1>6, <1>7, <1>8 DEF N
<1>10. cut # <<>> /\ cut[1] = lines[1] /\ n \in 1..n
  BY <1>2, <1>6, <1>8, <1>9
<1>11. Parses(cut[n])
  BY <1>6, <1>9, <1>10
<1> HIDE DEF cut
<1>12. ~Torn(cut)
  BY <1>9, <1>11 DEF Torn, Parses
<1>13. QED
  BY <1>1, <1>9, <1>10, <1>12 DEF Begun, cut

\* Where a trace ends well, the last end and the last line that reads are its last line.
LEMMA EndIsLast ==
  ASSUME NEW t, Shape(t), Ends(t.lines) # {}
  PROVE  /\ TraceEnd(t.lines) = t.lines[Len(t.lines)].why
         /\ Latest(Readable(t.lines)) = Len(t.lines) /\ EndsWell(t.lines)
<1> DEFINE n == Len(t.lines)
<1>1. t.lines \in Seq(LineSet) /\ EndsWell(t.lines)
  BY DEF Shape, Sound
<1>2. n \in 1..n /\ n \in Nat /\ DOMAIN t.lines = 1..n
  BY <1>1 DEF EndsWell
<1>3. n \in Ends(t.lines) /\ n \in Readable(t.lines)
  BY <1>1, <1>2 DEF EndsWell, Ends, Kind, Readable, Parses
<1>4. ASSUME NEW S, S \subseteq 1..n, n \in S
      PROVE  Latest(S) = n
  <2>1. \A j \in S : j <= n
    BY <1>2, <1>4
  <2> HIDE DEF n
  <2>2. Latest(S) \in S /\ \A j \in S : j <= Latest(S)
    BY <1>4, <2>1 DEF Latest
  <2>3. Latest(S) \in 1..n /\ n <= Latest(S) /\ Latest(S) <= n
    BY <1>4, <2>1, <2>2
  <2> HIDE DEF Latest
  <2>4. QED
    BY <1>2, <2>3
<1>5. Ends(t.lines) \subseteq 1..n /\ Readable(t.lines) \subseteq 1..n
  BY <1>2 DEF Ends, Kind, Readable
<1>6. QED
  BY <1>1, <1>3, <1>4, <1>5 DEF TraceEnd
\* What the parent makes of the trace it closes.
ClosedOut(t, timedOut) ==
  LET found == t.lines
      cut == IF timedOut /\ t.sweep # 0 THEN Owe(Repair(found), "timeout") ELSE found
  IN  IF Ends(cut) = {} /\ Readable(cut) # {} THEN Owe(cut, "api_error") ELSE cut

\* What the parent leaves of a trace when it closes a cell out: sound, and with its end last.
LEMMA ClosedIs ==
  ASSUME NEW t, Shape(t), NEW timedOut \in BOOLEAN
  PROVE  Shape([t EXCEPT !.lines = ClosedOut(t, timedOut)])
<1> DEFINE cut == IF timedOut /\ t.sweep # 0 THEN Owe(Repair(t.lines), "timeout") ELSE t.lines
           closed == IF Ends(cut) = {} /\ Readable(cut) # {} THEN Owe(cut, "api_error") ELSE cut
<1>1. t = [sweep |-> t.sweep, lines |-> t.lines] /\ t.sweep \in Nat
  BY DEF Shape
<1>2. closed = ClosedOut(t, timedOut)
  BY DEF ClosedOut
<1>3. CASE t.sweep = 0
  <2>1. cut = <<>>
    BY <1>3 DEF Shape
  <2>2. Readable(cut) = {}
    BY <2>1 DEF Readable
  <2>3. closed = t.lines
    BY <1>3, <2>1, <2>2
  <2> HIDE DEF closed
  <2>4. [t EXCEPT !.lines = ClosedOut(t, timedOut)] = t
    BY <1>1, <1>2, <2>3
  <2>5. QED
    BY <2>4
<1>4. CASE t.sweep # 0
  <2>1. Begun(t.lines) /\ Sound(t.lines)
    BY <1>4 DEF Shape
  <2>2. Begun(cut) /\ Sound(cut)
    <3>1. CASE timedOut
      <4>1. cut = Owe(Repair(t.lines), "timeout")
        BY <1>4, <3>1
      <4>2. Begun(Repair(t.lines)) /\ ~Torn(Repair(t.lines)) /\ "timeout" \in Outcomes
        BY <2>1, RepairIs DEF Outcomes
      <4>3. QED
        BY <4>1, <4>2, OweIs
    <3>2. CASE ~timedOut
      BY <2>1, <3>2
    <3>3. QED
      BY <3>1, <3>2
  <2> HIDE DEF cut
  <2>3. Begun(closed) /\ Sound(closed)
    <3>1. CASE Ends(cut) = {} /\ Readable(cut) # {}
      <4>1. closed = Owe(cut, "api_error") /\ "api_error" \in Outcomes
        BY <3>1 DEF Outcomes
      <4>2. QED
        BY <2>2, <3>1, <4>1, OweIs
    <3>2. CASE ~(Ends(cut) = {} /\ Readable(cut) # {})
      BY <2>2, <3>2
    <3>3. QED
      BY <3>1, <3>2
  <2>4. closed \in Seq(LineSet)
    BY <2>3 DEF Begun
  <2> HIDE DEF closed
  <2>5. [t EXCEPT !.lines = ClosedOut(t, timedOut)] = [sweep |-> t.sweep, lines |-> closed]
    BY <1>1, <1>2
  <2>6. QED
    BY <1>1, <1>4, <2>3, <2>4, <2>5 DEF Shape
<1>5. QED
  BY <1>3, <1>4

\* An outcome, whatever the last line says.
LEMMA EndIsOutcome ==
  ASSUME NEW t, Shape(t)
  PROVE  TraceEnd(t.lines) \in {"none"} \cup Outcomes
<1>1. CASE Ends(t.lines) = {}
  BY <1>1 DEF TraceEnd, Outcomes
<1>2. CASE Ends(t.lines) # {}
  <2>1. TraceEnd(t.lines) = t.lines[Len(t.lines)].why /\ EndsWell(t.lines) /\ t.lines \in Seq(LineSet)
    BY <1>2, EndIsLast DEF Shape
  <2>2. Len(t.lines) \in DOMAIN t.lines
    BY <2>1 DEF EndsWell
  <2>3. t.lines[Len(t.lines)] \in LineSet
    BY <2>1, <2>2
  <2>4. QED
    BY <2>1, <2>3 DEF LineSet
<1>3. QED
  BY <1>1, <1>2
-----------------------------------------------------------------------------
(* Every step keeps the invariant.                                           *)

\* Before the first sweep there is no tree, and the invariant holds.
LEMMA StartHolds == Init => SweepInv
<1> SUFFICES ASSUME Init PROVE SweepInv
  OBVIOUS
<1> USE SweepAssumption DEF Init
<1>1. TypeOK
  BY DEF TypeOK, Plan, Unscored
<1>2. PlaceOK
  BY DEF PlaceOK, Alive
<1>3. TraceOK
  <2>1. Ghost \in [sweep : 0..sweep, lines : Seq(LineSet)]
    BY DEF Ghost
  <2>2. Ends(Ghost.lines) = {} /\ Ghost.sweep = 0 /\ Ghost.lines = <<>>
    BY DEF Ghost, Ends, Kind
  <2>3. Shape(Ghost)
    BY <2>1, <2>2 DEF Shape, Sound
  <2>4. QED
    BY <2>1, <2>3 DEF TraceOK, Writing
<1>4. RowOK /\ ScoreOK
  BY DEF RowOK, ScoreOK, Unscored
<1>5. QED
  BY <1>1, <1>2, <1>3, <1>4 DEF SweepInv

\* What only the child of one running cell does leaves the parent's side alone.
LEMMA ChildKeeps ==
  ASSUME SweepInv, NEW c \in Plan, Alive(c), UNCHANGED parent,
         killed' \in [Plan -> BOOLEAN],
         record' \in [Plan -> 0..Sweeps], record'[c] \in {record[c], sweep},
         \A d \in Plan : d # c => record'[d] = record[d] /\ child'[d] = child[d] /\ trace'[d] = trace[d],
         child' \in [Plan -> {"none", "up", "tracing", "rendered", "ended", "gone"}],
         trace' \in [Plan -> [sweep : 0..sweep, lines : Seq(LineSet)]],
         Shape(trace'[c]),
         child'[c] \in {"tracing", "rendered"} => trace'[c].sweep # 0 /\ Ends(trace'[c].lines) = {}
  PROVE  SweepInv'
<1>1. UNCHANGED <<sweep, pc, first, last, at, row, scored>>
  BY DEF parent
<1>2. pc = "running" /\ c \in Batch /\ Batch' = Batch
  BY <1>1 DEF SweepInv, PlaceOK, Batch
<1>3. TypeOK'
  BY <1>1 DEF SweepInv, TypeOK
<1>4. PlaceOK'
  BY <1>1, <1>2 DEF SweepInv, PlaceOK, Alive
<1>5. TraceOK'
  BY <1>1 DEF SweepInv, TraceOK, Writing
<1>6. Unclosed = Batch /\ Unmeasured = Batch /\ Unclosed' = Batch /\ Unmeasured' = Batch
  BY <1>1, <1>2 DEF Unclosed, Unmeasured
<1>7. row[c] = "none" /\ scored[c].sweep = 0
  BY <1>2, <1>6 DEF SweepInv, RowOK, ScoreOK
<1>8. RowOK'
  BY <1>1, <1>6, <1>7 DEF SweepInv, RowOK
<1>9. ScoreOK'
  <2>1. \A d \in Batch : record'[d] \in {0, sweep}
    <3>1. Batch \subseteq Plan /\ \A d \in Batch : record[d] \in {0, sweep}
      <4>1. first \in Nat /\ 1 <= first /\ last \in 0..Cells /\ Cells \in Nat
        BY <1>2, SweepAssumption DEF SweepInv, PlaceOK, TypeOK
      <4>2. Batch \subseteq Plan
        BY <4>1 DEF Batch, Plan
      <4>3. \A d \in Batch : record[d] \in {0, sweep}
        BY <1>2 DEF SweepInv, ScoreOK
      <4>4. QED
        BY <4>2, <4>3
    <3>2. QED
      BY <3>1
  <2>2. ASSUME NEW d \in Plan, scored'[d].sweep # 0
        PROVE  /\ d \notin Unmeasured'
               /\ scored'[d].record = record'[d] /\ scored'[d].why = TraceEnd(trace'[d].lines)
               /\ record'[d] \in {0, scored'[d].sweep}
    <3>1. d # c
      BY <1>1, <1>7, <2>2
    <3>2. QED
      BY <1>1, <1>6, <2>2, <3>1 DEF SweepInv, ScoreOK
  <2>3. pc' = "running" /\ Batch' = Batch /\ sweep' = sweep
    BY <1>1, <1>2
  <2>4. QED
    BY <2>1, <2>2, <2>3 DEF ScoreOK
<1>10. QED
  BY <1>3, <1>4, <1>5, <1>8, <1>9 DEF SweepInv
\* Another line in one trace.
LEMMA AddsIs ==
  ASSUME trace \in [Plan -> [sweep : 0..sweep, lines : Seq(LineSet)]], NEW c \in Plan, NEW line, Adds(c, line)
  PROVE  trace' = [trace EXCEPT ![c] = [sweep |-> trace[c].sweep, lines |-> Append(trace[c].lines, line)]]
<1> DEFINE t == trace[c]
           lines == Append(t.lines, line)
<1>1. t \in [sweep : 0..sweep, lines : Seq(LineSet)]
  OBVIOUS
<1>2. trace' = [trace EXCEPT ![c] = [t EXCEPT !.lines = lines]]
  BY DEF Adds
<1> HIDE DEF lines, t
<1>3. [t EXCEPT !.lines = lines] = [sweep |-> t.sweep, lines |-> lines]
  BY <1>1
<1>4. QED
  BY <1>2, <1>3 DEF lines, t

\* A child's own steps.
LEMMA ChildStep ==
  ASSUME SweepInv, NEW c \in Plan, ChildOpens(c) \/ ChildSteps(c) \/ ChildRenders(c) \/ ChildEnds(c)
  PROVE  SweepInv'
<1> DEFINE t == trace[c]
<1>1. /\ child \in [Plan -> {"none", "up", "tracing", "rendered", "ended", "gone"}]
      /\ record \in [Plan -> 0..Sweeps] /\ killed \in [Plan -> BOOLEAN]
      /\ trace \in [Plan -> [sweep : 0..sweep, lines : Seq(LineSet)]]
      /\ Shape(t) /\ (Writing(c) => t.sweep # 0 /\ Ends(t.lines) = {})
      /\ sweep \in 0..Sweeps /\ Sweeps \in Nat
  BY SweepAssumption DEF SweepInv, TypeOK, TraceOK
<1>2. Alive(c) => sweep # 0
  BY DEF SweepInv, PlaceOK
<1>3. CASE ChildOpens(c)
  <2> DEFINE new == [sweep |-> sweep, lines |-> <<Line("start")>>]
  <2>1. /\ child[c] = "up" /\ child' = [child EXCEPT ![c] = "tracing"] /\ Alive(c)
        /\ trace' = [trace EXCEPT ![c] = new] /\ UNCHANGED <<parent, killed, record>>
    BY <1>3 DEF ChildOpens, Moves, Alive
  <2>2. Line("start") \in LineSet /\ Line("start").is = "start"
    BY DEF Line, LineSet
  <2>3. <<Line("start")>> \in Seq(LineSet) /\ <<Line("start")>> # <<>> /\ <<Line("start")>>[1] = Line("start")
    BY <2>2
  <2>4. Ends(<<Line("start")>>) = {}
    BY <2>2 DEF Ends, Kind
  <2>5. Shape(new) /\ new \in [sweep : 0..sweep, lines : Seq(LineSet)]
    <3> DEFINE lines == <<Line("start")>>
    <3>1. lines \in Seq(LineSet) /\ Begun(lines) /\ Sound(lines)
      BY <2>2, <2>3, <2>4 DEF Begun, Sound
    <3> HIDE DEF lines
    <3>2. sweep \in Nat /\ sweep # 0 /\ sweep \in 0..sweep
      BY <1>1, <1>2, <2>1
    <3>3. QED
      BY <3>1, <3>2 DEF Shape, lines
  <2>6. trace'[c] = new /\ trace' \in [Plan -> [sweep : 0..sweep, lines : Seq(LineSet)]]
    BY <1>1, <2>1, <2>5
  <2> HIDE DEF new
  <2>7. trace'[c].sweep # 0 /\ Ends(trace'[c].lines) = {}
    BY <1>2, <2>1, <2>4, <2>6 DEF new
  <2>8. QED
    BY <1>1, <2>1, <2>5, <2>6, <2>7, ChildKeeps
<1>4. CASE ChildRenders(c)
  <2>1. /\ child[c] = "tracing" /\ child' = [child EXCEPT ![c] = "rendered"] /\ Alive(c) /\ Writing(c)
        /\ record' = [record EXCEPT ![c] = sweep] /\ UNCHANGED <<parent, killed, trace>>
    BY <1>4 DEF ChildRenders, Moves, Alive, Writing
  <2>2. QED
    BY <1>1, <2>1, ChildKeeps
<1>5. ASSUME Writing(c), UNCHANGED <<parent, killed, record>>, NEW line \in LineSet, Adds(c, line),
             line.is = "end" => line.steps = Steps(t.lines),
             NEW to \in {"tracing", "rendered", "ended"}, child' = [child EXCEPT ![c] = to],
             to # "ended" => line.is # "end"
      PROVE  SweepInv'
  <2> DEFINE lines == t.lines
             new == [sweep |-> t.sweep, lines |-> Append(lines, line)]
  <2>1. Begun(lines) /\ Ends(lines) = {} /\ t = [sweep |-> t.sweep, lines |-> lines] /\ t.sweep \in 0..sweep /\ t.sweep # 0
    BY <1>1, <1>5 DEF Shape
  <2>2. trace' = [trace EXCEPT ![c] = new]
    BY <1>1, <1>5, AddsIs
  <2> HIDE DEF lines
  <2>3. Begun(Append(lines, line)) /\ Sound(Append(lines, line)) /\ (line.is # "end" => Ends(Append(lines, line)) = {})
    BY <1>5, <2>1, AddedIs DEF lines
  <2>4. Append(lines, line) \in Seq(LineSet)
    BY <2>3 DEF Begun
  <2>5. Shape(new) /\ new \in [sweep : 0..sweep, lines : Seq(LineSet)]
    BY <1>1, <2>1, <2>3, <2>4 DEF Shape
  <2>6. trace'[c] = new /\ trace' \in [Plan -> [sweep : 0..sweep, lines : Seq(LineSet)]]
    BY <1>1, <2>2, <2>5
  <2>7. trace'[c].sweep # 0 /\ (line.is # "end" => Ends(trace'[c].lines) = {})
    BY <2>1, <2>3, <2>6
  <2>8. \A d \in Plan : d # c => trace'[d] = trace[d]
    BY <1>1, <2>2
  <2>9. Alive(c) /\ child'[c] = to /\ (\A d \in Plan : d # c => child'[d] = child[d])
        /\ child' \in [Plan -> {"none", "up", "tracing", "rendered", "ended", "gone"}]
    BY <1>1, <1>5 DEF Writing, Alive
  <2> HIDE DEF new, t
  <2>10. QED
    BY <1>1, <1>5, <2>5, <2>6, <2>7, <2>8, <2>9, ChildKeeps
<1>6. CASE ChildSteps(c)
  <2>1. Writing(c) /\ child' = [child EXCEPT ![c] = "tracing"] /\ Adds(c, Line("step")) /\ UNCHANGED <<parent, killed, record>>
    BY <1>1, <1>6 DEF ChildSteps, Writing
  <2>2. Line("step") \in LineSet /\ Line("step").is # "end"
    BY DEF Line, LineSet
  <2>3. QED
    BY <1>5, <2>1, <2>2
<1>7. CASE ChildEnds(c)
  <2>1. PICK why \in {"accepted", "failed"} :
          /\ Moves(c, IF why = "accepted" THEN "rendered" ELSE child[c], "ended")
          /\ child[c] \in {"tracing", "rendered"}
          /\ Adds(c, RunEnd(why, Steps(trace[c].lines)))
    BY <1>7 DEF ChildEnds
  <2>2. Writing(c) /\ child' = [child EXCEPT ![c] = "ended"] /\ UNCHANGED <<parent, killed, record>>
    BY <1>7, <2>1 DEF ChildEnds, Writing, Moves
  <2>3. RunEnd(why, Steps(t.lines)) \in LineSet /\ RunEnd(why, Steps(t.lines)).steps = Steps(t.lines)
    BY <1>1, StepsCount DEF RunEnd, LineSet, Outcomes, Shape
  <2>4. QED
    BY <1>5, <2>1, <2>2, <2>3
<1>8. QED
  BY <1>3, <1>4, <1>6, <1>7

\* A child that goes, of its own accord or at its limit.
LEMMA ChildGoes ==
  ASSUME SweepInv, NEW c \in Plan, ChildExits(c) \/ TimesOut(c)
  PROVE  SweepInv'
<1> DEFINE t == trace[c]
           lines == t.lines
           new == [sweep |-> t.sweep, lines |-> Append(lines, Line("torn"))]
<1>1. /\ child \in [Plan -> {"none", "up", "tracing", "rendered", "ended", "gone"}]
      /\ record \in [Plan -> 0..Sweeps] /\ killed \in [Plan -> BOOLEAN]
      /\ trace \in [Plan -> [sweep : 0..sweep, lines : Seq(LineSet)]]
      /\ Shape(t) /\ (Writing(c) => t.sweep # 0 /\ Ends(t.lines) = {})
      /\ sweep \in 0..Sweeps /\ Sweeps \in Nat
  BY SweepAssumption DEF SweepInv, TypeOK, TraceOK
<1>2. /\ Alive(c) /\ child' = [child EXCEPT ![c] = "gone"] /\ UNCHANGED <<parent, record>>
      /\ (trace' = trace \/ (Writing(c) /\ Adds(c, Line("torn"))))
      /\ killed' \in [Plan -> BOOLEAN]
  BY <1>1 DEF ChildExits, TimesOut, Goes
<1>3. /\ trace' \in [Plan -> [sweep : 0..sweep, lines : Seq(LineSet)]] /\ Shape(trace'[c])
      /\ \A d \in Plan : d # c => trace'[d] = trace[d]
  <2>1. CASE trace' = trace
    BY <1>1, <2>1
  <2>2. CASE Writing(c) /\ Adds(c, Line("torn"))
    <3>1. Begun(lines) /\ Ends(lines) = {} /\ t = [sweep |-> t.sweep, lines |-> lines] /\ t.sweep \in 0..sweep /\ t.sweep # 0
      BY <1>1, <2>2 DEF Shape
    <3>2. trace' = [trace EXCEPT ![c] = new]
      BY <1>1, <2>2, AddsIs
    <3>3. Line("torn") \in LineSet /\ Line("torn").is # "end"
      BY DEF Line, LineSet
    <3> HIDE DEF lines
    <3>4. Begun(Append(lines, Line("torn"))) /\ Sound(Append(lines, Line("torn")))
      BY <3>1, <3>3, AddedIs
    <3>5. Append(lines, Line("torn")) \in Seq(LineSet)
      BY <3>4 DEF Begun
    <3>6. Shape(new) /\ new \in [sweep : 0..sweep, lines : Seq(LineSet)]
      BY <1>1, <3>1, <3>4, <3>5 DEF Shape
    <3> HIDE DEF new
    <3>7. QED
      BY <1>1, <3>2, <3>6
  <2>3. QED
    BY <1>2, <2>1, <2>2
<1>4. child'[c] = "gone" /\ (\A d \in Plan : d # c => child'[d] = child[d])
      /\ child' \in [Plan -> {"none", "up", "tracing", "rendered", "ended", "gone"}]
  BY <1>1, <1>2
<1>5. QED
  BY <1>1, <1>2, <1>3, <1>4, ChildKeeps
\* What the parent does to a trace or a row is all that a step which leaves the children's
\* files alone changes.
LEMMA TracesStay ==
  ASSUME SweepInv, trace' = trace, sweep' \in Nat, sweep <= sweep',
         \A c \in Plan : child'[c] \in {"tracing", "rendered"} => child'[c] = child[c]
  PROVE  TraceOK'
<1>1. 0..sweep \subseteq 0..sweep'
  BY DEF SweepInv, TypeOK
<1>2. \A c \in Plan : trace[c] \in [sweep : 0..sweep', lines : Seq(LineSet)]
  BY <1>1 DEF SweepInv, TraceOK
<1>3. trace \in [Plan -> [sweep : 0..sweep', lines : Seq(LineSet)]]
  BY <1>2 DEF SweepInv, TraceOK
<1>4. \A c \in Plan : /\ Shape(trace[c])
                      /\ child'[c] \in {"tracing", "rendered"} => trace[c].sweep # 0 /\ Ends(trace[c].lines) = {}
  BY DEF SweepInv, TraceOK, Writing
<1>5. QED
  BY <1>3, <1>4 DEF TraceOK, Writing

\* A sweep starts over a tree of earlier ones; it knows nothing of their rows.
LEMMA SweepStartsKeeps == ASSUME SweepInv, SweepStarts PROVE SweepInv'
<1>1. /\ pc = "idle" /\ pc' = "between" /\ sweep' = sweep + 1 /\ sweep' \in 0..Sweeps /\ sweep \in Nat
      /\ UNCHANGED <<first, last, at, child, killed, row, trace, record, scored>>
  BY SweepAssumption DEF SweepStarts, files, SweepInv, TypeOK
<1>2. TypeOK'
  BY <1>1 DEF SweepInv, TypeOK
<1>3. PlaceOK'
  BY <1>1 DEF SweepInv, PlaceOK, Alive
<1>4. TraceOK'
  BY <1>1, TracesStay
<1>5. Unclosed' = {} /\ Unmeasured' = {} /\ \A c \in Plan : row'[c] = "none"
  BY <1>1 DEF Unclosed, Unmeasured, SweepInv, PlaceOK
<1>6. RowOK' /\ ScoreOK'
  BY <1>1, <1>5 DEF SweepInv, RowOK, ScoreOK
<1>7. QED
  BY <1>2, <1>3, <1>4, <1>6 DEF SweepInv

\* A batch is launched: what earlier sweeps scored of its cells is cleared.
LEMMA LaunchKeeps == ASSUME SweepInv, Launch PROVE SweepInv'
<1> DEFINE new == first'..last'
<1>1. /\ pc = "between" /\ pc' = "running" /\ last < Cells
      /\ first' = last + 1 /\ last' = IF last = 0 THEN 1 ELSE Least(Cells, last + Jobs)
      /\ child' = [c \in Plan |-> IF c \in new THEN "up" ELSE child[c]]
      /\ record' = [c \in Plan |-> IF c \in new THEN 0 ELSE record[c]]
      /\ scored' = [c \in Plan |-> IF c \in new THEN Unscored ELSE scored[c]]
      /\ UNCHANGED <<sweep, at, killed, row, trace>>
  BY DEF Launch
<1>2. last \in Nat /\ Cells \in Nat /\ Jobs \in Nat /\ Jobs # 0 /\ sweep \in Nat /\ sweep # 0
  BY <1>1, SweepAssumption DEF SweepInv, TypeOK, PlaceOK
<1>3. first' \in Nat /\ last' \in 0..Cells /\ 1 <= first' /\ first' <= last' /\ last <= last'
  <2>1. CASE last = 0
    BY <1>1, <1>2, <2>1
  <2>2. CASE last # 0
    BY <1>1, <1>2, <2>2 DEF Least
  <2>3. QED
    BY <2>1, <2>2
<1>4. Batch' = new /\ Unclosed' = new /\ Unmeasured' = new
  BY <1>1 DEF Batch, Unclosed, Unmeasured
<1>5. \A c \in new : c > last
  BY <1>1, <1>2, <1>3
<1> HIDE DEF new
<1>6. TypeOK'
  <2>1. Unscored \in [sweep : 0..Sweeps, record : 0..Sweeps, why : {"none"} \cup Outcomes] /\ 0 \in 0..Sweeps
    BY SweepAssumption DEF Unscored
  <2>2. /\ record' \in [Plan -> 0..Sweeps]
        /\ child' \in [Plan -> {"none", "up", "tracing", "rendered", "ended", "gone"}]
        /\ scored' \in [Plan -> [sweep : 0..Sweeps, record : 0..Sweeps, why : {"none"} \cup Outcomes]]
    BY <1>1, <2>1 DEF SweepInv, TypeOK
  <2>3. QED
    BY <1>1, <1>3, <2>2 DEF SweepInv, TypeOK
<1>7. PlaceOK'
  <2>1. \A c \in Plan : child[c] \notin {"up", "tracing", "rendered", "ended"}
    BY <1>1 DEF SweepInv, PlaceOK, Alive
  <2>2. \A c \in Plan : child'[c] \in {"up", "tracing", "rendered", "ended"} => c \in new
    BY <1>1, <2>1
  <2>3. QED
    BY <1>1, <1>2, <1>3, <1>4, <2>2 DEF PlaceOK, Alive
<1>8. TraceOK'
  <2>1. \A c \in Plan : child'[c] \in {"tracing", "rendered"} => child'[c] = child[c]
    BY <1>1
  <2>2. QED
    BY <1>1, <1>2, <2>1, TracesStay
<1>9. RowOK'
  <2>1. ASSUME NEW c \in Plan, row'[c] # "none"
        PROVE  c <= last' /\ c \notin Unclosed' /\ row'[c] = TraceEnd(trace'[c].lines)
    <3>1. c <= last /\ row[c] = TraceEnd(trace[c].lines) /\ c \in Nat
      BY <1>1, <2>1, SweepAssumption DEF SweepInv, RowOK, Plan
    <3>2. c \notin new
      BY <1>2, <1>5, <3>1
    <3>3. c <= last'
      BY <1>2, <1>3, <3>1
    <3>4. QED
      BY <1>1, <1>4, <3>1, <3>2, <3>3
  <2>2. QED
    BY <2>1 DEF RowOK
<1>10. ScoreOK'
  <2>1. \A c \in Batch' : record'[c] = 0
    <3>1. Batch' \subseteq Plan
      BY <1>2, <1>3 DEF Batch, Plan
    <3>2. QED
      BY <1>1, <1>4, <3>1
  <2>2. \A c \in Plan : scored'[c].sweep # 0 => c \notin new /\ scored'[c] = scored[c] /\ record'[c] = record[c]
    BY <1>1 DEF Unscored
  <2>3. QED
    BY <1>1, <1>4, <2>1, <2>2 DEF SweepInv, ScoreOK
<1>11. QED
  BY <1>6, <1>7, <1>8, <1>9, <1>10 DEF SweepInv

\* The parent turns to a batch none of whose children is left.
LEMMA CollectKeeps == ASSUME SweepInv, Collect PROVE SweepInv'
<1>1. /\ pc = "running" /\ pc' = "closing" /\ at' = first /\ \A c \in Batch : child[c] = "gone"
      /\ UNCHANGED <<sweep, first, last, child, killed, row, trace, record, scored>>
  BY DEF Collect, files
<1>2. first \in Nat /\ last \in Nat /\ first <= last /\ sweep \in Nat
  BY <1>1 DEF SweepInv, PlaceOK, TypeOK
<1>3. Batch' = Batch /\ Unclosed = Batch /\ Unclosed' = Batch /\ Unmeasured = Batch /\ Unmeasured' = Batch /\ first \in Batch
  BY <1>1, <1>2 DEF Batch, Unclosed, Unmeasured
<1>4. TypeOK'
  BY <1>1, <1>2 DEF SweepInv, TypeOK
<1>5. PlaceOK'
  BY <1>1, <1>3 DEF SweepInv, PlaceOK, Alive
<1>6. TraceOK'
  BY <1>1, <1>2, TracesStay
<1>7. RowOK' /\ ScoreOK'
  BY <1>1, <1>3 DEF SweepInv, RowOK, ScoreOK
<1>8. QED
  BY <1>4, <1>5, <1>6, <1>7 DEF SweepInv
\* In a batch that is being closed no child is left, and its cells are of the plan.
LEMMA Closing ==
  ASSUME SweepInv, pc \in {"closing", "scoring", "filing"}
  PROVE  /\ at \in Batch /\ at \in Plan /\ at \in Nat /\ first \in Nat /\ last \in Nat
         /\ Batch \subseteq Plan /\ at <= last /\ first <= at
         /\ sweep \in Nat /\ sweep # 0
         /\ \A c \in Plan : ~Alive(c)
<1>1. first \in Nat /\ 1 <= first /\ last \in 0..Cells /\ Cells \in Nat /\ at \in Batch /\ at \in Nat /\ sweep \in Nat /\ sweep # 0
  BY SweepAssumption DEF SweepInv, PlaceOK, TypeOK
<1>2. \A c \in Plan : ~Alive(c)
  BY DEF SweepInv, PlaceOK
<1>3. Batch \subseteq Plan /\ at <= last /\ first <= at
  BY <1>1 DEF Batch, Plan
<1>4. QED
  BY <1>1, <1>2, <1>3

\* A cell is closed out: repaired, ended where it owed an end, and given its row.
LEMMA CloseKeeps == ASSUME SweepInv, Close PROVE SweepInv'
<1> DEFINE t == trace[at]
           closed == ClosedOut(t, killed[at])
           new == [t EXCEPT !.lines = closed]
<1>1. /\ pc = "closing" /\ pc' = "scoring"
      /\ row' = [row EXCEPT ![at] = TraceEnd(closed)]
      /\ UNCHANGED <<sweep, first, last, at, child, killed, record, scored>>
  BY DEF Close, ClosedOut
<1>2. trace' = [trace EXCEPT ![at] = new]
  BY DEF Close, ClosedOut
<1>3. /\ at \in Batch /\ at \in Plan /\ at \in Nat /\ first \in Nat /\ last \in Nat /\ Batch \subseteq Plan
      /\ at <= last /\ sweep \in Nat /\ \A c \in Plan : ~Alive(c)
  BY <1>1, Closing
<1>4. /\ trace \in [Plan -> [sweep : 0..sweep, lines : Seq(LineSet)]]
      /\ Shape(t) /\ killed[at] \in BOOLEAN
  BY <1>3 DEF SweepInv, TypeOK, TraceOK
<1> HIDE DEF closed
<1>5. Shape(new)
  BY <1>4, ClosedIs DEF closed
<1>6. t = [sweep |-> t.sweep, lines |-> t.lines] /\ t.sweep \in 0..sweep
  BY <1>3, <1>4
<1>7. new = [sweep |-> t.sweep, lines |-> closed]
  BY <1>6
<1>8. new.lines = closed /\ new.sweep = t.sweep
  BY <1>7
<1> HIDE DEF new, t
<1>9. closed \in Seq(LineSet)
  BY <1>5, <1>8 DEF Shape
<1>10. new \in [sweep : 0..sweep, lines : Seq(LineSet)]
  BY <1>6, <1>7, <1>9
<1>11. /\ trace' \in [Plan -> [sweep : 0..sweep, lines : Seq(LineSet)]] /\ trace'[at] = new
       /\ \A c \in Plan : c # at => trace'[c] = trace[c]
  BY <1>2, <1>3, <1>4, <1>10
<1>12. TraceEnd(closed) \in {"none"} \cup Outcomes
  BY <1>5, <1>8, EndIsOutcome
<1>13. TypeOK'
  BY <1>1, <1>12 DEF SweepInv, TypeOK
<1>14. Batch' = Batch
  BY <1>1 DEF Batch
<1>15. PlaceOK'
  BY <1>1, <1>3, <1>14 DEF SweepInv, PlaceOK, Alive
<1>16. TraceOK'
  BY <1>1, <1>3, <1>5, <1>11 DEF SweepInv, TraceOK, Writing, Alive
<1>17. /\ \A c \in Plan : c # at /\ c \notin Unclosed => c \notin Unclosed'
       /\ at \in Unclosed /\ at \notin Unclosed'
       /\ \A c \in Plan : c \notin Unmeasured => c \notin Unmeasured'
       /\ at \in Unmeasured
  BY <1>1, <1>3, <1>14 DEF Unclosed, Unmeasured, Plan
<1>18. RowOK'
  <2>1. ASSUME NEW c \in Plan, row'[c] # "none"
        PROVE  c <= last' /\ c \notin Unclosed' /\ row'[c] = TraceEnd(trace'[c].lines)
    <3>1. CASE c = at
      <4>1. row'[c] = TraceEnd(closed)
        BY <1>1, <1>3, <3>1 DEF SweepInv, TypeOK
      <4>2. QED
        BY <1>1, <1>3, <1>8, <1>11, <1>17, <3>1, <4>1
    <3>2. CASE c # at
      <4>1. row'[c] = row[c]
        BY <1>1, <3>2 DEF SweepInv, TypeOK
      <4>2. QED
        BY <1>1, <1>11, <1>17, <2>1, <3>2, <4>1 DEF SweepInv, RowOK
    <3>3. QED
      BY <3>1, <3>2
  <2>2. QED
    BY <2>1 DEF RowOK
<1>19. ScoreOK'
  <2>1. row'[at'] = TraceEnd(trace'[at'].lines)
    BY <1>1, <1>3, <1>8, <1>11 DEF SweepInv, TypeOK
  <2>2. \A c \in Plan : scored[c].sweep # 0 => c # at
    BY <1>17 DEF SweepInv, ScoreOK
  <2>3. \A c \in Plan : scored'[c].sweep # 0 =>
          /\ c \notin Unmeasured'
          /\ scored'[c].record = record'[c] /\ scored'[c].why = TraceEnd(trace'[c].lines)
          /\ record'[c] \in {0, scored'[c].sweep}
    BY <1>1, <1>11, <1>17, <2>2 DEF SweepInv, ScoreOK
  <2>4. \A c \in Batch' : record'[c] \in {0, sweep'}
    BY <1>1, <1>14 DEF SweepInv, ScoreOK
  <2>5. QED
    BY <2>1, <2>3, <2>4 DEF ScoreOK
<1>20. QED
  BY <1>13, <1>15, <1>16, <1>18, <1>19 DEF SweepInv

\* A cell is scored by what its slot and its trace hold now.
LEMMA ScoreKeeps == ASSUME SweepInv, Score PROVE SweepInv'
<1> DEFINE new == [sweep |-> sweep, record |-> record[at], why |-> row[at]]
<1>1. /\ pc = "scoring" /\ pc' = "filing" /\ scored' = [scored EXCEPT ![at] = new]
      /\ UNCHANGED <<sweep, first, last, at, child, killed, row, trace, record>>
  BY DEF Score
<1>2. /\ at \in Batch /\ at \in Plan /\ at \in Nat /\ first \in Nat /\ last \in Nat /\ Batch \subseteq Plan
      /\ at <= last /\ sweep \in Nat /\ sweep # 0
  BY <1>1, Closing
<1>3. TypeOK'
  <2>1. new \in [sweep : 0..Sweeps, record : 0..Sweeps, why : {"none"} \cup Outcomes]
    BY <1>2 DEF SweepInv, TypeOK
  <2> HIDE DEF new
  <2>2. QED
    BY <1>1, <1>2, <2>1 DEF SweepInv, TypeOK
<1>4. Batch' = Batch
  BY <1>1 DEF Batch
<1>5. PlaceOK'
  BY <1>1, <1>4 DEF SweepInv, PlaceOK, Alive
<1>6. TraceOK'
  BY <1>1, <1>2, TracesStay
<1>7. /\ Unclosed' = Unclosed
      /\ \A c \in Plan : c \notin Unmeasured => c \notin Unmeasured'
      /\ at \notin Unmeasured'
  BY <1>1, <1>2, <1>4 DEF Unclosed, Unmeasured, Plan
<1>8. RowOK'
  BY <1>1, <1>7 DEF SweepInv, RowOK
<1>9. ScoreOK'
  <2>1. row[at] = TraceEnd(trace[at].lines) /\ record[at] \in {0, sweep} /\ \A c \in Batch : record[c] \in {0, sweep}
    BY <1>1, <1>2 DEF SweepInv, ScoreOK
  <2>2. ASSUME NEW c \in Plan, scored'[c].sweep # 0
        PROVE  /\ c \notin Unmeasured'
               /\ scored'[c].record = record'[c] /\ scored'[c].why = TraceEnd(trace'[c].lines)
               /\ record'[c] \in {0, scored'[c].sweep}
    <3>1. CASE c = at
      <4>1. scored'[c] = new
        BY <1>1, <1>2, <3>1 DEF SweepInv, TypeOK
      <4>2. QED
        BY <1>1, <1>7, <2>1, <3>1, <4>1
    <3>2. CASE c # at
      <4>1. scored'[c] = scored[c]
        BY <1>1, <3>2 DEF SweepInv, TypeOK
      <4>2. QED
        BY <1>1, <1>7, <2>2, <4>1 DEF SweepInv, ScoreOK
    <3>3. QED
      BY <3>1, <3>2
  <2>3. QED
    BY <1>1, <1>4, <2>1, <2>2 DEF ScoreOK
<1>10. QED
  BY <1>3, <1>5, <1>6, <1>8, <1>9 DEF SweepInv

\* A cell is filed; the next one of the batch is closed out, or the batch is over.
LEMMA FileKeeps == ASSUME SweepInv, File PROVE SweepInv'
<1>1. /\ pc = "filing" /\ pc' = IF at < last THEN "closing" ELSE "between"
      /\ at' = IF at < last THEN at + 1 ELSE 0
      /\ UNCHANGED <<sweep, first, last, child, killed, row, trace, record, scored>>
  BY DEF File
<1>2. /\ at \in Batch /\ at \in Plan /\ at \in Nat /\ first \in Nat /\ last \in Nat /\ Batch \subseteq Plan
      /\ at <= last /\ first <= at /\ sweep \in Nat /\ sweep # 0
  BY <1>1, Closing
<1>3. Batch' = Batch /\ (at < last => at' \in Batch)
  BY <1>1, <1>2 DEF Batch
<1>4. TypeOK'
  BY <1>1, <1>2 DEF SweepInv, TypeOK
<1>5. PlaceOK'
  BY <1>1, <1>2, <1>3 DEF SweepInv, PlaceOK, Alive
<1>6. TraceOK'
  BY <1>1, <1>2, TracesStay
<1>7. Unclosed' = Unclosed /\ Unmeasured' = Unmeasured
  BY <1>1, <1>2, <1>3 DEF Unclosed, Unmeasured, Batch
<1>8. RowOK' /\ ScoreOK'
  BY <1>1, <1>3, <1>7 DEF SweepInv, RowOK, ScoreOK
<1>9. QED
  BY <1>4, <1>5, <1>6, <1>8 DEF SweepInv

\* A parent that is gone knows nothing of what it did; the tree it leaves is whole.
LEMMA ForgetsKeeps ==
  ASSUME SweepInv, Forgets, UNCHANGED <<sweep, record, scored>>,
         trace' \in [Plan -> [sweep : 0..sweep, lines : Seq(LineSet)]],
         \A c \in Plan : Shape(trace'[c]),
         \A c \in Plan : scored[c].sweep # 0 => trace'[c] = trace[c]
  PROVE  SweepInv'
<1>1. /\ pc' = "idle" /\ first' = 0 /\ last' = 0 /\ at' = 0
      /\ child' = [c \in Plan |-> "none"] /\ killed' = [c \in Plan |-> FALSE] /\ row' = [c \in Plan |-> "none"]
  BY DEF Forgets
<1>2. TypeOK'
  BY <1>1, SweepAssumption DEF SweepInv, TypeOK
<1>3. PlaceOK'
  BY <1>1 DEF PlaceOK, Alive
<1>4. TraceOK'
  BY <1>1 DEF TraceOK, Writing
<1>5. Unmeasured' = {}
  BY <1>1 DEF Unmeasured
<1>6. RowOK' /\ ScoreOK'
  BY <1>1, <1>5 DEF SweepInv, RowOK, ScoreOK
<1>7. QED
  BY <1>2, <1>3, <1>4, <1>6 DEF SweepInv

\* A sweep that is through.
LEMMA SweepEndsKeeps == ASSUME SweepInv, SweepEnds PROVE SweepInv'
<1>1. Forgets /\ UNCHANGED <<sweep, record, scored, trace>>
  BY DEF SweepEnds, files
<1>2. QED
  BY <1>1, ForgetsKeeps DEF SweepInv, TraceOK

\* Ctrl-C, at any moment.
LEMMA InterruptedKeeps == ASSUME SweepInv, Interrupted PROVE SweepInv'
<1>1. Forgets /\ UNCHANGED <<sweep, record, scored>>
  BY DEF Interrupted
<1>2. PICK half \in SUBSET {c \in Plan : Writing(c)} :
        trace' = [c \in Plan |-> IF c \in half THEN [trace[c] EXCEPT !.lines = Append(@, Line("torn"))] ELSE trace[c]]
  BY DEF Interrupted
<1>3. Line("torn") \in LineSet /\ Line("torn").is # "end"
  BY DEF Line, LineSet
<1>4. ASSUME NEW c \in half
      PROVE  trace'[c] \in [sweep : 0..sweep, lines : Seq(LineSet)] /\ Shape(trace'[c]) /\ scored[c].sweep = 0
  <2> DEFINE t == trace[c]
             lines == t.lines
             longer == Append(lines, Line("torn"))
  <2>1. c \in Plan /\ Writing(c) /\ t.sweep # 0 /\ Ends(lines) = {} /\ Shape(t)
        /\ t \in [sweep : 0..sweep, lines : Seq(LineSet)]
    BY DEF SweepInv, TraceOK
  <2>2. trace'[c] = [t EXCEPT !.lines = longer]
    BY <1>2, <2>1
  <2>3. Begun(lines) /\ t.sweep \in Nat
    BY <2>1 DEF Shape
  <2>4. Begun(longer) /\ Sound(longer)
    BY <1>3, <2>1, <2>3, AddedIs
  <2> HIDE DEF longer, t
  <2>5. trace'[c] = [sweep |-> t.sweep, lines |-> longer]
    BY <2>1, <2>2
  <2>6. longer \in Seq(LineSet)
    BY <2>4 DEF Begun
  <2>7. Alive(c)
    BY <2>1 DEF Writing, Alive
  <2>8. pc = "running" /\ c \in Batch
    BY <2>1, <2>7 DEF SweepInv, PlaceOK
  <2>9. c \in Unmeasured
    BY <2>8 DEF Unmeasured
  <2>10. scored[c].sweep = 0
    BY <2>1, <2>9 DEF SweepInv, ScoreOK
  <2>11. QED
    BY <2>1, <2>3, <2>4, <2>5, <2>6, <2>10 DEF Shape
<1>5. \A c \in Plan : c \notin half => trace'[c] = trace[c]
  BY <1>2
<1>6. \A c \in Plan : /\ trace'[c] \in [sweep : 0..sweep, lines : Seq(LineSet)] /\ Shape(trace'[c])
                      /\ scored[c].sweep # 0 => trace'[c] = trace[c]
  BY <1>4, <1>5 DEF SweepInv, TraceOK
<1>7. trace' = [c \in Plan |-> trace'[c]]
  <2> DEFINE Cut(c) == IF c \in half THEN [trace[c] EXCEPT !.lines = Append(@, Line("torn"))] ELSE trace[c]
  <2>1. trace' = [c \in Plan |-> Cut(c)]
    BY <1>2
  <2> HIDE DEF Cut
  <2>2. QED
    BY <2>1
<1>8. trace' \in [Plan -> [sweep : 0..sweep, lines : Seq(LineSet)]]
  BY <1>6, <1>7
<1>9. QED
  BY <1>1, <1>6, <1>8, ForgetsKeeps
\* Every step keeps the invariant.
LEMMA SweepStep == SweepInv /\ [Next]_vars => SweepInv'
<1> SUFFICES ASSUME SweepInv, [Next]_vars PROVE SweepInv'
  OBVIOUS
<1>1. CASE Parent
  BY <1>1, SweepStartsKeeps, LaunchKeeps, CollectKeeps, CloseKeeps, ScoreKeeps, FileKeeps, SweepEndsKeeps DEF Parent
<1>2. CASE Interrupted
  BY <1>2, InterruptedKeeps
<1>3. ASSUME NEW c \in Plan, ChildOpens(c) \/ ChildSteps(c) \/ ChildRenders(c) \/ ChildEnds(c) \/ ChildExits(c) \/ TimesOut(c)
      PROVE  SweepInv'
  BY <1>3, ChildStep, ChildGoes
<1>4. CASE UNCHANGED vars
  <2>1. UNCHANGED <<sweep, pc, first, last, at, child, killed, row, trace, record, scored>>
    BY <1>4 DEF vars, files
  <2>2. Batch' = Batch /\ Unclosed' = Unclosed /\ Unmeasured' = Unmeasured
    BY <2>1 DEF Batch, Unclosed, Unmeasured
  <2>3. TypeOK' /\ PlaceOK'
    BY <2>1, <2>2 DEF SweepInv, TypeOK, PlaceOK, Alive
  <2>4. TraceOK'
    BY <2>1 DEF SweepInv, TraceOK, Writing
  <2>5. RowOK' /\ ScoreOK'
    BY <2>1, <2>2 DEF SweepInv, RowOK, ScoreOK
  <2>6. QED
    BY <2>3, <2>4, <2>5 DEF SweepInv
<1>5. QED
  BY <1>1, <1>2, <1>3, <1>4 DEF Next

\* How far the parent is, which child may write, which rows are known and which scores are of
\* this sweep hold together through every crash, kill and Ctrl-C.
THEOREM SweepConsistent == Spec => []SweepInv
<1>1. QED
  BY StartHolds, SweepStep, PTL DEF Spec
-----------------------------------------------------------------------------
(* The theorems.                                                             *)

\* The run_end a row is read from counts the step lines above it, whoever wrote it.
THEOREM EndIsTrueAlways == Spec => []EndIsTrue
<1>1. SweepInv => EndIsTrue
  <2> SUFFICES ASSUME SweepInv, NEW c \in Plan, row[c] \notin {"none", "crashed"},
                      NEW lines, lines = trace[c].lines, NEW end, end = lines[Latest(Readable(lines))]
               PROVE  end.is = "end" /\ end.why = row[c] /\ end.steps = Steps(lines)
    BY DEF EndIsTrue
  <2>1. row[c] = TraceEnd(lines) /\ Shape(trace[c])
    BY DEF SweepInv, RowOK, TraceOK
  <2>2. Ends(lines) # {}
    BY <2>1 DEF TraceEnd
  <2>3. TraceEnd(lines) = lines[Len(lines)].why /\ Latest(Readable(lines)) = Len(lines) /\ EndsWell(lines)
    BY <2>1, <2>2, EndIsLast
  <2>4. QED
    BY <2>1, <2>3 DEF EndsWell
<1>2. QED
  BY <1>1, SweepConsistent, PTL

\* What is on disk scores again to what was scored.
THEOREM RescoresAlways == Spec => []Rescores
<1>1. SweepInv => Rescores
  BY DEF SweepInv, ScoreOK, Rescores, Rescored
<1>2. QED
  BY <1>1, SweepConsistent, PTL

\* A set of which there is at most one element is what it has.
LEMMA AtMostOne ==
  ASSUME NEW S, IsFiniteSet(S), ~(Cardinality(S) > 1), NEW x \in S, NEW y \in S
  PROVE  x = y
<1> SUFFICES ASSUME x # y PROVE FALSE
  OBVIOUS
<1>1. IsFiniteSet({x}) /\ Cardinality({x}) = 1 /\ IsFiniteSet({y}) /\ Cardinality({y}) = 1
  BY FS_Singleton
<1>2. {x, y} \subseteq S /\ {x} \subseteq {x, y}
  OBVIOUS
<1>3. IsFiniteSet({x, y}) /\ Cardinality({x, y}) <= Cardinality(S)
  BY <1>2, FS_Subset
<1>4. Cardinality({x}) <= Cardinality({x, y}) /\ (Cardinality({x}) = Cardinality({x, y}) => {x} = {x, y})
  BY <1>2, <1>3, FS_Subset
<1>5. Cardinality(S) \in Nat /\ Cardinality({x, y}) \in Nat
  BY <1>3, FS_CardinalityType
<1>6. {x} # {x, y}
  OBVIOUS
<1>7. QED
  BY <1>1, <1>3, <1>4, <1>5, <1>6
\* What settle keeps and what the record's word replaces.
LEMMA SettleIs ==
  ASSUME NEW fact, NEW prov, NEW d, d = Settle(fact, prov),
         DOMAIN fact = {"trace", "stop", "prompt", "brain", "model", "cost", "tokens"}
  PROVE  /\ d.prompt = fact.prompt
         /\ d.brain = Else({e.brain : e \in prov}, fact.brain)
         /\ d.model = Else(UNION {e.answered : e \in prov}, fact.model)
         /\ d.cost = IF d.brain = {"api"} THEN {"measured"}
                     ELSE Else(Else({IF e.priced THEN "cli_estimate" ELSE "unpriced" : e \in prov}, fact.cost), {"cli_estimate"})
<1> DEFINE brain == Else({e.brain : e \in prov}, fact.brain)
           said == {IF e.priced THEN "cli_estimate" ELSE "unpriced" : e \in prov}
           model == Else(UNION {e.answered : e \in prov}, fact.model)
           cost == IF brain = {"api"} THEN {"measured"} ELSE Else(Else(said, fact.cost), {"cli_estimate"})
<1>1. d = [fact EXCEPT !.brain = brain, !.model = model, !.cost = cost, !.tokens = @ /\ brain # {"api"}]
  BY DEF Settle
<1> HIDE DEF brain, model, cost
<1>2. d.prompt = fact.prompt /\ d.brain = brain /\ d.model = model /\ d.cost = cost
  BY <1>1
<1>3. QED
  BY <1>2 DEF brain, model, cost
\* What a single engine gives the facts.
LEMMA OneStarted ==
  ASSUME NEW e, NEW started, started = {e}
  PROVE  /\ {x.prompt : x \in started} = {e.prompt} /\ {x.brain : x \in started} = {e.brain}
         /\ UNION {x.configured : x \in started} = e.configured
         /\ UNION {x.answered : x \in started} = e.answered
         /\ Else({x.brain : x \in started}, {"api"}) = {e.brain}
<1>1. {x.prompt : x \in started} = {e.prompt} /\ {x.brain : x \in started} = {e.brain}
  OBVIOUS
<1>2. {x.configured : x \in started} = {e.configured} /\ {x.answered : x \in started} = {e.answered}
  OBVIOUS
<1>3. \A S : UNION {S} = S
  OBVIOUS
<1>4. {e.brain} # {}
  OBVIOUS
<1>5. QED
  BY <1>1, <1>2, <1>3, <1>4 DEF Else

\* What is read off one cell: of at most two engines, so there is not much of it; and of a run
\* that was scored beside its own trace, what its engine was.
LEMMA FactIs ==
  ASSUME SweepInv, NEW engine \in [1..Sweeps -> Engines], NEW c \in Plan,
         NEW d, d = Facts(engine)[c]
  PROVE  /\ IsFiniteSet(d.prompt) /\ IsFiniteSet(d.brain) /\ IsFiniteSet(d.model)
         /\ scored[c].sweep # 0 /\ trace[c].sweep = scored[c].sweep =>
              LET own == engine[scored[c].sweep]
              IN  /\ d.prompt = {own.prompt} /\ d.brain = {own.brain}
                  /\ scored[c].record # 0 =>
                       /\ own.answered # {} => d.model = own.answered
                       /\ own.brain # "api" /\ ~own.priced => "unpriced" \in d.cost
<1> DEFINE t == trace[c]
           fact == TraceFacts(engine, c)
           prov == Provenance(engine, c)
           started == {engine[t.sweep] : i \in Kind(t.lines, "start")}
<1>1. d = Settle(fact, prov)
  BY DEF Facts
<1>2. /\ t \in [sweep : 0..sweep, lines : Seq(LineSet)] /\ Shape(t) /\ sweep \in 0..Sweeps /\ Sweeps \in Nat
      /\ record[c] \in 0..Sweeps
  BY SweepAssumption DEF SweepInv, TraceOK, TypeOK
<1>3. t.sweep \in 0..Sweeps
  BY <1>2
<1>4. /\ DOMAIN fact = {"trace", "stop", "prompt", "brain", "model", "cost", "tokens"}
      /\ fact.prompt = {e.prompt : e \in started}
      /\ fact.brain = Else({e.brain : e \in started}, {"api"})
      /\ fact.model = UNION {e.configured : e \in started}
  BY DEF TraceFacts
<1>5. /\ t.sweep = 0 => started = {}
      /\ t.sweep # 0 => started = {engine[t.sweep]}
  <2>1. CASE t.sweep = 0
    BY <1>2, <2>1 DEF Shape, Kind
  <2>2. CASE t.sweep # 0
    <3>1. 1 \in Kind(t.lines, "start")
      BY <1>2, <2>2 DEF Shape, Begun, Kind
    <3>2. QED
      BY <2>2, <3>1
  <2>3. QED
    BY <2>1, <2>2
<1>6. /\ prov \subseteq {engine[record[c]]}
      /\ record[c] = 0 => prov = {}
      /\ record[c] # 0 => prov = {engine[record[c]]}
  BY DEF Provenance
<1>7. \A s \in 0..Sweeps : s # 0 => engine[s] \in Engines
  BY <1>2
<1> HIDE DEF started, prov, fact
<1>8. /\ d.prompt = fact.prompt
      /\ d.brain = Else({e.brain : e \in prov}, fact.brain)
      /\ d.model = Else(UNION {e.answered : e \in prov}, fact.model)
      /\ d.cost = IF d.brain = {"api"} THEN {"measured"}
                  ELSE Else(Else({IF e.priced THEN "cli_estimate" ELSE "unpriced" : e \in prov}, fact.cost), {"cli_estimate"})
  BY <1>1, <1>4, SettleIs
<1>9. \A x : IsFiniteSet({x})
  BY FS_Singleton
<1>10. IsFiniteSet(fact.prompt) /\ IsFiniteSet(fact.brain) /\ IsFiniteSet(fact.model)
  <2>1. CASE t.sweep = 0
    <3>1. fact.prompt = {} /\ fact.brain = {"api"} /\ fact.model = {}
      BY <1>4, <1>5, <2>1 DEF Else
    <3>2. QED
      BY <1>9, <3>1, FS_EmptySet
  <2>2. CASE t.sweep # 0
    <3> DEFINE e == engine[t.sweep]
    <3>0. started = {e}
      BY <1>5, <2>2
    <3> HIDE DEF e
    <3>1. fact.prompt = {e.prompt} /\ fact.brain = {e.brain} /\ fact.model = e.configured
      BY <1>4, <3>0, OneStarted
    <3>2. e \in Engines
      BY <1>3, <1>7, <2>2 DEF e
    <3>3. QED
      BY <1>9, <3>1, <3>2, EnginesAssumption
  <2>3. QED
    BY <2>1, <2>2
<1>11. IsFiniteSet(d.brain) /\ IsFiniteSet(d.model)
  <2>1. CASE record[c] = 0
    <3>1. d.brain = fact.brain /\ d.model = fact.model
      BY <1>6, <1>8, <2>1 DEF Else
    <3>2. QED
      BY <1>10, <3>1
  <2>2. CASE record[c] # 0
    <3> DEFINE e == engine[record[c]]
    <3>0. prov = {e}
      BY <1>6, <2>2
    <3> HIDE DEF e
    <3>1. d.brain = {e.brain} /\ (d.model = e.answered \/ d.model = fact.model)
      BY <1>8, <3>0, OneStarted DEF Else
    <3>2. e \in Engines
      BY <1>2, <1>7, <2>2 DEF e
    <3>3. QED
      BY <1>9, <1>10, <3>1, <3>2, EnginesAssumption
  <2>3. QED
    BY <2>1, <2>2
<1>12. ASSUME scored[c].sweep # 0, t.sweep = scored[c].sweep, NEW own, own = engine[scored[c].sweep]
       PROVE  /\ d.prompt = {own.prompt} /\ d.brain = {own.brain}
              /\ scored[c].record # 0 =>
                   /\ own.answered # {} => d.model = own.answered
                   /\ own.brain # "api" /\ ~own.priced => "unpriced" \in d.cost
  <2>1. scored[c].record = record[c] /\ record[c] \in {0, scored[c].sweep}
    BY <1>12 DEF SweepInv, ScoreOK
  <2>2. started = {own}
    BY <1>5, <1>12
  <2>3. fact.prompt = {own.prompt} /\ fact.brain = {own.brain}
    BY <1>4, <2>2, OneStarted
  <2>4. CASE record[c] = 0
    <3>1. d.brain = fact.brain
      BY <1>6, <1>8, <2>4 DEF Else
    <3>2. QED
      BY <1>8, <2>1, <2>3, <2>4, <3>1
  <2>5. CASE record[c] # 0
    <3>1. prov = {own}
      BY <1>6, <1>12, <2>1, <2>5
    <3>2. d.brain = {own.brain} /\ (own.answered # {} => d.model = own.answered)
      BY <1>8, <3>1, OneStarted DEF Else
    <3>3. ASSUME own.brain # "api", ~own.priced PROVE "unpriced" \in d.cost
      <4>1. {IF e.priced THEN "cli_estimate" ELSE "unpriced" : e \in prov} = {"unpriced"}
        BY <3>1, <3>3
      <4>2. d.brain # {"api"}
        BY <3>2, <3>3
      <4>3. QED
        BY <1>8, <4>1, <4>2 DEF Else
    <3>4. QED
      BY <1>8, <2>3, <3>2, <3>3
  <2>6. QED
    BY <2>1, <2>4, <2>5
<1>13. QED
  BY <1>8, <1>10, <1>11, <1>12

\* A union of as many finite sets as there are cells is finite.
LEMMA PlanIsFinite ==
  ASSUME NEW part, \A c \in Plan : IsFiniteSet(part[c]), NEW S, S \subseteq UNION {part[c] : c \in Plan}
  PROVE  IsFiniteSet(S)
<1>1. IsFiniteSet(Plan)
  BY SweepAssumption, FS_Interval DEF Plan
<1>2. IsFiniteSet({part[c] : c \in Plan})
  <2> DEFINE f == [c \in Plan |-> part[c]]
  <2>1. f \in Surjection(Plan, {part[c] : c \in Plan})
    BY DEF Surjection
  <2>2. QED
    BY <1>1, <2>1, FS_Surjection
<1>3. IsFiniteSet(UNION {part[c] : c \in Plan})
  BY <1>2, FS_UNION
<1>4. QED
  BY <1>3, FS_Subset

\* A report that is not refused speaks of one engine.
THEOREM OneEngineAlways == Spec => []OneEngine
<1>1. SweepInv => OneEngine
  <2> SUFFICES ASSUME SweepInv, NEW engine \in [1..Sweeps -> Engines],
                      NEW report, report = Build(engine), ~report.refused,
                      NEW own, own = {c \in Plan : scored[c].sweep # 0 /\ trace[c].sweep = scored[c].sweep},
                      NEW recorded, recorded = {c \in own : scored[c].record # 0}
               PROVE  LET Of(c) == engine[scored[c].sweep]
                      IN  /\ \A c \in own : {Of(c).brain} = report.rows[c].brain /\ report.rows[c].brain = report.brain
                          /\ \A c, d \in own : Of(c).prompt = Of(d).prompt
                          /\ \A c \in recorded : Of(c).answered \in SUBSET report.model
                          /\ \A c, d \in recorded : Of(c).answered = {} \/ Of(d).answered = {} \/ Of(c).answered = Of(d).answered
                          /\ (\E c \in recorded : Of(c).brain # "api" /\ ~Of(c).priced) => report.cost = "unpriced"
    BY DEF OneEngine
  <2> DEFINE Of(c) == engine[scored[c].sweep]
             facts == Facts(engine)
             rows == [c \in Plan |-> Row(facts[c], c)]
  <2>1. /\ ~Refuses(facts) /\ report.rows = rows /\ report.model = Models(facts)
        /\ report.brain = Else(Brains(facts), {"api"}) /\ report.cost = CostSource(rows, report.brain)
    BY DEF Build
  <2>2. \A c \in Plan : IsFiniteSet(facts[c].prompt) /\ IsFiniteSet(facts[c].brain) /\ IsFiniteSet(facts[c].model)
    BY FactIs
  <2>3. \A c \in own : /\ c \in Plan /\ facts[c].prompt = {Of(c).prompt} /\ facts[c].brain = {Of(c).brain}
                       /\ scored[c].record # 0 =>
                            /\ Of(c).answered # {} => facts[c].model = Of(c).answered
                            /\ Of(c).brain # "api" /\ ~Of(c).priced => "unpriced" \in facts[c].cost
    <3> SUFFICES ASSUME NEW c \in own
                 PROVE  /\ c \in Plan /\ facts[c].prompt = {Of(c).prompt} /\ facts[c].brain = {Of(c).brain}
                        /\ scored[c].record # 0 =>
                             /\ Of(c).answered # {} => facts[c].model = Of(c).answered
                             /\ Of(c).brain # "api" /\ ~Of(c).priced => "unpriced" \in facts[c].cost
      OBVIOUS
    <3>1. c \in Plan /\ scored[c].sweep # 0 /\ trace[c].sweep = scored[c].sweep
      OBVIOUS
    <3> DEFINE d == facts[c]
    <3>2. /\ d.prompt = {engine[scored[c].sweep].prompt} /\ d.brain = {engine[scored[c].sweep].brain}
          /\ scored[c].record # 0 =>
               /\ engine[scored[c].sweep].answered # {} => d.model = engine[scored[c].sweep].answered
               /\ engine[scored[c].sweep].brain # "api" /\ ~engine[scored[c].sweep].priced => "unpriced" \in d.cost
      BY <3>1, FactIs
    <3>3. QED
      BY <3>1, <3>2
  <2>4. \A c \in Plan : rows[c].brain = facts[c].brain /\ rows[c].cost = facts[c].cost
    BY DEF Row
  <2> HIDE DEF facts, rows
  <2>5. IsFiniteSet(Prompts(facts)) /\ IsFiniteSet(Brains(facts)) /\ IsFiniteSet(Models(facts))
    <3> DEFINE prompt == [c \in Plan |-> facts[c].prompt]
               brain == [c \in Plan |-> facts[c].brain]
               model == [c \in Plan |-> facts[c].model]
    <3>1. /\ Prompts(facts) \subseteq UNION {prompt[c] : c \in Plan}
          /\ Brains(facts) \subseteq UNION {brain[c] : c \in Plan}
          /\ Models(facts) \subseteq UNION {model[c] : c \in Plan}
      BY DEF Prompts, Brains, Models
    <3>2. \A c \in Plan : IsFiniteSet(prompt[c]) /\ IsFiniteSet(brain[c]) /\ IsFiniteSet(model[c])
      BY <2>2
    <3> HIDE DEF prompt, brain, model
    <3>3. QED
      BY <3>1, <3>2, PlanIsFinite
  <2>6. ~(Cardinality(Prompts(facts)) > 1) /\ ~(Cardinality(Brains(facts)) > 1) /\ ~(Cardinality(Models(facts)) > 1)
    BY <2>1 DEF Refuses
  <2>7. \A c \in own : Of(c).prompt \in Prompts(facts) /\ Of(c).brain \in Brains(facts)
    <3> SUFFICES ASSUME NEW c \in own
                 PROVE  Of(c).prompt \in Prompts(facts) /\ Of(c).brain \in Brains(facts)
      OBVIOUS
    <3>1. c \in Plan /\ facts[c].prompt = {Of(c).prompt} /\ facts[c].brain = {Of(c).brain}
      BY <2>3
    <3> HIDE DEF Of
    <3>2. Of(c).prompt \in Prompts(facts)
      BY <3>1 DEF Prompts
    <3>3. facts[c].prompt # {}
      BY <3>1
    <3>4. c \in {e \in Plan : facts[e].prompt # {} \/ facts[e].tokens}
      BY <3>1, <3>3
    <3>5. Of(c).brain \in facts[c].brain
      BY <3>1
    <3>6. Of(c).brain \in Brains(facts)
      BY <3>4, <3>5 DEF Brains
    <3>7. QED
      BY <3>2, <3>6
  <2>8. \A c \in recorded : Of(c).answered # {} => Of(c).answered \subseteq Models(facts)
    BY <2>3 DEF Models
  <2> HIDE DEF Of
  <2>9. \A c, d \in own : Of(c).prompt = Of(d).prompt
    BY <2>5, <2>6, <2>7, AtMostOne
  <2>10. \A c \in own : report.brain = {Of(c).brain}
    <3>1. \A c \in own : \A b \in Brains(facts) : b = Of(c).brain
      BY <2>5, <2>6, <2>7, AtMostOne
    <3>2. \A c \in own : Brains(facts) = {Of(c).brain}
      <4> SUFFICES ASSUME NEW c \in own PROVE Brains(facts) = {Of(c).brain}
        OBVIOUS
      <4>1. Of(c).brain \in Brains(facts)
        BY <2>7
      <4>2. \A b \in Brains(facts) : b = Of(c).brain
        BY <3>1
      <4>3. QED
        BY <4>1, <4>2
    <3>3. \A c \in own : Brains(facts) # {}
      BY <2>7
    <3>4. QED
      BY <2>1, <3>2, <3>3 DEF Else
  <2>11. \A c, d \in recorded : Of(c).answered = {} \/ Of(d).answered = {} \/ Of(c).answered = Of(d).answered
    <3>1. \A x, y \in Models(facts) : x = y
      BY <2>5, <2>6, AtMostOne
    <3> SUFFICES ASSUME NEW c \in recorded, NEW d \in recorded, Of(c).answered # {}, Of(d).answered # {}
                 PROVE  Of(c).answered = Of(d).answered
      OBVIOUS
    <3>2. Of(c).answered \subseteq Models(facts) /\ Of(d).answered \subseteq Models(facts)
      BY <2>8
    <3>3. \A x \in Of(c).answered, y \in Of(d).answered : x = y
      BY <3>1, <3>2
    <3>4. Of(c).answered \subseteq Of(d).answered /\ Of(d).answered \subseteq Of(c).answered
      <4>1. PICK x \in Of(c).answered : TRUE
        OBVIOUS
      <4>2. PICK y \in Of(d).answered : TRUE
        OBVIOUS
      <4>3. QED
        BY <3>3, <4>1, <4>2
    <3>5. QED
      BY <3>4
  <2>12. \A c \in recorded : Of(c).answered \in SUBSET report.model
    BY <2>1, <2>8
  <2>13. ASSUME NEW c \in recorded, Of(c).brain # "api", ~Of(c).priced
         PROVE  report.cost = "unpriced"
    <3>1. c \in own /\ c \in Plan /\ "unpriced" \in facts[c].cost
      BY <2>3, <2>13
    <3>2. report.brain # {"api"}
      BY <2>10, <2>13, <3>1
    <3>3. QED
      BY <2>1, <2>4, <3>1, <3>2 DEF CostSource
  <2>14. \A c \in own : {Of(c).brain} = report.rows[c].brain /\ report.rows[c].brain = report.brain
    BY <2>1, <2>3, <2>4, <2>10
  <2>15. QED
    BY <2>9, <2>11, <2>12, <2>13, <2>14 DEF Of
<1>2. QED
  BY <1>1, SweepConsistent, PTL
=============================================================================
