------------------------------ MODULE SweepCells ------------------------------
(***************************************************************************)
(* The sweep of the eval harness (evals/harness/cells.py under run.py):    *)
(* one `art30 scan` child per cell of the plan, the first alone, the rest  *)
(* in batches; a wall-clock limit that kills a child; and the parent that  *)
(* repairs the trace it left, writes the run_end it owed, scores its       *)
(* record and files its failure.  Successive sweeps write one tree, and a  *)
(* sweep may be interrupted.                                               *)
(*                                                                         *)
(* A trace is the sequence of its lines.  The last may be torn: cut off    *)
(* before its newline.  What is appended to a torn line becomes part of a  *)
(* line nobody can parse, junk.                                            *)
(***************************************************************************)
EXTENDS Naturals, Sequences, FiniteSets

CONSTANTS Cells,     \* cells of the plan
          Jobs,      \* --jobs
          FailFast,  \* --fail-fast
          Sweeps,    \* bound of the model: sweeps into one tree
          MaxSteps   \* bound of the model: step lines a child writes

ASSUME SweepAssumption == /\ Cells \in Nat \ {0} /\ Jobs \in Nat \ {0}
                          /\ FailFast \in BOOLEAN
                          /\ Sweeps \in Nat /\ MaxSteps \in Nat

VARIABLES
  sweep,        \* the sweep that holds the tree, 0 before the first
  pc,           \* where the parent stands
  first, last,  \* the batch it launched
  at,           \* the cell it is closing out
  child,        \* of each cell: the art30 scan process of this sweep
  killed,       \* of each cell: launch said timed_out
  trace,        \* of each cell: the sweep that opened the file, its lines
  record,       \* of each cell: the sweep whose record.json is in its slot
  row,          \* of each cell: its stop condition in this sweep
  scored,       \* of each cell: metrics.json, the sweep that wrote it, the record it scored
                \* and the stop condition it gives
  filed         \* of each cell: the sweep its copy under failures/ is from

files == <<trace, record, scored, filed>>
vars == <<sweep, pc, first, last, at, child, killed, row, files>>

Plan == 1..Cells
Line(is) == [is |-> is, why |-> "none", steps |-> 0]
RunEnd(why, steps) == [is |-> "end", why |-> why, steps |-> steps]
Outcomes == {"accepted", "failed", "timeout", "api_error", "crashed"}
Ghost == [sweep |-> 0, lines |-> <<>>]
Unscored == [sweep |-> 0, record |-> 0, why |-> "none"]

Init ==
  /\ sweep = 0 /\ pc = "idle" /\ first = 0 /\ last = 0 /\ at = 0
  /\ child = [c \in Plan |-> "none"] /\ killed = [c \in Plan |-> FALSE]
  /\ trace = [c \in Plan |-> Ghost]
  /\ record = [c \in Plan |-> 0]
  /\ row = [c \in Plan |-> "none"]
  /\ scored = [c \in Plan |-> Unscored]
  /\ filed = [c \in Plan |-> 0]
-----------------------------------------------------------------------------
(* Files of lines *)

Parses(line) == line.is \notin {"torn", "junk"}
Torn(lines) == lines # <<>> /\ lines[Len(lines)].is = "torn"
\* Where the lines of one kind stand.
Kind(lines, is) == {i \in DOMAIN lines : lines[i].is = is}
Steps(lines) == Cardinality(Kind(lines, "step"))
Ends(lines) == Kind(lines, "end")
Latest(places) == CHOOSE i \in places : \A j \in places : j <= i

\* read_trace: the lines that parse
Readable(lines) == {i \in DOMAIN lines : Parses(lines[i])}

\* The last run_end, in finish_cell and reverify.trace_end; none is a crash.
TraceEnd(lines) == IF Ends(lines) = {} THEN "crashed" ELSE lines[Latest(Ends(lines))].why

Write(lines, line) ==
  IF Torn(lines) THEN [lines EXCEPT ![Len(lines)] = Line("junk")] ELSE Append(lines, line)

\* repair: the file is cut at its first line that is not whole
Repair(lines) ==
  SubSeq(lines, 1, CHOOSE n \in 0..Len(lines) :
                     /\ \A i \in 1..n : Parses(lines[i])
                     /\ n < Len(lines) => ~Parses(lines[n + 1]))

\* Mutant: counters from the child's last word instead of the lines.
OweUncounted(lines, why) == Write(lines, RunEnd(why, 0))

\* append_run_end: counters of the step lines there are
Owe(lines, why) == Write(lines, RunEnd(why, Steps(lines)))
-----------------------------------------------------------------------------
(* The child *)

parent == <<sweep, pc, first, last, at, row, scored, filed>>

Moves(c, from, to) == child[c] = from /\ child' = [child EXCEPT ![c] = to]
Adds(c, line) == trace' = [trace EXCEPT ![c].lines = Append(@, line)]

\* Trace(): open "w", then run_start
ChildOpens(c) ==
  /\ Moves(c, "up", "tracing")
  /\ trace' = [trace EXCEPT ![c] = [sweep |-> sweep, lines |-> <<Line("start")>>]]
  /\ UNCHANGED <<parent, killed, record>>

ChildSteps(c) ==
  /\ child[c] = "tracing" /\ Steps(trace[c].lines) < MaxSteps
  /\ Adds(c, Line("step"))
  /\ UNCHANGED <<parent, child, killed, record>>

ChildRenders(c) ==
  /\ Moves(c, "tracing", "rendered")
  /\ record' = [record EXCEPT ![c] = sweep]
  /\ UNCHANGED <<parent, killed, trace>>

\* run_end: accepted only over a record
ChildEnds(c) ==
  /\ \E why \in {"accepted", "failed"} :
       /\ Moves(c, IF why = "accepted" THEN "rendered" ELSE child[c], "ended")
       /\ child[c] \in {"tracing", "rendered"}
       /\ Adds(c, RunEnd(why, Steps(trace[c].lines)))
  /\ UNCHANGED <<parent, killed, record>>

Alive(c) == child[c] \in {"up", "tracing", "rendered", "ended"}
Writing(c) == child[c] \in {"tracing", "rendered"}

\* A process that goes while it writes may leave half a line.
Goes(c) ==
  /\ Alive(c)
  /\ child' = [child EXCEPT ![c] = "gone"]
  /\ \/ trace' = trace
     \/ Writing(c) /\ Adds(c, Line("torn"))
  /\ UNCHANGED <<parent, record>>

\* The exit of a run that is over, of a run refused before its trace, or a crash.
ChildExits(c) == Goes(c) /\ UNCHANGED killed

\* Mutant: the limit is only looked at when the child has said its last word.
TimesOutAtEnd(c) == Goes(c) /\ child[c] = "ended" /\ killed' = [killed EXCEPT ![c] = TRUE]

\* subprocess.run(timeout=...): whatever the child was at
TimesOut(c) == Goes(c) /\ killed' = [killed EXCEPT ![c] = TRUE]
-----------------------------------------------------------------------------
(* The parent *)

Batch == first..last

\* What the parent knows is gone with it; the tree stays.
Forgets ==
  /\ pc' = "idle" /\ first' = 0 /\ last' = 0 /\ at' = 0
  /\ child' = [c \in Plan |-> "none"] /\ killed' = [c \in Plan |-> FALSE]
  /\ row' = [c \in Plan |-> "none"]

Accepted(c) == row[c] = "accepted"

SweepStarts ==
  /\ pc = "idle" /\ sweep < Sweeps
  /\ sweep' = sweep + 1
  /\ pc' = "between"
  /\ UNCHANGED <<first, last, at, child, killed, row, files>>

\* _stop: of the cells just finished, one that is not accepted
Stop == FailFast /\ \E c \in Batch \cap Plan : ~Accepted(c)

\* rest[start:start + jobs] ends with the list
Least(a, b) == IF a < b THEN a ELSE b

\* Mutant: a slot is used as it is found.
LaunchUncleared ==
  /\ pc = "between" /\ last < Cells /\ ~Stop
  /\ first' = last + 1
  /\ last' = IF last = 0 THEN 1 ELSE Least(Cells, last + Jobs)
  /\ pc' = "running"
  /\ child' = [c \in Plan |-> IF c \in first'..last' THEN "up" ELSE child[c]]
  /\ UNCHANGED <<sweep, at, killed, row, files>>

\* clear_slot for every cell of the batch, then the launches: the head on its own,
\* then Jobs at a time.
Launch ==
  /\ pc = "between" /\ last < Cells /\ ~Stop
  /\ first' = last + 1
  /\ last' = IF last = 0 THEN 1 ELSE Least(Cells, last + Jobs)
  /\ pc' = "running"
  /\ child' = [c \in Plan |-> IF c \in first'..last' THEN "up" ELSE child[c]]
  /\ record' = [c \in Plan |-> IF c \in first'..last' THEN 0 ELSE record[c]]
  /\ scored' = [c \in Plan |-> IF c \in first'..last' THEN Unscored ELSE scored[c]]
  /\ UNCHANGED <<sweep, at, killed, row, trace, filed>>

\* pool.map has returned: every launch of the batch is over
Collect ==
  /\ pc = "running" /\ \A c \in Batch : child[c] = "gone"
  /\ pc' = "closing" /\ at' = first
  /\ UNCHANGED <<sweep, first, last, child, killed, row, files>>

\* finish_cell, the trace: the repair and the end of a timeout, then the end a child
\* owes that left lines and no run_end; no end at all is a crash
Close ==
  /\ pc = "closing"
  /\ LET found == trace[at].lines
         cut == IF killed[at] /\ trace[at].sweep # 0 THEN Owe(Repair(found), "timeout") ELSE found
         closed == IF Ends(cut) = {} /\ Readable(cut) # {} THEN Owe(cut, "api_error") ELSE cut
     IN /\ trace' = [trace EXCEPT ![at].lines = closed]
        /\ row' = [row EXCEPT ![at] = TraceEnd(closed)]
  /\ pc' = "scoring"
  /\ UNCHANGED <<sweep, first, last, at, child, killed, record, scored, filed>>

\* finish_cell, the score: the record of the slot goes into metrics.json
Score ==
  /\ pc = "scoring"
  /\ scored' = [scored EXCEPT ![at] = [sweep |-> sweep, record |-> record[at], why |-> row[at]]]
  /\ pc' = "filing"
  /\ UNCHANGED <<sweep, first, last, at, child, killed, row, trace, record, filed>>

\* finish_cell, the failure: a copy of the trace beside its diagnosis
File ==
  /\ pc = "filing"
  /\ filed' = IF Accepted(at) \/ trace[at].sweep = 0 THEN filed
              ELSE [filed EXCEPT ![at] = sweep]
  /\ at' = IF at < last THEN at + 1 ELSE 0
  /\ pc' = IF at < last THEN "closing" ELSE "between"
  /\ UNCHANGED <<sweep, first, last, child, killed, row, trace, record, scored>>

SweepEnds ==
  /\ pc = "between" /\ (last = Cells \/ Stop)
  /\ Forgets
  /\ UNCHANGED <<sweep, files>>

\* Ctrl-C reaches the parent and the children it started; nothing is closed out.
Interrupted ==
  /\ pc # "idle"
  /\ Forgets
  /\ \E half \in SUBSET {c \in Plan : Writing(c)} :
       trace' = [c \in Plan |-> IF c \in half
                                THEN [trace[c] EXCEPT !.lines = Append(@, Line("torn"))]
                                ELSE trace[c]]
  /\ UNCHANGED <<sweep, record, scored, filed>>
-----------------------------------------------------------------------------
Parent == SweepStarts \/ Launch \/ Collect \/ Close \/ Score \/ File \/ SweepEnds

Next == \/ Parent \/ Interrupted
        \/ \E c \in Plan : \/ ChildOpens(c) \/ ChildSteps(c) \/ ChildRenders(c)
                           \/ ChildEnds(c) \/ ChildExits(c) \/ TimesOut(c)

Spec == Init /\ [][Next]_vars

\* The parent goes on and the limit of a launch passes; a child owes nothing.
FairSpec == Spec /\ WF_vars(Parent) /\ \A c \in Plan : WF_vars(TimesOut(c))
-----------------------------------------------------------------------------
(* Properties *)

\* Trace check 7 over every way a cell is closed out: the run_end a row is read from
\* carries the count of the step lines that can be read above it.
EndIsTrue ==
  \A c \in Plan : row[c] \notin {"none", "crashed"} =>
    LET lines == trace[c].lines
        end == lines[Latest(Readable(lines))]
    IN end.is = "end" /\ end.why = row[c] /\ end.steps = Steps(lines)

\* A sweep comes to its end: a child that hangs is killed at its limit.
SweepFinishes == pc # "idle" ~> pc = "idle"

=============================================================================
