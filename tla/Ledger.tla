-------------------------------- MODULE Ledger --------------------------------
(***************************************************************************)
(* A sweep up to its first model call, and the ledger of sweeps over the   *)
(* held-out cases: evals/harness/plan.py, ledger.py and run.py _check_lock,*)
(* _append_ledger and the start of sweep.  One line per sweep, each with   *)
(* the hash of the line before it, under a ceiling of two live sweeps.  A  *)
(* sweep reads the file, checks what it read and appends later, and        *)
(* nothing keeps two of them apart; people may edit the file, and commit   *)
(* it, which makes the committed copy a witness of what it has to begin    *)
(* with.  A line is [sweep, mode, adr, prev], prev the line whose hash it  *)
(* carries, as a set of at most one.                                       *)
(***************************************************************************)
EXTENDS Naturals, Sequences, SequencesExt

CONSTANTS Sweeps,      \* who runs one
          Arguments,   \* what one is asked: [split, cases, reserve, unlock, reason, mode, adr,
                       \* reproducible, seeds, arms]; cases the explicit list, <<>> for none
          Split,       \* split.yaml: dev, test and reserve, each a sequence of cases
          Manifests,   \* case -> [real, spec, split]: the hash of its spec and the group it names
          Specs,       \* case -> the hash of the spec on disk, at most one
          MaxEdits     \* bound on what people do to the file

ASSUME LedgerAssumption == MaxEdits \in Nat

VARIABLES ledger,      \* the lines on disk
          committed,   \* those of the committed copy
          sweep,       \* sweep -> its arguments, at most one
          at,          \* sweep -> ready, checked, running, refused
          lines,       \* sweep -> what it read
          edits        \* what people have done so far

ledgerVars == <<ledger, committed, sweep, at, lines, edits>>

-----------------------------------------------------------------------------
(* The plan.                                                                 *)

\* cases_for: all is dev and test; the reserve is never implied.
CasesFor(name, reserve) ==
  (IF name = "all" THEN Split["dev"] \o Split["test"] ELSE Split[name]) \o
  (IF reserve THEN Split["reserve"] ELSE <<>>)

\* membership: a case in two groups is in the later one.
Membership(case) ==
  IF Contains(Split["reserve"], case) THEN "reserve"
  ELSE IF Contains(Split["test"], case) THEN "test"
  ELSE IF Contains(Split["dev"], case) THEN "dev" ELSE "none"

\* select_cases: an explicit list as it was given, a split in the order of the file.
SelectCases(a) ==
  IF a.cases = <<>> THEN CasesFor(a.split, a.reserve)
  ELSE a.cases \o (IF a.reserve THEN Split["reserve"] ELSE <<>>)

Selected(a) == {SelectCases(a)[i] : i \in DOMAIN SelectCases(a)}

\* sweep and select_cases: what is no sweep at all.
Plannable(a) ==
  /\ Selected(a) # {}
  /\ \A case \in Selected(a) : Membership(case) # "none"
  /\ ~(a.mode = "live" /\ a.reproducible)

\* check_freeze: a synthetic case's spec is the one its manifest was made from, and manifest
\* and split agree; a case of the reserve may say test.
Frozen(a) ==
  \A case \in Selected(a) :
    LET m == Manifests[case]
    IN  /\ ~m.real => m.spec # {} /\ m.spec = Specs[case]
        /\ \/ m.split = Membership(case)
           \/ Membership(case) = "reserve" /\ m.split = "test"

\* build_cells: a cell for each case, once, under every seed and arm; their order is left out.
BuildCells(a) ==
  {[case |-> case, seed |-> a.seeds[j], arm |-> a.arms[k]] :
     case \in Selected(a), j \in DOMAIN a.seeds, k \in DOMAIN a.arms}

\* _check_lock: the cases that need the lock.
Locked(a) == {case \in Selected(a) : Membership(case) \in {"test", "reserve"}}

\* build_cells refuses an arm it does not know.
Known(a) == \A k \in DOMAIN a.arms : a.arms[k] \in {"baseline", "advanced"}

\* What _check_lock refuses before it looks at the ledger.
Unlocked(a) == a.unlock /\ a.reason
-----------------------------------------------------------------------------
(* The ledger.                                                               *)

LastOf(text) == IF text = <<>> THEN {} ELSE {text[Len(text)]}

IsPrefixOf(s, t) == Len(s) <= Len(t) /\ SubSeq(t, 1, Len(s)) = s

\* Mutant: the chain alone is checked.
ChainHoldsForward(text, witness) ==
  \A i \in DOMAIN text : text[i].prev = (IF i = 1 THEN {} ELSE {text[i - 1]})

\* check_chain: the file begins with its committed copy, each line follows the one before.
ChainHolds(text, witness) ==
  /\ IsPrefixOf(witness, text)
  /\ \A i \in DOMAIN text : text[i].prev = (IF i = 1 THEN {} ELSE {text[i - 1]})

LiveLines(text) == {i \in DOMAIN text : text[i].mode = "live"}

\* check_live_budget: a third live sweep needs an ADR that says so.
BudgetAllows(text, s) ==
  s.mode = "live" /\ (\E i, j \in LiveLines(text) : i # j) => s.adr

LedgerInit ==
  /\ ledger = <<>> /\ committed = <<>>
  /\ sweep = [s \in Sweeps |-> {}]
  /\ at = [s \in Sweeps |-> "ready"]
  /\ lines = [s \in Sweeps |-> <<>>]
  /\ edits = 0

\* sweep up to _check_lock, which with locked cases is one read and two checks.
CheckLock(s, a) ==
  /\ at[s] = "ready"
  /\ LET locked == Locked(a) # {}
         allowed == /\ Plannable(a)
                    /\ locked => Unlocked(a) /\ ChainHolds(ledger, committed) /\ BudgetAllows(ledger, a)
     IN  /\ at' = [at EXCEPT ![s] = IF allowed THEN "checked" ELSE "refused"]
         /\ sweep' = [sweep EXCEPT ![s] = IF allowed THEN {a} ELSE {}]
         /\ lines' = [lines EXCEPT ![s] = IF allowed /\ locked THEN ledger ELSE <<>>]
  /\ UNCHANGED <<ledger, committed, edits>>

\* The rest of sweep up to the first model call: the freeze, the plan and, with locked cases,
\* the line.  A reproducible replay writes nothing.
AppendLine(s) ==
  /\ at[s] = "checked"
  /\ \E a \in sweep[s] :
       IF Frozen(a) /\ Known(a)
       THEN /\ at' = [at EXCEPT ![s] = "running"]
            /\ IF Locked(a) = {} \/ (a.mode = "replay" /\ a.reproducible)
                 THEN UNCHANGED ledger
                 ELSE ledger' = Append(ledger, [sweep |-> s, mode |-> a.mode, adr |-> a.adr,
                                                prev |-> LastOf(lines[s])])
       ELSE at' = [at EXCEPT ![s] = "refused"] /\ UNCHANGED ledger
  /\ UNCHANGED <<committed, sweep, lines, edits>>

\* The sweep is interrupted between the two: it ran nothing and left no line.
Interrupt(s) ==
  /\ at[s] = "checked"
  /\ at' = [at EXCEPT ![s] = "refused"]
  /\ UNCHANGED <<ledger, committed, sweep, lines, edits>>

\* People, external: they commit the file, or drop one of its lines.
Commit ==
  /\ edits < MaxEdits /\ committed # ledger
  /\ committed' = ledger /\ edits' = edits + 1
  /\ UNCHANGED <<ledger, sweep, at, lines>>

DropLine ==
  /\ edits < MaxEdits
  /\ \E i \in DOMAIN ledger : ledger' = SubSeq(ledger, 1, i - 1) \o SubSeq(ledger, i + 1, Len(ledger))
  /\ edits' = edits + 1
  /\ UNCHANGED <<committed, sweep, at, lines>>

LedgerNext ==
  \/ \E s \in Sweeps : (\E a \in Arguments : CheckLock(s, a)) \/ AppendLine(s) \/ Interrupt(s)
  \/ Commit \/ DropLine

LedgerSpec == LedgerInit /\ [][LedgerNext]_ledgerVars
-----------------------------------------------------------------------------
\* ledger.py and _check_lock, the lock, the chain, the witness and the ceiling together: when
\* more than two live sweeps without an ADR can be told, by a line on disk or in the committed
\* copy or, while nobody has touched the file, by running over a case that the split holds
\* out, the ledger is one the check refuses.  Sweeps that overlapped break the chain, and a
\* line that was committed cannot be dropped to make room: nobody is let in again.
CeilingOrRefused ==
  LET HeldOut(a) == \E cell \in BuildCells(a), g \in {"test", "reserve"} : Contains(Split[g], cell.case)
      told == {line \in {ledger[i] : i \in DOMAIN ledger} \cup {committed[i] : i \in DOMAIN committed} :
                 line.mode = "live" /\ ~line.adr}
      ran == {s \in Sweeps : /\ at[s] = "running" /\ edits = 0
                             /\ \E a \in sweep[s] : a.mode = "live" /\ ~a.adr /\ HeldOut(a)}
      sweeps == {line.sweep : line \in told} \cup ran
  IN  (\E a, b, c \in sweeps : a # b /\ b # c /\ a # c) => ~ChainHolds(ledger, committed)
=============================================================================
