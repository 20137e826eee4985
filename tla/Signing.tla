------------------------------- MODULE Signing -------------------------------
(***************************************************************************)
(* From the accepted record to its score: the decision at the gate         *)
(* (advanced/gate.py decide, in its three modes), what the loop publishes  *)
(* of it (loop.py _finish, _finalise; render apply_edits), the baseline    *)
(* arm beside the advanced one, and evals/harness/cells.py scoring what is *)
(* in the slot.  A decision is [approved, by, edits], edits the kinds of   *)
(* recipient it sets, by store name.                                       *)
(***************************************************************************)
EXTENDS Check

CONSTANTS Arms(_),       \* which arms run over a scan
          Typed(_),      \* what people may type at the prompt: store -> text
          Edits(_),      \* what a decision file may carry: key -> value
          Manifests(_)   \* what may be true of a repository, as the case has it

\* A claim has its fields, a name and so many columns.
ClaimFields == {"name", "kind", "verdict", "timer", "evidence", "columns", "twice", "overrides",
                "cited", "timed", "contact", "at", "cite"}
ClaimOK(c) == DOMAIN c = ClaimFields /\ c.name \in DOMAIN Spelled /\ IsFiniteSet(c.columns)

\* What is submitted is made of claims; a name without a dot is all of its own key.
ASSUME ClaimsAssumption ==
  /\ \A n \in DOMAIN Spelled : ~Spelled[n].dotted => Spelled[n].head = n
  /\ \A g \in Scans :
       /\ \A s \in DOMAIN g.stores : g.named[s] \in DOMAIN Spelled /\ IsFiniteSet(g.stores[s].columns)
       /\ \A rec \in Records(g) : \A i \in DOMAIN rec.claims : ClaimOK(rec.claims[i])

\* A case is finite, no two of its stores have one normalised name, and a backup has a verdict
\* of its own: what evals/fixtures/checks.py asks of every case it writes.
ASSUME ManifestsAssumption ==
  \A g \in Scans : \A m \in Manifests(g) :
    /\ IsFiniteSet(DOMAIN m.stores) /\ DOMAIN m.stores \subseteq Nat
    /\ \A i \in DOMAIN m.stores :
         /\ IsFiniteSet(m.stores[i].columns)
         /\ \A col \in m.stores[i].columns : ~Invalid(m.stores[i], col)
    /\ \A i, j \in DOMAIN m.stores :
         StoreKey(m.stores[i].name, Context(m)) = StoreKey(m.stores[j].name, Context(m)) => i = j

VARIABLES arm,
          slot,      \* the run's directory and the end of its trace
          score      \* metrics.json and the manifest it was scored against, at most one

signVars == <<vars, arm, slot, score>>

Empty == [record |-> {}, draft |-> {}, point |-> {}, stop |-> "none"]

Kinds == {"unknown", "internal", "processor", "external_controller"}
Parties(rec) == {rec.claims[i].name : i \in {i \in DOMAIN rec.claims : rec.claims[i].kind = "third_party"}}

Only(names, f) == [n \in names |-> f[n]]

\* _ask_recipients: one prompt for each recipient whose name has no dot.
AskRecipients(rec, typed) ==
  Only({n \in Parties(rec) \cap DOMAIN typed : ~Spelled[n].dotted /\ typed[n] \in Kinds \ {"unknown"}}, typed)

\* Mutant: names are taken as they come.
ValidateEditsDotted(rec, raw) ==
  Only({n \in DOMAIN raw : n \in Parties(rec) /\ raw[n] \in Kinds \ {"unknown"}}, raw)

\* validate_edits: of a decision file, the recipients of this record, without a dot.
ValidateEdits(rec, raw) ==
  Only({n \in DOMAIN raw : n \in Parties(rec) /\ ~Spelled[n].dotted /\ raw[n] \in Kinds \ {"unknown"}}, raw)

\* decide: at the terminal, by a file, by the clock that waited for the file, or unasked.
Decisions(rec) ==
  {[approved |-> yes, by |-> "human", edits |-> AskRecipients(rec, typed)] :
     yes \in BOOLEAN, typed \in Typed(rec)} \cup
  {[approved |-> yes, by |-> "human", edits |-> ValidateEdits(rec, raw)] :
     yes \in BOOLEAN, raw \in Edits(rec)} \cup
  {[approved |-> FALSE, by |-> "human", edits |-> <<>>],
   [approved |-> TRUE, by |-> "simulated", edits |-> <<>>]}

\* human_completions: a key's part between its first two dots, which is what the trace says.
HumanCompletions(edits) ==
  [h \in {Spelled[n].head : n \in DOMAIN edits} |->
     edits[CHOOSE n \in DOMAIN edits : Spelled[n].head = h]]

\* apply_edits sets the stores a key of three parts names; _finalise leaves the others that
\* are recipients unknown.
Recipients(rec, edits) ==
  [i \in DOMAIN rec.claims |->
     LET n == rec.claims[i].name
     IN  IF n \in DOMAIN edits /\ ~Spelled[n].dotted THEN edits[n]
         ELSE IF rec.claims[i].kind = "third_party" THEN "unknown" ELSE "none"]

Publish(rec, edits) == [claims |-> rec.claims, declared |-> rec.declared, recipients |-> Recipients(rec, edits)]

Checkpoint(rec, d) == [risk |-> RiskRating(rec), approved |-> d.approved, by |-> d.by,
                       completions |-> HumanCompletions(d.edits)]

SignInit == Init /\ arm \in Arms(scan) /\ slot = Empty /\ score = {}

Verified == arm = "advanced" /\ Next /\ UNCHANGED <<arm, slot, score>>

\* baseline/arm.py: the schema alone, and no gate.
BaselineSubmit ==
  /\ arm = "baseline" /\ status = "open"
  /\ attempts' = attempts + 1
  /\ feedback' = [NoAnswer EXCEPT !.errors = SchemaErrors(record)]
  /\ status' = IF feedback'.errors = {} THEN "unsigned"
               ELSE IF attempts' = MaxSubmits THEN "spent" ELSE "mending"
  /\ UNCHANGED <<scan, record, screen, slipped, arm, slot, score>>

BaselineMend == arm = "baseline" /\ Mend /\ UNCHANGED <<arm, slot, score>>

\* render_all writes record.json first; what follows it may be refused.
Rendered(rec, edits, point) ==
  \E stop \in {"accepted", "render_failed"} :
    slot' = [record |-> {Publish(rec, edits)}, draft |-> {}, point |-> point, stop |-> stop]

\* The run is over: what it knew goes with its process.
Over == /\ status' = "closed"
        /\ attempts' = 0 /\ feedback' = NoAnswer /\ screen' = {} /\ slipped' = FALSE
        /\ UNCHANGED <<scan, arm, score>>

\* _finish, the gate's decision in hand.
Sign ==
  /\ status = "shown"
  /\ \E d \in Decisions(record) :
       IF d.approved THEN Rendered(record, d.edits, {Checkpoint(record, d)})
       ELSE slot' = [Empty EXCEPT !.draft = {record}, !.point = {Checkpoint(record, d)}, !.stop = "gate_rejected"]
  /\ Over /\ UNCHANGED record

\* _finish without a gate.
HandOver ==
  /\ status = "unsigned"
  /\ Rendered(record, <<>>, {})
  /\ Over /\ UNCHANGED record

\* _stop before anything is accepted: nothing is left but the trace.
GiveUp ==
  /\ status \in {"open", "mending", "spent"}
  /\ slot' = [Empty EXCEPT !.stop = IF status = "spent" THEN "max_submits" ELSE "tool_budget"]
  /\ Over /\ record' = [claims |-> <<>>, declared |-> {}, retention |-> {}, flaws |-> {}]

\* finish_cell: what is in the slot against the manifest of the case.
FinishCell ==
  /\ status = "closed" /\ score = {}
  /\ \E m \in Manifests(scan) :
       score' = {[manifest |-> m, metrics |-> ScoreRun(slot.record, m, slot.stop, slot.draft)]}
  /\ UNCHANGED <<scan, record, attempts, feedback, status, screen, slipped, arm, slot>>

SignNext == Verified \/ BaselineSubmit \/ BaselineMend \/ Sign \/ HandOver \/ GiveUp \/ FinishCell

SignSpec == SignInit /\ [][SignNext]_signVars
-----------------------------------------------------------------------------
(* Properties.                                                               *)

\* gate.py and loop.py together: what a person set at the gate is what the checkpoint says
\* they set and what the published record carries, store by store, and nothing else in the
\* record is different from what was accepted and shown.
SignedIsShown ==
  \A p \in slot.point, rec \in slot.record :
    /\ rec.claims = record.claims /\ rec.declared = record.declared
    /\ \A i \in DOMAIN rec.claims :
         LET n == rec.claims[i].name
         IN  rec.recipients[i] =
               (IF n \in DOMAIN p.completions THEN p.completions[n]
                ELSE IF rec.claims[i].kind = "third_party" THEN "unknown" ELSE "none")
    /\ \A n \in DOMAIN p.completions : n \in Parties(rec)

\* The store of the manifest a claim is about, read off their names and, for a file store no
\* claim names, its line.
Means(m, claim, t) ==
  LET ctx == Context(m)
  IN  \/ StoreKey(claim.name, ctx) = StoreKey(t.name, ctx)
      \/ claim.at = t.at /\ claim.at # {} /\ Spelled[t.name].dotted /\ StoreKey(claim.name, ctx) \notin ctx.known

\* score.py: a record that passes says of every field of the manifest what is true of it
\* and nothing of any other, whichever order its stores are in and however they are spelled.
PassIsTruth ==
  \A s \in score : s.metrics.pass =>
    LET truth == s.manifest.stores
        Says(c, t, col) == (VerdictOf(c, col) \in Reaching) = (VerdictOf(t, col) \in Reaching)
    IN  \A rec \in slot.record :
          /\ slot.stop = "accepted"
          /\ \A i \in DOMAIN rec.claims : \A col \in rec.claims[i].columns :
               \E j \in DOMAIN truth :
                 /\ Means(s.manifest, rec.claims[i], truth[j]) /\ col \in truth[j].columns
                 /\ Says(rec.claims[i], truth[j], col)
          /\ \A j \in DOMAIN truth : \A col \in truth[j].columns :
               \E i \in DOMAIN rec.claims :
                 Means(s.manifest, rec.claims[i], truth[j]) /\ col \in rec.claims[i].columns

\* score.py _score_draft, "a gate rejection must not launder a false safe": a field that is
\* said to reach erasure and does not shows in the score, of a published record and of one
\* the gate turned down; of a store a record names twice, the score of the draft tells the
\* first alone.
NothingLaundered ==
  \A s \in score :
    LET ctx == Context(s.manifest)
        truth == s.manifest.stores
        Same(n, o) == StoreKey(n, ctx) = StoreKey(o, ctx)
        Shown(claims, seen) ==
          \A i \in DOMAIN claims, j \in DOMAIN truth :
            Same(claims[i].name, truth[j].name) =>
              \A col \in claims[i].columns \cap truth[j].columns :
                VerdictOf(claims[i], col) \in Reaching /\ VerdictOf(truth[j], col) \notin Reaching
                  => <<StoreKey(claims[i].name, ctx), col>> \in seen
        Later(claims) ==
          UNION {{<<StoreKey(claims[i].name, ctx), col>> : col \in claims[i].columns} :
                   i \in {i \in DOMAIN claims : \E j \in 1..(i - 1) : Same(claims[i].name, claims[j].name)}}
    IN  /\ \A rec \in slot.record : Shown(rec.claims, s.metrics.result.falseSafe \cup s.metrics.duplicates)
        /\ \A rec \in slot.draft : \A d \in s.metrics.draft : Shown(rec.claims, d.falseSafe \cup Later(rec.claims))
        /\ slot.draft # {} => s.metrics.draft # {}

\* What the verifier found, as a manifest would say it.
FoundAsTruth ==
  LET stores == Sorted(DOMAIN feedback.found)
  IN  [stores |-> [i \in DOMAIN stores |->
                     LET s == stores[i]
                     IN  [name |-> scan.named[s], kind |-> scan.stores[s].kind,
                          verdict |-> feedback.found[s].verdict, columns |-> scan.stores[s].columns,
                          overrides |-> feedback.found[s].fields, at |-> {s}]],
       prefixes |-> UNION {Spelled[n].app : n \in DOMAIN Spelled}, entries |-> {}]

\* No two stores of the scan have one normalised name, which nothing in the detectors promises.
NamesApart(g) ==
  \A s, t \in DOMAIN g.stores : Spelled[g.named[s]].stem = Spelled[g.named[t]].stem => s = t

\* check.py and score.py, two readings of one record: were the truth what the verifier found,
\* field by field, no record it accepts has a false safe; but for a store the two take for
\* different ones, as score.py knows it by its name and check.py by the line it cites, and for
\* one the verifier takes for none, whose fields it does not read.  Of two stores with one
\* normalised name score.py knows the first alone.
AcceptedScoresSafe ==
  arm = "advanced" /\ status \in {"accepted", "shown"} /\ NamesApart(scan) =>
    LET ctx == Context(FoundAsTruth)
        scored == Rekeyed(record.claims, ctx)
        matched == feedback.matched
        Of(i) == StoreKey(scored[i].name, ctx)
        apart == {Of(i) : i \in {i \in DOMAIN scored :
                     i \in DOMAIN matched => Of(i) # StoreKey(scan.named[matched[i]], ctx)}}
    IN  \A k \in ScoreRun({record}, FoundAsTruth, "accepted", {}).result.falseSafe : k[1] \in apart

\* docs/spec/03-verifier.md 7.3, of the record's verdict "for a store (or field)": one that
\* reaches erasure, on a store the detectors never saw, is turned down.
UnseenIsTurnedDown ==
  arm = "advanced" /\ status \in {"accepted", "shown"} =>
    \A i \in DOMAIN record.claims \ DOMAIN feedback.matched :
      \A col \in record.claims[i].columns : VerdictOf(record.claims[i], col) \notin Reaching
=============================================================================
