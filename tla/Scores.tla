-------------------------------- MODULE Scores --------------------------------
(***************************************************************************)
(* One record and one manifest into one score: evals/harness/score.py over *)
(* art30/naming.py.  What is scored is (store, field, does it reach), the  *)
(* store by its normalised name.                                           *)
(*                                                                         *)
(* A name is a number; Spelled says what normalisation leaves of it: its   *)
(* app prefix, as a set of at most one, and its stem, with case,           *)
(* punctuation and the plural gone; whether it carries a dot, and the name *)
(* that stands before the dot.  The stores of a record and of a manifest   *)
(* have the shape of a claim (see Check): name, kind, verdict, columns,    *)
(* overrides, and at, the declaration they cite.                           *)
(***************************************************************************)
EXTENDS Verdicts

CONSTANT Spelled

\* The REACHES of the metric, and the labels a backup may carry, are those of the verifier.

\* norm, known = None: the prefix goes whatever is left.
Stem(n, prefixes) ==
  IF Spelled[n].app \subseteq prefixes THEN <<{}, Spelled[n].stem>>
  ELSE <<Spelled[n].app, Spelled[n].stem>>

\* norm: an app prefix goes when what is left is a store of the case.
Norm(n, prefixes, known) ==
  IF Stem(n, prefixes) \in known THEN Stem(n, prefixes) ELSE <<Spelled[n].app, Spelled[n].stem>>

\* build_context: the stems of the manifest's stores, and its file stores by the line they
\* are declared on, of two the first.
Context(manifest) ==
  LET stores == manifest.stores
      files == {i \in DOMAIN stores :
                  /\ stores[i].at # {} /\ Spelled[stores[i].name].dotted
                  /\ \A j \in 1..(i - 1) : ~(Spelled[stores[j].name].dotted /\ stores[j].at = stores[i].at)}
  IN  [prefixes |-> manifest.prefixes,
       known |-> {Stem(stores[i].name, manifest.prefixes) : i \in DOMAIN stores},
       files |-> [cite \in {stores[i].at : i \in files} |->
                    stores[CHOOSE i \in files : stores[i].at = cite].name]]

StoreKey(n, ctx) == Norm(n, ctx.prefixes, ctx.known)

\* _rekeyed_stores: a store of no known name that cites a file store's line becomes that file
\* store, unless the record already has it under its own name or an earlier one became it.
Rekeyed(stores, ctx) ==
  LET taken == {StoreKey(stores[i].name, ctx) : i \in DOMAIN stores}
      Candidate(i) == {ctx.files[cite] : cite \in {stores[i].at} \cap DOMAIN ctx.files}
      Fits(i) == {n \in Candidate(i) : StoreKey(stores[i].name, ctx) \notin ctx.known /\ StoreKey(n, ctx) \notin taken}
      Target(i) == {n \in Fits(i) : \A j \in 1..(i - 1) : \A o \in Fits(j) : StoreKey(o, ctx) # StoreKey(n, ctx)}
  IN  [i \in DOMAIN stores |->
         IF Target(i) # {} THEN [stores[i] EXCEPT !.name = CHOOSE n \in Target(i) : TRUE] ELSE stores[i]]

\* The verdict a field is scored by: its own block, else its store's.
VerdictOf(store, col) == IF col \in DOMAIN store.overrides THEN store.overrides[col] ELSE store.verdict

\* A verdict a backup cannot have.
Invalid(store, col) == store.kind = "backup" /\ VerdictOf(store, col) \notin BackupOnly

\* Mutant: of two spellings the last one counts, and nothing is said of the first.
ExtractLast(stores, ctx) ==
  LET rows == UNION {{<<i, col>> : col \in stores[i].columns} : i \in DOMAIN stores}
      KeyOf(r) == <<StoreKey(stores[r[1]].name, ctx), r[2]>>
      Last(k) == CHOOSE r \in rows : KeyOf(r) = k /\ \A q \in rows : KeyOf(q) = k => q[1] <= r[1]
      Entry(r) == [reaches |-> VerdictOf(stores[r[1]], r[2]) \in Reaching /\ ~Invalid(stores[r[1]], r[2]),
                   verdict |-> VerdictOf(stores[r[1]], r[2])]
  IN  [tuples |-> [k \in {KeyOf(r) : r \in rows} |-> Entry(Last(k))],
       duplicates |-> {}, invalid |-> {r \in rows : Invalid(stores[r[1]], r[2])}]

\* _extract: of two spellings the first counts and the other is a duplicate.
Extract(stores, ctx) ==
  LET rows == UNION {{<<i, col>> : col \in stores[i].columns} : i \in DOMAIN stores}
      KeyOf(r) == <<StoreKey(stores[r[1]].name, ctx), r[2]>>
      firsts == {r \in rows : \A q \in rows : KeyOf(q) = KeyOf(r) => r[1] <= q[1]}
      Entry(r) == [reaches |-> VerdictOf(stores[r[1]], r[2]) \in Reaching /\ ~Invalid(stores[r[1]], r[2]),
                   verdict |-> VerdictOf(stores[r[1]], r[2])]
  IN  [tuples |-> [k \in {KeyOf(r) : r \in rows} |-> Entry(CHOOSE r \in firsts : KeyOf(r) = k)],
       duplicates |-> {KeyOf(r) : r \in rows \ firsts},
       invalid |-> {r \in rows : Invalid(stores[r[1]], r[2])}]

\* _predict
Predict(stores, ctx) == Extract(Rekeyed(stores, ctx), ctx)

\* _prf, the F1 of it: a fraction; of nothing against nothing, one.
F1(tp, fp, fn, empty) ==
  IF empty THEN <<1, 1>> ELSE IF tp = 0 THEN <<0, 1>> ELSE <<2 * tp, 2 * tp + fp + fn>>

\* _match: what was predicted against what is true.
Match(pred, truth) ==
  LET both == DOMAIN pred \cap DOMAIN truth
      wrong == {k \in both : pred[k].reaches # truth[k].reaches}
      spurious == DOMAIN pred \ DOMAIN truth
      missing == DOMAIN truth \ DOMAIN pred
      tp == Cardinality(both \ wrong)
      fp == Cardinality(wrong \cup spurious)
      fn == Cardinality(wrong \cup missing)
  IN  [tp |-> tp, fp |-> fp, fn |-> fn,
       f1 |-> F1(tp, fp, fn, DOMAIN pred = {} /\ DOMAIN truth = {}),
       falseSafe |-> {k \in wrong : pred[k].reaches},
       unmatched |-> {k \in spurious : pred[k].reaches},
       missing |-> missing, spurious |-> spurious, wrong |-> wrong,
       confusion |-> {<<truth[k].verdict, pred[k].verdict>> : k \in both}]

\* _set_check of _entry_point_keys; retention is compared the same way.
SetCheck(predicted, truth) ==
  [matched |-> predicted \cap truth, missing |-> truth \ predicted, spurious |-> predicted \ truth]

\* Mutant: a pass asks for the numbers alone.
PassesByNumber(stop, result, duplicates) ==
  stop = "accepted" /\ result.f1[1] = result.f1[2] /\ result.falseSafe = {}

\* The binary row: accepted, a perfect score, no false safe, nothing said twice.
Passes(stop, result, duplicates) ==
  stop = "accepted" /\ result.f1[1] = result.f1[2] /\ result.falseSafe = {} /\ duplicates = {}

\* _score_draft
ScoreDraft(draft, ctx, truth) == Match(Predict(draft.claims, ctx).tuples, truth)

\* score_run over what is in the slot: the record and the draft, sets of at most one.  No
\* record: no tuple, right or wrong, and a score of zero.
ScoreRun(record, manifest, stop, draft) ==
  LET ctx == Context(manifest)
      truth == Extract(manifest.stores, ctx).tuples
      Scored(found, result) ==
        [result |-> result, duplicates |-> found.duplicates, invalid |-> found.invalid,
         unverified |-> Cardinality({k \in DOMAIN found.tuples : found.tuples[k].verdict = "unverified"}),
         entries |-> SetCheck(UNION {{d.name : d \in rec.declared} : rec \in record}, manifest.entries),
         draft |-> {ScoreDraft(rec, ctx, truth) : rec \in draft},
         pass |-> Passes(stop, result, found.duplicates)]
  IN  IF record = {}
        THEN Scored([tuples |-> <<>>, duplicates |-> {}, invalid |-> {}],
                    [Match(<<>>, truth) EXCEPT !.fn = 0, !.f1 = <<0, 1>>])
        ELSE LET found == Predict((CHOOSE rec \in record : TRUE).claims, ctx)
             IN  Scored(found, Match(found.tuples, truth))
=============================================================================
