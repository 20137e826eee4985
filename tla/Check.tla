-------------------------------- MODULE Check --------------------------------
(***************************************************************************)
(* The record against the scan, and the rounds of it: advanced/arm.py      *)
(* handle_submit, art30/arm.py validate, verify/check.py, completeness.py, *)
(* declared.py and citations.py.  A model submits a record; what is wrong  *)
(* with it comes back with what is expected instead; it has MaxSubmits     *)
(* attempts.  The verifier's side is a function of scan and record, the    *)
(* model's is any model that does what it is told.                         *)
(*                                                                         *)
(* A claim is one store of the record: [name, kind, verdict, timer,        *)
(* evidence, columns, twice, overrides, cited, timed, contact, at, cite].  *)
(* evidence is on or off what the verifier found, or none; twice says that *)
(* a column is listed again; of the columns with a verdict of their own,   *)
(* cited are those with evidence and timed those with a timer; at is the   *)
(* store whose declaration declared_at cites, as a set of at most one;     *)
(* cite is how one of the claim's positions reads back from disk.  A       *)
(* record is [claims, declared, retention, flaws]: declared its entry      *)
(* points, retention its time limits, flaws what is wrong with its text.   *)
(***************************************************************************)
EXTENDS Discovery, Scores

CONSTANTS Scans,        \* what detection may have found
          Records(_),   \* what a model may first submit against a scan
          MaxSubmits

ASSUME CheckAssumption == MaxSubmits \in Nat \ {0}

\* An entry point, discovered or declared: it has a place in the order and at most one function.
Keyed(e) == e.name \in Nat /\ e.at \in Nat /\ \A x, y \in e.symbol : x = y

\* What a scan and a record are: the entry points are those of the passes, the stores have
\* their order and columns where the guard fires (it reads them), there are finitely many of
\* what there are several of, claims are listed.
ASSUME InputsAssumption ==
  \A g \in Scans :
    /\ g.entries = InOrder(Discover(g.code))
    /\ IsFiniteSet(Discover(g.code)) /\ \A e \in Discover(g.code) : Keyed(e)
    /\ IsFiniteSet(DOMAIN g.stores) /\ DOMAIN g.stores \subseteq Nat
    /\ \A s \in DOMAIN g.stores : g.stores[s].columns = {} => g.stores[s].guard = "none"
    /\ \A rec \in Records(g) :
         /\ rec = [claims |-> rec.claims, declared |-> rec.declared,
                   retention |-> rec.retention, flaws |-> rec.flaws]
         /\ IsFiniteSet(rec.declared) /\ \A d \in rec.declared : Keyed(d)
         /\ rec.claims \in Seq(Members(rec.claims))

VARIABLES scan, record,
          attempts,     \* submits so far
          feedback,     \* of the last of them
          status,       \* open, mending, accepted, shown or spent
          screen,       \* what the gate shows beside the record, at most one
          slipped       \* whether the model has made a mistake of its own (history)

vars == <<scan, record, attempts, feedback, status, screen, slipped>>

\* The elements of a set of numbers, in order.
Sorted(S) == [i \in 1..Cardinality(S) |-> CHOOSE x \in S : Cardinality({y \in S : y < x}) = i - 1]

\* One choice out of each set of a sequence.
Picks(sets) ==
  LET first[k \in 0..Len(sets)] ==
        IF k = 0 THEN {<<>>} ELSE {Append(f, x) : f \in first[k - 1], x \in sets[k]}
  IN  first[Len(sets)]
-----------------------------------------------------------------------------
(* declared.py: the record's entry points against the discovered ones.       *)

\* Something outside the process can call the function.
Registered(g, symbol) ==
  \/ symbol \in g.invocable
  \/ \E e \in Members(g.entries) : symbol \in e.symbol /\ e.flags # {}

Confirmed(g, d) == \E e \in Members(g.entries) : e.name = d.name /\ e.at = d.at

\* What a declared row becomes.
Status(g, d) ==
  IF Confirmed(g, d) THEN "confirmed"
  ELSE IF d.symbol = {} THEN "unresolved"
  ELSE IF \E s \in d.symbol : Registered(g, s) THEN "declared_only"
  ELSE "declared_unregistered"

\* The declared rows that become start nodes: not the confirmed and the unresolved ones, and
\* of one name the first that is not discovered.
NewRows(g, declared) ==
  {d \in declared :
     /\ Status(g, d) \in {"declared_only", "declared_unregistered"}
     /\ \A e \in Members(g.entries) : e.name # d.name
     /\ \A c \in declared : c.name = d.name /\ c.at < d.at
                              => Status(g, c) \notin {"declared_only", "declared_unregistered"}}

Start(d, flags) == [name |-> d.name, at |-> d.at, kind |-> d.kind, symbol |-> d.symbol, flags |-> flags]

\* The start nodes a record adds.
DeclaredStarts(g, declared) == {Start(d, {Status(g, d)}) : d \in NewRows(g, declared)}

\* Reach over what was discovered and what was declared.
ReachOf(g, rec) == NewReach(g, InOrder(Members(g.entries) \cup DeclaredStarts(g, rec.declared)))
-----------------------------------------------------------------------------
(* completeness.py: which store of the scan a claim is about.                *)

\* The stores a claim may take: by its name, else by the line it cites and, in the second
\* sweep, by its name without an app prefix.
Fitting(g, c, sweep, free) ==
  LET exact == free \cap g.exact[c.name]
      stripped == free \cap g.stripped[c.name]
  IN  IF exact # {} THEN exact
      ELSE IF free \cap c.at # {} THEN free \cap c.at
      ELSE IF sweep = 2 THEN stripped ELSE {}

\* Claim -> store, each store taken once; two sweeps over the whole record.
Matched(g, claims) ==
  LET n == Len(claims)
      Take(m, i, sweep) ==
        LET fit == Fitting(g, claims[i], sweep, DOMAIN g.stores \ {m[j] : j \in DOMAIN m})
        IN  IF i \in DOMAIN m \/ fit = {} THEN m
            ELSE [j \in DOMAIN m \cup {i} |->
                    IF j = i THEN CHOOSE s \in fit : \A t \in fit : s <= t ELSE m[j]]
      after[k \in 0..(2 * n)] ==
        IF k = 0 THEN <<>> ELSE Take(after[k - 1], ((k - 1) % n) + 1, ((k - 1) \div n) + 1)
  IN  after[2 * n]

\* The guard: fields that say personal data, with a tie to a person where they only may.
Fires(store) == store.guard = "strong" \/ (store.guard = "qualified" /\ store.linked)

Missing(g, matched) ==
  {s \in DOMAIN g.stores : Fires(g.stores[s]) /\ \A i \in DOMAIN matched : matched[i] # s}
-----------------------------------------------------------------------------
(* citations.py: a position, re-read from disk; the first failure is the one *)
(* reported.                                                                 *)
CiteProblem(p) ==
  IF ~p.scanned THEN {"file"}
  ELSE IF ~p.within THEN {"line"}
  ELSE IF ~p.named THEN {"name"}
  ELSE IF ~p.there THEN {"symbol"} ELSE {}
-----------------------------------------------------------------------------
(* art30/arm.py: the schema and the handler invariants, before the verifier. *)

NeedsEvidence == Reaching \cup {"pseudonymised", "governed_by_retention"}
Timed == {"erased_after_timer", "governed_by_retention"}

\* Mutant: without an entry point a backup takes no_entry_point too.
ThirdPartyKeeps == {"third_party"}

\* The kinds whose verdict does not hang on there being an entry point.
KindKeepsVerdict == {"backup", "third_party"}

\* norm: what a name is compared by, its prefix kept.
NameKey(n) == <<Spelled[n].app, Spelled[n].stem>>
NameKeys(claims) == {NameKey(claims[i].name) : i \in DOMAIN claims}

\* _erasure: what is wrong with a store's or a column's verdict.
BlockErrors(kind, verdict, cited, timer) ==
  {e \in {"evidence", "timer", "kind"} :
     \/ e = "evidence" /\ verdict \in NeedsEvidence /\ ~cited
     \/ e = "timer" /\ (verdict \in Timed) # timer
     \/ e = "kind" /\ (kind = "backup") # (verdict \in BackupOnly)}

\* invariants, of one claim: it has columns, none of them twice, its name is no earlier
\* claim's, and the verdicts of its columns are others than its own.
ClaimErrors(rec, i) ==
  LET c == rec.claims[i]
  IN  BlockErrors(c.kind, c.verdict, c.evidence # "none", c.timer) \cup
      {e \in {"columns", "twice", "no_entry_point", "name", "override"} :
         \/ e = "columns" /\ c.columns = {}
         \/ e = "twice" /\ c.twice
         \/ /\ e = "no_entry_point" /\ rec.declared = {}
            /\ c.kind \notin KindKeepsVerdict /\ c.verdict # "no_entry_point"
         \/ e = "name" /\ \E j \in 1..(i - 1) : NameKey(rec.claims[j].name) = NameKey(c.name)
         \/ /\ e = "override"
            /\ \E col \in DOMAIN c.overrides :
                 \/ c.overrides[col] = c.verdict
                 \/ BlockErrors(c.kind, c.overrides[col], col \in c.cited, col \in c.timed) # {}}

\* _retention: a time limit has days or a criterion and a line, and is of a store of the record.
Stated(rec, limit) == limit.whole /\ NameKey(limit.store) \in NameKeys(rec.claims)

\* validate: the claims something is wrong with, 0 for the rest of the record; a record that
\* has not the schema's shape is told that and no more.
SchemaErrors(rec) ==
  IF "shape" \in rec.flaws THEN {0}
  ELSE {i \in DOMAIN rec.claims : ClaimErrors(rec, i) # {}} \cup
       (IF rec.flaws # {} \/ \E limit \in rec.retention : ~Stated(rec, limit) THEN {0} ELSE {})
-----------------------------------------------------------------------------
(* check.py                                                                  *)

\* The verifier's verdict on every store, the record's columns in hand.
VerdictsOf(r, rec, matched) ==
  [s \in DOMAIN r.scan.stores |->
     Decide(r, s, UNION {rec.claims[i].columns : i \in {i \in DOMAIN matched : matched[i] = s}})]

\* Rows 1 to 3: claimed is safer than what was found.
Contradicts(claimed, found) ==
  \/ claimed \in Reaching /\ found \notin Reaching
  \/ claimed = "erased" /\ found = "erased_after_timer"

\* The verdict a column is held to.
FieldVerdict(v, col) == IF col \in DOMAIN v.fields THEN v.fields[col] ELSE v.verdict

\* Mutant: a field's block is not compared with anything.
RejectionsOfStore(c, v) ==
  IF Contradicts(c.verdict, v.verdict)
    THEN {[what |-> "store", col |-> {}, expected |-> v.verdict]}
  ELSE IF c.verdict = v.verdict /\ v.verdict \in Reaching /\ v.path # {} /\ c.evidence = "off"
    THEN {[what |-> "evidence", col |-> {}, expected |-> v.verdict]} ELSE {}

\* Rejections of one claim: [what, expected], col the column of an override.
Rejections(c, v) ==
  (IF Contradicts(c.verdict, v.verdict)
     THEN {[what |-> "store", col |-> {}, expected |-> v.verdict]}
     ELSE IF c.verdict = v.verdict /\ v.verdict \in Reaching /\ v.path # {} /\ c.evidence = "off"
     THEN {[what |-> "evidence", col |-> {}, expected |-> v.verdict]} ELSE {}) \cup
  {[what |-> "field", col |-> {col}, expected |-> FieldVerdict(v, col)] :
     col \in {col \in DOMAIN c.overrides : Contradicts(c.overrides[col], FieldVerdict(v, col))}}

\* A store the detectors never saw.
Uncorroborated(c) ==
  IF c.verdict \in Reaching THEN {[what |-> "store", col |-> {}, expected |-> "unverified"]} ELSE {}

\* 7.1: handle_submit's answer to a record.
Checked(g, rec) ==
  LET r == ReachOf(g, rec)
      matched == Matched(g, rec.claims)
      found == VerdictsOf(r, rec, matched)
      rejected == [i \in DOMAIN rec.claims |->
                     IF i \in DOMAIN matched THEN Rejections(rec.claims[i], found[matched[i]])
                     ELSE Uncorroborated(rec.claims[i])]
  IN  [errors |-> {}, rejected |-> rejected, missing |-> Missing(g, matched),
       bad |-> {i \in DOMAIN rec.claims : CiteProblem(rec.claims[i].cite) # {}},
       found |-> found, matched |-> matched]

NoAnswer == [errors |-> {}, rejected |-> <<>>, missing |-> {}, bad |-> {},
             found |-> <<>>, matched |-> <<>>]

Answer(g, rec) ==
  IF SchemaErrors(rec) # {} THEN [NoAnswer EXCEPT !.errors = SchemaErrors(rec)]
  ELSE Checked(g, rec)

Accepted(f) == /\ f.errors = {} /\ f.missing = {} /\ f.bad = {}
               /\ \A i \in DOMAIN f.rejected : f.rejected[i] = {}

Init ==
  /\ scan \in Scans /\ record \in Records(scan)
  /\ attempts = 0 /\ feedback = NoAnswer /\ status = "open" /\ screen = {}
  /\ slipped = FALSE

\* A record is submitted and answered.
HandleSubmit ==
  /\ status = "open"
  /\ attempts' = attempts + 1
  /\ feedback' = Answer(scan, record)
  /\ status' = IF Accepted(feedback') THEN "accepted"
               ELSE IF attempts' = MaxSubmits THEN "spent" ELSE "mending"
  /\ UNCHANGED <<scan, record, screen, slipped>>
-----------------------------------------------------------------------------
(* The gate: advanced/arm.py over the accepted record.                       *)

HighVerdicts == VerdictNames \ (Reaching \cup {"governed_by_retention"})

\* 6.4: the rating of the record, from its own verdicts and categories.
RiskRating(rec) ==
  LET found == {rec.claims[i].verdict : i \in DOMAIN rec.claims}
  IN  IF \E i \in DOMAIN rec.claims : rec.claims[i].contact /\ rec.claims[i].verdict \in HighVerdicts
        THEN "high"
      ELSE IF "erased_after_timer" \in found /\ found \subseteq Reaching THEN "medium" ELSE "low"

\* risk_flags: the same of the verifier's verdicts, which know no categories.
RiskFlags(g, found) ==
  LET Verdict(s) == found[s].verdict
      stores == DOMAIN found
      plain == {s \in stores : Verdict(s) \notin BackupOnly}
  IN  IF \E s \in stores : /\ Verdict(s) \in HighVerdicts
                          /\ (g.stores[s].guard # "none" \/ g.stores[s].linked \/ g.stores[s].columns = {})
        THEN "high"
      ELSE IF /\ \A s \in plain : Verdict(s) \in Reaching
              /\ \E s \in plain : Verdict(s) = "erased_after_timer" THEN "medium" ELSE "low"

\* cross_check: the verifier's own rating and, where it is another, the stores the two disagree
\* on.  Its walks start from the discovered entry points alone.
CrossCheck(g, rec) ==
  LET matched == Matched(g, rec.claims)
      found == VerdictsOf(NewReach(g, g.entries), rec, matched)
  IN  [risk |-> RiskRating(rec), rating |-> RiskFlags(g, found), found |-> found,
       stores |-> IF RiskFlags(g, found) = RiskRating(rec) THEN {}
                  ELSE {matched[i] : i \in {i \in DOMAIN matched :
                                               rec.claims[i].verdict # found[matched[i]].verdict}}]

\* The accepted record goes to the gate.
Gate ==
  /\ status = "accepted"
  /\ screen' = {CrossCheck(scan, record)}
  /\ status' = "shown"
  /\ UNCHANGED <<scan, record, attempts, feedback, slipped>>
-----------------------------------------------------------------------------
(* The model, external: it does what the feedback says and nothing else.     *)

\* The columns whose own verdict stays when a claim gets this kind and verdict: it is another
\* than the claim's, of its kind.
KeptOverrides(c, kind, verdict) ==
  {col \in DOMAIN c.overrides :
     c.overrides[col] # verdict /\ (kind = "backup") = (c.overrides[col] \in BackupOnly)}

\* A claim with a kind and a verdict, and what goes with them.
Reshaped(c, errors, kind, verdict) ==
  LET kept == IF "override" \in errors THEN KeptOverrides(c, kind, verdict) ELSE DOMAIN c.overrides
  IN  [c EXCEPT !.verdict = verdict, !.kind = kind, !.timer = verdict \in Timed, !.twice = FALSE,
                !.evidence = IF "evidence" \in errors THEN "on" ELSE @,
                !.overrides = [col \in kept |-> c.overrides[col]],
                !.cited = IF "override" \in errors THEN kept ELSE @,
                !.timed = IF "override" \in errors THEN {col \in kept : c.overrides[col] \in Timed} ELSE @]

\* What a schema error asks for.
MendedSchema(c, errors) ==
  LET verdicts == IF "no_entry_point" \in errors THEN {"no_entry_point"}
                  ELSE IF "kind" \notin errors THEN {c.verdict}
                  ELSE IF c.kind = "backup" THEN BackupOnly ELSE {c.verdict, "not_erased"}
  IN  {Reshaped(c, errors, IF "kind" \in errors /\ d \in BackupOnly THEN "backup" ELSE c.kind, d) :
         d \in verdicts}

\* A citation is moved to where it was asked for; in another file the line may be wrong.
MendedCite(p, careful) ==
  IF CiteProblem(p) = {"file"}
    THEN {[p EXCEPT !.scanned = TRUE, !.within = TRUE, !.there = t] : t \in {TRUE, careful}}
  ELSE {[scanned |-> TRUE, within |-> TRUE, named |-> TRUE, there |-> TRUE]}

\* The verdicts that rejections expect of a claim's store or of its evidence.
Asked(rejected, what) == {x.expected : x \in {x \in rejected : x.what = what}}

\* A field's block, with what a rejection of it expects.
Corrected(overrides, rejected) ==
  LET Field(col) == {x.expected : x \in {x \in rejected : x.col = {col}}}
  IN  [col \in DOMAIN overrides |-> IF Field(col) = {} THEN overrides[col]
                                    ELSE CHOOSE x \in Field(col) : TRUE]

\* A claim that is mended: verdict, timer and citation chosen, the rest as it was asked for.
Rewritten(c, rejected, verdict, timer, cite) ==
  LET own == Corrected(c.overrides, rejected)
  IN  [c EXCEPT !.verdict = verdict, !.timer = timer, !.cite = cite, !.overrides = own,
                !.timed = {col \in DOMAIN own : IF own[col] = c.overrides[col] THEN col \in @
                                                ELSE own[col] \in Timed},
                !.evidence = IF Asked(rejected, "evidence") # {} THEN "on" ELSE @]

\* What the rejections of a claim ask for, all at once; the timer may be forgotten.
Mended(c, rejected, careful) ==
  LET verdicts == IF Asked(rejected, "store") = {} THEN {c.verdict} ELSE Asked(rejected, "store")
      timed == IF Asked(rejected, "store") = {} THEN c.timer ELSE Asked(rejected, "store") \subseteq Timed
  IN  {Rewritten(c, rejected, v, t, p) :
         v \in verdicts, t \in IF careful THEN {timed} ELSE {c.timer, timed}, p \in MendedCite(c.cite, careful)}

\* A store that is missing is added: with a verdict that promises nothing, or with one the
\* model believes in, from a file it has not read.
Added(g, s, careful) ==
  {[name |-> g.named[s], kind |-> g.stores[s].kind, verdict |-> v, timer |-> FALSE,
    evidence |-> "off", columns |-> g.stores[s].columns, twice |-> FALSE, contact |-> TRUE,
    overrides |-> <<>>, cited |-> {}, timed |-> {}, at |-> {},
    cite |-> [scanned |-> scanned, within |-> TRUE, named |-> TRUE, there |-> TRUE]] :
      v \in IF g.stores[s].kind = "backup" THEN {"no_schedule_evidenced"}
            ELSE IF careful THEN {"not_erased"} ELSE {"erased", "not_erased"},
      scanned \in {TRUE, careful}}

\* The schema's errors are mended: claims without a column or under a name that is taken go,
\* and time limits are completed where they are of a store of the record.
MendSchema ==
  /\ status = "mending" /\ feedback.errors # {}
  /\ IF "shape" \in record.flaws THEN record' = [record EXCEPT !.flaws = @ \ {"shape"}]
     ELSE LET kept == Sorted({i \in DOMAIN record.claims :
                                ClaimErrors(record, i) \cap {"columns", "name"} = {}})
              limits == {t \in record.retention : NameKey(t.store) \in NameKeys(record.claims)}
          IN  \E claims \in Picks([k \in DOMAIN kept |->
                                  MendedSchema(record.claims[kept[k]], ClaimErrors(record, kept[k]))]) :
                record' = [record EXCEPT !.claims = claims, !.flaws = {},
                                         !.retention = {[t EXCEPT !.whole = TRUE] : t \in limits}]
  /\ status' = "open"
  /\ UNCHANGED <<scan, attempts, feedback, screen, slipped>>

\* The verifier's findings are mended.
MendFindings ==
  /\ status = "mending" /\ feedback.errors = {}
  /\ \E careful \in BOOLEAN :
       LET missing == Sorted(feedback.missing)
       IN  \E claims \in Picks([i \in DOMAIN record.claims |->
                               Mended(record.claims[i], feedback.rejected[i], careful)]),
               more \in Picks([k \in DOMAIN missing |-> Added(scan, missing[k], careful)]) :
             /\ record' = [record EXCEPT !.claims = claims \o more]
             /\ slipped' = (slipped \/ ~careful)
  /\ status' = "open"
  /\ UNCHANGED <<scan, attempts, feedback, screen>>

Mend == MendSchema \/ MendFindings

Next == HandleSubmit \/ Mend \/ Gate

Spec == Init /\ [][Next]_vars
-----------------------------------------------------------------------------
(* Properties.                                                               *)

\* Attempts stay within the budget and every verdict given is one of the ten labels.
TypeOK ==
  /\ attempts \in 0..MaxSubmits
  /\ status \in {"open", "mending", "accepted", "shown", "spent", "unsigned", "closed"}
  /\ DOMAIN feedback.found \in {{}, DOMAIN scan.stores}
  /\ \A s \in DOMAIN feedback.found : feedback.found[s].verdict \in VerdictNames
  /\ Cardinality(screen) <= 1

\* What a verdict rests on, read off the walks alone: a person the repository itself lets in
\* reaches the rows, no table that blocks their delete is left untouched and, where rows
\* are only marked, a job does not count unless it is scheduled, which is all it needs; or
\* every column the scan saw is blanked and such a person gets to one of the functions that
\* write it; or rows are marked and a scheduled job whose days can be read reaches them.  The
\* processor's row is the forwarding call.
Backed(r, s, verdict) ==
  LET known == {e \in Members(r.starts) :
                  e \in Members(r.scan.entries) \/ \A x \in e.symbol : Registered(r.scan, x)}
      ReachedBy(es) == \E e \in es : s \in DOMAIN r.walk[e.name][TRUE]
      jobs == {e \in Members(r.jobs) : Scheduled(r, e)}
      now == /\ ReachedBy(IF Markers(r, s) = {} THEN known
                            ELSE jobs \cup {e \in known : e.kind \notin JobKinds})
             /\ \A rel \in Blocking(r, s) : Reaches(r, rel.child)
             /\ \A rel \in r.scan.relations :
                  rel.parent = s /\ rel.token = "protect" => Reaches(r, rel.child)
      writes == WritesFor(r, s, r.starts)
      blanked == {w.column : w \in {w \in writes : w.kind = "constant"}}
  IN  \/ r.scan.stores[s].kind = "third_party" /\ Forwards(r, s)
      \/ now
      \/ /\ r.scan.stores[s].columns \subseteq blanked
         /\ \E e \in known, w \in writes : w.symbol \in DOMAIN r.walk[e.name][TRUE]
      \/ /\ verdict # "erased" /\ Markers(r, s) # {}
         /\ ReachedBy({e \in jobs : \E x \in e.symbol : ParseDays(r.scan, x) # {}})

\* What a person is asked to approve is backed: an accepted record names every store whose
\* fields say personal data, and each of its claims that rows go is about a store of the
\* scan and rests on something the walks show, not on an entry point only the record has
\* and nothing in the repository registers or schedules (the rows of verdicts.py, both caps,
\* the guard and the two sweeps together).
AcceptedIsBacked ==
  status \in {"accepted", "shown"} =>
    LET r == ReachOf(scan, record)
    IN  /\ Missing(scan, feedback.matched) = {}
        /\ \A i \in DOMAIN record.claims :
             record.claims[i].verdict \in Reaching =>
               /\ i \in DOMAIN feedback.matched
               /\ Backed(r, feedback.matched[i], record.claims[i].verdict)

\* The columns a record names can take a store's erasure away but never earn one the scan's
\* own columns do not (anon.py's union of the two lists, where the scan saw columns at all).
ColumnsNeverRaise ==
  LET r == ReachOf(scan, record)
  IN  \A s \in DOMAIN feedback.found :
        scan.stores[s].columns # {} /\ feedback.found[s].verdict \in Reaching
          => Decide(r, s, {}).verdict \in Reaching

\* The rules of arm.py, the rows of check.py and the guard do not send a model round in
\* circles, one asking for what another refuses (the worry of 04-output-schema.md:115): one
\* that does what each answer asks has its record accepted within MaxSubmits attempts.  Who
\* runs out of them has slipped: forgotten a timer it was asked for, mistaken a line, or
\* added a missing store with a verdict nobody had asked for or from a file not read.
EnoughAttempts == status = "spent" => slipped

\* Nothing in the repository runs x: it is decorated as a task and no more, nothing puts
\* one of its names on a schedule or dispatches it, no route leads to it.
NothingRuns(c, x) ==
  /\ DecoratedAs(c, x, "task") # {} /\ c.functions[x].owner = {}
  /\ \A d \in c.functions[x].decorators : d.kind = "task" /\ ~d.periodic
  /\ TaskNames(c, x) \cap (c.schedules \cup UNION {site.names : site \in c.sites}) = {}
  /\ \A site \in c.sites : x \notin ViewSymbol(c, site.view)

\* The passes of entrypoints.py: what one of them set aside as unscheduled no other brings
\* back under another kind, so no walk begins at a job that nothing runs.
UnscheduledStaysOut ==
  \A e \in Members(Starts(scan.entries)) : \A x \in e.symbol : ~NothingRuns(scan.code, x)

\* caps.py only_declared and 03-verifier.md 2.5: no verdict that rows go is derived from an
\* entry point that is declared and not registered; without it the verdict is the same.
CapHolds ==
  feedback.found # <<>> =>
    LET known == {d \in record.declared : Status(scan, d) # "declared_unregistered"}
        r == ReachOf(scan, [record EXCEPT !.declared = known])
    IN  \A s \in DOMAIN feedback.found :
          feedback.found[s].verdict \in Reaching =>
            VerdictsOf(r, record, feedback.matched)[s].verdict \in Reaching

=============================================================================
