------------------------------- MODULE Verdicts -------------------------------
(***************************************************************************)
(* What the verifier says of one store: verify/reach.py (class Reach),     *)
(* anon.py, timers.py, verdicts.py, downgrades.py and caps.py.  Nine rows  *)
(* applied in order, then two caps; the labels that claim an erasure are   *)
(* only given where the walk has found one.                                *)
(*                                                                         *)
(* A scan g is what detection found, reduced to what the rows tell apart.  *)
(* Names are numbers, in the order the code sorts them.                    *)
(*   entries    sequence, sorted: [name, at, kind, symbol (a set of at     *)
(*              most one), flags]                                          *)
(*   symbols    functions; wrapped: those under an unmodelled decorator    *)
(*   edges      [src, dst, guessed, site], the steps the modes of the walk *)
(*              allow (module Reach), site what the call site shows        *)
(*   stores     name -> [kind, columns, root, flags, owner]                *)
(*   relations  [parent, child, token, field, ddl]                         *)
(*   writes     [store, column, kind, symbol]                              *)
(*   decorated, registered    symbols with a decorator; named by a schedule*)
(*   waits      symbol -> [written, beside]: the keywords that carry days  *)
(*              in the order of its call sites, [per, n], n a set of at    *)
(*              most one, and the retention constants of its module        *)
(*   weak, references, opaque, raw    R11, 1.5, CG-12 and R19              *)
(*   disagree   the settings modules disagree about django_cleanup         *)
(*   code       the repository the passes of Discovery read                *)
(*   invocable  symbols with a registration shape (Discovery)              *)
(*   exact, stripped, named    claim names -> stores, and back (Check)     *)
(***************************************************************************)
EXTENDS Naturals, Sequences, FiniteSets

Reaching == {"erased", "erased_after_timer", "anonymised"}
BackupOnly == {"governed_by_retention", "no_schedule_evidenced"}
VerdictNames == Reaching \cup BackupOnly \cup
  {"external_manual", "no_entry_point", "pseudonymised", "unverified", "not_erased"}

JobKinds == {"cli", "task"}

\* The first element of a sequence that fits, as a set of at most one.
FirstOf(seq, Fits(_)) ==
  LET fit == {i \in DOMAIN seq : Fits(seq[i])}
  IN  {seq[i] : i \in {i \in fit : \A j \in fit : i <= j}}

Members(seq) == {seq[i] : i \in DOMAIN seq}

\* The elements of a sequence that fit, each at its place.
Keep(seq, Fits(_)) == [i \in {i \in DOMAIN seq : Fits(seq[i])} |-> seq[i]]
-----------------------------------------------------------------------------
(* The walk.  A path is the sequence of edges taken.                        *)

\* Of two paths of one length, the one the queue holds first.
Before(p, q) ==
  \E k \in DOMAIN p : /\ p[k].dst < q[k].dst
                      /\ \A j \in 1..(k - 1) : p[j].dst = q[j].dst

\* _search without its modes: the first path to every node it reaches.
Search(edges, start, resolved, blocked) ==
  LET usable == {e \in edges : e.dst \notin blocked /\ ~(resolved /\ e.guessed)}
      Grow(w) ==
        LET new == {e \in usable : e.src \in DOMAIN w /\ e.dst \notin DOMAIN w}
            Ways(n) == {Append(w[e.src], e) : e \in {e \in new : e.dst = n}}
        IN  [n \in DOMAIN w \cup {e.dst : e \in new} |->
               IF n \in DOMAIN w THEN w[n]
               ELSE CHOOSE p \in Ways(n) : \A q \in Ways(n) : ~Before(q, p)]
      after[k \in Nat] == IF k = 0 THEN [n \in {start} |-> <<>>] ELSE Grow(after[k - 1])
  IN  after[Cardinality({e.dst : e \in usable})]

\* An entry point's node is its name: two entry points of one name share their edges.
EntryEdges(entries) ==
  UNION {{[src |-> e.name, dst |-> s, guessed |-> FALSE, site |-> "entry"] : s \in e.symbol} :
           e \in Members(entries)}

\* The entry points a reaching verdict may start from.
Starts(entries) == Keep(entries, LAMBDA e : "unscheduled" \notin e.flags)

\* A Reach object: the walks of every entry point, memoised by its node.
NewReach(g, entries) ==
  LET edges == g.edges \cup EntryEdges(entries)
  IN  [scan |-> g, entries |-> entries, starts |-> Starts(entries), edges |-> edges,
       jobs |-> Keep(Starts(entries), LAMBDA e : e.kind \in JobKinds),
       walk |-> [n \in {e.name : e \in Members(entries)} |->
                   [resolved \in BOOLEAN |-> Search(edges, n, resolved, {})]]]

\* The first start, in sorted order, whose walk reaches a node.
Reached(r, node, resolved, exclude) ==
  {[entry |-> e, path |-> r.walk[e.name][resolved][node]] :
     e \in FirstOf(r.starts, LAMBDA e : /\ e.name \notin exclude
                                        /\ node \in DOMAIN r.walk[e.name][resolved])}

Reaches(r, node) == Reached(r, node, TRUE, {}) # {}

\* from_symbol: a walk that starts at a bare symbol, guesses allowed.
FromSymbol(r, symbol, node) == node \in DOMAIN Search(r.edges, symbol, FALSE, {})

\* path_symbols: the functions on a resolved walk from some of the entry points.
PathSymbols(r, entries) ==
  r.scan.symbols \cap UNION {DOMAIN r.walk[e.name][TRUE] : e \in Members(entries)}
-----------------------------------------------------------------------------
(* anon.py: what the assignments on the path make of a store's columns.      *)

\* The first write of each column, in the order of the functions' names.
WritesFor(r, s, entries) ==
  LET mine == {w \in r.scan.writes : w.store = s /\ w.symbol \in PathSymbols(r, entries)}
  IN  {w \in mine : \A v \in mine : v.column = w.column => w.symbol <= v.symbol}

\* A foreign key to a person's row that is not overwritten.
KeySurvives(r, s, over) ==
  \E rel \in r.scan.relations :
    /\ rel.child = s /\ r.scan.stores[rel.parent].root
    /\ rel.field # {} /\ rel.field \cap {w.column : w \in over} = {}

\* Mutant: the columns are the record's where it names some.
ColumnsClaimed(r, s, claimed) == IF claimed # {} THEN claimed ELSE r.scan.stores[s].columns

\* The verifier's own columns and the record's (keys are left out of both here).
Columns(r, s, claimed) == r.scan.stores[s].columns \cup claimed

\* anonymised, pseudonymised or neither, and what becomes of each column.
Classify(r, s, claimed) ==
  LET writes == WritesFor(r, s, r.starts)
      over == {w \in writes : w.kind # "marker"}
      columns == Columns(r, s, claimed)
      Some(kind) == \E w \in over : w.kind = kind
      Is(c, kind) == \E w \in over : w.column = c /\ w.kind = kind
      whole == /\ columns # {} /\ \A c \in columns : Is(c, "constant")
               /\ ~KeySurvives(r, s, over)
  IN  [writes |-> writes,
       verdict |-> IF over = {} THEN "none"
                   ELSE IF whole THEN "anonymised"
                   ELSE IF Some("pseudonymous") THEN "pseudonymised"
                   ELSE IF Some("opaque") \/ columns = {} THEN "none" ELSE "pseudonymised",
       opaque |-> ~whole /\ Some("opaque") /\ ~Some("pseudonymous"),
       fields |-> [c \in IF over = {} THEN {} ELSE columns |->
                     IF Is(c, "constant") THEN "anonymised"
                     ELSE IF Is(c, "pseudonymous") THEN "pseudonymised"
                     ELSE IF Is(c, "opaque") THEN "unverified" ELSE "not_erased"]]
-----------------------------------------------------------------------------
(* timers.py: the soft delete that a scheduled job completes.                *)

\* Requirement 1: a marker written on the path of an entry point that is no job.
Markers(r, s) ==
  LET people == Keep(r.starts, LAMBDA e : e.kind \notin JobKinds)
  IN  {w \in WritesFor(r, s, people) : w.kind = "marker"}

\* Requirement 3, asked per decorator: a function without one has no schedule.
Scheduled(r, e) == e.symbol # {} /\ e.symbol \subseteq r.scan.decorated \cap r.scan.registered

\* 6.3: the days of the first keyword whose value can be read, in whole days and never
\* less than one, else the first constant beside the job as it stands.
ParseDays(g, x) ==
  LET read == FirstOf(g.waits[x].written, LAMBDA k : k.n # {})
  IN  IF read = {} THEN g.waits[x].beside
      ELSE {IF n \div k.per > 1 THEN n \div k.per ELSE 1 : k \in read, n \in UNION {k.n : k \in read}}

\* The first scheduled job that reaches the store, its days a set of at most one.
Timer(r, s) ==
  {[job |-> e, days |-> UNION {ParseDays(r.scan, x) : x \in e.symbol}] :
     e \in FirstOf(r.jobs, LAMBDA e : /\ s \in DOMAIN r.walk[e.name][TRUE]
                                      /\ Markers(r, s) # {} /\ Scheduled(r, e))}
-----------------------------------------------------------------------------
(* downgrades.py: what takes a store out of row 4, and row 8's reasons.      *)

Restricting(r, s) == {rel \in r.scan.relations : rel.child = s /\ rel.token = "restrict"}

\* R3b's exception: the parent also goes by a cascade.
RestrictWithSibling(r, s) ==
  /\ Restricting(r, s) # {}
  /\ \E rel \in r.scan.relations : /\ rel.token = "cascade"
                                   /\ \E mine \in Restricting(r, s) : mine.parent = rel.parent

\* R27: only a decorator nobody modelled stands between the path and the store.
OnlyWrapped(r, s, path) ==
  LET wrapped == r.scan.wrapped \cap {e.dst : e \in Members(path)}
  IN  /\ wrapped # {}
      /\ \A e \in Members(r.starts) : s \notin DOMAIN Search(r.edges, e.name, TRUE, wrapped)

\* R13: a versioned bucket, and a delete that names no version.
KeepsVersions(r, s, path) ==
  /\ r.scan.stores[s].kind = "object_storage" /\ "versioning_declared" \in r.scan.stores[s].flags
  /\ path[Len(path)].site # "versioned"

\* Row 8: the tool's own blindness.  hit is empty in all of it but R28.
CannotTell(r, s, hit, loose, marks) ==
  LET g == r.scan
      flags == g.stores[s].flags
      ParentReached(ddl) == \E rel \in g.relations : /\ rel.child = s /\ (ddl => rel.ddl)
                                                     /\ Reaches(r, rel.parent)
      called == PathSymbols(r, r.starts)
  IN  \/ "unparsed" \in flags
      \/ /\ hit = {}
         /\ \/ loose # {}                                                         \* R26
            \/ /\ "django_file_field" \in flags /\ g.disagree                     \* R10
               /\ \E o \in g.stores[s].owner : Reaches(r, o)
            \/ "r6_unverified" \in flags /\ ParentReached(TRUE)                   \* R6
            \/ RestrictWithSibling(r, s)                                          \* R3b
            \/ \E rel \in g.relations : /\ rel.child = s /\ rel.parent \in g.raw  \* R19
                                        /\ Reaches(r, rel.parent)
            \/ \E x \in g.weak : FromSymbol(r, x, s)                              \* R11
            \/ s \in g.opaque                                                     \* CG-12
            \/ \E ref \in g.references : /\ ref.caller \in called                 \* CG-15
                                         /\ ref.target \notin called
                                         /\ FromSymbol(r, ref.target, s)
            \/ marks.opaque
-----------------------------------------------------------------------------
(* caps.py: the two caps, after the table and only downwards.                *)

Unregistered(e) == "declared_unregistered" \in e.flags

\* The relations that make a parent's delete raise while the child has rows.
Blocking(r, s) ==
  {rel \in r.scan.relations : rel.child = s /\ rel.token = "protect"} \cup
  IF RestrictWithSibling(r, s) THEN {} ELSE Restricting(r, s)

\* 4.8: whether the child is emptied first, and by a delete that leaves none behind.
ProtectState(r, s) ==
  LET hit == Reached(r, s, TRUE, {})
  IN  IF Blocking(r, s) = {} THEN ""
      ELSE IF hit = {} THEN "absent"
      ELSE IF \E h \in hit : h.path[Len(h.path)].site = "filtered" THEN "disqualified"
      ELSE "qualified"

\* The parents whose delete may raise.
ProtectParents(r) ==
  {rel.parent : rel \in {rel \in r.scan.relations :
                           ProtectState(r, rel.child) \in {"disqualified", "absent"}}}

\* Only an unregistered entry point reaches a function the evidence was read off.
OnlyDeclared(r, evidence) ==
  LET Touches(e) == evidence \cap DOMAIN r.walk[e.name][TRUE] # {}
  IN  /\ \E e \in Members(r.starts) : Unregistered(e) /\ Touches(e)
      /\ \A e \in Members(r.starts) : Touches(e) => Unregistered(e)

\* Mutant: the first cap is read off the path alone.
CappedByPath(r, s, hit, evidence) ==
  \/ \E h \in hit : Unregistered(h.entry)
  \/ ProtectState(r, s) = "disqualified"
  \/ ProtectParents(r) \cap ({s} \cup UNION {{e.dst : e \in Members(h.path)} : h \in hit}) # {}

\* Whether one of the caps makes a reaching verdict unverified.
Capped(r, s, hit, evidence) ==
  \/ \E h \in hit : Unregistered(h.entry)
  \/ hit = {} /\ OnlyDeclared(r, evidence)
  \/ ProtectState(r, s) = "disqualified"
  \/ ProtectParents(r) \cap ({s} \cup UNION {{e.dst : e \in Members(h.path)} : h \in hit}) # {}
-----------------------------------------------------------------------------
(* verdicts.py                                                               *)

\* Rows 4 to 9.
Rows(r, s, hit, loose, timer, marks) ==
  IF hit # {}
    THEN LET h == CHOOSE h \in hit : TRUE
         IN  IF OnlyWrapped(r, s, h.path) THEN "unverified"
             ELSE IF KeepsVersions(r, s, h.path) THEN "not_erased" ELSE "erased"
  ELSE IF marks.verdict = "anonymised" THEN "anonymised"
  ELSE IF \E t \in timer : t.days # {} THEN "erased_after_timer"
  ELSE IF marks.verdict = "pseudonymised" THEN "pseudonymised"
  ELSE IF CannotTell(r, s, hit, loose, marks) THEN "unverified"
  ELSE "not_erased"

\* The entry points row 4 may not start from: the timer's job and, after a soft delete,
\* every job nothing schedules.
Excluded(r, s) ==
  {t.job.name : t \in Timer(r, s)} \cup
  {e.name : e \in {e \in Members(r.jobs) : Markers(r, s) # {} /\ ~Scheduled(r, e)}}

\* R24: a regulation whose type is one of the forwarding literals, on a resolved path.
Forwards(r, s) == \E h \in Reached(r, s, TRUE, {}) :
                    \E e \in Members(h.path) : e.site = "forwards"

\* Row 1: a schedule or a retention constant is cited.
Retained(r, s) == "scheduled_dump" \in r.scan.stores[s].flags

Found(verdict, fields, path) == [verdict |-> verdict, fields |-> fields, path |-> path]

\* 6.1 over one store, with the columns the record claims for it.
Decide(r, s, claimed) ==
  LET kind == r.scan.stores[s].kind
      hit == Reached(r, s, TRUE, Excluded(r, s))
      loose == Reached(r, s, FALSE, Excluded(r, s))
      timer == Timer(r, s)
      marks == Classify(r, s, claimed)
      row == Rows(r, s, hit, loose, timer, marks)
      evidence == {w.symbol : w \in marks.writes} \cup UNION {t.job.symbol : t \in timer}
      capped == row \in Reaching /\ Capped(r, s, hit, evidence)
      overrides == IF row \in {"anonymised", "pseudonymised"}
                     THEN {c \in DOMAIN marks.fields : marks.fields[c] # row} ELSE {}
  IN  IF kind = "backup"
        THEN Found(IF Retained(r, s) THEN "governed_by_retention" ELSE "no_schedule_evidenced", <<>>, {})
      ELSE IF kind = "third_party"
        THEN Found(IF Forwards(r, s) THEN "erased" ELSE "external_manual", <<>>, {})
      ELSE IF r.entries = <<>> THEN Found("no_entry_point", <<>>, {})
      ELSE Found(IF capped THEN "unverified" ELSE row,
                 [c \in overrides |-> marks.fields[c]],
                 IF row \in {"erased", "unverified", "not_erased"} THEN hit ELSE {})
=============================================================================
