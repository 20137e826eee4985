------------------------------- MODULE MCCheck -------------------------------
(* Small repositories: a view v that calls a helper w, a purge job p, a helper h that    *)
(* nothing calls; a person's rows U, rows V that refer to them, a bucket F, a dump B and *)
(* a processor T.  Each family varies what one group of rows turns on.                   *)
EXTENDS Signing, TLC

\* Entry points 1..9, functions 11..19, stores 21..29, columns 31..39.
view == 1
job == 2
helper == 3
v == 11
w == 12
p == 13
h == 14
U == 21
V == 22
F == 23
B == 24
T == 25
email == 31
phone == 32
deleted_at == 33
user == 34   \* V's foreign key

To(src, dst, guessed, site) == [src |-> src, dst |-> dst, guessed |-> guessed, site |-> site]

Decorator(kind, periodic) == [kind |-> kind, delete |-> TRUE, path |-> {}, periodic |-> periodic]
Function(short, at, vocabulary, decorators) ==
  [short |-> short, at |-> at, owner |-> {}, nested |-> FALSE, method |-> "", vocabulary |-> vocabulary,
   root |-> FALSE, decorators |-> decorators, names |-> {}]

\* v is a DELETE route; w, p and h are functions nothing registers.
Code0 == [functions |-> v :> Function(view, 1, TRUE, {Decorator("route", FALSE)}) @@
                        w :> Function(5, 2, FALSE, {}) @@ p :> Function(job, 3, FALSE, {}) @@
                        h :> Function(helper, 4, FALSE, {}),
          classes |-> <<>>, sites |-> {}, schedules |-> {}, models |-> <<>>]

Table(columns) == [kind |-> "relational", columns |-> columns, root |-> FALSE, flags |-> {},
                   owner |-> {}, guard |-> "strong", linked |-> TRUE]

\* A keyword in hours or in days, and a job that says nothing of its days.
Keyword(per, n) == [per |-> per, n |-> n]
NoWait == [written |-> <<>>, beside |-> {}]

Bare == [code |-> Code0, entries |-> <<>>, symbols |-> {}, wrapped |-> {}, edges |-> {},
         stores |-> U :> [Table({email, phone}) EXCEPT !.root = TRUE], relations |-> {}, writes |-> {},
         decorated |-> {}, registered |-> {}, waits |-> [s \in {v, w, p, h} |-> NoWait],
         weak |-> {}, references |-> {}, opaque |-> {}, raw |-> {}, disagree |-> FALSE,
         invocable |-> {},
         exact |-> [s \in 21..28 |-> IF s <= 25 THEN {s} ELSE IF s = 28 THEN {T} ELSE {}],
         stripped |-> [s \in 21..28 |-> IF s = 26 THEN {U} ELSE {}], named |-> [s \in 21..25 |-> s]]

Of(g, c) == Scanned(g, c)
Scan0 == Of(Bare, Code0)

Optional(e) == {{}, {e}}
Rel(token) == [parent |-> U, child |-> V, token |-> token, field |-> {user}, ddl |-> FALSE]

\* Rows 4, 8 and the caps: which deletes are where, and what V's foreign key says.
Deletes ==
  {[Scan0 EXCEPT !.stores = U :> Scan0.stores[U] @@ V :> Table({email}),
                 !.relations = rels,
                 !.wrapped = wrapped,
                 !.edges = {To(v, w, guess, "call")} \cup a \cup b \cup c \cup
                           (IF Rel("cascade") \in rels THEN {To(U, V, FALSE, "cascade")} ELSE {})] :
     rels \in {{}, {Rel("cascade")}, {Rel("protect")}, {Rel("restrict")}},
     guess \in BOOLEAN, wrapped \in {{}, {w}},
     a \in {{}, {To(v, U, FALSE, "delete")}, {To(w, U, FALSE, "delete")}},
     b \in {{}, {To(v, V, FALSE, "delete")}, {To(w, V, FALSE, "filtered")}},
     c \in Optional(To(h, U, FALSE, "delete"))}

Write(col, kind, symbol) == [store |-> U, column |-> col, kind |-> kind, symbol |-> symbol]
PurgeCode(vocabulary, decorators) == [Code0 EXCEPT !.functions[p] = Function(job, 3, vocabulary, decorators)]
Purges == {Code0, PurgeCode(TRUE, {Decorator("click", FALSE)})} \cup
          {PurgeCode(TRUE, {Decorator("task", periodic)}) : periodic \in BOOLEAN} \cup
          {PurgeCode(FALSE, {Decorator("cron", TRUE)})}

\* Rows 5 to 7 and the timer: what is overwritten where, and what a job does later.
Overwrites ==
  {Of([Bare EXCEPT !.edges = {To(v, w, FALSE, "call")} \cup purge,
                   !.writes = a \cup b \cup m,
                   !.waits[p] = wait], c) :
     a \in {{}} \cup {{Write(email, k, s)} : k \in {"constant", "pseudonymous", "opaque"}, s \in {w, h}},
     b \in {{}} \cup {{Write(phone, "constant", s)} : s \in {w, h}},
     m \in {{}} \cup {{Write(deleted_at, "marker", s)} : s \in {v, p}},
     c \in Purges, purge \in Optional(To(p, U, FALSE, "delete")), wait \in {NoWait, [written |-> <<Keyword(1, {}), Keyword(24, {12})>>, beside |-> {}]}}

Site(call, symbol, short, names) ==
  [call |-> call, view |-> [resolved |-> symbol, short |-> short], delete |-> TRUE, path |-> {"subject"},
   names |-> names]

Meaning == [viewset |-> "destroy", delete_view |-> "delete", command |-> "handle", admin |-> "denies"]

\* How p may be registered, and a second function h that may have its name.
Ways ==
  {Of([Bare EXCEPT !.edges = {To(p, U, FALSE, "delete")} \cup e],
      [Code0 EXCEPT !.functions = v :> Function(view, 1, FALSE, {}) @@
                                  w :> [Function(5, 2, FALSE, {}) EXCEPT !.owner = {k}, !.method = Meaning[base]] @@
                                  p :> Function(job, 3, TRUE, ds) @@
                                  h :> Function(n, 4, n = job, hs),
                    !.classes = k :> [base |-> base, at |-> 2, name |-> 6, vocabulary |-> TRUE,
                                      subject |-> TRUE, queryset |-> TRUE],
                    !.models = U :> {k}, !.sites = sites, !.schedules = names]) :
     k \in {15}, base \in DOMAIN Meaning,
     ds \in {{}, {Decorator("task", FALSE)}, {Decorator("task", FALSE), Decorator("click", FALSE)}},
     hs \in {{}, {Decorator("task", TRUE)}}, n \in {helper, job},
     sites \in {{}, {Site("rule", {p}, job, {})}, {Site("pattern", {}, job, {})}, {Site("dispatch", {}, 0, {job})}},
     names \in {{}, {p}}, e \in Optional(To(w, U, FALSE, "delete"))}

\* The kinds with rows of their own.
Others ==
  {Of([Bare EXCEPT !.stores = F :> [Table(cols) EXCEPT !.kind = "object_storage", !.flags = f,
                                                       !.guard = IF cols = {} THEN "none" ELSE @,
                                                       !.linked = cols # {}] @@
                            B :> [Table({email}) EXCEPT !.kind = "backup", !.flags = d] @@
                            T :> [Table({email}) EXCEPT !.kind = "third_party"],
                 !.edges = {To(v, F, FALSE, site)} \cup t], c) :
     f \in {{}, {"versioning_declared"}}, cols \in {{}, {phone}}, d \in {{}, {"scheduled_dump"}},
     site \in {"delete", "versioned"},
     t \in {{}, {To(v, T, FALSE, "delete")}, {To(h, T, FALSE, "forwards")}},
     c \in {Code0, [Code0 EXCEPT !.functions[v] = Function(view, 1, FALSE, {})]}}

GoodCite == [scanned |-> TRUE, within |-> TRUE, named |-> TRUE, there |-> TRUE]
Claim(g, s, verdict) ==
  [name |-> s, kind |-> g.stores[s].kind, verdict |-> verdict, timer |-> verdict \in Timed,
   evidence |-> "on", columns |-> g.stores[s].columns, twice |-> FALSE, contact |-> TRUE,
   overrides |-> <<>>, cited |-> {}, timed |-> {}, at |-> {s}, cite |-> GoodCite]

\* A record of a sound form, with a time limit of V where it claims it.
Form(claims, declared) ==
  [claims |-> claims, declared |-> declared, flaws |-> {},
   retention |-> {[store |-> V, whole |-> TRUE] : i \in {i \in DOMAIN claims : claims[i].name = V}}]

Declared(name, symbol, kind) == [name |-> name, at |-> (CASE name = view -> 1 [] name = job -> 3 [] OTHER -> 4), kind |-> kind, symbol |-> symbol]
ThisView == Declared(view, {v}, "route")
ThisHelper == Declared(helper, {h}, "unknown")

\* One claim for each store, all of one verdict.
Uniform(g) ==
  LET stores == Sorted(DOMAIN g.stores)
  IN  {Form([i \in DOMAIN stores |-> Claim(g, stores[i], verdict)], ds) :
         verdict \in {"erased", "erased_after_timer", "anonymised"}, ds \in {{ThisView}, {ThisHelper}, {ThisView, Declared(job, {p}, "task")}}}

\* One repository, and records that are wrong in up to two of their claims.
Busy == Of([Bare EXCEPT !.stores = U :> Scan0.stores[U] @@ V :> [Table({email}) EXCEPT !.guard = "qualified"] @@
                                 B :> [Table({email}) EXCEPT !.kind = "backup", !.linked = FALSE] @@
                                 T :> [Table({email}) EXCEPT !.kind = "third_party", !.guard = "none"],
                      !.edges = {To(v, U, FALSE, "delete"), To(h, V, FALSE, "delete"), To(p, V, FALSE, "delete")},
                      !.waits[p] = [NoWait EXCEPT !.beside = {0}]],
           [Code0 EXCEPT !.functions[p].decorators = {Decorator("task", FALSE)}])
Blanking == [Busy EXCEPT !.edges = {To(v, w, FALSE, "call"), To(h, V, FALSE, "delete")},
                         !.writes = {Write(email, "constant", w), Write(phone, "pseudonymous", w)}]

Honest(g) ==
  <<Claim(g, U, IF g = Busy THEN "erased" ELSE "pseudonymised"), Claim(g, V, "not_erased"),
    Claim(g, B, "no_schedule_evidenced"), Claim(g, T, "external_manual")>>

Distorted(g, c) ==
  {[c EXCEPT !.verdict = x] : x \in {"erased", "erased_after_timer", "governed_by_retention", "no_entry_point"}} \cup
  {[c EXCEPT !.verdict = x, !.timer = x \in Timed] : x \in {"anonymised", "erased_after_timer"}} \cup
  {[c EXCEPT !.evidence = x] : x \in {"none", "off"}} \cup
  {[c EXCEPT !.kind = x] : x \in {"backup", "relational"}} \cup
  {[c EXCEPT !.contact = FALSE]} \cup
  {[c EXCEPT !.overrides = email :> x, !.cited = {email}] : x \in {"erased", "anonymised", "not_erased"}} \cup
  {[c EXCEPT !.overrides = email :> "erased_after_timer", !.cited = a, !.timed = b] :
     a \in {{}, {email}}, b \in {{}, {email}}} \cup
  {[c EXCEPT !.twice = TRUE], [c EXCEPT !.name = U]} \cup
  {[c EXCEPT !.columns = x] : x \in {{}, {email, phone, user}}} \cup
  {[c EXCEPT !.name = 26, !.at = x] : x \in {{}, {U}, {V}}} \cup
  (IF c.kind = "third_party" THEN {[c EXCEPT !.name = 28]} ELSE {}) \cup
  {[c EXCEPT !.cite = [GoodCite EXCEPT ![x] = FALSE]] : x \in {"scanned", "within", "named", "there"}}

Without(claims, i) == SubSeq(claims, 1, i - 1) \o SubSeq(claims, i + 1, Len(claims))
DeclaredSets == {{}, {ThisView}, {ThisView, ThisHelper}, {ThisView, Declared(job, {p}, "task")},
                 {Declared(view, {}, "route"), ThisHelper}}

Wrong(g) ==
  LET claims == Honest(g)
      once == {claims} \cup {[claims EXCEPT ![i] = c] : <<i, c>> \in
                 {x \in (1..4) \X UNION {Distorted(g, claims[i]) : i \in 1..4} : x[2] \in Distorted(g, claims[x[1]])}}
      twice == once \cup {[claims EXCEPT ![1] = c, ![2] = d] :
                            c \in Distorted(g, claims[1]), d \in Distorted(g, claims[2])}
      less == {Without(cs, i) : cs \in once, i \in 1..4}
  IN  {Form(cs, ds) : cs \in once, ds \in DeclaredSets} \cup
      {Form(cs, ds) : cs \in less, ds \in {{}, {ThisView}}} \cup
      {Form(cs, ds) : cs \in twice, ds \in {{ThisView}, {ThisView, ThisHelper}}} \cup
      {[Form(cs, {ThisView}) EXCEPT !.flaws = x] : cs \in once, x \in {{"shape"}, {"words"}, {"shape", "words"}}} \cup
      {[Form(cs, {ThisView}) EXCEPT !.retention = {x}] : cs \in once, x \in {[store |-> U, whole |-> FALSE], [store |-> 27, whole |-> TRUE]}}

\* Names: 26 is U's under an app prefix, 27 a file store's, 28 a processor's, both with a dot.
MCSpelled == [n \in 21..28 |->
  [app |-> IF n = 26 THEN {9} ELSE {}, stem |-> IF n = 26 THEN U ELSE n, dotted |-> n \in {27, 28},
   head |-> IF n \in {27, 28} THEN U ELSE n]]

MCArms(g) == IF g \in {Busy, Blanking} THEN {"advanced", "baseline"} ELSE {"advanced"}
Replies == {"processor", "unknown", "third"}
MCTyped(rec) == {<<>>} \cup [Parties(rec) -> Replies]
MCEdits(rec) == {<<>>} \cup UNION {[names -> Replies] : names \in {{U}, {T}, {28}, {T, 28}}}

\* What may be true: what the code of the scan says, of one store less, or that nothing
\* goes, with V under a file store's name.
MCManifests(g) ==
  LET r == NewReach(g, g.entries)
      stores == Sorted(DOMAIN g.stores)
      True(s) == [name |-> s, kind |-> g.stores[s].kind, verdict |-> Decide(r, s, {}).verdict,
                  columns |-> g.stores[s].columns, overrides |-> Decide(r, s, {}).fields, at |-> {s}]
      Gone(t) == [t EXCEPT !.verdict = IF t.kind = "backup" THEN "no_schedule_evidenced" ELSE "not_erased",
                           !.overrides = <<>>]
      File(t) == IF t.name = V THEN [t EXCEPT !.name = 27] ELSE t
      Case(rows) == [stores |-> rows, prefixes |-> {9}, entries |-> {view}]
      all == [i \in DOMAIN stores |-> True(stores[i])]
  IN  {Case(all)} \cup
      (IF g \in {Busy, Blanking}
         THEN {Case([i \in DOMAIN all |-> Gone(File(all[i]))]), Case(Tail(all))}
         ELSE {})

MCScans == Deletes \cup Overwrites \cup Others \cup Ways \cup {Busy, Blanking}
MCRecords(g) == IF g \in {Busy, Blanking} THEN Wrong(g) ELSE Uniform(g)
=============================================================================
