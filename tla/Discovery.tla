------------------------------- MODULE Discovery -------------------------------
(***************************************************************************)
(* Which functions of a repository are ways in: verify/entrypoints.py and  *)
(* registration.py.  Nine passes in a fixed order; what one pass claims,   *)
(* most of the later ones leave alone.  Read with the scan of Verdicts,    *)
(* whose entries these are.                                                *)
(*                                                                         *)
(* The code c of a repository is                                           *)
(*   functions  symbol -> [short, at, owner (at most one class), nested,   *)
(*              method, vocabulary, root, decorators, names]               *)
(*              vocabulary: its short name says that a user is deleted;    *)
(*              root: it binds a variable to a person's model; method: its *)
(*              short name where a framework gives that one a meaning;     *)
(*              names: what a task decorator calls it                      *)
(*              a decorator is [kind, delete, path, periodic]              *)
(*   classes    class -> [base, at, name, vocabulary, subject, queryset]   *)
(*   sites      calls [call, view, delete, path, names]; view is           *)
(*              [resolved, short], what the imports make of a name         *)
(*   schedules  names the settings put on a schedule                       *)
(*   models     stores the admin may delete -> its admin class, at most one*)
(* A path is what its words say, from {"vocabulary", "subject"}.           *)
(***************************************************************************)
EXTENDS Verdicts

CONSTANT AdminNames   \* the entry points of an admin: delete_model and delete_selected

DecoratedAs(c, x, kind) == {d \in c.functions[x].decorators : d.kind = kind}

\* 2.1 and decision 6a: the name, the model it deletes or the end of the path.
Qualifies(c, x, path) ==
  c.functions[x].vocabulary \/ c.functions[x].root \/ "subject" \in path

\* The function a call names as its view: what the imports say, else the only one so called.
ViewSymbol(c, view) ==
  LET called == {x \in DOMAIN c.functions : /\ c.functions[x].short = view.short
                                            /\ c.functions[x].owner = {}}
  IN  IF view.resolved # {} THEN view.resolved
      ELSE IF Cardinality(called) = 1 THEN called ELSE {}

\* The calls of a kind that name a function as their view.
Views(c, call, x) == {site \in c.sites : site.call = call /\ ViewSymbol(c, site.view) = {x}}

InClass(c, base) ==
  {x \in DOMAIN c.functions : \E k \in c.functions[x].owner : c.classes[k].base = base}
-----------------------------------------------------------------------------
(* 6.2 requirement 3: what in the repository says that a job ever runs.      *)

TaskNames(c, x) == {x, c.functions[x].short} \cup c.functions[x].names

ScheduleEvidence(c, x, d) ==
  \/ d.periodic
  \/ TaskNames(c, x) \cap c.schedules # {}
  \/ \E site \in c.sites : site.call = "dispatch" /\ TaskNames(c, x) \cap site.names # {}
-----------------------------------------------------------------------------
(* The passes.                                                               *)

EntryPoint(c, x, kind, flags) ==
  [name |-> c.functions[x].short, at |-> c.functions[x].at, kind |-> kind, symbol |-> {x},
   flags |-> flags]

ClassEntry(k, name, kind, flag) ==
  [name |-> name, at |-> k.at, kind |-> kind, symbol |-> {}, flags |-> {flag}]

Claimed(entries) == UNION {e.symbol : e \in entries}

Routes(c) ==
  {EntryPoint(c, x, "route", {"route_decorator"}) :
     x \in {x \in DOMAIN c.functions :
              \E d \in DecoratedAs(c, x, "route") : d.delete /\ Qualifies(c, x, d.path)}}

UrlRules(c, claimed) ==
  {EntryPoint(c, x, "route", {"route_registration"}) :
     x \in {x \in DOMAIN c.functions \ claimed :
              \E site \in Views(c, "rule", x) : site.delete /\ Qualifies(c, x, site.path)}}

Viewsets(c) ==
  {EntryPoint(c, x, "route", {"drf_viewset"}) :
     x \in {x \in InClass(c, "viewset") :
              /\ \/ c.functions[x].method = "destroy"
                 \/ \E d \in DecoratedAs(c, x, "action") : d.delete
              /\ \/ \E k \in c.functions[x].owner : c.classes[k].queryset
                 \/ c.functions[x].vocabulary}}

\* CG-17: a pattern carries no method, so the words have to say what it does.
UrlPatterns(c, claimed) ==
  {EntryPoint(c, x, "view", {"urlpatterns_reference"}) :
     x \in {x \in DOMAIN c.functions \ claimed :
              \E site \in Views(c, "pattern", x) : \/ c.functions[x].vocabulary
                                                  \/ "vocabulary" \in site.path}}

\* The base says that the view deletes, its name whom; without a method of its own it is
\* an entry point with no function.
DeleteViews(c) ==
  LET views == {k \in DOMAIN c.classes : /\ c.classes[k].base = "delete_view"
                                         /\ c.classes[k].vocabulary \/ c.classes[k].subject}
      Methods(k) == {x \in DOMAIN c.functions : /\ c.functions[x].owner = {k}
                                                /\ c.functions[x].method \in {"delete", "form_valid"}}
  IN  UNION {IF Methods(k) = {}
               THEN {ClassEntry(c.classes[k], c.classes[k].name, "view", "delete_view")}
               ELSE {EntryPoint(c, x, "view", {"delete_view"}) : x \in Methods(k)} : k \in views}

\* A management command is named after its file and runs its handle; subject says that
\* handle calls something of the vocabulary.
BaseCommands(c) ==
  LET Handle(k) == {x \in DOMAIN c.functions : /\ c.functions[x].owner = {k}
                                               /\ c.functions[x].method = "handle"}
      commands == {k \in DOMAIN c.classes :
                     /\ c.classes[k].base = "command"
                     /\ c.classes[k].vocabulary \/ (Handle(k) # {} /\ c.classes[k].subject)}
  IN  {[ClassEntry(c.classes[k], c.classes[k].name, "cli", "BaseCommand_subclass")
          EXCEPT !.symbol = Handle(k)] : k \in commands}

Clicks(c) ==
  {EntryPoint(c, x, "cli", {"click_or_typer_command"}) :
     x \in {x \in DOMAIN c.functions :
              \E d \in DecoratedAs(c, x, "click") : "vocabulary" \in d.path \/ c.functions[x].vocabulary}}

\* A task decorator makes a candidate; whether anything runs it is written beside it.
Tasks(c, claimed) ==
  {EntryPoint(c, x, "task",
              {"task_decorator",
               IF \E d \in DecoratedAs(c, x, "task") : ScheduleEvidence(c, x, d)
                 THEN "schedule_registered" ELSE "unscheduled"}) :
     x \in {x \in DOMAIN c.functions \ claimed :
              DecoratedAs(c, x, "task") # {} /\ c.functions[x].vocabulary}}

\* A model's admin class refuses to delete with a bare `return False`.
DeniesDeletion(c, k) ==
  \E x \in DOMAIN c.functions : c.functions[x].owner = {k} /\ c.functions[x].method = "denies"

AdminModels(c) == {s \in DOMAIN c.models : \A k \in c.models[s] : ~DeniesDeletion(c, k)}

\* R16: delete_model and delete_selected, over the models that remain.
AdminEntries(c) ==
  {[name |-> n, at |-> 0, kind |-> "admin", symbol |-> {}, flags |-> {"admin_registration"}] :
     n \in IF AdminModels(c) = {} THEN {} ELSE AdminNames}

Unclaimed(c, claimed) ==
  {EntryPoint(c, x, "unknown", {}) :
     x \in {x \in DOMAIN c.functions \ claimed : /\ c.functions[x].owner = {}
                                                 /\ ~c.functions[x].nested
                                                 /\ c.functions[x].vocabulary}}

\* Mutant: what the tasks claim is forgotten.
DiscoverForgetful(c) ==
  LET routes == Routes(c)
      rules == routes \cup UrlRules(c, Claimed(routes)) \cup Viewsets(c)
      views == rules \cup UrlPatterns(c, Claimed(rules)) \cup DeleteViews(c)
      commands == views \cup BaseCommands(c) \cup Clicks(c)
  IN  commands \cup Tasks(c, Claimed(commands)) \cup AdminEntries(c) \cup
      Unclaimed(c, Claimed(commands))

\* discover_entry_points: the passes in order.
Discover(c) ==
  LET routes == Routes(c)
      rules == routes \cup UrlRules(c, Claimed(routes)) \cup Viewsets(c)
      views == rules \cup UrlPatterns(c, Claimed(rules)) \cup DeleteViews(c)
      commands == views \cup BaseCommands(c) \cup Clicks(c)
      tasks == commands \cup Tasks(c, Claimed(commands))
  IN  tasks \cup AdminEntries(c) \cup Unclaimed(c, Claimed(tasks))

\* EntryPoint.key, as far as two entry points differ in it.
Key(e, f) == e.name < f.name \/ (e.name = f.name /\ e.at < f.at)

\* A set in the order of the keys.
InOrder(entries) ==
  LET More(seq) == LET rest == entries \ Members(seq)
                   IN  Append(seq, CHOOSE e \in rest : \A f \in rest : ~Key(f, e))
      after[k \in 0..Cardinality(entries)] == IF k = 0 THEN <<>> ELSE More(after[k - 1])
  IN  after[Cardinality(entries)]

\* declared.py registration_shapes, of the decorators and of the file.
Shapes(c, x) ==
  ({d.kind : d \in c.functions[x].decorators} \cap {"route", "task", "click"}) \cup
  {c.classes[k].base : k \in {k \in c.functions[x].owner : c.classes[k].base = "command"}}

\* A scan of the code: what the passes and the schedules put into it.
Scanned(g, c) ==
  [g EXCEPT !.code = c,
            !.entries = InOrder(Discover(c)),
            !.symbols = DOMAIN c.functions,
            !.decorated = {x \in DOMAIN c.functions : c.functions[x].decorators # {}},
            !.registered = {x \in DOMAIN c.functions :
                              \E d \in c.functions[x].decorators : ScheduleEvidence(c, x, d)},
            !.invocable = {x \in DOMAIN c.functions : Shapes(c, x) # {}}]
=============================================================================
