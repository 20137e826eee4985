-------------------------------- MODULE Scans --------------------------------
(***************************************************************************)
(* Who starts a scan and with what: cli.py main, the child that the website *)
(* spawns (api.py start, runs.py command and environment) and the one of a *)
(* sweep's cell (plan.py, cells.py cell_env and launch).  Each surface     *)
(* checks what it is asked and hands a command line and an environment to  *)
(* a child, which reads the settings when it gets to them: threads of      *)
(* SettingsFile may be at the files meanwhile.  One scan is followed.      *)
(***************************************************************************)
EXTENDS SettingsFile

CONSTANTS Cases,      \* case id -> [split, real]: split.yaml and the manifests
          Places,     \* directory -> [owner: the case it is, tree: below the fixtures, name,
                      \*               large: over REAL_REPO_FILES, offered: inside the project]
          Brain, Model, BrainModel,   \* three of the settings
          Shells,     \* what may surround a surface: [settings, mode, unlock, login, recorded]
          Requests    \* [place, case, arm, mode, brain, model, approve, tty, unlock]

ASSUME ScansAssumption ==
  /\ {Brain, Model, BrainModel} \subseteq Keys \ {Secret} /\ Model \in RequestVars
  /\ Model # Budget /\ BrainModel \notin RequestVars
  /\ \A c \in DOMAIN Cases : \E p \in DOMAIN Places : Places[p].owner = {c}
  /\ \A p \in DOMAIN Places :
       IF Places[p].owner # {} THEN Places[p].tree /\ \E c \in DOMAIN Cases : Places[p].owner = {c}
       \* no directory below the fixtures is called like a case that it is not
       ELSE Places[p].tree => Places[p].name \notin DOMAIN Cases
  /\ Requests \subseteq [place : DOMAIN Places, case : SUBSET STRING, arm : {"baseline", "advanced"},
                         mode : SUBSET {"live", "replay"}, brain : SUBSET Values, model : SUBSET Values,
                         approve : SUBSET {"ask", "auto", "file"}, tty : BOOLEAN, unlock : BOOLEAN]

Api == Default[Brain]
None == {}

VARIABLES shell,   \* the surface's own environment
          scan     \* by whom, at which point, args, env, what it came to and the files it
                   \* read (history)

scanVars == <<shell, scan>>

Or(given, otherwise) == IF given # None THEN CHOOSE v \in given : TRUE ELSE otherwise
Test == {c \in DOMAIN Cases : Cases[c].split = "test"}
KindOf(c) == IF Cases[c].real THEN "real" ELSE "synthetic"
PlaceOf(c) == CHOOSE p \in DOMAIN Places : Places[p].owner = {c}

Idle == [by |-> "nobody", at |-> "idle", args |-> <<>>, env |-> <<>>, cfg |-> <<>>, why |-> "", seen |-> <<>>]

ScansInit == shell \in Shells /\ scan = Idle

Started(by, args, env) == [Idle EXCEPT !.by = by, !.at = "started", !.args = args, !.env = env]
TurnedDown(by) == [Idle EXCEPT !.by = by, !.at = "turned down"]

\* What the process inherits, before a surface sets anything.
Inherited == [settings |-> shell.settings, mode |-> shell.mode, unlock |-> shell.unlock,
              ignore |-> FALSE, seam |-> FALSE]
-----------------------------------------------------------------------------
(* The surfaces.                                                             *)

\* A person at a shell: every flag may be missing.
Terminal(r) ==
  /\ scan.at = "idle"
  /\ scan' = Started("terminal", [r EXCEPT !.unlock = FALSE], Inherited)
  /\ UNCHANGED shell

\* api.py _fixture_owner, _target: a fixture is called by its own id, whatever the body says.
CaseOf(r) ==
  IF Places[r.place].owner # None THEN Places[r.place].owner
  ELSE {Or(r.case, Places[r.place].name)}

\* catalog.py live_enabled: the name of the key, in .env with or without a value.
LiveEnabled ==
  shell.settings[Secret] # None \/ \E i \in DOMAIN files["dotenv"] : files["dotenv"][i].key = Secret

\* api.py _brain_refusal and settings_api.py refusal.
BrainRefused(brain, mode, case, arm) ==
  IF brain # Api THEN mode # "live" \/ ~shell.login
  ELSE \/ mode = "live" /\ ~LiveEnabled
       \/ mode = "replay" /\ case \X {arm} \cap shell.recorded = {}

\* Mutant: a replay is spawned with the user's files.
WebsiteEnvAsIs(mode) == [Inherited EXCEPT !.seam = TRUE, !.unlock = @ \/ mode = "replay"]

\* runs.py environment.
WebsiteEnv(mode) ==
  [Inherited EXCEPT !.seam = TRUE, !.unlock = @ \/ mode = "replay", !.ignore = mode = "replay"]

\* Mutant: the lock goes by the id in the body.
WebsiteRefusesById(r, brain, mode) ==
  \/ ~Places[r.place].offered
  \/ mode = "live" /\ r.case \cap Test # {}
  \/ BrainRefused(brain, mode, CaseOf(r), r.arm)

\* api.py start: the directory, the test split and what the brain needs.
WebsiteRefuses(r, brain, mode) ==
  \/ ~Places[r.place].offered
  \/ mode = "live" /\ CaseOf(r) \cap Test # {}
  \/ BrainRefused(brain, mode, CaseOf(r), r.arm)

Website(r) ==
  LET mode == Or(r.mode, "replay")
      brain == Or(r.brain, Api)
      args == [r EXCEPT !.case = CaseOf(r), !.mode = {mode}, !.brain = {brain},
                        !.approve = {"file"}, !.tty = FALSE, !.unlock = FALSE]
  IN  /\ scan.at = "idle"
      /\ scan' = IF WebsiteRefuses(r, brain, mode) THEN TurnedDown("website")
                 ELSE Started("website", args, WebsiteEnv(mode))
      /\ UNCHANGED shell

\* cells.py cell_env: the pins beat the process's own, the files are not read; a pin that is
\* empty names nothing.
CellEnv(kind, unlock) ==
  [Inherited EXCEPT !.seam = TRUE, !.ignore = TRUE, !.unlock = @ \/ unlock,
     !.settings = [key \in Keys |->
       IF key = Budget THEN {KindBudget[kind]}
       ELSE IF key \in RequestVars THEN {Default[key]}
       ELSE IF key = BrainModel THEN None ELSE @[key]]]

\* plan.py build_cells and cells.py launch, for a case the sweep may plan; a case of the test
\* split or the reserve wants --unlock-test (run.py _check_lock, in Ledger).
Sweep(r) ==
  /\ scan.at = "idle"
  /\ \E c \in r.case \cap DOMAIN Cases :
       LET args == [r EXCEPT !.place = PlaceOf(c), !.case = {c}, !.mode = {Or(@, "live")}, !.brain = {Or(@, Api)},
                             !.model = None, !.approve = {Or(@, "auto")}]
       IN  /\ Cases[c].split # "demo"
           /\ scan' = IF Cases[c].split \in {"test", "reserve"} /\ ~r.unlock THEN TurnedDown("sweep")
                      ELSE Started("sweep", args, CellEnv(KindOf(c), r.unlock))
  /\ UNCHANGED shell
-----------------------------------------------------------------------------
(* The child: cli.py main.                                                   *)

\* fixture_case: a directory below the fixtures is a case by its name, if by nothing else.
FixtureCase(place) ==
  IF ~place.tree THEN None ELSE IF place.owner # None THEN place.owner ELSE {place.name}

\* case_kind: an evaluation id keeps its kind, anything else is sized.
CaseKind(case, place) ==
  IF case \in DOMAIN Cases THEN KindOf(case) ELSE IF place.large THEN "real" ELSE "synthetic"

\* main up to its refusals: the case, the configuration, --model by the brain that came out,
\* and what is declared.  The brain's own model was looked up for the brain of the settings.
Configured(args, env, fs) ==
  LET place == Places[args.place]
      case == Or(args.case, Or(FixtureCase(place), place.name))
      kind == CaseKind(case, place)
      cfg == ForCaseKind(env.settings, fs, kind)
      brain == Or(args.brain, cfg[Brain])
      model == IF brain = Api THEN Or(args.model, cfg[Model]) ELSE cfg[Model]
      its == IF cfg[Brain] = Api THEN None ELSE Value(env.settings, fs, BrainModel)
  IN  [case |-> case, locked |-> ({case} \cup FixtureCase(place)) \cap Test,
       mode |-> Or(args.mode, Or(env.mode, "live")), brain |-> brain,
       budget |-> cfg[Budget], model |-> model,
       brainModel |-> IF brain # Api /\ args.model # None THEN args.model ELSE its,
       overridden |-> Overridden(env.settings, fs) \cup
                      (IF model # Default[Model] THEN {Model} ELSE None),
       \* _paths: beside the record, unless it is a fixture's or the surface says where
       trace |-> IF env.seam THEN "seam" ELSE IF place.tree THEN "traces" ELSE "out"]

\* Why main does not run it, in the order of its checks; "" when it does.
Refusal(args, env, fs, cfg) ==
  CASE cfg.brain # Api /\ cfg.mode # "live"                             -> "no replay"
    [] cfg.locked # None /\ cfg.mode # "replay" /\ ~env.unlock          -> "locked"
    [] /\ cfg.brain = Api /\ cfg.mode = "live"
       /\ env.settings[Secret] = None /\ DotenvLayer(fs["dotenv"], Secret) = None -> "no key"
    [] args.arm = "advanced" /\ Or(args.approve, "ask") = "ask" /\ ~args.tty -> "no terminal"
    [] OTHER -> ""

\* config.py load and settings.py read, at one moment of the files.
Seen == IF scan.env.ignore THEN [files EXCEPT !["user"] = <<>>, !["project"] = <<>>] ELSE files

Unreadable ==
  /\ scan.at = "started" /\ ~Reads(Seen)
  /\ scan' = [scan EXCEPT !.at = "refused", !.why = "settings", !.seen = Seen]
  /\ UNCHANGED shell

Main ==
  LET cfg == Configured(scan.args, scan.env, Seen)
      why == Refusal(scan.args, scan.env, Seen, cfg)
  IN  /\ scan.at = "started" /\ Reads(Seen)
      /\ scan' = [scan EXCEPT !.at = IF why = "" THEN "running" ELSE "refused",
                              !.why = why, !.cfg = cfg, !.seen = Seen]
      /\ UNCHANGED shell

ScansNext ==
  \/ \E r \in Requests : Terminal(r) \/ Website(r) \/ Sweep(r)
  \/ Unreadable \/ Main

\* A scan is started while threads are at the settings files.
ScansSpec ==
  /\ ScansInit /\ SettingsInit
  /\ [][\/ ScansNext /\ UNCHANGED settingsVars
        \/ SettingsNext /\ UNCHANGED scanVars]_<<scanVars, settingsVars>>
-----------------------------------------------------------------------------
(* Properties.                                                               *)

Running == scan.at = "running"
Named(key) == shell.settings[key] # None \/ \E i \in DOMAIN scan.seen["dotenv"] : scan.seen["dotenv"][i].key = key

\* cells.py cell_env ("at art30's own defaults plus whatever the sweep itself set") and runs.py
\* environment ("it replays at the recorded settings, not the user's files"): a cell of a sweep
\* makes the requests its plan names, whatever the settings files say and whoever writes them
\* as it starts; and a replay on the website makes the same ones as the cell that was recorded,
\* unless the environment or .env names one or a model was typed.  On every surface, a run at
\* another model than the default says so.
SameRun ==
  Running =>
    LET cfg == scan.cfg
        AsPlanned(c) == cfg.model = Default[Model] /\ cfg.budget = KindBudget[KindOf(c)]
    IN  /\ scan.by = "sweep" =>
             /\ AsPlanned(cfg.case) /\ {cfg.brain} = scan.args.brain
             /\ cfg.brainModel \subseteq DotenvLayer(scan.seen["dotenv"], BrainModel)
        /\ (scan.by = "website" /\ cfg.mode = "replay" /\ cfg.case \in DOMAIN Cases
              /\ scan.args.model = None /\ ~\E key \in RequestVars : Named(key)) => AsPlanned(cfg.case)
        /\ cfg.model # Default[Model] => Model \in cfg.overridden

\* split.yaml, comment 4, cli.py main and api.py start: the locks of three surfaces agree.  A
\* test fixture is run live only where the lock was opened by hand, and never by the website;
\* and a child that the website or a sweep spawned is not turned down by main's lock or for its
\* brain: of the website's, only one whose settings cannot be read or whose key's line in .env
\* is empty.
LocksAgree ==
  /\ Running /\ scan.cfg.mode = "live"
       /\ ({scan.cfg.case} \cup Places[scan.args.place].owner) \cap Test # {} =>
       scan.by # "website" /\ (shell.unlock \/ (scan.by = "sweep" /\ scan.args.unlock))
  /\ scan.at = "refused" =>
       /\ scan.by = "sweep" => scan.why # "locked"
       /\ scan.by = "website" =>
            scan.why = "settings" \/ (scan.why = "no key" /\ DotenvLayer(scan.seen["dotenv"], Secret) = None)
=============================================================================
