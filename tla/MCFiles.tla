------------------------------- MODULE MCFiles -------------------------------
(* The three kinds of file that several processes write and nobody locks, and the scan    *)
(* that starts while one of them is written.  A behaviour is of one of these: part says   *)
(* which, the others stay as they began.                                                 *)
EXTENDS Scans, Ledger, ReplayCache, TLC

VARIABLE part

Line(key, name, value) == [key |-> key, name |-> name, value |-> value]
MCKeys == {"budget", "model", "brain", "brain_model", "secret"}
MCEnviron == [k \in MCKeys |-> IF k = "model" THEN {"x"} ELSE {}]
Tomls == {<<>>, <<Line("budget", "own", "x")>>,
          <<Line("model", "own", "y"), Line("budget", "own", "empty")>>,
          <<Line("budget", "alias", "y"), Line("model", "own", "x"), Line("budget", "own", "x")>>,
          <<Line("budget", "own", "x"), Line("model", "alias", "bad")>>,
          <<Line("budget", "own", "x"), Line("budget", "alias", "y")>>}
Dotenvs == {<<>>, <<Line("secret", "own", "x"), Line("budget", "own", "y"), Line("secret", "own", "y")>>,
            <<Line("budget", "own", "bad")>>}

MCDefault == [k \in MCKeys \ {"secret"} |-> IF k = "brain_model" THEN "none" ELSE "x"]
MCKindBudget == [synthetic |-> "x", real |-> "y"]

\* Four evaluation cases, one of them real and of the test split; their directories, one below
\* a test fixture, two of a person's own (one named like a case) and one outside the project.
MCCases == [S02 |-> [split |-> "dev", real |-> FALSE], S10 |-> [split |-> "test", real |-> FALSE],
            R03 |-> [split |-> "test", real |-> TRUE], R05 |-> [split |-> "reserve", real |-> TRUE],
            D01 |-> [split |-> "demo", real |-> FALSE]]
Dir(owner, tree, name, large, offered) ==
  [owner |-> owner, tree |-> tree, name |-> name, large |-> large, offered |-> offered]
MCPlaces == [s02 |-> Dir({"S02"}, TRUE, "S02", FALSE, TRUE), s10 |-> Dir({"S10"}, TRUE, "S10", FALSE, TRUE),
             pinry |-> Dir({"R03"}, TRUE, "pinry", TRUE, TRUE), styleguide |-> Dir({"R05"}, TRUE, "styleguide", TRUE, TRUE),
             d01 |-> Dir({"D01"}, TRUE, "D01", FALSE, TRUE), sub |-> Dir({}, TRUE, "app", FALSE, TRUE),
             mine |-> Dir({}, FALSE, "mine", TRUE, TRUE), copy |-> Dir({}, FALSE, "S10", FALSE, TRUE),
             other |-> Dir({}, FALSE, "other", FALSE, FALSE)]
ShellOf(named, secret, mode, unlock, login) ==
  [settings |-> [k \in MCKeys |-> IF k = "secret" THEN secret ELSE IF k \in named THEN {"y"} ELSE {}],
   mode |-> mode, unlock |-> unlock, login |-> login,
   recorded |-> {<<"S02", "advanced">>, <<"S10", "advanced">>, <<"R03", "advanced">>}]
MCShells == {ShellOf({}, {}, {}, FALSE, TRUE), ShellOf({}, {"x"}, {}, FALSE, FALSE),
             ShellOf({"brain", "brain_model"}, {"x"}, {}, TRUE, TRUE), ShellOf({"model", "budget"}, {"x"}, {"replay"}, FALSE, TRUE)}
Plain == [place |-> "s02", case |-> {}, arm |-> "advanced", mode |-> {}, brain |-> {}, model |-> {},
         approve |-> {}, tty |-> FALSE, unlock |-> FALSE]
MCRequests ==
  {[Plain EXCEPT !.case = {c}, !.mode = m, !.brain = b, !.unlock = u] :
     c \in {"S02", "S10", "R03", "R05"}, m \in {{}, {"replay"}}, b \in {{}, {"y"}}, u \in BOOLEAN}
  \cup {[Plain EXCEPT !.place = p, !.case = c, !.mode = m, !.approve = {"auto"}] :
          p \in DOMAIN MCPlaces, c \in {{}, {"S02"}, {"S10"}}, m \in {{"live"}, {"replay"}}}
  \cup {[Plain EXCEPT !.arm = "baseline", !.mode = m, !.brain = b, !.model = n] :
          m \in {{}, {"live"}}, b \in {{}, {"y"}}, n \in {{}, {"y"}}}

\* The files when a scan starts: nothing, a project file that names a model, one that cannot be
\* read, and a .env with an empty line of the key.
ScanText(p, d) == [user |-> <<Line("budget", "own", "y")>>, project |-> p, dotenv |-> d]
ModelsNamed == <<Line("model", "own", "y"), Line("brain_model", "own", "y")>>
ScanTexts ==
  {ScanText(ModelsNamed, d) : d \in {<<>>, <<Line("secret", "own", "empty")>>,
                                <<Line("secret", "own", "x"), Line("brain_model", "own", "x")>>}}
  \cup {ScanText(p, <<>>) : p \in {<<>>, <<Line("model", "own", "bad")>>}}

MCTexts == ScanTexts \cup {[user |-> u, project |-> p, dotenv |-> d] :
              u \in {<<>>, <<Line("model", "own", "x"), Line("budget", "own", "y")>>}, p \in Tomls, d \in Dotenvs}

\* A sweep and what it is asked for beyond that: a split that needs the lock, one that does
\* not, an explicit list, the reserve, and what each check refuses.
Asked == [split |-> "dev", cases |-> <<>>, reserve |-> FALSE, unlock |-> FALSE, reason |-> FALSE,
          mode |-> "live", adr |-> FALSE, reproducible |-> FALSE, seeds |-> <<1>>,
          arms |-> <<"baseline", "advanced">>]
Open == [Asked EXCEPT !.unlock = TRUE, !.reason = TRUE]
MCArguments ==
  {Asked, [Asked EXCEPT !.split = "all"], [Open EXCEPT !.split = "all", !.reason = FALSE],
   [Open EXCEPT !.split = "all"], [Open EXCEPT !.split = "test", !.adr = TRUE],
   [Open EXCEPT !.split = "test", !.mode = "replay"],
   [Open EXCEPT !.split = "test", !.mode = "replay", !.reproducible = TRUE],
   [Open EXCEPT !.reproducible = TRUE],
   [Asked EXCEPT !.reserve = TRUE], [Open EXCEPT !.reserve = TRUE],
   [Open EXCEPT !.cases = <<"S02", "S01", "S02">>, !.seeds = <<1, 2>>, !.arms = <<"advanced">>],
   [Open EXCEPT !.cases = <<"R05">>], [Open EXCEPT !.cases = <<"S09">>],
   [Open EXCEPT !.split = "test", !.arms = <<"draft">>]}
MCSplit == [dev |-> <<"S01">>, test |-> <<"S02">>, reserve |-> <<"R05", "S03">>]
MCManifests == [S01 |-> [real |-> FALSE, spec |-> {"x"}, split |-> "dev"],
                S02 |-> [real |-> FALSE, spec |-> {"y"}, split |-> "test"],
                S03 |-> [real |-> FALSE, spec |-> {"y"}, split |-> "reserve"],
                R05 |-> [real |-> TRUE, spec |-> {}, split |-> "test"]]
MCSpecs == [S01 |-> {"x"}, S02 |-> {"y"}, S03 |-> {"x"}]

Alike == Permutations(Threads) \cup Permutations(Recorders) \cup Permutations(Configs)

settings == <<files, op, pc, got, before, alone>>
scans == scanVars
ledgers == <<ledger, committed, sweep, at, lines, edits>>

\* Where a part that is not looked at stays.
NoSettings == files = [f \in {"user", "project", "dotenv"} |-> <<>>] /\ SettingsInit
NoLedger == LedgerInit
NoScan == shell = <<>> /\ scan = Idle
NoCache == /\ slot = <<>> /\ cfg = <<>> /\ cleared = {} /\ sole = {}
           /\ said = [r \in Runs |-> <<>>] /\ state = [r \in Runs |-> "ready"]

Init ==
  \/ part = "settings" /\ SettingsInit /\ files \notin ScanTexts /\ NoLedger /\ NoCache /\ NoScan
  \/ part = "ledger" /\ LedgerInit /\ NoSettings /\ NoCache /\ NoScan
  \/ part = "cache" /\ CacheInit /\ NoSettings /\ NoLedger /\ NoScan
  \/ part = "scan" /\ ScansInit /\ SettingsInit /\ files \in ScanTexts /\ NoLedger /\ NoCache

\* One thread changes the project's model while the scan starts.
OneWriter ==
  /\ SettingsNext
  /\ Cardinality({t \in Threads : pc'[t] # "idle"}) <= 1
  /\ \A t \in Threads : pc'[t] # "idle" =>
       op'[t].file = "project" /\ op'[t].key = "model" /\ op'[t].value \in {"y", "empty"}

Next ==
  \/ part = "settings" /\ SettingsNext /\ UNCHANGED <<part, scans, ledgers, cacheVars>>
  \/ part = "ledger" /\ LedgerNext /\ UNCHANGED <<part, scans, settings, cacheVars>>
  \/ part = "cache" /\ CacheNext /\ UNCHANGED <<part, scans, settings, ledgers>>
  \/ part = "scan" /\ ScansNext /\ UNCHANGED <<part, settings, ledgers, cacheVars>>
  \/ part = "scan" /\ OneWriter /\ UNCHANGED <<part, scans, ledgers, cacheVars>>

Spec == Init /\ [][Next]_<<part, scans, settings, ledgers, cacheVars>>
=============================================================================
