----------------------------- MODULE SettingsFile -----------------------------
(***************************************************************************)
(* The settings every surface shares: settings.py, web/settings_api.py     *)
(* write and unset, config.py load and config_cli.py.  Five layers, and    *)
(* three files that are changed by reading them, replacing a line and      *)
(* writing them back, by request threads of the web server and by the      *)
(* command line, without a lock.                                           *)
(*                                                                         *)
(* A file is a sequence of lines [key, name, value]: name tells the two    *)
(* spellings apart, "own" (the one _rewrite looks for) and "alias" (MODEL, *)
(* ART30_MODEL); value is one of Values, "empty", or "bad" for one that    *)
(* does not coerce.  A missing file is the empty one.                      *)
(***************************************************************************)
EXTENDS Naturals, Sequences, FiniteSets

CONSTANTS Keys, Secret,   \* the settings; the one that lives in .env only
          Values,
          Threads,        \* request threads and command lines
          Texts,          \* what the three files may hold at first
          Environ,        \* key -> what the environment names, at most one value
          Touched,        \* the settings that somebody writes
          RequestVars,        \* the settings that change a request (config.py REQUEST_VARS)
          Budget,         \* of these, the one that the kind of case decides when no layer does
          Default,        \* setting -> its default
          KindBudget      \* kind of case -> its tool budget

Files == {"user", "project", "dotenv"}

\* A line names a setting or something that is none.
LineType == [key : Keys \cup {"unknown"}, name : {"own", "alias"}, value : Values \cup {"empty", "bad"}]

ASSUME SettingsAssumption ==
  /\ Secret \in Keys /\ RequestVars \subseteq Keys \ {Secret} /\ Budget \in RequestVars
  /\ Touched \subseteq Keys
  /\ Environ \in [Keys -> SUBSET Values]
  /\ Default \in [Keys \ {Secret} -> Values \cup {"none"}]
  /\ KindBudget \in [{"synthetic", "real"} -> Values]
  /\ Values \cap {"empty", "bad", "none"} = {}
  \* no spelling but the key's own is one in .env
  /\ \A text \in Texts : /\ text \in [Files -> Seq(LineType)]
                         /\ \A i \in DOMAIN text["dotenv"] : text["dotenv"][i].name = "own"

VARIABLES files,
          op,      \* thread -> what it was asked
          pc,      \* thread -> idle, asked, read, open, written, answered, refused
          got,     \* thread -> the lines it read
          before,  \* thread -> the files when it read them (history)
          alone    \* thread -> nobody else was at its file since (history)

settingsVars == <<files, op, pc, got, before, alone>>
-----------------------------------------------------------------------------
(* Reading.                                                                  *)

\* tomllib refuses a name given twice; an unknown name, the secret and a value that does not
\* coerce are errors too.
Parses(text) ==
  /\ \A i \in DOMAIN text : text[i].key \in Keys \ {Secret} /\ text[i].value # "bad"
  /\ \A i, j \in DOMAIN text : text[i].key = text[j].key /\ text[i].name = text[j].name => i = j

\* What a settings file names for a key: the last value that is not empty.
TomlLayer(text, key) ==
  LET said == {i \in DOMAIN text : text[i].key = key /\ text[i].value # "empty"}
  IN  {text[i].value : i \in {i \in said : \A j \in said : j <= i}}

\* What .env names: its last line, empty or not.
DotenvLayer(text, key) ==
  LET said == {i \in DOMAIN text : text[i].key = key}
  IN  {text[i].value : i \in {i \in said : \A j \in said : j <= i}} \ {"empty"}

\* The layers of a key, highest first; the secret is in no settings file.
Layers(env, fs, key) ==
  <<env[key], DotenvLayer(fs["dotenv"], key),
    IF key = Secret THEN {} ELSE TomlLayer(fs["project"], key),
    IF key = Secret THEN {} ELSE TomlLayer(fs["user"], key)>>

\* read refuses as a whole.
Reads(fs) ==
  /\ Parses(fs["user"]) /\ Parses(fs["project"])
  /\ \A key \in Keys \ {Secret} : "bad" \notin DotenvLayer(fs["dotenv"], key)

\* A key's value, {} for the default.
Value(env, fs, key) ==
  LET layers == Layers(env, fs, key)
      said == {i \in 1..4 : layers[i] # {}}
  IN  UNION {layers[i] : i \in {i \in said : \A j \in said : i <= j}}

\* config.py _explicit: the request settings some layer names, whatever it says.
Explicit(env, fs) == {key \in RequestVars : Value(env, fs, key) # {}}

\* config.py _overridden: those whose value is not the default; the trace and the record say so.
Overridden(env, fs) == {key \in Explicit(env, fs) : Value(env, fs, key) # {Default[key]}}

\* config.py load: what a run starts with.
Load(env, fs) ==
  [key \in Keys \ {Secret} |->
     CHOOSE v \in Values \cup {"none"} :
       v \in IF Value(env, fs, key) # {} THEN Value(env, fs, key) ELSE {Default[key]}]

\* config.py for_case_kind: a tool budget that no layer names is that of the kind of case.
ForCaseKind(env, fs, kind) ==
  [Load(env, fs) EXCEPT ![Budget] = IF Budget \in Explicit(env, fs) THEN @ ELSE KindBudget[kind]]
-----------------------------------------------------------------------------
(* Writing.                                                                  *)

\* The lines that assign the key.
Assigning(text, key) == {i \in DOMAIN text : text[i].key = key /\ text[i].name = "own"}

\* The lines that stay, the first of these in another form.
Kept(text, key, line) ==
  {i \in DOMAIN text : \/ i \notin Assigning(text, key)
                         \/ (line # <<>> /\ \A j \in Assigning(text, key) : i <= j)}

\* A set of positions in their order.
InOrder(S) ==
  CHOOSE at \in [1..Cardinality(S) -> S] : \A m, n \in DOMAIN at : m < n => at[m] < at[n]

\* The text with the line put where the key is assigned.
Replaced(text, key, line) ==
  LET at == InOrder(Kept(text, key, line))
  IN  [n \in DOMAIN at |-> IF at[n] \in Assigning(text, key) THEN line[1] ELSE text[at[n]]]

\* Mutant: that the line was replaced is not noted.
RewriteUnnoted(text, key, line) == Replaced(text, key, line) \o line

\* _rewrite: the first line that assigns the key is replaced (by none, for an unset), the
\* others that do are dropped; without one the line is appended.
Rewrite(text, key, line) ==
  IF Assigning(text, key) # {} THEN Replaced(text, key, line) ELSE text \o line

\* The line an operation writes, if any.
LineOf(o) == IF o.kind = "set" THEN <<[key |-> o.key, name |-> "own", value |-> o.value]>> ELSE <<>>

\* Bytes written over what another writer has put there since the file was emptied.
Over(text, new) == new \o SubSeq(text, Len(new) + 1, Len(text))

Ops == {o \in [kind : {"set", "unset"}, key : Touched, value : Values \cup {"empty", "bad"}, file : Files] :
          /\ o.file = "dotenv" <=> o.key = Secret
          /\ o.kind = "unset" => o.value = "empty"}

\* Others who are between their read and their write of a file.
AtFile(t, f) == {u \in Threads \ {t} : pc[u] \in {"read", "open"} /\ op[u].file = f}

SettingsInit ==
  /\ files \in Texts
  /\ op = [t \in Threads |-> [kind |-> "unset", key |-> Secret, value |-> "empty", file |-> "dotenv"]]
  /\ pc = [t \in Threads |-> "idle"]
  /\ got = [t \in Threads |-> <<>>]
  /\ before = [t \in Threads |-> files]
  /\ alone = [t \in Threads |-> FALSE]

\* A request, or `art30 config`: a value that does not coerce, or is empty, is refused.
Ask(t, o) ==
  /\ pc[t] = "idle"
  /\ op' = [op EXCEPT ![t] = o]
  /\ pc' = [pc EXCEPT ![t] = IF o.kind = "set" /\ o.value \in {"empty", "bad"}
                               THEN "refused" ELSE "asked"]
  /\ UNCHANGED <<files, got, before, alone>>

\* _rewrite: the lines that are there.
ReadLines(t) ==
  /\ pc[t] = "asked"
  /\ got' = [got EXCEPT ![t] = files[op[t].file]]
  /\ before' = [before EXCEPT ![t] = files]
  /\ alone' = [u \in Threads |-> IF u = t THEN AtFile(t, op[t].file) = {}
                                 ELSE alone[u] /\ op[u].file # op[t].file]
  /\ pc' = [pc EXCEPT ![t] = "read"]
  /\ UNCHANGED <<files, op>>

\* write_text opens the file, which empties it ...
Truncate(t) ==
  /\ pc[t] = "read"
  /\ files' = [files EXCEPT ![op[t].file] = <<>>]
  /\ pc' = [pc EXCEPT ![t] = "open"]
  /\ UNCHANGED <<op, got, before, alone>>

\* ... and writes it.
WriteText(t) ==
  /\ pc[t] = "open"
  /\ files' = [files EXCEPT ![op[t].file] =
                 Over(@, Rewrite(got[t], op[t].key, LineOf(op[t])))]
  /\ pc' = [pc EXCEPT ![t] = "written"]
  /\ UNCHANGED <<op, got, before, alone>>

\* The answer; an unset reads the settings once more for it, and may find them unreadable.
Reply(t) ==
  /\ pc[t] = "written"
  /\ pc' = [pc EXCEPT ![t] = IF op[t].kind = "unset" /\ ~Reads(files) THEN "refused" ELSE "answered"]
  /\ UNCHANGED <<files, op, got, before, alone>>

\* The server is stopped: a file that was open stays empty.
Stopped ==
  /\ \E t \in Threads : pc[t] \in {"asked", "read", "open", "written"}
  /\ pc' = [t \in Threads |-> "refused"]
  /\ UNCHANGED <<files, op, got, before, alone>>

SettingsNext ==
  \/ \E t \in Threads : \/ \E o \in Ops : Ask(t, o)
                        \/ ReadLines(t) \/ Truncate(t) \/ WriteText(t) \/ Reply(t)
  \/ Stopped

SettingsSpec == SettingsInit /\ [][SettingsNext]_settingsVars
-----------------------------------------------------------------------------
\* settings.py _rewrite, read and config.py load: a write that met no other does what its
\* answer says and nothing else.  Settings that could be read still can be; every other
\* setting resolves as before, in every layer; and unless a higher layer or another spelling
\* of it in the same file says otherwise, the next run starts with the value that was set,
\* the kind of its case notwithstanding, and declares it exactly when it is not the default;
\* an unset leaves what the layer below says, else what a run that was told nothing has.
AloneIsExact ==
  \A t \in Threads :
    pc[t] = "written" /\ alone[t] /\ Reads(before[t])
      /\ (\A f \in Files \ {op[t].file} : files[f] = before[t][f])
    => LET key == op[t].key
           text == files[op[t].file]
           layer == Layers(Environ, files, key)
           level == CASE op[t].file = "dotenv" -> 2 [] op[t].file = "project" -> 3 [] OTHER -> 4
           below == IF level = 3 THEN layer[4] ELSE {}
           Silent == \A i \in DOMAIN text :
                       text[i].key = key /\ text[i].name = "alias" => text[i].value = "empty"
       IN  /\ Reads(files)
           /\ \A k \in Keys \ {key} : Value(Environ, files, k) = Value(Environ, before[t], k)
           /\ Silent /\ (\A i \in 1..(level - 1) : layer[i] = {}) =>
                /\ Value(Environ, files, key) = (IF op[t].kind = "set" THEN {op[t].value} ELSE below)
                /\ key \in RequestVars =>
                     LET told == IF op[t].kind = "set" THEN {op[t].value} ELSE below
                     IN  /\ key \in Overridden(Environ, files) <=> told \notin {{}, {Default[key]}}
                         /\ \A kind \in DOMAIN KindBudget :
                              LET untold == IF key = Budget THEN KindBudget[kind] ELSE Default[key]
                              IN  ForCaseKind(Environ, files, kind)[key] \in (IF told = {} THEN {untold} ELSE told)
=============================================================================
