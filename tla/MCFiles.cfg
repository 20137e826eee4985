SPECIFICATION Spec
CONSTANTS
  Keys <- MCKeys
  Secret = "secret"
  Values = {"x", "y"}
  Texts <- MCTexts
  Environ <- MCEnviron
  Touched = {"budget", "model", "secret"}
  RequestVars = {"budget", "model"}
  Budget = "budget"
  Cases <- MCCases
  Places <- MCPlaces
  Brain = "brain"
  Model = "model"
  BrainModel = "brain_model"
  Shells <- MCShells
  Requests <- MCRequests
  Default <- MCDefault
  KindBudget <- MCKindBudget
  Arguments <- MCArguments
  Split <- MCSplit
  Manifests <- MCManifests
  Specs <- MCSpecs
  Answers = {"a", "b", "end"}
  Finals = {"end"}
  Threads = {t1, t2}
  Sweeps = {s1, s2, s3}
  Recorders = {r1, r2}
  Replays = {r3}
  Configs = {c, d}
  MaxEdits = 2
  MaxSteps = 2
INVARIANTS AloneIsExact CeilingOrRefused ReplayIsOneRecording SlotIsTheRun SameRun LocksAgree
SYMMETRY Alike
CHECK_DEADLOCK FALSE
