SPECIFICATION Spec
CONSTANTS
  OS = "darwin"
  EnvDir = TRUE
  BootHome = TRUE
  Hazards <- CalmSplit
  Addr = {a1, a2}
  Host = {h1}
  Proc = {p1, p2}
INVARIANTS NoOrphan BackToDefault
