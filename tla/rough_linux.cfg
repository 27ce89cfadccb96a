SPECIFICATION Spec
CONSTANTS
  OS = "linux"
  EnvDir = FALSE
  BootHome = FALSE
  Hazards <- Alone
  Addr = {a1, a2}
  Host = {h1}
  Proc = {p1}
INVARIANTS ProgressInv OnHonest OffEndsPersistence
PROPERTIES OffNeverForgets HookNamesProgram OnlyOnStrands
