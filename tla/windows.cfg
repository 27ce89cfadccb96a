SPECIFICATION Spec
CONSTANTS
  OS = "windows"
  EnvDir = FALSE
  BootHome = TRUE
  Hazards <- AloneTrusty
  Addr = {a1, a2}
  Host = {h1}
  Proc = {p1}
INVARIANT RecordInv
PROPERTIES RecordsNotDropped
