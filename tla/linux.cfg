SPECIFICATION Spec
CONSTANTS
  OS = "linux"
  EnvDir = FALSE
  BootHome = TRUE
  Hazards <- CalmSplit
  Addr = {a1, a2}
  Host = {h1}
  Proc = {p1, p2}
INVARIANTS AccountInv NoOrphan PersistenceArmed
PROPERTIES ImplementsLedger
