SPECIFICATION Spec
CONSTANTS
  OS = "linux"
  EnvDir = FALSE
  BootHome = FALSE
  Hazards = {"split"}
  Addr = {a1}
  Host = {h1}
  Proc = {p1}
INVARIANT BackToDefault
