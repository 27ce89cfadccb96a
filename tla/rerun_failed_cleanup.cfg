SPECIFICATION Spec
CONSTANTS
  OS = "linux"
  EnvDir = TRUE
  BootHome = TRUE
  Hazards = {"cmdfail"}
  Addr = {a1, a2}
  Host = {h1}
  Proc = {p1}
PROPERTY RerunCleansFirst
