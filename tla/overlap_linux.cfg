SPECIFICATION FairSpec
CONSTANTS
  OS = "linux"
  EnvDir = TRUE
  BootHome = TRUE
  Hazards = {"overlap", "reboot"}
  Addr = {a1}
  Host = {h1}
  Proc = {p1, p2}
INVARIANT TypeOK
PROPERTIES CommandsFinish HookReapplies
