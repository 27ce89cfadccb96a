------------------------------ MODULE Platform ------------------------------
(***************************************************************************)
(* The machine the commands run on: the operating system, who invokes a    *)
(* command, and which mishaps the environment may inflict on it.           *)
(*                                                                         *)
(* A context says who runs a command:                                      *)
(*   "user"  the unprivileged user                                         *)
(*   "sudo"  the same user, elevated (Windows: Administrator PowerShell)   *)
(*   "root"  another privileged account (root login, second administrator) *)
(*   "boot"  the boot hook (systemd unit, launchd daemon, SYSTEM task)     *)
(***************************************************************************)

CONSTANTS
  OS,        \* runtime.GOOS
  EnvDir,    \* TRUE: CLAUDE_UNSTUCK_STATE_DIR is set for every process
  BootHome,  \* TRUE: the boot hook has a config directory ($HOME, %AppData%)
  Hazards,   \* the mishaps the environment may inflict in this instance
  Addr,      \* IPv6 addresses
  Host       \* domain names

(* One name per kind of mishap.
     overlap   two commands run at the same time
     cmdfail   ip, route, netsh, launchctl, systemctl or schtasks fails
     iofail    a file cannot be written or removed
     readfail  the state file cannot be read
     crash     a command is killed ("on" and "off" handle no signal)
     reboot    the machine restarts
     split     a command runs whose state directory is not the user's
     nodns     no IPv6 address is found for the domains                    *)
HazardKinds ==
  {"overlap", "cmdfail", "iofail", "readfail", "crash", "reboot", "split", "nodns"}

ASSUME PlatformAssumption ==
  /\ OS \in {"linux", "darwin", "windows"}
  /\ EnvDir \in BOOLEAN
  /\ BootHome \in BOOLEAN
  /\ Hazards \subseteq HazardKinds

Contexts == {"user", "sudo", "root", "boot"}

Privileged(c) == c # "user"

(* Mutant: only sudo counts as elevated. *)
NeedsSudo(c) == OS # "windows" /\ c # "sudo"

(* Windows is never pre-checked. *)
NeedsElevation(c) == OS # "windows" /\ ~Privileged(c)

(* The environment may inflict all the mishaps in hs. *)
May(hs) == hs \subseteq Hazards
=============================================================================
