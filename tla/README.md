# claude-unstuck: specifications

`claude-unstuck` keeps Claude Code off a degraded IPv6 path. These modules
model the parts of it that carry state or concurrency, TLC checks them on small
instances, and TLAPS proves the safety properties and the refinement for all instances.

    tlc -config linux.cfg MCSystemFix      # one run, see "Runs"
    tlapm SystemFixProofs.tla              # the proofs of one module, see "Proofs"

## Inventory of the system

| component | source | state | operations | what is hard | what makes it correct |
|---|---|---|---|---|---|
| blocking table | `internal/route` | kernel routes / firewall rules (outside the program) | `Apply`, `Remove` | one command per address, each may fail; some errors count as success; `Apply` stops at the first error, `Remove` goes on and keeps the first | an `on` that succeeds has blocked all it resolved |
| state file | `internal/state` | `state.json`, one per directory; the directory depends on who runs the command | `Load`, `Save`, `Clear` | truncate-then-write, torn files, sudo/root/boot seeing different files | what is blocked is recorded somewhere |
| boot hook | `internal/boot` | unit file, plist or task; its enablement; the queued boot job | `Install`, `Remove`, `Installed` | two-step changes, a job that starts at once on macOS, `ExecStop` on Linux | persistence is what status says, and ends with `off` |
| `on`, `off`, `status` | `cmd/claude-unstuck/main.go` | a copy of the program for the hook (`persistentBinPath`); else a sequence of system calls on the three above | `cmdOn`, `cmdOff`, `cmdStatus` | no lock: overlap, kill, restart between any two calls; ignored errors | nothing orphaned; success is honest; records outlive what they undo |
| CONNECT proxy | `internal/proxy` | listener, record list, one goroutine (later two) per connection | `Listen`, `Records`, `Close`, `handle` | half-closed tunnels, records only at the end of a tunnel | records tell the truth, handlers end |
| detection turn | `internal/detect` | child process, context, proxy | `runTurn`, `classify` | deadline against exit against Ctrl-C; records still on their way | the outcome says what happened |
| doctor | `main.go`, `detect/verdict.go` | outcomes of the two families | `RunFamily`, `Verdict`, `doctorVerifyFixOn` | mixed outcomes, Ctrl-C at any point, a verification that infers a block from failures | only a hang confirms; neither family is favoured; a fix that works is left alone |
| session, run | `main.go` `launchOverIPv4` | child, signal channel, proxy | start, forward, wait, receipt | signals around the child's end; receipt from a partial list | TERM reaches the child; the receipt is true |
| probe, report | `internal/probe`, `internal/report` | attempts | `Run`, `Verdict` | cancellation, clamped counts | verdict follows from the counts |
| spinner | `internal/ui` | flag, channels | `Start`, `Update`, `stopAnim` | handshake with the loop goroutine | no frame after the final line, no deadlock |
| DNS helper | `internal/dnsutil` | none | `ResolveAll` | partial failures | - |

`on` resolves, undoes the previous record, applies, saves, and may copy the
program and install the hook; the hook runs `on` again, without `--persist`, at
every boot, and the Linux unit runs `off` when it stops. `status` reads the
record, DNS and the hook's presence. `doctor` reads the record to decide
between verifying the fix, with the attempts of `probe`, and turns; it shows
either with the spinner. A turn owns a proxy and a child, and so does
`session`.

## Modules

| module | models | correspondence |
|---|---|---|
| `Platform` | OS, who runs a command, the mishaps an instance allows | `Contexts` and `Privileged` stand for uid and `SUDO_USER`; `May(h)` guards every mishap |
| `Route` | the blocking table and its commands | `AddEntry`/`DeleteEntry` include the tolerated errors, `CommandFails` is every other error |
| `StateFile` | `state.json` | `SaveOpen` then `SaveWrite` are the two effects of `os.WriteFile`; `LoadFails` is a missing directory or a torn file, `LoadMayFail` also a file that cannot be read |
| `BootHook` | unit, plist, task, the program they name, and the service manager | one operator per part of `Install` and `Remove` that takes effect by itself; `stable` is the copy in `/usr/local/bin` |
| `SystemFix` | composes these with processes running `on` and `off` | `pc` is the place in `cmdOn`/`cmdOff`, `loc` the local variables; one action per system call or external command; `OnCopy` then `OnFill` are the copy of the program |
| `FixLedger` | abstract specification of `on`/`off` | what is blocked, promised and pending |
| `SystemFixProperties` | what `SystemFix` must satisfy, what `status` says, the inductive invariants | |
| `Proxy` | the CONNECT proxy | one action per blocking call of `serve` and `handle`; its user (`Turn`, `Session`) says when clients may connect |
| `Turn` | `runTurn` and `classify`, extends `Proxy` | the proxy's handlers interleave with every step of `runTurn`; `held` is a process that keeps claude's output open |
| `Session` | `launchOverIPv4` and `printRunSummary`, extends `Proxy` | `at` is the place in the main goroutine, `forwarder` that of the signal goroutine, `sigc` the channel with room for one |
| `Probe` | `probe.Run`'s counts and `report.Verdict` | an attempt is what it came to |
| `Spinner` | the spinner and its goroutine | `loop` is the place in `loop`; `drawn` the label copied under the lock and not yet printed |
| `Doctor` | `cmdDoctor` in both modes and `cmdProbe`, extends `Probe` and `Spinner` | a turn is its outcome; `results` are the outcomes so far, `blocked` what the network does |
| `SystemFixProofs`, `LedgerProofs`, `PersistenceProofs`, `ProxyProofs`, `TurnProofs`, `SessionProofs`, `VerdictProofs`, `DoctorProofs` | the theorems and their lemmas | |
| `MC...` | the instances TLC checks | |

A definition whose comment starts with `Mutant:` is a plausible bug in the
definition after it, kept to show that the properties notice it: it takes no
part in the specifications.

### Abstractions

Addresses and domains are model values. A DNS answer is any set of addresses.
Addresses of a loop are handled in any order. Bytes, times, wording and layout
are left out. The table and the service managers are outside the program and
modelled by the effect of the commands the code runs. `off` of a Windows user
without privileges gets as far as the first command, which fails.

Mishaps (`Hazards`): `overlap` two commands at a time; `cmdfail` an external
command fails; `iofail` a file cannot be written or removed; `readfail` the
state file is there and cannot be read; `crash` a command is killed; `reboot`;
`split` a command runs whose state directory is not the user's; `nodns` no
address is found. Each property states which mishaps it excludes, and these exclusions
are facts about the code: see "Limits of the guarantees".

## Runs

| run | instance | shows |
|---|---|---|
| `linux` | 2 addresses, 2 process slots, restarts, no DNS, split directories | nothing orphaned, a persistence that `status` reports will run a whole program, the ledger is implemented, and the inductive invariant `AccountInv` holds |
| `darwin` | as `linux`, one state directory for every account | loading the daemon starts a second `on`: nothing is orphaned, and the last words of `off` are true (`BackToDefault`) |
| `rough_linux` | all mishaps but overlap, boot hook without `$HOME` | `OnHonest`, `OffNeverForgets`, `OffEndsPersistence`, `HookNamesProgram`, `OnlyOnStrands`, inductive `ProgressInv` |
| `windows` | all mishaps but overlap, failing commands and unreadable records | inductive `RecordInv`, which implies `OnHonest`; `RecordsNotDropped` |
| `overlap_linux` | 2 commands at a time, 1 address, restarts, fairness | commands end, a queued boot job ends in a successful `on` |
| `turn` | 2 connections, 1 of them to the API | outcomes, records, and that turns and handlers end |
| `session` | 2 connections, 2 signals | the command keeps its proxy and hears of a signal, no send on a closed channel, a sound receipt, and an end |
| `doctor` | 2 turns or at most 3 attempts per family, 0 and 4 attempts asked of `probe` | verdicts, counts, Ctrl-C, a verdict in the end, and the spinner beside them |
| `off_elsewhere` | expected violation of `BackToDefault` | root's `on` is recorded in root's directory; the `off` of another account finds nothing to undo there |
| `rerun_failed_cleanup` | expected violation of `RerunCleansFirst` | the clean-up's error is ignored and its record overwritten |
| `receipt_forgets_open` | expected violation of `NothingMeansNone` | the receipt is printed before the handler of a tunnel records it |
| `working_unblocked` | expected violation of `WorkingMeansBlocked` | attempts that fail over a degraded path pass for a block |

Bounds. Two addresses are enough for a loop to be caught half-way, and for old
and new records to differ, overlap or be disjoint; one suffices where two
processes compete for it. `Host` never influences a step beyond being copied.
Two process slots give every pairwise overlap. Two connections let one fail
while the other is open. `MaxTurns` = 2 is `doctor`'s default: two turns give
every pair of outcomes in a family, and a gap for Ctrl-C. `MaxCount` = 3 and
`DefaultCount` = 2 stand for the cap and default of `probe.Run`: thresholds of
the report are 1 and 2, and 3 exceeds both; `Asked` = {0, 4} lies on either
side. `MaxSignals` = 2 lets one signal be lost behind another. No other
counter is bounded: the state spaces are finite as they are. Deadlock is
checked except in `Turn`, `Session` and `Doctor`, which end.

Two constants say where records go. `EnvDir` is TRUE where
`CLAUDE_UNSTUCK_STATE_DIR` is set for every process, so that all accounts share
one directory; it is what `off`'s last words take to be true, and `darwin` and
`rerun_failed_cleanup` assume it. `BootHome` is FALSE for the unit as generated,
which has neither `User=` nor `Environment=`: systemd gives it no `$HOME`, its
`on` cannot save and fails, and the unit does not become active
(`rough_linux`). It is TRUE where a drop-in provides `$HOME` (`linux`), or with
`EnvDir` (`overlap_linux`); then the unit becomes active, and its `ExecStop`
runs `off` at shutdown, which removes the unit, as in `linux`.

Fairness. A command that runs keeps being scheduled
(`WF(OnStep \/ OffStep \/ Exit)`): it waits for nothing but its own system
calls and external commands, taken to return. The service manager starts a
queued job (`SF(BootOn)`: other commands may keep getting in between). In
`Turn`, goroutines run, the deadline's timer fires, a kill takes effect, and an
upstream closes once it has seen the client's FIN; this last one is the
network's, and `HandlersDrain` needs it: `handle` has no timeout of its own.
In `Session`, the two goroutines of `launchOverIPv4` run; its command need not
end. In `Doctor`, tests end: turns by `TurnEnds`, attempts by their timeout.
Its spinner draws, and stops when told: Go's `select` chooses at random between
a tick and the closed channel, so it takes the channel at some time
(`SF(Quit)`). No fairness is assumed of people, of restarts, of claude, of
processes it leaves behind, or of dials that succeed.

## Proofs

`SystemFixProofs`, then `LedgerProofs` (from `RecordInvariant` on) and
`PersistenceProofs` (from `OffEndsHook` on), for every set of addresses, domains
and processes, every OS and every `Hazards` within the stated hypothesis:

| theorem | hypothesis | conclusion |
|---|---|---|
| `TypeCorrect` | none | `Spec => []TypeOK` |
| `ProgressInvariant` | no overlap | `Spec => []ProgressInv` |
| `OnIsHonest` | no overlap | `Spec => []OnHonest` |
| `OffKeepsRecords` | no overlap | `Spec => OffNeverForgets` |
| `HookProgramWhole` | no overlap | `Spec => HookNamesProgram` |
| `AccountInvariant` | `Calm`: no overlap, cmdfail, iofail, readfail or crash, and a state directory for every run | `Spec => []AccountInv` |
| `NothingOrphaned` | `Calm` | `Spec => []NoOrphan` |
| `RecordInvariant` | no overlap, cmdfail or readfail | `Spec => []RecordInv` |
| `RecordsAreKept` | no overlap, cmdfail or readfail | `Spec => RecordsNotDropped` |
| `RerunIsClean` | no overlap, cmdfail or readfail, not Windows | `Spec => RerunCleansFirst` |
| `StrandedByOn` | no overlap | `Spec => OnlyOnStrands` |
| `CommandsImplementLedger` | `Calm` | `Spec => ImplementsLedger` |
| `AlwaysBalanced` | `Calm` | `Spec => []Balanced`: what is blocked is promised or pending |
| `OffEndsHook` | no overlap, not Windows | `Spec => []OffEndsPersistence` |
| `OffRestoresDefault` | `Calm`, `OneDirectory`: the variable is set for every process | `Spec => []BackToDefault` |
| `PersistenceIsArmed` | `Calm` | `Spec => []PersistenceArmed` |
| `PersistsOnMac` | macOS | `Spec => PersistsUntilOff` |

They rest on `PlatformAssumption` only. `OnHonest` is not inductive: that a
finished `on` has everything blocked says nothing of one in the middle.
`ProgressInv` adds, for each label, what has been achieved by then (what is
neither blocked nor left to do: nothing; a copy past its write: whole), that
only complete files have records, and that one process is active. Non-overlap
carries the argument: `StepFrame` (a step leaves the other processes' locals
alone) and `StepAlone` (the stepping process is the only active one) reduce
each step to the process that takes it. `AccountInv` extends this for
`NoOrphan`: at each label it says which files or locals account for each
blocked address (`Accounted`), and that an unprivileged process never reaches
the file. The proofs have one lemma per group of actions and one step per
action. `OffRestoresDefault` adds `AtHome` to `AccountInv`: with one state
directory no other file ever has records. So an `off` that finds none finds an
empty table, and `Undone`: from its `Clear` on, an `off` has left nothing, and
its later steps touch neither table nor file. `PersistenceIsArmed` adds `HookSound`: an
installed hook names a whole copy and is enabled, except while a process is at
one of the labels that are about to make it so. Both use that few steps touch
the hook (`HookKept`, `CopyKept`), and that these labels are reached from few
others (`HookLabels`).

`RecordsNotDropped` speaks of one step, but whether the truncating write drops
a record depends on what the run did since it loaded the old ones.
`RecordProgress` follows them: at "unwind" what they hold and the table still
blocks is in `todo`, at "apply" and "save" in `want`, at "write" the file holds
none. A failure that the clean-up passes over would break it, hence no
`cmdfail`, and so would a record that could not be read and is overwritten,
hence no `readfail`; on Windows an unprivileged run passes over them all the
same, but then fails at the first command of "apply". `RecordsChange` says what
each of the three commands on the file does to the set of records, `FileKept`
that there are no others.

`CommandsImplementLedger` goes step by step, with `AccountInv` and `RecordInv`.
`LedgerView` reads the ledger off the one process that runs. A start is `Enter`
once addresses are resolved; an entry that is added is `Block`; one that is
deleted, by the clean-up, by Windows' delete-before-add or by `off`, is
`Release` (`RecordProgress` has it on record); the truncating open of the file
is `Commit`, although the new records are written a step later; an unprivileged
"apply" that fails (Windows) is `Abandon`; `Clear` is `Retire`, and a restart
`PowerCycle`. Every other step changes nothing on the ledger. `AlwaysBalanced`
is proved of the ledger's steps alone and holds of the commands because they
implement it: it is `NoOrphan` for the moments in which a command runs.

`StrandedByOn` has no hypothesis but non-overlap and says where the other
theorems' hypotheses bite: what is blocked, on no record and about to be on none
got there by an `on` that failed, was killed or overwrote a record. It takes
`ProgressInv` for the steps of `off`, and goes by the steps that delete a record
(`Clear`, the truncating save) or end a process before its save.

Two theorems delimit findings, each by the property or the state that a run
finds wrong. `RerunIsClean`: the clean-up of a re-run fails to clean only
through a failed command or a record that cannot be read, whose errors are
ignored (`rerun_failed_cleanup` shows the first); it needs `Elevated`, that only
Windows lets an unprivileged command run. `ReceiptLags` is below. And
`PersistsOnMac`: without an `ExecStop` nothing but a person's `off` removes the
hook, whatever overlaps or fails.

`TurnProofs` and `SessionProofs`, for every set of connections (and signals);
both use the invariant of `ProxyProofs`, which every step of a connection and
of the proxy's user keeps: at each stage of a handler, what has been tunneled
and recorded of its connection.

| theorem | conclusion |
|---|---|
| `TurnTypeCorrect` | `TurnSpec => []TurnTypeOK` |
| `RecordsAreFaithful` | `TurnSpec => []RecordsFaithful` |
| `BlackholeHasNoPath` | `TurnSpec => []BlackholeIsNoPath`: a record without a tunnel is a failure, and `classify` looks at those first |
| `WithheldHangs` | `TurnSpec => []WithheldIsHung`: the copied records are some of the proxy's, and a process that was killed printed what it printed before |
| `SessionTypeCorrect` | `SessionSpec => []SessionTypeOK` |
| `ProxyIsKept`, `NeverPanics` | `SessionSpec => []CommandKeepsProxy`, `[]NoPanic`: at each place of the main goroutine, whether the command runs, signals are notified and the channel is closed |
| `ReceiptIsSound` | `SessionSpec => []ReceiptSound`: records and tunnels are never taken back after the command's end |
| `ReceiptLags` | `SessionSpec => []MissesOnlyOpen`: a receipt without tunnels misses those only whose handlers still run, as in `receipt_forgets_open`, and no others |

`DoctorProofs`, for every number of turns and every cap on the attempts, with
lemmas on the verdicts in `VerdictProofs`:

| theorem | conclusion |
|---|---|
| `DoctorTypeCorrect` | `DoctorSpec => []DoctorTypeOK` |
| `ErrorsAreHarmless` | `DoctorSpec => []ErrorsNeverConfirm` |
| `FamiliesAreEqual` | `DoctorSpec => []FamilySymmetry` |
| `InterruptIsPrompt` | `DoctorSpec => []PromptInterrupt` |
| `VagueWhenInterrupted` | `DoctorSpec => []InterruptedIsVague` |
| `NoBlameUntested` | `DoctorSpec => []UntestedNeverBlamed` |
| `BlameTakesContrast` | `DoctorSpec => []BlameNeedsContrast` |
| `ProbingIsGentle` | `DoctorSpec => []GentleProbing` |
| `WorkingFixIsKept` | `DoctorSpec => []FixedNeverRefreshed` |
| `FramesAreCurrent` | `DoctorSpec => []FramesNameTheTest` |

`DoctorInv` is their common invariant, a conjunction of one part for each
concern: `Course` (which tests have been made, at each place), `Lateness` (how
many started after Ctrl-C, and what those of IPv6 came to), `Display` (the
label is that of the family under test while the goroutine lives), `Silence`
(nothing that is blocked answered), `Limits`, `Types` and `Concluded` (the
verdict is that of the outcomes). The two on verdicts need `WorstIs`: the
`CHOOSE` of `Worst` exists, and is one of the two worst outcomes exactly when
that was seen; with it, `VerdictIs` makes the verdict a function of which
outcomes were seen, and `SeenChanged` says what an exchanged outcome changes of
that. `BlameTakesContrast` counts: `CountBounds` (a count is between what is
seen and the length) and `AllCounted` (a count that is the length is of all)
give `Contrast`, which says of either blame what was seen of both families.

`VerdictProofs` and `DoctorProofs` rest on `ProbeAssumption` and
`DoctorAssumption`; the others assume nothing of their constants but what
`Proxy` and `Session` say of `ApiConn` and `MaxSignals`.

Every safety property, every action property and the refinement that a passing
run checks are proved. Only model-checked: the liveness properties
(`CommandsFinish`, `HookReapplies`, `TurnEnds`, `HandlersDrain`,
`SignalsArrive`, `SessionEnds`, `VerdictGiven`), since liveness under fairness
is out of the prover's reach, as are `ENABLED` and induction over recursive
data; and the violations, which are counterexamples.

## Limits of the guarantees

Dropping an exclusion from a configuration gives a counterexample; besides
those with a run of their own, met while modelling:

- `NoOrphan` under `overlap`: `off` clears whatever an `on` saved meanwhile
  (`main.go:514`). With a boot hook that has no `$HOME` (`split`, `BootHome =
  FALSE`, as for systemd services): `on` applies its routes and cannot save.
- `BackToDefault` with several state directories (`off_elsewhere`): `off` looks
  into its own only. What root's login, the boot hook or a second administrator
  recorded in another stays blocked after "Nothing to undo" (`main.go:504`) and,
  where `off` had a record of its own, after "Back to default" (`main.go:524`).
  Under `crash`: an `on` killed before it saves, or whose route commands fail
  half-way (`route.go:113`), leaves routes that a later `off` does not know of,
  and that one says the same. A kill within the save leaves a torn record; the
  next `on` takes it for none (`main.go:445`), and its addresses stay blocked.
- Under `readfail`, `on` ignores the error of `Load` (`main.go:445`), skips the
  clean-up and overwrites the record: `RecordsNotDropped` and
  `RerunCleansFirst` fail. `off` and `status` report the error.
- After a warned `off` the hook is still there and the record is not: a later
  `off` stops at "Nothing to undo". `status` compares the record with DNS and
  not with the table. A kill while a re-run of `on --persist` rewrites the
  program leaves the hook of the earlier run with a torn one.
- On Linux, persistence does not outlive a shutdown where the unit has become
  active: its `ExecStop` removes it (see `BootHome` above).
- Under `iofail`, "undo manually with `sudo claude-unstuck off`"
  (`main.go:454`) does not undo what was not saved, and the `off` advised for a
  left-over hook (`main.go:536`) returns before it looks at the hook.
- `PersistenceArmed` under `cmdfail`: a unit that could not be enabled stays on
  disk and counts as installed (`boot.go:128`). Under `iofail`: where the copy
  fails, the hook names the running program (`main.go:488-494`), wherever it
  was started from. `OffEndsPersistence` on Windows under `cmdfail`: the error
  of `schtasks /delete` is ignored.
- `HookReapplies` excepts a program that is not whole: a re-run of
  `on --persist` truncates it while a queued boot job may start it.
- A later `on` with other `--domains` and without `--persist` leaves the hook
  on the earlier ones; `status` shows one list for both. After a restart, and
  before the hook has run, `status` compares DNS with the record and calls the
  addresses covered (`main.go:566`).
- `TurnEnds` excepts a process that holds claude's output for ever:
  `CombinedOutput` waits for it, past the deadline (`detect.go:178`).
- `classify` calls a deadline without any connection `Hung` (`detect.go:195`
  says one was open). A connection that is still withheld is not on record, so
  that one failed dial makes the turn `NoPath` (`detect.go:181`, `:191`). A
  deadline that passes between claude's answer and the test of `turnCtx.Err()`
  gives `Hung` too.
- `Verdict` is "healthy" when neither family has a path, "no-v6" when one turn
  had none and others hung, and "v6-hangs" without a path over IPv4
  (`verdict.go:38`).
- `WorkingMeansBlocked` also fails with Ctrl-C: no attempt over IPv6 is no
  answer over IPv6, and the fix "working".
- `Report` after Ctrl-C before IPv6 was tried: two stalls of IPv4 are
  "v4-degraded", with the words "IPv6 is clean" (`report.go:36`); the exception
  in `BlameNeedsContrast`. It is "healthy" of no attempt at all, and of IPv4 failing beside one
  stall of IPv6. An attempt that Ctrl-C cancels counts as a stall.
- A signal before `signal.Notify` (`main.go:148`) kills the program and leaves
  the command without its proxy: the exception in `CommandKeepsProxy`. The
  channel has room for one: an INT that waits there makes the runtime drop a
  TERM, so that `SignalsArrive` speaks of one signal, not of each.
- The receipt's count includes connections that failed.

## Not modelled

- Parsing: `main`, `knownCommands`, the arguments of `session`, domains and
  host names.
- The exit status a session passes on, `--json` output, `Median` and all
  timings, remote addresses, colours, wording and layout.
- `chownToSudoUser` (changes no content), `HasGlobalIPv6` (not used), a torn
  unit file (`os.WriteFile` of the unit fails or works as a whole here),
  Windows' inability to forward a signal.
- The installers, the workflow and the build files.

## Plan

Every safety property of a passing run has its theorem. Proofs still worth
having: what holds with overlapping runs, of which `TypeCorrect` and
`PersistsOnMac` are all so far; `OffEndsHook` on Windows without `cmdfail`; and
the safety parts of the liveness properties (that a step is left to take
wherever a command, a turn or a session has not ended).
