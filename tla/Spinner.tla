------------------------------- MODULE Spinner ------------------------------
(***************************************************************************)
(* Package ui: a status line that a goroutine redraws every 90 ms. The     *)
(* goroutine copies the label under the lock and prints it after it has    *)
(* given the lock back; to stop it, its caller closes s.stop and waits for *)
(* s.done. Without a terminal there is no goroutine, and a line is printed *)
(* for each Start.                                                         *)
(***************************************************************************)
VARIABLES
  tty,      \* the output is a terminal
  running,  \* s.running
  label,    \* s.label
  stop,     \* s.stop is closed
  loop,     \* where the goroutine is
  drawn     \* the copy of the label it is about to print

spinnerVars == <<tty, running, label, stop, loop, drawn>>

NoLabel == <<>>

SpinnerTypeOK(Label) ==
  /\ {tty, running, stop} \subseteq BOOLEAN
  /\ {label, drawn} \subseteq Label \cup {NoLabel}
  /\ loop \in {"none", "select", "draw"}

SpinnerInit ==
  /\ tty \in BOOLEAN
  /\ running = FALSE /\ stop = FALSE /\ loop = "none"
  /\ label = NoLabel /\ drawn = NoLabel

(* Start *)
Spin(l) ==
  /\ running' = TRUE /\ label' = l /\ stop' = FALSE
  /\ loop' = IF tty THEN "select" ELSE "none"
  /\ UNCHANGED <<tty, drawn>>

Update(l) == label' = l /\ UNCHANGED <<tty, running, stop, loop, drawn>>

(* Mutant: stopAnim forgets to close the channel. *)
StopNothing == running' = FALSE /\ UNCHANGED <<tty, label, stop, loop, drawn>>

(* stopAnim up to the wait: it does nothing if the spinner does not run. *)
StopAnim ==
  /\ running' = FALSE /\ stop' = (stop \/ (running /\ tty))
  /\ UNCHANGED <<tty, label, loop, drawn>>

(* Mutant: nobody waits for the goroutine. *)
StoppedAlready == TRUE

(* <-s.done returns. *)
Stopped == loop = "none"

(* select takes the tick, which it may although s.stop is closed. *)
Tick ==
  /\ loop = "select" /\ loop' = "draw" /\ drawn' = label
  /\ UNCHANGED <<tty, running, label, stop>>

Draw ==
  /\ loop = "draw" /\ loop' = "select" /\ drawn' = NoLabel
  /\ UNCHANGED <<tty, running, label, stop>>

Quit ==
  /\ loop = "select" /\ stop /\ loop' = "none"
  /\ UNCHANGED <<tty, running, label, stop, drawn>>

Loop == Tick \/ Draw \/ Quit
=============================================================================
