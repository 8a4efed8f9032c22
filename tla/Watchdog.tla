------------------------------- MODULE Watchdog -------------------------------
(***************************************************************************)
(* The container's loop (entrypoint.sh): the warm-up, then one pass after  *)
(* another, each with a watchdog subshell that ends it when it takes too   *)
(* long and a marker file by which the shell tells why the pass ended.     *)
(* /tmp survives a restart of the container; process ids start over.       *)
(*                                                                         *)
(* Time is counted while a pass runs, from its start, in units of the      *)
(* head-room.  The shell's own steps, the trap's and the watchdog's take   *)
(* none of it.                                                             *)
(***************************************************************************)
EXTENDS Integers

CONSTANTS
    Pid,              \* process ids a pass may get
    InferenceTimeout, \* POSTFIAT_SIDECAR_INFERENCE_TIMEOUT_SECONDS
    Timeouts,         \* POSTFIAT_SIDECAR_COMMAND_TIMEOUT_SECONDS
    MaxCrashes        \* bound: the container dies by itself

ASSUME WatchdogAssumption ==
    /\ InferenceTimeout \in Nat \ {0}
    /\ Timeouts \subseteq Nat \ {0}
    /\ MaxCrashes \in Nat

VARIABLES
    mode,          \* POSTFIAT_SIDECAR_MODE
    commandTimeout,
    shell,         \* where the entrypoint is
    exit,          \* why the container last stopped
    run,           \* the pass: its process id, what it is at, the time at
                   \* which its inference began
    age,           \* the time since the pass began
    watchdog,      \* where the watchdog subshell is
    markers,       \* the process ids with a timeout marker in /tmp
    signalled,     \* the container is asked to stop
    rang,          \* the watchdog of this pass wrote its marker
    stale,         \* the markers an earlier life of the container left
    crashes

vars == <<mode, commandTimeout, shell, exit, run, age, watchdog, markers, signalled,
          rang, stale, crashes>>

WATCHDOG_HEADROOM == 1

Modes == {"sync", "participate"}
Shells == {"warmup", "start", "wait", "ended", "kill", "reap", "sleep", "exited"}
Exits == {"none", "watchdog", "stopped", "killed", "crashed"}
Watchdogs == {"off", "counting", "due", "marked", "grace"}
Phases == {"none", "work", "inference", "after", "dead"}
Runs == [pid : Pid, phase : Phases, began : Nat]

TypeOK == /\ mode \in Modes
          /\ commandTimeout \in Timeouts
          /\ shell \in Shells
          /\ exit \in Exits
          /\ run \in Runs
          /\ age \in Nat
          /\ watchdog \in Watchdogs
          /\ markers \subseteq Pid
          /\ signalled \in BOOLEAN
          /\ rang \in BOOLEAN
          /\ stale \subseteq Pid
          /\ crashes \in Nat

\* Mutant: a timeout equal to the inference is enough.
AcceptedBare(m, t) == m = "participate" => t >= InferenceTimeout

\* A participate timeout must exceed the inference and the head-room.
Accepted(m, t) == m = "participate" => t > InferenceTimeout + WATCHDOG_HEADROOM

FirstStep(m) == IF m = "participate" THEN "warmup" ELSE "start"

Init == /\ mode \in Modes
        /\ commandTimeout \in {t \in Timeouts : Accepted(mode, t)}
        /\ shell = FirstStep(mode)
        /\ exit = "none"
        /\ run \in [pid : Pid, phase : {"none"}, began : {0}]
        /\ age = 0
        /\ watchdog = "off"
        /\ markers = {}
        /\ signalled = FALSE
        /\ rang = FALSE
        /\ stale = {}
        /\ crashes = 0

-----------------------------------------------------------------------------
(* The pass.  It may hang before, during or after its inference; the       *)
(* inference itself is cut off by its own timeout.                         *)

settings == <<mode, commandTimeout>>
Alive == run.phase \in {"work", "inference", "after"}

Infer == /\ mode = "participate"
         /\ run.phase = "work"
         /\ run' = [pid |-> run.pid, phase |-> "inference", began |-> age]
         /\ UNCHANGED <<settings, shell, exit, age, watchdog, markers, signalled, rang, stale, crashes>>

Answer == /\ run.phase = "inference"
          /\ run' = [run EXCEPT !.phase = "after"]
          /\ UNCHANGED <<settings, shell, exit, age, watchdog, markers, signalled, rang, stale, crashes>>

\* The command exits, with success or without.
Finish == /\ Alive
          /\ run' = [run EXCEPT !.phase = "dead"]
          /\ UNCHANGED <<settings, shell, exit, age, watchdog, markers, signalled, rang, stale, crashes>>

Ringing == watchdog = "counting" /\ age >= commandTimeout
TimedOut == run.phase = "inference" /\ age >= run.began + InferenceTimeout

\* Age stops counting when the watchdog has rung.
Tick == /\ Alive
        /\ watchdog = "counting"
        /\ ~Ringing /\ ~TimedOut
        /\ age' = age + 1
        /\ UNCHANGED <<settings, shell, exit, run, watchdog, markers, signalled, rang, stale, crashes>>

-----------------------------------------------------------------------------
(* The watchdog subshell.                                                  *)

\* kill -0 succeeds for a process that runs or that nobody has waited for.
Ring == /\ Ringing
        /\ watchdog' = IF run.phase = "none" THEN "off" ELSE "due"
        /\ UNCHANGED <<settings, shell, exit, run, age, markers, signalled, rang, stale, crashes>>

Mark == /\ watchdog = "due"
        /\ watchdog' = "marked"
        /\ markers' = markers \cup {run.pid}
        /\ rang' = TRUE
        /\ UNCHANGED <<settings, shell, exit, run, age, signalled, stale, crashes>>

\* kill -TERM: the command dies of it, or does not react.
Terminate ==
    /\ watchdog = "marked"
    /\ watchdog' = "grace"
    /\ \/ Alive /\ run' = [run EXCEPT !.phase = "dead"]
       \/ UNCHANGED run
    /\ UNCHANGED <<settings, shell, exit, age, markers, signalled, rang, stale, crashes>>

\* Mutant: SIGTERM is all.
AfterKillSpared == run

\* What the pass is after kill -KILL.
AfterKill == IF Alive THEN [run EXCEPT !.phase = "dead"] ELSE run

Destroy ==
    /\ watchdog = "grace"
    /\ watchdog' = "off"
    /\ run' = AfterKill
    /\ UNCHANGED <<settings, shell, exit, age, markers, signalled, rang, stale, crashes>>

-----------------------------------------------------------------------------
(* The shell.                                                              *)

\* The container stops, and every process in it.
Stop(e, m) ==
    /\ shell' = "exited"
    /\ exit' = e
    /\ run' = [run EXCEPT !.phase = "none"]
    /\ watchdog' = "off"
    /\ markers' = m
    /\ rang' = FALSE
    /\ stale' = m
    /\ UNCHANGED <<settings, age, signalled>>

\* warm-runtime runs in the foreground: the trap waits for it to return.
WarmUp == /\ shell = "warmup"
          /\ shell' = "start"
          /\ UNCHANGED <<settings, exit, run, age, watchdog, markers, signalled, rang, stale, crashes>>

Start(p) ==
    /\ shell = "start"
    /\ ~signalled
    /\ shell' = "wait"
    /\ run' = [pid |-> p, phase |-> "work", began |-> 0]
    /\ age' = 0
    /\ watchdog' = "counting"
    /\ rang' = FALSE
    /\ UNCHANGED <<settings, exit, markers, signalled, stale, crashes>>

\* wait returns.
Wait == /\ shell = "wait"
        /\ run.phase = "dead"
        /\ shell' = "ended"
        /\ run' = [run EXCEPT !.phase = "none"]
        /\ UNCHANGED <<settings, exit, age, watchdog, markers, signalled, rang, stale, crashes>>

\* A marker: exit 124, for the restart policy.
Tell == /\ shell = "ended"
        /\ \/ /\ run.pid \in markers
              /\ Stop("watchdog", markers \ {run.pid})
           \/ /\ run.pid \notin markers
              /\ shell' = "kill"
              /\ UNCHANGED <<settings, exit, run, age, watchdog, markers, signalled, rang, stale>>
        /\ UNCHANGED crashes

\* kill and wait of the watchdog, which may have gone on meanwhile.
Dismiss == /\ shell = "kill"
           /\ shell' = "reap"
           /\ watchdog' = "off"
           /\ UNCHANGED <<settings, exit, run, age, markers, signalled, rang, stale, crashes>>

\* Mutant: the marker stays.
CleanedNever == markers

\* rm -f of the marker.
Cleaned == markers \ {run.pid}

Reap == /\ shell = "reap"
        /\ shell' = "sleep"
        /\ markers' = Cleaned
        /\ stale' = stale \ {run.pid}
        /\ rang' = FALSE
        /\ UNCHANGED <<settings, exit, run, age, watchdog, signalled, crashes>>

Sleep == /\ shell = "sleep"
         /\ shell' = "start"
         /\ UNCHANGED <<settings, exit, run, age, watchdog, markers, signalled, rang, stale, crashes>>

\* TERM or INT: the trap's exit 0.  A foreground command has to return first.
Trap == /\ signalled
        /\ shell \notin {"warmup", "exited"}
        /\ Stop("stopped", markers)
        /\ UNCHANGED crashes

-----------------------------------------------------------------------------
(* Outside the container.                                                  *)

Signal == /\ shell # "exited"
          /\ ~signalled
          /\ signalled' = TRUE
          /\ UNCHANGED <<settings, shell, exit, run, age, watchdog, markers, rang, stale, crashes>>

\* Docker's patience is shorter than a warm-up, and longer than the shell
\* needs to run its trap.
Patience == /\ signalled
            /\ shell = "warmup"
            /\ Stop("killed", markers)
            /\ UNCHANGED crashes

Crash == /\ shell # "exited"
         /\ crashes < MaxCrashes
         /\ crashes' = crashes + 1
         /\ Stop("crashed", markers)

\* restart: unless-stopped, or the operator.
Restart == /\ shell = "exited"
           /\ shell' = FirstStep(mode)
           /\ signalled' = FALSE
           /\ UNCHANGED <<settings, exit, run, age, watchdog, markers, rang, stale, crashes>>

RestartPolicy == ~signalled /\ Restart

Pass == Infer \/ Answer \/ Finish
Shell == WarmUp \/ (\E p \in Pid : Start(p)) \/ Wait \/ Tell \/ Dismiss \/ Reap \/ Sleep \/ Trap
Guard == Ring \/ Mark \/ Terminate \/ Destroy

Next == Pass \/ Tick \/ Guard \/ Shell \/ Signal \/ Patience \/ Crash \/ Restart

Spec == Init /\ [][Next]_vars

\* Nothing is assumed of the pass but its inference's timeout: it may hang.
FairSpec == /\ Spec
            /\ WF_vars(Tick) /\ WF_vars(Guard) /\ WF_vars(Shell)
            /\ WF_vars(TimedOut /\ Answer)
            /\ WF_vars(RestartPolicy)

-----------------------------------------------------------------------------
(* Properties.                                                             *)

\* The watchdog does not end a pass in its inference when that began within
\* the head-room (entrypoint.sh:95-101).
SparesInference ==
    watchdog \in {"due", "marked", "grace"} /\ run.phase = "inference"
        => run.began > WATCHDOG_HEADROOM

\* A pass is blamed on the watchdog, by exit 124, only if its watchdog
\* rang, or an earlier life of the container left a marker of its process id.
BlamedWhenRung ==
    [][shell' = "exited" /\ exit' = "watchdog" /\ shell # "exited"
          => rang \/ run.pid \in stale]_vars

\* No pass hangs the container: the loop always comes to its next pass, unless
\* the container is asked to stop.
LoopGoesOn == []<>(shell = "start" \/ (shell = "exited" /\ signalled))

-----------------------------------------------------------------------------
(* Why: the inductive invariant.                                           *)

\* A marker is of this pass, whose watchdog rang, or of an earlier life.
MarkersTell == markers \subseteq stale \cup (IF rang THEN {run.pid} ELSE {})

\* Between two passes nobody is left to write a marker, and none is left over.
CleanBetween ==
    /\ shell \in {"warmup", "start", "sleep", "exited"} => ~rang
    /\ shell \in {"warmup", "start", "reap", "sleep", "exited"} => watchdog = "off"
    /\ shell # "wait" => run.phase = "none"

\* Time: the inference keeps its timeout, and the watchdog its own.
InTime ==
    /\ mode = "participate" => commandTimeout > InferenceTimeout + WATCHDOG_HEADROOM
    /\ run.phase = "inference" =>
          mode = "participate" /\ run.began <= age /\ age <= run.began + InferenceTimeout
    /\ watchdog \in {"due", "marked", "grace"} => age >= commandTimeout

IInv == TypeOK /\ MarkersTell /\ CleanBetween /\ InTime
==============================================================================
