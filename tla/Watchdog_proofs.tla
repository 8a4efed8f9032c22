---------------------------- MODULE Watchdog_proofs ----------------------------
(***************************************************************************)
(* Proofs about Watchdog, for any timeouts and process ids: type           *)
(* correctness, the inference is spared, and exit 124 tells the truth up   *)
(* to the markers of an earlier life of the container.                     *)
(***************************************************************************)
EXTENDS Watchdog, TLAPS

USE WatchdogAssumption

LEMMA RunType ==
    ASSUME TypeOK
    PROVE  /\ run \in Runs /\ run.pid \in Pid /\ run.phase \in Phases /\ run.began \in Nat
           /\ age \in Nat /\ commandTimeout \in Nat /\ InferenceTimeout \in Nat
           /\ crashes \in Nat
  BY DEF TypeOK, Runs

\* A pass that goes on to another phase.
LEMMA RunUpdate ==
    ASSUME NEW r \in Runs, NEW f \in Phases
    PROVE  /\ [r EXCEPT !.phase = f] = [pid |-> r.pid, phase |-> f, began |-> r.began]
           /\ [r EXCEPT !.phase = f] \in Runs
  BY DEF Runs

LEMMA InitInv == Init => IInv
<1> SUFFICES ASSUME Init PROVE IInv
  OBVIOUS
<1>1. run \in Runs /\ run.phase = "none" /\ run.began = 0
  BY DEF Init, Runs, Phases
<1>2. TypeOK
  BY <1>1 DEF Init, TypeOK, FirstStep, Modes, Shells, Exits, Watchdogs
<1>3. MarkersTell /\ CleanBetween
  BY <1>1 DEF Init, MarkersTell, CleanBetween, FirstStep
<1>4. InTime
  BY <1>1 DEF Init, InTime, Accepted
<1> QED BY <1>2, <1>3, <1>4 DEF IInv

LEMMA InferInv == IInv /\ Infer => IInv'
<1> SUFFICES ASSUME IInv, Infer PROVE IInv'
  OBVIOUS
<1> USE RunType DEF IInv
<1>1. TypeOK'
  BY DEF Infer, TypeOK, settings, Shells, Exits, Watchdogs, Phases, Runs
<1>2. MarkersTell' /\ CleanBetween'
  BY DEF Infer, MarkersTell, CleanBetween, settings, Phases
<1>3. InTime'
  BY DEF Infer, InTime, settings
<1> QED BY <1>1, <1>2, <1>3

LEMMA AnswerInv == IInv /\ Answer => IInv'
<1> SUFFICES ASSUME IInv, Answer PROVE IInv'
  OBVIOUS
<1> USE RunType DEF IInv
<1>1. TypeOK'
  BY DEF Answer, TypeOK, settings, Shells, Exits, Watchdogs, Phases, Runs
<1>2. MarkersTell' /\ CleanBetween'
  BY DEF Answer, MarkersTell, CleanBetween, settings, Phases
<1>3. InTime'
  BY DEF Answer, TypeOK, InTime, settings, Phases
<1> QED BY <1>1, <1>2, <1>3

LEMMA FinishInv == IInv /\ Finish => IInv'
<1> SUFFICES ASSUME IInv, Finish PROVE IInv'
  OBVIOUS
<1> USE RunType DEF IInv
<1>1. TypeOK'
  BY DEF Finish, TypeOK, settings, Shells, Exits, Watchdogs, Phases, Runs, Alive
<1>2. MarkersTell' /\ CleanBetween'
  BY DEF Finish, MarkersTell, CleanBetween, settings, Phases, Alive
<1>3. InTime'
  BY DEF Finish, TypeOK, InTime, settings, Phases, Alive
<1> QED BY <1>1, <1>2, <1>3

LEMMA TickInv == IInv /\ Tick => IInv'
<1> SUFFICES ASSUME IInv, Tick PROVE IInv'
  OBVIOUS
<1> USE RunType DEF IInv
<1>1. TypeOK'
  BY DEF Tick, TypeOK, settings
<1>2. MarkersTell' /\ CleanBetween'
  BY DEF Tick, MarkersTell, CleanBetween, settings, Phases, Alive, Ringing, TimedOut
<1>3. InTime'
  BY DEF Tick, InTime, settings, TimedOut
<1> QED BY <1>1, <1>2, <1>3

LEMMA RingInv == IInv /\ Ring => IInv'
<1> SUFFICES ASSUME IInv, Ring PROVE IInv'
  OBVIOUS
<1> USE RunType DEF IInv
<1>1. TypeOK'
  BY DEF Ring, TypeOK, settings, Shells, Exits, Watchdogs, Phases, Runs, Ringing
<1>2. MarkersTell' /\ CleanBetween'
  BY DEF Ring, MarkersTell, CleanBetween, settings, Phases, Ringing
<1>3. InTime'
  BY DEF Ring, TypeOK, InTime, settings, Phases, Ringing
<1> QED BY <1>1, <1>2, <1>3

LEMMA MarkInv == IInv /\ Mark => IInv'
<1> SUFFICES ASSUME IInv, Mark PROVE IInv'
  OBVIOUS
<1> USE RunType DEF IInv
<1>1. TypeOK'
  BY DEF Mark, TypeOK, settings, Shells, Exits, Watchdogs, Phases, Runs
<1>2. MarkersTell' /\ CleanBetween'
  BY DEF Mark, MarkersTell, CleanBetween, settings, Phases
<1>3. InTime'
  BY DEF Mark, TypeOK, InTime, settings, Phases
<1> QED BY <1>1, <1>2, <1>3

LEMMA TerminateInv == IInv /\ Terminate => IInv'
<1> SUFFICES ASSUME IInv, Terminate PROVE IInv'
  OBVIOUS
<1> USE RunType DEF IInv
<1>1. /\ run' \in Runs /\ run'.pid = run.pid
      /\ run'.phase = "inference" => run' = run
      /\ run.phase = "none" => run' = run
  <2>1. CASE Alive /\ run' = [run EXCEPT !.phase = "dead"]
    <3>1. "dead" \in Phases
      BY DEF Phases
    <3>2. /\ run' = [pid |-> run.pid, phase |-> "dead", began |-> run.began]
          /\ run' \in Runs
      BY <2>1, <3>1, RunUpdate
    <3> QED BY <2>1, <3>2 DEF Alive
  <2> QED BY <2>1 DEF Terminate
<1>2. TypeOK'
  BY <1>1 DEF Terminate, TypeOK, settings, Watchdogs
<1>3. MarkersTell' /\ CleanBetween'
  BY <1>1 DEF Terminate, MarkersTell, CleanBetween
<1>4. InTime'
  BY <1>1 DEF Terminate, InTime, settings
<1> QED BY <1>2, <1>3, <1>4

LEMMA DestroyInv == IInv /\ Destroy => IInv'
<1> SUFFICES ASSUME IInv, Destroy PROVE IInv'
  OBVIOUS
<1> USE RunType DEF IInv
<1>1. TypeOK'
  BY DEF Destroy, TypeOK, settings, Shells, Exits, Watchdogs, Phases, Runs, AfterKill, Alive
<1>2. MarkersTell' /\ CleanBetween'
  BY DEF Destroy, MarkersTell, CleanBetween, settings, Phases, AfterKill, Alive
<1>3. InTime'
  BY DEF Destroy, TypeOK, InTime, settings, Phases, AfterKill, Alive
<1> QED BY <1>1, <1>2, <1>3

LEMMA WarmUpInv == IInv /\ WarmUp => IInv'
<1> SUFFICES ASSUME IInv, WarmUp PROVE IInv'
  OBVIOUS
<1> USE RunType DEF IInv
<1>1. TypeOK'
  BY DEF WarmUp, TypeOK, settings, Shells, Exits, Watchdogs, Phases, Runs
<1>2. MarkersTell' /\ CleanBetween'
  BY DEF WarmUp, MarkersTell, CleanBetween, settings, Phases
<1>3. InTime'
  BY DEF WarmUp, TypeOK, InTime, settings, Phases
<1> QED BY <1>1, <1>2, <1>3

LEMMA WaitInv == IInv /\ Wait => IInv'
<1> SUFFICES ASSUME IInv, Wait PROVE IInv'
  OBVIOUS
<1> USE RunType DEF IInv
<1>1. TypeOK'
  BY DEF Wait, TypeOK, settings, Shells, Exits, Watchdogs, Phases, Runs
<1>2. MarkersTell' /\ CleanBetween'
  BY DEF Wait, MarkersTell, CleanBetween, settings, Phases
<1>3. InTime'
  BY DEF Wait, TypeOK, InTime, settings, Phases
<1> QED BY <1>1, <1>2, <1>3

LEMMA TellInv == IInv /\ Tell => IInv'
<1> SUFFICES ASSUME IInv, Tell PROVE IInv'
  OBVIOUS
<1> USE RunType DEF IInv
<1>1. TypeOK'
  BY DEF Tell, TypeOK, settings, Shells, Exits, Watchdogs, Phases, Runs, Stop
<1>2. MarkersTell' /\ CleanBetween'
  <2>1. CASE Stop("watchdog", markers \ {run.pid})
    BY <2>1, RunUpdate DEF Tell, MarkersTell, CleanBetween, Stop, Phases
  <2>2. CASE shell' = "kill" /\ UNCHANGED <<settings, exit, run, age, watchdog, markers, signalled, rang, stale>>
    BY <2>2 DEF Tell, MarkersTell, CleanBetween
  <2> QED BY <2>1, <2>2 DEF Tell
<1>3. InTime'
  <2>1. CASE Stop("watchdog", markers \ {run.pid})
    BY <2>1, RunUpdate DEF Tell, InTime, Stop, settings, Phases
  <2>2. CASE shell' = "kill" /\ UNCHANGED <<settings, exit, run, age, watchdog, markers, signalled, rang, stale>>
    BY <2>2 DEF Tell, InTime, settings
  <2> QED BY <2>1, <2>2 DEF Tell
<1> QED BY <1>1, <1>2, <1>3

LEMMA DismissInv == IInv /\ Dismiss => IInv'
<1> SUFFICES ASSUME IInv, Dismiss PROVE IInv'
  OBVIOUS
<1> USE RunType DEF IInv
<1>1. TypeOK'
  BY DEF Dismiss, TypeOK, settings, Shells, Exits, Watchdogs, Phases, Runs
<1>2. MarkersTell' /\ CleanBetween'
  BY DEF Dismiss, MarkersTell, CleanBetween, settings, Phases
<1>3. InTime'
  BY DEF Dismiss, TypeOK, InTime, settings, Phases
<1> QED BY <1>1, <1>2, <1>3

LEMMA ReapInv == IInv /\ Reap => IInv'
<1> SUFFICES ASSUME IInv, Reap PROVE IInv'
  OBVIOUS
<1> USE RunType DEF IInv
<1>1. TypeOK'
  BY DEF Reap, TypeOK, settings, Shells, Exits, Watchdogs, Phases, Runs, Cleaned
<1>2. MarkersTell' /\ CleanBetween'
  BY DEF Reap, MarkersTell, CleanBetween, settings, Phases, Cleaned
<1>3. InTime'
  BY DEF Reap, TypeOK, InTime, settings, Phases, Cleaned
<1> QED BY <1>1, <1>2, <1>3

LEMMA SleepInv == IInv /\ Sleep => IInv'
<1> SUFFICES ASSUME IInv, Sleep PROVE IInv'
  OBVIOUS
<1> USE RunType DEF IInv
<1>1. TypeOK'
  BY DEF Sleep, TypeOK, settings, Shells, Exits, Watchdogs, Phases, Runs
<1>2. MarkersTell' /\ CleanBetween'
  BY DEF Sleep, MarkersTell, CleanBetween, settings, Phases
<1>3. InTime'
  BY DEF Sleep, TypeOK, InTime, settings, Phases
<1> QED BY <1>1, <1>2, <1>3

LEMMA TrapInv == IInv /\ Trap => IInv'
<1> SUFFICES ASSUME IInv, Trap PROVE IInv'
  OBVIOUS
<1> USE RunType DEF IInv
<1>1. TypeOK'
  BY DEF Trap, TypeOK, settings, Shells, Exits, Watchdogs, Phases, Runs, Stop
<1>2. MarkersTell' /\ CleanBetween'
  BY DEF Trap, MarkersTell, CleanBetween, settings, Phases, Stop
<1>3. InTime'
  BY DEF Trap, TypeOK, InTime, settings, Phases, Stop
<1> QED BY <1>1, <1>2, <1>3

LEMMA SignalInv == IInv /\ Signal => IInv'
<1> SUFFICES ASSUME IInv, Signal PROVE IInv'
  OBVIOUS
<1> USE RunType DEF IInv
<1>1. TypeOK'
  BY DEF Signal, TypeOK, settings, Shells, Exits, Watchdogs, Phases, Runs
<1>2. MarkersTell' /\ CleanBetween'
  BY DEF Signal, MarkersTell, CleanBetween, settings, Phases
<1>3. InTime'
  BY DEF Signal, TypeOK, InTime, settings, Phases
<1> QED BY <1>1, <1>2, <1>3

LEMMA PatienceInv == IInv /\ Patience => IInv'
<1> SUFFICES ASSUME IInv, Patience PROVE IInv'
  OBVIOUS
<1> USE RunType DEF IInv
<1>1. TypeOK'
  BY DEF Patience, TypeOK, settings, Shells, Exits, Watchdogs, Phases, Runs, Stop
<1>2. MarkersTell' /\ CleanBetween'
  BY DEF Patience, MarkersTell, CleanBetween, settings, Phases, Stop
<1>3. InTime'
  BY DEF Patience, TypeOK, InTime, settings, Phases, Stop
<1> QED BY <1>1, <1>2, <1>3

LEMMA CrashInv == IInv /\ Crash => IInv'
<1> SUFFICES ASSUME IInv, Crash PROVE IInv'
  OBVIOUS
<1> USE RunType DEF IInv
<1>1. TypeOK'
  <2>1. run' \in Runs
    BY RunUpdate DEF Crash, Stop, Phases
  <2>2. crashes' \in Nat
    BY DEF Crash
  <2> QED BY <2>1, <2>2 DEF Crash, TypeOK, settings, Shells, Exits, Watchdogs, Stop
<1>2. MarkersTell' /\ CleanBetween'
  BY DEF Crash, MarkersTell, CleanBetween, settings, Phases, Stop
<1>3. InTime'
  BY DEF Crash, TypeOK, InTime, settings, Phases, Stop
<1> QED BY <1>1, <1>2, <1>3

LEMMA RestartInv == IInv /\ Restart => IInv'
<1> SUFFICES ASSUME IInv, Restart PROVE IInv'
  OBVIOUS
<1> USE RunType DEF IInv
<1>1. TypeOK'
  BY DEF Restart, TypeOK, settings, Shells, Exits, Watchdogs, Phases, Runs, FirstStep, Modes
<1>2. MarkersTell' /\ CleanBetween'
  BY DEF Restart, MarkersTell, CleanBetween, settings, Phases, FirstStep
<1>3. InTime'
  BY DEF Restart, TypeOK, InTime, settings, Phases, FirstStep
<1> QED BY <1>1, <1>2, <1>3

LEMMA StartInv ==
    ASSUME IInv, NEW p \in Pid, Start(p)
    PROVE  IInv'
<1> USE DEF IInv
<1>1. TypeOK'
  BY DEF Start, TypeOK, settings, Shells, Watchdogs, Phases, Runs
<1>2. MarkersTell' /\ CleanBetween'
  BY DEF Start, MarkersTell, CleanBetween, settings
<1>3. InTime'
  BY DEF Start, InTime, settings
<1> QED BY <1>1, <1>2, <1>3

LEMMA NextInv == IInv /\ [Next]_vars => IInv'
<1> SUFFICES ASSUME IInv, [Next]_vars PROVE IInv'
  OBVIOUS
<1>1. CASE Pass \/ Tick
  BY <1>1, InferInv, AnswerInv, FinishInv, TickInv DEF Pass
<1>2. CASE Guard
  BY <1>2, RingInv, MarkInv, TerminateInv, DestroyInv DEF Guard
<1>3. CASE Shell
  BY <1>3, WarmUpInv, StartInv, WaitInv, TellInv, DismissInv, ReapInv, SleepInv, TrapInv DEF Shell
<1>4. CASE Signal \/ Patience \/ Crash \/ Restart
  BY <1>4, SignalInv, PatienceInv, CrashInv, RestartInv
<1>5. CASE UNCHANGED vars
  BY <1>5 DEF vars, IInv, TypeOK, MarkersTell, CleanBetween, InTime
<1> QED BY <1>1, <1>2, <1>3, <1>4, <1>5 DEF Next

\* The inductive invariant.
THEOREM Invariance == Spec => []IInv
  BY InitInv, NextInv, PTL DEF Spec

\* Every variable keeps its type.
THEOREM TypeCorrect == Spec => []TypeOK
<1>1. IInv => TypeOK
  BY DEF IInv
<1> QED BY <1>1, Invariance, PTL

\* An inference that begins within the head-room is not cut by the watchdog.
THEOREM InferenceIsSpared == Spec => []SparesInference
<1>1. IInv => SparesInference
  BY RunType DEF IInv, InTime, SparesInference, WATCHDOG_HEADROOM
<1> QED BY <1>1, Invariance, PTL

\* Exit 124 means that the watchdog rang, or a marker of an earlier life.
THEOREM BlameIsTrue == Spec => BlamedWhenRung
<1> DEFINE Blame == shell' = "exited" /\ exit' = "watchdog" /\ shell # "exited"
                      => rang \/ run.pid \in stale
<1>1. IInv /\ [Next]_vars => [Blame]_vars
  <2> SUFFICES ASSUME IInv, Next, shell' = "exited", exit' = "watchdog", shell # "exited"
               PROVE  rang \/ run.pid \in stale
    BY DEF Next
  <2>1. Tell
    BY DEF Next, Pass, Guard, Shell, Infer, Answer, Finish, Tick, Ring, Mark, Terminate, Destroy,
           WarmUp, Start, Wait, Dismiss, Reap, Sleep, Trap, Signal, Patience, Crash, Restart,
           FirstStep, Stop, settings
  <2>2. run.pid \in markers
    BY <2>1 DEF Tell
  <2> QED BY <2>2 DEF IInv, MarkersTell
<1> QED BY <1>1, Invariance, PTL DEF Spec, BlamedWhenRung
==============================================================================
