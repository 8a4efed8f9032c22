------------------------- MODULE InferenceJob_proofs -------------------------
(***************************************************************************)
(* Proofs about InferenceJob: type correctness and the deadline for any    *)
(* number of processes, and what is paid for when one process scores.      *)
(***************************************************************************)
EXTENDS InferenceJob, TLAPS

USE JobAssumption

PCs == {"idle", "fetch", "runtime", "submit", "persist", "poll", "sleep",
        "direct", "record"}

LEMMA IdleType == Idle \in Processes
  BY DEF Idle, Processes, PCs, NoCall

\* What a step does to one process keeps every process well typed.
LEMMA UpdateType ==
    ASSUME proc \in [Proc -> Processes], NEW p \in Proc, NEW r \in Processes
    PROVE  [proc EXCEPT ![p] = r] \in [Proc -> Processes]
  OBVIOUS

LEMMA GotoType ==
    ASSUME proc \in [Proc -> Processes], NEW p \in Proc, NEW pc \in PCs, Goto(p, pc)
    PROVE  proc' \in [Proc -> Processes]
  BY DEF Goto, Processes, PCs

LEMMA ReportType ==
    ASSUME proc \in [Proc -> Processes], NEW p \in Proc,
           NEW outcome \in Failures \cup {"SCORED"}, Report(p, outcome)
    PROVE  proc' \in [Proc -> Processes]
<1> DEFINE r == [proc[p] EXCEPT !.pc = "record", !.outcome = outcome]
<1>1. r \in Processes
  BY DEF Processes, PCs
<1>2. proc' = [proc EXCEPT ![p] = r]
  BY DEF Report, Processes
<1> QED BY <1>1, <1>2

LEMMA EndType ==
    ASSUME proc \in [Proc -> Processes], NEW p \in Proc, End(p)
    PROVE  proc' \in [Proc -> Processes]
  BY IdleType DEF End

\* One process after a Tick.
Ticked(r) == [r EXCEPT !.pc = IF @ = "sleep" THEN "poll" ELSE @, !.budget = Spend(@)]

LEMMA TickType ==
    ASSUME proc \in [Proc -> Processes], Tick
    PROVE  /\ proc' = [p \in Proc |-> Ticked(proc[p])]
           /\ \A p \in Proc : Ticked(proc[p]) \in Processes
           /\ proc' \in [Proc -> Processes]
<1>1. proc' = [p \in Proc |-> Ticked(proc[p])]
  BY DEF Tick, Ticked
<1>2. ASSUME NEW p \in Proc PROVE Ticked(proc[p]) \in Processes
  <2>1. Spend(proc[p].budget) \in Nat
    BY DEF Spend, Processes
  <2> QED BY <2>1 DEF Ticked, Processes
<1> QED BY <1>1, <1>2

LEMMA TimeoutType ==
    ASSUME NEW capped \in BOOLEAN, NEW left \in 0 .. Window
    PROVE  EffectiveTimeout(capped, left) \in Nat
  BY DEF EffectiveTimeout

LEMMA SpawnType ==
    ASSUME TypeOK, Spawn
    PROVE  /\ submitted' \in Nat
           /\ submitted' = submitted + 1
           /\ job' \in [1 .. submitted' -> {"pending", "done", "malformed", "failed"}]
           /\ \A c \in 1 .. submitted : job'[c] = job[c]
           /\ job'[submitted'] = "pending"
  BY DEF TypeOK, Spawn

LEMMA TypeInit == Init => TypeOK
<1> SUFFICES ASSUME Init PROVE TypeOK
  OBVIOUS
<1>1. proc \in [Proc -> Processes]
  BY IdleType DEF Init
<1>2. job \in [1 .. submitted -> {"pending", "done", "malformed", "failed"}]
  <2>1. 1 .. submitted = {}
    BY DEF Init
  <2> QED BY <2>1 DEF Init
<1>3. row \in Rows
  BY DEF Init, Rows, NoCall
<1>4. windowLeft \in 0 .. Window
  BY DEF Init
<1> QED BY <1>1, <1>2, <1>3, <1>4 DEF Init, TypeOK

LEMMA TypeNext == TypeOK /\ [Next]_vars => TypeOK'
<1> SUFFICES ASSUME TypeOK, [Next]_vars PROVE TypeOK'
  OBVIOUS
<1> USE DEF Fault, envVars, histories
<1>0. proc \in [Proc -> Processes]
  BY DEF TypeOK
<1>1. ASSUME NEW p \in Proc, Start(p) PROVE TypeOK'
  <2> DEFINE r == [Idle EXCEPT !.pc = "fetch", !.call = PendingCall, !.capped = announced]
  <2>1. r \in Processes
    BY IdleType DEF TypeOK, PendingCall, Processes, Rows
  <2>2. proc' = [proc EXCEPT ![p] = r]
    BY <1>1 DEF Start
  <2>3. proc' \in [Proc -> Processes]
    BY <1>0, <2>1, <2>2
  <2> QED BY <1>1, <2>3 DEF Start, TypeOK
<1>2. ASSUME NEW p \in Proc, RecordInput(p) PROVE TypeOK'
  <2>1. proc' \in [Proc -> Processes]
    BY <1>0, <1>2, GotoType DEF RecordInput, PCs
  <2> QED BY <1>2, <2>1 DEF RecordInput, TypeOK, Rows
<1>3. ASSUME NEW p \in Proc, Budget(p) PROVE TypeOK'
  <2> DEFINE budget == EffectiveTimeout(proc[p].capped, windowLeft)
  <2>1. budget \in Nat
    BY <1>0, TimeoutType DEF TypeOK, Processes
  <2>2. proc' \in [Proc -> Processes]
    <3>1. CASE budget = 0
      BY <1>0, <1>3, <3>1, ReportType DEF Budget, Failures
    <3>2. CASE budget # 0
      BY <1>0, <1>3, <3>2, <2>1 DEF Budget, Processes, PCs
    <3> QED BY <3>1, <3>2
  <2> QED BY <1>3, <2>2 DEF Budget, TypeOK
<1>4. ASSUME NEW p \in Proc, Submit(p) PROVE TypeOK'
  <2> DEFINE r == [proc[p] EXCEPT !.pc = "persist", !.call = submitted', !.fresh = TRUE]
  <2>0. r \in Processes
    <3>1. submitted' \in Nat
      BY <1>4, SpawnType DEF Submit
    <3> QED BY <1>0, <3>1 DEF Processes
  <2>1. proc' \in [Proc -> Processes]
    <3>1. proc' = [proc EXCEPT ![p] = r]
      BY <1>0, <1>4 DEF Submit, Processes
    <3> QED BY <1>0, <2>0, <3>1
  <2> QED BY <1>4, <2>1, SpawnType DEF Submit, TypeOK
<1>5. ASSUME NEW p \in Proc, SubmitFails(p) PROVE TypeOK'
  <2>1. proc' \in [Proc -> Processes]
    <3>1. PICK outcome \in {"INFERENCE_TIMEOUT", "RUNTIME_UNAVAILABLE", "INFERENCE_ERROR"} :
                Report(p, outcome)
      BY <1>5 DEF SubmitFails
    <3>2. outcome \in Failures
      BY DEF Failures
    <3> QED BY <1>0, <3>1, <3>2, ReportType
  <2>2. CASE Spawn /\ lost' = lost \cup {submitted'}
    <3>1. /\ submitted' \in Nat
          /\ job' \in [1 .. submitted' -> {"pending", "done", "malformed", "failed"}]
      BY <2>2, SpawnType
    <3>2. lost' \subseteq Nat
      BY <2>2, <3>1 DEF TypeOK
    <3>3. faults' \in Nat /\ UNCHANGED <<envVars, row, erased, denied>>
      BY <1>5 DEF SubmitFails, TypeOK
    <3> QED BY <2>1, <3>1, <3>2, <3>3 DEF TypeOK
  <2>3. CASE UNCHANGED <<job, submitted, histories>>
    BY <1>5, <2>1, <2>3 DEF SubmitFails, TypeOK
  <2> QED BY <1>5, <2>2, <2>3 DEF SubmitFails
<1>6. ASSUME NEW p \in Proc, Persist(p) PROVE TypeOK'
  <2>1. proc' \in [Proc -> Processes]
    BY <1>0, <1>6, GotoType DEF Persist, PCs
  <2>2. proc[p].call \in Nat
    BY <1>0 DEF Processes
  <2>3. CASE otherHolds
    BY <1>6, <2>1, <2>2, <2>3 DEF Persist, TypeOK
  <2>4. CASE ~otherHolds
    BY <1>6, <2>1, <2>2, <2>4 DEF Persist, TypeOK, Rows
  <2> QED BY <2>3, <2>4
<1>7. ASSUME NEW p \in Proc, PollDone(p) PROVE TypeOK'
  <2>1. proc' \in [Proc -> Processes]
    BY <1>0, <1>7, ReportType DEF PollDone, Failures
  <2> QED BY <1>7, <2>1 DEF PollDone, TypeOK
<1>8. ASSUME NEW p \in Proc, PollFailed(p) PROVE TypeOK'
  <2>1. proc' \in [Proc -> Processes]
    BY <1>0, <1>8, ReportType, GotoType DEF PollFailed, Failures, PCs
  <2>2. denied' \subseteq Nat
    BY <1>0, <1>8 DEF PollFailed, TypeOK, Processes
  <2> QED BY <1>8, <2>1, <2>2 DEF PollFailed, TypeOK
<1>9. ASSUME NEW p \in Proc, PollPending(p) PROVE TypeOK'
  <2>1. proc' \in [Proc -> Processes]
    BY <1>0, <1>9, ReportType, GotoType DEF PollPending, Failures, PCs
  <2> QED BY <1>9, <2>1 DEF PollPending, TypeOK
<1>10. ASSUME NEW p \in Proc, PollError(p) PROVE TypeOK'
  <2>1. proc' \in [Proc -> Processes]
    BY <1>0, <1>10, ReportType, GotoType DEF PollError, Failures, PCs
  <2> QED BY <1>10, <2>1 DEF PollError, TypeOK
<1>11. ASSUME NEW p \in Proc, Direct(p) PROVE TypeOK'
  <2>1. proc' \in [Proc -> Processes]
    BY <1>0, <1>11, ReportType DEF Direct, Failures
  <2> QED BY <1>11, <2>1 DEF Direct, TypeOK
<1>12. ASSUME NEW p \in Proc, Record(p) PROVE TypeOK'
  <2>1. proc' \in [Proc -> Processes]
    BY <1>0, <1>12, EndType DEF Record
  <2>2. ScoredRow(proc[p].outcome) \in Rows
    BY <1>0 DEF ScoredRow, Rows, Processes, TypeOK, NoCall
  <2>3. erased' \subseteq Nat
    BY <1>12 DEF Record, CallInRow, TypeOK, Rows
  <2> QED BY <1>12, <2>1, <2>2, <2>3 DEF Record, TypeOK
<1>13. ASSUME NEW p \in Proc, LockedOut(p) PROVE TypeOK'
  <2>1. proc' \in [Proc -> Processes]
    BY <1>0, <1>13, EndType DEF LockedOut
  <2> QED BY <1>13, <2>1 DEF LockedOut, TypeOK
<1>14. ASSUME NEW p \in Proc, Kill(p) PROVE TypeOK'
  <2>1. proc' \in [Proc -> Processes]
    BY <1>0, <1>14, EndType DEF Kill
  <2>2. proc[p].call \in Nat
    BY <1>0 DEF Processes
  <2>3. lost' \subseteq Nat
    BY <1>14, <2>2 DEF Kill, TypeOK
  <2> QED BY <1>14, <2>1, <2>3 DEF Kill, TypeOK
<1>15. CASE Generated
  BY <1>15 DEF Generated, TypeOK
<1>16. CASE Expire
  BY <1>16 DEF Expire, TypeOK
<1>17. CASE Announce
  BY <1>17 DEF Announce, TypeOK
<1>18. CASE OtherLocks
  BY <1>18 DEF OtherLocks, TypeOK
<1>19. CASE OtherUnlocks
  BY <1>19 DEF OtherUnlocks, TypeOK
<1>20. CASE Rediscover
  <2>1. row' \in Rows
    <3>1. PICK state \in {"DISCOVERED", "VERIFIED"} :
                row' = [row EXCEPT !.state = state, !.call = NoCall]
      BY <1>20 DEF Rediscover
    <3> QED BY <3>1 DEF TypeOK, Rows, NoCall
  <2>2. erased' \subseteq Nat
    BY <1>20 DEF Rediscover, CallInRow, TypeOK, Rows
  <2> QED BY <1>20, <2>1, <2>2 DEF Rediscover, TypeOK
<1>21. CASE Tick
  <2>1. windowLeft' \in 0 .. Window
    <3>1. Spend(windowLeft) \in 0 .. Window
      BY DEF TypeOK, Spend
    <3> QED BY <1>21, <3>1 DEF Tick, TypeOK
  <2>2. proc' \in [Proc -> Processes]
    BY <1>0, <1>21, TickType DEF Tick
  <2> QED BY <1>21, <2>1, <2>2 DEF Tick, TypeOK
<1>22. CASE UNCHANGED vars
  BY <1>22 DEF vars, TypeOK
<1> QED BY <1>1, <1>2, <1>3, <1>4, <1>5, <1>6, <1>7, <1>8, <1>9, <1>10, <1>11, <1>12,
           <1>13, <1>14, <1>15, <1>16, <1>17, <1>18, <1>19, <1>20, <1>21, <1>22
        DEF Next, Pass

\* Type correctness, for any number of processes.
THEOREM TypeCorrect == Spec => []TypeOK
<1>1. Init => TypeOK
  BY TypeInit
<1>2. TypeOK /\ [Next]_vars => TypeOK'
  BY TypeNext
<1> QED BY <1>1, <1>2, PTL DEF Spec

-----------------------------------------------------------------------------
(* The budget and the deadline.                                            *)

\* What the three invariants about budgets say of one process.
RunOK(r, known, left) ==
    /\ r.capped => known /\ (r.budget > 0 => r.budget <= left - Margin)
    /\ r.pc = "submit" => r.budget > 0
    /\ r.pc \in {"fetch", "runtime", "submit"} => ~r.fresh

RunsOK == \A p \in Proc : RunOK(proc[p], announced, windowLeft)

BudgetInv == BudgetInWindow /\ SubmitInBudget /\ FreshIsSpent

LEMMA RunsOKIsBudgetInv == TypeOK => (RunsOK <=> BudgetInv)
  BY DEF RunsOK, RunOK, BudgetInv, BudgetInWindow, SubmitInBudget, FreshIsSpent, At

LEMMA IdleOK == ASSUME NEW known, NEW left PROVE RunOK(Idle, known, left)
  BY DEF RunOK, Idle

\* A step of one process that leaves the deadline alone.
LEMMA OneRunOK ==
    ASSUME proc \in [Proc -> Processes], RunsOK, NEW p \in Proc, NEW r \in Processes,
           proc' = [proc EXCEPT ![p] = r], UNCHANGED <<announced, windowLeft>>,
           RunOK(r, announced, windowLeft)
    PROVE  RunsOK'
  BY DEF RunsOK

LEMMA GotoOK ==
    ASSUME TypeOK, RunsOK, NEW p \in Proc, NEW pc \in PCs, Goto(p, pc),
           pc \notin {"fetch", "submit"}, pc = "runtime" => At(p, "fetch"),
           UNCHANGED <<announced, windowLeft>>
    PROVE  RunsOK'
<1> DEFINE r == [proc[p] EXCEPT !.pc = pc]
<1>1. proc \in [Proc -> Processes]
  BY DEF TypeOK
<1>2. r \in Processes /\ proc' = [proc EXCEPT ![p] = r]
  BY <1>1 DEF Processes, PCs, Goto
<1>3. RunOK(r, announced, windowLeft)
  BY <1>1 DEF RunsOK, RunOK, Processes, At
<1> QED BY <1>1, <1>2, <1>3, OneRunOK

LEMMA ReportOK ==
    ASSUME TypeOK, RunsOK, NEW p \in Proc, NEW outcome \in Failures \cup {"SCORED"},
           Report(p, outcome), UNCHANGED <<announced, windowLeft>>
    PROVE  RunsOK'
<1> DEFINE r == [proc[p] EXCEPT !.pc = "record", !.outcome = outcome]
<1>1. proc \in [Proc -> Processes]
  BY DEF TypeOK
<1>2. r \in Processes
  BY <1>1 DEF Processes
<1>3. proc' = [proc EXCEPT ![p] = r]
  BY <1>1 DEF Processes, Report
<1>4. RunOK(r, announced, windowLeft)
  BY <1>1 DEF RunsOK, RunOK, Processes
<1> QED BY <1>1, <1>2, <1>3, <1>4, OneRunOK

LEMMA EndOK ==
    ASSUME TypeOK, RunsOK, NEW p \in Proc, End(p), UNCHANGED <<announced, windowLeft>>
    PROVE  RunsOK'
  BY IdleOK, IdleType, OneRunOK DEF End, TypeOK

LEMMA RunsOKNext == TypeOK /\ RunsOK /\ [Next]_vars => RunsOK'
<1> SUFFICES ASSUME TypeOK, RunsOK, [Next]_vars PROVE RunsOK'
  OBVIOUS
<1> USE DEF Fault, envVars, histories
<1>0. proc \in [Proc -> Processes]
  BY DEF TypeOK
<1>1. ASSUME NEW p \in Proc, Start(p) PROVE RunsOK'
  <2> DEFINE r == [Idle EXCEPT !.pc = "fetch", !.call = PendingCall, !.capped = announced]
  <2>1. r \in Processes
    BY IdleType DEF TypeOK, PendingCall, Processes, Rows
  <2>2. proc' = [proc EXCEPT ![p] = r]
    BY <1>1 DEF Start
  <2>3. RunOK(r, announced, windowLeft)
    BY DEF RunOK, Idle
  <2> QED BY <1>0, <1>1, <2>1, <2>2, <2>3, OneRunOK DEF Start
<1>2. ASSUME NEW p \in Proc, RecordInput(p) PROVE RunsOK'
  BY <1>2, GotoOK DEF RecordInput, PCs
<1>3. ASSUME NEW p \in Proc, Budget(p) PROVE RunsOK'
  <2> DEFINE budget == EffectiveTimeout(proc[p].capped, windowLeft)
             next == IF ~jobInterface THEN "direct"
                     ELSE IF proc[p].call = NoCall THEN "submit" ELSE "poll"
             r == [proc[p] EXCEPT !.pc = next, !.budget = budget]
  <2>1. CASE budget = 0
    BY <1>3, <2>1, ReportOK DEF Budget, Failures
  <2>2. CASE budget # 0
    <3>1. budget \in Nat
      BY <1>0, TimeoutType DEF TypeOK, Processes
    <3>2. r \in Processes
      BY <1>0, <3>1 DEF Processes
    <3>3. proc' = [proc EXCEPT ![p] = r]
      BY <1>0, <1>3, <2>2 DEF Budget, Processes
    <3>4. proc[p].capped => budget <= windowLeft - Margin
      BY <1>0, <2>2 DEF EffectiveTimeout, TypeOK, Processes
    <3>5. RunOK(proc[p], announced, windowLeft) /\ At(p, "runtime")
      BY <1>3 DEF RunsOK, Budget
    <3>6. RunOK(r, announced, windowLeft)
      BY <1>0, <3>1, <3>4, <3>5, <2>2 DEF RunOK, Processes, At
    <3> QED BY <1>0, <1>3, <3>2, <3>3, <3>6, OneRunOK DEF Budget
  <2> QED BY <2>1, <2>2
<1>4. ASSUME NEW p \in Proc, Submit(p) PROVE RunsOK'
  <2> DEFINE r == [proc[p] EXCEPT !.pc = "persist", !.call = submitted', !.fresh = TRUE]
  <2>1. r \in Processes
    <3>1. submitted' \in Nat
      BY <1>4, SpawnType DEF Submit
    <3> QED BY <1>0, <3>1 DEF Processes
  <2>2. proc' = [proc EXCEPT ![p] = r]
    BY <1>0, <1>4 DEF Submit, Processes
  <2>3. RunOK(r, announced, windowLeft)
    BY <1>0 DEF RunsOK, RunOK, Processes
  <2> QED BY <1>0, <1>4, <2>1, <2>2, <2>3, OneRunOK DEF Submit
<1>5. ASSUME NEW p \in Proc, SubmitFails(p) PROVE RunsOK'
  BY <1>5, ReportOK DEF SubmitFails, Failures
<1>6. ASSUME NEW p \in Proc, Persist(p) PROVE RunsOK'
  BY <1>6, GotoOK DEF Persist, PCs
<1>7. ASSUME NEW p \in Proc, PollDone(p) PROVE RunsOK'
  BY <1>7, ReportOK DEF PollDone, Failures
<1>8. ASSUME NEW p \in Proc, PollFailed(p) PROVE RunsOK'
  <2> DEFINE r == [proc[p] EXCEPT !.pc = "submit"]
  <2>1. CASE Resubmits(p)
    <3>1. r \in Processes /\ proc' = [proc EXCEPT ![p] = r]
      BY <1>0, <1>8, <2>1 DEF PollFailed, Goto, Processes
    <3>2. RunOK(r, announced, windowLeft)
      BY <1>0, <2>1 DEF RunsOK, RunOK, Resubmits, Processes
    <3> QED BY <1>0, <1>8, <3>1, <3>2, OneRunOK DEF PollFailed
  <2>2. CASE ~Resubmits(p)
    BY <1>8, <2>2, ReportOK DEF PollFailed, Failures
  <2> QED BY <2>1, <2>2
<1>9. ASSUME NEW p \in Proc, PollPending(p) PROVE RunsOK'
  BY <1>9, ReportOK, GotoOK DEF PollPending, Failures, PCs
<1>10. ASSUME NEW p \in Proc, PollError(p) PROVE RunsOK'
  BY <1>10, ReportOK, GotoOK DEF PollError, Failures, PCs
<1>11. ASSUME NEW p \in Proc, Direct(p) PROVE RunsOK'
  BY <1>11, ReportOK DEF Direct, Failures
<1>12. ASSUME NEW p \in Proc, Record(p) \/ LockedOut(p) \/ Kill(p) PROVE RunsOK'
  BY <1>12, EndOK DEF Record, LockedOut, Kill
<1>13. CASE Announce
  BY <1>13 DEF Announce, RunsOK, RunOK
<1>14. CASE Tick
  <2> SUFFICES ASSUME NEW p \in Proc PROVE RunOK(proc[p], announced, windowLeft)'
    BY DEF RunsOK
  <2>1. proc'[p] = Ticked(proc[p])
    BY <1>0, <1>14, TickType
  <2>2. RunOK(proc[p], announced, windowLeft) /\ proc[p] \in Processes
    BY <1>0 DEF RunsOK
  <2>3. /\ windowLeft' = IF announced THEN Spend(windowLeft) ELSE windowLeft
        /\ announced' = announced
        /\ windowLeft \in 0 .. Window
        /\ proc[p].pc # "submit"
    BY <1>14 DEF Tick, TypeOK
  <2> QED BY <2>1, <2>2, <2>3 DEF RunOK, Ticked, Spend, Processes
<1>15. CASE Generated \/ Expire \/ OtherLocks \/ OtherUnlocks \/ Rediscover \/ UNCHANGED vars
  BY <1>15 DEF Generated, Expire, OtherLocks, OtherUnlocks, Rediscover, vars, RunsOK
<1> QED BY <1>1, <1>2, <1>3, <1>4, <1>5, <1>6, <1>7, <1>8, <1>9, <1>10, <1>11, <1>12,
           <1>13, <1>14, <1>15
        DEF Next, Pass

-----------------------------------------------------------------------------
(* What is paid for, with one scoring process.                             *)

\* What the four invariants about ids say of the only process, r.
Kept(r) ==
    /\ row.state = "SCORED" => r.pc = "idle"
    /\ row.state = "FAILED" => r.pc \in {"idle", "fetch"}
    /\ \A c \in 1 .. submitted :
          Available(c) => row.call = c \/ (r.pc = "persist" /\ r.call = c)
    /\ r.pc \in {"fetch", "runtime", "persist", "poll", "sleep"} =>
          \A c \in 1 .. submitted : Available(c) => r.call = c
    /\ r.pc = "submit" => \A c \in 1 .. submitted : ~Available(c)

IdsInv == /\ NoPassWhenScored
          /\ AvailableIsKept
          /\ AvailableIsResumed
          /\ NothingToResume

LEMMA KeptIsIdsInv ==
    ASSUME NEW l, Proc = {l}, TypeOK PROVE Kept(proc[l]) <=> IdsInv
<1>1. proc[l].call \in Nat
  BY DEF TypeOK, Processes
<1> QED BY <1>1 DEF Kept, IdsInv, NoPassWhenScored, AvailableIsKept, AvailableIsResumed,
            NothingToResume, InHand, At

\* A step that neither gains nor cuts off a generation nor touches the row.
LEMMA QuietKept ==
    ASSUME NEW l, Kept(proc[l]), UNCHANGED <<row, submitted, histories>>,
           row.state = "SCORED" => proc'[l].pc = "idle",
           row.state = "FAILED" => proc'[l].pc \in {"idle", "fetch"},
           "persist" \in {proc[l].pc, proc'[l].pc} => proc'[l] = proc[l],
           proc'[l].pc \in {"fetch", "runtime", "persist", "poll", "sleep"} =>
               \A c \in 1 .. submitted : Available(c) => proc'[l].call = c,
           proc'[l].pc = "submit" => \A c \in 1 .. submitted : ~Available(c)
    PROVE  Kept(proc[l])'
<1>1. \A c : Available(c)' <=> Available(c)
  BY DEF Available, histories
<1> QED BY <1>1 DEF Kept

LEMMA ReportFields ==
    ASSUME proc \in [Proc -> Processes], NEW p \in Proc, NEW outcome, Report(p, outcome)
    PROVE  proc'[p].pc = "record"
  BY DEF Report, Processes

LEMMA GotoFields ==
    ASSUME proc \in [Proc -> Processes], NEW p \in Proc, NEW pc, Goto(p, pc)
    PROVE  proc'[p].pc = pc /\ proc'[p].call = proc[p].call
  BY DEF Goto, Processes

LEMMA EndFields ==
    ASSUME proc \in [Proc -> Processes], NEW p \in Proc, End(p)
    PROVE  proc'[p].pc = "idle"
  BY DEF End, Idle

LEMMA KeptNext ==
    ASSUME NEW l, Proc = {l}, TypeOK, Kept(proc[l]), [Next]_vars
    PROVE  Kept(proc[l])'
<1> USE DEF Fault, envVars, histories
<1>0. /\ proc \in [Proc -> Processes]
      /\ proc[l] \in Processes
      /\ l \in Proc
      /\ row \in Rows
      /\ submitted \in Nat
  BY DEF TypeOK
<1>1. CASE Start(l)
  <2>1. /\ proc'[l].pc = "fetch"
        /\ proc'[l].call = row.call
        /\ proc[l].pc = "idle"
        /\ row.state # "SCORED"
    BY <1>0, <1>1 DEF Start, Idle, PendingCall, At
  <2> QED BY <1>1, <2>1, QuietKept DEF Start, Kept
<1>2. CASE RecordInput(l)
  <2>1. /\ proc'[l].pc = "runtime"
        /\ proc'[l].call = proc[l].call
        /\ proc[l].pc = "fetch"
    BY <1>0, <1>2, GotoFields DEF RecordInput, At
  <2>2. row'.call = row.call /\ row'.state = "VERIFIED"
    BY <1>0, <1>2 DEF RecordInput, Rows
  <2>3. \A c : Available(c)' <=> Available(c)
    BY <1>2 DEF RecordInput, Available
  <2> QED BY <1>2, <2>1, <2>2, <2>3 DEF RecordInput, Kept
<1>3. CASE Budget(l)
  <2>1. proc[l].pc = "runtime"
    BY <1>3 DEF Budget, At
  <2>2. \/ proc'[l].pc \in {"record", "direct"}
        \/ proc'[l].pc = "submit" /\ proc[l].call = NoCall
        \/ proc'[l].pc = "poll" /\ proc'[l].call = proc[l].call
    BY <1>0, <1>3 DEF Budget, Report, Processes
  <2>3. \A c \in 1 .. submitted : c # NoCall
    BY DEF NoCall
  <2> QED BY <1>3, <2>1, <2>2, <2>3, QuietKept DEF Budget, Kept
<1>4. CASE Submit(l)
  <2>1. proc[l].pc = "submit" /\ proc'[l].pc = "persist" /\ proc'[l].call = submitted'
    BY <1>0, <1>4 DEF Submit, At, Processes
  <2>2. submitted' = submitted + 1
    BY <1>4, SpawnType DEF Submit
  <2>3. \A c \in 1 .. submitted : ~Available(c)'
    BY <1>4, <2>1, <2>2 DEF Submit, Kept, Available
  <2>4. \A c \in 1 .. submitted' : Available(c)' => c = submitted'
    BY <1>0, <2>2, <2>3
  <2>5. row.state # "SCORED" /\ row' = row
    BY <1>4, <2>1 DEF Kept, Submit
  <2> QED BY <2>1, <2>4, <2>5 DEF Kept
<1>5. CASE SubmitFails(l)
  <2>1. proc[l].pc = "submit" /\ proc'[l].pc = "record" /\ row' = row
    BY <1>0, <1>5, ReportFields DEF SubmitFails, At
  <2>2. CASE Spawn /\ lost' = lost \cup {submitted'}
    <3>1. submitted' = submitted + 1 /\ UNCHANGED <<erased, denied>>
      BY <1>5, <2>2, SpawnType DEF SubmitFails
    <3>2. \A c \in 1 .. submitted' : ~Available(c)'
      BY <1>0, <2>1, <2>2, <3>1 DEF Kept, Available
    <3> QED BY <2>1, <2>2, <3>2 DEF Kept
  <2>3. CASE UNCHANGED <<job, submitted, histories>>
    BY <2>1, <2>3, QuietKept DEF Kept
  <2> QED BY <1>5, <2>2, <2>3 DEF SubmitFails
<1>6. CASE Persist(l)
  <2>1. /\ proc[l].pc = "persist"
        /\ proc'[l].pc = "poll"
        /\ proc'[l].call = proc[l].call
        /\ row'.state = row.state
    BY <1>0, <1>6, GotoFields DEF Persist, At, Rows
  <2>2. CASE otherHolds
    <3>1. \A c : Available(c)' <=> Available(c) /\ c # proc[l].call
      BY <1>6, <2>2 DEF Persist, Available
    <3> QED BY <1>6, <2>1, <2>2, <3>1 DEF Persist, Kept
  <2>3. CASE ~otherHolds
    <3>1. \A c : Available(c)' <=> Available(c)
      BY <1>6, <2>3 DEF Persist, Available
    <3>2. row'.call = proc[l].call
      BY <1>0, <1>6, <2>3 DEF Persist, Rows
    <3>3. submitted' = submitted
      BY <1>6, <2>3 DEF Persist
    <3> QED BY <2>1, <3>1, <3>2, <3>3 DEF Kept
  <2> QED BY <2>2, <2>3
<1>7. CASE PollDone(l)
  BY <1>0, <1>7, ReportFields, QuietKept DEF PollDone, Kept, At
<1>8. CASE PollFailed(l)
  <2>1. /\ proc[l].pc = "poll"
        /\ proc'[l].pc \in {"submit", "record"}
        /\ denied' = denied \cup {proc[l].call} /\ UNCHANGED <<row, submitted, lost, erased>>
    BY <1>0, <1>8, ReportFields, GotoFields DEF PollFailed, At
  <2>2. \A c \in 1 .. submitted : ~Available(c)'
    BY <2>1 DEF Kept, Available
  <2> QED BY <2>1, <2>2 DEF Kept
<1>9. CASE PollPending(l) \/ PollError(l)
  <2>1. /\ proc[l].pc = "poll"
        /\ \/ proc'[l].pc = "record"
           \/ proc'[l].pc = "sleep" /\ proc'[l].call = proc[l].call
    BY <1>0, <1>9, ReportFields, GotoFields DEF PollPending, PollError, At
  <2> QED BY <1>9, <2>1, QuietKept DEF PollPending, PollError, Kept
<1>10. CASE Direct(l)
  BY <1>0, <1>10, ReportFields, QuietKept DEF Direct, Kept, At
<1>11. CASE Record(l)
  <2>1. proc[l].pc = "record" /\ proc'[l].pc = "idle" /\ row.state # "SCORED"
    BY <1>0, <1>11, EndFields DEF Record, At, Kept
  <2>2. \/ row'.state = "SCORED" /\ erased' = erased \cup CallInRow
        \/ row'.state = "FAILED" /\ row'.call = row.call /\ erased' = erased
    BY <1>11 DEF Record, ScoredRow
  <2>3. UNCHANGED <<submitted, lost, denied>>
    BY <1>11 DEF Record
  <2>4. \A c \in 1 .. submitted : Available(c)' => Available(c)
    BY <2>2, <2>3 DEF Available
  <2>5. \A c \in 1 .. submitted : Available(c) => row.call = c
    BY <2>1 DEF Kept
  <2>6. CASE row'.state = "SCORED" /\ erased' = erased \cup CallInRow
    <3>1. \A c \in 1 .. submitted : ~Available(c)'
      BY <2>4, <2>5, <2>6 DEF Available, CallInRow, NoCall
    <3> QED BY <2>1, <2>3, <2>6, <3>1 DEF Kept
  <2>7. CASE row'.state = "FAILED" /\ row'.call = row.call /\ erased' = erased
    BY <2>1, <2>3, <2>4, <2>5, <2>7 DEF Kept
  <2> QED BY <2>2, <2>6, <2>7
<1>12. CASE LockedOut(l)
  BY <1>0, <1>12, EndFields, QuietKept DEF LockedOut, Kept
<1>13. CASE Kill(l)
  <2>1. proc[l].pc # "idle" /\ proc'[l].pc = "idle"
    BY <1>0, <1>13, EndFields DEF Kill, At
  <2>2. \A c : Available(c)' => Available(c) /\ (proc[l].pc = "persist" => c # proc[l].call)
    BY <1>13 DEF Kill, Available, At
  <2>3. /\ submitted' = submitted /\ row' = row
    BY <1>13 DEF Kill, At
  <2> QED BY <2>1, <2>2, <2>3 DEF Kept
<1>14. CASE Generated \/ Expire
  <2>1. \A c : Available(c)' => Available(c)
    BY <1>14 DEF Generated, Expire, Available, TypeOK
  <2> QED BY <1>14, <2>1 DEF Generated, Expire, Kept
<1>15. CASE Rediscover
  <2>1. /\ row'.state \in {"DISCOVERED", "VERIFIED"}
        /\ UNCHANGED <<submitted, lost, denied, proc>>
        /\ erased' = erased \cup CallInRow
    BY <1>0, <1>15 DEF Rediscover, Rows
  <2>2. \A c \in 1 .. submitted : Available(c)' => Available(c) /\ c # row.call
    BY <2>1 DEF Available, CallInRow, NoCall
  <2> QED BY <2>1, <2>2 DEF Kept
<1>16. CASE Tick
  <2>1. proc'[l] = Ticked(proc[l]) /\ proc[l].pc \notin {"submit", "persist", "poll"}
    BY <1>0, <1>16, TickType DEF Tick
  <2>2. /\ proc'[l].call = proc[l].call
        /\ \/ proc'[l].pc = proc[l].pc
           \/ proc[l].pc = "sleep" /\ proc'[l].pc = "poll"
    BY <1>0, <2>1 DEF Ticked, Processes
  <2>3. UNCHANGED <<row, submitted, histories>>
    BY <1>16 DEF Tick
  <2>4. /\ row.state = "SCORED" => proc'[l].pc = "idle"
        /\ row.state = "FAILED" => proc'[l].pc \in {"idle", "fetch"}
        /\ "persist" \notin {proc[l].pc, proc'[l].pc}
        /\ proc'[l].pc # "submit"
        /\ proc'[l].pc \in {"fetch", "runtime", "persist", "poll", "sleep"} =>
               \A c \in 1 .. submitted : Available(c) => proc'[l].call = c
    BY <2>1, <2>2 DEF Kept
  <2> QED BY <2>1, <2>2, <2>3, <2>4, QuietKept
<1>17. CASE Announce \/ OtherLocks \/ OtherUnlocks \/ UNCHANGED vars
  BY <1>17, QuietKept DEF Announce, OtherLocks, OtherUnlocks, vars, Kept
<1> QED BY <1>1, <1>2, <1>3, <1>4, <1>5, <1>6, <1>7, <1>8, <1>9, <1>10, <1>11, <1>12,
           <1>13, <1>14, <1>15, <1>16, <1>17
        DEF Next, Pass

-----------------------------------------------------------------------------
(* What the faults cover, with one scoring process.                        *)

\* What the two invariants say of the only process.
Covered(r) ==
    /\ row.call \in 0 .. submitted /\ r.call \in 0 .. submitted
    /\ r.pc \in {"persist", "poll", "sleep"} => r.call # NoCall
    /\ r.pc = "persist" => r.fresh
    /\ submitted + Owing(r) <= 1 + faults

LEMMA CoveredIs == ASSUME NEW l, Proc = {l} PROVE Covered(proc[l]) <=> CallsAreIds /\ FaultsCover
  BY DEF Covered, CallsAreIds, FaultsCover, At

LEMMA CoveredNext ==
    ASSUME NEW l, Proc = {l}, TypeOK, RunsOK, Kept(proc[l]), Covered(proc[l]), [Next]_vars
    PROVE  Covered(proc[l])'
<1> USE DEF Fault, envVars
<1> DEFINE r == proc[l]
           known == row.call \in 0 .. submitted /\ r.call \in 0 .. submitted
<1>0. /\ proc \in [Proc -> Processes] /\ r \in Processes /\ l \in Proc
      /\ row \in Rows /\ submitted \in Nat /\ faults \in Nat /\ otherHolds \in BOOLEAN
      /\ job \in [1 .. submitted -> {"pending", "done", "malformed", "failed"}]
  BY DEF TypeOK
<1>1. CASE Start(l)
  <2>1. /\ proc'[l].pc = "fetch" /\ proc'[l].call = row.call /\ ~proc'[l].fresh
        /\ r.pc = "idle" /\ row.state # "SCORED"
        /\ UNCHANGED <<row, job, submitted, faults, otherHolds>>
    BY <1>0, <1>1 DEF Start, Idle, PendingCall, At
  <2> QED BY <1>0, <2>1 DEF Covered, Owing, One, IsFree
<1>2. CASE RecordInput(l)
  <2>1. /\ proc'[l].pc = "runtime" /\ proc'[l].call = r.call /\ proc'[l].fresh = r.fresh
        /\ r.pc = "fetch" /\ ~r.fresh /\ ~otherHolds
        /\ row'.call = row.call /\ row'.state = "VERIFIED" /\ row.state # "SCORED"
        /\ UNCHANGED <<job, submitted, faults, otherHolds>>
    BY <1>0, <1>2 DEF RecordInput, At, Goto, Rows, Processes, RunsOK, RunOK, Kept
  <2> QED BY <1>0, <2>1 DEF Covered, Owing, One, IsFree
<1>3. CASE Budget(l)
  <2>1. /\ r.pc = "runtime" /\ ~r.fresh /\ row.state # "SCORED"
        /\ proc'[l].call = r.call /\ proc'[l].fresh = r.fresh
        /\ \/ proc'[l].pc \in {"record", "direct"}
           \/ proc'[l].pc = "submit" /\ r.call = NoCall
           \/ proc'[l].pc = "poll" /\ r.call # NoCall
        /\ UNCHANGED <<row, job, submitted, faults, otherHolds>>
    BY <1>0, <1>3 DEF Budget, Report, At, Processes, RunsOK, RunOK, Kept
  <2>2. Owing(r) = One(IsFree(r.call) \/ IsFree(row.call)) + One(otherHolds)
    BY <2>1 DEF Owing, One, IsFree
  <2>3. CASE proc'[l].pc \in {"record", "direct"}
    <3>1. Owing(proc[l])' = One(IsFree(row.call))
      BY <2>1, <2>3 DEF Owing, One, IsFree
    <3> QED BY <1>0, <2>1, <2>2, <2>3, <3>1 DEF Covered, One
  <2>4. CASE proc'[l].pc = "submit" /\ r.call = NoCall
    <3>1. Owing(proc[l])' = 1 + One(otherHolds)
      BY <2>1, <2>4 DEF Owing, One
    <3>2. One(IsFree(r.call) \/ IsFree(row.call)) = 1
      BY <2>4 DEF One, IsFree
    <3> QED BY <1>0, <2>1, <2>2, <2>4, <3>1, <3>2 DEF Covered
  <2>5. CASE proc'[l].pc = "poll" /\ r.call # NoCall
    <3>1. Owing(proc[l])' = Owing(r)
      BY <2>1, <2>2, <2>5 DEF Owing, One, IsFree
    <3> QED BY <1>0, <2>1, <2>5, <3>1 DEF Covered
  <2> QED BY <2>1, <2>3, <2>4, <2>5
<1>4. CASE Submit(l)
  <2>1. /\ r.pc = "submit" /\ row.state # "SCORED"
        /\ proc'[l].pc = "persist" /\ proc'[l].call = submitted' /\ proc'[l].fresh
        /\ UNCHANGED <<row, faults, otherHolds>>
    BY <1>0, <1>4 DEF Submit, At, Processes, Kept
  <2>2. submitted' = submitted + 1 /\ job'[submitted'] = "pending"
    BY <1>4, SpawnType DEF Submit
  <2> QED BY <1>0, <2>1, <2>2 DEF Covered, Owing, One, IsFree, NoCall
<1>5. CASE SubmitFails(l)
  <2>1. /\ r.pc = "submit" /\ row.state # "SCORED"
        /\ proc'[l].pc = "record" /\ proc'[l].call = r.call
        /\ faults' = faults + 1 /\ UNCHANGED <<row, otherHolds>>
    BY <1>0, <1>5 DEF SubmitFails, Report, At, Processes, Kept
  <2>2. \/ submitted' = submitted + 1 /\ \A c \in 1 .. submitted : job'[c] = job[c]
        \/ UNCHANGED <<submitted, job>>
    BY <1>5, SpawnType DEF SubmitFails
  <2> QED BY <1>0, <2>1, <2>2 DEF Covered, Owing, One, IsFree, NoCall
<1>6. CASE Persist(l)
  <2>1. /\ r.pc = "persist" /\ row.state # "SCORED" /\ row'.state = row.state
        /\ proc'[l].pc = "poll" /\ proc'[l].call = r.call /\ proc'[l].fresh = r.fresh
        /\ row'.call = IF otherHolds THEN row.call ELSE r.call
        /\ UNCHANGED <<job, submitted, faults, otherHolds>>
    BY <1>0, <1>6 DEF Persist, Goto, At, Rows, Processes, Kept
  <2>2. Owing(r) = One(otherHolds \/ IsFree(r.call))
    BY <2>1 DEF Owing, One, IsFree
  <2>3. Owing(proc[l])' <= Owing(r) /\ Owing(proc[l])' \in Nat
    <3>1. r.fresh
      BY <2>1 DEF Covered
    <3>2. Owing(proc[l])' = One(IsFree(row'.call))
      BY <2>1, <3>1 DEF Owing, One, IsFree
    <3> QED BY <2>1, <2>2, <3>2 DEF One
  <2> QED BY <1>0, <2>1, <2>2, <2>3 DEF Covered, One
<1>7. CASE PollDone(l) \/ Direct(l)
  <2>1. /\ r.pc \in {"poll", "direct"} /\ row.state # "SCORED"
        /\ proc'[l].pc = "record" /\ proc'[l].call = r.call
        /\ faults' \in {faults, faults + 1} /\ UNCHANGED <<row, job, submitted, otherHolds>>
    BY <1>0, <1>7 DEF PollDone, Direct, Report, At, Processes, Kept
  <2> QED BY <1>0, <2>1 DEF Covered, Owing, One, IsFree
<1>8. CASE PollFailed(l)
  <2>1. /\ r.pc = "poll" /\ row.state # "SCORED"
        /\ proc'[l].call = r.call /\ proc'[l].fresh = r.fresh
        /\ \/ proc'[l].pc = "submit" /\ ~r.fresh
           \/ proc'[l].pc = "record"
        /\ \/ job[r.call] = "failed" /\ faults' = faults
           \/ faults' = faults + 1
        /\ UNCHANGED <<row, job, submitted, otherHolds>>
    BY <1>0, <1>8 DEF PollFailed, Resubmits, Goto, Report, At, Processes, Kept
  <2>2. CASE r.fresh
    <3>1. Owing(r) = One(IsFree(row.call)) /\ Owing(proc[l])' = One(IsFree(row.call))
      BY <2>1, <2>2 DEF Owing, One, IsFree
    <3> QED BY <1>0, <2>1, <2>2, <3>1 DEF Covered, One
  <2>3. CASE ~r.fresh
    <3>1. Owing(r) = One(IsFree(r.call) \/ IsFree(row.call)) + One(otherHolds)
      BY <2>1, <2>3 DEF Owing, One, IsFree
    <3>2. job[r.call] = "failed" => One(IsFree(r.call) \/ IsFree(row.call)) = 1
      BY DEF One, IsFree
    <3>3. Owing(proc[l])' \in {One(IsFree(row.call)), 1 + One(otherHolds)}
      BY <2>1, <2>3 DEF Owing, One, IsFree
    <3>4. Owing(proc[l])' \in Nat /\ Owing(proc[l])' <= Owing(r) + (faults' - faults)
      BY <1>0, <2>1, <3>1, <3>2, <3>3 DEF One
    <3> QED BY <1>0, <2>1, <3>1, <3>4 DEF Covered, One
  <2> QED BY <1>0, <2>2, <2>3 DEF Processes
<1>9. CASE PollPending(l) \/ PollError(l)
  <2>1. /\ r.pc = "poll" /\ row.state # "SCORED"
        /\ proc'[l].pc \in {"sleep", "record"} /\ proc'[l].call = r.call /\ proc'[l].fresh = r.fresh
        /\ faults' \in {faults, faults + 1} /\ UNCHANGED <<row, job, submitted, otherHolds>>
    BY <1>0, <1>9 DEF PollPending, PollError, Goto, Report, At, Processes, Kept
  <2>2. CASE r.fresh
    <3>1. Owing(r) = One(IsFree(row.call)) /\ Owing(proc[l])' = One(IsFree(row.call))
      BY <2>1, <2>2 DEF Owing, One, IsFree
    <3>2. Owing(proc[l])' = Owing(r) /\ Owing(r) \in Nat
      BY <3>1 DEF One
    <3> QED BY <1>0, <2>1, <3>2 DEF Covered
  <2>3. CASE ~r.fresh
    <3>1. Owing(r) = One(IsFree(r.call) \/ IsFree(row.call)) + One(otherHolds)
      BY <2>1, <2>3 DEF Owing, One, IsFree
    <3>2. Owing(proc[l])' \in {One(IsFree(row.call)), Owing(r)}
      BY <2>1, <2>3, <3>1 DEF Owing, One, IsFree
    <3>3. One(IsFree(row.call)) <= One(IsFree(r.call) \/ IsFree(row.call))
      BY DEF One
    <3> QED BY <1>0, <2>1, <3>1, <3>2, <3>3 DEF Covered, One
  <2> QED BY <1>0, <2>2, <2>3 DEF Processes
<1>10. CASE Record(l)
  <2>1. /\ r.pc = "record" /\ proc'[l].pc = "idle" /\ proc'[l].call = NoCall
        /\ row.state # "SCORED"
        /\ \/ row'.state = "SCORED" /\ row'.call = NoCall
           \/ row'.state = "FAILED" /\ row'.call = row.call
        /\ UNCHANGED <<job, submitted, faults, otherHolds>>
    BY <1>0, <1>10 DEF Record, ScoredRow, End, Idle, At, Kept
  <2> QED BY <1>0, <2>1 DEF Covered, Owing, One, IsFree, NoCall
<1>11. CASE LockedOut(l) \/ Kill(l)
  <2>1. /\ r.pc # "idle" /\ row.state # "SCORED"
        /\ proc'[l].pc = "idle" /\ proc'[l].call = NoCall
        /\ UNCHANGED <<row, job, submitted, otherHolds>>
        /\ \/ r.pc \in {"fetch", "record"} /\ faults' = faults
           \/ faults' = faults + 1
    BY <1>0, <1>11 DEF LockedOut, Kill, End, Idle, At, Kept
  <2> QED BY <1>0, <2>1 DEF Covered, Owing, One, IsFree, NoCall
<1>12. CASE Generated \/ Expire
  <2>1. /\ UNCHANGED <<row, proc, submitted, otherHolds>>
        /\ \/ faults' = faults + 1
           \/ faults' = faults /\ \A c \in 1 .. submitted : job'[c] = "failed" => job[c] = "failed"
    BY <1>0, <1>12 DEF Generated, Expire
  <2>2. \A c \in 1 .. submitted : job[c] = "failed" => job'[c] = "failed"
    BY <1>0, <1>12 DEF Generated, Expire
  <2>3. CASE faults' = faults
    <3>1. (IsFree(row.call)' <=> IsFree(row.call)) /\ (IsFree(r.call)' <=> IsFree(r.call))
      <4>1. \A c \in 0 .. submitted : c = NoCall \/ (job'[c] = "failed" <=> job[c] = "failed")
        BY <1>0, <2>1, <2>2, <2>3 DEF NoCall
      <4> QED BY <2>1, <4>1 DEF IsFree, Covered
    <3>2. Owing(proc[l])' = Owing(r)
      BY <2>1, <3>1 DEF Owing, One
    <3> QED BY <1>0, <2>1, <2>3, <3>2 DEF Covered
  <2>4. CASE faults' = faults + 1
    <3>1. Owing(proc[l])' <= Owing(r) + 1 /\ Owing(proc[l])' \in Nat /\ Owing(r) \in Nat
      BY <2>1 DEF Owing, One
    <3> QED BY <1>0, <2>1, <2>4, <3>1 DEF Covered
  <2> QED BY <2>1, <2>3, <2>4
<1>13. CASE Rediscover
  <2>1. /\ row'.state # "SCORED" /\ row'.call = NoCall /\ faults' = faults + 1
        /\ UNCHANGED <<job, submitted, otherHolds, proc>>
        /\ row.state = "SCORED" => r.pc = "idle"
    BY <1>0, <1>13 DEF Rediscover, Rows, NoCall, Kept
  <2> QED BY <1>0, <2>1 DEF Covered, Owing, One, IsFree, NoCall
<1>14. CASE Tick
  <2>1. proc'[l] = Ticked(r) /\ UNCHANGED <<row, job, submitted, faults, otherHolds>>
    BY <1>0, <1>14, TickType DEF Tick
  <2>2. /\ proc'[l].call = r.call /\ proc'[l].fresh = r.fresh
        /\ \/ proc'[l].pc = r.pc
           \/ r.pc = "sleep" /\ proc'[l].pc = "poll"
    BY <1>0, <2>1 DEF Ticked, Processes
  <2> QED BY <1>0, <2>1, <2>2 DEF Covered, Owing, One, IsFree
<1>15. CASE OtherLocks \/ OtherUnlocks
  <2>1. /\ UNCHANGED <<row, job, submitted, proc>>
        /\ \/ otherHolds' /\ faults' = faults + 1
           \/ ~otherHolds' /\ faults' = faults
    BY <1>15 DEF OtherLocks, OtherUnlocks
  <2> QED BY <1>0, <2>1 DEF Covered, Owing, One, IsFree
<1>16. CASE Announce \/ UNCHANGED vars
  BY <1>16 DEF Announce, vars, Covered, Owing, One, IsFree
<1> QED BY <1>1, <1>2, <1>3, <1>4, <1>5, <1>6, <1>7, <1>8, <1>9, <1>10, <1>11, <1>12,
           <1>13, <1>14, <1>15, <1>16
        DEF Next, Pass

LEMMA IInvParts ==
    ASSUME NEW l, Proc = {l}
    PROVE  IInv <=> TypeOK /\ RunsOK /\ Kept(proc[l]) /\ Covered(proc[l])
  BY KeptIsIdsInv, RunsOKIsBudgetInv, CoveredIs DEF IInv, IdsInv, BudgetInv

\* With one scoring process the invariant holds.
LEMMA Invariance == ASSUME NEW l, Proc = {l} PROVE Spec => []IInv
<1> DEFINE Parts == TypeOK /\ RunsOK /\ Kept(proc[l]) /\ Covered(proc[l])
<1>1. Init => Parts
  <2> SUFFICES ASSUME Init PROVE Parts
    OBVIOUS
  <2>1. RunsOK
    BY IdleOK DEF Init, RunsOK
  <2>2. Kept(proc[l])
    BY DEF Init, Kept, Idle, Available, NoCall
  <2>3. Covered(proc[l])
    BY DEF Init, Covered, Owing, One, IsFree, Idle, NoCall
  <2> QED BY <2>1, <2>2, <2>3, TypeInit
<1>2. Parts /\ [Next]_vars => Parts'
  BY TypeNext, RunsOKNext, KeptNext, CoveredNext
<1>3. Parts => IInv
  BY IInvParts
<1> QED BY <1>1, <1>2, <1>3, PTL DEF Spec

\* A pass that knows the deadline asks for a generation only while the commit
\* window is open for longer than the margin: any number of processes.
THEOREM DeadlineKept == Spec => []BilledInTime
<1>1. TypeOK /\ RunsOK => BilledInTime
  BY DEF RunsOK, RunOK, BilledInTime, At, TypeOK, Processes
<1>2. Init => TypeOK /\ RunsOK
  BY TypeInit, IdleOK DEF Init, RunsOK
<1>3. (TypeOK /\ RunsOK) /\ [Next]_vars => (TypeOK /\ RunsOK)'
  BY TypeNext, RunsOKNext
<1> QED BY <1>1, <1>2, <1>3, PTL DEF Spec

\* One pass pays at most once: any number of processes.
THEOREM PaysOnce == Spec => OneSubmitPerPass
<1>1. TypeOK /\ RunsOK /\ [Next]_vars
        => [\A p \in Proc : At(p, "submit") /\ submitted' # submitted
                => ~proc[p].fresh]_vars
  BY DEF RunsOK, RunOK, At
<1>2. Init => TypeOK /\ RunsOK
  BY TypeInit, IdleOK DEF Init, RunsOK
<1>3. (TypeOK /\ RunsOK) /\ [Next]_vars => (TypeOK /\ RunsOK)'
  BY TypeNext, RunsOKNext
<1> QED BY <1>1, <1>2, <1>3, PTL DEF Spec, OneSubmitPerPass

\* With one scoring process a new generation is paid for only when every earlier
\* one was called failed by the endpoint, never got into the row, or was forgotten
\* by it: for any budgets, windows, faults and number of generations.
THEOREM PaidWhenCutOff == ASSUME NEW l, Proc = {l} PROVE Spec => PaidOnlyWhenCutOff
<1> DEFINE CutOff == 1 .. submitted \subseteq lost \cup erased \cup denied
<1>1. IInv /\ [Next]_vars => [submitted' # submitted => CutOff]_vars
  <2> SUFFICES ASSUME IInv, Next, submitted' # submitted PROVE CutOff
    BY DEF vars
  <2>1. Submit(l) \/ SubmitFails(l)
    BY DEF Next, Pass, Start, RecordInput, Budget, Persist, PollDone, PollFailed,
           PollPending, PollError, Direct, Record, LockedOut, Kill, Generated, Expire,
           Announce, OtherLocks, OtherUnlocks, Rediscover, Tick
  <2>2. At(l, "submit")
    BY <2>1 DEF Submit, SubmitFails
  <2> QED BY <2>2 DEF IInv, NothingToResume, Available
<1>2. Spec => []IInv
  BY Invariance
<1> QED BY <1>1, <1>2, PTL DEF Spec, PaidOnlyWhenCutOff

\* With one scoring process a round costs at most one generation more than there
\* were faults, in however many passes.
THEOREM RepeatsOwed == ASSUME NEW l, Proc = {l} PROVE Spec => []RepeatsAreOwed
<1>1. IInv => RepeatsAreOwed
  <2> SUFFICES ASSUME IInv PROVE RepeatsAreOwed
    OBVIOUS
  <2>1. submitted + Owing(proc[l]) <= 1 + faults /\ submitted \in Nat /\ faults \in Nat
    BY DEF IInv, FaultsCover, TypeOK
  <2>2. Owing(proc[l]) \in 0 .. 2
    BY DEF Owing, One
  <2> QED BY <2>1, <2>2 DEF RepeatsAreOwed
<1>2. Spec => []IInv
  BY Invariance
<1> QED BY <1>1, <1>2, PTL
=============================================================================
