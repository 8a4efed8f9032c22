----------------------------- MODULE InferenceJob -----------------------------
(***************************************************************************)
(* One round's inference, from score_round (score.py) to the submit and    *)
(* poll transport of ModalBackend (inference.py) and the Modal app's job   *)
(* interface (_modal_app.py).  A generation is billed when the server      *)
(* accepts it and runs to its end whether or not anybody waits for it;     *)
(* its id is kept in the round's row, so that a later pass can resume it.  *)
(* Passes are killed, answers are lost, results expire, and other commands *)
(* hold the sidecar lock while a pass wants it.                            *)
(*                                                                         *)
(* Time is counted in poll intervals, downwards: what is left of the       *)
(* commit window and of each pass's budget.                                *)
(***************************************************************************)
EXTENDS Integers

CONSTANTS
    Proc,        \* processes that score: the loop's pass, a manual score
    MaxTimeout,  \* config.inference_timeout_seconds
    Margin,      \* INFERENCE_DEADLINE_SAFETY_MARGIN_SECONDS
    MinRead,     \* MIN_INFERENCE_READ_TIMEOUT_SECONDS
    Window,      \* length of the commit window
    CacheLoss,   \* whether the package cache may vanish under the row
    MaxFaults,   \* bound: faults in a run
    MaxCalls     \* bound: generations in a run

ASSUME JobAssumption == /\ MaxTimeout \in Nat \ {0}
                        /\ Margin \in Nat
                        /\ MinRead \in Nat \ {0}
                        /\ Window \in Nat
                        /\ CacheLoss \in BOOLEAN
                        /\ MaxFaults \in Nat
                        /\ MaxCalls \in Nat

VARIABLES
    jobInterface,  \* the deployment record names submit and result URLs
    announced,     \* the round's windows are in its row
    windowLeft,    \* time until commit_closes_at
    otherHolds,    \* another command holds the sidecar lock
    row,           \* the round's row
    job,           \* generations the server accepted, by call id
    submitted,     \* generations accepted so far: ids are 1 .. submitted
    lost,          \* ids that never got into the row
    erased,        \* ids the row had and forgot
    denied,        \* ids that a poll was told had failed
    proc,          \* the scoring processes
    faults

envVars == <<jobInterface, announced, windowLeft, otherHolds>>
histories == <<lost, erased, denied>>  \* no code reads these
vars == <<envVars, row, job, submitted, histories, proc, faults>>

NoCall == 0

\* Categories of a failure, with the two reasons of INFERENCE_TIMEOUT apart.
Failures == {"INFERENCE_ERROR", "INFERENCE_TIMEOUT", "RUNTIME_UNAVAILABLE",
             "round_deadline_elapsed", "generation_in_progress"}

Idle == [pc |-> "idle", call |-> NoCall, fresh |-> FALSE, capped |-> FALSE,
         budget |-> 0, outcome |-> "SCORED"]

Rows == [state : {"DISCOVERED", "VERIFIED", "FAILED", "SCORED"},
         error : Failures \cup {"none"},
         call : Nat]

Processes == [pc : {"idle", "fetch", "runtime", "submit", "persist", "poll",
                    "sleep", "direct", "record"},
              call : Nat,
              fresh : BOOLEAN,
              capped : BOOLEAN,
              budget : Nat,
              outcome : Failures \cup {"SCORED"}]

TypeOK == /\ jobInterface \in BOOLEAN
          /\ announced \in BOOLEAN
          /\ windowLeft \in 0 .. Window
          /\ otherHolds \in BOOLEAN
          /\ row \in Rows
          /\ submitted \in Nat
          /\ job \in [1 .. submitted -> {"pending", "done", "malformed", "failed"}]
          /\ lost \subseteq Nat /\ erased \subseteq Nat /\ denied \subseteq Nat
          /\ proc \in [Proc -> Processes]
          /\ faults \in Nat

Init == /\ jobInterface \in BOOLEAN
        /\ announced = FALSE
        /\ windowLeft = Window
        /\ otherHolds = FALSE
        /\ row = [state |-> "DISCOVERED", error |-> "none", call |-> NoCall]
        /\ job = [c \in {} |-> "pending"]
        /\ submitted = 0
        /\ lost = {} /\ erased = {} /\ denied = {}
        /\ proc = [p \in Proc |-> Idle]
        /\ faults = 0

-----------------------------------------------------------------------------
(* A pass.                                                                 *)

At(p, pc) == proc[p].pc = pc
Goto(p, pc) == proc' = [proc EXCEPT ![p].pc = pc]
End(p) == proc' = [proc EXCEPT ![p] = Idle]
Report(p, outcome) ==
    proc' = [proc EXCEPT ![p].pc = "record", ![p].outcome = outcome]

Fault == faults < MaxFaults /\ faults' = faults + 1

\* Mutant: a call is resumed only after a failure that left it running.
PendingCallInProgress ==
    IF row.error = "generation_in_progress" THEN row.call ELSE NoCall

\* pending_call_id of the round's row, its frozen input unchanged.
PendingCall == row.call

\* The first locked section: the persisted call and the announced deadline
\* are read here and used after the lock is gone.
Start(p) ==
    /\ At(p, "idle")
    /\ ~otherHolds
    /\ row.state # "SCORED"
    /\ proc' = [proc EXCEPT ![p] = [Idle EXCEPT !.pc = "fetch",
                                                !.call = PendingCall,
                                                !.capped = announced]]
    /\ UNCHANGED <<envVars, row, job, submitted, histories, faults>>

\* The package is fetched without the lock; the second locked section.
RecordInput(p) ==
    /\ At(p, "fetch")
    /\ ~otherHolds
    /\ row' = [row EXCEPT !.state = "VERIFIED"]
    /\ Goto(p, "runtime")
    /\ UNCHANGED <<envVars, job, submitted, histories, faults>>

\* Mutant: the safety margin is not taken off.
EffectiveTimeoutNoMargin(capped, left) ==
    IF ~capped THEN MaxTimeout
    ELSE IF left < MinRead THEN 0
    ELSE IF left < MaxTimeout THEN left ELSE MaxTimeout

\* _effective_inference_timeout_seconds, None as 0.
EffectiveTimeout(capped, left) ==
    IF ~capped THEN MaxTimeout
    ELSE IF left - Margin < MinRead THEN 0
    ELSE IF left - Margin < MaxTimeout THEN left - Margin ELSE MaxTimeout

\* The runtime is resolved, the budget cut to the deadline, the backend
\* built and its run started.
Budget(p) ==
    LET budget == EffectiveTimeout(proc[p].capped, windowLeft)
        next == IF ~jobInterface THEN "direct"
                ELSE IF proc[p].call = NoCall THEN "submit" ELSE "poll"
    IN /\ At(p, "runtime")
       /\ IF budget = 0
          THEN Report(p, "round_deadline_elapsed")
          ELSE proc' = [proc EXCEPT ![p].pc = next, ![p].budget = budget]
       /\ UNCHANGED <<envVars, row, job, submitted, histories, faults>>

\* The server spawns the generation: it is billed from here on.
Spawn == /\ submitted < MaxCalls
         /\ submitted' = submitted + 1
         /\ job' = [c \in 1 .. submitted' |->
                       IF c \in DOMAIN job THEN job[c] ELSE "pending"]

Submit(p) ==
    /\ At(p, "submit")
    /\ Spawn
    /\ proc' = [proc EXCEPT ![p].pc = "persist", ![p].call = submitted',
                            ![p].fresh = TRUE]
    /\ UNCHANGED <<envVars, row, histories, faults>>

\* The request or its answer is lost, refused or unreadable.
SubmitFails(p) ==
    /\ At(p, "submit")
    /\ Fault
    /\ \E outcome \in {"INFERENCE_TIMEOUT", "RUNTIME_UNAVAILABLE", "INFERENCE_ERROR"} :
          Report(p, outcome)
    /\ \/ Spawn /\ lost' = lost \cup {submitted'}
       \/ UNCHANGED <<job, submitted, histories>>
    /\ UNCHANGED <<envVars, row, erased, denied>>

\* on_call_submitted: best effort, a held lock is no error.
Persist(p) ==
    /\ At(p, "persist")
    /\ Goto(p, "poll")
    /\ IF otherHolds
       THEN lost' = lost \cup {proc[p].call} /\ UNCHANGED row
       ELSE row' = [row EXCEPT !.call = proc[p].call] /\ UNCHANGED lost
    /\ UNCHANGED <<envVars, job, submitted, erased, denied, faults>>

\* POLL_STATUS_DONE: the content is extracted, or is not there.
PollDone(p) ==
    /\ At(p, "poll")
    /\ \/ job[proc[p].call] = "done" /\ Report(p, "SCORED")
       \/ job[proc[p].call] = "malformed" /\ Report(p, "INFERENCE_ERROR")
    /\ UNCHANGED <<envVars, row, job, submitted, histories, faults>>

\* Mutants: a failed job is replaced again and again, or never.
ResubmitsAlways(p) == proc[p].budget > 0
ResubmitsNever(p) == FALSE

\* A failed resumed call may have expired: one fresh submit, within the budget.
Resubmits(p) == ~proc[p].fresh /\ proc[p].budget > 0

\* POLL_STATUS_FAILED.  The endpoint answers so for every exception of its own
\* (_modal_app.py:223-224), and a status the client does not know counts as it
\* (inference.py:489): the job may be running, or done.
PollFailed(p) ==
    /\ At(p, "poll")
    /\ \/ job[proc[p].call] = "failed" /\ UNCHANGED faults
       \/ job[proc[p].call] # "failed" /\ Fault
    /\ denied' = denied \cup {proc[p].call}
    /\ IF Resubmits(p) THEN Goto(p, "submit") ELSE Report(p, "INFERENCE_ERROR")
    /\ UNCHANGED <<envVars, row, job, submitted, lost, erased>>

\* Still generating: asleep until the next poll while budget remains.
PollPending(p) ==
    /\ At(p, "poll")
    /\ job[proc[p].call] = "pending"
    /\ IF proc[p].budget = 0
       THEN Report(p, "generation_in_progress")
       ELSE Goto(p, "sleep")
    /\ UNCHANGED <<envVars, row, job, submitted, histories, faults>>

\* A poll that got no answer is repeated while budget remains; a permanent
\* rejection, or one past the budget, ends the run.
PollError(p) ==
    /\ At(p, "poll")
    /\ Fault
    /\ \/ Report(p, "INFERENCE_ERROR")
       \/ proc[p].budget > 0 /\ Goto(p, "sleep")
       \/ /\ proc[p].budget = 0
          /\ \E outcome \in {"INFERENCE_TIMEOUT", "RUNTIME_UNAVAILABLE"} :
                Report(p, outcome)
    /\ UNCHANGED <<envVars, row, job, submitted, histories>>

\* The direct transport: one request, one answer, nothing to resume.
Direct(p) ==
    /\ At(p, "direct")
    /\ \/ Report(p, "SCORED") /\ UNCHANGED faults
       \/ Fault /\ \E outcome \in {"INFERENCE_ERROR", "RUNTIME_UNAVAILABLE"} :
                      Report(p, outcome)
       \/ proc[p].budget = 0 /\ Report(p, "INFERENCE_TIMEOUT") /\ UNCHANGED faults
    /\ UNCHANGED <<envVars, row, job, submitted, histories>>

\* Mutant: every outcome clears the id.
ScoredRowForgetting(outcome) ==
    IF outcome = "SCORED"
    THEN [state |-> "SCORED", error |-> "none", call |-> NoCall]
    ELSE [state |-> "FAILED", error |-> outcome, call |-> NoCall]

\* The row record_score leaves: the id goes only with a score.
ScoredRow(outcome) ==
    IF outcome = "SCORED"
    THEN [state |-> "SCORED", error |-> "none", call |-> NoCall]
    ELSE [state |-> "FAILED", error |-> outcome, call |-> row.call]

\* The id in the row, if there is one.
CallInRow == {row.call} \ {NoCall}

Record(p) ==
    /\ At(p, "record")
    /\ ~otherHolds
    /\ row' = ScoredRow(proc[p].outcome)
    /\ erased' = IF proc[p].outcome = "SCORED" THEN erased \cup CallInRow ELSE erased
    /\ End(p)
    /\ UNCHANGED <<envVars, job, submitted, lost, denied, faults>>

\* SyncLockError out of a locked section other than the call's: the pass ends.
LockedOut(p) ==
    /\ otherHolds
    /\ proc[p].pc \in {"fetch", "record"}
    /\ End(p)
    /\ UNCHANGED <<envVars, row, job, submitted, histories, faults>>

\* A kill, or an exception nothing catches, anywhere in a pass.
Kill(p) ==
    /\ ~At(p, "idle")
    /\ Fault
    /\ lost' = IF At(p, "persist") THEN lost \cup {proc[p].call} ELSE lost
    /\ End(p)
    /\ UNCHANGED <<envVars, row, job, submitted, erased, denied>>

-----------------------------------------------------------------------------
(* The server, the chain watcher, the other commands and time.             *)

\* generate() returns, raises, or returns a response without content.
Generated ==
    /\ \E c \in 1 .. submitted :
          /\ job[c] = "pending"
          /\ \/ job' = [job EXCEPT ![c] = "done"] /\ UNCHANGED faults
             \/ Fault /\ \E r \in {"malformed", "failed"} : job' = [job EXCEPT ![c] = r]
    /\ UNCHANGED <<envVars, row, submitted, histories, proc>>

\* The server forgets a result: polling it then answers POLL_STATUS_FAILED.
Expire ==
    /\ Fault
    /\ \E c \in 1 .. submitted :
          job[c] \in {"done", "malformed"} /\ job' = [job EXCEPT ![c] = "failed"]
    /\ UNCHANGED <<envVars, row, submitted, histories, proc>>

\* record_announcement_windows, of another command or pass.
Announce ==
    /\ ~announced
    /\ ~otherHolds
    /\ announced' = TRUE
    /\ UNCHANGED <<jobInterface, windowLeft, otherHolds, row, job, submitted, histories, proc, faults>>

OtherLocks ==
    /\ ~otherHolds
    /\ Fault
    /\ otherHolds' = TRUE
    /\ UNCHANGED <<jobInterface, announced, windowLeft, row, job, submitted, histories, proc>>

OtherUnlocks ==
    /\ otherHolds
    /\ otherHolds' = FALSE
    /\ UNCHANGED <<jobInterface, announced, windowLeft, row, job, submitted, histories, proc, faults>>

\* sync_input_package finds the round unverified, its cache gone:
\* record_discovered, which clears the id (state.py:358), then the fetched
\* package, unless the fetch fails.
Rediscover ==
    /\ CacheLoss
    /\ ~otherHolds
    /\ Fault
    /\ \E state \in {"DISCOVERED", "VERIFIED"} :
          row' = [row EXCEPT !.state = state, !.call = NoCall]
    /\ erased' = erased \cup CallInRow
    /\ UNCHANGED <<envVars, job, submitted, lost, denied, proc>>

\* One poll interval off what is left, if anything is.
Spend(n) == IF n > 0 THEN n - 1 ELSE n

\* Time passes while a pass sleeps or waits for a direct answer, and before
\* its budget is known; the steps from there to a poll's answer take none.
Tick ==
    /\ \A p \in Proc : proc[p].pc \notin {"submit", "persist", "poll"}
    /\ \/ announced /\ windowLeft > 0
       \/ \E p \in Proc : proc[p].pc \in {"sleep", "direct"} /\ proc[p].budget > 0
    /\ windowLeft' = IF announced THEN Spend(windowLeft) ELSE windowLeft
    /\ proc' = [p \in Proc |->
                  [proc[p] EXCEPT !.pc = IF @ = "sleep" THEN "poll" ELSE @,
                                  !.budget = Spend(@)]]
    /\ UNCHANGED <<jobInterface, announced, otherHolds, row, job, submitted, histories, faults>>

Pass(p) == \/ Start(p) \/ RecordInput(p) \/ Budget(p)
           \/ Submit(p) \/ Persist(p)
           \/ PollDone(p) \/ PollFailed(p) \/ PollPending(p)
           \/ Direct(p) \/ Record(p) \/ LockedOut(p)

Next == \/ \E p \in Proc : Pass(p) \/ SubmitFails(p) \/ PollError(p) \/ Kill(p)
        \/ Generated \/ Expire \/ Announce \/ OtherLocks \/ OtherUnlocks
        \/ Rediscover \/ Tick

Spec == Init /\ [][Next]_vars

\* The loop starts pass after pass, the server and the clock run, and no
\* command holds the lock for ever.
Fairness == /\ \A p \in Proc : WF_vars(Pass(p))
            /\ WF_vars(Generated)
            /\ WF_vars(OtherUnlocks)
            /\ WF_vars(Tick)

FairSpec == Spec /\ Fairness

-----------------------------------------------------------------------------
(* What the transport promises.                                            *)

\* A generation is paid for only when every earlier one is cut off: the endpoint
\* has called it failed, true or not, or its id never got into the row, or the
\* row forgot it, to a score or to a sync over a missing cache.  state.py:844-846
\* promises more: that an interrupted run is never paid for twice.
PaidOnlyWhenCutOff ==
    [][submitted' # submitted => 1 .. submitted \subseteq lost \cup erased \cup denied]_vars

\* However many passes a round takes, it costs no more generations than one and
\* one for each fault: a call that outlasts a pass's budget, or whose result is
\* unusable, is not replaced, and no fault is answered by two submissions.
RepeatsAreOwed == submitted <= 1 + faults

\* One pass pays for at most one generation, however often its jobs fail.
OneSubmitPerPass ==
    [][\A p \in Proc : At(p, "submit") /\ submitted' # submitted => ~proc[p].fresh]_vars

\* When a pass that knows the commit deadline asks for a generation, the
\* window is open for longer than the safety margin.
BilledInTime ==
    \A p \in Proc : At(p, "submit") /\ proc[p].capped => windowLeft > Margin

-----------------------------------------------------------------------------
(* Why they hold when one process scores at a time.                        *)

\* A generation that is not cut off.
Available(c) == c \in 1 .. submitted /\ c \notin lost \cup erased \cup denied

\* A generation a pass has just submitted and not yet persisted.
InHand(c) == \E p \in Proc : At(p, "persist") /\ proc[p].call = c

\* Nobody scores a scored round; a failure stands until the next pass has
\* recorded the input.
NoPassWhenScored ==
    /\ row.state = "SCORED" => \A p \in Proc : At(p, "idle")
    /\ row.state = "FAILED" => \A p \in Proc : proc[p].pc \in {"idle", "fetch"}

\* What is not cut off is in the row, or about to be.
AvailableIsKept == \A c \in 1 .. submitted : Available(c) => row.call = c \/ InHand(c)

\* The same, from the side of the pass that read the row before.
AvailableIsResumed ==
    \A p \in Proc : proc[p].pc \in {"fetch", "runtime", "persist", "poll", "sleep"} =>
        \A c \in 1 .. submitted : Available(c) => proc[p].call = c

\* A pass submits only with nothing left to resume.
NothingToResume ==
    \A p \in Proc : At(p, "submit") => \A c \in 1 .. submitted : ~Available(c)

\* Ids stand for generations; what a pass has in hand is its own.
CallsAreIds ==
    /\ row.call \in 0 .. submitted
    /\ \A p \in Proc : /\ proc[p].call \in 0 .. submitted
                       /\ proc[p].pc \in {"persist", "poll", "sleep"} => proc[p].call # NoCall
                       /\ At(p, "persist") => proc[p].fresh

\* An id that, when resumed, has the pass submit again with no further fault.
IsFree(c) == c = NoCall \/ job[c] = "failed"

One(condition) == IF condition THEN 1 ELSE 0

\* How many generations may yet be asked for with no further fault, for one
\* process: the one that replaces a call gone, and one more when the lock that
\* another command holds keeps the id of that one from the row.
Owing(r) ==
    CASE row.state = "SCORED" -> 0
      [] row.state # "SCORED" /\ r.pc = "submit" -> 1 + One(otherHolds)
      [] row.state # "SCORED" /\ r.pc = "persist" -> One(otherHolds \/ IsFree(r.call))
      [] row.state # "SCORED" /\ r.pc \in {"fetch", "runtime", "poll", "sleep"} /\ ~r.fresh ->
             One(IsFree(r.call) \/ IsFree(row.call)) + One(otherHolds /\ r.pc # "fetch")
      [] OTHER -> One(IsFree(row.call))

\* What is paid for and what is yet to be are covered by the faults so far.
FaultsCover == \A p \in Proc : submitted + Owing(proc[p]) <= 1 + faults

\* What is left of a pass's budget lies before the margin of its deadline.
BudgetInWindow ==
    \A p \in Proc : proc[p].capped =>
        announced /\ (proc[p].budget > 0 => proc[p].budget <= windowLeft - Margin)

SubmitInBudget == \A p \in Proc : At(p, "submit") => proc[p].budget > 0

FreshIsSpent ==
    \A p \in Proc : proc[p].pc \in {"fetch", "runtime", "submit"} => ~proc[p].fresh

IInv == /\ TypeOK
        /\ NoPassWhenScored
        /\ AvailableIsKept
        /\ AvailableIsResumed
        /\ NothingToResume
        /\ CallsAreIds
        /\ FaultsCover
        /\ BudgetInWindow
        /\ SubmitInBudget
        /\ FreshIsSpent

\* A call whose result has no content is resumed for as long as it is kept.
Unusable == row.call # NoCall /\ job[row.call] = "malformed"
TooLate == announced /\ EffectiveTimeout(TRUE, windowLeft) = 0

\* With the job interface the round ends up scored, through kills, expired
\* results and lost ids, even when no generation fits into one pass's budget,
\* unless its commit window is all but over or its result is unusable.
EventuallyScored ==
    jobInterface => <>[](row.state = "SCORED" \/ Unusable \/ TooLate)
=============================================================================
