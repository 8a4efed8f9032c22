---------------------------- MODULE Participation ----------------------------
(***************************************************************************)
(* Participation passes over one sidecar store.  A loop process repeats    *)
(* participate(): it scores the latest round without holding the sidecar   *)
(* lock (score.py), then takes the lock and, from the stored rows alone,   *)
(* reveals, records announced windows and commits (participate.py,         *)
(* reveal.py, commit.py).  A one-shot process is an operator's score       *)
(* command beside it.  Any process may be killed between two steps, and    *)
(* an RPC error ends a pass the same way: the lock goes, the store and     *)
(* what was broadcast stay.                                                *)
(***************************************************************************)
EXTENDS Ledger, Sequences

CONSTANTS
    Loops,         \* processes that run participate()
    OneShots,      \* processes that run score_round() on a round of their choice
    BrokenRounds,  \* rounds whose scoring raises at every attempt
    Adversities,   \* the kinds of adverse events a run allows
    MaxFaults,     \* bound: adverse events in a run
    MaxFeed        \* bound: announcements in a run

Procs == Loops \cup OneShots

AdversityKinds == {"crash", "expire", "bury", "low_balance", "signer", "scoring",
                   "raises", "unavailable", "announcement", "lost_file"}

ASSUME ProcsAssumption == /\ Loops \cap OneShots = {}
                          /\ None \notin Procs
ASSUME BoundsAssumption == /\ Adversities \subseteq AdversityKinds
                           /\ MaxFaults \in Nat
                           /\ MaxFeed \in Nat

VARIABLES
    rows,       \* the table sidecar_rounds
    files,      \* the persisted verification hashes of each round
    cursor,     \* chain cursor: announcements of the feed already passed
    lock,       \* the process that holds the sidecar lock, or None
    proc,       \* the local state of each process
    latest,     \* the latest round of the foundation's scoring service
    feed,       \* the announcements on the publisher's account
    nextSalt,   \* the next value of os.urandom
    faults      \* adverse events so far

storeVars == <<rows, files, cursor>>
envVars == <<latest, feed>>
vars == <<chainVars, storeVars, lock, proc, envVars, nextSalt, faults>>

\* Program counters at which a process holds the lock across steps.
LockedPcs == {"reveals", "revealScan", "revealSend", "revealWait", "walk",
              "walkAdvance", "commits", "commitScan", "commitSend", "commitWait"}

Pcs == {"idle", "hashes", "deferred", "fetch", "infer", "record", "chain"} \cup LockedPcs

Locals == [pc : Pcs,
           cur : Rounds \cup {0},              \* the round in hand
           todo : SUBSET Rounds,               \* rounds the phase's query returned
           clock : Nat,                        \* the close time read for it
           body : Commitments \cup {None},     \* what it commits to or opens
           tx : Transactions \cup {None},      \* the transaction awaited
           upto : Nat,                         \* end of the polled feed
           seen_state : States,                \* the row as score_round read it
           seen_outputs : Outputs \cup {None},
           deadline : Nat \cup {None}]

IdleLocals == [pc |-> "idle", cur |-> 0, todo |-> {}, clock |-> 0, body |-> None,
               tx |-> None, upto |-> 0, seen_state |-> "ABSENT", seen_outputs |-> None,
               deadline |-> None]

Announcements == [round : Rounds, windows : WindowSet]

TypeOK == /\ LedgerTypeOK
          /\ rows \in [Rounds -> Row]
          /\ files \in [Rounds -> Outputs \cup {None}]
          /\ cursor \in Nat
          /\ lock \in Procs \cup {None}
          /\ proc \in [Procs -> Locals]
          /\ latest \in 0 .. NumRounds
          /\ feed \in Seq(Announcements)
          /\ nextSalt \in Nat \ {0}
          /\ faults \in Nat

Init == /\ LedgerInit
        /\ rows = [r \in Rounds |-> AbsentRow]
        /\ files = [r \in Rounds |-> None]
        /\ cursor = 0
        /\ lock = None
        /\ proc = [p \in Procs |-> IdleLocals]
        /\ latest = 0
        /\ feed = <<>>
        /\ nextSalt = 1
        /\ faults = 0

-----------------------------------------------------------------------------
(* Shared by the actions.                                                  *)

\* An adverse event of the given kind happens, within the run's bound.
Adverse(kind) == /\ kind \in Adversities
                 /\ faults < MaxFaults
                 /\ faults' = faults + 1

SetRow(r, row) == rows' = [rows EXCEPT ![r] = row]

At(p, pc) == proc[p].pc = pc

Cur(p) == proc[p].cur

\* The process ends: a finished command, or a pass that failed.
Stop(p) == /\ proc' = [proc EXCEPT ![p] = IdleLocals]
           /\ lock' = IF lock = p THEN None ELSE lock

\* score_round returned: a pass goes on to its chain phases, a one-shot ends.
AfterScore(p) ==
    proc' = [proc EXCEPT ![p] = [IdleLocals EXCEPT
                !.pc = IF p \in Loops THEN "chain" ELSE "idle"]]

\* The phase is done with the round in hand.
NextRound(p, phase) ==
    proc' = [proc EXCEPT ![p] = [IdleLocals EXCEPT
                !.pc = phase, !.todo = proc[p].todo \ {Cur(p)}]]

\* The oldest round the phase still has to handle.
Oldest(p, r) == r \in proc[p].todo /\ \A q \in proc[p].todo : r <= q

-----------------------------------------------------------------------------
(* score_round.  Each of its database accesses is a locked section of its  *)
(* own; nothing is locked between them.                                    *)

Deadline(row) == IF row.windows = None THEN None ELSE row.windows.commit_closes

\* participate() scores the latest round; score takes any published one.
Scorable(p) == IF p \in Loops THEN {latest} \ {0} ELSE 1 .. latest

\* No eligible round: the pass goes on without scoring.
NoEligibleRound(p) ==
    /\ At(p, "idle") /\ p \in Loops
    /\ lock = None
    /\ latest = 0
    /\ AfterScore(p)
    /\ UNCHANGED <<chainVars, storeVars, lock, envVars, nextSalt, faults>>

\* The first locked read: already scored and compared, scored only, or neither.
ReadRound(p, r) ==
    /\ At(p, "idle")
    /\ lock = None
    /\ LET row == rows[r]
           scored == row.sidecar_state \in ScoredOrFurther
       IN  IF scored /\ row.compared
           THEN AfterScore(p)
           ELSE proc' = [proc EXCEPT ![p] = [IdleLocals EXCEPT
                    !.pc = IF scored THEN "hashes" ELSE "fetch",
                    !.cur = r,
                    !.seen_state = row.sidecar_state,
                    !.deadline = Deadline(row)]]
    /\ UNCHANGED <<chainVars, storeVars, lock, envVars, nextSalt, faults>>

\* A deferred comparison from the persisted hashes file, without the lock; if the
\* file is gone the round is scored again.
ReadHashes(p) ==
    /\ At(p, "hashes")
    /\ proc' = [proc EXCEPT ![p].pc = IF files[Cur(p)] # None THEN "deferred" ELSE "fetch",
                            ![p].seen_outputs = files[Cur(p)]]
    /\ UNCHANGED <<chainVars, storeVars, lock, envVars, nextSalt, faults>>

\* The foundation has published no hashes yet.
ComparisonPending(p) ==
    /\ At(p, "deferred")
    /\ AfterScore(p)
    /\ UNCHANGED <<chainVars, storeVars, lock, envVars, nextSalt, faults>>

\* Mutant: a comparison writes the state a first score has.
ComparisonStateScored(p) == "SCORED"

\* The comparison keeps the lifecycle state, as read before the lock was
\* released.
ComparisonState(p) == proc[p].seen_state

RecordDeferred(p) ==
    /\ At(p, "deferred")
    /\ lock = None
    /\ SetRow(Cur(p), record_score(rows[Cur(p)], ComparisonState(p),
                                   proc[p].seen_outputs, TRUE))
    /\ AfterScore(p)
    /\ UNCHANGED <<chainVars, files, cursor, lock, envVars, nextSalt, faults>>

\* The foundation's API or the package sources fail: a pass skips scoring.
ScoringUnavailable(p) ==
    /\ At(p, "fetch")
    /\ Adverse("unavailable")
    /\ AfterScore(p)
    /\ UNCHANGED <<chainVars, storeVars, lock, envVars, nextSalt>>

\* The input package is fetched, verified and recorded.
RecordInputVerified(p) ==
    /\ At(p, "fetch")
    /\ lock = None
    /\ SetRow(Cur(p), record_input_verified(rows[Cur(p)]))
    /\ proc' = [proc EXCEPT ![p].pc = "infer"]
    /\ UNCHANGED <<chainVars, files, cursor, lock, envVars, nextSalt, faults>>

\* Compatibility, runtime or inference fails, or the round's deadline has
\* elapsed; the outcome drops any earlier fingerprints.
RecordScoringFailure(p) ==
    /\ At(p, "infer")
    /\ Cur(p) \notin BrokenRounds
    /\ lock = None
    /\ \E state \in {"SCORING_FAILED", "SKIPPED"} :
          /\ \/ Adverse("scoring")
             \/ /\ state = "SCORING_FAILED"
                /\ proc[p].deadline # None
                /\ proc[p].deadline <= now
                /\ UNCHANGED faults
          /\ SetRow(Cur(p), record_score(rows[Cur(p)], state, None, FALSE))
    /\ AfterScore(p)
    /\ UNCHANGED <<chainVars, files, cursor, lock, envVars, nextSalt>>

\* A provisioning, manifest or verification error is no scoring outcome: it
\* leaves score_round and participate() alike.
ScoringRaises(p) ==
    /\ At(p, "infer")
    /\ IF Cur(p) \in BrokenRounds THEN UNCHANGED faults ELSE Adverse("raises")
    /\ Stop(p)
    /\ UNCHANGED <<chainVars, storeVars, envVars, nextSalt>>

\* Inference ends before the deadline that bounds it; the hashes file is written
\* before the outcome is recorded, which may be any time later.
PersistHashes(p) ==
    /\ At(p, "infer")
    /\ Cur(p) \notin BrokenRounds
    /\ proc[p].deadline # None => now < proc[p].deadline
    /\ \E o \in Outputs :
          /\ files' = [files EXCEPT ![Cur(p)] = o]
          /\ proc' = [proc EXCEPT ![p].pc = "record", ![p].seen_outputs = o]
    /\ UNCHANGED <<chainVars, rows, cursor, lock, envVars, nextSalt, faults>>

\* The outcome, compared if the foundation's hashes were already out.
RecordScored(p) ==
    /\ At(p, "record")
    /\ lock = None
    /\ \E compared \in BOOLEAN :
          SetRow(Cur(p), record_score(rows[Cur(p)], "SCORED",
                                      proc[p].seen_outputs, compared))
    /\ AfterScore(p)
    /\ UNCHANGED <<chainVars, files, cursor, lock, envVars, nextSalt, faults>>

\* SyncLockError: the lock is taken without waiting, so a locked section that
\* finds it held ends the command or the pass.
LockHeld(p) ==
    /\ proc[p].pc \in {"deferred", "fetch", "infer", "record", "chain"}
    /\ lock \notin {None, p}
    /\ Stop(p)
    /\ UNCHANGED <<chainVars, storeVars, envVars, nextSalt, faults>>

ScorePhase(p) == \/ NoEligibleRound(p)
                 \/ \E r \in Scorable(p) : ReadRound(p, r)
                 \/ ReadHashes(p)
                 \/ ComparisonPending(p)
                 \/ RecordDeferred(p)
                 \/ ScoringUnavailable(p)
                 \/ RecordInputVerified(p)
                 \/ RecordScoringFailure(p)
                 \/ ScoringRaises(p)
                 \/ PersistHashes(p)
                 \/ RecordScored(p)
                 \/ LockHeld(p)

-----------------------------------------------------------------------------
(* The reveal phase.                                                       *)

\* The lock for all chain phases, and the rounds awaiting their reveal.
BeginChainPhases(p) ==
    /\ At(p, "chain")
    /\ lock = None
    /\ lock' = p
    /\ proc' = [proc EXCEPT ![p] = [IdleLocals EXCEPT
                    !.pc = "reveals", !.todo = get_rounds_pending_reveal(rows)]]
    /\ UNCHANGED <<chainVars, storeVars, envVars, nextSalt, faults>>

\* Mutant: the guard only checks that the columns are there.
OpensAnything(row) == /\ row.commitment_hash # None
                      /\ row.output_hashes # None
                      /\ row.salt # 0

\* The integrity guard: stored outputs and salt reproduce the commitment.
Opens(row) == /\ row.commitment_hash # None
              /\ row.output_hashes # None
              /\ row.salt # 0
              /\ row.commitment_hash = Commitment(row.output_hashes, row.salt)

\* Mutant: the window gate asks for the commit window instead.
RevealTooEarlyByCommit(row, time) == time < row.windows.commit_opens

\* A round that is not revealable yet: a RevealError of the integrity guard, or
\* a reveal window that has not opened by the close time read.
RevealTooEarly(row, time) == time < row.windows.reveal_opens

RevealClock(p, r) ==
    /\ At(p, "reveals")
    /\ Oldest(p, r)
    /\ LET row == rows[r]
       IN  proc' = IF \/ row.commit_tx_hash = 0
                      \/ row.reveal_tx_hash # 0
                      \/ ~ Opens(row)
                      \/ RevealTooEarly(row, now)
                   THEN [proc EXCEPT ![p].todo = @ \ {r}]
                   ELSE [proc EXCEPT ![p].pc = "revealScan", ![p].cur = r,
                                     ![p].clock = now,
                                     ![p].body = Commitment(row.output_hashes, row.salt)]
    /\ UNCHANGED <<chainVars, storeVars, lock, envVars, nextSalt, faults>>

\* An own reveal on chain is recorded; otherwise a closed window is a miss.
RevealRecover(p) ==
    /\ At(p, "revealScan")
    /\ \E e \in MostRecent(Authored("reveal", Cur(p))) :
          SetRow(Cur(p), record_reveal(rows[Cur(p)], e.tx.id))
    /\ NextRound(p, "reveals")
    /\ UNCHANGED <<chainVars, files, cursor, lock, envVars, nextSalt, faults>>

RevealMissed(p) ==
    /\ At(p, "revealScan")
    /\ Authored("reveal", Cur(p)) = {}
    /\ proc[p].clock >= rows[Cur(p)].windows.reveal_closes
    /\ SetRow(Cur(p), record_reveal_miss(rows[Cur(p)]))
    /\ NextRound(p, "reveals")
    /\ UNCHANGED <<chainVars, files, cursor, lock, envVars, nextSalt, faults>>

RevealSigned(p) ==
    /\ At(p, "revealScan")
    /\ Authored("reveal", Cur(p)) = {}
    /\ proc[p].clock < rows[Cur(p)].windows.reveal_closes
    /\ proc' = [proc EXCEPT ![p].pc = "revealSend"]
    /\ UNCHANGED <<chainVars, storeVars, lock, envVars, nextSalt, faults>>

\* The signer's failure is a CommitError, which the reveal phase does not catch.
RevealSignerFails(p) ==
    /\ At(p, "revealScan")
    /\ Adverse("signer")
    /\ Stop(p)
    /\ UNCHANGED <<chainVars, storeVars, envVars, nextSalt>>

RevealBroadcast(p) ==
    /\ At(p, "revealSend")
    /\ LET tx == MemoTx("reveal", Cur(p), proc[p].body)
       IN  /\ submit_memo(tx)
           /\ proc' = [proc EXCEPT ![p].pc = "revealWait", ![p].tx = tx]
    /\ UNCHANGED <<storeVars, lock, envVars, nextSalt, faults>>

\* Nothing is sent and nothing recorded; the round stays COMMITTED.
RevealLowBalance(p) ==
    /\ At(p, "revealSend")
    /\ Adverse("low_balance")
    /\ NextRound(p, "reveals")
    /\ UNCHANGED <<chainVars, storeVars, lock, envVars, nextSalt>>

RevealConfirmed(p) ==
    /\ At(p, "revealWait")
    /\ Landed(proc[p].tx)
    /\ SetRow(Cur(p), record_reveal(rows[Cur(p)], proc[p].tx.id))
    /\ NextRound(p, "reveals")
    /\ UNCHANGED <<chainVars, files, cursor, lock, envVars, nextSalt, faults>>

RevealPhase(p) == \/ BeginChainPhases(p)
                  \/ \E r \in Rounds : RevealClock(p, r)
                  \/ RevealRecover(p)
                  \/ RevealMissed(p)
                  \/ RevealSigned(p)
                  \/ RevealSignerFails(p)
                  \/ RevealBroadcast(p)
                  \/ RevealLowBalance(p)
                  \/ RevealConfirmed(p)

-----------------------------------------------------------------------------
(* The announcement walk.                                                  *)

\* watcher.poll(): the announcements after the cursor, as of this request.
BeginWalk(p) ==
    /\ At(p, "reveals")
    /\ proc[p].todo = {}
    /\ proc' = [proc EXCEPT ![p].pc = "walk", ![p].upto = Len(feed)]
    /\ UNCHANGED <<chainVars, storeVars, lock, envVars, nextSalt, faults>>

WalkRecord(p) ==
    /\ At(p, "walk")
    /\ cursor < proc[p].upto
    /\ LET a == feed[cursor + 1]
       IN  SetRow(a.round, record_announcement_windows(rows[a.round], a.windows))
    /\ proc' = [proc EXCEPT ![p].pc = "walkAdvance"]
    /\ UNCHANGED <<chainVars, files, cursor, lock, envVars, nextSalt, faults>>

\* advance_cursor, a write of its own.
WalkAdvance(p) ==
    /\ At(p, "walkAdvance")
    /\ cursor' = cursor + 1
    /\ proc' = [proc EXCEPT ![p].pc = "walk"]
    /\ UNCHANGED <<chainVars, rows, files, lock, envVars, nextSalt, faults>>

\* AnnouncementError, also when the service lists no matching round: passed.
WalkReject(p) ==
    /\ At(p, "walk")
    /\ cursor < proc[p].upto
    /\ Adverse("announcement")
    /\ proc' = [proc EXCEPT ![p].pc = "walkAdvance"]
    /\ UNCHANGED <<chainVars, storeVars, lock, envVars, nextSalt>>

\* The walk ends at the polled end, or halts at an announcement it cannot bind
\* while the foundation is unreachable; either way the commit phase follows.
BeginCommits(p) ==
    /\ At(p, "walk")
    /\ \/ /\ cursor >= proc[p].upto
          /\ UNCHANGED faults
       \/ /\ cursor < proc[p].upto
          /\ Adverse("unavailable")
    /\ proc' = [proc EXCEPT ![p] = [IdleLocals EXCEPT
                    !.pc = "commits", !.todo = get_rounds_pending_commit(rows)]]
    /\ UNCHANGED <<chainVars, storeVars, lock, envVars, nextSalt>>

WalkPhase(p) == \/ BeginWalk(p)
                \/ WalkRecord(p)
                \/ WalkAdvance(p)
                \/ WalkReject(p)
                \/ BeginCommits(p)

-----------------------------------------------------------------------------
(* The commit phase.                                                       *)

\* Mutant: the closed window returns there, too.
CommitOutsideWindow(row, time) == \/ time < row.windows.commit_opens
                                  \/ time >= row.windows.commit_closes

\* Only a window that has not opened returns before the scan.
CommitTooEarly(row, time) == time < row.windows.commit_opens

CommitClock(p, r) ==
    /\ At(p, "commits")
    /\ Oldest(p, r)
    /\ proc' = IF \/ rows[r].commit_tx_hash # 0
                  \/ CommitTooEarly(rows[r], now)
               THEN [proc EXCEPT ![p].todo = @ \ {r}]
               ELSE [proc EXCEPT ![p].pc = "commitScan", ![p].cur = r,
                                 ![p].clock = now]
    /\ UNCHANGED <<chainVars, storeVars, lock, envVars, nextSalt, faults>>

\* A commit on chain is recorded only if the stored commitment is that one.
Recoverable(row, onchain) == /\ row.salt # 0
                             /\ row.commitment_hash = onchain
                             /\ row.windows # None

\* The scan precedes the closed-window gate.
CommitRecover(p) ==
    /\ At(p, "commitScan")
    /\ \E e \in MostRecent(Authored("commit", Cur(p))) :
          rows' = IF Recoverable(rows[Cur(p)], e.tx.body)
                  THEN [rows EXCEPT ![Cur(p)] = record_commit_submitted(@, e.tx.id)]
                  ELSE rows
    /\ NextRound(p, "commits")
    /\ UNCHANGED <<chainVars, files, cursor, lock, envVars, nextSalt, faults>>

CommitWindowClosed(p) ==
    /\ At(p, "commitScan")
    /\ Authored("commit", Cur(p)) = {}
    /\ proc[p].clock >= rows[Cur(p)].windows.commit_closes
    /\ NextRound(p, "commits")
    /\ UNCHANGED <<chainVars, storeVars, lock, envVars, nextSalt, faults>>

\* A CommitError isolates the round.
CommitSignerFails(p) ==
    /\ At(p, "commitScan")
    /\ Adverse("signer")
    /\ NextRound(p, "commits")
    /\ UNCHANGED <<chainVars, storeVars, lock, envVars, nextSalt>>

\* A persisted salt is reused, a new one minted only for a first attempt.
\* Mutants: every attempt mints a salt; none does.
SaltAlwaysFresh(row) == nextSalt
SaltNeverMinted(row) == row.salt

SaltFor(row) == IF row.salt # 0 THEN row.salt ELSE nextSalt

\* The commitment is built and signed, and the secret is durable before the
\* broadcast.
CommitPersist(p) ==
    /\ At(p, "commitScan")
    /\ Authored("commit", Cur(p)) = {}
    /\ proc[p].clock < rows[Cur(p)].windows.commit_closes
    /\ LET row  == rows[Cur(p)]
           salt == SaltFor(row)
           body == Commitment(row.output_hashes, salt)
       IN  /\ SetRow(Cur(p), record_commit_pending(row, salt, body, row.windows))
           /\ nextSalt' = IF salt = nextSalt THEN nextSalt + 1 ELSE nextSalt
           /\ proc' = [proc EXCEPT ![p].pc = "commitSend", ![p].body = body]
    /\ UNCHANGED <<chainVars, files, cursor, lock, envVars, faults>>

CommitBroadcast(p) ==
    /\ At(p, "commitSend")
    /\ LET tx == MemoTx("commit", Cur(p), proc[p].body)
       IN  /\ submit_memo(tx)
           /\ proc' = [proc EXCEPT ![p].pc = "commitWait", ![p].tx = tx]
    /\ UNCHANGED <<storeVars, lock, envVars, nextSalt, faults>>

\* Insufficient funds: nothing is sent and the round is skipped.
CommitLowBalance(p) ==
    /\ At(p, "commitSend")
    /\ Adverse("low_balance")
    /\ SetRow(Cur(p), record_commit_skip(rows[Cur(p)]))
    /\ NextRound(p, "commits")
    /\ UNCHANGED <<chainVars, files, cursor, lock, envVars, nextSalt>>

CommitConfirmed(p) ==
    /\ At(p, "commitWait")
    /\ Landed(proc[p].tx)
    /\ SetRow(Cur(p), record_commit_submitted(rows[Cur(p)], proc[p].tx.id))
    /\ NextRound(p, "commits")
    /\ UNCHANGED <<chainVars, files, cursor, lock, envVars, nextSalt, faults>>

EndPass(p) ==
    /\ At(p, "commits")
    /\ proc[p].todo = {}
    /\ Stop(p)
    /\ UNCHANGED <<chainVars, storeVars, envVars, nextSalt, faults>>

\* submit_and_wait gives up on a transaction that expired: a PftlRpcError, which
\* no phase catches.
SubmissionFailed(p) ==
    /\ proc[p].pc \in {"revealWait", "commitWait"}
    /\ proc[p].tx \notin pool
    /\ ~ Landed(proc[p].tx)
    /\ Stop(p)
    /\ UNCHANGED <<chainVars, storeVars, envVars, nextSalt, faults>>

CommitPhase(p) == \/ \E r \in Rounds : CommitClock(p, r)
                  \/ CommitRecover(p)
                  \/ CommitWindowClosed(p)
                  \/ CommitSignerFails(p)
                  \/ CommitPersist(p)
                  \/ CommitBroadcast(p)
                  \/ CommitLowBalance(p)
                  \/ CommitConfirmed(p)
                  \/ SubmissionFailed(p)
                  \/ EndPass(p)

-----------------------------------------------------------------------------
(* What happens around the processes.                                      *)

\* A kill (watchdog, operator, host), or any RPC error: the pass is over.
Crash(p) ==
    /\ ~ At(p, "idle")
    /\ Adverse("crash")
    /\ Stop(p)
    /\ UNCHANGED <<chainVars, storeVars, envVars, nextSalt>>

\* The verification hashes file of a round is lost or unreadable.
LoseHashesFile(r) ==
    /\ files[r] # None
    /\ Adverse("lost_file")
    /\ files' = [files EXCEPT ![r] = None]
    /\ UNCHANGED <<chainVars, rows, cursor, lock, proc, envVars, nextSalt>>

PublishRound ==
    /\ latest < NumRounds
    /\ latest' = latest + 1
    /\ UNCHANGED <<chainVars, storeVars, lock, proc, feed, nextSalt, faults>>

\* The foundation announces a published round's windows, maybe again.
Announce(r, w) ==
    /\ Len(feed) < MaxFeed
    /\ feed' = Append(feed, [round |-> r, windows |-> w])
    /\ UNCHANGED <<chainVars, storeVars, lock, proc, latest, nextSalt, faults>>

Network == /\ \/ /\ Tick
                 /\ UNCHANGED faults
              \/ \E tx \in pool : /\ Land(tx)
                                  /\ UNCHANGED faults
              \/ \E tx \in pool : /\ Expire(tx)
                                  /\ Adverse("expire")
              \/ \E e \in ledger : /\ Bury(e)
                                   /\ Adverse("bury")
           /\ UNCHANGED <<storeVars, lock, proc, envVars, nextSalt>>

Environment == \/ \E p \in Procs : Crash(p)
               \/ \E r \in Rounds : LoseHashesFile(r)
               \/ PublishRound
               \/ \E r \in 1 .. latest, w \in WindowSet : Announce(r, w)
               \/ Network

Pass(p) == ScorePhase(p) \/ RevealPhase(p) \/ WalkPhase(p) \/ CommitPhase(p)

Next == (\E p \in Procs : Pass(p)) \/ Environment

Spec == Init /\ [][Next]_vars

\* The entrypoint starts the next pass when one ends, ledgers keep closing, and
\* what was broadcast does not stay in flight for ever; adverse events are
\* finitely many by MaxFaults.
Fairness == /\ \A p \in Loops : WF_vars(Pass(p))
            /\ WF_vars(Network /\ Tick)
            /\ WF_vars(Network /\ \E tx \in pool : Land(tx))

FairSpec == Spec /\ Fairness
=============================================================================
