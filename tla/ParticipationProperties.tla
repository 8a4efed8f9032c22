----------------------- MODULE ParticipationProperties -----------------------
(***************************************************************************)
(* What must hold of participation passes over one store, and what the     *)
(* repository says of them.                                                *)
(***************************************************************************)
EXTENDS Participation

Broadcast(kind, r) == {t \in sent : t.kind = kind /\ t.round = r}

-----------------------------------------------------------------------------
(* Safety, for any number of passes and one-shots.                         *)

\* No commit leaves the sidecar whose salt the store could lose: every commit
\* ever broadcast is bound to the salt its row holds now, whatever was killed,
\* retried or scored again since (commit.py persists before it broadcasts).
EveryCommitOpenable ==
    \A r \in Rounds : \A t \in Broadcast("commit", r) :
        /\ rows[r].salt # 0
        /\ \E o \in Outputs : t.body = Commitment(o, rows[r].salt)

\* A row with a commit hash names a validated commit of the round, and the
\* stored commitment is the one on chain, recovered or confirmed alike.
CommitHashIsOnChain ==
    \A r \in Rounds : rows[r].commit_tx_hash # 0 =>
        \E e \in ledger : /\ e.tx.kind = "commit"
                          /\ e.tx.round = r
                          /\ e.tx.id = rows[r].commit_tx_hash
                          /\ e.tx.body = rows[r].commitment_hash

\* Whatever reveal ever left the sidecar opens a commit already validated.
EveryRevealOpensACommit ==
    \A r \in Rounds : \A t \in Broadcast("reveal", r) :
        \E e \in ledger : e.tx.kind = "commit" /\ e.tx.round = r /\ e.tx.body = t.body

\* No output is disclosed while commits are still taken: a reveal is broadcast
\* only at or after the opening of the row's reveal window, and no later
\* announcement moves that window.
NoEarlyReveal ==
    \A r \in Rounds : \A t \in Broadcast("reveal", r) :
        /\ rows[r].windows # None
        /\ rows[r].windows.reveal_opens <= t.sent_at
        /\ rows[r].windows.commit_closes <= t.sent_at

\* A salt once persisted is the round's salt for good, and the windows of that
\* moment are its windows: a repeated announcement cannot move them.
SealedRowIsFixed ==
    [][\A r \in Rounds : rows[r].salt # 0 =>
          /\ rows'[r].salt = rows[r].salt
          /\ rows'[r].windows = rows[r].windows]_vars

-----------------------------------------------------------------------------
(* Safety, while no round is scored again after its commit was sent: for   *)
(* one loop whose commits are funded and whose hashes files stay.          *)

\* commit.py, _recoverable: a found commit advances the round only if local
\* state can still build the matching reveal.  Nothing clears the salt, so what
\* can break it is the outputs of another scoring.
CommittedIsRevealable ==
    \A r \in get_rounds_pending_reveal(rows) : Opens(rows[r])

\* Everything that ever leaves the sidecar for a round, first commits, commits
\* sent again by a later pass and reveals, carries one body: no pass equivocates
\* over what an earlier one already put on the network (commit.py reuses the
\* persisted salt; what it is mixed with must not have changed).
OneBodyPerRound ==
    \A t, u \in sent : t.round = u.round => t.body = u.body

\* A round that committed keeps its place in the lifecycle: neither a deferred
\* comparison nor a repeated score takes it back below COMMITTED, from where no
\* later pass would reveal it (score.py says so of the comparison).
NoDowngrade ==
    [][\A r \in Rounds : rows[r].sidecar_state \in {"COMMITTED", "REVEALED"} =>
          rows'[r].sidecar_state \in {"COMMITTED", "REVEALED"}]_vars

-----------------------------------------------------------------------------
(* Liveness, for one loop process whose faults are finitely many.          *)

\* A commit that was validated is known to the store in the end, also when the
\* pass that sent it was killed and the next one comes after the window closed.
LandedCommitIsRecovered ==
    \A r \in Rounds : (\E e \in ledger : e.tx.kind = "commit" /\ e.tx.round = r)
                      ~> rows[r].commit_tx_hash # 0

\* A committed round is revealed, or its miss recorded.
CommittedRoundSettles ==
    \A r \in Rounds : rows[r].sidecar_state = "COMMITTED"
                      ~> rows[r].reveal_tx_hash # 0 \/ rows[r].reveal_missed

-----------------------------------------------------------------------------
(* The detailed system implements sealed rounds.                           *)

ASSUME UnsealedAssumption == None \notin [body : Commitments, opens : Nat]

SealOf(r) == IF rows[r].commit_tx_hash = 0
             THEN None
             ELSE [body  |-> rows[r].commitment_hash,
                   opens |-> rows[r].windows.reveal_opens]

Opened == {<<t.round, t.body>> : t \in {s \in sent : s.kind = "reveal"}}

Sealed == INSTANCE SealedRound
          WITH Round <- Rounds, Body <- Commitments, Unsealed <- None,
               time <- now, sealed <- [r \in Rounds |-> SealOf(r)],
               opened <- Opened

\* A round is sealed once, opened only with the sealed body and not before its
\* time (SealedRound), whatever the passes do.
ImplementsSealedRound == Sealed!Init /\ [][Sealed!Next]_(Sealed!vars)

-----------------------------------------------------------------------------
(* The inductive invariant of the safety properties above.                 *)

ScorePcs == {"hashes", "deferred", "fetch", "infer", "record"}

RevealPcs == {"revealScan", "revealSend", "revealWait"}

CommitPcs == {"commitScan", "commitSend", "commitWait"}

\* What each program counter says of the process's own locals.
LocalOK(l) ==
    /\ l.pc \in ScorePcs \cup RevealPcs \cup CommitPcs => l.cur \in Rounds
    /\ l.pc \in {"deferred", "record"} => l.seen_outputs \in Outputs
    /\ l.pc \in {"hashes", "deferred"} => l.seen_state \in ScoredOrFurther
    /\ l.pc \in {"revealWait", "commitWait"} =>
          /\ l.tx \in Transactions
          /\ l.tx.round = l.cur
          /\ l.tx.body = l.body
          /\ l.tx.kind = IF l.pc = "commitWait" THEN "commit" ELSE "reveal"
    /\ l.upto <= Len(feed)

\* A round the commit phase may work on.
Committable(r) == /\ rows[r].sidecar_state = "SCORED"
                  /\ rows[r].commit_tx_hash = 0
                  /\ rows[r].windows # None
                  /\ rows[r].output_hashes # None

\* What the holder of the lock knows of the rows: nobody changed them since.
HolderOK(l) ==
    /\ l.pc \in RevealPcs =>
          /\ rows[l.cur].commit_tx_hash # 0
          /\ rows[l.cur].commitment_hash = l.body
          /\ rows[l.cur].windows.reveal_opens <= l.clock
          /\ l.clock <= now
    /\ l.pc \in CommitPcs \cup {"commits"} => \A r \in l.todo : Committable(r)
    /\ l.pc \in CommitPcs => Committable(l.cur)
    /\ l.pc \in {"commitSend", "commitWait"} =>
          /\ rows[l.cur].salt # 0
          /\ rows[l.cur].commitment_hash = l.body

ProcsOK == \A p \in Procs : /\ proc[p].pc \in LockedPcs <=> lock = p
                            /\ LocalOK(proc[p])
                            /\ HolderOK(proc[p])

\* A salt, the commitment it is in and the windows come together, and a commit
\* hash never comes without them.
RowOK(row) ==
    /\ row.salt # 0 <=> row.commitment_hash # None
    /\ row.salt # 0 => /\ row.windows # None
                       /\ \E o \in Outputs : row.commitment_hash = Commitment(o, row.salt)
    /\ row.commit_tx_hash # 0 => row.salt # 0
    /\ row.sidecar_state = "ABSENT" => row.salt = 0

RowsOK == \A r \in Rounds : RowOK(rows[r])

\* A reveal was sent for a committed row, in that row's window.
RevealOK(t) == /\ rows[t.round].commit_tx_hash # 0
               /\ t.body = rows[t.round].commitment_hash
               /\ rows[t.round].windows.reveal_opens <= t.sent_at

SentOK == /\ \A t \in sent : t.kind = "reveal" => RevealOK(t)
          /\ pool \subseteq sent
          /\ \A e \in ledger : e.tx \in sent

IInv == /\ TypeOK
        /\ ProcsOK
        /\ RowsOK
        /\ SentOK
        /\ EveryCommitOpenable
        /\ CommitHashIsOnChain
-----------------------------------------------------------------------------
(* And of the two that need a lone process, whose hashes files stay: what  *)
(* it scored last is what it commits to.                                   *)

\* A scored round has the outputs of its file; what is committed has a salt.
RowKept(row, file) ==
    /\ row.sidecar_state \in ScoredOrFurther => row.output_hashes = file /\ file # None
    /\ row.sidecar_state \in {"COMMITTED", "REVEALED"} => row.salt # 0

\* If commits are funded: once there is a salt, the outputs stay those it hides.
RowBound(row) ==
    row.salt # 0 => /\ row.sidecar_state \in ScoredOrFurther
                    /\ row.commitment_hash = Commitment(row.output_hashes, row.salt)

\* What a process read before it took its step is still so.
ReadingOK(l) ==
    /\ l.pc \in {"hashes", "deferred"} => rows[l.cur].sidecar_state = l.seen_state
    /\ l.pc \in {"fetch", "infer", "record"} =>
          rows[l.cur].sidecar_state \notin ScoredOrFurther
    /\ l.pc \in {"deferred", "record"} => l.seen_outputs = files[l.cur]
    /\ l.pc \in RevealPcs \cup {"reveals"} =>
          \A r \in l.todo : rows[r].sidecar_state = "COMMITTED"
    /\ l.pc \in RevealPcs => rows[l.cur].sidecar_state = "COMMITTED"

RowsKept == \A r \in Rounds : /\ RowKept(rows[r], files[r])
                              /\ "low_balance" \notin Adversities => RowBound(rows[r])

\* A commit found on chain is one that recovery accepts (commit.py, _recoverable),
\* so a pass after a kill never meets a commit of its own it must leave alone.
LandedIsRecoverable ==
    \A e \in ledger : e.tx.kind = "commit" =>
        Recoverable(rows[e.tx.round], e.tx.body)

\* If commits are funded: what is on its way, or was, is what its row commits to.
BodiesStand == \A t \in sent : t.body = rows[t.round].commitment_hash

LoneInv == RowsKept /\ \A p \in Procs : ReadingOK(proc[p])

=============================================================================
