------------------------- MODULE Participation_proofs -------------------------
(***************************************************************************)
(* Proofs about Participation for every value of its constants: any number *)
(* of loops and one-shots on one store, any rounds, windows and faults.    *)
(***************************************************************************)
EXTENDS ParticipationProperties, TLAPS

-----------------------------------------------------------------------------
(* What the shared steps do to the processes.                              *)

Others(p) == \A q \in Procs : q # p => proc'[q] = proc[q]

\* Stop resets one process and gives back its lock.
LEMMA StopEffect ==
    ASSUME TypeOK, NEW p \in Procs, Stop(p)
    PROVE  /\ proc' \in [Procs -> Locals]
           /\ proc'[p] = IdleLocals
           /\ Others(p)
           /\ lock' \in Procs \cup {None}
           /\ lock' = IF lock = p THEN None ELSE lock
<1>1. IdleLocals \in Locals
  BY DEF IdleLocals, Locals, Pcs, LockedPcs, States
<1> QED
  BY <1>1 DEF TypeOK, Stop, Others

\* AfterScore leaves a process idle or before its chain phases.
LEMMA AfterScoreEffect ==
    ASSUME TypeOK, NEW p \in Procs, AfterScore(p)
    PROVE  /\ proc' \in [Procs -> Locals]
           /\ proc'[p].pc \in {"chain", "idle"}
           /\ proc'[p].upto = 0
           /\ Others(p)
<1> DEFINE new == [IdleLocals EXCEPT !.pc = IF p \in Loops THEN "chain" ELSE "idle"]
<1>1. new \in Locals /\ new.pc \in {"chain", "idle"} /\ new.upto = 0
  BY DEF IdleLocals, Locals, Pcs, LockedPcs, States
<1>2. proc' = [proc EXCEPT ![p] = new]
  BY DEF AfterScore
<1> QED
  BY <1>1, <1>2 DEF TypeOK, Others

\* NextRound takes the round in hand off the list and forgets the rest.
LEMMA NextRoundEffect ==
    ASSUME TypeOK, NEW p \in Procs, NEW phase \in {"reveals", "commits"},
           NextRound(p, phase)
    PROVE  /\ proc' \in [Procs -> Locals]
           /\ proc'[p].pc = phase
           /\ proc'[p].todo = proc[p].todo \ {Cur(p)}
           /\ proc'[p].upto = 0
           /\ Others(p)
<1> DEFINE new == [IdleLocals EXCEPT !.pc = phase, !.todo = proc[p].todo \ {Cur(p)}]
<1>1. proc[p].todo \in SUBSET Rounds
  BY DEF TypeOK, Locals
<1>2. /\ new \in Locals /\ new.pc = phase /\ new.upto = 0
      /\ new.todo = proc[p].todo \ {Cur(p)}
  BY <1>1 DEF IdleLocals, Locals, Pcs, LockedPcs, States
<1>3. proc' = [proc EXCEPT ![p] = new]
  BY DEF NextRound
<1> QED
  BY <1>2, <1>3 DEF TypeOK, Others

-----------------------------------------------------------------------------
(* What a step owes the invariant, beyond types.                           *)

\* A step that leaves rows and chain history alone keeps all that relates them.
LEMMA StoreFrame ==
    ASSUME IInv, UNCHANGED <<rows, sent, pool, ledger>>
    PROVE  RowsOK' /\ SentOK' /\ EveryCommitOpenable' /\ CommitHashIsOnChain'
BY DEF IInv, RowsOK, SentOK, EveryCommitOpenable, CommitHashIsOnChain, RowOK,
       RevealOK, Broadcast

\* Only p moves, and if it changes rows nobody else holds the lock: the other
\* processes keep their part of the invariant.
LEMMA ProcsFrame ==
    ASSUME IInv, NEW p \in Procs, Others(p),
           rows' = rows \/ lock \in {None, p},
           now' = now, feed' = feed,
           \A q \in Procs : q # p => (lock' = q <=> lock = q),
           proc'[p].pc \in LockedPcs <=> lock' = p,
           LocalOK(proc[p])', HolderOK(proc[p])'
    PROVE  ProcsOK'
<1> SUFFICES ASSUME NEW q \in Procs, q # p
             PROVE  /\ (proc[q].pc \in LockedPcs <=> lock = q)'
                    /\ LocalOK(proc[q])'
                    /\ HolderOK(proc[q])'
  BY DEF ProcsOK
<1>1. proc'[q] = proc[q]
  BY DEF Others
<1>2. /\ proc[q].pc \in LockedPcs <=> lock = q
      /\ LocalOK(proc[q])
      /\ HolderOK(proc[q])
  BY DEF IInv, ProcsOK
<1>3. LocalOK(proc[q])'
  BY <1>1, <1>2 DEF LocalOK
<1>4. HolderOK(proc[q])'
  <2>1. CASE rows' = rows
    BY <2>1, <1>1, <1>2 DEF HolderOK, Committable
  <2>2. CASE lock \in {None, p}
    <3>1. proc'[q].pc \notin LockedPcs
      BY <2>2, <1>1, <1>2, ProcsAssumption DEF Procs
    <3> QED
      BY <3>1 DEF HolderOK, LockedPcs, RevealPcs, CommitPcs
  <2> QED
    BY <2>1, <2>2
<1> QED
  BY <1>1, <1>2, <1>3, <1>4

\* A write that leaves salt, commitment and commit hash alone, and the windows
\* once there is a salt; it never takes a row away.
KeepsSeal(row, new) ==
    /\ new \in Row
    /\ new.salt = row.salt
    /\ new.commitment_hash = row.commitment_hash
    /\ new.commit_tx_hash = row.commit_tx_hash
    /\ row.salt # 0 => new.windows = row.windows
    /\ new.sidecar_state = "ABSENT" => row.sidecar_state = "ABSENT"

LEMMA RowFrame ==
    ASSUME IInv, NEW r \in Rounds, NEW new, KeepsSeal(rows[r], new),
           rows' = [rows EXCEPT ![r] = new], UNCHANGED <<sent, pool, ledger>>
    PROVE  /\ rows' \in [Rounds -> Row]
           /\ RowsOK' /\ SentOK' /\ EveryCommitOpenable' /\ CommitHashIsOnChain'
<1> USE DEF KeepsSeal
<1>1. rows \in [Rounds -> Row] /\ sent \subseteq Transactions
  BY DEF IInv, TypeOK, LedgerTypeOK
<1>2. rows' \in [Rounds -> Row]
  BY <1>1
<1>3. \A q \in Rounds : KeepsSeal(rows[q], rows'[q])
  BY <1>1
<1>4. RowsOK'
  BY <1>3 DEF IInv, RowsOK, RowOK
<1>5. SentOK'
  <2>1. \A t \in sent : t.round \in Rounds
    BY <1>1 DEF Transactions
  <2>2. ASSUME NEW t \in sent, t.kind = "reveal" PROVE RevealOK(t)'
    <3>1. RevealOK(t) /\ RowOK(rows[t.round]) /\ t.round \in Rounds
      BY <2>1, <2>2 DEF IInv, SentOK, RowsOK
    <3> QED
      BY <3>1, <1>3 DEF RevealOK, RowOK
  <2> QED
    BY <2>2 DEF IInv, SentOK
<1>6. EveryCommitOpenable'
  BY <1>3 DEF IInv, EveryCommitOpenable, Broadcast
<1>7. CommitHashIsOnChain'
  BY <1>3 DEF IInv, CommitHashIsOnChain
<1> QED
  BY <1>2, <1>4, <1>5, <1>6, <1>7

\* The writes of state.py that are of that kind.
LEMMA InputVerifiedKeeps ==
    ASSUME NEW row \in Row
    PROVE  KeepsSeal(row, record_input_verified(row))
BY DEF record_input_verified, KeepsSeal, Row, States, InputReadyStates

LEMMA ScoreKeeps ==
    ASSUME NEW row \in Row, NEW state \in States \ {"ABSENT"},
           NEW outputs \in Outputs \cup {None}, NEW compared \in BOOLEAN
    PROVE  KeepsSeal(row, record_score(row, state, outputs, compared))
<1> DEFINE new == record_score(row, state, outputs, compared)
<1>1. new \in Row
  BY DEF record_score, Row
<1>2. new.salt = row.salt /\ new.windows = row.windows /\ new.sidecar_state = state
  BY DEF record_score, Row
<1>3. /\ new.commitment_hash = row.commitment_hash
      /\ new.commit_tx_hash = row.commit_tx_hash
  BY DEF record_score, Row
<1> QED
  BY <1>1, <1>2, <1>3 DEF KeepsSeal

\* A row without a salt may still take new windows; a sealed one may not.
LEMMA AnnouncementKeeps ==
    ASSUME NEW row \in Row, RowOK(row), NEW w \in WindowSet
    PROVE  KeepsSeal(row, record_announcement_windows(row, w))
<1> DEFINE moved == [row EXCEPT !.windows = w]
           born  == [row EXCEPT !.sidecar_state = "DISCOVERED", !.windows = w]
<1> USE DEF KeepsSeal, Row, States
<1>1. CASE row.sidecar_state = "ABSENT"
  <2>1. row.salt = 0
    BY <1>1 DEF RowOK
  <2>2. KeepsSeal(row, born)
    BY <2>1
  <2> QED
    BY <1>1, <2>2 DEF record_announcement_windows
<1>2. CASE row.sidecar_state # "ABSENT" /\ WindowsFrozen(row)
  BY <1>2 DEF record_announcement_windows
<1>3. CASE row.sidecar_state # "ABSENT" /\ ~ WindowsFrozen(row)
  <2>1. row.salt = 0
    BY <1>3 DEF WindowsFrozen
  <2>2. KeepsSeal(row, moved)
    BY <2>1
  <2> QED
    BY <1>3, <2>2 DEF record_announcement_windows
<1> QED
  BY <1>1, <1>2, <1>3

LEMMA SkipKeeps ==
    ASSUME NEW row \in Row
    PROVE  KeepsSeal(row, record_commit_skip(row))
BY DEF record_commit_skip, KeepsSeal, Row, States, InputReadyStates

LEMMA RevealKeeps ==
    ASSUME NEW row \in Row, NEW tx \in Nat
    PROVE  KeepsSeal(row, record_reveal(row, tx))
BY DEF record_reveal, KeepsSeal, Row, States, InputReadyStates

LEMMA RevealMissKeeps ==
    ASSUME NEW row \in Row
    PROVE  KeepsSeal(row, record_reveal_miss(row))
BY DEF record_reveal_miss, KeepsSeal, Row

-----------------------------------------------------------------------------
(* The three kinds of steps, as far as the properties tell them apart.     *)

\* A row on its way to its seal: no commit hash yet, and a salt once there stays.
Sealing(row, new) == /\ row.commit_tx_hash = 0
                     /\ new.windows = row.windows
                     /\ row.salt # 0 => new.salt = row.salt

\* At most one row is written.
RowMove == /\ UNCHANGED <<now, sent>>
           /\ \/ rows' = rows
              \/ \E r \in Rounds :
                    /\ KeepsSeal(rows[r], rows'[r]) \/ Sealing(rows[r], rows'[r])
                    /\ \A q \in Rounds : q # r => rows'[q] = rows[q]

TimeMove == /\ UNCHANGED <<rows, sent>>
            /\ now' > now

SendMove == /\ UNCHANGED <<rows, now>>
            /\ \E tx \in Transactions : /\ sent' = sent \cup {tx}
                                        /\ tx.sent_at = now
                                        /\ tx.body = rows[tx.round].commitment_hash
                                        /\ tx.kind = "reveal" => RevealOK(tx)

Move == RowMove \/ TimeMove \/ SendMove

-----------------------------------------------------------------------------
(* Steps that leave the table and the chain alone.                         *)

\* One process moves, and maybe the lock with it.
LEMMA QuietStep ==
    ASSUME IInv, NEW p \in Procs, Others(p),
           UNCHANGED <<chainVars, storeVars, envVars>>,
           proc' \in [Procs -> Locals], nextSalt' = nextSalt,
           faults' = faults \/ faults' = faults + 1,
           \/ lock' = lock
           \/ lock' = IF lock = p THEN None ELSE lock
           \/ lock = None /\ lock' = p,
           proc'[p].pc \in LockedPcs <=> lock' = p,
           LocalOK(proc[p])', HolderOK(proc[p])'
    PROVE  IInv' /\ Move
<1> USE DEF chainVars, storeVars, envVars
<1>1. TypeOK'
  BY DEF IInv, TypeOK, LedgerTypeOK
<1>2. ProcsOK'
  <2>1. \A q \in Procs : q # p => (lock' = q <=> lock = q)
    BY ProcsAssumption
  <2> QED
    BY <2>1, ProcsFrame
<1>3. RowsOK' /\ SentOK' /\ EveryCommitOpenable' /\ CommitHashIsOnChain'
  BY StoreFrame
<1>4. Move
  BY DEF Move, RowMove
<1> QED
  BY <1>1, <1>2, <1>3, <1>4 DEF IInv

\* A process outside its locked and its scoring steps owes nothing.
LEMMA OutsideOK ==
    ASSUME IInv, NEW p \in Procs, proc'[p].pc \in {"idle", "chain"},
           proc'[p].upto = 0, feed' = feed
    PROVE  proc'[p].pc \notin LockedPcs /\ LocalOK(proc[p])' /\ HolderOK(proc[p])'
<1>1. Len(feed) \in Nat
  BY DEF IInv, TypeOK
<1> QED
  BY <1>1 DEF LocalOK, HolderOK, LockedPcs, ScorePcs, RevealPcs, CommitPcs

LEMMA AfterScoreQuiet ==
    ASSUME IInv, NEW p \in Procs, AfterScore(p), proc[p].pc \notin LockedPcs,
           UNCHANGED <<chainVars, storeVars, lock, envVars, nextSalt>>,
           faults' = faults \/ faults' = faults + 1
    PROVE  IInv' /\ Move
<1>1. /\ proc' \in [Procs -> Locals] /\ proc'[p].pc \in {"chain", "idle"}
      /\ proc'[p].upto = 0 /\ Others(p)
  BY AfterScoreEffect DEF IInv
<1>2. proc'[p].pc \notin LockedPcs /\ LocalOK(proc[p])' /\ HolderOK(proc[p])'
  BY <1>1, OutsideOK DEF envVars
<1>3. lock # p
  BY DEF IInv, ProcsOK
<1> QED
  BY <1>1, <1>2, <1>3, QuietStep

LEMMA StopQuiet ==
    ASSUME IInv, NEW p \in Procs, Stop(p),
           UNCHANGED <<chainVars, storeVars, envVars, nextSalt>>,
           faults' = faults \/ faults' = faults + 1
    PROVE  IInv' /\ Move
<1>1. /\ proc' \in [Procs -> Locals] /\ proc'[p] = IdleLocals /\ Others(p)
      /\ lock' = IF lock = p THEN None ELSE lock
  BY StopEffect DEF IInv
<1>2. proc'[p].pc = "idle" /\ proc'[p].upto = 0
  BY <1>1 DEF IdleLocals
<1>3. proc'[p].pc \notin LockedPcs /\ LocalOK(proc[p])' /\ HolderOK(proc[p])'
  BY <1>2, OutsideOK DEF envVars
<1>4. lock' # p
  BY <1>1, ProcsAssumption
<1> QED
  BY <1>1, <1>3, <1>4, QuietStep

LEMMA NextRoundLocal ==
    ASSUME IInv, NEW p \in Procs, NEW phase \in {"reveals", "commits"},
           NextRound(p, phase), feed' = feed
    PROVE  LocalOK(proc[p])' /\ proc'[p].pc \in LockedPcs
<1>1. proc'[p].pc = phase /\ proc'[p].upto = 0
  BY NextRoundEffect DEF IInv
<1>2. Len(feed) \in Nat
  BY DEF IInv, TypeOK
<1> QED
  BY <1>1, <1>2 DEF LocalOK, LockedPcs, ScorePcs, RevealPcs, CommitPcs

LEMMA RevealsNextQuiet ==
    ASSUME IInv, NEW p \in Procs, NextRound(p, "reveals"), lock = p,
           UNCHANGED <<chainVars, storeVars, lock, envVars, nextSalt>>,
           faults' = faults \/ faults' = faults + 1
    PROVE  IInv' /\ Move
<1>1. proc' \in [Procs -> Locals] /\ proc'[p].pc = "reveals" /\ Others(p)
  BY NextRoundEffect DEF IInv
<1>2. LocalOK(proc[p])' /\ proc'[p].pc \in LockedPcs
  BY NextRoundLocal DEF envVars
<1>3. HolderOK(proc[p])'
  BY <1>1 DEF HolderOK, RevealPcs, CommitPcs
<1> QED
  BY <1>1, <1>2, <1>3, QuietStep

LEMMA CommitsNextQuiet ==
    ASSUME IInv, NEW p \in Procs, NextRound(p, "commits"), proc[p].pc \in CommitPcs,
           UNCHANGED <<chainVars, storeVars, lock, envVars, nextSalt>>,
           faults' = faults \/ faults' = faults + 1
    PROVE  IInv' /\ Move
<1>1. /\ proc' \in [Procs -> Locals] /\ proc'[p].pc = "commits" /\ Others(p)
      /\ proc'[p].todo = proc[p].todo \ {Cur(p)}
  BY NextRoundEffect DEF IInv
<1>2. LocalOK(proc[p])' /\ proc'[p].pc \in LockedPcs
  BY NextRoundLocal DEF envVars
<1>3. HolderOK(proc[p])'
  <2>1. \A r \in proc[p].todo : Committable(r)
    BY DEF IInv, ProcsOK, HolderOK
  <2> QED
    BY <1>1, <2>1 DEF HolderOK, Committable, RevealPcs, CommitPcs, storeVars
<1>4. lock = p
  BY DEF IInv, ProcsOK, CommitPcs, LockedPcs
<1> QED
  BY <1>1, <1>2, <1>3, <1>4, QuietStep

-----------------------------------------------------------------------------
(* Steps that write a row and keep its seal.                               *)

LEMMA KeepingStep ==
    ASSUME IInv, NEW p \in Procs, Others(p), lock \in {None, p},
           NEW r \in Rounds, NEW new, KeepsSeal(rows[r], new), SetRow(r, new),
           UNCHANGED <<chainVars, files, cursor, lock, envVars, nextSalt>>,
           faults' = faults \/ faults' = faults + 1,
           proc' \in [Procs -> Locals],
           proc'[p].pc \in LockedPcs <=> lock = p,
           LocalOK(proc[p])', HolderOK(proc[p])'
    PROVE  IInv' /\ Move
<1> USE DEF chainVars, envVars
<1>1. /\ rows' \in [Rounds -> Row]
      /\ RowsOK' /\ SentOK' /\ EveryCommitOpenable' /\ CommitHashIsOnChain'
  BY RowFrame DEF SetRow
<1>2. TypeOK'
  BY <1>1 DEF IInv, TypeOK, LedgerTypeOK
<1>3. ProcsOK'
  BY ProcsFrame
<1>4. Move
  <2>1. rows'[r] = new /\ \A q \in Rounds : q # r => rows'[q] = rows[q]
    BY DEF SetRow, IInv, TypeOK
  <2> QED
    BY <2>1 DEF Move, RowMove
<1> QED
  BY <1>1, <1>2, <1>3, <1>4 DEF IInv

\* The last write of score_round, by a process outside the lock.
LEMMA AfterScoreKeeping ==
    ASSUME IInv, NEW p \in Procs, AfterScore(p), proc[p].pc \notin LockedPcs, lock = None,
           NEW r \in Rounds, NEW new, KeepsSeal(rows[r], new), SetRow(r, new),
           UNCHANGED <<chainVars, files, cursor, lock, envVars, nextSalt>>,
           faults' = faults \/ faults' = faults + 1
    PROVE  IInv' /\ Move
<1>1. /\ proc' \in [Procs -> Locals] /\ proc'[p].pc \in {"chain", "idle"}
      /\ proc'[p].upto = 0 /\ Others(p)
  BY AfterScoreEffect DEF IInv
<1>2. proc'[p].pc \notin LockedPcs /\ LocalOK(proc[p])' /\ HolderOK(proc[p])'
  BY <1>1, OutsideOK DEF envVars
<1>3. lock # p
  BY ProcsAssumption
<1> QED
  BY <1>1, <1>2, <1>3, KeepingStep

\* The last write of a round's reveal, by the holder of the lock.
LEMMA RevealsNextKeeping ==
    ASSUME IInv, NEW p \in Procs, NextRound(p, "reveals"), lock = p,
           NEW r \in Rounds, NEW new, KeepsSeal(rows[r], new), SetRow(r, new),
           UNCHANGED <<chainVars, files, cursor, lock, envVars, nextSalt, faults>>
    PROVE  IInv' /\ Move
<1>1. proc' \in [Procs -> Locals] /\ proc'[p].pc = "reveals" /\ Others(p)
  BY NextRoundEffect DEF IInv
<1>2. LocalOK(proc[p])' /\ proc'[p].pc \in LockedPcs
  BY NextRoundLocal DEF envVars
<1>3. HolderOK(proc[p])'
  BY <1>1 DEF HolderOK, RevealPcs, CommitPcs
<1> QED
  BY <1>1, <1>2, <1>3, KeepingStep

-----------------------------------------------------------------------------
(* The score phase.                                                        *)

LEMMA ScorableRounds ==
    ASSUME TypeOK, NEW p \in Procs, NEW r \in Scorable(p)
    PROVE  r \in Rounds
<1>1. latest \in 0 .. NumRounds /\ NumRounds \in Nat
  BY RoundsAssumption DEF TypeOK
<1>2. CASE p \in Loops
  BY <1>1, <1>2 DEF Scorable, Rounds
<1>3. CASE p \notin Loops
  BY <1>1, <1>3 DEF Scorable, Rounds
<1> QED
  BY <1>2, <1>3

LEMMA ReadRoundStep ==
    ASSUME IInv, NEW p \in Procs, NEW r \in Scorable(p), ReadRound(p, r)
    PROVE  IInv' /\ Move
<1> DEFINE row == rows[r]
           scored == row.sidecar_state \in ScoredOrFurther
           new == [IdleLocals EXCEPT
                    !.pc = IF scored THEN "hashes" ELSE "fetch",
                    !.cur = r,
                    !.seen_state = row.sidecar_state,
                    !.deadline = Deadline(row)]
<1>1. r \in Rounds /\ row \in Row
  BY ScorableRounds DEF IInv, TypeOK
<1>2. proc[p].pc = "idle" /\ proc[p].pc \notin LockedPcs
  BY DEF ReadRound, At, LockedPcs
<1>3. CASE scored /\ row.compared
  <2>1. AfterScore(p)
    BY <1>3 DEF ReadRound
  <2> QED
    BY <1>2, <2>1, AfterScoreQuiet DEF ReadRound
<1>4. CASE ~ (scored /\ row.compared)
  <2>1. proc' = [proc EXCEPT ![p] = new]
    BY <1>4 DEF ReadRound
  <2>2. Deadline(row) \in Nat \cup {None}
    BY <1>1, WindowsAssumption DEF Deadline, Row, WindowRecords
  <2>3. row.sidecar_state \in States
    BY <1>1 DEF Row
  <2>4. new \in Locals
    BY <1>1, <2>2, <2>3 DEF IdleLocals, Locals, Pcs
  <2>5. /\ new.pc \in {"hashes", "fetch"} /\ new.cur = r /\ new.upto = 0
        /\ new.pc = "hashes" => new.seen_state \in ScoredOrFurther
    BY <1>1 DEF IdleLocals
  <2> HIDE DEF new
  <2>6. proc' \in [Procs -> Locals] /\ proc'[p] = new /\ Others(p)
    BY <2>1, <2>4 DEF IInv, TypeOK, Others
  <2>7. new.pc \notin LockedPcs
    BY <2>5 DEF LockedPcs
  <2>8. LocalOK(proc[p])'
    <3>1. Len(feed) \in Nat /\ feed' = feed
      BY DEF IInv, TypeOK, ReadRound, envVars
    <3> QED
      BY <1>1, <2>5, <2>6, <3>1 DEF LocalOK, ScorePcs, RevealPcs, CommitPcs
  <2>9. HolderOK(proc[p])'
    BY <2>5, <2>6 DEF HolderOK, RevealPcs, CommitPcs
  <2>10. lock = None /\ lock # p
    BY ProcsAssumption DEF ReadRound
  <2> QED
    BY <2>6, <2>7, <2>8, <2>9, <2>10, QuietStep DEF ReadRound
<1> QED
  BY <1>3, <1>4

\* The row a scoring process has in hand.
LEMMA ScoringRow ==
    ASSUME IInv, NEW p \in Procs, proc[p].pc \in ScorePcs
    PROVE  /\ Cur(p) \in Rounds
           /\ rows[Cur(p)] \in Row
           /\ RowOK(rows[Cur(p)])
           /\ proc[p].pc \notin LockedPcs
BY DEF IInv, ProcsOK, LocalOK, RowsOK, TypeOK, Cur, ScorePcs, LockedPcs

LEMMA ReadHashesStep ==
    ASSUME IInv, NEW p \in Procs, ReadHashes(p)
    PROVE  IInv' /\ Move
<1> DEFINE pc  == IF files[Cur(p)] # None THEN "deferred" ELSE "fetch"
           new == [proc[p] EXCEPT !.pc = pc, !.seen_outputs = files[Cur(p)]]
<1>1. proc[p].pc = "hashes" /\ proc[p].pc \in ScorePcs /\ proc[p] \in Locals
  BY DEF ReadHashes, At, ScorePcs, IInv, TypeOK
<1>2. LocalOK(proc[p]) /\ files[Cur(p)] \in Outputs \cup {None} /\ Cur(p) \in Rounds
  BY <1>1, ScoringRow DEF IInv, ProcsOK, TypeOK
<1>3. /\ new \in Locals /\ new.pc = pc /\ new.cur = Cur(p) /\ new.upto = proc[p].upto
      /\ new.seen_outputs = files[Cur(p)] /\ new.seen_state = proc[p].seen_state
  BY <1>1, <1>2 DEF Locals, Pcs, Cur
<1>4. proc' = [proc EXCEPT ![p] = new]
  BY DEF ReadHashes, IInv, TypeOK
<1> HIDE DEF new
<1>5. proc' \in [Procs -> Locals] /\ proc'[p] = new /\ Others(p)
  BY <1>3, <1>4 DEF IInv, TypeOK, Others
<1>6. new.pc \in {"deferred", "fetch"}
  BY <1>3
<1>7. LocalOK(proc[p])'
  <2>1. feed' = feed
    BY DEF ReadHashes, envVars
  <2> QED
    BY <1>1, <1>2, <1>3, <1>5, <2>1 DEF LocalOK, ScorePcs, RevealPcs, CommitPcs
<1>8. HolderOK(proc[p])' /\ proc'[p].pc \notin LockedPcs
  BY <1>5, <1>6 DEF HolderOK, RevealPcs, CommitPcs, LockedPcs
<1>9. lock # p
  BY <1>1, ScoringRow DEF IInv, ProcsOK
<1> QED
  BY <1>5, <1>7, <1>8, <1>9, QuietStep DEF ReadHashes

LEMMA RecordDeferredStep ==
    ASSUME IInv, NEW p \in Procs, RecordDeferred(p)
    PROVE  IInv' /\ Move
<1> DEFINE new == record_score(rows[Cur(p)], ComparisonState(p),
                               proc[p].seen_outputs, TRUE)
<1>1. proc[p].pc = "deferred" /\ proc[p].pc \in ScorePcs
  BY DEF RecordDeferred, At, ScorePcs
<1>2. /\ ComparisonState(p) \in States \ {"ABSENT"}
      /\ proc[p].seen_outputs \in Outputs \cup {None}
  BY <1>1 DEF IInv, ProcsOK, LocalOK, ComparisonState, ScoredOrFurther, States,
              InputReadyStates
<1>3. KeepsSeal(rows[Cur(p)], new)
  BY <1>1, <1>2, ScoringRow, ScoreKeeps
<1> HIDE DEF new
<1> QED
  BY <1>1, <1>3, ScoringRow, AfterScoreKeeping DEF RecordDeferred, new

LEMMA RecordInputVerifiedStep ==
    ASSUME IInv, NEW p \in Procs, RecordInputVerified(p)
    PROVE  IInv' /\ Move
<1> DEFINE new == [proc[p] EXCEPT !.pc = "infer"]
<1>1. proc[p].pc = "fetch" /\ proc[p].pc \in ScorePcs /\ proc[p] \in Locals
  BY DEF RecordInputVerified, At, ScorePcs, IInv, TypeOK
<1>2. KeepsSeal(rows[Cur(p)], record_input_verified(rows[Cur(p)]))
  BY <1>1, ScoringRow, InputVerifiedKeeps
<1>3. new \in Locals /\ new.pc = "infer" /\ new.cur = Cur(p) /\ new.upto = proc[p].upto
  BY <1>1 DEF Locals, Pcs, Cur
<1>4. proc' = [proc EXCEPT ![p] = new]
  BY DEF RecordInputVerified, IInv, TypeOK
<1> HIDE DEF new
<1>5. proc' \in [Procs -> Locals] /\ proc'[p] = new /\ Others(p)
  BY <1>3, <1>4 DEF IInv, TypeOK, Others
<1>6. LocalOK(proc[p])'
  <2>1. LocalOK(proc[p]) /\ feed' = feed
    BY DEF IInv, ProcsOK, RecordInputVerified, envVars
  <2> QED
    BY <1>1, <1>3, <1>5, <2>1, ScoringRow DEF LocalOK, ScorePcs, RevealPcs, CommitPcs
<1>7. HolderOK(proc[p])' /\ proc'[p].pc \notin LockedPcs
  BY <1>3, <1>5 DEF HolderOK, RevealPcs, CommitPcs, LockedPcs
<1>8. lock = None /\ lock # p
  BY ProcsAssumption DEF RecordInputVerified
<1> QED
  BY <1>1, <1>2, <1>5, <1>6, <1>7, <1>8, ScoringRow, KeepingStep DEF RecordInputVerified

LEMMA RecordScoringFailureStep ==
    ASSUME IInv, NEW p \in Procs, RecordScoringFailure(p)
    PROVE  IInv' /\ Move
<1>1. proc[p].pc \in ScorePcs /\ (faults' = faults \/ faults' = faults + 1)
  BY DEF RecordScoringFailure, At, ScorePcs, Adverse
<1>2. PICK state \in {"SCORING_FAILED", "SKIPPED"} :
         SetRow(Cur(p), record_score(rows[Cur(p)], state, None, FALSE))
  BY DEF RecordScoringFailure
<1>3. KeepsSeal(rows[Cur(p)], record_score(rows[Cur(p)], state, None, FALSE))
  <2>1. state \in States \ {"ABSENT"}
    BY DEF States, InputReadyStates
  <2> QED
    BY <1>1, <2>1, ScoringRow, ScoreKeeps
<1> QED
  BY <1>1, <1>2, <1>3, ScoringRow, AfterScoreKeeping DEF RecordScoringFailure

LEMMA RecordScoredStep ==
    ASSUME IInv, NEW p \in Procs, RecordScored(p)
    PROVE  IInv' /\ Move
<1>1. proc[p].pc = "record" /\ proc[p].pc \in ScorePcs
  BY DEF RecordScored, At, ScorePcs
<1>2. PICK compared \in BOOLEAN :
         SetRow(Cur(p), record_score(rows[Cur(p)], "SCORED",
                                     proc[p].seen_outputs, compared))
  BY DEF RecordScored
<1>3. KeepsSeal(rows[Cur(p)], record_score(rows[Cur(p)], "SCORED",
                                           proc[p].seen_outputs, compared))
  <2>1. "SCORED" \in States \ {"ABSENT"}
    BY DEF States, InputReadyStates
  <2>2. proc[p].seen_outputs \in Outputs \cup {None}
    BY <1>1 DEF IInv, ProcsOK, LocalOK
  <2> QED
    BY <1>1, <2>1, <2>2, ScoringRow, ScoreKeeps
<1> QED
  BY <1>1, <1>2, <1>3, ScoringRow, AfterScoreKeeping DEF RecordScored

\* The hashes file is no part of the invariant but its type.
LEMMA PersistHashesStep ==
    ASSUME IInv, NEW p \in Procs, PersistHashes(p)
    PROVE  IInv' /\ Move
<1>1. proc[p].pc = "infer" /\ proc[p].pc \in ScorePcs /\ proc[p] \in Locals
  BY DEF PersistHashes, At, ScorePcs, IInv, TypeOK
<1>2. PICK o \in Outputs :
         /\ files' = [files EXCEPT ![Cur(p)] = o]
         /\ proc' = [proc EXCEPT ![p].pc = "record", ![p].seen_outputs = o]
  BY DEF PersistHashes
<1> DEFINE new == [proc[p] EXCEPT !.pc = "record", !.seen_outputs = o]
<1>3. /\ new \in Locals /\ new.pc = "record" /\ new.cur = Cur(p)
      /\ new.upto = proc[p].upto /\ new.seen_outputs = o
  BY <1>1 DEF Locals, Pcs, Cur
<1>4. proc' = [proc EXCEPT ![p] = new]
  BY <1>2 DEF IInv, TypeOK
<1> HIDE DEF new
<1>5. proc' \in [Procs -> Locals] /\ proc'[p] = new /\ Others(p)
  BY <1>3, <1>4 DEF IInv, TypeOK, Others
<1>6. UNCHANGED <<chainVars, rows, cursor, lock, envVars, nextSalt, faults>>
  BY DEF PersistHashes
<1>7. TypeOK'
  BY <1>2, <1>5, <1>6, ScoringRow DEF IInv, TypeOK, LedgerTypeOK, chainVars, envVars
<1>8. LocalOK(proc[p])'
  <2>1. LocalOK(proc[p]) /\ feed' = feed
    BY <1>6 DEF IInv, ProcsOK, envVars
  <2> QED
    BY <1>1, <1>3, <1>5, <2>1, ScoringRow DEF LocalOK, ScorePcs, RevealPcs, CommitPcs
<1>9. HolderOK(proc[p])' /\ proc'[p].pc \notin LockedPcs
  BY <1>3, <1>5 DEF HolderOK, RevealPcs, CommitPcs, LockedPcs
<1>10. lock # p
  BY <1>1, ScoringRow DEF IInv, ProcsOK
<1>11. ProcsOK'
  BY <1>5, <1>6, <1>8, <1>9, <1>10, ProcsFrame DEF chainVars, envVars
<1>12. RowsOK' /\ SentOK' /\ EveryCommitOpenable' /\ CommitHashIsOnChain'
  BY <1>6, StoreFrame DEF chainVars
<1>13. Move
  BY <1>6 DEF Move, RowMove, chainVars
<1> QED
  BY <1>7, <1>11, <1>12, <1>13 DEF IInv

LEMMA ScorePhaseStep ==
    ASSUME IInv, NEW p \in Procs, ScorePhase(p)
    PROVE  IInv' /\ Move
<1>1. CASE NoEligibleRound(p)
  BY <1>1, AfterScoreQuiet DEF NoEligibleRound, At, LockedPcs
<1>2. CASE \E r \in Scorable(p) : ReadRound(p, r)
  BY <1>2, ReadRoundStep
<1>3. CASE ComparisonPending(p)
  BY <1>3, AfterScoreQuiet DEF ComparisonPending, At, LockedPcs
<1>4. CASE RecordDeferred(p)
  BY <1>4, RecordDeferredStep
<1>5. CASE ScoringUnavailable(p)
  BY <1>5, AfterScoreQuiet DEF ScoringUnavailable, At, LockedPcs, Adverse
<1>6. CASE RecordInputVerified(p)
  BY <1>6, RecordInputVerifiedStep
<1>7. CASE RecordScoringFailure(p)
  BY <1>7, RecordScoringFailureStep
<1>8. CASE ScoringRaises(p)
  BY <1>8, StopQuiet DEF ScoringRaises, Adverse
<1>9. CASE PersistHashes(p)
  BY <1>9, PersistHashesStep
<1>10. CASE RecordScored(p)
  BY <1>10, RecordScoredStep
<1>11. CASE LockHeld(p)
  BY <1>11, StopQuiet DEF LockHeld
<1>12. CASE ReadHashes(p)
  BY <1>12, ReadHashesStep
<1> QED
  BY <1>1, <1>2, <1>3, <1>4, <1>5, <1>6, <1>7, <1>8, <1>9, <1>10, <1>11, <1>12
     DEF ScorePhase

-----------------------------------------------------------------------------
(* The reveal phase and the walk.                                          *)

\* What the holder of the lock may rely on.
LEMMA Holding ==
    ASSUME IInv, NEW p \in Procs, proc[p].pc \in LockedPcs
    PROVE  /\ lock = p
           /\ proc[p] \in Locals
           /\ LocalOK(proc[p])
           /\ HolderOK(proc[p])
           /\ Len(feed) \in Nat
BY DEF IInv, ProcsOK, TypeOK

\* A step of the holder that only changes its locals.
LEMMA LocalStep ==
    ASSUME IInv, NEW p \in Procs, proc[p].pc \in LockedPcs,
           NEW new \in Locals, proc' = [proc EXCEPT ![p] = new], new.pc \in LockedPcs,
           LocalOK(new), HolderOK(new),
           UNCHANGED <<chainVars, storeVars, lock, envVars, nextSalt>>,
           faults' = faults \/ faults' = faults + 1
    PROVE  IInv' /\ Move
<1>1. proc' \in [Procs -> Locals] /\ proc'[p] = new /\ Others(p)
  BY DEF IInv, TypeOK, Others
<1>2. LocalOK(proc[p])'
  BY <1>1 DEF LocalOK, envVars
<1>3. HolderOK(proc[p])'
  BY <1>1 DEF HolderOK, Committable, storeVars, chainVars
<1>4. lock = p
  BY Holding
<1> QED
  BY <1>1, <1>2, <1>3, <1>4, QuietStep

LEMMA BeginChainPhasesStep ==
    ASSUME IInv, NEW p \in Procs, BeginChainPhases(p)
    PROVE  IInv' /\ Move
<1> DEFINE new == [IdleLocals EXCEPT !.pc = "reveals",
                                     !.todo = get_rounds_pending_reveal(rows)]
<1>1. get_rounds_pending_reveal(rows) \in SUBSET Rounds
  BY DEF get_rounds_pending_reveal
<1>2. new \in Locals /\ new.pc = "reveals" /\ new.upto = 0
  BY <1>1 DEF IdleLocals, Locals, Pcs, LockedPcs, States
<1>3. proc' = [proc EXCEPT ![p] = new]
  BY DEF BeginChainPhases
<1> HIDE DEF new
<1>4. proc' \in [Procs -> Locals] /\ proc'[p] = new /\ Others(p)
  BY <1>2, <1>3 DEF IInv, TypeOK, Others
<1>5. LocalOK(proc[p])' /\ HolderOK(proc[p])' /\ proc'[p].pc \in LockedPcs
  <2>1. Len(feed) \in Nat /\ feed' = feed
    BY DEF IInv, TypeOK, BeginChainPhases, envVars
  <2> QED
    BY <1>2, <1>4, <2>1 DEF LocalOK, HolderOK, LockedPcs, ScorePcs, RevealPcs, CommitPcs
<1> QED
  BY <1>4, <1>5, QuietStep DEF BeginChainPhases

LEMMA RevealClockStep ==
    ASSUME IInv, NEW p \in Procs, NEW r \in Rounds, RevealClock(p, r)
    PROVE  IInv' /\ Move
<1> DEFINE row  == rows[r]
           pass == [proc[p] EXCEPT !.todo = @ \ {r}]
           scan == [proc[p] EXCEPT !.pc = "revealScan", !.cur = r, !.clock = now,
                                   !.body = Commitment(row.output_hashes, row.salt)]
           later == \/ row.commit_tx_hash = 0
                    \/ row.reveal_tx_hash # 0
                    \/ ~ Opens(row)
                    \/ RevealTooEarly(row, now)
<1>1. proc[p].pc = "reveals" /\ proc[p].pc \in LockedPcs
  BY DEF RevealClock, At, LockedPcs
<1>2. /\ proc[p] \in Locals /\ LocalOK(proc[p]) /\ row \in Row /\ now \in Nat
      /\ RowOK(row)
  BY <1>1, Holding DEF IInv, TypeOK, LedgerTypeOK, RowsOK
<1>3. CASE later
  <2>1. pass \in Locals /\ pass.pc = "reveals" /\ pass.upto = proc[p].upto
    BY <1>1, <1>2 DEF Locals
  <2>2. proc' = [proc EXCEPT ![p] = pass]
    BY <1>3 DEF RevealClock, IInv, TypeOK
  <2> HIDE DEF pass
  <2>3. LocalOK(pass) /\ HolderOK(pass) /\ pass.pc \in LockedPcs
    BY <1>2, <2>1 DEF LocalOK, HolderOK, ScorePcs, RevealPcs, CommitPcs, LockedPcs
  <2> QED
    BY <1>1, <2>1, <2>2, <2>3, LocalStep DEF RevealClock
<1>4. CASE ~ later
  <2>1. /\ row.commit_tx_hash # 0 /\ row.salt # 0 /\ row.windows # None
        /\ row.commitment_hash = Commitment(row.output_hashes, row.salt)
        /\ row.commitment_hash \in Commitments
    BY <1>2, <1>4 DEF Opens, RowOK, Row
  <2>2. row.windows.reveal_opens \in Nat /\ row.windows.reveal_opens <= now
    BY <1>2, <1>4, <2>1, WindowsAssumption DEF RevealTooEarly, Row, WindowRecords
  <2>3. /\ scan \in Locals /\ scan.pc = "revealScan" /\ scan.upto = proc[p].upto
        /\ scan.cur = r /\ scan.clock = now /\ scan.body = row.commitment_hash
    BY <1>2, <2>1 DEF Locals, Pcs, LockedPcs
  <2>4. proc' = [proc EXCEPT ![p] = scan]
    BY <1>4 DEF RevealClock, IInv, TypeOK
  <2> HIDE DEF scan
  <2>5. LocalOK(scan) /\ scan.pc \in LockedPcs
    BY <1>2, <2>3 DEF LocalOK, ScorePcs, RevealPcs, CommitPcs, LockedPcs
  <2>6. HolderOK(scan)
    BY <1>2, <2>1, <2>2, <2>3 DEF HolderOK, RevealPcs, CommitPcs
  <2> QED
    BY <1>1, <2>3, <2>4, <2>5, <2>6, LocalStep DEF RevealClock
<1> QED
  BY <1>3, <1>4

\* The round a revealing process has in hand.
LEMMA RevealingRow ==
    ASSUME IInv, NEW p \in Procs, proc[p].pc \in RevealPcs
    PROVE  /\ Cur(p) \in Rounds
           /\ rows[Cur(p)] \in Row
           /\ lock = p
           /\ proc[p].pc \in LockedPcs
<1>1. proc[p].pc \in LockedPcs
  BY DEF RevealPcs, LockedPcs
<1> QED
  BY <1>1, Holding DEF LocalOK, Cur, IInv, TypeOK

LEMMA RevealRecoverStep ==
    ASSUME IInv, NEW p \in Procs, RevealRecover(p)
    PROVE  IInv' /\ Move
<1>1. proc[p].pc \in RevealPcs
  BY DEF RevealRecover, At, RevealPcs
<1>2. PICK e \in MostRecent(Authored("reveal", Cur(p))) :
         SetRow(Cur(p), record_reveal(rows[Cur(p)], e.tx.id))
  BY DEF RevealRecover
<1>3. e.tx.id \in Nat
  BY DEF IInv, TypeOK, LedgerTypeOK, MostRecent, Authored, Entries, Transactions
<1>4. KeepsSeal(rows[Cur(p)], record_reveal(rows[Cur(p)], e.tx.id))
  BY <1>1, <1>3, RevealingRow, RevealKeeps
<1> QED
  BY <1>1, <1>2, <1>4, RevealingRow, RevealsNextKeeping DEF RevealRecover

LEMMA RevealMissedStep ==
    ASSUME IInv, NEW p \in Procs, RevealMissed(p)
    PROVE  IInv' /\ Move
<1>1. proc[p].pc \in RevealPcs
  BY DEF RevealMissed, At, RevealPcs
<1>2. KeepsSeal(rows[Cur(p)], record_reveal_miss(rows[Cur(p)]))
  BY <1>1, RevealingRow, RevealMissKeeps
<1> QED
  BY <1>1, <1>2, RevealingRow, RevealsNextKeeping DEF RevealMissed

LEMMA RevealSignedStep ==
    ASSUME IInv, NEW p \in Procs, RevealSigned(p)
    PROVE  IInv' /\ Move
<1> DEFINE new == [proc[p] EXCEPT !.pc = "revealSend"]
<1>1. proc[p].pc = "revealScan" /\ proc[p].pc \in RevealPcs
  BY DEF RevealSigned, At, RevealPcs
<1>2. proc[p] \in Locals /\ LocalOK(proc[p]) /\ HolderOK(proc[p])
  BY <1>1, RevealingRow, Holding
<1>3. /\ new \in Locals /\ new.pc = "revealSend" /\ new.upto = proc[p].upto
      /\ new.cur = proc[p].cur /\ new.clock = proc[p].clock /\ new.body = proc[p].body
  BY <1>2 DEF Locals, Pcs, LockedPcs
<1>4. proc' = [proc EXCEPT ![p] = new]
  BY DEF RevealSigned, IInv, TypeOK
<1> HIDE DEF new
<1>5. LocalOK(new) /\ HolderOK(new) /\ new.pc \in LockedPcs
  BY <1>1, <1>2, <1>3 DEF LocalOK, HolderOK, ScorePcs, RevealPcs, CommitPcs, LockedPcs
<1> QED
  BY <1>1, <1>3, <1>4, <1>5, RevealingRow, LocalStep DEF RevealSigned

LEMMA RevealConfirmedStep ==
    ASSUME IInv, NEW p \in Procs, RevealConfirmed(p)
    PROVE  IInv' /\ Move
<1>1. proc[p].pc = "revealWait" /\ proc[p].pc \in RevealPcs
  BY DEF RevealConfirmed, At, RevealPcs
<1>2. proc[p].tx.id \in Nat
  BY <1>1, RevealingRow, Holding DEF LocalOK, Transactions
<1>3. KeepsSeal(rows[Cur(p)], record_reveal(rows[Cur(p)], proc[p].tx.id))
  BY <1>1, <1>2, RevealingRow, RevealKeeps
<1> QED
  BY <1>1, <1>3, RevealingRow, RevealsNextKeeping DEF RevealConfirmed

\* submit_memo: the process goes on to await tx, which joins what was sent.
LEMMA BroadcastStep ==
    ASSUME IInv, NEW p \in Procs, NEW kind \in {"commit", "reveal"},
           NEW wait \in {"commitWait", "revealWait"},
           wait = "commitWait" <=> kind = "commit",
           proc[p].pc = IF kind = "commit" THEN "commitSend" ELSE "revealSend",
           proc[p].body \in Commitments,
           proc[p].body = rows[Cur(p)].commitment_hash,
           NEW tx, tx = MemoTx(kind, Cur(p), proc[p].body),
           submit_memo(tx),
           proc' = [proc EXCEPT ![p].pc = wait, ![p].tx = tx],
           UNCHANGED <<storeVars, lock, envVars, nextSalt, faults>>,
           kind = "reveal" => RevealOK(tx),
           kind = "commit" => /\ rows[Cur(p)].salt # 0
                              /\ \E o \in Outputs :
                                    tx.body = Commitment(o, rows[Cur(p)].salt)
    PROVE  IInv' /\ Move
<1> USE DEF storeVars, envVars
<1> DEFINE new == [proc[p] EXCEPT !.pc = wait, !.tx = tx]
<1>1. /\ lock = p /\ proc[p] \in Locals /\ LocalOK(proc[p]) /\ HolderOK(proc[p])
      /\ proc[p].pc \in CommitPcs \cup RevealPcs
      /\ kind = "commit" => proc[p].pc \in CommitPcs
      /\ kind = "reveal" => proc[p].pc \in RevealPcs
  BY Holding DEF LockedPcs, RevealPcs, CommitPcs
<1>2. Cur(p) \in Rounds
  BY <1>1 DEF LocalOK, Cur
<1>3. /\ tx \in Transactions /\ tx.kind = kind /\ tx.round = Cur(p)
      /\ tx.body = proc[p].body /\ tx.sent_at = now
  BY <1>2 DEF MemoTx, Transactions, IInv, TypeOK, LedgerTypeOK
<1>4. /\ new \in Locals /\ new.pc = wait /\ new.tx = tx /\ new.cur = Cur(p)
      /\ new.body = proc[p].body /\ new.upto = proc[p].upto
      /\ new.clock = proc[p].clock /\ new.todo = proc[p].todo
  BY <1>1, <1>3 DEF Locals, Pcs, LockedPcs, Cur
<1>5. proc' = [proc EXCEPT ![p] = new]
  BY DEF IInv, TypeOK
<1> HIDE DEF new
<1>6. proc' \in [Procs -> Locals] /\ proc'[p] = new /\ Others(p)
  BY <1>4, <1>5 DEF IInv, TypeOK, Others
<1>7. /\ sent' = sent \cup {tx} /\ pool' = pool \cup {tx} /\ nextTx' = nextTx + 1
      /\ now' = now /\ ledger' = ledger /\ buried' = buried
  BY DEF submit_memo
<1>8. TypeOK'
  BY <1>3, <1>6, <1>7 DEF IInv, TypeOK, LedgerTypeOK
<1>9. LocalOK(proc[p])'
  BY <1>1, <1>2, <1>3, <1>4, <1>6 DEF LocalOK, Cur, ScorePcs, RevealPcs, CommitPcs
<1>10. HolderOK(proc[p])' /\ proc'[p].pc \in LockedPcs
  BY <1>1, <1>4, <1>6, <1>7
     DEF HolderOK, Committable, Cur, RevealPcs, CommitPcs, LockedPcs
<1>11. ProcsOK'
  BY <1>1, <1>6, <1>7, <1>9, <1>10, ProcsFrame
<1>12. RowsOK'
  BY DEF IInv, RowsOK, RowOK
<1>13. SentOK'
  BY <1>3, <1>7 DEF IInv, SentOK, RevealOK
<1>14. EveryCommitOpenable'
  BY <1>3, <1>7 DEF IInv, EveryCommitOpenable, Broadcast
<1>15. CommitHashIsOnChain'
  BY <1>7 DEF IInv, CommitHashIsOnChain
<1>16. Move
  BY <1>3, <1>7 DEF Move, SendMove
<1> QED
  BY <1>8, <1>11, <1>12, <1>13, <1>14, <1>15, <1>16 DEF IInv

LEMMA RevealBroadcastStep ==
    ASSUME IInv, NEW p \in Procs, RevealBroadcast(p)
    PROVE  IInv' /\ Move
<1> DEFINE tx  == MemoTx("reveal", Cur(p), proc[p].body)
           row == rows[Cur(p)]
<1>1. proc[p].pc = "revealSend" /\ proc[p].pc \in RevealPcs
  BY DEF RevealBroadcast, At, RevealPcs
<1>2. /\ Cur(p) \in Rounds /\ row \in Row /\ RowOK(row)
      /\ proc[p] \in Locals /\ HolderOK(proc[p])
  BY <1>1, RevealingRow, Holding DEF IInv, RowsOK
<1>3. /\ row.commit_tx_hash # 0 /\ row.commitment_hash = proc[p].body
      /\ row.windows.reveal_opens <= proc[p].clock /\ proc[p].clock <= now
  BY <1>1, <1>2 DEF HolderOK, Cur
<1>4. row.windows \in WindowSet /\ row.commitment_hash \in Commitments
  BY <1>2, <1>3 DEF RowOK, Row
<1>5. RevealOK(tx)
  <2>1. row.windows.reveal_opens \in Nat /\ proc[p].clock \in Nat /\ now \in Nat
    BY <1>2, <1>4, WindowsAssumption DEF WindowRecords, Locals, IInv, TypeOK, LedgerTypeOK
  <2>2. /\ tx.round = Cur(p) /\ tx.body = proc[p].body /\ tx.sent_at = now
    BY DEF MemoTx
  <2> QED
    BY <1>3, <2>1, <2>2 DEF RevealOK
<1>6. /\ submit_memo(tx)
      /\ proc' = [proc EXCEPT ![p].pc = "revealWait", ![p].tx = tx]
      /\ UNCHANGED <<storeVars, lock, envVars, nextSalt, faults>>
  BY DEF RevealBroadcast
<1>7. proc[p].body \in Commitments
  BY <1>3, <1>4
<1> QED
  BY <1>1, <1>3, <1>5, <1>6, <1>7, BroadcastStep

LEMMA SubmissionFailedStep ==
    ASSUME IInv, NEW p \in Procs, SubmissionFailed(p)
    PROVE  IInv' /\ Move
BY StopQuiet DEF SubmissionFailed

LEMMA RevealPhaseStep ==
    ASSUME IInv, NEW p \in Procs, RevealPhase(p)
    PROVE  IInv' /\ Move
<1>1. CASE BeginChainPhases(p)
  BY <1>1, BeginChainPhasesStep
<1>2. CASE \E r \in Rounds : RevealClock(p, r)
  BY <1>2, RevealClockStep
<1>3. CASE RevealRecover(p)
  BY <1>3, RevealRecoverStep
<1>4. CASE RevealMissed(p)
  BY <1>4, RevealMissedStep
<1>5. CASE RevealSigned(p)
  BY <1>5, RevealSignedStep
<1>6. CASE RevealSignerFails(p)
  BY <1>6, StopQuiet DEF RevealSignerFails, Adverse
<1>7. CASE RevealBroadcast(p)
  BY <1>7, RevealBroadcastStep
<1>8. CASE RevealLowBalance(p)
  <2>1. lock = p
    BY <1>8, RevealingRow DEF RevealLowBalance, At, RevealPcs
  <2> QED
    BY <1>8, <2>1, RevealsNextQuiet DEF RevealLowBalance, Adverse
<1>9. CASE RevealConfirmed(p)
  BY <1>9, RevealConfirmedStep
<1> QED
  BY <1>1, <1>2, <1>3, <1>4, <1>5, <1>6, <1>7, <1>8, <1>9 DEF RevealPhase

-----------------------------------------------------------------------------
(* The walk.                                                               *)

\* The walk moves between program counters that owe nothing but the poll's end.
LEMMA WalkLocal ==
    ASSUME NEW l \in Locals, l.pc \in {"walk", "walkAdvance", "reveals"},
           l.upto <= Len(feed)
    PROVE  LocalOK(l) /\ HolderOK(l) /\ l.pc \in LockedPcs
BY DEF LocalOK, HolderOK, ScorePcs, RevealPcs, CommitPcs, LockedPcs

LEMMA BeginWalkStep ==
    ASSUME IInv, NEW p \in Procs, BeginWalk(p)
    PROVE  IInv' /\ Move
<1> DEFINE new == [proc[p] EXCEPT !.pc = "walk", !.upto = Len(feed)]
<1>1. proc[p].pc \in LockedPcs
  BY DEF BeginWalk, At, LockedPcs
<1>2. proc[p] \in Locals /\ Len(feed) \in Nat
  BY <1>1, Holding
<1>3. new \in Locals /\ new.pc = "walk" /\ new.upto = Len(feed)
  BY <1>2 DEF Locals, Pcs, LockedPcs
<1>4. proc' = [proc EXCEPT ![p] = new]
  BY DEF BeginWalk, IInv, TypeOK
<1> HIDE DEF new
<1>5. LocalOK(new) /\ HolderOK(new) /\ new.pc \in LockedPcs
  BY <1>2, <1>3, WalkLocal
<1> QED
  BY <1>1, <1>3, <1>4, <1>5, LocalStep DEF BeginWalk

LEMMA WalkRejectStep ==
    ASSUME IInv, NEW p \in Procs, WalkReject(p)
    PROVE  IInv' /\ Move
<1> DEFINE new == [proc[p] EXCEPT !.pc = "walkAdvance"]
<1>1. proc[p].pc \in LockedPcs
  BY DEF WalkReject, At, LockedPcs
<1>2. proc[p] \in Locals /\ LocalOK(proc[p])
  BY <1>1, Holding
<1>3. new \in Locals /\ new.pc = "walkAdvance" /\ new.upto = proc[p].upto
  BY <1>2 DEF Locals, Pcs, LockedPcs
<1>4. proc' = [proc EXCEPT ![p] = new]
  BY DEF WalkReject, IInv, TypeOK
<1> HIDE DEF new
<1>5. LocalOK(new) /\ HolderOK(new) /\ new.pc \in LockedPcs
  BY <1>2, <1>3, WalkLocal DEF LocalOK
<1> QED
  BY <1>1, <1>3, <1>4, <1>5, LocalStep DEF WalkReject, Adverse

\* The announcement read is one of the feed: the poll's end does not pass it.
LEMMA WalkRecordStep ==
    ASSUME IInv, NEW p \in Procs, WalkRecord(p)
    PROVE  IInv' /\ Move
<1> DEFINE a   == feed[cursor + 1]
           new == [proc[p] EXCEPT !.pc = "walkAdvance"]
           row == record_announcement_windows(rows[a.round], a.windows)
<1>1. proc[p].pc \in LockedPcs
  BY DEF WalkRecord, At, LockedPcs
<1>2. proc[p] \in Locals /\ LocalOK(proc[p]) /\ Len(feed) \in Nat /\ lock = p
  BY <1>1, Holding
<1>3. a \in Announcements
  <2>1. cursor \in Nat /\ feed \in Seq(Announcements) /\ cursor < proc[p].upto
    BY DEF IInv, TypeOK, WalkRecord
  <2>2. proc[p].upto <= Len(feed) /\ proc[p].upto \in Nat
    BY <1>2 DEF LocalOK, Locals
  <2>3. cursor + 1 \in 1 .. Len(feed)
    BY <1>2, <2>1, <2>2
  <2> QED
    BY <2>1, <2>3
<1>4. a.round \in Rounds /\ a.windows \in WindowSet
  BY <1>3 DEF Announcements
<1>5. rows[a.round] \in Row /\ RowOK(rows[a.round])
  BY <1>4 DEF IInv, TypeOK, RowsOK
<1>6. KeepsSeal(rows[a.round], row)
  BY <1>4, <1>5, AnnouncementKeeps
<1>7. SetRow(a.round, row)
  BY DEF WalkRecord
<1>8. new \in Locals /\ new.pc = "walkAdvance" /\ new.upto = proc[p].upto
  BY <1>2 DEF Locals, Pcs, LockedPcs
<1>9. proc' = [proc EXCEPT ![p] = new]
  BY DEF WalkRecord, IInv, TypeOK
<1> HIDE DEF new, a, row
<1>10. proc' \in [Procs -> Locals] /\ proc'[p] = new /\ Others(p)
  BY <1>8, <1>9 DEF IInv, TypeOK, Others
<1>11. LocalOK(proc[p])' /\ HolderOK(proc[p])' /\ proc'[p].pc \in LockedPcs
  <2>1. feed' = feed /\ new.upto <= Len(feed)
    BY <1>2, <1>8 DEF WalkRecord, envVars, LocalOK
  <2> QED
    BY <1>8, <1>10, <2>1
       DEF LocalOK, HolderOK, ScorePcs, RevealPcs, CommitPcs, LockedPcs
<1> QED
  BY <1>2, <1>4, <1>6, <1>7, <1>10, <1>11, KeepingStep DEF WalkRecord

LEMMA WalkAdvanceStep ==
    ASSUME IInv, NEW p \in Procs, WalkAdvance(p)
    PROVE  IInv' /\ Move
<1> DEFINE new == [proc[p] EXCEPT !.pc = "walk"]
<1> USE DEF chainVars, envVars
<1>1. proc[p].pc \in LockedPcs
  BY DEF WalkAdvance, At, LockedPcs
<1>2. proc[p] \in Locals /\ LocalOK(proc[p]) /\ lock = p
  BY <1>1, Holding
<1>3. new \in Locals /\ new.pc = "walk" /\ new.upto = proc[p].upto
  BY <1>2 DEF Locals, Pcs, LockedPcs
<1>4. proc' = [proc EXCEPT ![p] = new] /\ cursor' = cursor + 1
  BY DEF WalkAdvance, IInv, TypeOK
<1>5. UNCHANGED <<chainVars, rows, files, lock, envVars, nextSalt, faults>>
  BY DEF WalkAdvance
<1> HIDE DEF new
<1>6. proc' \in [Procs -> Locals] /\ proc'[p] = new /\ Others(p)
  BY <1>3, <1>4 DEF IInv, TypeOK, Others
<1>7. TypeOK'
  BY <1>4, <1>5, <1>6 DEF IInv, TypeOK, LedgerTypeOK
<1>8. LocalOK(proc[p])' /\ HolderOK(proc[p])' /\ proc'[p].pc \in LockedPcs
  BY <1>2, <1>3, <1>5, <1>6
     DEF LocalOK, HolderOK, ScorePcs, RevealPcs, CommitPcs, LockedPcs
<1>9. ProcsOK'
  BY <1>2, <1>5, <1>6, <1>8, ProcsFrame
<1>10. RowsOK' /\ SentOK' /\ EveryCommitOpenable' /\ CommitHashIsOnChain'
  BY <1>5, StoreFrame
<1>11. Move
  BY <1>5 DEF Move, RowMove
<1> QED
  BY <1>7, <1>9, <1>10, <1>11 DEF IInv

\* The query of the commit phase is what its process then relies on.
LEMMA BeginCommitsStep ==
    ASSUME IInv, NEW p \in Procs, BeginCommits(p)
    PROVE  IInv' /\ Move
<1> DEFINE new == [IdleLocals EXCEPT !.pc = "commits",
                                     !.todo = get_rounds_pending_commit(rows)]
<1>1. proc[p].pc \in LockedPcs
  BY DEF BeginCommits, At, LockedPcs
<1>2. /\ get_rounds_pending_commit(rows) \in SUBSET Rounds
      /\ \A r \in get_rounds_pending_commit(rows) : Committable(r)
  BY DEF get_rounds_pending_commit, Committable
<1>3. /\ new \in Locals /\ new.pc = "commits" /\ new.upto = 0
      /\ new.todo = get_rounds_pending_commit(rows)
  BY <1>2 DEF IdleLocals, Locals, Pcs, LockedPcs, States
<1>4. proc' = [proc EXCEPT ![p] = new]
  BY DEF BeginCommits
<1> HIDE DEF new
<1>5. LocalOK(new) /\ HolderOK(new) /\ new.pc \in LockedPcs
  BY <1>1, <1>2, <1>3, Holding
     DEF LocalOK, HolderOK, ScorePcs, RevealPcs, CommitPcs, LockedPcs
<1> QED
  BY <1>1, <1>3, <1>4, <1>5, LocalStep DEF BeginCommits, Adverse

LEMMA WalkPhaseStep ==
    ASSUME IInv, NEW p \in Procs, WalkPhase(p)
    PROVE  IInv' /\ Move
BY BeginWalkStep, WalkRecordStep, WalkAdvanceStep, WalkRejectStep, BeginCommitsStep
   DEF WalkPhase

-----------------------------------------------------------------------------
(* The commit phase.                                                       *)

LEMMA CommitClockStep ==
    ASSUME IInv, NEW p \in Procs, NEW r \in Rounds, CommitClock(p, r)
    PROVE  IInv' /\ Move
<1> DEFINE pass == [proc[p] EXCEPT !.todo = @ \ {r}]
           scan == [proc[p] EXCEPT !.pc = "commitScan", !.cur = r, !.clock = now]
           later == \/ rows[r].commit_tx_hash # 0
                    \/ CommitTooEarly(rows[r], now)
<1>1. proc[p].pc = "commits" /\ proc[p].pc \in LockedPcs /\ r \in proc[p].todo
  BY DEF CommitClock, At, LockedPcs, Oldest
<1>2. proc[p] \in Locals /\ LocalOK(proc[p]) /\ HolderOK(proc[p]) /\ now \in Nat
  BY <1>1, Holding DEF IInv, TypeOK, LedgerTypeOK
<1>3. \A q \in proc[p].todo : Committable(q)
  BY <1>1, <1>2 DEF HolderOK
<1>4. CASE later
  <2>1. /\ pass \in Locals /\ pass.pc = "commits" /\ pass.upto = proc[p].upto
        /\ pass.todo = proc[p].todo \ {r}
    BY <1>1, <1>2 DEF Locals
  <2>2. proc' = [proc EXCEPT ![p] = pass]
    BY <1>4 DEF CommitClock, IInv, TypeOK
  <2> HIDE DEF pass
  <2>3. LocalOK(pass) /\ pass.pc \in LockedPcs
    BY <1>2, <2>1 DEF LocalOK, ScorePcs, RevealPcs, CommitPcs, LockedPcs
  <2>4. HolderOK(pass)
    BY <1>3, <2>1 DEF HolderOK, RevealPcs, CommitPcs
  <2> QED
    BY <1>1, <2>1, <2>2, <2>3, <2>4, LocalStep DEF CommitClock
<1>5. CASE ~ later
  <2>1. /\ scan \in Locals /\ scan.pc = "commitScan" /\ scan.upto = proc[p].upto
        /\ scan.cur = r /\ scan.todo = proc[p].todo
    BY <1>2 DEF Locals, Pcs, LockedPcs
  <2>2. proc' = [proc EXCEPT ![p] = scan]
    BY <1>5 DEF CommitClock, IInv, TypeOK
  <2> HIDE DEF scan
  <2>3. LocalOK(scan) /\ scan.pc \in LockedPcs
    BY <1>2, <2>1 DEF LocalOK, ScorePcs, RevealPcs, CommitPcs, LockedPcs
  <2>4. HolderOK(scan)
    BY <1>1, <1>3, <2>1 DEF HolderOK, RevealPcs, CommitPcs
  <2> QED
    BY <1>1, <2>1, <2>2, <2>3, <2>4, LocalStep DEF CommitClock
<1> QED
  BY <1>4, <1>5

\* The round a committing process has in hand.
LEMMA CommittingRow ==
    ASSUME IInv, NEW p \in Procs, proc[p].pc \in CommitPcs
    PROVE  /\ Cur(p) \in Rounds
           /\ rows[Cur(p)] \in Row
           /\ RowOK(rows[Cur(p)])
           /\ Committable(Cur(p))
           /\ \A r \in proc[p].todo : Committable(r)
           /\ lock = p
           /\ proc[p].pc \in LockedPcs
<1>1. proc[p].pc \in LockedPcs
  BY DEF CommitPcs, LockedPcs
<1>2. LocalOK(proc[p]) /\ HolderOK(proc[p]) /\ lock = p
  BY <1>1, Holding
<1>3. Cur(p) \in Rounds
  BY <1>2 DEF LocalOK, Cur
<1>4. rows[Cur(p)] \in Row /\ RowOK(rows[Cur(p)])
  BY <1>3 DEF IInv, TypeOK, RowsOK
<1> QED
  BY <1>1, <1>2, <1>3, <1>4 DEF HolderOK, Cur

\* A round's row is bound to a validated commit.
LEMMA SubmittedStep ==
    ASSUME IInv, NEW p \in Procs, proc[p].pc \in CommitPcs, NextRound(p, "commits"),
           NEW e \in ledger, e.tx.kind = "commit", e.tx.round = Cur(p),
           e.tx.body = rows[Cur(p)].commitment_hash,
           SetRow(Cur(p), record_commit_submitted(rows[Cur(p)], e.tx.id)),
           UNCHANGED <<chainVars, files, cursor, lock, envVars, nextSalt, faults>>
    PROVE  IInv' /\ Move
<1> DEFINE r   == Cur(p)
           new == record_commit_submitted(rows[r], e.tx.id)
<1> USE DEF chainVars, envVars
<1>1. /\ r \in Rounds /\ rows[r] \in Row /\ RowOK(rows[r]) /\ Committable(r)
      /\ lock = p
  BY CommittingRow
<1>2. e.tx \in Transactions /\ e.tx.id \in Nat \ {0} /\ e.tx.body \in Commitments
  BY DEF IInv, TypeOK, LedgerTypeOK, Entries, Transactions
<1>3. rows[r].salt # 0
  <2>1. rows[r].commitment_hash # None
    BY <1>2, NoneAssumption
  <2> QED
    BY <1>1, <2>1 DEF RowOK
<1>4. new \in Row
  BY <1>1, <1>2 DEF record_commit_submitted, Row, States, InputReadyStates
<1>5. /\ new.salt = rows[r].salt /\ new.commitment_hash = rows[r].commitment_hash
      /\ new.windows = rows[r].windows /\ new.commit_tx_hash = e.tx.id
      /\ new.sidecar_state = "COMMITTED"
  BY <1>1 DEF record_commit_submitted, Row
<1>6. rows' = [rows EXCEPT ![r] = new] /\ rows \in [Rounds -> Row]
  BY DEF SetRow, IInv, TypeOK
<1> HIDE DEF new, r
<1>7. rows' \in [Rounds -> Row] /\ rows'[r] = new
      /\ \A q \in Rounds : q # r => rows'[q] = rows[q]
  BY <1>1, <1>4, <1>6
<1>8. proc' \in [Procs -> Locals] /\ proc'[p].pc = "commits" /\ Others(p)
      /\ proc'[p].todo = proc[p].todo \ {r}
  BY NextRoundEffect DEF IInv, r
<1>9. TypeOK'
  BY <1>7, <1>8 DEF IInv, TypeOK, LedgerTypeOK
<1>10. ProcsOK'
  <2>1. LocalOK(proc[p])' /\ proc'[p].pc \in LockedPcs
    BY NextRoundLocal
  <2>2. \A q \in proc[p].todo : q \in Rounds /\ Committable(q)
    BY CommittingRow DEF IInv, TypeOK, Locals
  <2>3. HolderOK(proc[p])'
    BY <1>7, <1>8, <2>2 DEF HolderOK, Committable, RevealPcs, CommitPcs
  <2> QED
    BY <1>1, <1>8, <2>1, <2>3, ProcsFrame
<1>11. RowsOK'
  BY <1>1, <1>3, <1>5, <1>7 DEF IInv, RowsOK, RowOK
<1>12. SentOK'
  <2>1. ASSUME NEW t \in sent, t.kind = "reveal" PROVE RevealOK(t)'
    <3>1. RevealOK(t) /\ t.round \in Rounds
      BY <2>1 DEF IInv, SentOK, TypeOK, LedgerTypeOK, Transactions
    <3>2. t.round # r
      BY <1>1, <3>1 DEF RevealOK, Committable
    <3> QED
      BY <1>7, <3>1, <3>2 DEF RevealOK
  <2> QED
    BY <2>1 DEF IInv, SentOK
<1>13. EveryCommitOpenable'
  BY <1>5, <1>7 DEF IInv, EveryCommitOpenable, Broadcast
<1>14. CommitHashIsOnChain'
  BY <1>5, <1>7 DEF IInv, CommitHashIsOnChain, r
<1>15. Move
  BY <1>1, <1>5, <1>7 DEF Move, RowMove, Sealing, Committable
<1> QED
  BY <1>9, <1>10, <1>11, <1>12, <1>13, <1>14, <1>15 DEF IInv

LEMMA CommitRecoverStep ==
    ASSUME IInv, NEW p \in Procs, CommitRecover(p)
    PROVE  IInv' /\ Move
<1> DEFINE row == rows[Cur(p)]
<1>1. proc[p].pc \in CommitPcs
  BY DEF CommitRecover, At, CommitPcs
<1>2. PICK e \in MostRecent(Authored("commit", Cur(p))) :
         rows' = IF Recoverable(row, e.tx.body)
                 THEN [rows EXCEPT ![Cur(p)] = record_commit_submitted(@, e.tx.id)]
                 ELSE rows
  BY DEF CommitRecover
<1>3. e \in ledger /\ e.tx.kind = "commit" /\ e.tx.round = Cur(p)
  BY DEF MostRecent, Authored
<1>4. CASE Recoverable(row, e.tx.body)
  <2>1. SetRow(Cur(p), record_commit_submitted(row, e.tx.id))
    BY <1>1, <1>2, <1>4, CommittingRow DEF SetRow, IInv, TypeOK
  <2> QED
    BY <1>1, <1>3, <1>4, <2>1, SubmittedStep DEF CommitRecover, Recoverable
<1>5. CASE ~ Recoverable(row, e.tx.body)
  BY <1>1, <1>2, <1>5, CommitsNextQuiet DEF CommitRecover, storeVars
<1> QED
  BY <1>4, <1>5

LEMMA CommitConfirmedStep ==
    ASSUME IInv, NEW p \in Procs, CommitConfirmed(p)
    PROVE  IInv' /\ Move
<1>1. proc[p].pc = "commitWait" /\ proc[p].pc \in CommitPcs
  BY DEF CommitConfirmed, At, CommitPcs
<1>2. PICK e \in ledger : e.tx = proc[p].tx
  BY DEF CommitConfirmed, Landed
<1>3. /\ e.tx.kind = "commit" /\ e.tx.round = Cur(p)
      /\ e.tx.body = rows[Cur(p)].commitment_hash
  BY <1>1, <1>2, CommittingRow, Holding DEF LocalOK, HolderOK, Cur
<1> QED
  BY <1>1, <1>2, <1>3, SubmittedStep DEF CommitConfirmed

\* A first attempt mints a salt, every later one reuses it: nothing sent before
\* is orphaned.
LEMMA CommitPersistStep ==
    ASSUME IInv, NEW p \in Procs, CommitPersist(p)
    PROVE  IInv' /\ Move
<1> DEFINE r    == Cur(p)
           row  == rows[r]
           salt == SaltFor(row)
           body == Commitment(row.output_hashes, salt)
           new  == record_commit_pending(row, salt, body, row.windows)
           loc  == [proc[p] EXCEPT !.pc = "commitSend", !.body = body]
<1> USE DEF chainVars, envVars
<1>1. proc[p].pc = "commitScan" /\ proc[p].pc \in CommitPcs
  BY DEF CommitPersist, At, CommitPcs
<1>2. /\ r \in Rounds /\ row \in Row /\ RowOK(row) /\ Committable(r) /\ lock = p
      /\ \A q \in proc[p].todo : Committable(q)
      /\ proc[p] \in Locals /\ LocalOK(proc[p])
  BY <1>1, CommittingRow, Holding
<1>3. /\ salt \in Nat \ {0} /\ (row.salt # 0 => salt = row.salt)
      /\ row.output_hashes \in Outputs /\ row.windows \in WindowSet
  BY <1>2 DEF SaltFor, Row, Committable, IInv, TypeOK
<1>4. body \in Commitments /\ body # None /\ body = Commitment(row.output_hashes, salt)
  BY <1>3, NoneAssumption DEF Commitment, Commitments
<1>5. /\ SetRow(r, new)
      /\ nextSalt' = IF salt = nextSalt THEN nextSalt + 1 ELSE nextSalt
      /\ proc' = [proc EXCEPT ![p].pc = "commitSend", ![p].body = body]
      /\ UNCHANGED <<chainVars, files, cursor, lock, envVars, faults>>
  BY DEF CommitPersist
<1> HIDE DEF body, salt
<1>6. new \in Row
  BY <1>2, <1>3, <1>4 DEF record_commit_pending, Row
<1>7. /\ new.salt = salt /\ new.commitment_hash = body /\ new.windows = row.windows
      /\ new.commit_tx_hash = 0 /\ new.output_hashes = row.output_hashes
      /\ new.sidecar_state = row.sidecar_state
  BY <1>2 DEF record_commit_pending, Row, Committable
<1>8. rows' = [rows EXCEPT ![r] = new] /\ rows \in [Rounds -> Row]
  BY <1>5 DEF SetRow, IInv, TypeOK
<1>9. /\ loc \in Locals /\ loc.pc = "commitSend" /\ loc.body = body /\ loc.cur = r
      /\ loc.todo = proc[p].todo /\ loc.upto = proc[p].upto
  BY <1>2, <1>4 DEF Locals, Pcs, LockedPcs, Cur
<1>10. proc' = [proc EXCEPT ![p] = loc]
  BY <1>5 DEF IInv, TypeOK
<1> HIDE DEF new, loc
<1>11. /\ rows' \in [Rounds -> Row] /\ rows'[r] = new
       /\ \A q \in Rounds : q # r => rows'[q] = rows[q]
  BY <1>2, <1>6, <1>8
<1>12. proc' \in [Procs -> Locals] /\ proc'[p] = loc /\ Others(p)
  BY <1>9, <1>10 DEF IInv, TypeOK, Others
<1>13. TypeOK'
  BY <1>3, <1>5, <1>11, <1>12 DEF IInv, TypeOK, LedgerTypeOK
<1>14. ProcsOK'
  <2>1. LocalOK(proc[p])' /\ proc'[p].pc \in LockedPcs
    BY <1>2, <1>5, <1>9, <1>12 DEF LocalOK, ScorePcs, RevealPcs, CommitPcs, LockedPcs
  <2>2. \A q \in Rounds : Committable(q) => Committable(q)'
    BY <1>2, <1>3, <1>7, <1>11, NoneAssumption DEF Committable
  <2>3. \A q \in proc[p].todo : q \in Rounds
    BY <1>2 DEF Locals
  <2>4. HolderOK(proc[p])'
    BY <1>2, <1>3, <1>7, <1>9, <1>11, <1>12, <2>2, <2>3
       DEF HolderOK, RevealPcs, CommitPcs
  <2> QED
    BY <1>2, <1>5, <1>12, <2>1, <2>4, ProcsFrame
<1>15. RowsOK'
  <2>1. RowOK(new)
    BY <1>2, <1>3, <1>4, <1>7 DEF RowOK, Committable
  <2> QED
    BY <1>11, <2>1 DEF IInv, RowsOK, RowOK
<1>16. SentOK'
  <2>1. ASSUME NEW t \in sent, t.kind = "reveal" PROVE RevealOK(t)'
    <3>1. RevealOK(t) /\ t.round \in Rounds
      BY <2>1 DEF IInv, SentOK, TypeOK, LedgerTypeOK, Transactions
    <3>2. t.round # r
      BY <1>2, <3>1 DEF RevealOK, Committable
    <3> QED
      BY <1>11, <3>1, <3>2 DEF RevealOK
  <2> QED
    BY <1>5, <2>1 DEF IInv, SentOK
<1>17. EveryCommitOpenable'
  BY <1>2, <1>3, <1>5, <1>7, <1>11 DEF IInv, EveryCommitOpenable, Broadcast
<1>18. CommitHashIsOnChain'
  BY <1>5, <1>7, <1>11 DEF IInv, CommitHashIsOnChain
<1>19. Move
  BY <1>2, <1>3, <1>5, <1>7, <1>11 DEF Move, RowMove, Sealing, Committable
<1> QED
  BY <1>13, <1>14, <1>15, <1>16, <1>17, <1>18, <1>19 DEF IInv

LEMMA CommitBroadcastStep ==
    ASSUME IInv, NEW p \in Procs, CommitBroadcast(p)
    PROVE  IInv' /\ Move
<1> DEFINE tx  == MemoTx("commit", Cur(p), proc[p].body)
           row == rows[Cur(p)]
<1>1. proc[p].pc = "commitSend" /\ proc[p].pc \in CommitPcs
  BY DEF CommitBroadcast, At, CommitPcs
<1>2. row.salt # 0 /\ row.commitment_hash = proc[p].body /\ row \in Row /\ RowOK(row)
  BY <1>1, CommittingRow, Holding DEF HolderOK, Cur
<1>3. /\ row.commitment_hash \in Commitments
      /\ \E o \in Outputs : row.commitment_hash = Commitment(o, row.salt)
  BY <1>2 DEF RowOK, Row
<1>4. tx.body = proc[p].body
  BY DEF MemoTx
<1>5. /\ submit_memo(tx)
      /\ proc' = [proc EXCEPT ![p].pc = "commitWait", ![p].tx = tx]
      /\ UNCHANGED <<storeVars, lock, envVars, nextSalt, faults>>
  BY DEF CommitBroadcast
<1> HIDE DEF tx
<1>6. /\ proc[p].body \in Commitments /\ row.salt # 0
      /\ \E o \in Outputs : tx.body = Commitment(o, row.salt)
  BY <1>2, <1>3, <1>4
<1> QED
  BY <1>1, <1>2, <1>5, <1>6, BroadcastStep DEF tx

LEMMA CommitLowBalanceStep ==
    ASSUME IInv, NEW p \in Procs, CommitLowBalance(p)
    PROVE  IInv' /\ Move
<1> DEFINE r   == Cur(p)
           new == record_commit_skip(rows[r])
<1>1. proc[p].pc \in CommitPcs
  BY DEF CommitLowBalance, At, CommitPcs
<1>2. /\ r \in Rounds /\ rows[r] \in Row /\ lock = p
      /\ \A q \in proc[p].todo : q \in Rounds /\ Committable(q)
  BY <1>1, CommittingRow DEF IInv, TypeOK, Locals
<1>3. KeepsSeal(rows[r], new)
  BY <1>2, SkipKeeps
<1>4. /\ SetRow(r, new) /\ NextRound(p, "commits")
      /\ UNCHANGED <<chainVars, files, cursor, lock, envVars, nextSalt>>
      /\ faults' = faults \/ faults' = faults + 1
  BY DEF CommitLowBalance, Adverse
<1>5. /\ proc' \in [Procs -> Locals] /\ proc'[p].pc = "commits" /\ Others(p)
      /\ proc'[p].todo = proc[p].todo \ {r}
  BY <1>4, NextRoundEffect DEF IInv
<1> HIDE DEF r, new
<1>6. LocalOK(proc[p])' /\ proc'[p].pc \in LockedPcs
  BY <1>4, NextRoundLocal DEF envVars
<1>7. HolderOK(proc[p])'
  <2>1. \A q \in Rounds : q # r => rows'[q] = rows[q]
    BY <1>2, <1>4 DEF SetRow, IInv, TypeOK
  <2> QED
    BY <1>2, <1>5, <2>1 DEF HolderOK, Committable, RevealPcs, CommitPcs
<1> QED
  BY <1>2, <1>3, <1>4, <1>5, <1>6, <1>7, KeepingStep

LEMMA CommitPhaseStep ==
    ASSUME IInv, NEW p \in Procs, CommitPhase(p)
    PROVE  IInv' /\ Move
<1>1. CASE \E r \in Rounds : CommitClock(p, r)
  BY <1>1, CommitClockStep
<1>2. CASE CommitRecover(p)
  BY <1>2, CommitRecoverStep
<1>3. CASE CommitWindowClosed(p)
  BY <1>3, CommitsNextQuiet DEF CommitWindowClosed, At, CommitPcs
<1>4. CASE CommitSignerFails(p)
  BY <1>4, CommitsNextQuiet DEF CommitSignerFails, At, CommitPcs, Adverse
<1>5. CASE CommitPersist(p)
  BY <1>5, CommitPersistStep
<1>6. CASE CommitBroadcast(p)
  BY <1>6, CommitBroadcastStep
<1>7. CASE CommitLowBalance(p)
  BY <1>7, CommitLowBalanceStep
<1>8. CASE CommitConfirmed(p)
  BY <1>8, CommitConfirmedStep
<1>9. CASE SubmissionFailed(p)
  BY <1>9, SubmissionFailedStep
<1>10. CASE EndPass(p)
  BY <1>10, StopQuiet DEF EndPass
<1> QED
  BY <1>1, <1>2, <1>3, <1>4, <1>5, <1>6, <1>7, <1>8, <1>9, <1>10 DEF CommitPhase

-----------------------------------------------------------------------------
(* The environment.                                                        *)

\* Time, the feed and the ledger only grow, and nothing lands that was not sent.
LEMMA EnvironmentFrame ==
    ASSUME IInv, UNCHANGED <<rows, lock, proc, sent>>,
           now \in Nat, now' \in Nat, now <= now',
           Len(feed) \in Nat, Len(feed') \in Nat, Len(feed) <= Len(feed'),
           pool' \subseteq pool, ledger \subseteq ledger',
           \A e \in ledger' : e \in ledger \/ e.tx \in pool
    PROVE  ProcsOK' /\ RowsOK' /\ SentOK' /\ EveryCommitOpenable' /\ CommitHashIsOnChain'
<1>1. ASSUME NEW q \in Procs
      PROVE  (proc[q].pc \in LockedPcs <=> lock = q)' /\ LocalOK(proc[q])' /\ HolderOK(proc[q])'
  <2>1. /\ proc[q].pc \in LockedPcs <=> lock = q
        /\ LocalOK(proc[q]) /\ HolderOK(proc[q]) /\ proc[q] \in Locals
    BY DEF IInv, ProcsOK, TypeOK
  <2>2. proc[q].upto \in Nat /\ proc[q].clock \in Nat
    BY <2>1 DEF Locals
  <2>3. LocalOK(proc[q])'
    BY <2>1, <2>2 DEF LocalOK
  <2>4. HolderOK(proc[q])'
    BY <2>1, <2>2 DEF HolderOK, Committable
  <2> QED
    BY <2>1, <2>3, <2>4
<1>2. RowsOK' /\ EveryCommitOpenable'
  BY DEF IInv, RowsOK, RowOK, EveryCommitOpenable, Broadcast
<1>3. SentOK'
  BY DEF IInv, SentOK, RevealOK
<1>4. CommitHashIsOnChain'
  BY DEF IInv, CommitHashIsOnChain
<1> QED
  BY <1>1, <1>2, <1>3, <1>4 DEF ProcsOK

LEMMA NetworkStep ==
    ASSUME IInv, Network
    PROVE  IInv' /\ Move
<1> USE DEF chainVars, storeVars, envVars
<1>1. /\ UNCHANGED <<storeVars, lock, proc, envVars, nextSalt>>
      /\ faults' = faults \/ faults' = faults + 1
  BY DEF Network, Adverse
<1>2. LedgerTypeOK /\ SentOK /\ Len(feed) \in Nat /\ now \in Nat
  BY DEF IInv, TypeOK, LedgerTypeOK
<1>3. ASSUME LedgerTypeOK', sent' = sent, now' \in Nat, now <= now',
             pool' \subseteq pool, ledger \subseteq ledger',
             \A e \in ledger' : e \in ledger \/ e.tx \in pool
      PROVE  IInv' /\ Move
  <2>1. TypeOK'
    BY <1>1, <1>3 DEF IInv, TypeOK
  <2>2. ProcsOK' /\ RowsOK' /\ SentOK' /\ EveryCommitOpenable' /\ CommitHashIsOnChain'
    BY <1>1, <1>2, <1>3, EnvironmentFrame
  <2>3. Move
    BY <1>1, <1>2, <1>3 DEF Move, RowMove, TimeMove
  <2> QED
    BY <2>1, <2>2, <2>3 DEF IInv
<1>4. CASE Tick
  BY <1>2, <1>3, <1>4 DEF Tick, LedgerTypeOK
<1>5. ASSUME NEW tx \in pool, Land(tx) PROVE IInv' /\ Move
  <2>1. [tx |-> tx, at |-> now] \in Entries
    BY <1>2 DEF LedgerTypeOK, Entries
  <2>2. LedgerTypeOK'
    BY <1>2, <1>5, <2>1 DEF Land, LedgerTypeOK
  <2> QED
    BY <1>2, <1>3, <1>5, <2>2 DEF Land
<1>6. ASSUME NEW tx \in pool, Expire(tx) PROVE IInv' /\ Move
  BY <1>2, <1>3, <1>6 DEF Expire, LedgerTypeOK
<1>7. ASSUME NEW e \in ledger, Bury(e) PROVE IInv' /\ Move
  <2>1. \A f \in ledger : f.tx.id \in Nat
    BY <1>2 DEF LedgerTypeOK, Entries, Transactions
  <2>2. buried' \subseteq Nat
    BY <1>2, <1>7, <2>1 DEF Bury, LedgerTypeOK
  <2> QED
    BY <1>2, <1>3, <1>7, <2>2 DEF Bury, LedgerTypeOK
<1> QED
  BY <1>4, <1>5, <1>6, <1>7 DEF Network

LEMMA EnvironmentStep ==
    ASSUME IInv, Environment
    PROVE  IInv' /\ Move
<1> USE DEF chainVars, storeVars, envVars
<1>1. LedgerTypeOK /\ SentOK /\ Len(feed) \in Nat /\ now \in Nat
  BY DEF IInv, TypeOK, LedgerTypeOK
<1>2. ASSUME NEW p \in Procs, Crash(p) PROVE IInv' /\ Move
  BY <1>2, StopQuiet DEF Crash, Adverse
<1>3. ASSUME NEW r \in Rounds, LoseHashesFile(r) PROVE IInv' /\ Move
  <2>1. TypeOK'
    BY <1>3 DEF LoseHashesFile, Adverse, IInv, TypeOK, LedgerTypeOK
  <2>2. ProcsOK' /\ RowsOK' /\ SentOK' /\ EveryCommitOpenable' /\ CommitHashIsOnChain'
    BY <1>1, <1>3, EnvironmentFrame DEF LoseHashesFile
  <2>3. Move
    BY <1>3 DEF LoseHashesFile, Move, RowMove
  <2> QED
    BY <2>1, <2>2, <2>3 DEF IInv
<1>4. CASE PublishRound
  <2>1. TypeOK'
    BY <1>4, RoundsAssumption DEF PublishRound, IInv, TypeOK, LedgerTypeOK
  <2>2. ProcsOK' /\ RowsOK' /\ SentOK' /\ EveryCommitOpenable' /\ CommitHashIsOnChain'
    BY <1>1, <1>4, EnvironmentFrame DEF PublishRound
  <2>3. Move
    BY <1>4 DEF PublishRound, Move, RowMove
  <2> QED
    BY <2>1, <2>2, <2>3 DEF IInv
<1>5. ASSUME NEW r \in 1 .. latest, NEW w \in WindowSet, Announce(r, w) PROVE IInv' /\ Move
  <2> DEFINE a == [round |-> r, windows |-> w]
  <2>1. a \in Announcements
    BY RoundsAssumption DEF IInv, TypeOK, Announcements, Rounds
  <2>2. feed \in Seq(Announcements) /\ feed' = Append(feed, a)
    BY <1>5 DEF IInv, TypeOK, Announce
  <2> HIDE DEF a
  <2>3. feed' \in Seq(Announcements) /\ Len(feed') = Len(feed) + 1
    BY <2>1, <2>2
  <2>4. TypeOK'
    BY <1>5, <2>3 DEF Announce, IInv, TypeOK, LedgerTypeOK
  <2>5. ProcsOK' /\ RowsOK' /\ SentOK' /\ EveryCommitOpenable' /\ CommitHashIsOnChain'
    BY <1>1, <1>5, <2>3, EnvironmentFrame DEF Announce
  <2>6. Move
    BY <1>5 DEF Announce, Move, RowMove
  <2> QED
    BY <2>4, <2>5, <2>6 DEF IInv
<1> QED
  BY <1>2, <1>3, <1>4, <1>5, NetworkStep DEF Environment

-----------------------------------------------------------------------------
(* The inductive invariant and what follows from it.                       *)

LEMMA IInvInit ==
    ASSUME Init PROVE IInv
<1> USE DEF Init, LedgerInit
<1>1. IdleLocals \in Locals /\ AbsentRow \in Row
  BY DEF IdleLocals, Locals, Pcs, States, AbsentRow, Row
<1>2. TypeOK
  BY <1>1, RoundsAssumption DEF TypeOK, LedgerTypeOK
<1>3. ProcsOK
  <2>1. \A p \in Procs : proc[p].pc = "idle" /\ proc[p].upto = 0 /\ lock # p
    BY ProcsAssumption DEF IdleLocals
  <2> QED
    BY <2>1 DEF ProcsOK, LocalOK, HolderOK, LockedPcs, ScorePcs, RevealPcs, CommitPcs
<1>4. RowsOK
  BY DEF RowsOK, RowOK, AbsentRow
<1>5. SentOK /\ EveryCommitOpenable
  BY DEF SentOK, EveryCommitOpenable, Broadcast
<1>6. CommitHashIsOnChain
  BY DEF CommitHashIsOnChain, AbsentRow
<1> QED
  BY <1>2, <1>3, <1>4, <1>5, <1>6 DEF IInv

LEMMA IInvStep ==
    ASSUME IInv, [Next]_vars
    PROVE  IInv' /\ Move
<1>1. CASE UNCHANGED vars
  <2>1. /\ UNCHANGED <<rows, files, cursor, lock, proc, latest, feed, nextSalt, faults>>
        /\ UNCHANGED <<now, sent, pool, ledger, buried, nextTx>>
    BY <1>1 DEF vars, chainVars, storeVars, envVars
  <2>2. TypeOK'
    BY <2>1 DEF IInv, TypeOK, LedgerTypeOK
  <2>3. ProcsOK' /\ RowsOK' /\ SentOK' /\ EveryCommitOpenable' /\ CommitHashIsOnChain'
    BY <2>1, EnvironmentFrame DEF IInv, TypeOK, LedgerTypeOK, SentOK
  <2>4. Move
    BY <2>1 DEF Move, RowMove
  <2> QED
    BY <2>2, <2>3, <2>4 DEF IInv
<1>2. ASSUME NEW p \in Procs, Pass(p) PROVE IInv' /\ Move
  BY <1>2, ScorePhaseStep, RevealPhaseStep, WalkPhaseStep, CommitPhaseStep DEF Pass
<1>3. CASE Environment
  BY <1>3, EnvironmentStep
<1> QED
  BY <1>1, <1>2, <1>3 DEF Next

\* The inductive invariant holds for any number of processes and rounds.
THEOREM Invariance == Spec => []IInv
<1>1. Init => IInv
  BY IInvInit
<1>2. IInv /\ [Next]_vars => IInv'
  BY IInvStep
<1> QED
  BY <1>1, <1>2, PTL DEF Spec

\* Every variable keeps its type; in particular no step indexes the table with
\* the 0 of an idle process or the feed beyond its end.
THEOREM TypeCorrect == Spec => []TypeOK
<1>1. IInv => TypeOK
  BY DEF IInv
<1> QED
  BY <1>1, Invariance, PTL

\* No commit is ever broadcast whose salt the store lost (commit.py persists the
\* secret before submit_memo).
THEOREM CommitsAreOpenable == Spec => []EveryCommitOpenable
<1>1. IInv => EveryCommitOpenable
  BY DEF IInv
<1> QED
  BY <1>1, Invariance, PTL

\* A recorded commit hash names a validated commit with the stored commitment.
THEOREM CommitHashesAreOnChain == Spec => []CommitHashIsOnChain
<1>1. IInv => CommitHashIsOnChain
  BY DEF IInv
<1> QED
  BY <1>1, Invariance, PTL

\* Every reveal opens a commit that was validated before it (reveal.py's guard on
\* the row, and the row's bond to the chain).
THEOREM RevealsOpenCommits == Spec => []EveryRevealOpensACommit
<1>1. IInv => EveryRevealOpensACommit
  <2> SUFFICES ASSUME IInv, NEW r \in Rounds, NEW t \in Broadcast("reveal", r)
               PROVE  \E e \in ledger : /\ e.tx.kind = "commit"
                                        /\ e.tx.round = r
                                        /\ e.tx.body = t.body
    BY DEF EveryRevealOpensACommit
  <2>1. rows[r].commit_tx_hash # 0 /\ t.body = rows[r].commitment_hash
    BY DEF IInv, SentOK, RevealOK, Broadcast
  <2> QED
    BY <2>1 DEF IInv, CommitHashIsOnChain
<1> QED
  BY <1>1, Invariance, PTL

\* No reveal leaves before its window, nor while commits are taken, by the window
\* the row has then and keeps.
THEOREM NoRevealIsEarly == Spec => []NoEarlyReveal
<1>1. IInv => NoEarlyReveal
  <2> SUFFICES ASSUME IInv, NEW r \in Rounds, NEW t \in Broadcast("reveal", r)
               PROVE  /\ rows[r].windows # None
                      /\ rows[r].windows.reveal_opens <= t.sent_at
                      /\ rows[r].windows.commit_closes <= t.sent_at
    BY DEF NoEarlyReveal
  <2>1. /\ rows[r].commit_tx_hash # 0
        /\ rows[r].windows.reveal_opens <= t.sent_at
        /\ t.sent_at \in Nat
    BY DEF IInv, SentOK, RevealOK, Broadcast, TypeOK, LedgerTypeOK, Transactions
  <2>2. rows[r] \in Row /\ rows[r].windows # None
    BY <2>1 DEF IInv, RowsOK, RowOK, TypeOK
  <2>3. rows[r].windows \in WindowSet
    BY <2>2 DEF Row
  <2>4. /\ rows[r].windows.commit_closes \in Nat
        /\ rows[r].windows.reveal_opens \in Nat
        /\ rows[r].windows.commit_closes <= rows[r].windows.reveal_opens
    BY <2>3, WindowsAssumption DEF WindowRecords, OrderedWindows
  <2> QED
    BY <2>1, <2>2, <2>4
<1> QED
  BY <1>1, Invariance, PTL

\* A persisted salt and the windows of that moment are never replaced, by no
\* announcement, repetition, kill or concurrent command.
THEOREM SealsAreFixed == Spec => SealedRowIsFixed
<1>1. IInv /\ [Next]_vars =>
         [\A r \in Rounds : rows[r].salt # 0 =>
             /\ rows'[r].salt = rows[r].salt
             /\ rows'[r].windows = rows[r].windows]_vars
  <2> SUFFICES ASSUME IInv, [Next]_vars, NEW r \in Rounds, rows[r].salt # 0
               PROVE  rows'[r].salt = rows[r].salt /\ rows'[r].windows = rows[r].windows
    OBVIOUS
  <2>1. Move
    BY IInvStep
  <2> QED
    BY <2>1 DEF Move, RowMove, TimeMove, SendMove, KeepsSeal, Sealing
<1> QED
  BY <1>1, Invariance, PTL DEF Spec, SealedRowIsFixed

-----------------------------------------------------------------------------
(* The refinement.                                                         *)

\* A row that keeps its seal keeps its image.
LEMMA SealKept ==
    ASSUME IInv, NEW r \in Rounds, KeepsSeal(rows[r], rows'[r])
    PROVE  SealOf(r)' = SealOf(r)
<1>1. rows[r].commit_tx_hash # 0 => rows[r].salt # 0
  BY DEF IInv, RowsOK, RowOK
<1> QED
  BY <1>1 DEF SealOf, KeepsSeal

\* The image of a committed row is a seal.
LEMMA SealTyped ==
    ASSUME NEW row \in Row, RowOK(row), row.commit_tx_hash # 0
    PROVE  /\ row.commitment_hash \in Commitments
           /\ row.windows.reveal_opens \in Nat
<1>1. row.windows # None /\ row.commitment_hash # None
  BY DEF RowOK
<1>2. row.windows \in WindowSet /\ row.commitment_hash \in Commitments
  BY <1>1 DEF Row
<1> QED
  BY <1>2, WindowsAssumption DEF WindowRecords

LEMMA RefinesInit ==
    ASSUME Init PROVE Sealed!Init
BY DEF Init, LedgerInit, Sealed!Init, SealOf, Opened, AbsentRow

\* A write seals a round or stutters.
LEMMA RowMoveRefines ==
    ASSUME IInv, IInv', RowMove
    PROVE  [Sealed!Next]_(Sealed!vars)
<1>1. now' = now /\ Opened' = Opened
  BY DEF RowMove, Opened
<1>2. CASE \A r \in Rounds : SealOf(r)' = SealOf(r)
  BY <1>1, <1>2 DEF Sealed!vars
<1>3. CASE ~ \A r \in Rounds : SealOf(r)' = SealOf(r)
  <2>1. PICK r \in Rounds : /\ KeepsSeal(rows[r], rows'[r]) \/ Sealing(rows[r], rows'[r])
                            /\ \A q \in Rounds : q # r => rows'[q] = rows[q]
    BY <1>3 DEF RowMove, SealOf
  <2>2. \A q \in Rounds : q # r => SealOf(q)' = SealOf(q)
    BY <2>1 DEF SealOf
  <2>3. SealOf(r)' # SealOf(r)
    BY <1>3, <2>2
  <2>4. rows[r].commit_tx_hash = 0
    BY <2>1, <2>3, SealKept DEF Sealing
  <2>5. rows'[r].commit_tx_hash # 0
    BY <2>3, <2>4 DEF SealOf
  <2>6. SealOf(r) = None /\ SealOf(r)' \in [body : Commitments, opens : Nat]
    <3>1. rows'[r] \in Row /\ RowOK(rows'[r])
      BY DEF IInv, TypeOK, RowsOK
    <3> QED
      BY <2>4, <2>5, <3>1, SealTyped DEF SealOf
  <2>7. Sealed!Seal(r)
    BY <1>1, <2>2, <2>6 DEF Sealed!Seal
  <2> QED
    BY <2>7 DEF Sealed!Next
<1> QED
  BY <1>2, <1>3

\* A broadcast opens a sealed round or stutters.
LEMMA SendMoveRefines ==
    ASSUME IInv, SendMove
    PROVE  [Sealed!Next]_(Sealed!vars)
<1>1. now' = now /\ \A r \in Rounds : SealOf(r)' = SealOf(r)
  BY DEF SendMove, SealOf
<1>2. PICK tx \in Transactions : /\ sent' = sent \cup {tx}
                                 /\ tx.sent_at = now
                                 /\ tx.kind = "reveal" => RevealOK(tx)
  BY DEF SendMove
<1>3. CASE tx.kind # "reveal"
  <2>1. Opened' = Opened
    BY <1>2, <1>3 DEF Opened
  <2> QED
    BY <1>1, <2>1 DEF Sealed!vars
<1>4. CASE tx.kind = "reveal"
  <2>1. Opened' = Opened \cup {<<tx.round, tx.body>>}
    BY <1>2, <1>4 DEF Opened
  <2>2. /\ tx.round \in Rounds /\ rows[tx.round].commit_tx_hash # 0
        /\ tx.body = rows[tx.round].commitment_hash
        /\ rows[tx.round].windows.reveal_opens <= now
    BY <1>2, <1>4 DEF Transactions, RevealOK
  <2>3. /\ rows[tx.round].windows.reveal_opens \in Nat /\ now \in Nat
        /\ SealOf(tx.round) = [body  |-> tx.body,
                              opens |-> rows[tx.round].windows.reveal_opens]
        /\ SealOf(tx.round) # None
    <3>1. rows[tx.round] \in Row /\ RowOK(rows[tx.round])
      BY <2>2 DEF IInv, TypeOK, RowsOK
    <3>2. /\ rows[tx.round].commitment_hash \in Commitments
          /\ rows[tx.round].windows.reveal_opens \in Nat
      BY <2>2, <3>1, SealTyped
    <3> QED
      BY <2>2, <3>2, UnsealedAssumption DEF SealOf, IInv, TypeOK, LedgerTypeOK
  <2>4. Sealed!Open(tx.round)
    BY <1>1, <2>1, <2>2, <2>3 DEF Sealed!Open
  <2> QED
    BY <2>2, <2>4 DEF Sealed!Next
<1> QED
  BY <1>3, <1>4

\* Commit-reveal as the passes perform it implements sealed rounds: whatever is
\* killed, retried, recovered or re-announced, a round is sealed once and opened
\* only with the sealed body, not before its time.
THEOREM Refinement == Spec => ImplementsSealedRound
<1>1. Init => Sealed!Init
  BY RefinesInit
<1>2. IInv /\ IInv' /\ [Next]_vars => [Sealed!Next]_(Sealed!vars)
  <2> SUFFICES ASSUME IInv, IInv', [Next]_vars
               PROVE  [Sealed!Next]_(Sealed!vars)
    OBVIOUS
  <2>1. CASE RowMove
    BY <2>1, RowMoveRefines
  <2>2. CASE TimeMove
    <3>1. Sealed!Pass
      BY <2>2 DEF TimeMove, Sealed!Pass, SealOf, Opened
    <3> QED
      BY <3>1 DEF Sealed!Next
  <2>3. CASE SendMove
    BY <2>3, SendMoveRefines
  <2> QED
    BY <2>1, <2>2, <2>3, IInvStep DEF Move
<1> QED
  BY <1>1, <1>2, Invariance, PTL DEF Spec, ImplementsSealedRound
-----------------------------------------------------------------------------
(* A lone process whose hashes files stay.                                 *)

\* What a row keeps when it is written.
Lasting(row, new) == row.sidecar_state \in {"COMMITTED", "REVEALED"}
                     => new.sidecar_state \in {"COMMITTED", "REVEALED"}

NothingTakenBack == \A r \in Rounds : Lasting(rows[r], rows'[r])

Sound(row, file) == RowKept(row, file) /\ ("low_balance" \notin Adversities => RowBound(row))

\* The only process is at p; it reads and writes, and nothing is lost.
Lone(p) == Procs = {p} /\ "lost_file" \notin Adversities

\* Program counters at which a process relies on what it read of the rows.
ReadingPcs == ScorePcs \cup RevealPcs \cup {"reveals"}

LEMMA NotReading ==
    ASSUME NEW p \in Procs, proc'[p].pc \notin ReadingPcs
    PROVE  ReadingOK(proc[p])'
BY DEF ReadingOK, ReadingPcs, ScorePcs, RevealPcs

\* A step that writes neither rows nor files.
LEMMA LoneStay ==
    ASSUME LoneInv, NEW p \in Procs, Lone(p), UNCHANGED <<rows, files>>,
           ReadingOK(proc[p])'
    PROVE  LoneInv' /\ NothingTakenBack
<1>1. RowsKept'
  BY DEF LoneInv, RowsKept
<1> QED
  BY <1>1 DEF LoneInv, Lone, NothingTakenBack, Lasting

\* The same, after which nothing read is relied on.
LEMMA LoneQuiet ==
    ASSUME LoneInv, NEW p \in Procs, Lone(p), UNCHANGED <<rows, files>>,
           proc'[p].pc \notin ReadingPcs
    PROVE  LoneInv' /\ NothingTakenBack
BY LoneStay, NotReading

\* A write of one row.
LEMMA LoneRow ==
    ASSUME LoneInv, rows \in [Rounds -> Row], NEW p \in Procs, Lone(p),
           NEW r \in Rounds, NEW new,
           rows' = [rows EXCEPT ![r] = new], files' = files,
           ReadingOK(proc[p])',
           Sound(new, files[r]), Lasting(rows[r], new)
    PROVE  LoneInv' /\ NothingTakenBack
<1>1. rows'[r] = new /\ \A q \in Rounds : q # r => rows'[q] = rows[q]
  OBVIOUS
<1>2. \A q \in Rounds : Sound(rows[q], files[q])
  BY DEF LoneInv, RowsKept, Sound
<1>3. \A q \in Rounds : Sound(rows'[q], files[q])
  BY <1>1, <1>2
<1>4. RowsKept'
  BY <1>3 DEF RowsKept, Sound
<1> QED
  BY <1>1, <1>4 DEF LoneInv, Lone, NothingTakenBack, Lasting

LEMMA LoneWrite ==
    ASSUME LoneInv, rows \in [Rounds -> Row], NEW p \in Procs, Lone(p),
           NEW r \in Rounds, NEW new,
           rows' = [rows EXCEPT ![r] = new], files' = files,
           proc'[p].pc \notin ReadingPcs,
           Sound(new, files[r]), Lasting(rows[r], new)
    PROVE  LoneInv' /\ NothingTakenBack
BY LoneRow, NotReading

LEMMA LoneReadRound ==
    ASSUME IInv, LoneInv, NEW p \in Procs, Lone(p), NEW r \in Scorable(p), ReadRound(p, r)
    PROVE  LoneInv' /\ NothingTakenBack
<1> DEFINE row == rows[r]
           scored == row.sidecar_state \in ScoredOrFurther
           new == [IdleLocals EXCEPT
                    !.pc = IF scored THEN "hashes" ELSE "fetch",
                    !.cur = r,
                    !.seen_state = row.sidecar_state,
                    !.deadline = Deadline(row)]
<1>1. UNCHANGED <<rows, files>> /\ proc \in [Procs -> Locals] /\ TypeOK
  BY DEF ReadRound, storeVars, IInv, TypeOK
<1>2. CASE scored /\ row.compared
  <2>1. proc'[p].pc \notin ReadingPcs
    BY <1>1, <1>2, AfterScoreEffect DEF ReadRound, ReadingPcs, ScorePcs, RevealPcs
  <2> QED
    BY <1>1, <2>1, LoneQuiet
<1>3. CASE ~ (scored /\ row.compared)
  <2>1. proc'[p] = new
    BY <1>1, <1>3 DEF ReadRound
  <2>2. /\ new.pc = (IF scored THEN "hashes" ELSE "fetch") /\ new.cur = r
        /\ new.seen_state = row.sidecar_state
    BY DEF IdleLocals
  <2> HIDE DEF new
  <2>3. ReadingOK(proc[p])'
    BY <1>1, <2>1, <2>2 DEF ReadingOK, RevealPcs
  <2>4. RowsKept'
    BY <1>1 DEF LoneInv, RowsKept
  <2> QED
    BY <1>1, <2>3, <2>4 DEF LoneInv, Lone, NothingTakenBack, Lasting
<1> QED
  BY <1>2, <1>3

\* The file of a scored round is there.
LEMMA LoneReadHashes ==
    ASSUME IInv, LoneInv, NEW p \in Procs, Lone(p), ReadHashes(p)
    PROVE  LoneInv' /\ NothingTakenBack
<1>1. /\ proc[p].pc = "hashes" /\ proc[p].pc \in ScorePcs
      /\ proc[p] \in Locals /\ proc \in [Procs -> Locals]
      /\ UNCHANGED <<rows, files>>
  BY DEF ReadHashes, At, ScorePcs, storeVars, IInv, TypeOK
<1>2. Cur(p) \in Rounds /\ LocalOK(proc[p])
  BY <1>1, ScoringRow DEF IInv, ProcsOK
<1>3. /\ rows[Cur(p)].sidecar_state = proc[p].seen_state
      /\ proc[p].seen_state \in ScoredOrFurther
  BY <1>1, <1>2 DEF LoneInv, ReadingOK, LocalOK, Cur
<1>4. files[Cur(p)] # None
  BY <1>2, <1>3 DEF LoneInv, RowsKept, RowKept
<1>5. proc'[p] = [proc[p] EXCEPT !.pc = "deferred", !.seen_outputs = files[Cur(p)]]
  BY <1>1, <1>4 DEF ReadHashes
<1>6. ReadingOK(proc[p])'
  BY <1>1, <1>3, <1>5 DEF ReadingOK, RevealPcs, Cur, Locals
<1>7. RowsKept'
  BY <1>1 DEF LoneInv, RowsKept
<1> QED
  BY <1>1, <1>6, <1>7 DEF LoneInv, Lone, NothingTakenBack, Lasting

\* The state a comparison writes back is still the row's, and so are the outputs.
LEMMA LoneRecordDeferred ==
    ASSUME IInv, LoneInv, NEW p \in Procs, Lone(p), RecordDeferred(p)
    PROVE  LoneInv' /\ NothingTakenBack
<1> DEFINE row == rows[Cur(p)]
           new == record_score(row, ComparisonState(p), proc[p].seen_outputs, TRUE)
<1>1. proc[p].pc = "deferred" /\ proc[p].pc \in ScorePcs /\ rows \in [Rounds -> Row] /\ TypeOK
  BY DEF RecordDeferred, At, ScorePcs, IInv, TypeOK
<1>2. Cur(p) \in Rounds /\ row \in Row /\ LocalOK(proc[p])
  BY <1>1, ScoringRow DEF IInv, ProcsOK
<1>3. /\ row.sidecar_state = proc[p].seen_state /\ proc[p].seen_state \in ScoredOrFurther
      /\ proc[p].seen_outputs = files[Cur(p)]
  BY <1>1, <1>2 DEF LoneInv, ReadingOK, LocalOK, Cur
<1>4. Sound(row, files[Cur(p)])
  BY <1>2 DEF LoneInv, RowsKept, Sound
<1>5. /\ new.sidecar_state = row.sidecar_state /\ new.output_hashes = files[Cur(p)]
      /\ new.salt = row.salt /\ new.commitment_hash = row.commitment_hash
  BY <1>2, <1>3 DEF record_score, Row, ComparisonState
<1>6. rows' = [rows EXCEPT ![Cur(p)] = new] /\ files' = files
  BY DEF RecordDeferred, SetRow
<1> HIDE DEF new
<1>7. Sound(new, files[Cur(p)]) /\ Lasting(row, new)
  BY <1>3, <1>4, <1>5 DEF Sound, RowKept, RowBound, Lasting
<1>8. proc'[p].pc \notin ReadingPcs
  BY <1>1, AfterScoreEffect DEF RecordDeferred, ReadingPcs, ScorePcs, RevealPcs
<1> QED
  BY <1>1, <1>2, <1>6, <1>7, <1>8, LoneWrite

\* A round that is being scored is not bound yet.
LEMMA LoneScoring ==
    ASSUME IInv, LoneInv, NEW p \in Procs, proc[p].pc \in {"fetch", "infer", "record"}
    PROVE  /\ Cur(p) \in Rounds
           /\ rows[Cur(p)] \in Row
           /\ rows[Cur(p)].sidecar_state \notin ScoredOrFurther
           /\ "low_balance" \notin Adversities => rows[Cur(p)].salt = 0
<1>1. proc[p].pc \in ScorePcs
  BY DEF ScorePcs
<1>2. Cur(p) \in Rounds /\ rows[Cur(p)] \in Row
  BY <1>1, ScoringRow
<1> QED
  BY <1>2 DEF LoneInv, ReadingOK, RowsKept, RowBound, Cur

LEMMA LoneInputVerified ==
    ASSUME IInv, LoneInv, NEW p \in Procs, Lone(p), RecordInputVerified(p)
    PROVE  LoneInv' /\ NothingTakenBack
<1> DEFINE r == Cur(p)
           new == record_input_verified(rows[r])
<1>1. /\ proc[p].pc = "fetch" /\ rows \in [Rounds -> Row]
      /\ proc \in [Procs -> Locals] /\ proc[p] \in Locals /\ files' = files
  BY DEF RecordInputVerified, At, IInv, TypeOK
<1>2. /\ r \in Rounds /\ rows[r] \in Row /\ rows[r].sidecar_state \notin ScoredOrFurther
      /\ "low_balance" \notin Adversities => rows[r].salt = 0
  BY <1>1, LoneScoring
<1>3. /\ new.sidecar_state = "INPUT_PACKAGE_VERIFIED" /\ new.salt = rows[r].salt
  BY <1>2 DEF record_input_verified, Row
<1>4. rows' = [rows EXCEPT ![r] = new]
  BY DEF RecordInputVerified, SetRow
<1> HIDE DEF new
<1>5. rows'[r] = new /\ \A q \in Rounds : q # r => rows'[q] = rows[q]
  BY <1>1, <1>2, <1>4
<1>6. proc'[p].pc = "infer" /\ proc'[p].cur = r
  BY <1>1 DEF RecordInputVerified, Locals, Cur
<1>7. ReadingOK(proc[p])'
  BY <1>3, <1>5, <1>6 DEF ReadingOK, RevealPcs, ScoredOrFurther
<1>8. RowsKept'
  BY <1>1, <1>2, <1>3, <1>5 DEF LoneInv, RowsKept, RowKept, RowBound, ScoredOrFurther
<1>9. NothingTakenBack
  BY <1>2, <1>5 DEF NothingTakenBack, Lasting, ScoredOrFurther
<1> QED
  BY <1>7, <1>8, <1>9 DEF LoneInv, Lone

\* The outcome of a scoring, a failure or a score that agrees with the file.
LEMMA LoneOutcome ==
    ASSUME IInv, LoneInv, NEW p \in Procs, Lone(p), proc[p].pc \in {"infer", "record"},
           NEW state \in {"SCORED", "SCORING_FAILED", "SKIPPED"},
           NEW outputs, NEW compared \in BOOLEAN,
           state = "SCORED" => outputs = files[Cur(p)] /\ outputs # None,
           SetRow(Cur(p), record_score(rows[Cur(p)], state, outputs, compared)),
           files' = files, AfterScore(p)
    PROVE  LoneInv' /\ NothingTakenBack
<1> DEFINE r == Cur(p)
           new == record_score(rows[r], state, outputs, compared)
<1>1. /\ r \in Rounds /\ rows[r] \in Row /\ rows[r].sidecar_state \notin ScoredOrFurther
      /\ "low_balance" \notin Adversities => rows[r].salt = 0
      /\ rows \in [Rounds -> Row]
  BY LoneScoring DEF IInv, TypeOK
<1>2. new.sidecar_state = state /\ new.output_hashes = outputs /\ new.salt = rows[r].salt
  BY <1>1 DEF record_score, Row
<1>3. rows' = [rows EXCEPT ![r] = new]
  BY DEF SetRow
<1> HIDE DEF new
<1>4. Sound(new, files[r]) /\ Lasting(rows[r], new)
  BY <1>1, <1>2 DEF Sound, RowKept, RowBound, Lasting, ScoredOrFurther
<1>5. proc'[p].pc \notin ReadingPcs
  BY AfterScoreEffect DEF IInv, ReadingPcs, ScorePcs, RevealPcs
<1> QED
  BY <1>1, <1>3, <1>4, <1>5, LoneWrite

LEMMA LonePersistHashes ==
    ASSUME IInv, LoneInv, NEW p \in Procs, Lone(p), PersistHashes(p)
    PROVE  LoneInv' /\ NothingTakenBack
<1>1. /\ proc[p].pc = "infer" /\ files \in [Rounds -> Outputs \cup {None}]
      /\ proc \in [Procs -> Locals] /\ proc[p] \in Locals /\ rows' = rows
  BY DEF PersistHashes, At, IInv, TypeOK
<1>2. Cur(p) \in Rounds /\ rows[Cur(p)].sidecar_state \notin ScoredOrFurther
  BY <1>1, LoneScoring
<1>3. PICK o \in Outputs : /\ files' = [files EXCEPT ![Cur(p)] = o]
                           /\ proc' = [proc EXCEPT ![p].pc = "record", ![p].seen_outputs = o]
  BY DEF PersistHashes
<1>4. files'[Cur(p)] = o /\ \A q \in Rounds : q # Cur(p) => files'[q] = files[q]
  BY <1>1, <1>2, <1>3
<1>5. proc'[p].pc = "record" /\ proc'[p].cur = Cur(p) /\ proc'[p].seen_outputs = o
  BY <1>1, <1>3 DEF Locals, Cur
<1>6. ReadingOK(proc[p])'
  BY <1>1, <1>2, <1>4, <1>5 DEF ReadingOK, RevealPcs
<1>7. RowsKept'
  BY <1>1, <1>2, <1>4 DEF LoneInv, RowsKept, RowKept, ScoredOrFurther
<1> QED
  BY <1>1, <1>6, <1>7 DEF LoneInv, Lone, NothingTakenBack, Lasting

\* A step of the reveal phase that writes nothing, and takes rounds off its list.
LEMMA LoneRevealing ==
    ASSUME IInv, LoneInv, NEW p \in Procs, Lone(p), UNCHANGED <<rows, files>>,
           proc[p].pc \in RevealPcs \cup {"reveals"},
           proc'[p].pc \in RevealPcs \cup {"reveals"},
           proc'[p].todo \subseteq proc[p].todo,
           proc'[p].pc \in RevealPcs => \/ proc'[p].cur \in proc[p].todo
                                        \/ /\ proc[p].pc \in RevealPcs
                                           /\ proc'[p].cur = proc[p].cur
    PROVE  LoneInv' /\ NothingTakenBack
<1>1. ReadingOK(proc[p])
  BY DEF LoneInv
<1>2. ReadingOK(proc[p])'
  BY <1>1 DEF ReadingOK, RevealPcs
<1> QED
  BY <1>2, LoneStay

\* A committed round is settled: a reveal recorded, or its miss.
LEMMA LoneSettled ==
    ASSUME IInv, LoneInv, NEW p \in Procs, Lone(p), proc[p].pc \in RevealPcs,
           NextRound(p, "reveals"), files' = files,
           NEW new, SetRow(Cur(p), new),
           new.sidecar_state \in {"COMMITTED", "REVEALED"},
           new.output_hashes = rows[Cur(p)].output_hashes,
           new.salt = rows[Cur(p)].salt,
           new.commitment_hash = rows[Cur(p)].commitment_hash
    PROVE  LoneInv' /\ NothingTakenBack
<1> DEFINE r == Cur(p)
<1>1. /\ r \in Rounds /\ rows[r] \in Row
      /\ rows \in [Rounds -> Row] /\ proc[p].todo \subseteq Rounds
  BY RevealingRow DEF IInv, TypeOK, Locals
<1>2. /\ rows[r].sidecar_state = "COMMITTED"
      /\ \A q \in proc[p].todo : rows[q].sidecar_state = "COMMITTED"
  BY DEF LoneInv, ReadingOK, Cur
<1>3. rows' = [rows EXCEPT ![r] = new]
  BY DEF SetRow
<1>4. Sound(rows[r], files[r])
  BY <1>1 DEF LoneInv, RowsKept, Sound
<1>5. Sound(new, files[r]) /\ Lasting(rows[r], new)
  BY <1>2, <1>4 DEF Sound, RowKept, RowBound, Lasting, ScoredOrFurther
<1>6. proc'[p].pc = "reveals" /\ proc'[p].todo = proc[p].todo \ {r}
  BY NextRoundEffect DEF IInv
<1> HIDE DEF r
<1>7. \A q \in proc'[p].todo : rows'[q].sidecar_state = "COMMITTED"
  BY <1>1, <1>2, <1>3, <1>6
<1>8. ReadingOK(proc[p])'
  BY <1>6, <1>7 DEF ReadingOK, RevealPcs
<1> QED
  BY <1>1, <1>3, <1>5, <1>8, LoneRow

\* A row that is bound: its commit is submitted, or made durable before it is.
LEMMA LoneCommitting ==
    ASSUME IInv, LoneInv, NEW p \in Procs, Lone(p), proc[p].pc \in CommitPcs,
           proc'[p].pc \notin ReadingPcs, files' = files,
           NEW new, SetRow(Cur(p), new),
           new.sidecar_state \in {"SCORED", "COMMITTED"},
           new.output_hashes = rows[Cur(p)].output_hashes,
           new.salt # 0,
           \/ new.commitment_hash = Commitment(new.output_hashes, new.salt)
           \/ /\ new.salt = rows[Cur(p)].salt
              /\ new.commitment_hash = rows[Cur(p)].commitment_hash
    PROVE  LoneInv' /\ NothingTakenBack
<1> DEFINE r == Cur(p)
<1>1. r \in Rounds /\ Committable(r) /\ rows \in [Rounds -> Row]
  BY CommittingRow DEF IInv, TypeOK
<1>2. rows[r].sidecar_state = "SCORED" /\ Sound(rows[r], files[r])
  BY <1>1 DEF Committable, LoneInv, RowsKept, Sound
<1>3. Sound(new, files[r]) /\ Lasting(rows[r], new)
  BY <1>2 DEF Sound, RowKept, RowBound, Lasting, ScoredOrFurther
<1>4. rows' = [rows EXCEPT ![r] = new]
  BY DEF SetRow
<1> QED
  BY <1>1, <1>3, <1>4, LoneWrite

-----------------------------------------------------------------------------
(* The phases of a lone process.                                           *)

LEMMA LoneScorePhase ==
    ASSUME IInv, LoneInv, NEW p \in Procs, Lone(p), ScorePhase(p)
    PROVE  LoneInv' /\ NothingTakenBack
<1> USE DEF storeVars
<1>1. ASSUME AfterScore(p), UNCHANGED storeVars PROVE LoneInv' /\ NothingTakenBack
  <2>1. proc'[p].pc \notin ReadingPcs
    BY <1>1, AfterScoreEffect DEF IInv, ReadingPcs, ScorePcs, RevealPcs
  <2> QED
    BY <1>1, <2>1, LoneQuiet
<1>2. ASSUME Stop(p), UNCHANGED storeVars PROVE LoneInv' /\ NothingTakenBack
  <2>1. proc'[p].pc \notin ReadingPcs
    BY <1>2, StopEffect DEF IInv, IdleLocals, ReadingPcs, ScorePcs, RevealPcs
  <2> QED
    BY <1>2, <2>1, LoneQuiet
<1>3. CASE NoEligibleRound(p) \/ ComparisonPending(p) \/ ScoringUnavailable(p)
  BY <1>1, <1>3 DEF NoEligibleRound, ComparisonPending, ScoringUnavailable
<1>4. CASE ScoringRaises(p) \/ LockHeld(p)
  BY <1>2, <1>4 DEF ScoringRaises, LockHeld
<1>5. CASE RecordScoringFailure(p)
  <2>1. proc[p].pc \in {"infer", "record"} /\ files' = files /\ AfterScore(p)
    BY <1>5 DEF RecordScoringFailure, At
  <2>2. PICK state \in {"SCORING_FAILED", "SKIPPED"} :
           SetRow(Cur(p), record_score(rows[Cur(p)], state, None, FALSE))
    BY <1>5 DEF RecordScoringFailure
  <2> QED
    BY <2>1, <2>2, LoneOutcome
<1>6. CASE RecordScored(p)
  <2>1. /\ proc[p].pc = "record" /\ proc[p].pc \in {"infer", "record"}
        /\ files' = files /\ AfterScore(p)
    BY <1>6 DEF RecordScored, At
  <2>2. PICK compared \in BOOLEAN :
           SetRow(Cur(p), record_score(rows[Cur(p)], "SCORED", proc[p].seen_outputs, compared))
    BY <1>6 DEF RecordScored
  <2>3. proc[p].seen_outputs = files[Cur(p)]
    BY <2>1 DEF LoneInv, ReadingOK, Cur
  <2>4. proc[p].seen_outputs # None
    BY <2>1, NoneAssumption DEF IInv, ProcsOK, LocalOK
  <2> QED
    BY <2>1, <2>2, <2>3, <2>4, LoneOutcome
<1> QED
  BY <1>3, <1>4, <1>5, <1>6, LoneReadRound, LoneReadHashes, LoneRecordDeferred,
     LoneInputVerified, LonePersistHashes DEF ScorePhase

LEMMA LoneRevealPhase ==
    ASSUME IInv, LoneInv, NEW p \in Procs, Lone(p), RevealPhase(p)
    PROVE  LoneInv' /\ NothingTakenBack
<1> USE DEF storeVars
<1>1. proc \in [Procs -> Locals] /\ proc[p] \in Locals /\ TypeOK
  BY DEF IInv, TypeOK
<1>2. CASE BeginChainPhases(p)
  <2> DEFINE new == [IdleLocals EXCEPT !.pc = "reveals",
                                       !.todo = get_rounds_pending_reveal(rows)]
  <2>1. proc'[p] = new /\ UNCHANGED <<rows, files>>
    BY <1>1, <1>2 DEF BeginChainPhases
  <2>2. new.pc = "reveals" /\ new.todo = get_rounds_pending_reveal(rows)
    BY DEF IdleLocals
  <2> HIDE DEF new
  <2>3. ReadingOK(proc[p])'
    BY <2>1, <2>2 DEF ReadingOK, RevealPcs, get_rounds_pending_reveal
  <2> QED
    BY <2>1, <2>3, LoneStay
<1>3. ASSUME NEW r \in Rounds, RevealClock(p, r) PROVE LoneInv' /\ NothingTakenBack
  <2>1. proc[p].pc = "reveals" /\ r \in proc[p].todo /\ UNCHANGED <<rows, files>>
    BY <1>3 DEF RevealClock, At, Oldest
  <2>2. \/ proc' = [proc EXCEPT ![p].todo = @ \ {r}]
        \/ proc' = [proc EXCEPT ![p].pc = "revealScan", ![p].cur = r, ![p].clock = now,
                                ![p].body = Commitment(rows[r].output_hashes, rows[r].salt)]
    BY <1>3 DEF RevealClock
  <2>3. \/ proc'[p].pc = "reveals" /\ proc'[p].todo \subseteq proc[p].todo
        \/ /\ proc'[p].pc = "revealScan" /\ proc'[p].cur = r
           /\ proc'[p].todo = proc[p].todo
    BY <1>1, <2>1, <2>2 DEF Locals
  <2> QED
    BY <2>1, <2>3, LoneRevealing DEF RevealPcs
<1>4. CASE RevealRecover(p)
  <2>1. PICK e \in MostRecent(Authored("reveal", Cur(p))) :
           SetRow(Cur(p), record_reveal(rows[Cur(p)], e.tx.id))
    BY <1>4 DEF RevealRecover
  <2>2. proc[p].pc \in RevealPcs /\ NextRound(p, "reveals") /\ files' = files
    BY <1>4 DEF RevealRecover, At, RevealPcs
  <2> QED
    BY <2>1, <2>2, RevealingRow, LoneSettled DEF record_reveal, Row
<1>5. CASE RevealMissed(p)
  <2>1. /\ proc[p].pc \in RevealPcs /\ NextRound(p, "reveals") /\ files' = files
        /\ SetRow(Cur(p), record_reveal_miss(rows[Cur(p)]))
    BY <1>5 DEF RevealMissed, At, RevealPcs
  <2>2. rows[Cur(p)] \in Row /\ rows[Cur(p)].sidecar_state = "COMMITTED"
    BY <2>1, RevealingRow DEF LoneInv, ReadingOK, Cur
  <2> QED
    BY <2>1, <2>2, LoneSettled DEF record_reveal_miss, Row
<1>6. CASE RevealSigned(p)
  <2>1. /\ proc[p].pc \in RevealPcs /\ UNCHANGED <<rows, files>>
        /\ proc' = [proc EXCEPT ![p].pc = "revealSend"]
    BY <1>6 DEF RevealSigned, At, RevealPcs
  <2>2. /\ proc'[p].pc = "revealSend" /\ proc'[p].cur = proc[p].cur
        /\ proc'[p].todo = proc[p].todo
    BY <1>1, <2>1 DEF Locals
  <2> QED
    BY <2>1, <2>2, LoneRevealing DEF RevealPcs
<1>7. CASE RevealSignerFails(p)
  <2>1. proc'[p].pc \notin ReadingPcs
    BY <1>1, <1>7, StopEffect DEF RevealSignerFails, IdleLocals, ReadingPcs, ScorePcs, RevealPcs
  <2> QED
    BY <1>7, <2>1, LoneQuiet DEF RevealSignerFails
<1>8. CASE RevealBroadcast(p)
  <2>1. /\ proc[p].pc \in RevealPcs /\ UNCHANGED <<rows, files>>
        /\ proc' = [proc EXCEPT ![p].pc = "revealWait",
                                ![p].tx = MemoTx("reveal", Cur(p), proc[p].body)]
    BY <1>8 DEF RevealBroadcast, At, RevealPcs
  <2>2. /\ proc'[p].pc = "revealWait" /\ proc'[p].cur = proc[p].cur
        /\ proc'[p].todo = proc[p].todo
    BY <1>1, <2>1 DEF Locals
  <2> QED
    BY <2>1, <2>2, LoneRevealing DEF RevealPcs
<1>9. CASE RevealLowBalance(p)
  <2>1. /\ proc[p].pc \in RevealPcs /\ NextRound(p, "reveals") /\ UNCHANGED <<rows, files>>
    BY <1>9 DEF RevealLowBalance, At, RevealPcs
  <2>2. proc'[p].pc = "reveals" /\ proc'[p].todo \subseteq proc[p].todo
    BY <1>1, <2>1, NextRoundEffect
  <2> QED
    BY <2>1, <2>2, LoneRevealing DEF RevealPcs
<1>10. CASE RevealConfirmed(p)
  <2>1. /\ proc[p].pc \in RevealPcs /\ NextRound(p, "reveals") /\ files' = files
        /\ SetRow(Cur(p), record_reveal(rows[Cur(p)], proc[p].tx.id))
    BY <1>10 DEF RevealConfirmed, At, RevealPcs
  <2> QED
    BY <2>1, RevealingRow, LoneSettled DEF record_reveal, Row
<1> QED
  BY <1>2, <1>3, <1>4, <1>5, <1>6, <1>7, <1>8, <1>9, <1>10 DEF RevealPhase

\* The walk relies on nothing it read of the rows, and writes only windows.
LEMMA LoneWalkPhase ==
    ASSUME IInv, LoneInv, NEW p \in Procs, Lone(p), WalkPhase(p)
    PROVE  LoneInv' /\ NothingTakenBack
<1> USE DEF storeVars
<1>1. /\ proc \in [Procs -> Locals] /\ proc[p] \in Locals
      /\ rows \in [Rounds -> Row] /\ cursor \in Nat /\ feed \in Seq(Announcements)
  BY DEF IInv, TypeOK
<1>2. ASSUME proc'[p].pc \in {"walk", "walkAdvance", "commits"}
      PROVE  proc'[p].pc \notin ReadingPcs
  BY <1>2 DEF ReadingPcs, ScorePcs, RevealPcs
<1>3. CASE BeginWalk(p)
  <2>1. proc'[p].pc = "walk"
    BY <1>1, <1>3 DEF BeginWalk, Locals
  <2> QED
    BY <1>2, <1>3, <2>1, LoneQuiet DEF BeginWalk
<1>4. CASE WalkRecord(p)
  <2> DEFINE a   == feed[cursor + 1]
             new == record_announcement_windows(rows[a.round], a.windows)
  <2>1. proc[p].pc \in LockedPcs
    BY <1>4 DEF WalkRecord, At, LockedPcs
  <2>2. Len(feed) \in Nat /\ proc[p].upto <= Len(feed) /\ proc[p].upto \in Nat
    BY <1>1, <2>1, Holding DEF LocalOK, Locals
  <2>3. cursor + 1 \in 1 .. Len(feed)
    BY <1>1, <1>4, <2>2 DEF WalkRecord
  <2>4. a \in Announcements
    BY <1>1, <2>3
  <2>5. a.round \in Rounds /\ rows[a.round] \in Row
    BY <1>1, <2>4 DEF Announcements
  <2>6. rows' = [rows EXCEPT ![a.round] = new] /\ files' = files
    BY <1>4 DEF WalkRecord, SetRow
  <2>7. Sound(rows[a.round], files[a.round])
    BY <2>5 DEF LoneInv, RowsKept, Sound
  <2>8. /\ new.output_hashes = rows[a.round].output_hashes
        /\ new.salt = rows[a.round].salt
        /\ new.commitment_hash = rows[a.round].commitment_hash
        /\ \/ new.sidecar_state = rows[a.round].sidecar_state
           \/ /\ rows[a.round].sidecar_state = "ABSENT"
              /\ new.sidecar_state = "DISCOVERED"
    BY <2>5 DEF record_announcement_windows, Row
  <2>9. rows[a.round].sidecar_state = "ABSENT" => rows[a.round].salt = 0
    BY <2>5 DEF IInv, RowsOK, RowOK
  <2> HIDE DEF a, new
  <2>10. Sound(new, files[a.round]) /\ Lasting(rows[a.round], new)
    BY <2>7, <2>8, <2>9 DEF Sound, RowKept, RowBound, Lasting, ScoredOrFurther
  <2>11. proc'[p].pc = "walkAdvance"
    BY <1>1, <1>4 DEF WalkRecord, Locals
  <2> QED
    BY <1>1, <1>2, <2>5, <2>6, <2>10, <2>11, LoneWrite
<1>5. CASE WalkAdvance(p)
  <2>1. proc'[p].pc = "walk"
    BY <1>1, <1>5 DEF WalkAdvance, Locals
  <2> QED
    BY <1>2, <1>5, <2>1, LoneQuiet DEF WalkAdvance
<1>6. CASE WalkReject(p)
  <2>1. proc'[p].pc = "walkAdvance"
    BY <1>1, <1>6 DEF WalkReject, Locals
  <2> QED
    BY <1>2, <1>6, <2>1, LoneQuiet DEF WalkReject
<1>7. CASE BeginCommits(p)
  <2>1. proc'[p].pc = "commits"
    BY <1>1, <1>7 DEF BeginCommits, IdleLocals
  <2> QED
    BY <1>2, <1>7, <2>1, LoneQuiet DEF BeginCommits
<1> QED
  BY <1>3, <1>4, <1>5, <1>6, <1>7 DEF WalkPhase

\* The commit phase binds the outputs of the file; an unfunded one gives the
\* round up, which is why RowBound is of funded commits.
LEMMA LoneCommitPhase ==
    ASSUME IInv, LoneInv, NEW p \in Procs, Lone(p), CommitPhase(p)
    PROVE  LoneInv' /\ NothingTakenBack
<1> USE DEF storeVars
<1>1. proc \in [Procs -> Locals] /\ proc[p] \in Locals /\ TypeOK
  BY DEF IInv, TypeOK
<1>2. ASSUME proc'[p].pc \in CommitPcs \cup {"commits", "idle"}
      PROVE  proc'[p].pc \notin ReadingPcs
  BY <1>2 DEF CommitPcs, ReadingPcs, ScorePcs, RevealPcs
<1>3. ASSUME NextRound(p, "commits") PROVE proc'[p].pc \notin ReadingPcs
  BY <1>1, <1>2, <1>3, NextRoundEffect
<1>4. ASSUME Stop(p) PROVE proc'[p].pc \notin ReadingPcs
  BY <1>1, <1>2, <1>4, StopEffect DEF IdleLocals
<1>5. ASSUME NEW r \in Rounds, CommitClock(p, r) PROVE LoneInv' /\ NothingTakenBack
  <2>1. proc[p].pc = "commits" /\ UNCHANGED <<rows, files>>
    BY <1>5 DEF CommitClock, At
  <2>2. \/ proc' = [proc EXCEPT ![p].todo = @ \ {r}]
        \/ proc' = [proc EXCEPT ![p].pc = "commitScan", ![p].cur = r, ![p].clock = now]
    BY <1>5 DEF CommitClock
  <2>3. proc'[p].pc \in {"commits", "commitScan"}
    BY <1>1, <2>1, <2>2 DEF Locals
  <2> QED
    BY <1>2, <2>1, <2>3, LoneQuiet DEF CommitPcs
<1>6. ASSUME NEW e, proc[p].pc \in CommitPcs, NextRound(p, "commits"), files' = files,
             SetRow(Cur(p), record_commit_submitted(rows[Cur(p)], e)),
             rows[Cur(p)].salt # 0
      PROVE  LoneInv' /\ NothingTakenBack
  <2> DEFINE new == record_commit_submitted(rows[Cur(p)], e)
  <2>1. /\ new.sidecar_state = "COMMITTED" /\ new.salt = rows[Cur(p)].salt
        /\ new.output_hashes = rows[Cur(p)].output_hashes
        /\ new.commitment_hash = rows[Cur(p)].commitment_hash
    BY <1>6, CommittingRow DEF record_commit_submitted, Row
  <2> HIDE DEF new
  <2> QED
    BY <1>3, <1>6, <2>1, LoneCommitting DEF new
<1>7. CASE CommitRecover(p)
  <2>1. /\ proc[p].pc \in CommitPcs /\ NextRound(p, "commits") /\ files' = files
        /\ rows \in [Rounds -> Row]
    BY <1>1, <1>7 DEF CommitRecover, At, CommitPcs, TypeOK
  <2>2. PICK e \in MostRecent(Authored("commit", Cur(p))) :
           rows' = IF Recoverable(rows[Cur(p)], e.tx.body)
                   THEN [rows EXCEPT ![Cur(p)] = record_commit_submitted(@, e.tx.id)]
                   ELSE rows
    BY <1>7 DEF CommitRecover
  <2>3. CASE Recoverable(rows[Cur(p)], e.tx.body)
    <3>1. /\ SetRow(Cur(p), record_commit_submitted(rows[Cur(p)], e.tx.id))
          /\ rows[Cur(p)].salt # 0
      BY <2>1, <2>2, <2>3, CommittingRow DEF SetRow, Recoverable
    <3> QED
      BY <1>6, <2>1, <3>1
  <2>4. CASE ~ Recoverable(rows[Cur(p)], e.tx.body)
    BY <1>3, <2>1, <2>2, <2>4, LoneQuiet
  <2> QED
    BY <2>3, <2>4
<1>8. CASE CommitWindowClosed(p) \/ CommitSignerFails(p)
  BY <1>3, <1>8, LoneQuiet DEF CommitWindowClosed, CommitSignerFails
<1>9. CASE CommitPersist(p)
  <2> DEFINE row  == rows[Cur(p)]
             salt == SaltFor(row)
             body == Commitment(row.output_hashes, salt)
             new  == record_commit_pending(row, salt, body, row.windows)
  <2>1. proc[p].pc \in CommitPcs /\ files' = files
    BY <1>9 DEF CommitPersist, At, CommitPcs
  <2>2. row \in Row /\ Committable(Cur(p)) /\ salt # 0
    BY <1>1, <2>1, CommittingRow DEF SaltFor, TypeOK, Row
  <2>3. SetRow(Cur(p), new) /\ proc' = [proc EXCEPT ![p].pc = "commitSend", ![p].body = body]
    BY <1>9 DEF CommitPersist
  <2>4. proc'[p].pc = "commitSend"
    BY <1>1, <2>3 DEF Locals
  <2>5. /\ new.sidecar_state = "SCORED" /\ new.salt = salt
        /\ new.output_hashes = row.output_hashes /\ new.commitment_hash = body
    BY <2>2 DEF record_commit_pending, Row, Committable
  <2>6. new.commitment_hash = Commitment(new.output_hashes, new.salt)
    BY <2>5
  <2> HIDE DEF new, salt
  <2> QED
    BY <1>2, <2>1, <2>2, <2>3, <2>4, <2>5, <2>6, LoneCommitting DEF CommitPcs
<1>10. CASE CommitBroadcast(p)
  <2>1. proc'[p].pc = "commitWait"
    BY <1>1, <1>10 DEF CommitBroadcast, Locals
  <2> QED
    BY <1>2, <1>10, <2>1, LoneQuiet DEF CommitBroadcast, CommitPcs
<1>11. CASE CommitLowBalance(p)
  <2> DEFINE r   == Cur(p)
             new == record_commit_skip(rows[r])
  <2>1. /\ proc[p].pc \in CommitPcs /\ NextRound(p, "commits") /\ files' = files
        /\ rows \in [Rounds -> Row] /\ "low_balance" \in Adversities
        /\ rows' = [rows EXCEPT ![r] = new]
    BY <1>1, <1>11 DEF CommitLowBalance, Adverse, SetRow, At, CommitPcs, TypeOK
  <2>2. r \in Rounds /\ rows[r] \in Row /\ rows[r].sidecar_state = "SCORED"
    BY <2>1, CommittingRow DEF Committable
  <2>3. new.sidecar_state = "SKIPPED"
    BY <2>2 DEF record_commit_skip, Row
  <2> HIDE DEF r, new
  <2>4. Sound(new, files[r]) /\ Lasting(rows[r], new)
    BY <2>1, <2>2, <2>3 DEF Sound, RowKept, Lasting, ScoredOrFurther
  <2> QED
    BY <1>3, <2>1, <2>2, <2>4, LoneWrite
<1>12. CASE CommitConfirmed(p)
  <2>1. /\ proc[p].pc = "commitWait" /\ proc[p].pc \in CommitPcs
        /\ NextRound(p, "commits") /\ files' = files
        /\ SetRow(Cur(p), record_commit_submitted(rows[Cur(p)], proc[p].tx.id))
    BY <1>12 DEF CommitConfirmed, At, CommitPcs
  <2>2. rows[Cur(p)].salt # 0
    BY <2>1, CommittingRow, Holding DEF HolderOK, Cur
  <2> QED
    BY <1>6, <2>1, <2>2
<1>13. CASE EndPass(p) \/ SubmissionFailed(p)
  BY <1>4, <1>13, LoneQuiet DEF EndPass, SubmissionFailed
<1> QED
  BY <1>5, <1>7, <1>8, <1>9, <1>10, <1>11, <1>12, <1>13 DEF CommitPhase

LEMMA LoneInit ==
    ASSUME Init PROVE LoneInv
<1>1. \A p \in Procs : proc[p].pc = "idle"
  BY DEF Init, IdleLocals
<1>2. RowsKept
  BY DEF Init, AbsentRow, RowsKept, RowKept, RowBound, ScoredOrFurther
<1> QED
  BY <1>1, <1>2 DEF LoneInv, ReadingOK, RevealPcs

LEMMA LoneStep ==
    ASSUME NEW p \in Procs, Lone(p), IInv, LoneInv, [Next]_vars
    PROVE  LoneInv' /\ NothingTakenBack
<1>1. ASSUME UNCHANGED <<rows, files, proc>> PROVE LoneInv' /\ NothingTakenBack
  <2>1. ReadingOK(proc[p])'
    BY <1>1 DEF LoneInv, ReadingOK
  <2> QED
    BY <1>1, <2>1, LoneStay
<1>2. CASE UNCHANGED vars
  BY <1>1, <1>2 DEF vars, storeVars
<1>3. ASSUME NEW q \in Procs, Pass(q) PROVE LoneInv' /\ NothingTakenBack
  <2>1. q = p
    BY DEF Lone
  <2> QED
    BY <1>3, <2>1, LoneScorePhase, LoneRevealPhase, LoneWalkPhase, LoneCommitPhase DEF Pass
<1>4. ASSUME NEW q \in Procs, Crash(q) PROVE LoneInv' /\ NothingTakenBack
  <2>1. q = p /\ Stop(p) /\ UNCHANGED <<rows, files>>
    BY <1>4 DEF Lone, Crash, storeVars
  <2>2. proc'[p].pc \notin ReadingPcs
    BY <2>1, StopEffect DEF IInv, IdleLocals, ReadingPcs, ScorePcs, RevealPcs
  <2> QED
    BY <2>1, <2>2, LoneQuiet
<1>5. ASSUME NEW r \in Rounds, LoseHashesFile(r) PROVE FALSE
  BY <1>5 DEF LoseHashesFile, Adverse, Lone
<1>6. CASE PublishRound \/ Network \/ \E r \in 1 .. latest, w \in WindowSet : Announce(r, w)
  BY <1>1, <1>6 DEF PublishRound, Network, Announce, storeVars
<1> QED
  BY <1>2, <1>3, <1>4, <1>5, <1>6 DEF Next, Environment

\* With one process on the store and its hashes files kept, what was scored last
\* is what a commit hides: no row of it is taken back.
THEOREM LoneInvariance ==
    ASSUME NEW p \in Procs, Lone(p)
    PROVE  Spec => []LoneInv
<1>1. Init => LoneInv
  BY LoneInit
<1>2. LoneInv /\ IInv /\ [Next]_vars => LoneInv'
  BY LoneStep
<1> QED
  BY <1>1, <1>2, Invariance, PTL DEF Spec

\* Neither a deferred comparison nor a repeated score takes a committed round of
\* a lone process back below COMMITTED (score.py keeps the lifecycle state).
THEOREM RoundsAreNotTakenBack ==
    ASSUME NEW p \in Procs, Procs = {p}, "lost_file" \notin Adversities
    PROVE  Spec => NoDowngrade
<1> USE DEF Lone
<1>1. LoneInv /\ IInv /\ [Next]_vars =>
         [\A r \in Rounds : rows[r].sidecar_state \in {"COMMITTED", "REVEALED"} =>
             rows'[r].sidecar_state \in {"COMMITTED", "REVEALED"}]_vars
  BY LoneStep DEF NothingTakenBack, Lasting
<1> QED
  BY <1>1, Invariance, LoneInvariance, PTL DEF Spec, NoDowngrade

\* A commit that a lone process knows of can be revealed from the store: the
\* stored outputs and salt reproduce it (reveal.py's guard never gives up), if
\* commits are funded, for an unfunded round may be scored and sent again.
THEOREM CommittedCanBeRevealed ==
    ASSUME NEW p \in Procs, Procs = {p},
           "lost_file" \notin Adversities, "low_balance" \notin Adversities
    PROVE  Spec => []CommittedIsRevealable
<1> USE DEF Lone
<1>1. IInv /\ LoneInv => CommittedIsRevealable
  <2> SUFFICES ASSUME IInv, LoneInv, NEW r \in get_rounds_pending_reveal(rows)
               PROVE  Opens(rows[r])
    BY DEF CommittedIsRevealable
  <2>1. /\ r \in Rounds /\ rows[r].sidecar_state = "COMMITTED"
        /\ RowOK(rows[r]) /\ RowKept(rows[r], files[r]) /\ RowBound(rows[r])
    BY DEF get_rounds_pending_reveal, IInv, RowsOK, LoneInv, RowsKept
  <2> QED
    BY <2>1 DEF RowOK, RowKept, RowBound, ScoredOrFurther, Opens
<1> QED
  BY <1>1, Invariance, LoneInvariance, PTL

-----------------------------------------------------------------------------
(* One body for a round, if commits are funded besides.                    *)

\* Outputs are written to the hashes file and to the row in separate steps.
LEMMA FilesOrRows ==
    ASSUME [Next]_vars
    PROVE  files' = files \/ rows' = rows
<1>1. CASE UNCHANGED vars
  BY <1>1 DEF vars, storeVars
<1>2. ASSUME NEW p \in Procs, ScorePhase(p) PROVE files' = files \/ rows' = rows
  BY <1>2 DEF ScorePhase, NoEligibleRound, ReadRound, ReadHashes, ComparisonPending,
              RecordDeferred, ScoringUnavailable, RecordInputVerified,
              RecordScoringFailure, ScoringRaises, PersistHashes, RecordScored,
              LockHeld, storeVars
<1>3. ASSUME NEW p \in Procs, RevealPhase(p) PROVE files' = files
  BY <1>3 DEF RevealPhase, BeginChainPhases, RevealClock, RevealRecover, RevealMissed,
              RevealSigned, RevealSignerFails, RevealBroadcast, RevealLowBalance,
              RevealConfirmed, storeVars
<1>4. ASSUME NEW p \in Procs, WalkPhase(p) PROVE files' = files
  BY <1>4 DEF WalkPhase, BeginWalk, WalkRecord, WalkAdvance, WalkReject, BeginCommits,
              storeVars
<1>5. ASSUME NEW p \in Procs, CommitPhase(p) PROVE files' = files
  BY <1>5 DEF CommitPhase, CommitClock, CommitRecover, CommitWindowClosed,
              CommitSignerFails, CommitPersist, CommitBroadcast, CommitLowBalance,
              CommitConfirmed, SubmissionFailed, EndPass, storeVars
<1>6. CASE Environment
  BY <1>6 DEF Environment, Crash, LoseHashesFile, PublishRound, Announce, Network,
              storeVars
<1> QED
  BY <1>1, <1>2, <1>3, <1>4, <1>5, <1>6 DEF Next, Pass

\* Once there is a salt the commitment stands: the outputs that are mixed with it
\* are those of the hashes file, before and after a write of the row.
LEMMA CommitmentStands ==
    ASSUME NEW r \in Rounds, rows[r].salt # 0, rows'[r].salt = rows[r].salt,
           files' = files \/ rows' = rows,
           RowKept(rows[r], files[r]), RowBound(rows[r]),
           RowKept(rows'[r], files'[r]), RowBound(rows'[r])
    PROVE  rows'[r].commitment_hash = rows[r].commitment_hash
<1>1. CASE files' = files
  <2>1. /\ rows[r].output_hashes = files[r]
        /\ rows[r].commitment_hash = Commitment(rows[r].output_hashes, rows[r].salt)
    BY DEF RowKept, RowBound
  <2>2. /\ rows'[r].output_hashes = files'[r]
        /\ rows'[r].commitment_hash = Commitment(rows'[r].output_hashes, rows'[r].salt)
    BY DEF RowKept, RowBound
  <2> QED
    BY <1>1, <2>1, <2>2
<1> QED
  BY <1>1

\* What was sent for a round was sent after its row got a salt.
LEMMA SentHasSalt ==
    ASSUME IInv, NEW t \in sent
    PROVE  t.round \in Rounds /\ rows[t.round].salt # 0
<1>1. t.round \in Rounds /\ t.kind \in {"commit", "reveal"}
  BY DEF IInv, TypeOK, LedgerTypeOK, Transactions
<1>2. CASE t.kind = "commit"
  BY <1>1, <1>2 DEF IInv, EveryCommitOpenable, Broadcast
<1>3. CASE t.kind = "reveal"
  BY <1>1, <1>3 DEF IInv, SentOK, RevealOK, RowsOK, RowOK
<1> QED
  BY <1>1, <1>2, <1>3

LEMMA BodiesStandStep ==
    ASSUME NEW p \in Procs, Lone(p), "low_balance" \notin Adversities,
           IInv, LoneInv, LoneInv', BodiesStand, [Next]_vars
    PROVE  BodiesStand'
<1>1. Move /\ (files' = files \/ rows' = rows)
  BY IInvStep, FilesOrRows
<1>2. ASSUME NEW t \in sent PROVE t.body = rows'[t.round].commitment_hash
  <2>1. t.round \in Rounds /\ rows[t.round].salt # 0
    BY SentHasSalt
  <2>2. rows'[t.round].salt = rows[t.round].salt
    BY <1>1, <2>1 DEF Move, RowMove, TimeMove, SendMove, KeepsSeal, Sealing
  <2>3. /\ RowKept(rows[t.round], files[t.round]) /\ RowBound(rows[t.round])
        /\ RowKept(rows'[t.round], files'[t.round]) /\ RowBound(rows'[t.round])
    BY <2>1 DEF LoneInv, RowsKept
  <2>4. rows'[t.round].commitment_hash = rows[t.round].commitment_hash
    BY <1>1, <2>1, <2>2, <2>3, CommitmentStands
  <2> QED
    BY <2>4 DEF BodiesStand
<1>3. CASE sent' = sent
  BY <1>2, <1>3 DEF BodiesStand
<1>4. CASE SendMove
  BY <1>2, <1>4 DEF BodiesStand, SendMove
<1> QED
  BY <1>1, <1>3, <1>4 DEF Move, RowMove, TimeMove

\* What a lone process with funded commits has sent is what its rows commit to.
THEOREM BodiesInvariance ==
    ASSUME NEW p \in Procs, Lone(p), "low_balance" \notin Adversities
    PROVE  Spec => []BodiesStand
<1>1. Init => BodiesStand
  BY DEF Init, LedgerInit, BodiesStand
<1>2. BodiesStand /\ IInv /\ LoneInv /\ LoneInv' /\ [Next]_vars => BodiesStand'
  BY BodiesStandStep
<1> QED
  BY <1>1, <1>2, Invariance, LoneInvariance, PTL DEF Spec

\* A lone process never equivocates over a round: what it sends again after a
\* kill, and what it reveals, is the body it sent first, for the salt is reused
\* and a repeated score of a funded round cannot reach a row that has one.
THEOREM OneBody ==
    ASSUME NEW p \in Procs, Procs = {p},
           "lost_file" \notin Adversities, "low_balance" \notin Adversities
    PROVE  Spec => []OneBodyPerRound
<1> USE DEF Lone
<1>1. BodiesStand => OneBodyPerRound
  BY DEF BodiesStand, OneBodyPerRound
<1> QED
  BY <1>1, BodiesInvariance, PTL

\* And whatever commit of its own a lone process finds on chain, it can recover:
\* the safety half of LandedCommitIsRecovered.
THEOREM LandedCanBeRecovered ==
    ASSUME NEW p \in Procs, Procs = {p},
           "lost_file" \notin Adversities, "low_balance" \notin Adversities
    PROVE  Spec => []LandedIsRecoverable
<1> USE DEF Lone
<1>1. IInv /\ BodiesStand => LandedIsRecoverable
  <2> SUFFICES ASSUME IInv, BodiesStand, NEW e \in ledger
               PROVE  Recoverable(rows[e.tx.round], e.tx.body)
    BY DEF LandedIsRecoverable
  <2>1. e.tx \in sent
    BY DEF IInv, SentOK
  <2>2. /\ rows[e.tx.round].salt # 0 /\ RowOK(rows[e.tx.round])
        /\ e.tx.body = rows[e.tx.round].commitment_hash
    BY <2>1, SentHasSalt DEF IInv, RowsOK, BodiesStand
  <2> QED
    BY <2>2 DEF RowOK, Recoverable
<1> QED
  BY <1>1, Invariance, BodiesInvariance, PTL

=============================================================================
