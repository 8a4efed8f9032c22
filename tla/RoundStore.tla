------------------------------ MODULE RoundStore ------------------------------
(***************************************************************************)
(* One row of the sidecar's SQLite table sidecar_rounds, and the writes    *)
(* and queries of state.py as operators on rows.  Every write of the code  *)
(* is an upsert that commits on its own; here it is the new value of the   *)
(* row.  The three output fingerprints form one value (the queries demand  *)
(* all or none of them), the four window columns one record, and a NULL    *)
(* transaction hash or salt is 0.                                          *)
(***************************************************************************)
EXTENDS Naturals

CONSTANTS
    NumRounds,    \* rounds are numbered 1 .. NumRounds
    Outputs,      \* the possible fingerprints of a scored round
    WindowSet,    \* the commit/reveal windows the foundation may announce
    None          \* SQL NULL

Rounds == 1 .. NumRounds

\* The order validated for every announcement before it is stored.
OrderedWindows(w) == /\ w.commit_opens < w.commit_closes
                     /\ w.commit_closes <= w.reveal_opens
                     /\ w.reveal_opens < w.reveal_closes

WindowRecords == [commit_opens : Nat, commit_closes : Nat,
                  reveal_opens : Nat, reveal_closes : Nat]

ASSUME RoundsAssumption  == NumRounds \in Nat
ASSUME WindowsAssumption == /\ WindowSet \subseteq WindowRecords
                            /\ \A w \in WindowSet : OrderedWindows(w)

-----------------------------------------------------------------------------

InputReadyStates == {"INPUT_PACKAGE_VERIFIED", "SCORED", "COMMITTED",
                     "REVEALED", "SCORING_FAILED", "SKIPPED"}

ScoredOrFurther == {"SCORED", "COMMITTED", "REVEALED"}

\* "ABSENT" is the state of a round that has no row yet.
States == InputReadyStates \cup {"DISCOVERED", "ABSENT"}

\* commit_reveal.compute_commitment_hash: binding and hiding, so the pair of
\* what it hashes; the round, network and master key are fixed by the row.
Commitment(outputs, salt) == <<outputs, salt>>

Commitments == Outputs \X (Nat \ {0})

ASSUME NoneAssumption == None \notin Outputs \cup WindowSet \cup Commitments

Row == [sidecar_state   : States,
        output_hashes   : Outputs \cup {None},
        compared        : BOOLEAN,                  \* comparison_levels_matched
        salt            : Nat,
        commitment_hash : Commitments \cup {None},
        windows         : WindowSet \cup {None},
        commit_tx_hash  : Nat,
        reveal_tx_hash  : Nat,
        reveal_missed   : BOOLEAN]                  \* reveal_error_category

AbsentRow == [sidecar_state   |-> "ABSENT",
              output_hashes   |-> None,
              compared        |-> FALSE,
              salt            |-> 0,
              commitment_hash |-> None,
              windows         |-> None,
              commit_tx_hash  |-> 0,
              reveal_tx_hash  |-> 0,
              reveal_missed   |-> FALSE]

-----------------------------------------------------------------------------
(* The writes.                                                             *)

record_input_verified(row) ==
    [row EXCEPT !.sidecar_state = "INPUT_PACKAGE_VERIFIED"]

\* Mutant: a plain INSERT OR REPLACE, which nulls every column it does not name.
record_score_replacing(row, state, outputs, compared) ==
    [AbsentRow EXCEPT !.sidecar_state = state,
                      !.output_hashes = outputs,
                      !.compared      = compared]

\* A failure outcome carries no fingerprints and no comparison.
record_score(row, state, outputs, compared) ==
    [row EXCEPT !.sidecar_state = state,
                !.output_hashes = outputs,
                !.compared      = compared]

\* Persist-then-submit: everything the reveal needs, the state left alone.
record_commit_pending(row, salt, commitment, windows) ==
    [row EXCEPT !.salt = salt,
                !.commitment_hash = commitment,
                !.windows = windows]

record_commit_submitted(row, tx) ==
    [row EXCEPT !.sidecar_state = "COMMITTED", !.commit_tx_hash = tx]

\* Mutants: the upsert loses its WHERE clause, or half of it.
WindowsFrozenNever(row) == FALSE
WindowsFrozenByCommit(row) == row.commit_tx_hash # 0

\* Windows move freely until a salt or a commit binds the round to them.
WindowsFrozen(row) == row.commit_tx_hash # 0 \/ row.salt # 0

record_announcement_windows(row, windows) ==
    IF row.sidecar_state = "ABSENT"
    THEN [row EXCEPT !.sidecar_state = "DISCOVERED", !.windows = windows]
    ELSE IF WindowsFrozen(row) THEN row ELSE [row EXCEPT !.windows = windows]

record_commit_skip(row) == [row EXCEPT !.sidecar_state = "SKIPPED"]

record_reveal(row, tx) ==
    [row EXCEPT !.sidecar_state = "REVEALED", !.reveal_tx_hash = tx]

record_reveal_miss(row) == [row EXCEPT !.reveal_missed = TRUE]

-----------------------------------------------------------------------------
(* The queries; rows is the table.                                         *)

\* Mutant: the reveal waits for the comparison with the foundation.
ComparedRounds(rows) ==
    {r \in Rounds : /\ rows[r].sidecar_state = "COMMITTED"
                    /\ rows[r].reveal_tx_hash = 0
                    /\ rows[r].compared}

get_rounds_pending_reveal(rows) ==
    {r \in Rounds : /\ rows[r].sidecar_state = "COMMITTED"
                    /\ rows[r].reveal_tx_hash = 0}

get_rounds_pending_commit(rows) ==
    {r \in Rounds : /\ rows[r].sidecar_state = "SCORED"
                    /\ rows[r].commit_tx_hash = 0
                    /\ rows[r].windows # None
                    /\ rows[r].output_hashes # None}
=============================================================================
