--------------------------- MODULE PublisherAccount ---------------------------
(***************************************************************************)
(* Which account a participation pass watches and writes to when the       *)
(* foundation moves to another one (participate.py, _resolve_publisher),   *)
(* and what becomes of the announcements and commits on each account.      *)
(* The foundation's accounts, its configuration endpoint and its list of   *)
(* rounds are outside; reading the account's history is ChainWatcher.  A   *)
(* commit is scanned for, sent and waited for here as in Participation,    *)
(* where its content, its windows and the balance are; here the windows    *)
(* stay open, and the account may become too busy for the scan.            *)
(***************************************************************************)
EXTENDS Integers, Sequences

CONSTANTS
    Account, Round,
    NoAccount,
    MaxRotations,  \* bound: moves of the foundation
    MaxMishaps     \* bound: passes ended midway, transactions dropped

VARIABLES
    override,    \* the operator's publisher address, or NoAccount
    publisher,   \* the account the foundation uses
    announced,   \* the well-formed announcements on each account, in order
    listed,      \* the rounds that /api/scoring/rounds returns
    memos,       \* this validator's commits in the order they were sent
    cached,      \* the row of table foundation_publisher
    cursors,      \* of each account: how many announcements are handled
    windows,     \* the rounds whose windows are recorded
    committed,   \* the rounds whose commit_tx_hash is recorded
    pass,        \* the pass: where it is, the account it uses, how much of the
                 \* account it read, the round it is at
    answered,    \* the configuration endpoint answered this pass
    current,     \* the accounts the foundation used during this pass
    skipped,     \* rounds whose announcement was passed as an AnnouncementError
    rotations, mishaps

foundation == <<override, publisher, announced, listed, rotations>>
store == <<cached, cursors, windows, committed>>
vars == <<foundation, memos, store, pass, answered, current, skipped, mishaps>>

PCs == {"idle", "poll", "walk", "advance", "commit", "signed", "sent"}
Passes == [pc : PCs, to : Account, upto : Nat, round : Round]

\* A transaction is on its way, or validated and among the entries the scan
\* reads, or validated and older than them, or past its last ledger; it is
\* abandoned when its pass ended while it was on its way.
Memos == [to : Account, round : Round, state : {"flying", "visible", "buried", "dropped"},
          abandoned : BOOLEAN]

TypeOK == /\ override \in Account \cup {NoAccount}
          /\ publisher \in Account
          /\ announced \in [Account -> Seq(Round)]
          /\ listed \subseteq Round
          /\ memos \in Seq(Memos)
          /\ cached \in Account \cup {NoAccount}
          /\ cursors \in [Account -> Nat]
          /\ windows \subseteq Round
          /\ committed \subseteq Round
          /\ pass \in Passes
          /\ answered \in BOOLEAN
          /\ current \subseteq Account
          /\ skipped \subseteq Round
          /\ rotations \in Nat /\ mishaps \in Nat

Init == /\ override \in Account \cup {NoAccount}
        /\ publisher \in Account
        /\ announced = [a \in Account |-> << >>]
        /\ listed = {}
        /\ memos = << >>
        /\ cached = NoAccount
        /\ cursors = [a \in Account |-> 0]
        /\ windows = {}
        /\ committed = {}
        /\ pass = [pc |-> "idle", to |-> publisher, upto |-> 0,
                   round |-> CHOOSE r \in Round : TRUE]
        /\ answered = FALSE
        /\ current = {publisher}
        /\ skipped = {}
        /\ rotations = 0
        /\ mishaps = 0

-----------------------------------------------------------------------------
(* The foundation.                                                         *)

Posted(r) == \E a \in Account : \E i \in 1 .. Len(announced[a]) : announced[a][i] = r

\* A round is frozen, listed and announced; nothing orders the list and the
\* chain for a reader.
List(r) == /\ r \notin listed
           /\ listed' = listed \cup {r}
           /\ UNCHANGED <<override, publisher, announced, rotations, memos, store, pass, answered,
                          current, skipped, mishaps>>

Announce(r) == /\ ~Posted(r)
               /\ announced' = [announced EXCEPT ![publisher] = Append(@, r)]
               /\ UNCHANGED <<override, publisher, listed, rotations, memos, store, pass, answered,
                              current, skipped, mishaps>>

\* The foundation moves to account a, maybe back to an earlier one.
Rotate(a) == /\ a # publisher
             /\ rotations < MaxRotations
             /\ rotations' = rotations + 1
             /\ publisher' = a
             /\ current' = current \cup {a}
             /\ UNCHANGED <<override, announced, listed, memos, store, pass, answered, skipped, mishaps>>

-----------------------------------------------------------------------------
(* The pass.                                                               *)

At(pc) == pass.pc = pc
Goto(pc) == pass' = [pass EXCEPT !.pc = pc]

\* What the configuration endpoint does: it gives an address, answers without
\* one, or does not answer.
Answers == {"address", "none", "unreachable"}

\* Mutant: an answer without an address uses the cache.
ResolvedLeniently(answer) ==
    IF override # NoAccount THEN override
    ELSE IF answer = "address" THEN publisher ELSE cached

\* The override, the address fetched, or the cache when the fetch failed.
Resolved(answer) ==
    IF override # NoAccount THEN override
    ELSE CASE answer = "address" -> publisher
           [] answer = "unreachable" -> cached
           [] answer = "none" -> NoAccount

\* _resolve_publisher; without an account the pass is over.
Discover(answer) ==
    /\ At("idle")
    /\ Resolved(answer) # NoAccount
    /\ pass' = [pass EXCEPT !.pc = "poll", !.to = Resolved(answer)]
    /\ cached' = IF override = NoAccount /\ answer = "address" THEN publisher ELSE cached
    /\ answered' = (answer # "unreachable")
    /\ current' = {publisher}
    /\ UNCHANGED <<foundation, memos, cursors, windows, committed, skipped, mishaps>>

\* The watcher reads the account from its own cursor.
Poll == /\ At("poll")
        /\ pass' = [pass EXCEPT !.pc = "walk", !.upto = Len(announced[pass.to])]
        /\ UNCHANGED <<foundation, memos, store, answered, current, skipped, mishaps>>

\* The next announcement: its windows are recorded; or the foundation cannot
\* be reached and the walk ends; or no listed round matches, which is an
\* AnnouncementError.
Walk(reachable) ==
    LET i == cursors[pass.to] + 1
        r == announced[pass.to][i]
    IN /\ At("walk") /\ i <= pass.upto
       /\ \/ ~reachable /\ Goto("commit") /\ UNCHANGED <<windows, skipped>>
          \/ /\ reachable /\ r \in listed
             /\ windows' = windows \cup {r}
             /\ Goto("advance")
             /\ UNCHANGED skipped
          \/ /\ reachable /\ r \notin listed
             /\ skipped' = skipped \cup {r}
             /\ Goto("advance")
             /\ UNCHANGED windows
       /\ UNCHANGED <<foundation, memos, cached, cursors, committed, answered, current, mishaps>>

Walked == /\ At("walk") /\ cursors[pass.to] >= pass.upto
          /\ Goto("commit")
          /\ UNCHANGED <<foundation, memos, store, answered, current, skipped, mishaps>>

\* Mutants: one cursor for all accounts; a refused announcement is not passed.
AdvancedAll == [a \in Account |-> cursors[a] + 1]
AdvancedIfRecorded ==
    [cursors EXCEPT ![pass.to] = IF announced[pass.to][@ + 1] \in windows THEN @ + 1 ELSE @]

\* advance_cursor: the cursor of this account.
Advanced == [cursors EXCEPT ![pass.to] = @ + 1]

Advance == /\ At("advance")
           /\ cursors' = Advanced
           /\ Goto("walk")
           /\ UNCHANGED <<foundation, memos, cached, windows, committed, answered, current,
                          skipped, mishaps>>

\* Mutant: the chain is not looked at.
FoundNever(r) == FALSE

\* find_authored_memo on the account the pass uses.
Found(r) ==
    \E i \in 1 .. Len(memos) :
        memos[i].to = pass.to /\ memos[i].round = r /\ memos[i].state = "visible"

\* submit_commit of a round without a recorded commit, up to the broadcast.
Commit(r) ==
    /\ At("commit")
    /\ r \in windows \ committed
    /\ \/ /\ Found(r)
          /\ committed' = committed \cup {r}
          /\ UNCHANGED pass
       \/ /\ ~Found(r)
          /\ pass' = [pass EXCEPT !.pc = "signed", !.round = r]
          /\ UNCHANGED committed
    /\ UNCHANGED <<foundation, memos, cached, cursors, windows, answered, current, skipped, mishaps>>

\* submit_memo: the transaction is sent, and waited for.
Broadcast ==
    /\ At("signed")
    /\ memos' = Append(memos, [to |-> pass.to, round |-> pass.round, state |-> "flying",
                               abandoned |-> FALSE])
    /\ Goto("sent")
    /\ UNCHANGED <<foundation, store, answered, current, skipped, mishaps>>

\* The transaction the pass waits for.
Awaited == memos[Len(memos)]

\* record_commit_submitted, once it is validated.
Record == /\ At("sent")
          /\ Awaited.state \in {"visible", "buried"}
          /\ committed' = committed \cup {pass.round}
          /\ Goto("commit")
          /\ UNCHANGED <<foundation, memos, cached, cursors, windows, answered, current,
                         skipped, mishaps>>

\* PftlRpcError: its last ledger passed without it, which ends the pass.
SubmissionFailed ==
    /\ At("sent")
    /\ Awaited.state = "dropped"
    /\ Goto("idle")
    /\ UNCHANGED <<foundation, memos, store, answered, current, skipped, mishaps>>

\* The rounds left are not scored, or not in their window.
End == /\ At("commit")
       /\ Goto("idle")
       /\ UNCHANGED <<foundation, memos, store, answered, current, skipped, mishaps>>

Mishap == mishaps < MaxMishaps /\ mishaps' = mishaps + 1

\* The watchdog or the operator kills the pass; at "sent", also a request of
\* submit_and_wait that fails, which says nothing of the transaction.
Kill == /\ ~At("idle")
        /\ Mishap
        /\ Goto("idle")
        /\ memos' = IF At("sent") /\ Awaited.state = "flying"
                    THEN [memos EXCEPT ![Len(memos)].abandoned = TRUE] ELSE memos
        /\ UNCHANGED <<foundation, store, answered, current, skipped>>

-----------------------------------------------------------------------------
(* The ledger.                                                             *)

Outside == <<foundation, store, pass, answered, current, skipped>>

Land(i) == /\ memos[i].state = "flying"
           /\ memos' = [memos EXCEPT ![i].state = "visible"]
           /\ UNCHANGED <<Outside, mishaps>>

Drop(i) == /\ memos[i].state = "flying"
           /\ Mishap
           /\ memos' = [memos EXCEPT ![i].state = "dropped"]
           /\ UNCHANGED Outside

\* The account gets more entries than the scan reads: DEFAULT_ACCOUNT_TX_SCAN_LIMIT.
Bury(a) ==
    /\ memos' = [i \in 1 .. Len(memos) |->
                    IF memos[i].to = a /\ memos[i].state = "visible"
                    THEN [memos[i] EXCEPT !.state = "buried"] ELSE memos[i]]
    /\ memos' # memos
    /\ UNCHANGED <<Outside, mishaps>>

Step == \/ Poll \/ Walked \/ Advance \/ Broadcast \/ Record \/ SubmissionFailed \/ End
        \/ \E r \in Round : Commit(r)

Next == \/ \E r \in Round : List(r) \/ Announce(r)
        \/ \E a \in Account : Rotate(a) \/ Bury(a)
        \/ \E answer \in Answers : Discover(answer)
        \/ \E reachable \in BOOLEAN : Walk(reachable)
        \/ \E i \in 1 .. Len(memos) : Land(i) \/ Drop(i)
        \/ Step \/ Kill

Spec == Init /\ [][Next]_vars

\* The loop starts a pass again and again, and a foundation that is asked
\* again and again answers.  A transaction has a last ledger, so it lands or never will.
FairSpec == /\ Spec
            /\ WF_vars(Step)
            /\ WF_vars(\E i \in 1 .. Len(memos) : Land(i))
            /\ SF_vars(Discover("address"))
            /\ WF_vars(Walk(FALSE) \/ Walk(TRUE)) /\ SF_vars(Walk(TRUE))
==============================================================================
