------------------------- MODULE PublisherProperties -------------------------
(***************************************************************************)
(* What is true of a pass over the foundation's accounts.  Its names stand *)
(* beside those of ChainWatcher, which reads one account, so that both can *)
(* be reasoned about together.                                             *)
(***************************************************************************)
EXTENDS Integers, Sequences, FiniteSets

CONSTANTS Account, Round, NoAccount, MaxRotations, MaxMishaps

ASSUME PublisherAssumption ==
    /\ NoAccount \notin Account
    /\ Round # {}
    /\ MaxRotations \in Nat /\ MaxMishaps \in Nat

VARIABLES override, publisher, announced, listed, memos, cached, cursors, windows, committed,
          pass, answered, current, skipped, rotations, mishaps

Accounts == INSTANCE PublisherAccount

AccountsSpec == Accounts!Spec
FairAccountsSpec == Accounts!FairSpec

-----------------------------------------------------------------------------

\* An announcement before its account's cursor has its windows recorded, or was
\* refused: a move of the foundation, and a kill, lose none (participate.py:
\* 522-573, state.py:909-945).
PassedIsRecorded ==
    \A a \in Account : /\ cursors[a] <= Len(announced[a])
                       /\ \A i \in 1 .. cursors[a] : announced[a][i] \in windows \cup skipped

AccountsInv == Accounts!TypeOK /\ PassedIsRecorded

\* A pass may have sent again what its scan could not see.
Excused(memo) == memo.state \in {"buried", "dropped"} \/ memo.abandoned

\* A round is sent again to an account only when the scan could not see the
\* earlier commit: a pass ended while it was on its way, or it never landed, or
\* it is older than the entries the scan reads (commit.py:217-243, chain.py:773).
\* What had landed when its pass ended and is recent, or was recorded, is not sent
\* again, whatever was killed; docs/Overview.md:175-176 promises that none is.
ResentOnlyIfUnseen ==
    \A i, j \in 1 .. Len(memos) :
        i < j /\ memos[i].to = memos[j].to /\ memos[i].round = memos[j].round
            => Excused(memos[i])

\* While the configuration endpoint answers, memos go to an account that the
\* foundation used during the pass and not to a retired one (participate.py:
\* 824-828); an override is the operator's word.
SendsToPublisher ==
    [][Len(memos') > Len(memos) => ~answered \/ memos'[Len(memos')].to \in current
                                             \/ memos'[Len(memos')].to = override
      ]_(Accounts!vars)

\* Every announcement on the account that the foundation uses is handled, unless the
\* operator has the sidecar watch another one: there are finitely many, no cursor
\* moves back, and again and again the cursor is behind the last one.
EachHandled ==
    []<>(override \in {publisher, NoAccount} => cursors[publisher] = Len(announced[publisher]))

-----------------------------------------------------------------------------
(* Each account is a feed of announcements, in which the node loses none.  *)

AccountLog(a) == [i \in 1 .. Len(announced[a]) |-> [ledger |-> i, trusted |-> TRUE]]

AccountHandled(a) == {i \in 1 .. Len(announced[a]) : announced[a][i] \in windows \cup skipped}

AccountFeed(a) == INSTANCE AnnouncementFeed
    WITH log <- AccountLog(a), lost <- {}, handled <- AccountHandled(a), position <- cursors[a]

\* What each account promises the walk is what ChainWatcher provides of one.
ImplementsFeeds ==
    /\ \A a \in Account : AccountFeed(a)!Init
    /\ [][\A a \in Account : [AccountFeed(a)!Next]_(AccountFeed(a)!vars)]_(Accounts!vars)

-----------------------------------------------------------------------------
(* Why: the inductive invariant.                                           *)

\* What the pass has read is on its account, and between the windows and the
\* cursor write it is at an announcement it has handled.
ReadIsThere ==
    /\ pass.pc \in {"walk", "advance"} => pass.upto <= Len(announced[pass.to])
    /\ pass.pc = "advance" =>
          /\ cursors[pass.to] < pass.upto
          /\ announced[pass.to][cursors[pass.to] + 1] \in windows \cup skipped

\* A pass that was told the account uses one of this pass, or the operator's.
ToldIsCurrent == pass.pc # "idle" /\ answered => pass.to \in current \cup {override}

\* What was sent is recorded, or to be found, or waited for, or out of sight; a
\* pass that signs has found that all it sent before of this is out of sight.
SentIsAccounted ==
    /\ \A i \in 1 .. Len(memos) :
          \/ memos[i].round \in committed
          \/ Excused(memos[i])
          \/ memos[i].state = "visible"
          \/ pass.pc = "sent" /\ i = Len(memos)
    /\ pass.pc = "signed" =>
          \A i \in 1 .. Len(memos) :
              memos[i].to = pass.to /\ memos[i].round = pass.round => Excused(memos[i])
    /\ pass.pc = "sent" => memos # << >> /\ memos[Len(memos)].round = pass.round

\* A round is announced once, on one account.
AnnouncedOnce ==
    \A a, b \in Account : \A i \in 1 .. Len(announced[a]), j \in 1 .. Len(announced[b]) :
        announced[a][i] = announced[b][j] => a = b /\ i = j

\* Only what was announced is handled.
HandledIsPosted == \A r \in windows \cup skipped : Accounts!Posted(r)

AccountsIInv == /\ AccountsInv
                /\ ResentOnlyIfUnseen
                /\ SentIsAccounted
                /\ ReadIsThere
                /\ ToldIsCurrent
                /\ AnnouncedOnce
                /\ HandledIsPosted
==============================================================================
