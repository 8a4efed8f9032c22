---------------------------- MODULE MCParticipation ----------------------------
(***************************************************************************)
(* Instances of Participation for TLC.                                     *)
(***************************************************************************)
EXTENDS ParticipationProperties, TLC

CONSTANTS loop, oneshot, none, o1, o2

Window(co, cc, ro, rc) == [commit_opens |-> co, commit_closes |-> cc,
                           reveal_opens |-> ro, reveal_closes |-> rc]

\* EarlyWindow leaves a gap between commits and reveals, ShortWindow none;
\* LateWindow is what a repeated announcement could move ShortWindow to.
EarlyWindow == Window(0, 1, 2, 3)
LateWindow  == Window(1, 2, 2, 3)
ShortWindow == Window(0, 1, 1, 2)

OneWindow  == {EarlyWindow}
OneShortWindow == {ShortWindow}
TwoWindows == {ShortWindow, LateWindow}

JustLoop == {loop}
OneShot  == {oneshot}
Nobody   == {}

OneOutput  == {o1}
TwoOutputs == {o1, o2}

\* Which output is which is nothing the code looks at.
OutputSymmetry == Permutations(TwoOutputs)

NoRound  == {}

\* A round skipped for want of funds, or whose hashes file is lost, may be
\* scored again after its commit was sent: MCUnrevealable shows what follows.
NeverScoredAgain == AdversityKinds \ {"low_balance", "lost_file"}
ScoredAgain      == {"crash", "low_balance", "lost_file"}
SkipAfterSend    == {"crash", "low_balance"}
LiveFaults       == {"crash", "expire", "signer"}
=============================================================================
