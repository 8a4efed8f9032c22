----------------------------- MODULE SealedRound -----------------------------
(***************************************************************************)
(* What commit-reveal promises for each round, whatever passes, crashes    *)
(* and resubmissions stand behind it: a round is sealed at most once, with *)
(* a body and the time it may be opened, and from then on neither changes; *)
(* it is opened only after it was sealed, only with the sealed body, and   *)
(* never before its time.                                                  *)
(***************************************************************************)
EXTENDS Naturals

CONSTANTS Round, Body, Unsealed

VARIABLES
    time,      \* close time of the latest validated ledger
    sealed,    \* [body, opens] of each round, or Unsealed
    opened     \* the pairs <<round, body>> ever disclosed

vars == <<time, sealed, opened>>

Init == /\ time = 0
        /\ sealed = [r \in Round |-> Unsealed]
        /\ opened = {}

Pass == /\ time' > time
        /\ UNCHANGED <<sealed, opened>>

Seal(r) == /\ sealed[r] = Unsealed
           /\ sealed'[r] \in [body : Body, opens : Nat]
           /\ \A q \in Round \ {r} : sealed'[q] = sealed[q]
           /\ UNCHANGED <<time, opened>>

Open(r) == /\ sealed[r] # Unsealed
           /\ time >= sealed[r].opens
           /\ opened' = opened \cup {<<r, sealed[r].body>>}
           /\ UNCHANGED <<time, sealed>>

Next == Pass \/ \E r \in Round : Seal(r) \/ Open(r)

Spec == Init /\ [][Next]_vars
=============================================================================
