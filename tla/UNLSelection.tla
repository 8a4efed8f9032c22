----------------------------- MODULE UNLSelection -----------------------------
(***************************************************************************)
(* Which scored validators go on the UNL (scoring/selector.py, select_unl): *)
(* incumbents keep their seats, open seats go to the best challengers, and *)
(* a further challenger takes a seat only by a score gap over the weakest. *)
(* A selection takes the qualified validators one at a time.  When it is   *)
(* over, the same round may be selected again from its own result, or with *)
(* a better score for one validator: that is how two runs are compared.    *)
(*                                                                         *)
(* A list sorted by rank is the set of its members; a master key is a      *)
(* number in the order of the keys' text.                                  *)
(***************************************************************************)
EXTENDS Integers, FiniteSets

CONSTANTS
    Key,        \* the validators' master keys
    MaxScore,
    Rules       \* the selector parameters a manifest may give

ASSUME SelectionAssumption ==
    /\ Key \subseteq Nat \ {0} /\ IsFiniteSet(Key)
    /\ MaxScore \in Nat
    /\ Rules \subseteq [cutoff : Nat, maxSize : Nat \ {0}, minGap : Nat]

VARIABLES
    score,       \* the response's score of each validator, or Absent
    rule,        \* the parameters of the round's manifest
    previous,    \* previous_unl
    waiting,     \* qualified and not yet placed
    unl,
    alternates,
    repeated,    \* the previous UNL is this selection's own result before
    improved     \* the validator that was seated and now scores more, or 0

vars == <<score, rule, previous, waiting, unl, alternates, repeated, improved>>

Absent == -1

TypeOK == /\ score \in [Key -> Absent .. MaxScore]
          /\ rule \in Rules
          /\ previous \subseteq Key
          /\ waiting \subseteq Key
          /\ unl \subseteq Key
          /\ alternates \subseteq Key
          /\ repeated \in BOOLEAN
          /\ improved \in Key \cup {0}

\* The validators at or above the cutoff.
Qualified(s, r) == {v \in Key : s[v] >= r.cutoff}

\* Mutant: the sort key without the minus.
AboveAscending(v, w) == score[v] < score[w] \/ (score[v] = score[w] /\ v < w)

\* The sort key (-score, master_key).
Ahead(s, v, w) == s[v] > s[w] \/ (s[v] = s[w] /\ v < w)

Above(v, w) == Ahead(score, v, w)

\* min by (score, master_key): of equals, the one that ranks first.
GoesBefore(s, v, w) == s[v] < s[w] \/ (s[v] = s[w] /\ v < w)

Weakest(w) == w \in unl /\ \A u \in unl \ {w} : GoesBefore(score, w, u)

Begin(s, p) ==
    /\ score' = s
    /\ previous' = p
    /\ waiting' = Qualified(s, rule)
    /\ unl' = {}
    /\ alternates' = {}
    /\ UNCHANGED rule

Init == /\ score \in [Key -> Absent .. MaxScore]
        /\ rule \in Rules
        /\ previous \in SUBSET Key
        /\ waiting = Qualified(score, rule)
        /\ unl = {}
        /\ alternates = {}
        /\ repeated = FALSE
        /\ improved = 0

-----------------------------------------------------------------------------

Done == waiting = {}

Full == Cardinality(unl) >= rule.maxSize

\* Mutant: incumbents and challengers are taken in one order.
InTurnTogether == waiting

\* Incumbents are placed before challengers.
InTurn == IF waiting \cap previous # {} THEN waiting \cap previous ELSE waiting

IsNext(v) == v \in InTurn /\ \A w \in InTurn \ {v} : Above(v, w)

Placed(v) == /\ waiting' = waiting \ {v}
             /\ UNCHANGED <<score, rule, previous, repeated, improved>>

\* [:max_size] of the incumbents, or of the first round, and the open seats.
TakeSeat(v) ==
    /\ IsNext(v)
    /\ ~Full
    /\ unl' = unl \cup {v}
    /\ Placed(v)
    /\ UNCHANGED alternates

\* [max_size:] of the incumbents, or of the first round.
CutByCap(v) ==
    /\ IsNext(v)
    /\ Full
    /\ v \in previous \/ previous = {}
    /\ alternates' = alternates \cup {v}
    /\ Placed(v)
    /\ UNCHANGED unl

\* Mutant: the gap is not required.
TakesSeatByScore(v, w) == score[v] >= score[w]

TakesSeat(v, w) == score[v] >= score[w] + rule.minGap

\* A challenger against the weakest member of a full list.
Challenge(v) ==
    /\ IsNext(v)
    /\ Full
    /\ v \notin previous /\ previous # {}
    /\ \E w \in unl :
         /\ Weakest(w)
         /\ \/ /\ TakesSeat(v, w)
               /\ unl' = (unl \ {w}) \cup {v}
               /\ alternates' = alternates \cup {w}
            \/ /\ ~TakesSeat(v, w)
               /\ alternates' = alternates \cup {v}
               /\ UNCHANGED unl
    /\ Placed(v)

\* The next round has the same scores, and this UNL as the previous one.
Repeat ==
    /\ Done
    /\ Begin(score, unl)
    /\ repeated' = TRUE
    /\ improved' = 0

\* The same round, had v, that got a seat, scored s.
Improve(v, s) ==
    /\ Done
    /\ v \in unl
    /\ s > score[v]
    /\ Begin([score EXCEPT ![v] = s], previous)
    /\ repeated' = FALSE
    /\ improved' = v

Next == \/ \E v \in waiting : TakeSeat(v) \/ CutByCap(v) \/ Challenge(v)
        \/ Repeat
        \/ \E v \in unl, s \in 0 .. MaxScore : Improve(v, s)

Spec == Init /\ [][Next]_vars

-----------------------------------------------------------------------------
(* Properties.                                                             *)

\* Every qualified validator is on exactly one list or still waits, the UNL
\* keeps to its size, and nobody is turned away while a seat is open.
Lists ==
    /\ waiting \cup unl \cup alternates = Qualified(score, rule)
    /\ waiting \cap unl = {} /\ waiting \cap alternates = {} /\ unl \cap alternates = {}
    /\ Cardinality(unl) <= rule.maxSize
    /\ alternates # {} => Cardinality(unl) = rule.maxSize

\* An incumbent at or above the cutoff loses its seat only to a newcomer that
\* is ahead of it by the gap, or to the cap: as many incumbents as there are
\* seats rank before it (selector.py:4-11).
ChurnControl ==
    \A v \in alternates \cap previous :
        \/ \E u \in unl \ previous : score[u] >= score[v] + rule.minGap
        \/ Cardinality({u \in previous \cap Qualified(score, rule) : Above(u, v)})
             >= rule.maxSize

\* Nobody is left out who is ahead of a member of the UNL by the gap.
NoClaimLeft ==
    \A v \in alternates, u \in unl :
        score[v] <= score[u] \/ score[v] < score[u] + rule.minGap

\* With a gap of at least one the list does not oscillate: selected again with
\* the same scores, it stays as it is.
Settled == Done /\ repeated /\ rule.minGap >= 1 => unl = previous

\* With a gap, a better score never costs a validator its seat.
BetterScoreKeepsSeat == Done /\ improved # 0 /\ rule.minGap >= 1 => improved \in unl

\* When no incumbent qualifies there is no churn to control: "the top max_size
\* by rank are placed on the UNL" (selector.py:8-9).
TopByRank ==
    Done /\ previous \cap Qualified(score, rule) = {} =>
        \A v \in unl, w \in alternates : Above(v, w)

\* The same with a gap of at least one.
TopByRankWithGap == rule.minGap >= 1 => TopByRank

-----------------------------------------------------------------------------
(* Why: the inductive invariant.                                           *)

\* Incumbents are placed first, and in their order.
IncumbentsFirst ==
    waiting \cap previous # {} =>
        /\ unl \subseteq previous
        /\ \A u \in unl, v \in waiting \cap previous : Above(u, v)

\* Without incumbents, everybody is placed in the order of rank.
InRankOrder ==
    previous = {} \/ (rule.minGap >= 1 /\ previous \cap Qualified(score, rule) = {}) =>
        \A u \in unl, v \in waiting \cup alternates : Above(u, v)

\* In a repeated selection every seat has its holder, and nobody has a claim.
HoldersKeepSeats ==
    repeated /\ rule.minGap >= 1 =>
        /\ previous \subseteq Qualified(score, rule)
        /\ Cardinality(previous) <= rule.maxSize
        /\ previous # Qualified(score, rule) => Cardinality(previous) = rule.maxSize
        /\ \A v \in Qualified(score, rule) \ previous, u \in previous :
              score[v] < score[u] + rule.minGap
        /\ unl \subseteq previous
        /\ alternates \cap previous = {}

IInv == /\ TypeOK
        /\ Lists
        /\ ChurnControl
        /\ NoClaimLeft
        /\ IncumbentsFirst
        /\ InRankOrder
        /\ HoldersKeepSeats

-----------------------------------------------------------------------------
(* And beside it: that a better score keeps the seat compares two          *)
(* selections, so what is kept of the first one is its outcome.            *)

\* The incumbents that the cap leaves a seat, of scores s, parameters r
\* and previous UNL p.
Fitting(s, r, p) ==
    {v \in p \cap Qualified(s, r) :
        Cardinality({w \in p \cap Qualified(s, r) : Ahead(s, w, v)}) < r.maxSize}

\* What a selection by s, r and p that ended with UNL u has done, said of these
\* four alone.  With a gap there is only one such u.
Outcome(s, r, p, u) ==
    /\ u \subseteq Qualified(s, r)
    /\ Cardinality(u) <= r.maxSize
    /\ u # Qualified(s, r) => Cardinality(u) = r.maxSize
    /\ u \cap p \subseteq Fitting(s, r, p)
    /\ \A v \in Fitting(s, r, p) \ u :
          /\ \A w \in u \cap p : GoesBefore(s, v, w)
          /\ \A c \in u \ p : s[c] >= s[v] + r.minGap
    /\ \A c \in Qualified(s, r) \ (p \cup u) :
          /\ \A d \in u \ p : Ahead(s, d, c)
          /\ \A v \in u : s[c] < s[v] + r.minGap

\* The same of a selection under way, with a gap.
Underway ==
    rule.minGap >= 1 =>
        /\ unl \cap previous \subseteq Fitting(score, rule, previous)
        /\ \A c \in (unl \cup alternates) \ previous, d \in waiting : Above(c, d)
        /\ \A c \in unl \ previous, d \in alternates \ previous : Above(c, d)
        /\ \A v \in Fitting(score, rule, previous) \cap alternates :
              /\ \A w \in unl \cap previous : GoesBefore(score, v, w)
              /\ \A c \in unl \ previous : score[c] >= score[v] + rule.minGap

\* The validator that scores more had a seat when it scored less.
HadSeat ==
    improved # 0 /\ rule.minGap >= 1 =>
        \E less \in Absent .. MaxScore, u \in SUBSET Key :
            /\ less < score[improved]
            /\ improved \in u
            /\ Outcome([score EXCEPT ![improved] = less], rule, previous, u)

SeatInv == Underway /\ HadSeat
==============================================================================
