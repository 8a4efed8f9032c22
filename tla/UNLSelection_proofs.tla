-------------------------- MODULE UNLSelection_proofs --------------------------
(***************************************************************************)
(* Proofs about UNLSelection, for any set of keys, any scores and any      *)
(* parameters of the manifest: who is on the two lists, when an incumbent  *)
(* loses its seat, that the list does not oscillate, and that with a gap   *)
(* the result is determined and a better score costs no validator its seat.*)
(***************************************************************************)
EXTENDS UNLSelection, FiniteSetTheorems, TLAPS

USE SelectionAssumption

LEMMA Ranges ==
    ASSUME TypeOK
    PROVE  /\ rule.cutoff \in Nat /\ rule.maxSize \in Nat \ {0} /\ rule.minGap \in Nat
           /\ \A v \in Key : score[v] \in Int /\ v \in Nat
           /\ Qualified(score, rule) \subseteq Key
  BY DEF TypeOK, Absent, Qualified

LEMMA FiniteParts ==
    ASSUME NEW S \in SUBSET Key
    PROVE  IsFiniteSet(S) /\ Cardinality(S) \in Nat
  BY FS_Subset, FS_CardinalityType

-----------------------------------------------------------------------------
(* The start of a selection.                                               *)

LEMMA BeginKeeps ==
    ASSUME TypeOK, NEW s \in [Key -> Absent .. MaxScore], NEW p \in SUBSET Key, Begin(s, p),
           repeated' \in BOOLEAN, improved' \in Key \cup {0}, HoldersKeepSeats'
    PROVE  IInv'
<1>1. Qualified(s, rule) \subseteq Key
  BY DEF Qualified
<1>2. TypeOK'
  BY <1>1 DEF TypeOK, Begin
<1>3. Cardinality({}) = 0
  BY FS_EmptySet
<1>4. Lists'
  BY <1>2, <1>3, Ranges DEF Lists, Begin, TypeOK
<1>5. ChurnControl' /\ NoClaimLeft' /\ IncumbentsFirst' /\ InRankOrder'
  BY DEF ChurnControl, NoClaimLeft, IncumbentsFirst, InRankOrder, Begin
<1> QED BY <1>2, <1>4, <1>5 DEF IInv

LEMMA InitInv == Init => IInv
<1> SUFFICES ASSUME Init PROVE IInv
  OBVIOUS
<1>1. TypeOK
  BY DEF Init, TypeOK, Qualified
<1>2. Cardinality({}) = 0
  BY FS_EmptySet
<1>3. Lists
  BY <1>1, <1>2, Ranges DEF Lists, Init, TypeOK
<1>4. ChurnControl /\ NoClaimLeft /\ IncumbentsFirst /\ InRankOrder /\ HoldersKeepSeats
  BY DEF ChurnControl, NoClaimLeft, IncumbentsFirst, InRankOrder, HoldersKeepSeats, Init
<1> QED BY <1>1, <1>3, <1>4 DEF IInv

LEMMA RepeatInv == IInv /\ Repeat => IInv'
<1> SUFFICES ASSUME IInv, Repeat PROVE IInv'
  OBVIOUS
<1> USE DEF IInv
<1>1. Qualified(score, rule) = unl \cup alternates
  BY DEF Lists, Repeat, Done
<1>2. Qualified(score, rule)' = Qualified(score, rule)
  BY DEF Repeat, Begin
<1>3. previous' = unl /\ rule' = rule /\ score' = score /\ unl' = {} /\ alternates' = {}
  BY DEF Repeat, Begin
<1>4. unl \subseteq Qualified(score, rule) /\ Cardinality(unl) <= rule.maxSize
  BY DEF Lists
<1>5. unl # Qualified(score, rule) => Cardinality(unl) = rule.maxSize
  BY <1>1 DEF Lists
<1>6. ASSUME rule.minGap >= 1, NEW v \in Qualified(score, rule) \ unl, NEW u \in unl
      PROVE  score[v] < score[u] + rule.minGap
  <2>1. v \in alternates
    BY <1>1
  <2>2. v \in Key /\ u \in Key
    BY DEF TypeOK, Qualified
  <2>3. score[v] <= score[u] \/ score[v] < score[u] + rule.minGap
    BY <2>1 DEF NoClaimLeft
  <2> QED BY <1>6, <2>2, <2>3, Ranges
<1>7. HoldersKeepSeats'
  BY <1>2, <1>3, <1>4, <1>5, <1>6 DEF HoldersKeepSeats
<1> QED BY <1>7, BeginKeeps DEF Repeat, TypeOK

LEMMA ImproveInv ==
    ASSUME IInv, NEW v \in unl, NEW s \in 0 .. MaxScore, Improve(v, s)
    PROVE  IInv'
<1>1. [score EXCEPT ![v] = s] \in [Key -> Absent .. MaxScore]
  BY DEF IInv, TypeOK, Absent
<1>2. HoldersKeepSeats'
  BY DEF HoldersKeepSeats, Improve
<1> QED BY <1>1, <1>2, BeginKeeps DEF IInv, TypeOK, Improve

-----------------------------------------------------------------------------
(* Placing one validator.                                                  *)

\* What a placement leaves alone.
LEMMA PlacedFrame ==
    ASSUME TypeOK, NEW v \in waiting, Placed(v)
    PROVE  /\ score' = score /\ rule' = rule /\ previous' = previous /\ repeated' = repeated
           /\ waiting' = waiting \ {v}
           /\ Qualified(score, rule)' = Qualified(score, rule)
           /\ \A x, y : Above(x, y)' <=> Above(x, y)
  BY DEF Placed, Above, Ahead

\* Whoever is next ranks above all who wait; if it is no incumbent, no
\* incumbent waits.
LEMMA NextIsFirst ==
    ASSUME TypeOK, NEW v \in waiting, IsNext(v)
    PROVE  /\ v \in previous => \A w \in (waiting \cap previous) \ {v} : Above(v, w)
           /\ v \notin previous => waiting \cap previous = {}
           /\ waiting \cap previous = {} => \A w \in waiting \ {v} : Above(v, w)
  BY DEF IsNext, InTurn

LEMMA AboveTransitive ==
    ASSUME TypeOK, NEW x \in Key, NEW y \in Key, NEW z \in Key, Above(x, y), Above(y, z)
    PROVE  Above(x, z)
  BY Ranges DEF Above, Ahead

LEMMA TakeSeatInv ==
    ASSUME IInv, NEW v \in waiting, TakeSeat(v)
    PROVE  IInv'
<1> USE DEF IInv
<1>0. /\ Placed(v) /\ IsNext(v) /\ ~Full
      /\ unl' = unl \cup {v} /\ alternates' = alternates
      /\ v \in Key
  BY DEF TakeSeat, TypeOK
<1>a. /\ score' = score /\ rule' = rule /\ previous' = previous /\ repeated' = repeated
      /\ waiting' = waiting \ {v}
      /\ Qualified(score, rule)' = Qualified(score, rule)
      /\ \A x, y : Above(x, y)' <=> Above(x, y)
  BY <1>0, PlacedFrame
<1>b. v \notin unl /\ v \notin alternates /\ v \in Qualified(score, rule)
  BY DEF Lists
<1>c. Cardinality(unl) \in Nat /\ IsFiniteSet(unl) /\ rule.maxSize \in Nat
  BY FiniteParts, Ranges DEF TypeOK
<1>d. Cardinality(unl \cup {v}) = Cardinality(unl) + 1
  BY <1>b, <1>c, FS_AddElement
<1>e. Cardinality(unl) < rule.maxSize
  BY <1>0, <1>c DEF Full
<1>f. alternates = {}
  BY <1>c, <1>e DEF Lists
<1>1. TypeOK'
  BY <1>0 DEF TypeOK, Placed
<1>2. Lists'
  <2>1. waiting' \cup unl' \cup alternates' = Qualified(score, rule)'
    BY <1>0, <1>a DEF Lists
  <2>2. waiting' \cap unl' = {} /\ waiting' \cap alternates' = {} /\ unl' \cap alternates' = {}
    BY <1>0, <1>a, <1>b DEF Lists
  <2>3. Cardinality(unl') <= rule'.maxSize
    BY <1>0, <1>a, <1>c, <1>d, <1>e
  <2> QED BY <1>0, <1>f, <2>1, <2>2, <2>3 DEF Lists
<1>3. ChurnControl' /\ NoClaimLeft'
  BY <1>0, <1>f DEF ChurnControl, NoClaimLeft
<1>4. IncumbentsFirst'
  <2> SUFFICES ASSUME waiting' \cap previous' # {}
               PROVE  /\ unl' \subseteq previous'
                      /\ \A u \in unl', w \in waiting' \cap previous' : Above(u, w)'
    BY DEF IncumbentsFirst
  <2>1. waiting \cap previous # {} /\ v \in previous
    BY <1>0, <1>a, NextIsFirst
  <2> QED BY <1>0, <1>a, <2>1, NextIsFirst DEF IncumbentsFirst
<1>5. InRankOrder'
  <2> SUFFICES ASSUME previous = {} \/ (rule.minGap >= 1 /\ previous \cap Qualified(score, rule) = {}),
                      NEW u \in unl', NEW w \in waiting' \cup alternates'
               PROVE  Above(u, w)
    BY <1>a DEF InRankOrder
  <2>1. waiting \cap previous = {}
    BY DEF Lists
  <2>2. CASE u = v
    BY <1>0, <1>a, <1>f, <2>1, <2>2, NextIsFirst
  <2>3. CASE u # v
    BY <1>0, <1>a, <2>3 DEF InRankOrder
  <2> QED BY <2>2, <2>3
<1>6. HoldersKeepSeats'
  <2> SUFFICES ASSUME repeated, rule.minGap >= 1, HoldersKeepSeats PROVE v \in previous
    BY <1>0, <1>a DEF HoldersKeepSeats
  <2>1. SUFFICES ASSUME v \notin previous PROVE FALSE
    OBVIOUS
  <2>2. waiting \cap previous = {}
    BY <1>0, <2>1, NextIsFirst
  <2>3. unl = previous
    BY <2>2, <1>f DEF HoldersKeepSeats, Lists
  <2>4. previous = Qualified(score, rule)
    BY <1>c, <1>e, <2>3 DEF HoldersKeepSeats
  <2> QED BY <1>b, <2>1, <2>4
<1> QED BY <1>1, <1>2, <1>3, <1>4, <1>5, <1>6

LEMMA CutByCapInv ==
    ASSUME IInv, NEW v \in waiting, CutByCap(v)
    PROVE  IInv'
<1> USE DEF IInv
<1>0. /\ Placed(v) /\ IsNext(v) /\ Full /\ (v \in previous \/ previous = {})
      /\ unl' = unl /\ alternates' = alternates \cup {v}
      /\ v \in Key
  BY DEF CutByCap, TypeOK
<1>a. /\ score' = score /\ rule' = rule /\ previous' = previous /\ repeated' = repeated
      /\ waiting' = waiting \ {v}
      /\ Qualified(score, rule)' = Qualified(score, rule)
      /\ \A x, y : Above(x, y)' <=> Above(x, y)
  BY <1>0, PlacedFrame
<1>b. v \notin unl /\ v \notin alternates /\ v \in Qualified(score, rule)
  BY DEF Lists
<1>c. Cardinality(unl) \in Nat /\ IsFiniteSet(unl) /\ rule.maxSize \in Nat \ {0}
  BY FiniteParts, Ranges DEF TypeOK
<1>d. Cardinality(unl) = rule.maxSize
  BY <1>0, <1>c DEF Full, Lists
<1>e. \A u \in unl : Above(u, v)
  <2>1. CASE v \in previous
    BY <2>1 DEF IncumbentsFirst
  <2>2. CASE previous = {}
    BY <2>2 DEF InRankOrder
  <2> QED BY <1>0, <2>1, <2>2
<1>1. TypeOK'
  BY <1>0 DEF TypeOK, Placed
<1>2. Lists'
  BY <1>0, <1>a, <1>b, <1>c, <1>d DEF Lists
<1>3. ChurnControl'
  <2> SUFFICES ASSUME NEW x \in alternates' \cap previous
               PROVE  \/ \E u \in unl \ previous : score[u] >= score[x] + rule.minGap
                      \/ Cardinality({u \in previous \cap Qualified(score, rule) : Above(u, x)})
                           >= rule.maxSize
    BY <1>0, <1>a DEF ChurnControl
  <2>1. CASE x # v
    BY <1>0, <2>1 DEF ChurnControl
  <2>2. CASE x = v
    <3> DEFINE S == {u \in previous \cap Qualified(score, rule) : Above(u, v)}
    <3>1. v \in previous /\ unl \subseteq previous
      BY <2>2 DEF IncumbentsFirst
    <3>2. unl \subseteq S
      BY <1>e, <3>1 DEF Lists
    <3>3. S \in SUBSET Key
      BY DEF TypeOK
    <3>4. IsFiniteSet(S) /\ Cardinality(S) \in Nat
      BY <3>3, FiniteParts
    <3>5. Cardinality(unl) <= Cardinality(S)
      BY <3>2, <3>4, FS_Subset
    <3> QED BY <1>c, <1>d, <2>2, <3>4, <3>5
  <2> QED BY <2>1, <2>2
<1>4. NoClaimLeft'
  <2> SUFFICES ASSUME NEW x \in alternates', NEW u \in unl
               PROVE  score[x] <= score[u] \/ score[x] < score[u] + rule.minGap
    BY <1>0, <1>a DEF NoClaimLeft
  <2>1. CASE x # v
    BY <1>0, <2>1 DEF NoClaimLeft
  <2>2. CASE x = v
    <3>1. u \in Key
      BY DEF TypeOK
    <3> QED BY <1>0, <1>e, <2>2, <3>1, Ranges DEF Above, Ahead
  <2> QED BY <2>1, <2>2
<1>5. IncumbentsFirst'
  BY <1>0, <1>a DEF IncumbentsFirst
<1>6. InRankOrder'
  BY <1>0, <1>a, <1>e DEF InRankOrder
<1>7. HoldersKeepSeats'
  <2> SUFFICES ASSUME repeated, rule.minGap >= 1, HoldersKeepSeats PROVE FALSE
    BY <1>0, <1>a DEF HoldersKeepSeats
  <2>1. CASE v \in previous
    <3>1. previous \in SUBSET Key
      BY DEF TypeOK
    <3>2. IsFiniteSet(previous) /\ Cardinality(previous) \in Nat
      BY <3>1, FiniteParts
    <3>3. unl \subseteq previous /\ unl # previous
      BY <1>b, <2>1 DEF HoldersKeepSeats
    <3>4. Cardinality(unl) # Cardinality(previous) /\ Cardinality(unl) <= Cardinality(previous)
      BY <3>2, <3>3, FS_Subset
    <3>5. Cardinality(previous) <= rule.maxSize
      BY DEF HoldersKeepSeats
    <3> QED BY <1>c, <1>d, <3>2, <3>4, <3>5
  <2>2. CASE previous = {}
    <3>1. Cardinality(previous) = 0
      BY <2>2, FS_EmptySet
    <3>2. previous # Qualified(score, rule)
      BY <1>b, <2>2
    <3> QED BY <1>c, <3>1, <3>2 DEF HoldersKeepSeats
  <2> QED BY <1>0, <2>1, <2>2
<1> QED BY <1>1, <1>2, <1>3, <1>4, <1>5, <1>6, <1>7

\* The facts a challenge starts from.
LEMMA ChallengeFacts ==
    ASSUME IInv, NEW v \in waiting, Challenge(v), NEW w \in unl, Weakest(w)
    PROVE  /\ v \in Key /\ w \in Key /\ v \notin unl /\ v \notin alternates /\ v # w
           /\ v \in Qualified(score, rule)
           /\ waiting \cap previous = {}
           /\ unl \subseteq Key /\ alternates \subseteq Key
           /\ \A u \in unl : score[w] <= score[u]
           /\ Cardinality(unl) = rule.maxSize
<1> USE DEF IInv
<1>1. v \in Key /\ w \in Key /\ unl \subseteq Key /\ alternates \subseteq Key
  BY DEF TypeOK
<1>2. v \notin unl /\ v \notin alternates /\ v # w /\ v \in Qualified(score, rule)
  BY DEF Lists
<1>3. waiting \cap previous = {}
  BY NextIsFirst DEF Challenge
<1>4. \A u \in unl : score[w] <= score[u]
  BY <1>1, Ranges DEF Weakest, GoesBefore
<1>5. Cardinality(unl) = rule.maxSize
  <2>1. Cardinality(unl) \in Nat
    BY <1>1, FiniteParts
  <2> QED BY <2>1, Ranges DEF Challenge, Full, Lists
<1> QED BY <1>1, <1>2, <1>3, <1>4, <1>5

\* The challenger takes the seat of w.
LEMMA SwapInv ==
    ASSUME IInv, NEW v \in waiting, Challenge(v), NEW w \in unl, Weakest(w), TakesSeat(v, w),
           unl' = (unl \ {w}) \cup {v}, alternates' = alternates \cup {w}, Placed(v)
    PROVE  IInv'
<1> USE DEF IInv
<1>a. /\ score' = score /\ rule' = rule /\ previous' = previous /\ repeated' = repeated
      /\ waiting' = waiting \ {v}
      /\ Qualified(score, rule)' = Qualified(score, rule)
      /\ \A x, y : Above(x, y)' <=> Above(x, y)
  BY PlacedFrame
<1>b. /\ v \in Key /\ w \in Key /\ v \notin unl /\ v \notin alternates /\ v # w
      /\ v \in Qualified(score, rule)
      /\ waiting \cap previous = {}
      /\ unl \subseteq Key /\ alternates \subseteq Key
      /\ \A u \in unl : score[w] <= score[u]
      /\ Cardinality(unl) = rule.maxSize
  BY ChallengeFacts
<1>c. v \notin previous /\ previous # {}
  BY DEF Challenge
<1>d. score[v] >= score[w] + rule.minGap /\ rule.minGap \in Nat
  BY Ranges DEF TakesSeat
<1>1. TypeOK'
  BY <1>a, <1>b DEF TypeOK, Placed
<1>2. Lists'
  <2>1. IsFiniteSet(unl) /\ Cardinality(unl) \in Nat
    BY <1>b, FiniteParts
  <2>2. IsFiniteSet(unl \ {w}) /\ Cardinality(unl \ {w}) = Cardinality(unl) - 1
    BY <2>1, FS_RemoveElement
  <2>3. Cardinality((unl \ {w}) \cup {v}) = Cardinality(unl)
    <3>1. v \notin unl \ {w}
      BY <1>b
    <3>2. Cardinality((unl \ {w}) \cup {v}) = Cardinality(unl \ {w}) + 1
      BY <2>2, <3>1, FS_AddElement
    <3> QED BY <2>1, <2>2, <3>2
  <2>4. waiting' \cup unl' \cup alternates' = Qualified(score, rule)'
    BY <1>a, <1>b DEF Lists
  <2>5. waiting' \cap unl' = {} /\ waiting' \cap alternates' = {} /\ unl' \cap alternates' = {}
    BY <1>a, <1>b DEF Lists
  <2>6. Cardinality(unl') = rule'.maxSize /\ rule.maxSize \in Nat
    BY <1>a, <1>b, <2>3, Ranges
  <2> QED BY <1>a, <2>4, <2>5, <2>6 DEF Lists
<1>3. ChurnControl'
  <2> SUFFICES ASSUME NEW x \in alternates' \cap previous,
                      ~(Cardinality({u \in previous \cap Qualified(score, rule) : Above(u, x)})
                           >= rule.maxSize)
               PROVE  \E u \in unl' \ previous : score[u] >= score[x] + rule.minGap
    BY <1>a DEF ChurnControl
  <2>0. x \in Key /\ score[x] \in Int /\ score[w] \in Int /\ score[v] \in Int
    BY <1>b, Ranges DEF TypeOK
  <2>1. v \in unl' \ previous
    BY <1>c
  <2>2. CASE x = w
    BY <1>d, <2>1, <2>2
  <2>3. CASE x # w
    <3>1. PICK u \in unl \ previous : score[u] >= score[x] + rule.minGap
      BY <2>3 DEF ChurnControl
    <3>2. CASE u = w
      BY <1>d, <2>0, <2>1, <3>1, <3>2
    <3>3. CASE u # w
      BY <3>1, <3>3
    <3> QED BY <3>2, <3>3
  <2> QED BY <2>2, <2>3
<1>4. NoClaimLeft'
  <2> SUFFICES ASSUME NEW x \in alternates', NEW u \in unl'
               PROVE  score[x] <= score[u] \/ score[x] < score[u] + rule.minGap
    BY <1>a DEF NoClaimLeft
  <2>0. /\ x \in Key /\ u \in Key
        /\ score[x] \in Int /\ score[u] \in Int /\ score[w] \in Int /\ score[v] \in Int
    BY <1>b, Ranges
  <2>1. CASE x = w
    BY <1>b, <1>d, <2>0, <2>1
  <2>2. CASE x \in alternates /\ u # v
    BY <2>2 DEF NoClaimLeft
  <2>3. CASE x \in alternates /\ u = v
    <3>1. score[x] <= score[w] \/ score[x] < score[w] + rule.minGap
      BY <2>3 DEF NoClaimLeft
    <3> QED BY <1>d, <2>0, <2>3, <3>1
  <2> QED BY <2>1, <2>2, <2>3
<1>5. IncumbentsFirst'
  BY <1>a, <1>b DEF IncumbentsFirst
<1>6. InRankOrder' /\ HoldersKeepSeats'
  <2>0. score[w] \in Int /\ score[v] \in Int /\ rule.minGap \in Nat
    BY <1>b, Ranges
  <2>1. ~(rule.minGap >= 1 /\ previous \cap Qualified(score, rule) = {})
    <3> SUFFICES ASSUME rule.minGap >= 1, previous \cap Qualified(score, rule) = {} PROVE FALSE
      OBVIOUS
    <3>1. Above(w, v)
      BY DEF InRankOrder
    <3> QED BY <1>d, <2>0, <3>1 DEF Above, Ahead
  <2>2. ~(repeated /\ rule.minGap >= 1)
    <3> SUFFICES ASSUME repeated, rule.minGap >= 1 PROVE FALSE
      OBVIOUS
    <3>1. w \in previous /\ v \in Qualified(score, rule) \ previous
      BY <1>b, <1>c DEF HoldersKeepSeats
    <3>2. score[v] < score[w] + rule.minGap
      BY <3>1 DEF HoldersKeepSeats
    <3> QED BY <1>d, <2>0, <3>2
  <2> QED BY <1>a, <1>c, <2>1, <2>2 DEF InRankOrder, HoldersKeepSeats
<1> QED BY <1>1, <1>2, <1>3, <1>4, <1>5, <1>6

\* The challenger is not far enough ahead.
LEMMA RefuseInv ==
    ASSUME IInv, NEW v \in waiting, Challenge(v), NEW w \in unl, Weakest(w), ~TakesSeat(v, w),
           unl' = unl, alternates' = alternates \cup {v}, Placed(v)
    PROVE  IInv'
<1> USE DEF IInv
<1>a. /\ score' = score /\ rule' = rule /\ previous' = previous /\ repeated' = repeated
      /\ waiting' = waiting \ {v}
      /\ Qualified(score, rule)' = Qualified(score, rule)
      /\ \A x, y : Above(x, y)' <=> Above(x, y)
  BY PlacedFrame
<1>b. /\ v \in Key /\ w \in Key /\ v \notin unl /\ v \notin alternates /\ v # w
      /\ v \in Qualified(score, rule)
      /\ waiting \cap previous = {}
      /\ unl \subseteq Key /\ alternates \subseteq Key
      /\ \A u \in unl : score[w] <= score[u]
      /\ Cardinality(unl) = rule.maxSize
  BY ChallengeFacts
<1>c. v \notin previous /\ previous # {}
  BY DEF Challenge
<1>d. score[v] < score[w] + rule.minGap
  BY <1>b, Ranges DEF TakesSeat
<1>1. TypeOK'
  BY <1>a, <1>b DEF TypeOK, Placed
<1>2. Lists'
  <2>1. rule.maxSize \in Nat
    BY Ranges
  <2> QED BY <1>a, <1>b, <2>1 DEF Lists
<1>3. ChurnControl'
  BY <1>a, <1>c DEF ChurnControl
<1>4. NoClaimLeft'
  <2> SUFFICES ASSUME NEW u \in unl PROVE score[v] < score[u] + rule.minGap
    BY <1>a DEF NoClaimLeft
  <2>1. /\ score[u] \in Int /\ score[w] \in Int /\ score[v] \in Int /\ rule.minGap \in Nat
        /\ score[w] <= score[u]
    BY <1>b, Ranges
  <2> QED BY <1>d, <2>1
<1>5. IncumbentsFirst'
  BY <1>a, <1>b DEF IncumbentsFirst
<1>6. InRankOrder'
  BY <1>a, <1>c DEF InRankOrder
<1>7. HoldersKeepSeats'
  BY <1>a, <1>c DEF HoldersKeepSeats
<1> QED BY <1>1, <1>2, <1>3, <1>4, <1>5, <1>6, <1>7

LEMMA ChallengeInv ==
    ASSUME IInv, NEW v \in waiting, Challenge(v)
    PROVE  IInv'
<1>1. PICK w \in unl :
         /\ Weakest(w)
         /\ \/ /\ TakesSeat(v, w)
               /\ unl' = (unl \ {w}) \cup {v}
               /\ alternates' = alternates \cup {w}
            \/ /\ ~TakesSeat(v, w)
               /\ alternates' = alternates \cup {v}
               /\ unl' = unl
  BY DEF Challenge
<1>2. Placed(v)
  BY DEF Challenge
<1> QED BY <1>1, <1>2, SwapInv, RefuseInv

-----------------------------------------------------------------------------
(* The theorems.                                                           *)

LEMMA NextInv == IInv /\ [Next]_vars => IInv'
<1> SUFFICES ASSUME IInv, [Next]_vars PROVE IInv'
  OBVIOUS
<1>1. ASSUME NEW v \in waiting, TakeSeat(v) PROVE IInv'
  BY <1>1, TakeSeatInv
<1>2. ASSUME NEW v \in waiting, CutByCap(v) PROVE IInv'
  BY <1>2, CutByCapInv
<1>3. ASSUME NEW v \in waiting, Challenge(v) PROVE IInv'
  BY <1>3, ChallengeInv
<1>4. CASE Repeat
  BY <1>4, RepeatInv
<1>5. ASSUME NEW v \in unl, NEW s \in 0 .. MaxScore, Improve(v, s) PROVE IInv'
  BY <1>5, ImproveInv
<1>6. CASE UNCHANGED vars
  BY <1>6 DEF vars, IInv, TypeOK, Lists, ChurnControl, NoClaimLeft, IncumbentsFirst,
              InRankOrder, HoldersKeepSeats, Qualified, Above, Ahead
<1> QED BY <1>1, <1>2, <1>3, <1>4, <1>5, <1>6 DEF Next

\* The inductive invariant, whatever the keys, scores and parameters.
THEOREM Invariance == Spec => []IInv
  BY InitInv, NextInv, PTL DEF Spec

\* Every variable keeps its type.
THEOREM TypeCorrect == Spec => []TypeOK
<1>1. IInv => TypeOK
  BY DEF IInv
<1> QED BY <1>1, Invariance, PTL

\* The UNL keeps to its size, and the lists hold every qualified validator once.
THEOREM ListsAreWhole == Spec => []Lists
<1>1. IInv => Lists
  BY DEF IInv
<1> QED BY <1>1, Invariance, PTL

\* An incumbent loses its seat to a challenger ahead by the gap, or to the cap.
THEOREM ChurnIsControlled == Spec => []ChurnControl
<1>1. IInv => ChurnControl
  BY DEF IInv
<1> QED BY <1>1, Invariance, PTL

\* Nobody ahead by the gap is left out.
THEOREM ClaimsAreMet == Spec => []NoClaimLeft
<1>1. IInv => NoClaimLeft
  BY DEF IInv
<1> QED BY <1>1, Invariance, PTL

\* A list selected again from itself stays as it is.
THEOREM DoesNotOscillate == Spec => []Settled
<1>1. IInv => Settled
  <2> SUFFICES ASSUME IInv, Done, repeated, rule.minGap >= 1 PROVE unl = previous
    BY DEF Settled
  <2>1. Qualified(score, rule) = unl \cup alternates
    BY DEF IInv, Lists, Done
  <2> QED BY <2>1 DEF IInv, HoldersKeepSeats
<1> QED BY <1>1, Invariance, PTL

\* With a gap, and no incumbent left, the UNL is the top of the ranking.
THEOREM RankDecides == Spec => []TopByRankWithGap
<1>1. IInv => TopByRankWithGap
  BY DEF IInv, TopByRankWithGap, TopByRank, InRankOrder
<1> QED BY <1>1, Invariance, PTL

-----------------------------------------------------------------------------
(* Two selections compared.                                                *)

\* What the members of the lists are, to the provers.
LEMMA Members ==
    ASSUME IInv
    PROVE  /\ unl \subseteq Key /\ alternates \subseteq Key /\ waiting \subseteq Key
           /\ \A v \in unl \cup alternates \cup waiting :
                 v \in Key /\ v \in Nat /\ score[v] \in Int /\ v \in Qualified(score, rule)
           /\ rule.minGap \in Nat /\ rule.maxSize \in Nat \ {0}
           /\ Fitting(score, rule, previous) \subseteq Key
  BY Ranges DEF IInv, TypeOK, Lists, Fitting

LEMMA TakeSeatUnderway ==
    ASSUME IInv, Underway, NEW v \in waiting, TakeSeat(v), rule.minGap >= 1
    PROVE  Underway'
<1> USE DEF IInv
<1>0. /\ Placed(v) /\ IsNext(v) /\ ~Full
      /\ unl' = unl \cup {v} /\ alternates' = alternates
      /\ waiting' = waiting \ {v} /\ UNCHANGED <<score, rule, previous>>
  BY DEF TakeSeat, Placed
<1>1. /\ Cardinality(unl) \in Nat /\ IsFiniteSet(unl)
      /\ Cardinality(unl) < rule.maxSize /\ alternates = {}
  <2>1. Cardinality(unl) \in Nat /\ IsFiniteSet(unl) /\ rule.maxSize \in Nat
    BY FiniteParts, Ranges DEF TypeOK
  <2> QED BY <1>0, <2>1 DEF Full, Lists
<1>2. ASSUME v \in previous PROVE v \in Fitting(score, rule, previous)
  <2> DEFINE S == {w \in previous \cap Qualified(score, rule) : Ahead(score, w, v)}
  <2>1. ASSUME NEW w \in S PROVE w \in unl
    <3> SUFFICES ASSUME w \notin unl PROVE FALSE
      OBVIOUS
    <3>1. w \in waiting \cap previous
      BY <1>1 DEF Lists
    <3>2. v \in Key /\ w \in Key /\ score[v] \in Int /\ score[w] \in Int /\ v \in Nat /\ w \in Nat
      BY <3>1, Members
    <3>3. w # v
      BY <3>2 DEF Ahead
    <3>4. Above(v, w)
      BY <1>0, <1>2, <3>1, <3>3, NextIsFirst
    <3> QED BY <3>2, <3>4 DEF Above, Ahead
  <2>2. Cardinality(S) <= Cardinality(unl) /\ Cardinality(S) \in Nat
    <3>1. S \subseteq unl
      BY <2>1
    <3> HIDE DEF S
    <3> QED BY <1>1, <3>1, FS_Subset, FS_CardinalityType
  <2>3. Cardinality(S) < rule.maxSize
    BY <1>1, <2>2, Members
  <2>4. v \in previous \cap Qualified(score, rule)
    BY <1>2, Members
  <2> QED BY <2>3, <2>4 DEF Fitting
<1>3. \A c \in unl' \ previous, d \in waiting' : Above(c, d)
  <2>1. v \notin previous => \A d \in waiting \ {v} : Above(v, d)
    BY <1>0, NextIsFirst
  <2> QED BY <1>0, <2>1 DEF Underway
<1>4. Fitting(score, rule, previous)' = Fitting(score, rule, previous)
  BY <1>0 DEF Fitting, Qualified
<1> QED BY <1>0, <1>1, <1>2, <1>3, <1>4 DEF Underway, Above

\* Whom the cap turns away is not among the incumbents it leaves a seat.
LEMMA CutIsNotFitting ==
    ASSUME IInv, NEW v \in waiting, CutByCap(v)
    PROVE  v \notin Fitting(score, rule, previous)
<1> USE DEF IInv
<1> SUFFICES ASSUME v \in Fitting(score, rule, previous) PROVE FALSE
  OBVIOUS
<1> DEFINE S == {w \in previous \cap Qualified(score, rule) : Ahead(score, w, v)}
<1>1. v \in previous /\ Cardinality(S) < rule.maxSize
  BY DEF Fitting
<1>2. unl \subseteq previous /\ \A u \in unl : Above(u, v)
  BY <1>1 DEF IncumbentsFirst
<1>3. unl \subseteq S
  BY <1>2, Members DEF Above
<1>4. S \in SUBSET Key
  BY DEF TypeOK
<1> HIDE DEF S
<1>5. Cardinality(unl) <= Cardinality(S) /\ Cardinality(S) \in Nat /\ Cardinality(unl) \in Nat
  BY <1>3, <1>4, FiniteParts, FS_Subset
<1>6. Cardinality(unl) >= rule.maxSize
  BY DEF CutByCap, Full
<1> QED BY <1>1, <1>5, <1>6, Members

LEMMA CutByCapUnderway ==
    ASSUME IInv, Underway, NEW v \in waiting, CutByCap(v), rule.minGap >= 1
    PROVE  Underway'
<1> USE DEF IInv
<1>0. /\ IsNext(v) /\ (v \in previous \/ previous = {})
      /\ unl' = unl /\ alternates' = alternates \cup {v}
      /\ waiting' = waiting \ {v} /\ UNCHANGED <<score, rule, previous>>
  BY DEF CutByCap, Placed
<1>1. v \notin previous => \A d \in waiting \ {v} : Above(v, d)
  BY <1>0, NextIsFirst
<1>2. Fitting(score, rule, previous)' = Fitting(score, rule, previous)
  BY <1>0 DEF Fitting, Qualified
<1>3. v \notin Fitting(score, rule, previous)
  BY CutIsNotFitting
<1>4. \A c \in unl \ previous : Above(c, v)
  BY DEF Underway
<1> QED BY <1>0, <1>1, <1>2, <1>3, <1>4 DEF Underway, Above

\* With a gap, only incumbents lose a seat, and no challenger was refused before
\* one that takes a seat.
LEMMA SwapUnderway ==
    ASSUME IInv, Underway, NEW v \in waiting, Challenge(v), NEW w \in unl, Weakest(w),
           TakesSeat(v, w), unl' = (unl \ {w}) \cup {v}, alternates' = alternates \cup {w},
           Placed(v), rule.minGap >= 1
    PROVE  Underway'
<1> USE DEF IInv
<1>0. waiting' = waiting \ {v} /\ UNCHANGED <<score, rule, previous>> /\ IsNext(v)
      /\ v \notin previous
  BY DEF Placed, Challenge
<1>1. /\ score[v] >= score[w] + rule.minGap /\ rule.minGap \in Nat
      /\ score[v] \in Int /\ score[w] \in Int
  BY Members DEF TakesSeat
<1>2. w \in previous
  <2> SUFFICES ASSUME w \notin previous PROVE FALSE
    OBVIOUS
  <2>1. Above(w, v)
    BY DEF Underway
  <2> QED BY <1>1, <2>1 DEF Above, Ahead
<1>3. \A d \in waiting \ {v} : Above(v, d)
  BY <1>0, NextIsFirst
<1>4. alternates \subseteq previous
  <2> SUFFICES ASSUME NEW d \in alternates, d \notin previous PROVE FALSE
    OBVIOUS
  <2>1. Above(d, v) /\ score[d] \in Int
    BY Members DEF Underway
  <2>2. score[d] <= score[w] \/ score[d] < score[w] + rule.minGap
    BY DEF NoClaimLeft
  <2> QED BY <1>1, <2>1, <2>2 DEF Above, Ahead
<1>5. \A c \in unl \ previous : score[c] \in Int /\ score[c] >= score[v]
  <2>1. \A c \in unl \ previous : Above(c, v) /\ score[c] \in Int
    BY Members DEF Underway
  <2> QED BY <1>1, <2>1 DEF Above, Ahead
<1>6. Fitting(score, rule, previous)' = Fitting(score, rule, previous)
  BY <1>0 DEF Fitting, Qualified
<1>7. ASSUME NEW x \in Fitting(score, rule, previous) \cap alternates'
      PROVE  /\ \A u \in unl' \cap previous : GoesBefore(score, x, u)
             /\ \A c \in unl' \ previous : score[c] >= score[x] + rule.minGap
  <2>1. CASE x = w
    BY <1>0, <1>1, <1>5, <2>1 DEF Weakest
  <2>2. CASE x \in alternates
    <3>1. /\ \A u \in unl \cap previous : GoesBefore(score, x, u)
          /\ \A c \in unl \ previous : score[c] >= score[x] + rule.minGap
      BY <2>2 DEF Underway
    <3>2. score[x] \in Int /\ score[x] <= score[w]
      BY <1>1, <1>2, <2>2, <3>1, Members DEF GoesBefore
    <3> QED BY <1>0, <1>1, <3>1, <3>2
  <2> QED BY <2>1, <2>2
<1> QED BY <1>0, <1>2, <1>3, <1>4, <1>6, <1>7 DEF Underway, Above

LEMMA RefuseUnderway ==
    ASSUME IInv, Underway, NEW v \in waiting, Challenge(v),
           unl' = unl, alternates' = alternates \cup {v}, Placed(v), rule.minGap >= 1
    PROVE  Underway'
<1> USE DEF IInv
<1>0. waiting' = waiting \ {v} /\ UNCHANGED <<score, rule, previous>> /\ IsNext(v)
      /\ v \notin previous
  BY DEF Placed, Challenge
<1>1. \A d \in waiting \ {v} : Above(v, d)
  BY <1>0, NextIsFirst
<1>2. Fitting(score, rule, previous)' = Fitting(score, rule, previous) /\ v \notin Fitting(score, rule, previous)
  BY <1>0 DEF Fitting, Qualified
<1> QED BY <1>0, <1>1, <1>2 DEF Underway, Above

\* What holds under way gives the outcome when nobody waits.
LEMMA DoneOutcome ==
    ASSUME IInv, Underway, Done, rule.minGap >= 1
    PROVE  Outcome(score, rule, previous, unl)
<1> USE DEF IInv
<1>1. Qualified(score, rule) = unl \cup alternates /\ unl \cap alternates = {}
  BY DEF Lists, Done
<1>2. unl # Qualified(score, rule) => Cardinality(unl) = rule.maxSize
  BY <1>1 DEF Lists
<1>3. Fitting(score, rule, previous) \subseteq unl \cup alternates
  BY <1>1 DEF Fitting
<1>4. ASSUME NEW c \in Qualified(score, rule) \ (previous \cup unl), NEW v \in unl
      PROVE  score[c] < score[v] + rule.minGap
  <2>1. c \in alternates
    BY <1>1
  <2>2. score[c] <= score[v] \/ score[c] < score[v] + rule.minGap
    BY <2>1 DEF NoClaimLeft
  <2>3. score[c] \in Int /\ score[v] \in Int /\ rule.minGap \in Nat
    BY <2>1, Members
  <2> QED BY <2>2, <2>3
<1> QED BY <1>1, <1>2, <1>3, <1>4 DEF Outcome, Underway, Lists, Above

\* A selection under way, one that begins, and one that begins with a better score.
LEMMA SeatStep == IInv /\ SeatInv /\ [Next]_vars => SeatInv'
<1> SUFFICES ASSUME IInv, SeatInv, [Next]_vars PROVE SeatInv'
  OBVIOUS
<1> USE DEF SeatInv
<1>1. ASSUME NEW v \in waiting, TakeSeat(v) \/ CutByCap(v) \/ Challenge(v) PROVE SeatInv'
  <2>1. Placed(v) /\ UNCHANGED <<score, rule, previous, improved>>
    BY <1>1 DEF TakeSeat, CutByCap, Challenge, Placed
  <2>2. HadSeat'
    BY <2>1 DEF HadSeat
  <2>3. Underway'
    <3>1. CASE rule.minGap >= 1
      <4>1. CASE TakeSeat(v)
        BY <3>1, <4>1, TakeSeatUnderway
      <4>2. CASE CutByCap(v)
        BY <3>1, <4>2, CutByCapUnderway
      <4>3. CASE Challenge(v)
        BY <2>1, <3>1, <4>3, SwapUnderway, RefuseUnderway DEF Challenge
      <4> QED BY <1>1, <4>1, <4>2, <4>3
    <3>2. CASE ~(rule.minGap >= 1)
      BY <2>1, <3>2 DEF Underway
    <3> QED BY <3>1, <3>2
  <2> QED BY <2>2, <2>3
<1>2. CASE Repeat
  BY <1>2 DEF Repeat, Begin, Underway, HadSeat
<1>3. ASSUME NEW v \in unl, NEW s \in 0 .. MaxScore, Improve(v, s) PROVE SeatInv'
  <2>1. /\ score' = [score EXCEPT ![v] = s] /\ s > score[v] /\ improved' = v
        /\ previous' = previous /\ rule' = rule /\ unl' = {} /\ alternates' = {} /\ Done
    BY <1>3 DEF Improve, Begin
  <2>2. Underway'
    BY <2>1 DEF Underway
  <2>3. HadSeat'
    <3> SUFFICES ASSUME rule.minGap >= 1
                 PROVE  \E less \in Absent .. MaxScore, u \in SUBSET Key :
                           /\ less < score'[v]
                           /\ v \in u
                           /\ Outcome([score' EXCEPT ![v] = less], rule, previous, u)
      BY <2>1 DEF HadSeat
    <3>1. /\ score \in [Key -> Absent .. MaxScore] /\ unl \in SUBSET Key /\ v \in Key
      BY DEF IInv, TypeOK
    <3>2. [score' EXCEPT ![v] = score[v]] = score /\ score'[v] = s
      BY <2>1, <3>1
    <3>3. Outcome(score, rule, previous, unl)
      BY <2>1, DoneOutcome
    <3>4. score[v] \in Absent .. MaxScore
      BY <3>1
    <3> QED BY <2>1, <3>1, <3>2, <3>3, <3>4
  <2> QED BY <2>2, <2>3
<1>4. CASE UNCHANGED vars
  BY <1>4 DEF vars, Underway, HadSeat, Fitting, Qualified, Above
<1> QED BY <1>1, <1>2, <1>3, <1>4 DEF Next

\* The second invariant: what a selection under way has done, and that the
\* validator that scores more had a seat before.
THEOREM SeatInvariance == Spec => []SeatInv
<1>1. Init => SeatInv
  BY DEF Init, SeatInv, Underway, HadSeat
<1> QED BY <1>1, SeatStep, Invariance, PTL DEF Spec

-----------------------------------------------------------------------------
(* What two outcomes have in common.                                       *)

Scores == [Key -> Absent .. MaxScore]

\* t scores each validator as s does, and v at least as high.
Raised(s, t, v) == t[v] >= s[v] /\ \A w \in Key \ {v} : t[w] = s[w]

LEMMA ScoreRanges ==
    ASSUME NEW s \in Scores, NEW r \in Rules
    PROVE  /\ \A v \in Key : s[v] \in Int /\ v \in Nat
           /\ r.cutoff \in Nat /\ r.maxSize \in Nat \ {0} /\ r.minGap \in Nat
           /\ Qualified(s, r) \subseteq Key
  BY DEF Scores, Absent, Qualified

LEMMA RaisedQualify ==
    ASSUME NEW s \in Scores, NEW t \in Scores, NEW r \in Rules, NEW v \in Qualified(s, r),
           Raised(s, t, v)
    PROVE  Qualified(t, r) = Qualified(s, r)
<1>1. \A w \in Key : s[w] \in Int /\ t[w] \in Int
  BY ScoreRanges
<1>2. r.cutoff \in Nat
  BY ScoreRanges
<1>3. v \in Key /\ s[v] >= r.cutoff /\ t[v] >= s[v]
  BY DEF Qualified, Raised
<1>4. ASSUME NEW w \in Key PROVE t[w] >= r.cutoff <=> s[w] >= r.cutoff
  <2>1. CASE w = v
    BY <1>1, <1>2, <1>3, <2>1
  <2>2. CASE w # v
    BY <2>2 DEF Raised
  <2> QED BY <2>1, <2>2
<1> QED BY <1>4 DEF Qualified

\* With fewer before it, a validator still fits.
LEMMA FewerAhead ==
    ASSUME NEW s \in Scores, NEW t \in Scores, NEW r \in Rules, NEW p \in SUBSET Key,
           Qualified(t, r) = Qualified(s, r),
           NEW v \in Fitting(s, r, p),
           \A w \in Key : Ahead(t, w, v) => Ahead(s, w, v)
    PROVE  v \in Fitting(t, r, p)
<1> DEFINE S == {w \in p \cap Qualified(s, r) : Ahead(s, w, v)}
           T == {w \in p \cap Qualified(s, r) : Ahead(t, w, v)}
<1>1. T \subseteq S /\ S \in SUBSET Key /\ T \in SUBSET Key
  OBVIOUS
<1>2. Cardinality(S) < r.maxSize /\ v \in p \cap Qualified(s, r)
  BY DEF Fitting
<1>3. Cardinality(T) < r.maxSize
  <2> HIDE DEF S, T
  <2>1. Cardinality(T) <= Cardinality(S) /\ Cardinality(T) \in Nat /\ Cardinality(S) \in Nat
    BY <1>1, FiniteParts, FS_Subset
  <2> QED BY <1>2, <2>1, ScoreRanges
<1> QED BY <1>2, <1>3 DEF Fitting

\* A UNL that lacks a member of another one has a member the other lacks.
LEMMA Exchanged ==
    ASSUME NEW r \in Rules, NEW Q \in SUBSET Key,
           NEW u \in SUBSET Q, NEW t \in SUBSET Q, NEW v \in u \ t,
           Cardinality(u) <= r.maxSize, Cardinality(t) = r.maxSize
    PROVE  \E x \in t : x \notin u
<1> SUFFICES ASSUME t \subseteq u PROVE FALSE
  OBVIOUS
<1>1. IsFiniteSet(u) /\ Cardinality(u) \in Nat /\ Cardinality(t) \in Nat
  BY FiniteParts
<1>2. Cardinality(t) <= Cardinality(u) /\ (Cardinality(u) = Cardinality(t) => u = t)
  BY <1>1, FS_Subset
<1> QED BY <1>1, <1>2

\* With a gap: of two selections that differ in this alone, that the second one
\* scores v at least as high, the second one seats v if the first one does.
LEMMA RaisedKeepsSeat ==
    ASSUME NEW s \in Scores, NEW t \in Scores, NEW r \in Rules, r.minGap >= 1,
           NEW p \in SUBSET Key, NEW u \in SUBSET Key, NEW n \in SUBSET Key,
           Outcome(s, r, p, u), Outcome(t, r, p, n),
           NEW v \in u, Raised(s, t, v)
    PROVE  v \in n
<1> SUFFICES ASSUME v \notin n PROVE FALSE
  OBVIOUS
<1>1. v \in Qualified(s, r) /\ Qualified(t, r) = Qualified(s, r)
  BY RaisedQualify DEF Outcome
<1>2. PICK x \in n : x \notin u
  <2>1. u \subseteq Qualified(s, r) /\ n \subseteq Qualified(s, r) /\ n # Qualified(s, r)
    BY <1>1 DEF Outcome
  <2>2. Cardinality(u) <= r.maxSize /\ Cardinality(n) = r.maxSize
    BY <1>1, <2>1 DEF Outcome
  <2> QED BY <2>1, <2>2, Exchanged, ScoreRanges
<1>3. /\ x \in Qualified(s, r) /\ x \in Key /\ v \in Key /\ x # v
      /\ s[x] \in Int /\ t[x] = s[x] /\ s[v] \in Int /\ t[v] \in Int /\ t[v] >= s[v]
      /\ x \in Nat /\ v \in Nat /\ r.minGap \in Nat
  BY <1>1, <1>2, ScoreRanges DEF Outcome, Raised
<1>4. x \in p => x \in Fitting(s, r, p)
  <2> SUFFICES ASSUME x \in p PROVE x \in Fitting(s, r, p)
    OBVIOUS
  <2>1. x \in Fitting(t, r, p)
    BY <1>2 DEF Outcome
  <2>2. \A w \in Key : Ahead(s, w, x) => Ahead(t, w, x)
    BY <1>3, ScoreRanges DEF Ahead, Raised
  <2> QED BY <1>1, <2>1, <2>2, FewerAhead
<1>5. v \in p => v \in Fitting(t, r, p)
  <2> SUFFICES ASSUME v \in p PROVE v \in Fitting(t, r, p)
    OBVIOUS
  <2>1. v \in Fitting(s, r, p)
    BY DEF Outcome
  <2>2. \A w \in Key : Ahead(t, w, v) => Ahead(s, w, v)
    BY <1>3, ScoreRanges DEF Ahead, Raised
  <2> QED BY <1>1, <2>1, <2>2, FewerAhead
<1>6. CASE v \notin p /\ x \notin p
  <2>1. Ahead(s, v, x) /\ Ahead(t, x, v)
    BY <1>1, <1>2, <1>3, <1>6 DEF Outcome
  <2> QED BY <1>3, <2>1 DEF Ahead
<1>7. CASE v \notin p /\ x \in p
  <2>1. s[v] >= s[x] + r.minGap
    BY <1>2, <1>4, <1>7 DEF Outcome
  <2>2. t[v] < t[x] + r.minGap
    BY <1>1, <1>2, <1>7 DEF Outcome
  <2> QED BY <1>3, <2>1, <2>2
<1>8. CASE v \in p /\ x \notin p
  <2>1. t[x] >= t[v] + r.minGap
    BY <1>2, <1>5, <1>8 DEF Outcome
  <2>2. s[x] < s[v] + r.minGap
    BY <1>2, <1>3, <1>8 DEF Outcome
  <2> QED BY <1>3, <2>1, <2>2
<1>9. CASE v \in p /\ x \in p
  <2>1. GoesBefore(t, v, x)
    BY <1>2, <1>5, <1>9 DEF Outcome
  <2>2. GoesBefore(s, x, v)
    BY <1>2, <1>4, <1>9 DEF Outcome
  <2> QED BY <1>3, <2>1, <2>2 DEF GoesBefore
<1> QED BY <1>6, <1>7, <1>8, <1>9

LEMMA OneOutcome ==
    ASSUME NEW s \in Scores, NEW r \in Rules, r.minGap >= 1,
           NEW p \in SUBSET Key, NEW u \in SUBSET Key, NEW n \in SUBSET Key,
           Outcome(s, r, p, u), Outcome(s, r, p, n)
    PROVE  u = n
<1>1. \A v \in Key : Raised(s, s, v)
  BY ScoreRanges DEF Raised
<1>2. \A v \in u : v \in n
  BY <1>1, RaisedKeepsSeat
<1>3. \A v \in n : v \in u
  BY <1>1, RaisedKeepsSeat
<1> QED BY <1>2, <1>3

-----------------------------------------------------------------------------

\* With a gap, a validator that has a seat keeps it when it scores more.
THEOREM BetterScoreKeeps == Spec => []BetterScoreKeepsSeat
<1>1. IInv /\ SeatInv => BetterScoreKeepsSeat
  <2> SUFFICES ASSUME IInv, SeatInv, Done, improved # 0, rule.minGap >= 1
               PROVE  improved \in unl
    BY DEF BetterScoreKeepsSeat
  <2>1. /\ score \in Scores /\ rule \in Rules /\ previous \in SUBSET Key
        /\ unl \in SUBSET Key /\ improved \in Key
    BY DEF IInv, TypeOK, Scores
  <2>2. PICK less \in Absent .. MaxScore, u \in SUBSET Key :
           /\ less < score[improved]
           /\ improved \in u
           /\ Outcome([score EXCEPT ![improved] = less], rule, previous, u)
    BY DEF SeatInv, HadSeat
  <2> DEFINE before == [score EXCEPT ![improved] = less]
  <2>3. before \in Scores /\ Raised(before, score, improved)
    BY <2>1, <2>2, ScoreRanges DEF Scores, Raised, Absent
  <2>4. Outcome(score, rule, previous, unl)
    BY DoneOutcome DEF SeatInv
  <2> HIDE DEF before
  <2> QED BY <2>1, <2>2, <2>3, <2>4, RaisedKeepsSeat DEF before
<1> QED BY <1>1, Invariance, SeatInvariance, PTL

\* With a gap the scores, the parameters and the previous UNL leave one result,
\* whatever the order in which equals were met: validators that agree on the
\* response agree on the UNL.
Determined ==
    Done /\ rule.minGap >= 1 =>
        \A u \in SUBSET Key : Outcome(score, rule, previous, u) <=> u = unl

THEOREM ResultIsDetermined == Spec => []Determined
<1>1. IInv /\ SeatInv => Determined
  <2> SUFFICES ASSUME IInv, SeatInv, Done, rule.minGap >= 1, NEW u \in SUBSET Key
               PROVE  Outcome(score, rule, previous, u) <=> u = unl
    BY DEF Determined
  <2>1. /\ score \in Scores /\ rule \in Rules /\ previous \in SUBSET Key /\ unl \in SUBSET Key
    BY DEF IInv, TypeOK, Scores
  <2>2. Outcome(score, rule, previous, unl)
    BY DoneOutcome DEF SeatInv
  <2> QED BY <2>1, <2>2, OneOutcome
<1> QED BY <1>1, Invariance, SeatInvariance, PTL

==============================================================================
