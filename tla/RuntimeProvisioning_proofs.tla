----------------------- MODULE RuntimeProvisioning_proofs -----------------------
(***************************************************************************)
(* Proofs about RuntimeProvisioning: type correctness, that a local record *)
(* that is seen is kept and that a score nobody has interfered with is     *)
(* made on the pinned runtime, for any commands; that the loop never       *)
(* deploys twice for a round by itself, with one loop.                     *)
(***************************************************************************)
EXTENDS RuntimeProvisioning, TLAPS

USE RuntimeAssumption

LoopCommands == {"participate", "warm"}

\* What holds with any commands.
CoreInv == TypeOK /\ CommandsOK /\ LastOK /\ SeenLocal

\* What holds with one loop beside the operator.
LoopInv == CoreInv /\ LoopOrder /\ NoDeployLoop

\* What holds of the record and the runtimes, with any commands.
TellsInv == CoreInv /\ OneUntouched /\ RecordTells

LEMMA InvParts == LoopInv /\ TellsInv <=> IInv
  BY DEF LoopInv, TellsInv, CoreInv, IInv

LEMMA IdleType == Idle \in Commands
  BY DEF Idle, Commands, PCs

LEMMA FreshType ==
    ASSUME NEW m \in Manifests, NEW mode \in Modes
    PROVE  /\ Fresh(m, mode) \in Records
           /\ Fresh(m, mode) # None
           /\ Fresh(m, mode).mode = mode
           /\ Fresh(m, mode).pin = m.pin
  BY DEF Fresh, Records, ManifestTypes

\* A deployment that passes leaves nothing to be deployed again.
LEMMA FreshRecordPasses ==
    ASSUME NEW m \in Manifests, FreshPasses(m)
    PROVE  Passes(m, Fresh(m, "modal"))
<1>1. "modal" \in Modes
  BY DEF Modes
<1> QED BY <1>1, FreshType DEF FreshPasses, Passes

\* Storing one entry of a sequence leaves its length and type.
LEMMA StoreEntry ==
    ASSUME NEW S, NEW s \in Seq(S), NEW n \in 1 .. Len(s), NEW x \in S
    PROVE  /\ [s EXCEPT ![n] = x] \in Seq(S)
           /\ Len([s EXCEPT ![n] = x]) = Len(s)
  OBVIOUS

-----------------------------------------------------------------------------
(* What a step may do.                                                     *)

\* The command p ends, or goes on with its round.
Follows(p, r) ==
    /\ r \in Commands
    /\ proc' = [proc EXCEPT ![p] = r]
    /\ \/ r = Idle
       \/ /\ r.round = proc[p].round
          /\ r.cmd = proc[p].cmd
          /\ r.edits = proc[p].edits
          /\ r.pc = "infer" => Passes(rounds[r.round], r.rec)
          /\ r.pc \notin {"idle", "deploy", "launch"}
          /\ r.pc = "write" => proc[p].pc \in {"deploy", "write", "launch"}

\* What becomes of the record: nothing, a record of the operator's, or the
\* one the loop's command p has deployed.
RecordMoves(p) ==
    \/ UNCHANGED <<record, last, edits>>
    \/ edits' = edits + 1 /\ record' \in Records /\ last' = last
    \/ /\ Provisions(p) /\ At(p, "write")
       /\ record' = Fresh(TheManifest(p), "modal")
       /\ last' = [round |-> proc[p].round, edits |-> edits]
       /\ edits' = edits

\* The types of what no part of the invariant reads.
RestTyped ==
    /\ modalApp' \in Pins \cup {None}
    /\ container' \in Pins \cup {None}
    /\ unrecorded' \in SUBSET Modes
    /\ untouched' \in SUBSET Proc
    /\ verdict' \in Seq(Verdicts) /\ Len(verdict') = Len(rounds')
    /\ scoredOn' \in Seq(Pins \cup {None}) /\ Len(scoredOn') = Len(rounds')
    /\ faults' \in Nat

\* The facts about one command every step starts from.
LEMMA CommandType ==
    ASSUME CoreInv, NEW p \in Proc
    PROVE  /\ proc[p] \in Commands
           /\ proc \in [Proc -> Commands]
           /\ CommandOK(p, proc[p])
           /\ rounds \in Seq(Manifests)
           /\ ~At(p, "idle") => /\ proc[p].round \in 1 .. Len(rounds)
                                /\ TheManifest(p) \in Manifests
                                /\ TheManifest(p).pin \in Pins
  BY DEF CoreInv, TypeOK, CommandsOK, CommandOK, At, TheManifest, ManifestTypes

LEMMA RestStays ==
    ASSUME CoreInv, UNCHANGED <<modalApp, container, unrecorded, verdict, scoredOn, rounds, faults>>,
           untouched' = untouched \/ untouched' \in SUBSET Proc
    PROVE  RestTyped
  BY DEF CoreInv, TypeOK, RestTyped

LEMMA RecordStaysOK ==
    ASSUME CoreInv, NEW p \in Proc, RecordMoves(p), rounds' = rounds
    PROVE  /\ record' \in Records \cup {None}
           /\ last' \in [round : Nat, edits : Nat]
           /\ edits' \in Nat
           /\ edits <= edits'
           /\ LastOK'
           /\ record' = record \/ record'.mode = "modal" \/ edits < edits'
<1> USE DEF CoreInv, TypeOK, LastOK
<1>1. CASE UNCHANGED <<record, last, edits>>
  BY <1>1 DEF FreshPasses, Deployable, Check, Fresh, Differing
<1>2. CASE edits' = edits + 1 /\ record' \in Records /\ last' = last
  BY <1>2
<1>3. CASE /\ Provisions(p) /\ At(p, "write")
           /\ record' = Fresh(TheManifest(p), "modal")
           /\ last' = [round |-> proc[p].round, edits |-> edits]
           /\ edits' = edits
  <2>1. /\ proc[p].round \in 1 .. Len(rounds)
        /\ TheManifest(p) \in Manifests
        /\ FreshPasses(TheManifest(p))
    BY <1>3, CommandType DEF At, CommandOK, Provisions, TheManifest
  <2>2. "modal" \in Modes
    BY DEF Modes
  <2>3. record' \in Records /\ record'.mode = "modal"
    BY <1>3, <2>1, <2>2, FreshType
  <2>4. /\ last'.round = proc[p].round /\ last'.edits = edits /\ edits' = edits
        /\ proc[p].round \in Nat
    BY <1>3, <2>1
  <2>5. LastOK'
    BY <1>3, <2>1, <2>4 DEF TheManifest
  <2> QED BY <1>3, <2>1, <2>3, <2>4, <2>5
<1> QED BY <1>1, <1>2, <1>3 DEF RecordMoves

LEMMA MovesKeep ==
    ASSUME CoreInv, NEW p \in Proc, NEW r \in Commands, proc' = [proc EXCEPT ![p] = r],
           RecordMoves(p), rounds' = rounds, RestTyped,
           CommandOK(p, r)',
           Credentials /\ r.cmd \in LoopCommands /\ r.pc \in {"deploy", "write"}
              => record' = None \/ record'.mode = "modal" \/ r.edits < edits'
    PROVE  CoreInv'
<1>0. /\ proc \in [Proc -> Commands]
      /\ edits \in Nat
      /\ \A q \in Proc : CommandOK(q, proc[q])
  BY DEF CoreInv, TypeOK, CommandsOK
<1>1. TypeOK'
  BY RecordStaysOK DEF CoreInv, TypeOK, RestTyped
<1>2. CommandsOK'
  <2> SUFFICES ASSUME NEW q \in Proc PROVE CommandOK(q, proc[q])'
    BY DEF CommandsOK
  <2>1. CASE q = p
    BY <1>0, <2>1
  <2>2. CASE q # p
    <3>1. proc'[q] = proc[q]
      BY <1>0, <2>2
    <3>2. edits <= edits' /\ edits' \in Nat
      BY RecordStaysOK
    <3>3. proc[q].edits \in Nat
      BY <1>0 DEF Commands
    <3> QED BY <1>0, <3>1, <3>2, <3>3
            DEF CommandOK, FreshPasses, Deployable, Check, Fresh, Differing, Passes
  <2> QED BY <2>1, <2>2
<1>3. SeenLocal'
  <2> SUFFICES ASSUME NEW q \in Proc, Provisions(q)', proc'[q].pc \in {"deploy", "write"}
               PROVE  record' = None \/ record'.mode = "modal" \/ proc'[q].edits < edits'
    BY DEF SeenLocal
  <2>1. CASE q = p
    BY <1>0, <2>1 DEF Provisions, LoopCommands
  <2>2. CASE q # p
    <3>1. proc'[q] = proc[q] /\ proc[q].edits \in Nat
      BY <1>0, <2>2 DEF Commands
    <3>2. proc[q].edits <= edits
      BY <1>0, <3>1 DEF CommandOK
    <3>3. record = None \/ record.mode = "modal" \/ proc[q].edits < edits
      BY <3>1 DEF CoreInv, SeenLocal, Provisions
    <3>4. /\ edits <= edits' /\ edits' \in Nat
          /\ record' = record \/ record'.mode = "modal" \/ edits < edits'
      BY RecordStaysOK
    <3> QED BY <1>0, <3>1, <3>2, <3>3, <3>4
  <2> QED BY <2>1, <2>2
<1> QED BY <1>1, <1>2, <1>3, RecordStaysOK DEF CoreInv

\* A command that follows its course keeps the invariant.
LEMMA FollowKeeps ==
    ASSUME CoreInv, NEW p \in Proc, ~At(p, "idle"), NEW r, Follows(p, r),
           RecordMoves(p), rounds' = rounds, RestTyped,
           r.pc = "write" => UNCHANGED record
    PROVE  CoreInv'
<1>1. /\ CommandOK(p, proc[p]) /\ proc[p] \in Commands /\ edits \in Nat
      /\ edits <= edits' /\ edits' \in Nat
  BY CommandType, RecordStaysOK DEF CoreInv, TypeOK
<1>2. CommandOK(p, r)'
  <2>1. CASE r = Idle
    BY <2>1 DEF Idle, CommandOK
  <2>2. CASE r # Idle
    <3>1. proc[p].edits \in Nat
      BY <1>1 DEF Commands
    <3>2. r.pc = "write" /\ r.cmd \in LoopCommands => proc[p].pc \in {"deploy", "write"}
      BY <1>1, <2>2 DEF Follows, CommandOK, At, LoopCommands
    <3> QED BY <1>1, <2>2, <3>1, <3>2
            DEF Follows, CommandOK, At, LoopCommands, FreshPasses, Deployable, Check, Fresh,
                Differing, Passes
  <2> QED BY <2>1, <2>2
<1>3. ASSUME Credentials, r.cmd \in LoopCommands, r.pc \in {"deploy", "write"}
      PROVE  record' = None \/ record'.mode = "modal" \/ r.edits < edits'
  <2>1. r # Idle /\ r.pc = "write" /\ record' = record
    BY <1>3 DEF Follows, Idle
  <2>2. proc[p].pc \in {"deploy", "write"} /\ Provisions(p) /\ r.edits = proc[p].edits
    BY <1>1, <1>3, <2>1 DEF Follows, Provisions, LoopCommands, CommandOK, At
  <2>3. record = None \/ record.mode = "modal" \/ proc[p].edits < edits
    BY <2>2 DEF CoreInv, SeenLocal
  <2>4. proc[p].edits \in Nat
    BY <1>1 DEF Commands
  <2> QED BY <1>1, <2>1, <2>2, <2>3, <2>4
<1> QED BY <1>2, <1>3, MovesKeep DEF Follows

-----------------------------------------------------------------------------
(* The steps.                                                              *)

LEMMA EndFollows == ASSUME NEW p \in Proc, End(p) PROVE Follows(p, Idle)
  BY IdleType DEF End, Follows

LEMMA UseFollows ==
    ASSUME CoreInv, NEW p \in Proc, ~At(p, "idle"), NEW rec \in Records, Use(p, rec),
           proc[p].cmd # "warm" => Passes(TheManifest(p), rec)
    PROVE  \E r : Follows(p, r) /\ r.pc # "write"
<1>1. CASE proc[p].cmd = "warm" /\ rec.mode = "local"
  BY <1>1, EndFollows DEF Use, Idle
<1>2. CASE ~(proc[p].cmd = "warm" /\ rec.mode = "local")
  <2> DEFINE pc == IF proc[p].cmd = "warm" THEN "probe" ELSE "infer"
             r == [proc[p] EXCEPT !.pc = pc, !.rec = rec]
  <2>1. proc[p] \in Commands /\ proc \in [Proc -> Commands]
    BY CommandType
  <2>2. r \in Commands
    BY <2>1 DEF Commands, PCs
  <2>3. proc' = [proc EXCEPT ![p] = r]
    BY <1>2, <2>1 DEF Use
  <2>4. /\ r.round = proc[p].round /\ r.cmd = proc[p].cmd /\ r.edits = proc[p].edits
        /\ r.pc = pc /\ r.rec = rec
    BY <2>1 DEF Commands
  <2>5. pc = "infer" => Passes(rounds[r.round], r.rec)
    BY <2>4 DEF TheManifest
  <2>6. pc \in {"probe", "infer"}
    OBVIOUS
  <2> HIDE DEF pc, r
  <2>7. Follows(p, r) /\ r.pc # "write"
    BY <2>2, <2>3, <2>4, <2>5, <2>6 DEF Follows
  <2> QED BY <2>7
<1> QED BY <1>1, <1>2

LEMMA ConcludeFollows ==
    ASSUME CoreInv, NEW p \in Proc, ~At(p, "idle"), NEW rec \in Records \cup {None},
           NEW outcome \in Verdicts \cup {"passed"}, Conclude(p, rec, outcome),
           outcome # "passed"
    PROVE  /\ \E r : Follows(p, r) /\ r.pc # "write"
           /\ verdict' \in Seq(Verdicts) /\ Len(verdict') = Len(verdict)
           /\ scoredOn' = scoredOn
<1>0. verdict \in Seq(Verdicts) /\ Len(verdict) = Len(rounds)
      /\ proc[p].round \in 1 .. Len(rounds)
  BY CommandType DEF CoreInv, TypeOK
<1>1. CASE proc[p].cmd = "warm"
  <2>1. CASE rec = None
    BY <1>0, <1>1, <2>1, EndFollows DEF Conclude, Idle, outcomeVars
  <2>2. CASE rec # None
    BY <1>0, <1>1, <2>2, UseFollows DEF Conclude, outcomeVars
  <2> QED BY <2>1, <2>2
<1>2. CASE proc[p].cmd # "warm"
  <2>1. End(p) /\ verdict' = [verdict EXCEPT ![proc[p].round] = outcome]
        /\ scoredOn' = scoredOn
    BY <1>2 DEF Conclude
  <2>2. outcome \in Verdicts
    OBVIOUS
  <2> QED BY <1>0, <2>1, <2>2, StoreEntry, EndFollows DEF Idle
<1> QED BY <1>1, <1>2

LEMMA CheckType == ASSUME NEW m, NEW r PROVE Check(m, r) \in Verdicts \cup {"passed"}
  BY DEF Check, Verdicts

LEMMA BeginKeeps ==
    ASSUME CoreInv, NEW p \in Proc, NEW cmd \in {"participate", "warm", "score", "deploy", "start"},
           NEW n, NEW pc \in {"resolve", "deploy", "launch"}, Begin(p, cmd, n, pc),
           cmd \in LoopCommands => p \in Loops /\ pc = "resolve",
           pc = "deploy" => cmd # "start",
           pc = "launch" => cmd = "start"
    PROVE  CoreInv'
<1>0. PICK r : r = [pc |-> pc, cmd |-> cmd, round |-> n, rec |-> None, edits |-> edits]
  OBVIOUS
<1>1. n \in 1 .. Len(rounds) /\ rounds \in Seq(Manifests) /\ edits \in Nat
  BY DEF Begin, CoreInv, TypeOK
<1>2. r \in Commands
  BY <1>0, <1>1 DEF Commands, PCs
<1>3. /\ proc' = [proc EXCEPT ![p] = r] /\ rounds' = rounds /\ edits' = edits
      /\ UNCHANGED <<record, last>>
  BY <1>0 DEF Begin, worldVars
<1>4. RestTyped
  BY RestStays DEF Begin, worldVars, outcomeVars
<1>5. CommandOK(p, r)'
  <2>1. r.pc = pc /\ r.cmd = cmd /\ r.round = n /\ r.edits = edits
    BY <1>0
  <2>2. /\ cmd \in LoopCommands => p \in Loops /\ pc \notin {"deploy", "write"}
        /\ pc # "infer"
    BY DEF LoopCommands
  <2> QED BY <1>1, <1>3, <2>1, <2>2 DEF CommandOK, LoopCommands
<1> QED BY <1>0, <1>2, <1>3, <1>4, <1>5, MovesKeep DEF RecordMoves, LoopCommands

LEMMA ResolveKeeps == ASSUME CoreInv, NEW p \in Proc, Resolve(p) PROVE CoreInv'
<1> DEFINE m == TheManifest(p)
<1>0. /\ ~At(p, "idle") /\ RecordMoves(p) /\ rounds' = rounds
      /\ UNCHANGED <<modalApp, container, unrecorded, faults, record, edits, last>>
      /\ untouched' \in SUBSET Proc
  BY DEF Resolve, At, RecordMoves, worldVars, LooksAt, CoreInv, TypeOK
<1>1. /\ proc[p] \in Commands /\ proc \in [Proc -> Commands] /\ CommandOK(p, proc[p])
      /\ proc[p].round \in 1 .. Len(rounds)
      /\ record \in Records \cup {None}
  BY <1>0, CommandType DEF CoreInv, TypeOK
<1>2. CASE Passes(m, record)
  <2>1. Use(p, record) /\ UNCHANGED outcomeVars /\ record \in Records
    BY <1>1, <1>2 DEF Resolve, Passes
  <2>2. PICK r : Follows(p, r) /\ r.pc # "write"
    BY <1>0, <1>2, <2>1, UseFollows
  <2> QED BY <1>0, <2>1, <2>2, RestStays, FollowKeeps DEF outcomeVars
<1>3. CASE ~Passes(m, record) /\ Provisions(p) /\ Replaceable(p) /\ FreshPasses(m)
  <2>0. PICK r : r = [proc[p] EXCEPT !.pc = "deploy"]
    OBVIOUS
  <2>1. Goto(p, "deploy") /\ UNCHANGED outcomeVars
    BY <1>3 DEF Resolve
  <2>2. r \in Commands /\ proc' = [proc EXCEPT ![p] = r] /\ r.pc = "deploy"
        /\ r.round = proc[p].round /\ r.cmd = proc[p].cmd /\ r.edits = proc[p].edits
    BY <1>1, <2>0, <2>1 DEF Goto, Commands, PCs
  <2>3. CommandOK(p, r)'
    BY <1>0, <1>1, <1>3, <2>2
       DEF CommandOK, At, Provisions, TheManifest, FreshPasses, Deployable, Check, Fresh, Differing
  <2>4. record' = None \/ record'.mode = "modal"
    BY <1>0, <1>3 DEF Replaceable
  <2>5. RestTyped
    BY <1>0, <2>1, RestStays DEF outcomeVars
  <2> QED BY <1>0, <2>2, <2>3, <2>4, <2>5, MovesKeep
<1>4. ASSUME NEW rec \in Records \cup {None}, NEW outcome, outcome \in Verdicts \cup {"passed"},
             outcome # "passed", Conclude(p, rec, outcome)
      PROVE  CoreInv'
  <2>1. PICK r : Follows(p, r) /\ r.pc # "write"
    BY <1>0, <1>4, ConcludeFollows
  <2>2. verdict' \in Seq(Verdicts) /\ Len(verdict') = Len(verdict) /\ scoredOn' = scoredOn
    BY <1>0, <1>4, ConcludeFollows
  <2>3. RestTyped
    BY <1>0, <2>2 DEF RestTyped, CoreInv, TypeOK
  <2> QED BY <1>0, <2>1, <2>3, FollowKeeps
<1>5. CASE ~Passes(m, record) /\ ~(Provisions(p) /\ Replaceable(p) /\ FreshPasses(m))
  <2>1. CASE record # None
    <3>1. Conclude(p, record, Check(m, record)) /\ Check(m, record) # "passed"
      BY <1>5, <2>1 DEF Resolve, Passes
    <3> QED BY <1>1, <1>4, <3>1, CheckType
  <2>2. CASE record = None /\ Provisions(p) /\ Deployable(m)
    <3>1. Conclude(p, None, Check(m, Fresh(m, "modal"))) /\ Check(m, Fresh(m, "modal")) # "passed"
      BY <1>5, <2>2 DEF Resolve, FreshPasses, Replaceable
    <3> QED BY <1>4, <3>1, CheckType
  <2>3. CASE End(p) /\ UNCHANGED outcomeVars
    BY <1>0, <2>3, EndFollows, RestStays, FollowKeeps DEF outcomeVars, Idle
  <2> QED BY <1>5, <2>1, <2>2, <2>3 DEF Resolve
<1> QED BY <1>2, <1>3, <1>5

LEMMA GoOn ==
    ASSUME CoreInv, NEW p \in Proc, proc[p].pc \in {"deploy", "launch"}, Goto(p, "write")
    PROVE  Follows(p, [proc[p] EXCEPT !.pc = "write"])
<1>1. proc[p] \in Commands /\ proc \in [Proc -> Commands]
  BY CommandType
<1> QED BY <1>1 DEF Follows, Goto, Commands, PCs

LEMMA DeployKeeps == ASSUME CoreInv, NEW p \in Proc, Deploy(p) \/ Launch(p) PROVE CoreInv'
<1>0. /\ ~At(p, "idle") /\ RecordMoves(p) /\ rounds' = rounds /\ record' = record
      /\ proc[p].pc \in {"deploy", "launch"}
      /\ UNCHANGED <<verdict, scoredOn>>
  BY DEF Deploy, Launch, At, RecordMoves, outcomeVars
<1>1. TheManifest(p).pin \in Pins /\ TypeOK
  BY <1>0, CommandType DEF CoreInv
<1>2. RestTyped
  <2>1. untouched' \in SUBSET Proc /\ faults' \in Nat
    BY <1>1 DEF Deploy, Launch, TypeOK, Fault
  <2>2. /\ modalApp' \in Pins \cup {None} /\ container' \in Pins \cup {None}
        /\ unrecorded' \in SUBSET Modes
    BY <1>1 DEF Deploy, Launch, TypeOK, Modes
  <2> QED BY <1>0, <1>1, <2>1, <2>2 DEF RestTyped, TypeOK
<1>3. Goto(p, "write") \/ End(p)
  BY DEF Deploy, Launch
<1>4. CASE End(p)
  BY <1>0, <1>2, <1>4, EndFollows, FollowKeeps DEF Idle
<1>5. CASE Goto(p, "write")
  BY <1>0, <1>2, <1>5, GoOn, FollowKeeps
<1> QED BY <1>3, <1>4, <1>5

LEMMA WriteKeeps == ASSUME CoreInv, NEW p \in Proc, WriteRecord(p) PROVE CoreInv'
<1> DEFINE m == TheManifest(p)
           new == Fresh(m, ModeOf(p))
<1>0. /\ ~At(p, "idle") /\ At(p, "write") /\ rounds' = rounds
      /\ UNCHANGED <<modalApp, container, untouched>>
      /\ TypeOK /\ CommandOK(p, proc[p])
      /\ m \in Manifests /\ ModeOf(p) \in Modes
  BY CommandType DEF WriteRecord, At, CoreInv, ModeOf, Modes
<1>1. new \in Records /\ new # None
  BY <1>0, FreshType
<1>2. unrecorded' \in SUBSET Modes /\ faults' \in Nat
  BY <1>0 DEF WriteRecord, TypeOK, Fault
<1>3. CASE record' = new /\ Provisions(p)
  <2>1. \/ /\ last' = [round |-> proc[p].round, edits |-> edits]
           /\ edits' = edits
           /\ \/ Passes(m, new) /\ Use(p, new) /\ UNCHANGED outcomeVars
              \/ ~Passes(m, new) /\ Conclude(p, new, Check(m, new))
        \/ End(p) /\ UNCHANGED <<record, outcomeVars, last, edits>>
    BY <1>3 DEF WriteRecord
  <2>2. RecordMoves(p)
    BY <1>0, <1>3, <2>1 DEF RecordMoves, ModeOf, Provisions
  <2>3. CASE Passes(m, new) /\ Use(p, new) /\ UNCHANGED outcomeVars
    <3>1. PICK r : Follows(p, r) /\ r.pc # "write"
      BY <1>0, <1>1, <2>3, UseFollows
    <3>2. RestTyped
      BY <1>0, <1>2, <2>3 DEF RestTyped, TypeOK, outcomeVars
    <3> QED BY <1>0, <2>2, <3>1, <3>2, FollowKeeps
  <2>4. CASE ~Passes(m, new) /\ Conclude(p, new, Check(m, new))
    <3>1. Check(m, new) # "passed" /\ Check(m, new) \in Verdicts \cup {"passed"}
      BY <1>1, <2>4, CheckType DEF Passes
    <3>2. /\ \E r : Follows(p, r) /\ r.pc # "write"
          /\ verdict' \in Seq(Verdicts) /\ Len(verdict') = Len(verdict)
          /\ scoredOn' = scoredOn
      BY <1>0, <1>1, <2>4, <3>1, ConcludeFollows
    <3>3. RestTyped
      BY <1>0, <1>2, <3>2 DEF RestTyped, TypeOK
    <3> QED BY <1>0, <2>2, <3>2, <3>3, FollowKeeps
  <2>5. CASE End(p) /\ UNCHANGED <<record, outcomeVars, last, edits>>
    <3>1. RestTyped
      BY <1>0, <1>2, <2>5 DEF RestTyped, TypeOK, outcomeVars
    <3> QED BY <1>0, <2>2, <2>5, <3>1, EndFollows, FollowKeeps DEF Idle
  <2> QED BY <2>1, <2>3, <2>4, <2>5
<1>4. CASE ~(record' = new /\ Provisions(p))
  <2>1. End(p) /\ RecordMoves(p) /\ UNCHANGED outcomeVars
    BY <1>1, <1>4 DEF WriteRecord, RecordMoves
  <2>2. RestTyped
    BY <1>0, <1>2, <2>1 DEF RestTyped, TypeOK, outcomeVars
  <2> QED BY <1>0, <2>1, <2>2, EndFollows, FollowKeeps DEF Idle
<1> QED BY <1>3, <1>4

LEMMA EndingKeeps ==
    ASSUME CoreInv, NEW p \in Proc, Infer(p) \/ Probe(p) \/ Kill(p)
    PROVE  CoreInv'
<1>0. /\ ~At(p, "idle") /\ RecordMoves(p) /\ rounds' = rounds /\ End(p) /\ TypeOK
  BY DEF Infer, Probe, Kill, At, RecordMoves, worldVars, CoreInv
<1>1. /\ proc[p].round \in 1 .. Len(rounds) /\ TheManifest(p).pin \in Pins
      /\ proc[p].rec.mode \in Modes => Serving(proc[p].rec.mode) \in Pins \cup {None}
      /\ ModeOf(p) \in Modes
  BY <1>0, CommandType DEF Serving, TypeOK, Modes, ModeOf
<1>2. RestTyped
  <2>1. CASE Infer(p)
    <3>1. Serving(proc[p].rec.mode) \in Pins \cup {None}
      BY <1>0 DEF Serving, TypeOK
    <3>2. /\ [verdict EXCEPT ![proc[p].round] = "scored"] \in Seq(Verdicts)
          /\ Len([verdict EXCEPT ![proc[p].round] = "scored"]) = Len(rounds)
          /\ [verdict EXCEPT ![proc[p].round] = "failed"] \in Seq(Verdicts)
          /\ Len([verdict EXCEPT ![proc[p].round] = "failed"]) = Len(rounds)
      BY <1>0, <1>1, StoreEntry DEF TypeOK, Verdicts
    <3>3. /\ [scoredOn EXCEPT ![proc[p].round] = Serving(proc[p].rec.mode)] \in Seq(Pins \cup {None})
          /\ Len([scoredOn EXCEPT ![proc[p].round] = Serving(proc[p].rec.mode)]) = Len(rounds)
      BY <1>0, <1>1, <3>1, StoreEntry DEF TypeOK
    <3>4. faults' \in Nat /\ UNCHANGED <<rounds, modalApp, container, unrecorded, untouched>>
      BY <1>0, <2>1 DEF Infer, TypeOK, worldVars, Fault
    <3>5. /\ verdict' \in Seq(Verdicts) /\ Len(verdict') = Len(rounds)
          /\ scoredOn' \in Seq(Pins \cup {None}) /\ Len(scoredOn') = Len(rounds)
      BY <1>0, <2>1, <3>2, <3>3 DEF Infer, TypeOK
    <3> QED BY <1>0, <3>4, <3>5 DEF RestTyped, TypeOK
  <2>2. CASE Probe(p)
    BY <1>0, <2>2, RestStays DEF Probe, worldVars, outcomeVars
  <2>3. CASE Kill(p)
    <3>1. faults' \in Nat /\ UNCHANGED <<rounds, container, verdict, scoredOn>>
      BY <1>0, <2>3 DEF Kill, TypeOK, outcomeVars, Fault
    <3>2. "modal" \in Modes
      BY DEF Modes
    <3>3. modalApp' \in Pins \cup {None} /\ unrecorded' \in SUBSET Modes
          /\ untouched' \in SUBSET Proc
      BY <1>0, <1>1, <2>3, <3>2 DEF Kill, TypeOK
    <3> QED BY <1>0, <3>1, <3>3 DEF RestTyped, TypeOK
  <2> QED BY <2>1, <2>2, <2>3
<1> QED BY <1>0, <1>2, EndFollows, FollowKeeps DEF Idle

\* A new round changes none of the earlier ones.
LEMMA AnnounceKeeps == ASSUME CoreInv, Announce \/ ContainerExits \/ UNCHANGED vars PROVE CoreInv'
<1>0. /\ TypeOK /\ UNCHANGED <<record, last, edits, proc>>
      /\ \A n \in 1 .. Len(rounds) : n \in 1 .. Len(rounds') /\ rounds'[n] = rounds[n]
      /\ rounds' \in Seq(Manifests) /\ Len(rounds) <= Len(rounds')
      /\ Len(rounds) \in Nat /\ Len(rounds') \in Nat
  <2>1. CASE Announce
    <3>1. PICK m \in Manifests : rounds' = Append(rounds, m)
      BY <2>1 DEF Announce
    <3>2. rounds \in Seq(Manifests)
      BY DEF CoreInv, TypeOK
    <3> QED BY <2>1, <3>1, <3>2 DEF CoreInv, Announce, worldVars
  <2>2. CASE ContainerExits \/ UNCHANGED vars
    BY <2>2 DEF CoreInv, TypeOK, ContainerExits, vars, worldVars
  <2> QED BY <2>1, <2>2
<1>1. TypeOK'
  <2>1. CASE Announce
    <3>1. /\ Len(rounds') = Len(rounds) + 1
          /\ verdict' \in Seq(Verdicts) /\ Len(verdict') = Len(verdict) + 1
          /\ scoredOn' \in Seq(Pins \cup {None}) /\ Len(scoredOn') = Len(scoredOn) + 1
      BY <1>0, <2>1 DEF Announce, TypeOK, Verdicts
    <3> QED BY <1>0, <2>1, <3>1 DEF Announce, TypeOK, worldVars
  <2>2. CASE ContainerExits \/ UNCHANGED vars
    BY <1>0, <2>2 DEF TypeOK, ContainerExits, vars, worldVars, outcomeVars, Fault
  <2> QED BY <2>1, <2>2
<1>2. CommandsOK'
  BY <1>0 DEF CoreInv, CommandsOK, CommandOK, FreshPasses, Deployable, Check, Fresh, Differing, Passes
<1>3. LastOK'
  <2>1. last \in [round : Nat, edits : Nat] /\ edits \in Nat
    BY <1>0 DEF TypeOK
  <2>2. last.round > 0 => last.round \in 1 .. Len(rounds)
    BY <1>0, <2>1 DEF CoreInv, LastOK
  <2> QED BY <1>0, <2>1, <2>2
          DEF CoreInv, LastOK, FreshPasses, Deployable, Check, Fresh, Differing
<1>4. SeenLocal'
  BY <1>0 DEF CoreInv, SeenLocal, Provisions
<1> QED BY <1>1, <1>2, <1>3, <1>4 DEF CoreInv

LEMMA CoreInductive == CoreInv /\ [Next]_vars => CoreInv'
<1> SUFFICES ASSUME CoreInv, [Next]_vars PROVE CoreInv'
  OBVIOUS
<1>1. ASSUME NEW p \in Proc, BeginPass(p) PROVE CoreInv'
  <2>1. Begin(p, "participate", Len(rounds), "resolve") /\ p \in Loops
    BY <1>1 DEF BeginPass
  <2>2. PICK n : n = Len(rounds)
    OBVIOUS
  <2> QED BY <2>1, <2>2, BeginKeeps, SMTT(30)
<1>2. ASSUME NEW p \in Proc, BeginWarm(p) PROVE CoreInv'
  <2>1. Begin(p, "warm", Len(rounds), "resolve") /\ p \in Loops
    BY <1>2 DEF BeginWarm
  <2>2. PICK n : n = Len(rounds)
    OBVIOUS
  <2> QED BY <2>1, <2>2, BeginKeeps, SMTT(30)
<1>3. ASSUME NEW p \in Proc, BeginScore(p) \/ BeginDeploy(p) \/ BeginStart(p) PROVE CoreInv'
  BY <1>3, BeginKeeps DEF BeginScore, BeginDeploy, BeginStart, LoopCommands
<1>4. ASSUME NEW p \in Proc, Step(p) \/ Kill(p) PROVE CoreInv'
  BY <1>4, ResolveKeeps, DeployKeeps, WriteKeeps, EndingKeeps DEF Step
<1> QED BY <1>1, <1>2, <1>3, <1>4, AnnounceKeeps DEF Next

LEMMA CoreInitially == Init => CoreInv
<1> SUFFICES ASSUME Init PROVE CoreInv
  OBVIOUS
<1>1. TypeOK
  BY IdleType DEF Init, TypeOK
<1> QED BY <1>1 DEF Init, CoreInv, CommandsOK, CommandOK, LastOK, SeenLocal, Idle, Provisions

LEMMA CoreInvariance == Spec => []CoreInv
  BY CoreInitially, CoreInductive, PTL DEF Spec

\* Every variable keeps its type.
THEOREM TypeCorrect == Spec => []TypeOK
<1>1. CoreInv => TypeOK
  BY DEF CoreInv
<1> QED BY <1>1, CoreInvariance, PTL

\* The loop overwrites no local record it has seen, whatever else runs.
THEOREM SeenLocalIsKept == Spec => SeenLocalRecordIsKept
<1>1. CoreInv /\ [Next]_vars
        => [\A p \in Proc : /\ At(p, "write") /\ Provisions(p)
                            /\ record # None /\ record' # record
                            => record.mode = "modal" \/ proc[p].edits < edits]_vars
  BY DEF CoreInv, SeenLocal, At
<1> QED BY <1>1, CoreInvariance, PTL DEF Spec, SeenLocalRecordIsKept

-----------------------------------------------------------------------------
(* One loop.                                                               *)

\* What a step of p does to the commands and to the loop's last deployment.
LEMMA StepMoves ==
    ASSUME CoreInv, NEW p \in Proc, Step(p) \/ Kill(p)
    PROVE  /\ rounds' = rounds
           /\ ~At(p, "idle")
           /\ \A q \in Proc \ {p} : proc'[q] = proc[q]
           /\ \/ proc'[p].pc = "idle"
              \/ proc'[p].round = proc[p].round /\ proc'[p].cmd = proc[p].cmd
           /\ \/ last' = last
              \/ /\ last' = [round |-> proc[p].round, edits |-> edits]
                 /\ Provisions(p) /\ At(p, "write") /\ proc'[p].pc \notin {"deploy", "write"}
           /\ edits' \in {edits, edits + 1}
           /\ proc'[p].pc = "write" =>
                proc[p].pc \in {"deploy", "launch"} /\ UNCHANGED <<last, edits>>
           /\ proc'[p].pc = "deploy" =>
                /\ UNCHANGED <<last, edits>>
                /\ ~Passes(TheManifest(p), record)
<1>0. /\ proc[p] \in Commands /\ proc \in [Proc -> Commands]
      /\ Idle.pc = "idle"
  BY CommandType DEF Idle
<1>1. ASSUME NEW rec, Use(p, rec)
      PROVE  /\ \A q \in Proc \ {p} : proc'[q] = proc[q]
             /\ \/ proc'[p].pc = "idle"
                \/ proc'[p].round = proc[p].round /\ proc'[p].cmd = proc[p].cmd
             /\ proc'[p].pc \notin {"deploy", "write"}
  BY <1>0, <1>1 DEF Use, End, Commands
<1>2. ASSUME NEW rec, NEW outcome, Conclude(p, rec, outcome)
      PROVE  /\ \A q \in Proc \ {p} : proc'[q] = proc[q]
             /\ \/ proc'[p].pc = "idle"
                \/ proc'[p].round = proc[p].round /\ proc'[p].cmd = proc[p].cmd
             /\ proc'[p].pc \notin {"deploy", "write"}
  <2>1. Use(p, rec) \/ End(p)
    BY <1>2 DEF Conclude
  <2> QED BY <1>0, <1>1, <2>1 DEF End
<1>3. CASE Resolve(p)
  <2>1. \/ Use(p, record)
        \/ Goto(p, "deploy") /\ ~Passes(TheManifest(p), record)
        \/ Conclude(p, record, Check(TheManifest(p), record))
        \/ Conclude(p, None, Check(TheManifest(p), Fresh(TheManifest(p), "modal")))
        \/ End(p)
    BY <1>3 DEF Resolve
  <2>2. /\ rounds' = rounds /\ ~At(p, "idle") /\ UNCHANGED <<last, edits>>
    BY <1>3 DEF Resolve, At
  <2>3. CASE Goto(p, "deploy") /\ ~Passes(TheManifest(p), record)
    BY <1>0, <2>2, <2>3 DEF Goto, Commands
  <2>4. CASE End(p)
    BY <1>0, <2>2, <2>4 DEF End
  <2> QED BY <1>1, <1>2, <2>1, <2>2, <2>3, <2>4
<1>4. CASE Deploy(p) \/ Launch(p)
  <2>1. /\ rounds' = rounds /\ ~At(p, "idle") /\ UNCHANGED <<last, edits>>
        /\ Goto(p, "write") \/ End(p)
        /\ proc[p].pc \in {"deploy", "launch"}
    BY <1>4 DEF Deploy, Launch, At
  <2> QED BY <1>0, <2>1 DEF Goto, End, Commands
<1>5. CASE WriteRecord(p)
  <2> DEFINE new == Fresh(TheManifest(p), ModeOf(p))
  <2>1. /\ rounds' = rounds /\ ~At(p, "idle") /\ At(p, "write")
    BY <1>5 DEF WriteRecord, At
  <2>2. \/ /\ last' = [round |-> proc[p].round, edits |-> edits] /\ edits' = edits
           /\ Provisions(p)
           /\ Use(p, new) \/ Conclude(p, new, Check(TheManifest(p), new))
        \/ last' = last /\ edits' \in {edits, edits + 1} /\ End(p)
    BY <1>5 DEF WriteRecord
  <2> HIDE DEF new
  <2> QED BY <1>0, <1>1, <1>2, <2>1, <2>2 DEF End
<1>6. CASE Infer(p) \/ Probe(p) \/ Kill(p)
  <2>1. /\ rounds' = rounds /\ ~At(p, "idle") /\ UNCHANGED <<last, edits>> /\ End(p)
    BY <1>6 DEF Infer, Probe, Kill, At
  <2> QED BY <1>0, <2>1 DEF End
<1> QED BY <1>3, <1>4, <1>5, <1>6 DEF Step

LEMMA LoopInductive ==
    ASSUME NEW l \in Proc, Loops = {l}
    PROVE  LoopInv /\ [Next]_vars => LoopInv'
<1> SUFFICES ASSUME LoopInv, [Next]_vars PROVE LoopOrder' /\ NoDeployLoop'
  BY CoreInductive DEF LoopInv
<1>0. /\ CoreInv /\ LoopOrder /\ NoDeployLoop
      /\ proc \in [Proc -> Commands]
      /\ last.round \in Nat /\ last.edits \in Nat /\ edits \in Nat
      /\ last.edits <= edits /\ last.round <= Len(rounds) /\ Len(rounds) \in Nat
      /\ \A q \in Proc : CommandOK(q, proc[q]) /\ proc[q].round \in Nat
  BY DEF LoopInv, CoreInv, TypeOK, LastOK, CommandsOK, Commands
\* Only the loop's command is one of the loop's.
<1>1. ASSUME NEW q \in Proc, proc[q].cmd \in {"participate", "warm"}, ~At(q, "idle") PROVE q = l
  BY <1>0, <1>1 DEF CommandOK, At
<1>2. CASE UNCHANGED <<proc, last, edits>>
  BY <1>0, <1>2 DEF LoopOrder, NoDeployLoop, At, Provisions
<1>3. ASSUME NEW p \in Proc, Step(p) \/ Kill(p) PROVE LoopOrder' /\ NoDeployLoop'
  <2>1. CoreInv
    BY <1>0
  <2>2. /\ ~At(p, "idle")
        /\ \A q \in Proc \ {p} : proc'[q] = proc[q]
        /\ \/ proc'[p].pc = "idle"
           \/ proc'[p].round = proc[p].round /\ proc'[p].cmd = proc[p].cmd
        /\ \/ last' = last
           \/ /\ last' = [round |-> proc[p].round, edits |-> edits]
              /\ Provisions(p) /\ At(p, "write") /\ proc'[p].pc \notin {"deploy", "write"}
        /\ edits' \in {edits, edits + 1}
        /\ proc'[p].pc = "write" =>
             proc[p].pc \in {"deploy", "launch"} /\ UNCHANGED <<last, edits>>
        /\ proc'[p].pc = "deploy" =>
             UNCHANGED <<last, edits>> /\ ~Passes(TheManifest(p), record)
    BY <1>3, <2>1, StepMoves
  <2>3. ASSUME NEW q \in Proc, proc'[q].cmd \in {"participate", "warm"}, ~At(q, "idle")'
        PROVE  /\ last'.round <= proc'[q].round
               /\ Credentials /\ proc'[q].pc \in {"deploy", "write"} =>
                    last'.round < proc'[q].round \/ last'.edits < edits'
    <3>1. CASE q = p
      <4>1. /\ proc'[p].round = proc[p].round /\ proc'[p].cmd = proc[p].cmd
            /\ last.round <= proc[p].round
        BY <1>0, <2>2, <2>3, <3>1 DEF LoopOrder, At
      <4>2. CASE proc'[p].pc = "deploy" /\ Credentials
        <5>1. /\ Provisions(p) /\ ~Passes(TheManifest(p), record)
              /\ last' = last /\ edits' = edits
          BY <2>2, <2>3, <3>1, <4>1, <4>2 DEF Provisions
        <5>2. last.round = proc[p].round => last.edits < edits
          <6>1. proc[p].round \in 1 .. Len(rounds)
            BY <1>0, <2>2 DEF CommandOK, At
          <6>2. ASSUME last.round = proc[p].round, last.edits = edits PROVE FALSE
            <7>1. /\ FreshPasses(TheManifest(p))
                  /\ record = Fresh(TheManifest(p), "modal")
              BY <6>1, <6>2, <1>0 DEF CoreInv, LastOK, TheManifest
            <7>2. TheManifest(p) \in Manifests
              BY <2>1, <2>2, CommandType
            <7> QED BY <5>1, <7>1, <7>2, FreshRecordPasses
          <6> QED BY <1>0, <6>2
        <5> QED BY <1>0, <3>1, <4>1, <4>2, <5>1, <5>2
      <4>3. CASE proc'[p].pc = "write" /\ Credentials
        <5>1. proc[p].pc \in {"deploy", "launch"} /\ last' = last /\ edits' = edits
          BY <2>2, <4>3
        <5>2. proc[p].pc = "deploy" /\ Provisions(p)
          BY <1>0, <2>3, <3>1, <4>1, <4>3, <5>1 DEF CommandOK, Provisions
        <5> QED BY <1>0, <3>1, <4>1, <5>1, <5>2 DEF NoDeployLoop
      <4>4. last'.round <= proc'[p].round
        BY <1>0, <2>2, <4>1
      <4> QED BY <3>1, <4>2, <4>3, <4>4
    <3>2. CASE q # p
      <4>1. proc'[q] = proc[q]
        BY <2>2, <3>2
      <4>2. q = l /\ ~At(q, "idle")
        BY <1>1, <2>3, <4>1 DEF At
      <4>3. ~(Provisions(p) /\ At(p, "write"))
        BY <1>1, <3>2, <4>2 DEF Provisions, At
      <4>4. last' = last
        BY <2>2, <4>3
      <4> QED BY <1>0, <2>2, <2>3, <4>1, <4>2, <4>4 DEF LoopOrder, NoDeployLoop, Provisions
    <3> QED BY <3>1, <3>2
  <2> QED BY <2>3 DEF LoopOrder, NoDeployLoop, Provisions, At
<1>4. ASSUME NEW p \in Proc, NEW cmd, NEW n \in 1 .. Len(rounds), NEW pc, Begin(p, cmd, n, pc),
             cmd \in LoopCommands => n = Len(rounds) /\ pc = "resolve"
      PROVE  LoopOrder' /\ NoDeployLoop'
  <2>1. /\ UNCHANGED <<last, edits>>
        /\ \A q \in Proc \ {p} : proc'[q] = proc[q]
        /\ proc'[p].cmd = cmd /\ proc'[p].round = n /\ proc'[p].pc = pc
    BY <1>0, <1>4 DEF Begin
  <2>2. \A q \in Proc : q # p => \/ proc'[q].cmd \notin LoopCommands
                                 \/ proc'[q].pc = "idle"
                                 \/ /\ last.round <= proc[q].round
                                    /\ proc'[q] = proc[q]
    BY <1>0, <2>1 DEF LoopOrder, At, LoopCommands
  <2>3. LoopOrder'
    BY <1>0, <1>4, <2>1, <2>2 DEF LoopOrder, At, LoopCommands
  <2>4. NoDeployLoop'
    BY <1>0, <1>4, <2>1 DEF NoDeployLoop, Provisions, LoopCommands
  <2> QED BY <2>3, <2>4
<1>5. ASSUME NEW p \in Proc,
             \/ BeginPass(p) \/ BeginWarm(p) \/ BeginScore(p) \/ BeginDeploy(p) \/ BeginStart(p)
      PROVE  LoopOrder' /\ NoDeployLoop'
  <2>1. \E cmd, n, pc : /\ Begin(p, cmd, n, pc) /\ n \in 1 .. Len(rounds)
                        /\ cmd \in LoopCommands => n = Len(rounds) /\ pc = "resolve"
    <3>1. CASE BeginPass(p)
      BY <3>1 DEF BeginPass, Begin
    <3>2. CASE BeginWarm(p)
      BY <3>2 DEF BeginWarm, Begin
    <3>3. CASE BeginScore(p) \/ BeginDeploy(p) \/ BeginStart(p)
      BY <3>3 DEF BeginScore, BeginDeploy, BeginStart, LoopCommands
    <3> QED BY <1>5, <3>1, <3>2, <3>3
  <2> QED BY <1>4, <2>1
<1> QED BY <1>2, <1>3, <1>5 DEF Next, vars, Announce, ContainerExits

\* With one loop, the whole inductive invariant holds of every run.
THEOREM LoopInvariance == (\E l \in Proc : Loops = {l}) => (Spec => []LoopInv)
<1> SUFFICES ASSUME NEW l \in Proc, Loops = {l} PROVE Spec => []LoopInv
  OBVIOUS
<1>1. Init => LoopInv
  BY CoreInitially DEF Init, LoopInv, LoopOrder, NoDeployLoop, At, Idle
<1>2. LoopInv /\ [Next]_vars => LoopInv'
  BY LoopInductive
<1> QED BY <1>1, <1>2, PTL DEF Spec

\* The loop does not deploy twice for a round unless the operator has stepped
\* in: there is no deploy loop, for any rounds and any operator's commands.
THEOREM LoopDeploysOnce == (\E l \in Proc : Loops = {l}) => (Spec => []NoDeployLoop)
<1>1. LoopInv => NoDeployLoop
  BY DEF LoopInv
<1> QED BY <1>1, LoopInvariance, PTL
-----------------------------------------------------------------------------
(* What the record tells of the runtimes.                                  *)

\* The commands other than p, and whether they are untouched, stay as they are.
OthersStay(p) ==
    /\ \A q \in Proc \ {p} : proc'[q] = proc[q]
    /\ \A q \in Proc \ {p} : q \in untouched' => q \in untouched

\* The other commands see what they saw.
LEMMA OthersSee ==
    ASSUME TellsInv, NEW p \in Proc, OthersStay(p), rounds' = rounds,
           NEW q \in Proc, q # p
    PROVE  /\ \A pc : At(q, pc)' <=> At(q, pc)
           /\ ModeOf(q)' = ModeOf(q)
           /\ TheManifest(q)' = TheManifest(q)
           /\ proc'[q].rec = proc[q].rec
           /\ q \in untouched' => q \in untouched
  BY DEF OthersStay, At, ModeOf, TheManifest

LEMMA TellsTypes ==
    ASSUME TellsInv
    PROVE  /\ TypeOK /\ CoreInv /\ OneUntouched /\ RecordTells
           /\ untouched \subseteq Proc
           /\ record # None => record \in Records /\ record.mode \in Modes
           /\ \A q \in Proc : /\ ModeOf(q) \in Modes
                              /\ At(q, "infer") => /\ proc[q].rec \in Records
                                                   /\ proc[q].rec.mode \in Modes
<1>1. TypeOK /\ CoreInv /\ OneUntouched /\ RecordTells
  BY DEF TellsInv, CoreInv
<1>2. ASSUME NEW q \in Proc, At(q, "infer") PROVE proc[q].rec \in Records
  <2>1. CommandOK(q, proc[q]) /\ proc[q] \in Commands
    BY <1>1, CommandType
  <2> QED BY <1>2, <2>1 DEF CommandOK, Commands, Passes, At
<1> QED BY <1>1, <1>2 DEF TypeOK, Records, ModeOf, Modes

\* A step of p that neither deploys nor writes, nor comes from a deployment.
LEMMA QuietStep ==
    ASSUME TellsInv, NEW p \in Proc, OthersStay(p), UNCHANGED <<rounds, worldVars>>,
           untouched' \subseteq Proc,
           ~At(p, "write"), ~At(p, "write")',
           At(p, "infer")' /\ p \in untouched' =>
              /\ \A q \in Proc : ~At(q, "write")
              /\ \/ proc'[p].rec.mode \in unrecorded
                 \/ Serves(proc'[p].rec.mode, proc'[p].rec.pin)
    PROVE  OneUntouched' /\ RecordTells'
<1>1. UNCHANGED <<record, modalApp, container, unrecorded>>
      /\ \A mode, pin : Serves(mode, pin)' <=> Serves(mode, pin)
  BY DEF worldVars, Serves, Serving
<1>2. OneUntouched'
  <2> SUFFICES ASSUME NEW q \in untouched', NEW r \in untouched', At(q, "write")',
                      proc'[r].pc \in {"write", "infer"}
               PROVE  q = r
    BY DEF OneUntouched
  <2>1. q # p /\ q \in Proc /\ r \in Proc /\ q \in untouched /\ At(q, "write")
    BY OthersSee
  <2>2. CASE r = p
    BY <2>1, <2>2 DEF At
  <2>3. CASE r # p
    <3>1. r \in untouched /\ proc[r].pc \in {"write", "infer"}
      BY <2>1, <2>3 DEF OthersStay
    <3> QED BY <2>1, <3>1 DEF TellsInv, OneUntouched
  <2> QED BY <2>2, <2>3
<1>3. ASSUME NEW q \in untouched'
      PROVE  /\ At(q, "write")' => Serves(ModeOf(q), TheManifest(q).pin)'
             /\ At(q, "infer")' => \/ proc'[q].rec.mode \in unrecorded'
                                   \/ Serves(proc[q].rec.mode, proc[q].rec.pin)'
  <2>1. CASE q = p
    BY <1>1, <2>1
  <2>2. CASE q # p
    <3>1. /\ q \in Proc /\ q \in untouched
          /\ At(q, "write")' <=> At(q, "write")
          /\ At(q, "infer")' <=> At(q, "infer")
          /\ ModeOf(q)' = ModeOf(q) /\ TheManifest(q)' = TheManifest(q)
          /\ proc'[q].rec = proc[q].rec
      BY <2>2, OthersSee
    <3> QED BY <1>1, <3>1 DEF TellsInv, RecordTells
  <2> QED BY <2>1, <2>2
<1>4. \/ record' = None
      \/ record'.mode \in unrecorded'
      \/ \E q \in Proc : At(q, "write")' /\ ModeOf(q)' = record'.mode
      \/ Serves(record.mode, record.pin)'
  <2>1. CASE \E q \in Proc : At(q, "write") /\ ModeOf(q) = record.mode
    <3>1. PICK q \in Proc : At(q, "write") /\ ModeOf(q) = record.mode
      BY <2>1
    <3>2. q # p
      BY <3>1
    <3> QED BY <1>1, <3>1, <3>2, OthersSee
  <2>2. CASE ~(\E q \in Proc : At(q, "write") /\ ModeOf(q) = record.mode)
    BY <1>1, <2>2 DEF TellsInv, RecordTells
  <2> QED BY <2>1, <2>2
<1> QED BY <1>2, <1>3, <1>4 DEF RecordTells

\* p changes the runtime of its mode and is about to write its record, or has
\* ended and left the record behind.
LEMMA DeployTells ==
    ASSUME TellsInv, NEW p \in Proc, OthersStay(p), rounds' = rounds, record' = record,
           ~At(p, "write"),
           \A mode \in Modes : mode # ModeOf(p) => Serving(mode)' = Serving(mode),
           \A mode \in Modes : mode # ModeOf(p) =>
                (mode = "local" /\ container = None => container' = None),
           \/ /\ untouched' = {p} /\ unrecorded' = unrecorded
              /\ At(p, "write")' /\ ModeOf(p)' = ModeOf(p)
              /\ Serves(ModeOf(p), TheManifest(p).pin)'
           \/ untouched' = {} /\ unrecorded' = unrecorded \cup {ModeOf(p)}
    PROVE  OneUntouched' /\ RecordTells'
<1>1. OneUntouched'
  BY DEF OneUntouched
<1>2. \A q \in untouched' : /\ At(q, "write")' => Serves(ModeOf(q), TheManifest(q).pin)'
                            /\ ~At(q, "infer")'
  BY DEF At
<1>3. \/ record' = None
      \/ record'.mode \in unrecorded'
      \/ \E q \in Proc : At(q, "write")' /\ ModeOf(q)' = record'.mode
      \/ Serves(record.mode, record.pin)'
  <2>1. CASE record = None \/ record.mode = ModeOf(p)
    BY <2>1
  <2>2. CASE record # None /\ record.mode # ModeOf(p)
    <3>1. CASE \E q \in Proc : At(q, "write") /\ ModeOf(q) = record.mode
      <4>1. PICK q \in Proc : At(q, "write") /\ ModeOf(q) = record.mode
        BY <3>1
      <4>2. q # p
        BY <4>1
      <4> QED BY <4>1, <4>2, OthersSee
    <3>2. CASE record.mode \in unrecorded
      BY <3>2
    <3>3. CASE Serves(record.mode, record.pin)
      <4>1. record.mode \in Modes
        BY <2>2, TellsTypes
      <4>2. Serving(record.mode)' = Serving(record.mode)
            /\ (record.mode = "local" /\ container = None => container' = None)
        BY <2>2, <4>1
      <4> QED BY <3>3, <4>2 DEF Serves, Serving
    <3> QED BY <2>2, <3>1, <3>2, <3>3 DEF TellsInv, RecordTells
  <2> QED BY <2>1, <2>2
<1> QED BY <1>1, <1>2, <1>3 DEF RecordTells

\* p writes its record, or ends without having done so.
LEMMA WriteTells ==
    ASSUME TellsInv, NEW p \in Proc, OthersStay(p), UNCHANGED <<rounds, modalApp, container>>,
           untouched' = untouched, At(p, "write"), ~At(p, "write")',
           \/ /\ record' = Fresh(TheManifest(p), ModeOf(p))
              /\ unrecorded' = IF p \in untouched THEN unrecorded \ {ModeOf(p)}
                               ELSE unrecorded \cup {ModeOf(p)}
              /\ At(p, "infer")' => proc'[p].rec = record'
           \/ /\ record' = record /\ unrecorded' = unrecorded \cup {ModeOf(p)}
              /\ ~At(p, "infer")'
    PROVE  OneUntouched' /\ RecordTells'
<1> DEFINE new == Fresh(TheManifest(p), ModeOf(p))
<1>0. /\ TheManifest(p) \in Manifests /\ ModeOf(p) \in Modes
      /\ untouched \subseteq Proc /\ OneUntouched /\ RecordTells
  BY TellsTypes, CommandType DEF At
<1>1. new.mode = ModeOf(p) /\ new.pin = TheManifest(p).pin
  BY <1>0, FreshType
<1>2. \A mode, pin : Serves(mode, pin)' <=> Serves(mode, pin)
  BY DEF Serves, Serving
<1>3. OneUntouched'
  <2> SUFFICES ASSUME NEW q \in untouched, NEW r \in untouched, At(q, "write")',
                      proc'[r].pc \in {"write", "infer"}
               PROVE  q = r
    BY DEF OneUntouched
  <2>1. q \in Proc /\ r \in Proc /\ q # p /\ At(q, "write")
    BY <1>0, OthersSee
  <2>2. proc[r].pc \in {"write", "infer"}
    <3>1. CASE r = p
      BY <3>1 DEF At
    <3>2. CASE r # p
      BY <2>1, <3>2 DEF OthersStay
    <3> QED BY <3>1, <3>2
  <2> QED BY <1>0, <2>1, <2>2 DEF OneUntouched
<1>4. ASSUME NEW q \in untouched
      PROVE  /\ At(q, "write")' => Serves(ModeOf(q), TheManifest(q).pin)'
             /\ At(q, "infer")' => \/ proc'[q].rec.mode \in unrecorded'
                                   \/ Serves(proc[q].rec.mode, proc[q].rec.pin)'
  <2>1. CASE q = p
    <3>1. Serves(new.mode, new.pin)
      BY <1>0, <1>1, <2>1 DEF RecordTells
    <3> QED BY <1>2, <2>1, <3>1
  <2>2. CASE q # p
    <3>1. /\ q \in Proc
          /\ At(q, "write")' <=> At(q, "write")
          /\ At(q, "infer")' <=> At(q, "infer")
          /\ ModeOf(q)' = ModeOf(q) /\ TheManifest(q)' = TheManifest(q)
          /\ proc'[q].rec = proc[q].rec
      BY <1>0, <2>2, OthersSee
    <3>2. At(q, "infer") => p \notin untouched
      BY <1>0, <2>2 DEF OneUntouched, At
    <3>3. At(q, "infer") => unrecorded \subseteq unrecorded'
      BY <3>2
    <3> QED BY <1>0, <1>2, <3>1, <3>3 DEF RecordTells
  <2> QED BY <2>1, <2>2
<1>5. \/ record' = None
      \/ record'.mode \in unrecorded'
      \/ \E q \in Proc : At(q, "write")' /\ ModeOf(q)' = record'.mode
      \/ Serves(record.mode, record.pin)'
  <2>1. CASE record' = new /\ p \in untouched
    <3>1. Serves(new.mode, new.pin)
      BY <1>0, <1>1, <2>1 DEF RecordTells
    <3> QED BY <1>2, <2>1, <3>1 DEF Serves, Serving
  <2>2. CASE record' = new /\ p \notin untouched
    BY <1>1, <2>2
  <2>3. CASE record' = record /\ unrecorded' = unrecorded \cup {ModeOf(p)}
    <3>1. CASE \E q \in Proc : At(q, "write") /\ ModeOf(q) = record.mode
      <4>1. PICK q \in Proc : At(q, "write") /\ ModeOf(q) = record.mode
        BY <3>1
      <4> QED BY <2>3, <4>1, OthersSee
    <3>2. CASE ~(\E q \in Proc : At(q, "write") /\ ModeOf(q) = record.mode)
      BY <1>0, <1>2, <2>3, <3>2 DEF RecordTells
    <3> QED BY <3>1, <3>2
  <2> QED BY <2>1, <2>2, <2>3
<1> QED BY <1>3, <1>4, <1>5 DEF RecordTells

LEMMA ExitTells ==
    ASSUME TellsInv, Announce \/ ContainerExits \/ UNCHANGED vars
    PROVE  OneUntouched' /\ RecordTells'
<1>0. /\ TypeOK /\ untouched \subseteq Proc /\ OneUntouched /\ RecordTells
      /\ \A q \in Proc : CommandOK(q, proc[q])
  BY TellsTypes DEF TellsInv, CoreInv, CommandsOK
<1>1. UNCHANGED <<record, modalApp, unrecorded, untouched, proc>>
      /\ (container' = container \/ container' = None)
  BY DEF Announce, ContainerExits, vars, worldVars
<1>2. ASSUME NEW q \in Proc, ~At(q, "idle") PROVE TheManifest(q)' = TheManifest(q)
  <2>1. proc[q].round \in 1 .. Len(rounds)
    BY <1>0, <1>2 DEF CommandOK, At
  <2> QED BY <1>0, <1>1, <2>1
          DEF TheManifest, Announce, ContainerExits, vars, TypeOK
<1>3. ASSUME NEW mode \in Modes, NEW pin, Serves(mode, pin) PROVE Serves(mode, pin)'
  BY <1>1, <1>3 DEF Serves, Serving, Modes
<1>4. OneUntouched'
  BY <1>0, <1>1 DEF OneUntouched, At
<1>5. ASSUME NEW q \in untouched
      PROVE  /\ At(q, "write")' => Serves(ModeOf(q), TheManifest(q).pin)'
             /\ At(q, "infer")' => \/ proc'[q].rec.mode \in unrecorded'
                                   \/ Serves(proc[q].rec.mode, proc[q].rec.pin)'
  <2>1. /\ q \in Proc /\ ModeOf(q) \in Modes /\ ModeOf(q)' = ModeOf(q)
        /\ At(q, "infer") => proc[q].rec.mode \in Modes
    BY <1>0, <1>1, TellsTypes DEF ModeOf
  <2>2. ASSUME At(q, "write") PROVE Serves(ModeOf(q), TheManifest(q).pin)'
    <3>1. Serves(ModeOf(q), TheManifest(q).pin)
      BY <1>0, <2>2 DEF RecordTells
    <3>2. TheManifest(q)' = TheManifest(q)
      BY <1>2, <2>1, <2>2 DEF At
    <3> QED BY <1>3, <2>1, <3>1, <3>2 DEF Serves
  <2>3. ASSUME At(q, "infer"), proc[q].rec.mode \notin unrecorded
        PROVE  Serves(proc[q].rec.mode, proc[q].rec.pin)'
    BY <1>0, <1>1, <1>3, <2>1, <2>3 DEF RecordTells, Serves
  <2> QED BY <1>1, <2>2, <2>3 DEF At
<1>6. \/ record' = None
      \/ record'.mode \in unrecorded'
      \/ \E q \in Proc : At(q, "write")' /\ ModeOf(q)' = record'.mode
      \/ Serves(record.mode, record.pin)'
  <2>1. CASE \E q \in Proc : At(q, "write") /\ ModeOf(q) = record.mode
    BY <1>1, <2>1 DEF At, ModeOf
  <2>2. CASE Serves(record.mode, record.pin) /\ record # None
    BY <1>1, <1>3, <2>2, TellsTypes DEF Serves
  <2> QED BY <1>0, <1>1, <2>1, <2>2 DEF RecordTells
<1> QED BY <1>1, <1>4, <1>5, <1>6 DEF RecordTells

LEMMA TellsInductive == TellsInv /\ [Next]_vars => TellsInv'
<1> SUFFICES ASSUME TellsInv, [Next]_vars PROVE OneUntouched' /\ RecordTells'
  BY CoreInductive DEF TellsInv
<1>0. /\ TypeOK /\ untouched \subseteq Proc /\ proc \in [Proc -> Commands]
      /\ \A q \in Proc : CommandOK(q, proc[q])
  BY TellsTypes DEF TypeOK, TellsInv, CoreInv, CommandsOK
\* The command in hand ends, uses a record or goes on.
<1>1. ASSUME NEW p \in Proc, End(p)
      PROVE  /\ \A q \in Proc \ {p} : proc'[q] = proc[q]
             /\ ~At(p, "write")' /\ ~At(p, "infer")'
  BY <1>0, <1>1 DEF End, At, Idle
<1>2. ASSUME NEW p \in Proc, NEW rec, Use(p, rec)
      PROVE  /\ \A q \in Proc \ {p} : proc'[q] = proc[q]
             /\ ~At(p, "write")'
             /\ At(p, "infer")' => proc'[p].rec = rec
  <2>1. CASE End(p)
    BY <1>1, <2>1
  <2>2. CASE ~End(p)
    BY <1>0, <1>2, <2>2 DEF Use, At, Commands
  <2> QED BY <2>1, <2>2
<1>3. ASSUME NEW p \in Proc, NEW pc, Goto(p, pc)
      PROVE  /\ \A q \in Proc \ {p} : proc'[q] = proc[q]
             /\ proc'[p].pc = pc /\ proc'[p].round = proc[p].round /\ proc'[p].cmd = proc[p].cmd
  BY <1>0, <1>3 DEF Goto, Commands
<1>4. ASSUME NEW p \in Proc,
             BeginPass(p) \/ BeginWarm(p) \/ BeginScore(p) \/ BeginDeploy(p) \/ BeginStart(p)
      PROVE  OneUntouched' /\ RecordTells'
  <2>1. \E cmd, n, pc : Begin(p, cmd, n, pc) /\ pc \in {"resolve", "deploy", "launch"}
    <3>1. CASE BeginPass(p)
      BY <3>1 DEF BeginPass
    <3>2. CASE BeginWarm(p)
      BY <3>2 DEF BeginWarm
    <3>3. CASE BeginScore(p) \/ BeginDeploy(p) \/ BeginStart(p)
      BY <3>3 DEF BeginScore, BeginDeploy, BeginStart
    <3> QED BY <1>4, <3>1, <3>2, <3>3
  <2>2. /\ OthersStay(p) /\ UNCHANGED <<rounds, worldVars, untouched>>
        /\ ~At(p, "write") /\ ~At(p, "write")' /\ ~At(p, "infer")'
    BY <1>0, <2>1 DEF Begin, At, OthersStay
  <2> QED BY <1>0, <2>2, QuietStep
<1>5. ASSUME NEW p \in Proc, Resolve(p) PROVE OneUntouched' /\ RecordTells'
  <2>1. /\ UNCHANGED <<rounds, worldVars>> /\ ~At(p, "write")
        /\ untouched' = LooksAt(p)
        /\ \/ record # None /\ Use(p, record)
           \/ End(p)
           \/ Goto(p, "deploy")
    BY <1>5 DEF Resolve, At, Conclude, Passes
  <2>2. /\ \A q \in Proc \ {p} : q \in untouched' => q \in untouched
        /\ untouched' \subseteq Proc
        /\ p \in untouched' => (\A q \in Proc : ~At(q, "write"))
    BY <1>0, <2>1 DEF LooksAt
  <2>3. CASE End(p) \/ Goto(p, "deploy")
    <3>1. OthersStay(p) /\ ~At(p, "write")' /\ ~At(p, "infer")'
      BY <1>1, <1>3, <2>2, <2>3 DEF OthersStay, At
    <3> QED BY <2>1, <2>2, <3>1, QuietStep
  <2>4. CASE record # None /\ Use(p, record)
    <3>1. OthersStay(p) /\ ~At(p, "write")' /\ (At(p, "infer")' => proc'[p].rec = record)
      BY <1>2, <2>2, <2>4 DEF OthersStay
    <3>2. p \in untouched' => record.mode \in unrecorded \/ Serves(record.mode, record.pin)
      BY <2>2, <2>4 DEF TellsInv, RecordTells
    <3> QED BY <2>1, <2>2, <3>1, <3>2, QuietStep
  <2> QED BY <2>1, <2>3, <2>4
<1>6. ASSUME NEW p \in Proc, Deploy(p) \/ Launch(p) PROVE OneUntouched' /\ RecordTells'
  <2>1. /\ record' = record /\ rounds' = rounds /\ ~At(p, "write")
        /\ \/ Deploy(p) /\ ModeOf(p) = "modal" /\ container' = container
           \/ Launch(p) /\ ModeOf(p) = "local" /\ modalApp' = modalApp
    BY <1>0, <1>6 DEF Deploy, Launch, At, CommandOK, ModeOf
  <2>2. /\ \A mode \in Modes : mode # ModeOf(p) => Serving(mode)' = Serving(mode)
        /\ \A mode \in Modes : mode # ModeOf(p) =>
              (mode = "local" /\ container = None => container' = None)
    BY <2>1 DEF Serving, Modes
  <2>3. CASE End(p)
    <3>0. ~Goto(p, "write")
      BY <1>1, <1>3, <2>3 DEF At
    <3>1. /\ \A q \in Proc \ {p} : proc'[q] = proc[q]
          /\ ~At(p, "write")' /\ ~At(p, "infer")'
      BY <1>1, <2>3
    <3>2. \/ UNCHANGED <<modalApp, container, unrecorded, untouched>>
          \/ untouched' = {} /\ unrecorded' = unrecorded \cup {ModeOf(p)}
      BY <2>1, <3>0 DEF Deploy, Launch
    <3>3. OthersStay(p)
      BY <3>1, <3>2 DEF OthersStay
    <3>4. CASE UNCHANGED <<modalApp, container, unrecorded, untouched>>
      BY <1>0, <2>1, <3>1, <3>3, <3>4, QuietStep DEF worldVars
    <3>5. CASE untouched' = {} /\ unrecorded' = unrecorded \cup {ModeOf(p)}
      BY <2>1, <2>2, <3>3, <3>5, DeployTells
    <3> QED BY <3>2, <3>4, <3>5
  <2>4. CASE ~End(p)
    <3>1. Goto(p, "write") /\ untouched' = {p} /\ unrecorded' = unrecorded
      BY <2>1, <2>4 DEF Deploy, Launch
    <3>2. /\ OthersStay(p) /\ At(p, "write")'
          /\ ModeOf(p)' = ModeOf(p) /\ TheManifest(p)' = TheManifest(p)
      BY <1>3, <2>1, <3>1 DEF OthersStay, At, ModeOf, TheManifest
    <3>3. Serving(ModeOf(p))' = TheManifest(p).pin
      BY <2>1, <2>4, <3>2 DEF Deploy, Launch, Serving
    <3>4. Serves(ModeOf(p), TheManifest(p).pin)'
      BY <3>2, <3>3 DEF Serves
    <3> QED BY <2>1, <2>2, <3>1, <3>2, <3>4, DeployTells
  <2> QED BY <2>3, <2>4
<1>7. ASSUME NEW p \in Proc, WriteRecord(p) PROVE OneUntouched' /\ RecordTells'
  <2> DEFINE new == Fresh(TheManifest(p), ModeOf(p))
  <2>1. /\ At(p, "write") /\ UNCHANGED <<rounds, modalApp, container>> /\ untouched' = untouched
        /\ \/ /\ record' = new
              /\ unrecorded' = IF p \in untouched THEN unrecorded \ {ModeOf(p)}
                               ELSE unrecorded \cup {ModeOf(p)}
              /\ Use(p, new) \/ End(p)
           \/ record' = record /\ unrecorded' = unrecorded \cup {ModeOf(p)} /\ End(p)
    BY <1>7 DEF WriteRecord, Conclude
  <2> HIDE DEF new
  <2>2. CASE End(p)
    <3>1. OthersStay(p) /\ ~At(p, "write")' /\ ~At(p, "infer")'
      BY <1>1, <2>1, <2>2 DEF OthersStay
    <3> QED BY <2>1, <3>1, WriteTells DEF new
  <2>3. CASE Use(p, new) /\ record' = new
    <3>1. OthersStay(p) /\ ~At(p, "write")' /\ (At(p, "infer")' => proc'[p].rec = record')
      BY <1>2, <2>1, <2>3 DEF OthersStay
    <3>2. \/ unrecorded' = IF p \in untouched THEN unrecorded \ {ModeOf(p)}
                           ELSE unrecorded \cup {ModeOf(p)}
          \/ End(p)
      BY <2>1
    <3> QED BY <2>1, <2>2, <2>3, <3>1, <3>2, WriteTells DEF new
  <2> QED BY <2>1, <2>2, <2>3
<1>8. ASSUME NEW p \in Proc, Infer(p) \/ Probe(p) PROVE OneUntouched' /\ RecordTells'
  <2>1. /\ UNCHANGED <<rounds, worldVars, untouched>> /\ End(p) /\ ~At(p, "write")
    BY <1>8 DEF Infer, Probe, At
  <2>2. OthersStay(p) /\ ~At(p, "write")' /\ ~At(p, "infer")'
    BY <1>1, <2>1 DEF OthersStay
  <2> QED BY <1>0, <2>1, <2>2, QuietStep
<1>9. ASSUME NEW p \in Proc, Kill(p) PROVE OneUntouched' /\ RecordTells'
  <2>1. /\ UNCHANGED <<rounds, record, container>> /\ End(p)
        /\ \/ ~At(p, "write") /\ UNCHANGED <<modalApp, unrecorded, untouched>>
           \/ /\ At(p, "write") /\ unrecorded' = unrecorded \cup {ModeOf(p)}
              /\ UNCHANGED <<modalApp, untouched>>
           \/ At(p, "deploy") /\ unrecorded' = unrecorded \cup {"modal"} /\ untouched' = {}
    BY <1>9 DEF Kill
  <2>2. OthersStay(p) /\ ~At(p, "write")' /\ ~At(p, "infer")'
    BY <1>1, <2>1 DEF OthersStay
  <2>3. CASE ~At(p, "write") /\ UNCHANGED <<modalApp, unrecorded, untouched>>
    BY <1>0, <2>1, <2>2, <2>3, QuietStep DEF worldVars
  <2>4. CASE /\ At(p, "write") /\ unrecorded' = unrecorded \cup {ModeOf(p)}
             /\ UNCHANGED <<modalApp, untouched>>
    BY <2>1, <2>2, <2>4, WriteTells
  <2>5. CASE At(p, "deploy") /\ unrecorded' = unrecorded \cup {"modal"} /\ untouched' = {}
    <3>1. ModeOf(p) = "modal" /\ ~At(p, "write")
      BY <1>0, <2>5 DEF CommandOK, At, ModeOf
    <3>2. /\ \A mode \in Modes : mode # ModeOf(p) => Serving(mode)' = Serving(mode)
          /\ \A mode \in Modes : mode # ModeOf(p) =>
                (mode = "local" /\ container = None => container' = None)
      BY <2>1, <3>1 DEF Serving, Modes
    <3> QED BY <2>1, <2>2, <2>5, <3>1, <3>2, DeployTells
  <2> QED BY <2>1, <2>3, <2>4, <2>5
<1> QED BY <1>4, <1>5, <1>6, <1>7, <1>8, <1>9, ExitTells DEF Next, Step

LEMMA TellsInvariance == Spec => []TellsInv
<1>1. Init => TellsInv
  BY CoreInitially DEF Init, TellsInv, RecordTells, OneUntouched
<1> QED BY <1>1, TellsInductive, PTL DEF Spec

\* Whatever runs beside it, an untouched deployment serves its pin, and a record
\* that no deployment has followed tells what serves its mode.
THEOREM RecordIsTrue == Spec => []RecordTells
<1>1. TellsInv => RecordTells
  BY DEF TellsInv
<1> QED BY <1>1, TellsInvariance, PTL

\* With one loop, the whole inductive invariant holds of every run.
THEOREM Invariance == (\E l \in Proc : Loops = {l}) => (Spec => []IInv)
<1>1. LoopInv /\ TellsInv => IInv
  BY InvParts
<1> QED BY <1>1, LoopInvariance, TellsInvariance, PTL

\* A record that passes pins what the manifest pins.
LEMMA PassesPins ==
    ASSUME NEW m \in Manifests, NEW r \in Records, Passes(m, r)
    PROVE  r.pin = m.pin
<1>1. m.pin \in Pins /\ r.pin \in Pins
  BY DEF ManifestTypes, Records
<1>2. \A f \in RuntimeFields : m.pin[f] = r.pin[f]
  BY DEF Passes, Check, Differing, Compared
<1> QED BY <1>1, <1>2 DEF Pins

\* Scores change only where a command generates.
LEMMA OnlyInferScores ==
    ASSUME TellsInv, Next, NEW p \in Proc, At(p, "infer"), proc'[p] # proc[p],
           scoredOn' # scoredOn
    PROVE  Infer(p)
<1>1. PICK q \in Proc : Infer(q)
  <2>1. ~Announce /\ ~ContainerExits
    BY DEF Announce, ContainerExits
  <2> QED BY <2>1
          DEF Next, Step, BeginPass, BeginWarm, BeginScore, BeginDeploy, BeginStart, Begin,
              Resolve, Conclude, Deploy, Launch, WriteRecord, Probe, Kill, outcomeVars
<1>2. q = p
  BY <1>1, TellsTypes DEF Infer, End, TypeOK
<1> QED BY <1>1, <1>2

\* A round is scored on the runtime it pins, whatever else runs, unless another
\* command has deployed meanwhile or an unrecorded deployment has come before.
THEOREM ScoresHonestly == Spec => HonestComparison
<1>1. TellsInv /\ [Next]_vars
        => [\A p \in untouched :
              At(p, "infer") /\ proc'[p] # proc[p] /\ scoredOn' # scoredOn
              => \/ scoredOn'[proc[p].round] = TheManifest(p).pin
                 \/ proc[p].rec.mode \in unrecorded]_vars
  <2> SUFFICES ASSUME TellsInv, Next, NEW p \in untouched, At(p, "infer"), proc'[p] # proc[p],
                      scoredOn' # scoredOn, proc[p].rec.mode \notin unrecorded
               PROVE  scoredOn'[proc[p].round] = TheManifest(p).pin
    OBVIOUS
  <2>1. /\ TypeOK /\ p \in Proc /\ CommandOK(p, proc[p]) /\ RecordTells
        /\ TheManifest(p) \in Manifests
        /\ proc[p].rec \in Records
        /\ proc[p].round \in 1 .. Len(rounds)
    BY TellsTypes, CommandType DEF At
  <2>2. Infer(p)
    BY <2>1, OnlyInferScores
  <2>3. /\ scoredOn'[proc[p].round] = Serving(proc[p].rec.mode)
        /\ Serving(proc[p].rec.mode) # None
    BY <2>1, <2>2 DEF Infer, TypeOK
  <2>4. Passes(TheManifest(p), proc[p].rec)
    BY <2>1 DEF CommandOK, At, TheManifest
  <2>5. Serving(proc[p].rec.mode) = proc[p].rec.pin
    BY <2>1, <2>3 DEF RecordTells, Serves, Serving
  <2> QED BY <2>1, <2>3, <2>4, <2>5, PassesPins
<1> QED BY <1>1, TellsInvariance, PTL DEF Spec, HonestComparison
====
