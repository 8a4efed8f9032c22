-------------------------- MODULE PackageCache_proofs --------------------------
(***************************************************************************)
(* Proofs about PackageCache, for any set of commands: type correctness,   *)
(* the cache is never a partial package, and a cached package survives.    *)
(***************************************************************************)
EXTENDS PackageCache, TLAPS

USE CacheAssumption

HoldingPCs == {"publish", "discard", "cleanup", "restore"}

\* What the invariant says of one command, its temporary directory and its
\* backup.
HeldOK(r, t, o) ==
    /\ r.pc \in {"swap", "retire", "publish"} => t = "whole"
    /\ o # "partial"
    /\ o # "absent" => r.pc \in HoldingPCs

Holding == \A p \in Proc : HeldOK(proc[p], temp[p], old[p])

LEMMA HoldingIsInv == IInv <=> TypeOK /\ CacheIsWhole /\ Holding
  BY DEF IInv, Holding, HeldOK, TempIsWhole, OldWasCache, OldInHand, HoldingPCs

LEMMA IdleType == Idle \in Commands
  BY DEF Idle, Commands, PCs

\* A step of one command: what becomes of it and of its two directories.
Moves(p, r, t, o) ==
    /\ r \in Commands
    /\ t \in Dirs
    /\ o \in Dirs
    /\ HeldOK(r, t, o)
    /\ proc' = [proc EXCEPT ![p] = r]
    /\ temp' = [temp EXCEPT ![p] = t]
    /\ old' = [old EXCEPT ![p] = o]

LEMMA MovesKeeps ==
    ASSUME IInv, NEW p \in Proc, NEW r, NEW t, NEW o, Moves(p, r, t, o),
           cache' \in Dirs \ {"partial"}, row' \in Rows, holder' \in Proc \cup {Free},
           forced' \in Nat, faults' \in Nat
    PROVE  IInv'
<1>1. TypeOK'
  BY DEF IInv, TypeOK, Moves
<1>2. Holding'
  <2> SUFFICES ASSUME NEW q \in Proc PROVE HeldOK(proc[q], temp[q], old[q])'
    BY DEF Holding
  <2>1. CASE q = p
    BY <2>1 DEF IInv, TypeOK, Moves, HeldOK
  <2>2. CASE q # p
    <3>1. HeldOK(proc[q], temp[q], old[q])
      BY HoldingIsInv DEF Holding
    <3> QED BY <2>2, <3>1 DEF IInv, TypeOK, Moves, HeldOK
  <2> QED BY <2>1, <2>2
<1>3. CacheIsWhole'
  BY DEF CacheIsWhole
<1> QED BY <1>1, <1>2, <1>3, HoldingIsInv
        DEF IInv, Holding, HeldOK, TempIsWhole, OldWasCache, OldInHand, HoldingPCs

\* The facts about one command every step starts from.
LEMMA CommandType ==
    ASSUME IInv, NEW p \in Proc
    PROVE  /\ proc[p] \in Commands
           /\ temp[p] \in Dirs
           /\ old[p] \in Dirs
           /\ HeldOK(proc[p], temp[p], old[p])
           /\ proc = [proc EXCEPT ![p] = proc[p]]
           /\ temp = [temp EXCEPT ![p] = temp[p]]
           /\ old = [old EXCEPT ![p] = old[p]]
  BY HoldingIsInv DEF IInv, TypeOK, Holding

\* A step that only takes the command to another place keeps the invariant.
LEMMA GotoKeeps ==
    ASSUME IInv, NEW p \in Proc, NEW pc \in PCs, Goto(p, pc),
           HeldOK([proc[p] EXCEPT !.pc = pc], temp[p], old[p]),
           UNCHANGED <<diskVars, forced>>, row' \in Rows, holder' = holder, faults' \in Nat
    PROVE  IInv'
<1> DEFINE r == [proc[p] EXCEPT !.pc = pc]
<1>1. r \in Commands
  BY CommandType DEF Commands
<1>2. proc' = [proc EXCEPT ![p] = r]
  BY DEF Goto, IInv, TypeOK
<1>3. Moves(p, r, temp[p], old[p])
  BY <1>1, <1>2, CommandType DEF Moves, diskVars
<1> QED BY <1>3, MovesKeeps DEF IInv, TypeOK, CacheIsWhole, diskVars

\* A command that ends with nothing in hand keeps it too.
LEMMA EndKeeps ==
    ASSUME IInv, NEW p \in Proc, End(p),
           cache' \in Dirs \ {"partial"}, row' \in Rows, forced' = forced, faults' \in Nat,
           NEW t \in Dirs, temp' = [temp EXCEPT ![p] = t], old' = [old EXCEPT ![p] = "absent"]
    PROVE  IInv'
<1>1. HeldOK(Idle, t, "absent")
  BY DEF HeldOK, Idle
<1>2. Moves(p, Idle, t, "absent")
  BY <1>1, IdleType DEF Moves, End, Dirs
<1>3. holder' \in Proc \cup {Free}
  BY DEF End, IInv, TypeOK
<1> QED BY <1>2, <1>3, MovesKeeps DEF IInv, TypeOK

\* A command outside the renames has no backup.
LEMMA NoBackup ==
    ASSUME IInv, NEW p \in Proc, proc[p].pc \notin HoldingPCs
    PROVE  old[p] = "absent"
  BY CommandType DEF HeldOK

\* So its end leaves the directories as they are.
LEMMA PlainEndKeeps ==
    ASSUME IInv, NEW p \in Proc, End(p), proc[p].pc \notin HoldingPCs,
           UNCHANGED <<diskVars, forced>>, row' \in Rows, faults' \in Nat
    PROVE  IInv'
<1>1. old' = [old EXCEPT ![p] = "absent"] /\ temp' = [temp EXCEPT ![p] = temp[p]]
  BY NoBackup, CommandType DEF diskVars
<1>2. temp[p] \in Dirs
  BY CommandType
<1>3. cache' \in Dirs \ {"partial"}
  BY DEF diskVars, IInv, TypeOK, CacheIsWhole
<1>4. forced' = forced
  OBVIOUS
<1> QED BY <1>1, <1>2, <1>3, <1>4, EndKeeps

LEMMA BeginKeeps ==
    ASSUME IInv, NEW p \in Proc, At(p, "idle"), NEW role \in {"fetch", "sync", "score"},
           NEW force \in BOOLEAN, NEW auto \in BOOLEAN, Begin(p, role, force, auto),
           UNCHANGED diskVars, row' \in Rows, holder' \in Proc \cup {Free},
           forced' \in Nat, faults' \in Nat
    PROVE  IInv'
<1> DEFINE r == [pc |-> "look", role |-> role, force |-> force, auto |-> auto, unl |-> FALSE]
<1>1. r \in Commands
  BY DEF Commands, PCs
<1>2. HeldOK(r, temp[p], old[p])
  BY NoBackup DEF HeldOK, At, HoldingPCs
<1>3. Moves(p, r, temp[p], old[p])
  BY <1>1, <1>2, CommandType DEF Moves, Begin, diskVars
<1> QED BY <1>3, MovesKeeps DEF IInv, TypeOK, CacheIsWhole, diskVars

LEMMA StartKeeps ==
    ASSUME IInv, NEW p \in Proc, StartFetch(p) \/ StartScore(p) \/ StartSync(p)
    PROVE  IInv'
<1> USE DEF IInv, TypeOK
<1>1. CASE StartFetch(p)
  <2>1. PICK force \in BOOLEAN, auto \in BOOLEAN :
            /\ forced' = IF force THEN forced + 1 ELSE forced
            /\ Begin(p, "fetch", force, auto)
    BY <1>1 DEF StartFetch
  <2>2. forced' \in Nat
    BY <2>1
  <2>3. UNCHANGED <<diskVars, row, holder, faults>> /\ At(p, "idle")
    BY <1>1 DEF StartFetch
  <2> QED BY <2>1, <2>2, <2>3, BeginKeeps
<1>2. CASE StartScore(p)
  <2>1. /\ Begin(p, "score", FALSE, TRUE) /\ At(p, "idle")
        /\ UNCHANGED <<diskVars, row, holder, forced, faults>>
    BY <1>2 DEF StartScore
  <2> QED BY <2>1, BeginKeeps
<1>3. CASE StartSync(p)
  <2>1. /\ Begin(p, "sync", FALSE, TRUE) /\ At(p, "idle") /\ holder' = p
        /\ UNCHANGED <<diskVars, forced, faults>>
    BY <1>3 DEF StartSync
  <2>2. row' \in Rows
    BY <1>3 DEF StartSync, Rows
  <2> QED BY <2>1, <2>2, BeginKeeps
<1> QED BY <1>1, <1>2, <1>3

LEMMA FetchKeeps == ASSUME IInv, NEW p \in Proc, FetchStep(p) PROVE IInv'
<1>0. /\ HeldOK(proc[p], temp[p], old[p])
      /\ proc[p] \in Commands
      /\ proc \in [Proc -> Commands]
      /\ faults \in Nat /\ forced \in Nat /\ row \in Rows /\ holder \in Proc \cup {Free}
      /\ cache \in Dirs \ {"partial"}
      /\ temp[p] \in Dirs /\ old[p] \in Dirs
  BY CommandType DEF IInv, TypeOK, CacheIsWhole
<1> USE DEF Fault
<1>1. CASE Look(p)
  <2>1. PICK pc \in {"verify", "download"} : Goto(p, pc)
    BY <1>1 DEF Look
  <2>2. HeldOK([proc[p] EXCEPT !.pc = pc], temp[p], old[p])
    BY <1>0, <1>1 DEF Look, At, HeldOK, Commands, HoldingPCs
  <2> QED BY <1>0, <1>1, <2>1, <2>2, GotoKeeps DEF Look, PCs
<1>2. CASE Verify(p)
  <2>1. CASE End(p)
    BY <1>0, <1>2, <2>1, PlainEndKeeps DEF Verify, At, HoldingPCs
  <2>2. CASE Goto(p, "record") /\ UNCHANGED holder
    <3>1. HeldOK([proc[p] EXCEPT !.pc = "record"], temp[p], old[p])
      BY <1>0, <1>2 DEF Verify, At, HeldOK, Commands, HoldingPCs
    <3> QED BY <1>0, <1>2, <2>2, <3>1, GotoKeeps DEF Verify, PCs
  <2> QED BY <1>2, <2>1, <2>2 DEF Verify
<1>3. CASE Download(p)
  <2>1. faults' \in Nat
    BY <1>0, <1>3 DEF Download
  <2>2. CASE End(p)
    BY <1>0, <1>3, <2>1, <2>2, PlainEndKeeps DEF Download, At, HoldingPCs
  <2>3. CASE Goto(p, "write") /\ UNCHANGED holder
    <3>1. HeldOK([proc[p] EXCEPT !.pc = "write"], temp[p], old[p])
      BY <1>0, <1>3 DEF Download, At, HeldOK, Commands, HoldingPCs
    <3> QED BY <1>0, <1>3, <2>1, <2>3, <3>1, GotoKeeps DEF Download, PCs
  <2>4. CASE proc' = [proc EXCEPT ![p].auto = FALSE] /\ UNCHANGED holder
    <3> DEFINE r == [proc[p] EXCEPT !.auto = FALSE]
    <3>1. r \in Commands /\ proc' = [proc EXCEPT ![p] = r]
      BY <1>0, <2>4 DEF Commands
    <3>2. HeldOK(r, temp[p], old[p])
      BY <1>0 DEF HeldOK, Commands
    <3>3. Moves(p, r, temp[p], old[p])
      BY <1>3, <3>1, <3>2, CommandType DEF Moves, Download, diskVars
    <3> QED BY <1>0, <1>3, <2>1, <2>4, <3>3, MovesKeeps DEF Download, diskVars
  <2> QED BY <1>3, <2>2, <2>3, <2>4 DEF Download
<1>4. CASE Write(p)
  <2>1. PICK pc \in {"write", "swap", "cleanup"}, t \in Dirs :
            /\ proc' = [proc EXCEPT ![p] = [proc[p] EXCEPT !.pc = pc]]
            /\ temp' = [temp EXCEPT ![p] = t]
            /\ pc = "swap" => t = "whole"
            /\ faults' \in Nat
    <3>1. CASE temp' = [temp EXCEPT ![p] = "partial"] /\ UNCHANGED <<proc, faults>>
      <4>1. proc' = [proc EXCEPT ![p] = [proc[p] EXCEPT !.pc = "write"]]
        BY <1>0, <1>4, <3>1 DEF Write, At, Commands
      <4> QED BY <1>0, <3>1, <4>1 DEF Dirs
    <3>2. CASE /\ temp' = [temp EXCEPT ![p] = "whole"]
               /\ Goto(p, "swap") /\ UNCHANGED faults
      BY <1>0, <3>2 DEF Goto, Dirs
    <3>3. CASE Fault /\ Goto(p, AfterWriteError) /\ UNCHANGED temp
      BY <1>0, <3>3, CommandType DEF Goto, AfterWriteError
    <3> QED BY <1>4, <3>1, <3>2, <3>3 DEF Write
  <2> DEFINE r == [proc[p] EXCEPT !.pc = pc]
  <2>2. r \in Commands
    BY <1>0 DEF Commands, PCs
  <2>3. HeldOK(r, t, old[p])
    BY <1>0, <1>4, <2>1 DEF Write, At, HeldOK, Commands, HoldingPCs
  <2>4. Moves(p, r, t, old[p])
    BY <1>4, <2>1, <2>2, <2>3, CommandType DEF Moves, Write
  <2> QED BY <1>0, <1>4, <2>1, <2>4, MovesKeeps DEF Write
<1>5. CASE Swap(p)
  <2>1. PICK pc \in {"publish", "retire", "cleanup"} : Goto(p, pc)
    BY <1>5 DEF Swap
  <2>2. HeldOK([proc[p] EXCEPT !.pc = pc], temp[p], old[p])
    BY <1>0, <1>5 DEF Swap, At, HeldOK, Commands, HoldingPCs
  <2> QED BY <1>0, <1>5, <2>1, <2>2, GotoKeeps DEF Swap, PCs
<1>6. CASE Retire(p)
  <2>1. CASE Goto(p, "cleanup") /\ UNCHANGED <<cache, old>>
    <3>1. HeldOK([proc[p] EXCEPT !.pc = "cleanup"], temp[p], old[p])
      BY <1>0, <1>6 DEF Retire, At, HeldOK, Commands, HoldingPCs
    <3> QED BY <1>0, <1>6, <2>1, <3>1, GotoKeeps DEF Retire, PCs, diskVars
  <2>2. CASE /\ old' = [old EXCEPT ![p] = cache]
             /\ cache' = "absent"
             /\ Goto(p, "publish")
    <3> DEFINE r == [proc[p] EXCEPT !.pc = "publish"]
    <3>1. r \in Commands /\ proc' = [proc EXCEPT ![p] = r]
      BY <1>0, <2>2 DEF Commands, PCs, Goto
    <3>2. HeldOK(r, temp[p], cache)
      BY <1>0, <1>6 DEF Retire, At, HeldOK, Commands, HoldingPCs
    <3>3. Moves(p, r, temp[p], cache)
      BY <1>0, <1>6, <2>2, <3>1, <3>2, CommandType DEF Moves, Retire
    <3> QED BY <1>0, <1>6, <2>2, <3>3, MovesKeeps DEF Retire, Dirs
  <2> QED BY <1>6, <2>1, <2>2 DEF Retire
<1>7. CASE Publish(p)
  <2>1. CASE Goto(p, "cleanup") /\ UNCHANGED <<cache, temp>>
    <3>1. HeldOK([proc[p] EXCEPT !.pc = "cleanup"], temp[p], old[p])
      BY <1>0, <1>7 DEF Publish, At, HeldOK, Commands, HoldingPCs
    <3>2. faults' \in Nat
      BY <1>0, <1>7 DEF Publish
    <3> QED BY <1>0, <1>7, <2>1, <3>1, <3>2, GotoKeeps DEF Publish, PCs, diskVars
  <2>2. CASE /\ cache' = temp[p]
             /\ temp' = [temp EXCEPT ![p] = "absent"]
             /\ Goto(p, "discard")
             /\ UNCHANGED faults
    <3> DEFINE r == [proc[p] EXCEPT !.pc = "discard"]
    <3>1. r \in Commands /\ proc' = [proc EXCEPT ![p] = r]
      BY <1>0, <2>2 DEF Commands, PCs, Goto
    <3>2. HeldOK(r, "absent", old[p])
      BY <1>0, <1>7 DEF Publish, At, HeldOK, Commands, HoldingPCs
    <3>3. Moves(p, r, "absent", old[p])
      BY <1>7, <2>2, <3>1, <3>2, CommandType DEF Moves, Publish, Dirs
    <3>4. cache' = "whole"
      BY <1>0, <1>7, <2>2 DEF Publish, At, HeldOK
    <3> QED BY <1>0, <1>7, <2>2, <3>3, <3>4, MovesKeeps DEF Publish, Dirs
  <2> QED BY <1>7, <2>1, <2>2 DEF Publish
<1>8. CASE Discard(p)
  <2> DEFINE r == [proc[p] EXCEPT !.pc = "record"]
  <2>1. r \in Commands /\ proc' = [proc EXCEPT ![p] = r]
    BY <1>0, <1>8 DEF Commands, PCs, Goto, Discard
  <2>2. HeldOK(r, temp[p], "absent")
    BY <1>0 DEF HeldOK, Commands
  <2>3. Moves(p, r, temp[p], "absent")
    BY <1>8, <2>1, <2>2, CommandType DEF Moves, Discard, Dirs
  <2> QED BY <1>0, <1>8, <2>3, MovesKeeps DEF Discard
<1>9. CASE Cleanup(p)
  <2>1. CASE Goto(p, "restore") /\ UNCHANGED <<old, holder>>
    <3> DEFINE r == [proc[p] EXCEPT !.pc = "restore"]
    <3>1. r \in Commands /\ proc' = [proc EXCEPT ![p] = r]
      BY <1>0, <2>1 DEF Commands, PCs, Goto
    <3>2. HeldOK(r, "absent", old[p])
      BY <1>0 DEF HeldOK, Commands, HoldingPCs
    <3>3. Moves(p, r, "absent", old[p])
      BY <1>9, <2>1, <3>1, <3>2, CommandType DEF Moves, Cleanup, Dirs
    <3> QED BY <1>0, <1>9, <2>1, <3>3, MovesKeeps DEF Cleanup
  <2>2. CASE old' = [old EXCEPT ![p] = "absent"] /\ End(p)
    BY <1>0, <1>9, <2>2, EndKeeps DEF Cleanup, Dirs
  <2> QED BY <1>9, <2>1, <2>2 DEF Cleanup
<1>10. CASE Restore(p)
  <2>1. cache' \in Dirs \ {"partial"}
    BY <1>0, <1>10 DEF Restore, HeldOK
  <2>2. temp' = [temp EXCEPT ![p] = temp[p]]
    BY <1>10, CommandType DEF Restore
  <2> QED BY <1>0, <1>10, <2>1, <2>2, EndKeeps DEF Restore
<1> QED BY <1>1, <1>2, <1>3, <1>4, <1>5, <1>6, <1>7, <1>8, <1>9, <1>10 DEF FetchStep

LEMMA UseKeeps ==
    ASSUME IInv, NEW p \in Proc,
           RecordVerified(p) \/ ReadFile(p) \/ HasPreviousUNL(p) \/ Score(p)
    PROVE  IInv'
<1>0. /\ HeldOK(proc[p], temp[p], old[p])
      /\ proc[p] \in Commands
      /\ proc \in [Proc -> Commands]
      /\ faults \in Nat /\ forced \in Nat /\ row \in Rows /\ holder \in Proc \cup {Free}
      /\ cache \in Dirs \ {"partial"}
  BY CommandType DEF IInv, TypeOK, CacheIsWhole
<1>1. ASSUME NEW pc \in {"manifest", "map", "exists", "load", "score"}, old[p] = "absent"
      PROVE  HeldOK([proc[p] EXCEPT !.pc = pc], temp[p], old[p])
  BY <1>0, <1>1 DEF HeldOK, Commands
<1>2. CASE RecordVerified(p)
  <2>1. row' \in Rows /\ faults' = faults /\ UNCHANGED <<diskVars, forced>>
    BY <1>0, <1>2 DEF RecordVerified, Rows
  <2>2. CASE End(p)
    BY <1>0, <1>2, <2>1, <2>2, PlainEndKeeps DEF RecordVerified, At, HoldingPCs
  <2>3. CASE Goto(p, "manifest") /\ UNCHANGED holder
    <3>1. old[p] = "absent"
      BY <1>2, NoBackup DEF RecordVerified, At, HoldingPCs
    <3> QED BY <1>0, <1>1, <2>1, <2>3, <3>1, GotoKeeps DEF PCs, Reading
  <2> QED BY <1>2, <2>2, <2>3 DEF RecordVerified
<1>3. CASE ReadFile(p)
  <2>1. UNCHANGED <<diskVars, row, forced, faults>>
    BY <1>3 DEF ReadFile
  <2>2. old[p] = "absent"
    BY <1>3, NoBackup DEF ReadFile, At, HoldingPCs
  <2>3. CASE End(p)
    BY <1>0, <1>3, <2>1, <2>3, PlainEndKeeps DEF ReadFile, At, HoldingPCs
  <2>4. CASE holder' = holder /\ \E pc \in {"map", "exists", "score"} : Goto(p, pc)
    <3>1. PICK pc \in {"map", "exists", "score"} : Goto(p, pc)
      BY <2>4
    <3> QED BY <1>0, <1>1, <2>1, <2>2, <2>4, <3>1, GotoKeeps DEF PCs, Reading
  <2> QED BY <1>3, <2>3, <2>4 DEF ReadFile, At
<1>4. CASE HasPreviousUNL(p)
  <2>1. UNCHANGED <<diskVars, row, holder, forced, faults>>
    BY <1>4 DEF HasPreviousUNL
  <2>2. old[p] = "absent"
    BY <1>4, NoBackup DEF HasPreviousUNL, At, HoldingPCs
  <2>3. CASE proc' = [proc EXCEPT ![p].pc = "load", ![p].unl = TRUE]
    <3> DEFINE r == [proc[p] EXCEPT !.pc = "load", !.unl = TRUE]
    <3>1. r \in Commands /\ proc' = [proc EXCEPT ![p] = r]
      BY <1>0, <2>3 DEF Commands, PCs, Reading
    <3>2. HeldOK(r, temp[p], old[p])
      BY <1>0, <2>2 DEF HeldOK, Commands
    <3>3. Moves(p, r, temp[p], old[p])
      BY <2>1, <3>1, <3>2, CommandType DEF Moves, diskVars
    <3> QED BY <1>0, <2>1, <3>3, MovesKeeps DEF diskVars
  <2>4. CASE Goto(p, "score")
    BY <1>0, <1>1, <2>1, <2>2, <2>4, GotoKeeps DEF PCs, Reading
  <2> QED BY <1>4, <2>3, <2>4 DEF HasPreviousUNL
<1>5. CASE Score(p)
  <2>1. row' \in Rows
    BY <1>0, <1>5 DEF Score, Rows, Commands
  <2> QED BY <1>0, <1>5, <2>1, PlainEndKeeps DEF Score, At, HoldingPCs
<1> QED BY <1>2, <1>3, <1>4, <1>5

\* A step that touches no command and no directory but, perhaps, the cache.
LEMMA OutsideKeeps ==
    ASSUME IInv, UNCHANGED <<temp, old, holder, proc, forced>>,
           cache' \in Dirs \ {"partial"}, row' \in Rows, faults' \in Nat
    PROVE  IInv'
  BY DEF IInv, TypeOK, CacheIsWhole, TempIsWhole, OldWasCache, OldInHand

LEMMA Inductive == IInv /\ [Next]_vars => IInv'
<1> SUFFICES ASSUME IInv, [Next]_vars PROVE IInv'
  OBVIOUS
<1>0. cache \in Dirs \ {"partial"} /\ row \in Rows /\ faults \in Nat
  BY DEF IInv, TypeOK, CacheIsWhole
<1>1. ASSUME NEW p \in Proc, StartFetch(p) \/ StartScore(p) \/ StartSync(p) PROVE IInv'
  BY <1>1, StartKeeps
<1>2. ASSUME NEW p \in Proc, Step(p) PROVE IInv'
  BY <1>2, FetchKeeps, UseKeeps DEF Step
<1>3. ASSUME NEW p \in Proc, Kill(p) PROVE IInv'
  <2>1. /\ End(p) /\ UNCHANGED <<cache, row, forced>>
        /\ faults' = faults + 1
        /\ temp' = [temp EXCEPT ![p] = "absent"] /\ old' = [old EXCEPT ![p] = "absent"]
    BY <1>3 DEF Kill, Fault
  <2>2. "absent" \in Dirs
    BY DEF Dirs
  <2>3. cache' \in Dirs \ {"partial"} /\ row' \in Rows /\ forced' = forced /\ faults' \in Nat
    BY <1>0, <2>1
  <2> QED BY <2>1, <2>2, <2>3, EndKeeps
<1>4. CASE Commit
  <2>1. row' \in Rows
    BY <1>0, <1>4 DEF Commit, Rows
  <2> QED BY <1>0, <1>4, <2>1, OutsideKeeps DEF Commit, diskVars
<1>5. CASE Reveal
  <2>1. row' \in Rows
    BY <1>0, <1>5 DEF Reveal, Rows
  <2> QED BY <1>0, <1>5, <2>1, OutsideKeeps DEF Reveal, diskVars
<1>6. CASE Corrupt
  BY <1>0, <1>6, OutsideKeeps DEF Corrupt, Fault, Dirs
<1>7. CASE UNCHANGED vars
  BY <1>0, <1>7, OutsideKeeps DEF vars, diskVars
<1> QED BY <1>1, <1>2, <1>3, <1>4, <1>5, <1>6, <1>7 DEF Next

LEMMA Initially == Init => IInv
  BY IdleType DEF Init, IInv, TypeOK, Dirs, Rows, CacheIsWhole, TempIsWhole, OldWasCache,
     OldInHand, Idle

\* The inductive invariant holds of every run.
THEOREM Invariance == Spec => []IInv
  BY Initially, Inductive, PTL DEF Spec

\* Every variable keeps its type.
THEOREM TypeCorrect == Spec => []TypeOK
<1>1. IInv => TypeOK
  BY DEF IInv
<1> QED BY <1>1, Invariance, PTL

\* The cache path never names a partial package.
THEOREM CacheStaysWhole == Spec => []CacheIsWhole
<1>1. IInv => CacheIsWhole
  BY DEF IInv
<1> QED BY <1>1, Invariance, PTL

\* What a step does with the backup of a command.
LEMMA BackupStays ==
    ASSUME IInv, Next, ~(\E p \in Proc : Kill(p)), NEW q \in Proc,
           old[q] # "absent", ~At(q, "discard"), cache = "absent", cache' = "absent"
    PROVE  old'[q] # "absent" /\ ~At(q, "discard")'
<1>0. proc[q].pc \in {"publish", "cleanup", "restore"}
  BY CommandType DEF HeldOK, At, HoldingPCs
<1>1. /\ old \in [Proc -> Dirs] /\ proc \in [Proc -> Commands]
      /\ proc[q].pc = "publish" => temp[q] = "whole"
      /\ Idle \in Commands
  BY IdleType, CommandType DEF IInv, TypeOK, HeldOK
<1>2. CASE UNCHANGED <<old, proc>>
  BY <1>2 DEF At
<1>3. ASSUME NEW p \in Proc, StartFetch(p) \/ StartScore(p) \/ StartSync(p) \/ Step(p)
      PROVE  old'[q] # "absent" /\ ~At(q, "discard")'
  <2>1. CASE p # q
    <3>1. old'[q] = old[q]
      BY <1>1, <1>3, <2>1
         DEF StartFetch, StartScore, StartSync, Step, FetchStep, Look, Verify, Download,
             Write, Swap, Retire, Publish, Discard, Cleanup, Restore, RecordVerified,
             ReadFile, HasPreviousUNL, Score, diskVars
    <3>2. proc'[q] = proc[q]
      BY <1>1, <1>3, <2>1
         DEF StartFetch, StartScore, StartSync, Step, FetchStep, Look, Verify, Download,
             Write, Swap, Retire, Publish, Discard, Cleanup, Restore, RecordVerified,
             ReadFile, HasPreviousUNL, Score, Goto, End, Begin
    <3> QED BY <3>1, <3>2 DEF At
  <2>2. CASE p = q
    <3>1. Publish(q) \/ Cleanup(q) \/ Restore(q)
      BY <1>0, <1>3, <2>2
         DEF StartFetch, StartScore, StartSync, Step, FetchStep, Look, Verify, Download,
             Write, Swap, Retire, Discard, RecordVerified, ReadFile, HasPreviousUNL, Score,
             At
    <3>2. CASE Publish(q)
      BY <1>1, <3>2 DEF Publish, Goto, At, Commands
    <3>3. CASE Cleanup(q)
      BY <1>1, <3>3 DEF Cleanup, MustRestore, Goto, At, Commands
    <3>4. CASE Restore(q)
      BY <1>1, <3>4 DEF Restore
    <3> QED BY <3>1, <3>2, <3>3, <3>4
  <2> QED BY <2>1, <2>2
<1> QED BY <1>2, <1>3 DEF Next, Commit, Reveal, Corrupt, diskVars

\* A cached package is lost only with the killed command that holds its
\* backup, for any number of commands.
THEOREM CachedPackageIsKept == Spec => CachedPackageSurvives
<1>1. IInv /\ [Next]_vars => [Kept => Kept' \/ \E p \in Proc : Kill(p)]_vars
  <2> SUFFICES ASSUME IInv, Next, Kept, ~(\E p \in Proc : Kill(p)), cache' = "absent"
               PROVE  \E q \in Proc : old'[q] # "absent" /\ ~At(q, "discard")'
    BY DEF Kept, vars
  <2>1. CASE cache = "absent"
    <3>1. PICK q \in Proc : old[q] # "absent" /\ ~At(q, "discard")
      BY <2>1 DEF Kept
    <3> QED BY <2>1, <3>1, BackupStays
  <2>2. CASE cache # "absent"
    <3>1. PICK p \in Proc : Retire(p) \/ Publish(p) \/ Restore(p)
      BY <2>2 DEF Next, StartFetch, StartScore, StartSync, Step, FetchStep, Look, Verify,
                  Download, Write, Swap, Discard, Cleanup, RecordVerified, ReadFile,
                  HasPreviousUNL, Score, Commit, Reveal, Corrupt, diskVars
    <3>2. Retire(p)
      BY <2>2, <3>1 DEF Publish, Restore
    <3>3. old' = [old EXCEPT ![p] = cache] /\ Goto(p, "publish")
      BY <2>2, <3>2 DEF Retire
    <3> QED BY <2>2, <3>3 DEF IInv, TypeOK, Goto, At, Commands
  <2> QED BY <2>1, <2>2
<1> QED BY <1>1, Invariance, PTL DEF Spec, CachedPackageSurvives
====
