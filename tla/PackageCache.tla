----------------------------- MODULE PackageCache -----------------------------
(***************************************************************************)
(* The cache directory of one frozen input package (input_package.py) and  *)
(* the commands that use it: fetch-input-package, forced or not, which     *)
(* takes no lock; sync_input_package (sync.py), which fetches with the     *)
(* sidecar lock held; and score_round (score.py), which fetches without    *)
(* it, records the result with it, and reads the package's files again     *)
(* later.  Directories are written under a temporary name and renamed.     *)
(* Steps between two file system calls interleave; commands are killed.    *)
(*                                                                         *)
(* A directory is its content: whole (every file matches the package       *)
(* hash), partial, or corrupt.  The package contains previous_unl.json.    *)
(* A directory under a temporary or backup name whose owner is gone stays  *)
(* on disk and is never read: it is forgotten here.                        *)
(***************************************************************************)
EXTENDS Integers

CONSTANTS
    Proc,        \* the commands that may run at a time
    Fetchers,    \* those that run fetch-input-package,
    Syncers,     \* sync,
    Scorers,     \* score
    Free,        \* not a command: nobody holds the lock
    Corruption,  \* whether a cached file may be damaged on disk
    MaxForced,   \* bound: forced fetches in a run
    MaxFaults    \* bound: kills, failed sources, OS errors, damaged files

ASSUME CacheAssumption == /\ Fetchers \subseteq Proc
                          /\ Syncers \subseteq Proc
                          /\ Scorers \subseteq Proc
                          /\ Free \notin Proc
                          /\ Corruption \in BOOLEAN
                          /\ MaxForced \in Nat
                          /\ MaxFaults \in Nat

VARIABLES
    cache,    \* packages/<hash>
    temp,     \* packages/.<hash>.tmp-*, of each command
    old,      \* packages/.<hash>.old-*, of each command
    row,      \* the round's row: its state, whether it has a
              \* selected_unl_hash and a commit_tx_hash
    holder,   \* the sync that holds the sidecar lock
    proc,     \* the commands
    forced,   \* forced fetches so far
    faults

diskVars == <<cache, temp, old>>
vars == <<diskVars, row, holder, proc, forced, faults>>

Dirs == {"absent", "partial", "whole", "corrupt"}

Reading == {"manifest", "map", "exists", "load"}
PCs == {"idle", "look", "verify", "download", "write", "swap", "retire", "publish",
        "discard", "cleanup", "restore", "record", "score"} \cup Reading

Rows == [state : {"none", "DISCOVERED", "VERIFIED", "SCORED", "COMMITTED", "REVEALED"},
         unl : BOOLEAN, committed : BOOLEAN]
Commands == [pc : PCs, role : {"fetch", "sync", "score"},
             force : BOOLEAN, auto : BOOLEAN, unl : BOOLEAN]

Idle == [pc |-> "idle", role |-> "fetch", force |-> FALSE, auto |-> FALSE, unl |-> FALSE]

TypeOK == /\ cache \in Dirs
          /\ temp \in [Proc -> Dirs]
          /\ old \in [Proc -> Dirs]
          /\ row \in Rows
          /\ holder \in Proc \cup {Free}
          /\ proc \in [Proc -> Commands]
          /\ forced \in Nat
          /\ faults \in Nat

Init == /\ cache = "absent"
        /\ temp = [p \in Proc |-> "absent"]
        /\ old = [p \in Proc |-> "absent"]
        /\ row = [state |-> "none", unl |-> FALSE, committed |-> FALSE]
        /\ holder = Free
        /\ proc = [p \in Proc |-> Idle]
        /\ forced = 0
        /\ faults = 0

-----------------------------------------------------------------------------

At(p, pc) == proc[p].pc = pc
Goto(p, pc) == proc' = [proc EXCEPT ![p].pc = pc]
Fault == faults < MaxFaults /\ faults' = faults + 1

\* The command ends; a sync gives the lock back.
End(p) == /\ proc' = [proc EXCEPT ![p] = Idle]
          /\ holder' = IF holder = p THEN Free ELSE holder

\* A short locked section of a command that is not the sync.
LockFree(p) == holder \in {Free, p}

InputReadyStates == {"VERIFIED", "SCORED", "COMMITTED", "REVEALED"}
ScoredOrFurther == {"SCORED", "COMMITTED", "REVEALED"}

(* The commands.                                                           *)

Begin(p, role, force, auto) ==
    proc' = [proc EXCEPT ![p] = [pc |-> "look", role |-> role, force |-> force,
                                 auto |-> auto, unl |-> FALSE]]

StartFetch(p) ==
    /\ p \in Fetchers
    /\ At(p, "idle")
    /\ \E force, auto \in BOOLEAN :
          /\ force => forced < MaxForced
          /\ forced' = IF force THEN forced + 1 ELSE forced
          /\ Begin(p, "fetch", force, auto)
    /\ UNCHANGED <<diskVars, row, holder, faults>>

\* The first locked section: an existing score is not repeated.
StartScore(p) ==
    /\ p \in Scorers
    /\ At(p, "idle")
    /\ holder = Free
    /\ row.state \notin ScoredOrFurther
    /\ Begin(p, "score", FALSE, TRUE)
    /\ UNCHANGED <<diskVars, row, holder, forced, faults>>

\* Mutant: the state alone says whether the package is there.
VerifiedByState == row.state \in InputReadyStates

\* is_input_package_verified.
Verified == row.state \in InputReadyStates /\ cache # "absent"

\* With the lock, for a round that is not verified: record_discovered, then
\* the fetch.  (A verified one is only checked again, which changes nothing.)
StartSync(p) ==
    /\ p \in Syncers
    /\ At(p, "idle")
    /\ holder = Free
    /\ ~Verified
    /\ row' = [row EXCEPT !.state = "DISCOVERED"]
    /\ holder' = p
    /\ Begin(p, "sync", FALSE, TRUE)
    /\ UNCHANGED <<diskVars, forced, faults>>

(* fetch_input_package.                                                    *)

Look(p) ==
    /\ At(p, "look")
    /\ Goto(p, IF cache # "absent" /\ ~proc[p].force THEN "verify" ELSE "download")
    /\ UNCHANGED <<diskVars, row, holder, forced, faults>>

\* verify_cached_input_package: it may be gone by now, or damaged.
Verify(p) ==
    /\ At(p, "verify")
    /\ IF cache = "whole" THEN Goto(p, "record") /\ UNCHANGED holder ELSE End(p)
    /\ UNCHANGED <<diskVars, row, forced, faults>>

\* _download_verified_content from one source, and from the other if the
\* first fails and the source is auto.
Download(p) ==
    /\ At(p, "download")
    /\ \/ Goto(p, "write") /\ UNCHANGED <<holder, faults>>
       \/ /\ Fault
          /\ IF proc[p].auto
             THEN proc' = [proc EXCEPT ![p].auto = FALSE] /\ UNCHANGED holder
             ELSE End(p)
    /\ UNCHANGED <<diskVars, row, forced>>

(* _write_verified_cache.                                                  *)

\* Mutant: a file that cannot be written is passed over.
AfterWriteErrorOnward == "swap"

\* An OSError while the package is written.
AfterWriteError == "cleanup"

\* The package's files and the sidecar's own metadata, one by one.
Write(p) ==
    /\ At(p, "write")
    /\ \/ /\ temp[p] = "absent"
          /\ temp' = [temp EXCEPT ![p] = "partial"]
          /\ UNCHANGED <<proc, faults>>
       \/ /\ temp[p] = "partial"
          /\ temp' = [temp EXCEPT ![p] = "whole"]
          /\ Goto(p, "swap")
          /\ UNCHANGED faults
       \/ Fault /\ Goto(p, AfterWriteError) /\ UNCHANGED temp
    /\ UNCHANGED <<cache, old, row, holder, forced>>

\* cache_path.exists(): an error unless forced.
Swap(p) ==
    /\ At(p, "swap")
    /\ Goto(p, IF cache = "absent" THEN "publish"
               ELSE IF proc[p].force THEN "retire" ELSE "cleanup")
    /\ UNCHANGED <<diskVars, row, holder, forced, faults>>

\* The existing cache becomes the backup, if it is still there.
Retire(p) ==
    /\ At(p, "retire")
    /\ IF cache = "absent"
       THEN Goto(p, "cleanup") /\ UNCHANGED <<cache, old>>
       ELSE /\ old' = [old EXCEPT ![p] = cache]
            /\ cache' = "absent"
            /\ Goto(p, "publish")
    /\ UNCHANGED <<temp, row, holder, forced, faults>>

\* A directory cannot be renamed onto one that is not empty; the rename may
\* also fail for reasons of its own.
Publish(p) ==
    /\ At(p, "publish")
    /\ \/ /\ cache # "absent"
          /\ Goto(p, "cleanup")
          /\ UNCHANGED <<cache, temp, faults>>
       \/ Fault /\ Goto(p, "cleanup") /\ UNCHANGED <<cache, temp>>
       \/ /\ cache = "absent"
          /\ cache' = temp[p]
          /\ temp' = [temp EXCEPT ![p] = "absent"]
          /\ Goto(p, "discard")
          /\ UNCHANGED faults
    /\ UNCHANGED <<old, row, holder, forced>>

\* Only now the backup is removed.
Discard(p) ==
    /\ At(p, "discard")
    /\ old' = [old EXCEPT ![p] = "absent"]
    /\ Goto(p, "record")
    /\ UNCHANGED <<cache, temp, row, holder, forced, faults>>

\* Mutant: the backup is given up with the temporary directory.
MustRestoreNever(p) == FALSE

MustRestore(p) == old[p] # "absent" /\ cache = "absent"

\* The error path: the temporary directory goes; the backup comes back if
\* there is no cache, and is left where it is if there is one.
Cleanup(p) ==
    /\ At(p, "cleanup")
    /\ temp' = [temp EXCEPT ![p] = "absent"]
    /\ IF MustRestore(p)
       THEN Goto(p, "restore") /\ UNCHANGED <<old, holder>>
       ELSE old' = [old EXCEPT ![p] = "absent"] /\ End(p)
    /\ UNCHANGED <<cache, row, forced, faults>>

Restore(p) ==
    /\ At(p, "restore")
    /\ cache' = IF cache = "absent" THEN old[p] ELSE cache
    /\ old' = [old EXCEPT ![p] = "absent"]
    /\ End(p)
    /\ UNCHANGED <<temp, row, forced, faults>>

(* What the command does with the verified package.                        *)

\* record_input_verified, in the sync's own or the score's next locked
\* section; fetch-input-package prints and ends.
RecordVerified(p) ==
    /\ At(p, "record")
    /\ IF proc[p].role = "fetch" \/ ~LockFree(p) THEN End(p) /\ UNCHANGED row
       ELSE /\ row' = [row EXCEPT !.state = "VERIFIED"]
            /\ IF proc[p].role = "sync" THEN End(p)
               ELSE Goto(p, "manifest") /\ UNCHANGED holder
    /\ UNCHANGED <<diskVars, forced, faults>>

\* The frozen files score reads from the cache path later on: the manifest
\* and the request, after the inference the validator map, whether there is
\* a previous_unl.json, and that file.  A file that cannot be read ends the
\* pass; a previous_unl.json that is not there only leaves selected_unl out.
ReadFile(p) ==
    /\ At(p, "manifest") \/ At(p, "map") \/ At(p, "load")
    /\ \/ cache # "whole" /\ End(p)
       \/ /\ cache # "absent"
          /\ Goto(p, CASE At(p, "manifest") -> "map"
                       [] At(p, "map") -> "exists"
                       [] At(p, "load") -> "score")
          /\ UNCHANGED holder
    /\ UNCHANGED <<diskVars, row, forced, faults>>

HasPreviousUNL(p) ==
    /\ At(p, "exists")
    /\ IF cache # "absent"
       THEN proc' = [proc EXCEPT ![p].pc = "load", ![p].unl = TRUE]
       ELSE Goto(p, "score")
    /\ UNCHANGED <<diskVars, row, holder, forced, faults>>

\* record_score, in the score's last locked section.
Score(p) ==
    /\ At(p, "score")
    /\ row' = IF LockFree(p)
              THEN [row EXCEPT !.state = "SCORED", !.unl = proc[p].unl] ELSE row
    /\ End(p)
    /\ UNCHANGED <<diskVars, forced, faults>>

(* The chain phases of a pass, and the environment.                        *)

\* get_rounds_pending_commit: all hashes, no commit yet.
Commit ==
    /\ row.state = "SCORED" /\ row.unl /\ ~row.committed
    /\ holder = Free
    /\ row' = [row EXCEPT !.state = "COMMITTED", !.committed = TRUE]
    /\ UNCHANGED <<diskVars, holder, proc, forced, faults>>

Reveal ==
    /\ row.state = "COMMITTED"
    /\ holder = Free
    /\ row' = [row EXCEPT !.state = "REVEALED"]
    /\ UNCHANGED <<diskVars, holder, proc, forced, faults>>

Kill(p) ==
    /\ ~At(p, "idle")
    /\ Fault
    /\ temp' = [temp EXCEPT ![p] = "absent"]
    /\ old' = [old EXCEPT ![p] = "absent"]
    /\ End(p)
    /\ UNCHANGED <<cache, row, forced>>

Corrupt ==
    /\ Corruption
    /\ Fault
    /\ cache = "whole"
    /\ cache' = "corrupt"
    /\ UNCHANGED <<temp, old, row, holder, proc, forced>>

FetchStep(p) ==
    \/ Look(p) \/ Verify(p) \/ Download(p) \/ Write(p) \/ Swap(p) \/ Retire(p)
    \/ Publish(p) \/ Discard(p) \/ Cleanup(p) \/ Restore(p)

Step(p) == FetchStep(p) \/ RecordVerified(p) \/ ReadFile(p) \/ HasPreviousUNL(p) \/ Score(p)

Next == \/ \E p \in Proc : \/ StartFetch(p) \/ StartScore(p) \/ StartSync(p)
                           \/ Step(p) \/ Kill(p)
        \/ Commit \/ Reveal \/ Corrupt

Spec == Init /\ [][Next]_vars

\* A command that runs goes on, and the sync loop starts its next pass.
FairSpec == /\ Spec
            /\ \A p \in Proc : WF_vars(Step(p)) /\ WF_vars(StartSync(p))

-----------------------------------------------------------------------------
(* Properties.                                                             *)

\* What stands under the cache path was put there as a complete package,
\* whatever is killed, fails or runs at the same time.
CacheIsWhole == cache # "partial"

\* The package can still be had: it is the cache, or the backup of a command
\* that will put a package back.
Kept == cache # "absent" \/ \E p \in Proc : old[p] # "absent" /\ ~At(p, "discard")

\* A package that was cached is not lost, however forced re-fetches race and
\* fail, unless the command that holds the backup is killed.
CachedPackageSurvives == [][Kept => Kept' \/ \E p \in Proc : Kill(p)]_vars

\* While sync passes go on, the package is back in the cache in the end, also
\* when a forced re-fetch was killed between its two renames; and it is whole
\* there, unless its files are damaged on disk, which only --force repairs.
CacheComesBack == /\ <>[](cache # "absent")
                  /\ [](cache # "corrupt") => <>[](cache = "whole")

-----------------------------------------------------------------------------
(* Why they hold.                                                          *)

\* What is renamed to the cache path is complete.
TempIsWhole == \A p \in Proc : proc[p].pc \in {"swap", "retire", "publish"} => temp[p] = "whole"

\* A backup is a former cache.
OldWasCache == \A p \in Proc : old[p] # "partial"

\* Only a command between its renames and their end has a backup.
OldInHand == \A p \in Proc :
    old[p] # "absent" => proc[p].pc \in {"publish", "discard", "cleanup", "restore"}

IInv == TypeOK /\ CacheIsWhole /\ TempIsWhole /\ OldWasCache /\ OldInHand
=============================================================================
