---------------------------- MODULE SchemaMigration ----------------------------
(***************************************************************************)
(* How the state store of an earlier release becomes the current one       *)
(* (state.py, _ensure_schema and the migrations).  Every statement commits *)
(* on its own and user_version is written last, so a kill or a failed      *)
(* statement leaves a store between two versions; the next command that    *)
(* opens it starts over.  Every command opens the store under the sidecar  *)
(* lock (SidecarLock, sync.py).                                            *)
(*                                                                         *)
(* A schema is the set of the parts it has: tables, an index, columns.     *)
(***************************************************************************)
EXTENDS Integers, Sequences

CONSTANTS
    Proc,       \* the commands that may run at a time
    Free,       \* the lock's holder when nobody holds it
    MaxFaults   \* bound: kills and failed statements

ASSUME SchemaAssumption == Free \notin Proc /\ MaxFaults \in Nat

VARIABLES
    version,   \* PRAGMA user_version
    schema,    \* the parts the database file has
    holder,    \* of the sidecar lock
    proc,      \* the commands: where they are in open(), the version they
               \* migrate to, the next of its parts, the columns they have read
    faults

vars == <<version, schema, holder, proc, faults>>

SCHEMA_VERSION == 7

\* What each version adds to the one before.
Added == <<
    <<"sidecar_rounds", "idx_sidecar_rounds_state">>,
    <<"scored_at", "backend_mode", "model_response_hash", "validator_scores_hash",
      "selected_unl_hash", "comparison_levels_matched", "error_category", "error_details">>,
    <<"chain_cursor">>,
    <<"salt", "commit_tx_hash", "validator_master_key", "commit_opens_at", "commit_closes_at",
      "reveal_opens_at", "reveal_closes_at">>,
    <<"reveal_tx_hash", "commitment_hash", "reveal_error_category">>,
    <<"foundation_publisher">>,
    <<"inference_call_id">> >>

AddedIn(v) == {Added[v][i] : i \in 1 .. Len(Added[v])}
UpTo(v) == UNION {AddedIn(u) : u \in 1 .. v}
Complete == UpTo(SCHEMA_VERSION)

\* The migrations that create a table; the others add columns.
TableMigrations == {3, 6}

\* The statements of _create_schema and the parts each makes.
Created == <<"sidecar_rounds", "idx_sidecar_rounds_state", "chain_cursor",
             "foundation_publisher">>
Makes(t) == IF t = "sidecar_rounds"
            THEN {"sidecar_rounds"} \cup AddedIn(2) \cup AddedIn(4) \cup AddedIn(5) \cup AddedIn(7)
            ELSE {t}

PCs == {"idle", "version", "create", "look", "alter", "stamp", "open"}
Commands == [pc : PCs, at : 1 .. SCHEMA_VERSION, next : Nat, seen : SUBSET Complete]
Idle == [pc |-> "idle", at |-> 1, next |-> 1, seen |-> {}]

TypeOK == /\ version \in 0 .. SCHEMA_VERSION + 1
          /\ schema \subseteq Complete
          /\ holder \in Proc \cup {Free}
          /\ proc \in [Proc -> Commands]
          /\ faults \in Nat

\* A new data directory, or what any release has left: version 8 is a later
\* one's.
Init == /\ \E v \in 0 .. SCHEMA_VERSION + 1 :
              /\ version = v
              /\ schema = UpTo(IF v > SCHEMA_VERSION THEN SCHEMA_VERSION ELSE v)
        /\ holder = Free
        /\ proc = [p \in Proc |-> Idle]
        /\ faults = 0

-----------------------------------------------------------------------------

At(p, pc) == proc[p].pc = pc
Goto(p, r) == proc' = [proc EXCEPT ![p] = r]
Fault == faults < MaxFaults /\ faults' = faults + 1

\* The command is over: the connection is closed and the lock released.
End(p) == Goto(p, Idle) /\ holder' = Free

LockFree == holder = Free

Open(p) ==
    /\ At(p, "idle")
    /\ LockFree
    /\ holder' = p
    /\ Goto(p, [Idle EXCEPT !.pc = "version"])
    /\ UNCHANGED <<version, schema, faults>>

\* Mutant: user_version is written before the last migration.
AfterMigrationEarly(v) ==
    [Idle EXCEPT !.pc = IF v >= SCHEMA_VERSION - 1 THEN "stamp" ELSE "look",
                 !.at = IF v >= SCHEMA_VERSION - 1 THEN v ELSE v + 1]

\* Once version v is reached: the next migration, or user_version.
AfterMigration(v) ==
    [Idle EXCEPT !.pc = IF v = SCHEMA_VERSION THEN "stamp" ELSE "look",
                 !.at = IF v = SCHEMA_VERSION THEN v ELSE v + 1]

\* _ensure_schema; a later release's store is refused.
Version(p) ==
    /\ At(p, "version")
    /\ \/ version > SCHEMA_VERSION /\ End(p)
       \/ /\ version = SCHEMA_VERSION
          /\ Goto(p, [Idle EXCEPT !.pc = "open"])
          /\ UNCHANGED holder
       \/ version = 0 /\ Goto(p, [Idle EXCEPT !.pc = "create"]) /\ UNCHANGED holder
       \/ /\ version \in 1 .. SCHEMA_VERSION - 1
          /\ Goto(p, AfterMigration(version))
          /\ UNCHANGED holder
    /\ UNCHANGED <<version, schema, faults>>

\* _execute_write: one statement, with the command going on as r.  When SQLite
\* refuses it, or the write fails, so does the command (SidecarStateError).
Statement(p, refused, parts, r) ==
    \/ /\ ~refused
       /\ schema' = schema \cup parts
       /\ Goto(p, r)
       /\ UNCHANGED <<version, holder, faults>>
    \/ /\ IF refused THEN UNCHANGED faults ELSE Fault
       /\ End(p)
       /\ UNCHANGED <<version, schema>>

\* _create_schema: each table unless it exists.
Create(p) ==
    /\ At(p, "create")
    /\ LET i == proc[p].next
           t == Created[i]
       IN Statement(p, FALSE, IF t \in schema THEN {} ELSE Makes(t),
                    IF i < Len(Created) THEN [proc[p] EXCEPT !.next = i + 1]
                                        ELSE [Idle EXCEPT !.pc = "stamp"])

\* Mutant: the columns of the store are not read.
ReadColumnsNone == {}

\* _existing_columns.
ReadColumns == schema

\* A migration creates its table, or first reads the columns there are.
Look(p) ==
    /\ At(p, "look")
    /\ LET v == proc[p].at IN
       IF v \in TableMigrations
       THEN Statement(p, FALSE, AddedIn(v), AfterMigration(v))
       ELSE /\ Goto(p, [proc[p] EXCEPT !.pc = "alter", !.next = 1, !.seen = ReadColumns])
            /\ UNCHANGED <<version, schema, holder, faults>>

\* ALTER TABLE for a column that was not seen; SQLite refuses one that is
\* there all the same.
Alter(p) ==
    /\ At(p, "alter")
    /\ LET v == proc[p].at
           i == proc[p].next
           c == Added[v][i]
           on == IF i < Len(Added[v]) THEN [proc[p] EXCEPT !.next = i + 1]
                                      ELSE AfterMigration(v)
       IN
       \/ c \in proc[p].seen /\ Goto(p, on) /\ UNCHANGED <<version, schema, holder, faults>>
       \/ c \notin proc[p].seen /\ Statement(p, c \in schema, {c}, on)

\* PRAGMA user_version.
Stamp(p) ==
    /\ At(p, "stamp")
    /\ \/ /\ version' = SCHEMA_VERSION
          /\ Goto(p, [Idle EXCEPT !.pc = "open"])
          /\ UNCHANGED <<schema, holder, faults>>
       \/ Fault /\ End(p) /\ UNCHANGED <<version, schema>>

\* The command has done its work and closes the store.
Close(p) ==
    /\ At(p, "open")
    /\ End(p)
    /\ UNCHANGED <<version, schema, faults>>

Kill(p) ==
    /\ ~At(p, "idle")
    /\ Fault
    /\ End(p)
    /\ UNCHANGED <<version, schema>>

Step(p) == Version(p) \/ Create(p) \/ Look(p) \/ Alter(p) \/ Stamp(p) \/ Close(p)

Next == \E p \in Proc : Open(p) \/ Step(p) \/ Kill(p)

Spec == Init /\ [][Next]_vars

\* Commands that opened the store go on, and others come after them.
FairSpec == Spec /\ \A p \in Proc : WF_vars(Step(p)) /\ SF_vars(Open(p))

-----------------------------------------------------------------------------
(* Properties.                                                             *)

\* Whatever was killed before, a command that has the store open finds every
\* table and column its statements name.
OpenedIsComplete == \A p \in Proc : At(p, "open") => schema = Complete

\* No migration adds a column that exists: SQLite never refuses a statement.
NoColumnTwice ==
    \A p \in Proc : At(p, "alter") =>
        LET c == Added[proc[p].at][proc[p].next] IN c \in proc[p].seen \/ c \notin schema

\* The store becomes the current one in the end, unless it is a later one.
EventuallyCurrent == <>[](version >= SCHEMA_VERSION /\ schema = Complete)

(* Why they hold.                                                          *)

\* The version never promises a part that is not there.
VersionBacked ==
    /\ version > 0 => UpTo(IF version > SCHEMA_VERSION THEN SCHEMA_VERSION ELSE version)
                      \subseteq schema
    /\ "sidecar_rounds" \in schema /\ version = 0 => Makes("sidecar_rounds") \subseteq schema

\* Only the holder of the lock is in open().
OnlyHolder == \A p \in Proc : ~At(p, "idle") => holder = p

\* Where a command is tells what the schema has.
Progress == \A p \in Proc :
    LET c == proc[p] IN
    /\ c.pc = "create" => /\ version = 0
                          /\ c.next \in 1 .. Len(Created)
                          /\ \A j \in 1 .. c.next - 1 : Makes(Created[j]) \subseteq schema
    /\ c.pc \in {"look", "alter"} => c.at > 1 /\ UpTo(c.at - 1) \subseteq schema
    /\ c.pc = "alter" =>
          /\ c.at \notin TableMigrations
          /\ c.next \in 1 .. Len(Added[c.at])
          /\ c.seen \subseteq schema
          /\ \A j \in 1 .. Len(Added[c.at]) :
                IF j < c.next THEN Added[c.at][j] \in schema
                ELSE Added[c.at][j] \in schema => Added[c.at][j] \in c.seen
    /\ c.pc \in {"stamp", "open"} => schema = Complete

IInv == TypeOK /\ VersionBacked /\ OnlyHolder /\ Progress
=============================================================================
