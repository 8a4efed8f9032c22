------------------------- MODULE SchemaMigration_proofs -------------------------
(***************************************************************************)
(* Proofs about SchemaMigration, for any number of commands, kills and     *)
(* failed statements: an opened store is complete, and no column is added  *)
(* twice.                                                                  *)
(***************************************************************************)
EXTENDS SchemaMigration, TLAPS

USE SchemaAssumption DEF SCHEMA_VERSION

-----------------------------------------------------------------------------
(* The parts of the versions.                                              *)

LEMMA AddedLengths ==
    /\ Len(Added) = 7
    /\ Len(Added[1]) = 2 /\ Len(Added[2]) = 8 /\ Len(Added[3]) = 1 /\ Len(Added[4]) = 7
    /\ Len(Added[5]) = 3 /\ Len(Added[6]) = 1 /\ Len(Added[7]) = 1
<1>1. Len(Added) = 7
  BY DEF Added
<1>2. Len(Added[1]) = 2
  BY DEF Added
<1>3. Len(Added[2]) = 8
  BY DEF Added
<1>4. Len(Added[3]) = 1
  BY DEF Added
<1>5. Len(Added[4]) = 7
  BY DEF Added
<1>6. Len(Added[5]) = 3
  BY DEF Added
<1>7. Len(Added[6]) = 1
  BY DEF Added
<1>8. Len(Added[7]) = 1
  BY DEF Added
<1> QED BY <1>1, <1>2, <1>3, <1>4, <1>5, <1>6, <1>7, <1>8

LEMMA AddedLength == ASSUME NEW v \in 1 .. 7 PROVE Len(Added[v]) \in Nat \ {0}
<1>1. v = 1 \/ v = 2 \/ v = 3 \/ v = 4 \/ v = 5 \/ v = 6 \/ v = 7
  OBVIOUS
<1>2. Len(Added[v]) \in {1, 2, 3, 7, 8}
  BY <1>1, AddedLengths
<1> QED BY <1>2

\* A version adds no part twice.
LEMMA AddedDistinct ==
    ASSUME NEW v \in 1 .. 7, NEW i \in 1 .. Len(Added[v]), NEW j \in 1 .. Len(Added[v]), i # j
    PROVE  Added[v][i] # Added[v][j]
<1>1. CASE v = 2
  BY <1>1, SMTT(60) DEF Added
<1>2. CASE v = 4
  BY <1>2 DEF Added
<1>3. CASE v = 1
  BY <1>3 DEF Added
<1>4. CASE v = 5
  BY <1>4 DEF Added
<1>5. CASE v \in {3, 6, 7}
  <2>1. Len(Added[v]) = 1
    BY <1>5, AddedLengths
  <2> QED BY <2>1
<1> QED BY <1>1, <1>2, <1>3, <1>4, <1>5

LEMMA UpToNext ==
    ASSUME NEW v \in Nat
    PROVE  UpTo(v + 1) = UpTo(v) \cup AddedIn(v + 1)
<1>1. 1 .. v + 1 = (1 .. v) \cup {v + 1}
  OBVIOUS
<1> QED BY <1>1 DEF UpTo

LEMMA UpToComplete ==
    ASSUME NEW v \in 0 .. 7
    PROVE  UpTo(v) \subseteq Complete
<1>1. 1 .. v \subseteq 1 .. 7
  OBVIOUS
<1> QED BY <1>1 DEF UpTo, Complete

LEMMA AddedInComplete ==
    ASSUME NEW v \in 1 .. 7
    PROVE  AddedIn(v) \subseteq Complete
  BY DEF Complete, UpTo

LEMMA TableMigrationAdds ==
    ASSUME NEW v \in TableMigrations
    PROVE  v \in 2 .. 6
  BY DEF TableMigrations

\* _create_schema makes what the migrations add up to.
LEMMA CreatedIsComplete ==
    /\ Len(Created) = 4
    /\ \A j \in 1 .. 4 : Makes(Created[j]) \subseteq Complete /\ Created[j] \in Makes(Created[j])
    /\ Complete \subseteq UNION {Makes(Created[j]) : j \in 1 .. 4}
<1>1. /\ Len(Created) = 4
      /\ Created[1] = "sidecar_rounds" /\ Created[2] = "idx_sidecar_rounds_state"
      /\ Created[3] = "chain_cursor" /\ Created[4] = "foundation_publisher"
  BY DEF Created
<1>2. /\ AddedIn(1) = {"sidecar_rounds", "idx_sidecar_rounds_state"}
      /\ AddedIn(3) = {"chain_cursor"}
      /\ AddedIn(6) = {"foundation_publisher"}
  BY DEF AddedIn, Added
<1>3. /\ Makes("sidecar_rounds") = {"sidecar_rounds"} \cup AddedIn(2) \cup AddedIn(4)
                                  \cup AddedIn(5) \cup AddedIn(7)
      /\ Makes("idx_sidecar_rounds_state") = {"idx_sidecar_rounds_state"}
      /\ Makes("chain_cursor") = {"chain_cursor"}
      /\ Makes("foundation_publisher") = {"foundation_publisher"}
  BY DEF Makes
<1>4. Complete = AddedIn(1) \cup AddedIn(2) \cup AddedIn(3) \cup AddedIn(4) \cup AddedIn(5)
                 \cup AddedIn(6) \cup AddedIn(7)
  <2>1. 1 .. 7 = {1, 2, 3, 4, 5, 6, 7}
    OBVIOUS
  <2> QED BY <2>1 DEF Complete, UpTo
<1>5. 1 .. 4 = {1, 2, 3, 4}
  OBVIOUS
<1>6. UNION {Makes(Created[j]) : j \in 1 .. 4}
        = Makes(Created[1]) \cup Makes(Created[2]) \cup Makes(Created[3]) \cup Makes(Created[4])
  BY <1>5
<1>7. \A j \in 1 .. 4 : Makes(Created[j]) \subseteq Complete /\ Created[j] \in Makes(Created[j])
  BY <1>1, <1>2, <1>3, <1>4, <1>5
<1>8. Complete \subseteq UNION {Makes(Created[j]) : j \in 1 .. 4}
  BY <1>1, <1>2, <1>3, <1>4, <1>6
<1> QED BY <1>1, <1>7, <1>8

-----------------------------------------------------------------------------
(* The steps.                                                              *)

\* What the invariant says of one command.
ProgressOf(c) ==
    /\ c.pc = "create" => /\ version = 0
                          /\ c.next \in 1 .. Len(Created)
                          /\ \A j \in 1 .. c.next - 1 : Makes(Created[j]) \subseteq schema
    /\ c.pc \in {"look", "alter"} => c.at > 1 /\ UpTo(c.at - 1) \subseteq schema
    /\ c.pc = "alter" =>
          /\ c.at \notin TableMigrations
          /\ c.next \in 1 .. Len(Added[c.at])
          /\ c.seen \subseteq schema
          /\ \A j \in 1 .. Len(Added[c.at]) :
                IF j < c.next THEN Added[c.at][j] \in schema
                ELSE Added[c.at][j] \in schema => Added[c.at][j] \in c.seen
    /\ c.pc \in {"stamp", "open"} => schema = Complete

LEMMA ProgressIs == Progress <=> \A p \in Proc : ProgressOf(proc[p])
  BY DEF Progress, ProgressOf

LEMMA IdleType == Idle \in Commands /\ Idle.pc = "idle"
  BY DEF Idle, Commands, PCs

LEMMA AfterMigrationType ==
    ASSUME NEW v \in 1 .. 7
    PROVE  /\ AfterMigration(v) \in Commands
           /\ v < 7 => AfterMigration(v).pc = "look" /\ AfterMigration(v).at = v + 1
           /\ v = 7 => AfterMigration(v).pc = "stamp"
<1>1. CASE v = 7
  <2>1. AfterMigration(v) = [Idle EXCEPT !.pc = "stamp", !.at = 7]
    BY <1>1 DEF AfterMigration
  <2>2. AfterMigration(v) = [pc |-> "stamp", at |-> 7, next |-> 1, seen |-> {}]
    BY <2>1 DEF Idle
  <2> QED BY <1>1, <2>2 DEF Commands, PCs
<1>2. CASE v < 7
  <2>1. v + 1 \in 1 .. 7 /\ v # 7
    BY <1>2
  <2> QED BY <1>2, <2>1 DEF AfterMigration, Idle, Commands, PCs
<1> QED BY <1>1, <1>2

\* Reaching version v, a command may go on.
LEMMA AfterMigrationProgress ==
    ASSUME NEW v \in 1 .. 7, UpTo(v) \subseteq schema', schema' \subseteq Complete,
           NEW r, r = AfterMigration(v)
    PROVE  r \in Commands /\ ProgressOf(r)' /\ r.pc # "idle"
<1>1. CASE v < 7
  <2>1. r.pc = "look" /\ r.at = v + 1 /\ r \in Commands
    BY <1>1, AfterMigrationType
  <2>2. r.at > 1 /\ r.at - 1 = v
    BY <2>1
  <2> QED BY <2>1, <2>2 DEF ProgressOf
<1>2. CASE v = 7
  <2>1. r.pc = "stamp" /\ r \in Commands
    BY <1>2, AfterMigrationType
  <2>2. schema' = Complete
    BY <1>2 DEF Complete
  <2> QED BY <2>1, <2>2 DEF ProgressOf
<1> QED BY <1>1, <1>2

\* The facts every step of the lock's holder starts from.
LEMMA CommandType ==
    ASSUME IInv, NEW p \in Proc
    PROVE  /\ proc[p] \in Commands /\ proc \in [Proc -> Commands]
           /\ ProgressOf(proc[p])
           /\ version \in 0 .. 8 /\ schema \subseteq Complete /\ faults \in Nat
           /\ holder \in Proc \cup {Free}
           /\ VersionBacked
           /\ ~At(p, "idle") => holder = p
  BY ProgressIs DEF IInv, TypeOK, OnlyHolder

\* A step of the holder p, after which it is at r, keeps the invariant.
LEMMA HolderKeeps ==
    ASSUME IInv, NEW p \in Proc, holder \in {p, Free},
           NEW r \in Commands, proc' = [proc EXCEPT ![p] = r],
           version' \in 0 .. 8, schema' \subseteq Complete, faults' \in Nat,
           VersionBacked', ProgressOf(r)',
           (r.pc = "idle" /\ holder' \in {p, Free}) \/ holder' = p
    PROVE  IInv'
<1>0. /\ proc \in [Proc -> Commands]
      /\ \A q \in Proc : q # p => proc[q].pc = "idle" /\ proc'[q] = proc[q]
      /\ proc'[p] = r
  BY DEF IInv, TypeOK, OnlyHolder, At
<1>1. TypeOK'
  BY <1>0 DEF IInv, TypeOK
<1>2. OnlyHolder'
  BY <1>0 DEF OnlyHolder, At
<1>3. \A q \in Proc : ProgressOf(proc[q])'
  <2> SUFFICES ASSUME NEW q \in Proc PROVE ProgressOf(proc[q])'
    OBVIOUS
  <2>1. CASE q = p
    BY <1>0, <2>1
  <2>2. CASE q # p
    BY <1>0, <2>2 DEF ProgressOf
  <2> QED BY <2>1, <2>2
<1>4. Progress'
  BY <1>3 DEF Progress, ProgressOf
<1> QED BY <1>1, <1>2, <1>4 DEF IInv

\* A command that ends without a change to the store keeps it too.
LEMMA EndKeeps ==
    ASSUME IInv, NEW p \in Proc, ~At(p, "idle"), End(p), UNCHANGED <<version, schema>>,
           faults' \in Nat
    PROVE  IInv'
<1>0. PICK r : r = Idle
  OBVIOUS
<1>1. r \in Commands /\ r.pc = "idle" /\ ProgressOf(r)'
  BY <1>0, IdleType DEF ProgressOf
<1>2. holder = p /\ holder' = Free /\ proc' = [proc EXCEPT ![p] = r]
  BY <1>0, CommandType DEF End, Goto
<1>3. version' \in 0 .. 8 /\ schema' \subseteq Complete /\ VersionBacked'
  BY CommandType DEF VersionBacked
<1> QED BY <1>1, <1>2, <1>3, HolderKeeps

LEMMA OpenKeeps == ASSUME IInv, NEW p \in Proc, Open(p) PROVE IInv'
<1>0. PICK r : r = [Idle EXCEPT !.pc = "version"]
  OBVIOUS
<1>1. r \in Commands /\ r.pc = "version" /\ ProgressOf(r)'
  BY <1>0 DEF Idle, Commands, PCs, ProgressOf
<1>2. /\ holder = Free /\ holder' = p /\ proc' = [proc EXCEPT ![p] = r]
      /\ UNCHANGED <<version, schema, faults>>
  BY <1>0 DEF Open, LockFree, Goto
<1>3. version' \in 0 .. 8 /\ schema' \subseteq Complete /\ VersionBacked' /\ faults' \in Nat
  BY <1>2, CommandType DEF VersionBacked
<1> QED BY <1>1, <1>2, <1>3, HolderKeeps

\* A statement that adds parts, with the command going on as r.
LEMMA StatementKeeps ==
    ASSUME IInv, NEW p \in Proc, ~At(p, "idle"), NEW refused \in BOOLEAN,
           NEW parts \in SUBSET Complete, NEW r \in Commands, r.pc # "idle",
           Statement(p, refused, parts, r),
           version = 0 /\ "sidecar_rounds" \in schema \cup parts
              => Makes("sidecar_rounds") \subseteq schema \cup parts,
           (schema' = schema \cup parts /\ version' = version) => ProgressOf(r)'
    PROVE  IInv'
<1>0. /\ proc[p] \in Commands /\ version \in 0 .. 8 /\ schema \subseteq Complete
      /\ faults \in Nat /\ VersionBacked /\ holder = p
  BY CommandType
<1>1. CASE /\ schema' = schema \cup parts /\ Goto(p, r)
           /\ UNCHANGED <<version, holder, faults>>
  <2>1. VersionBacked'
    BY <1>0, <1>1 DEF VersionBacked
  <2> QED BY <1>0, <1>1, <2>1, HolderKeeps DEF Goto
<1>2. CASE End(p) /\ UNCHANGED <<version, schema>> /\ faults' \in Nat
  BY <1>2, EndKeeps
<1> QED BY <1>0, <1>1, <1>2 DEF Statement, Fault

LEMMA VersionKeeps == ASSUME IInv, NEW p \in Proc, Version(p) PROVE IInv'
<1>0. /\ ~At(p, "idle") /\ holder = p /\ UNCHANGED <<version, schema, faults>>
      /\ version \in 0 .. 8 /\ schema \subseteq Complete /\ faults \in Nat /\ VersionBacked
  BY CommandType DEF Version, At
<1>1. VersionBacked'
  BY <1>0 DEF VersionBacked
<1>2. ASSUME NEW r \in Commands, Goto(p, r), UNCHANGED holder, ProgressOf(r)'
      PROVE  IInv'
  BY <1>0, <1>1, <1>2, HolderKeeps DEF Goto
<1>3. CASE version > 7
  BY <1>0, <1>3, EndKeeps DEF Version
<1>4. CASE version = 7
  <2>1. PICK r : r = [Idle EXCEPT !.pc = "open"]
    OBVIOUS
  <2>2. r \in Commands /\ r.pc = "open"
    BY <2>1 DEF Idle, Commands, PCs
  <2>3. schema' = Complete
    BY <1>0, <1>4 DEF VersionBacked, Complete
  <2>4. ProgressOf(r)'
    BY <2>2, <2>3 DEF ProgressOf
  <2>5. Goto(p, r) /\ UNCHANGED holder
    BY <1>4, <2>1 DEF Version
  <2> QED BY <1>2, <2>2, <2>4, <2>5
<1>5. CASE version = 0
  <2>1. PICK r : r = [Idle EXCEPT !.pc = "create"]
    OBVIOUS
  <2>2. r \in Commands /\ r.pc = "create" /\ r.next = 1
    BY <2>1 DEF Idle, Commands, PCs
  <2>3. ProgressOf(r)'
    BY <1>0, <1>5, <2>2, CreatedIsComplete DEF ProgressOf
  <2> QED BY <1>2, <1>5, <2>1, <2>2, <2>3 DEF Version
<1>6. CASE version \in 1 .. 6
  <2>1. PICK r : r = AfterMigration(version)
    OBVIOUS
  <2>2. UpTo(version) \subseteq schema'
    BY <1>0, <1>6 DEF VersionBacked
  <2>3. r \in Commands /\ ProgressOf(r)'
    BY <1>0, <1>6, <2>1, <2>2, AfterMigrationProgress
  <2> QED BY <1>2, <1>6, <2>1, <2>3 DEF Version
<1> QED BY <1>0, <1>3, <1>4, <1>5, <1>6

LEMMA CreateKeeps == ASSUME IInv, NEW p \in Proc, Create(p) PROVE IInv'
<1> DEFINE i == proc[p].next
           t == Created[i]
<1>0. /\ ~At(p, "idle") /\ proc[p] \in Commands /\ ProgressOf(proc[p]) /\ VersionBacked
      /\ proc[p].pc = "create" /\ version = 0 /\ i \in 1 .. 4
      /\ schema \subseteq Complete
  BY CommandType, CreatedIsComplete DEF Create, At, ProgressOf
<1>1. PICK parts : parts = IF t \in schema THEN {} ELSE Makes(t)
  OBVIOUS
<1>2. parts \in SUBSET Complete
  BY <1>0, <1>1, CreatedIsComplete
\* A table that exists has all its columns.
<1>3. Makes(t) \subseteq schema \cup parts
  <2>1. CASE t = "sidecar_rounds"
    BY <1>0, <1>1, <2>1 DEF VersionBacked
  <2>2. CASE t # "sidecar_rounds"
    BY <1>1, <2>2 DEF Makes
  <2> QED BY <2>1, <2>2
<1>4. "sidecar_rounds" \in schema \cup parts => Makes("sidecar_rounds") \subseteq schema \cup parts
  <2>1. CASE t = "sidecar_rounds"
    BY <1>3, <2>1
  <2>2. CASE t # "sidecar_rounds"
    BY <1>0, <1>1, <2>2 DEF VersionBacked, Makes
  <2> QED BY <2>1, <2>2
<1>5. \A j \in 1 .. i - 1 : Makes(Created[j]) \subseteq schema
  BY <1>0 DEF ProgressOf
<1>6. CASE i < 4
  <2>1. PICK r : r = [proc[p] EXCEPT !.next = i + 1]
    OBVIOUS
  <2>2. r \in Commands /\ r.pc = "create" /\ r.next = i + 1
    BY <1>0, <2>1 DEF Commands
  <2>3. Statement(p, FALSE, parts, r)
    BY <1>1, <1>6, <2>1, CreatedIsComplete DEF Create
  <2>4. ASSUME schema' = schema \cup parts, version' = version PROVE ProgressOf(r)'
    <3>1. \A j \in 1 .. i : Makes(Created[j]) \subseteq schema'
      <4> SUFFICES ASSUME NEW j \in 1 .. i PROVE Makes(Created[j]) \subseteq schema'
        OBVIOUS
      <4>1. j = i \/ j \in 1 .. i - 1
        BY <1>0
      <4> QED BY <1>3, <1>5, <2>4, <4>1
    <3>2. 1 .. r.next - 1 = 1 .. i /\ r.next \in 1 .. Len(Created)
      BY <1>0, <1>6, <2>2, CreatedIsComplete
    <3> QED BY <1>0, <2>2, <2>4, <3>1, <3>2 DEF ProgressOf
  <2> QED BY <1>0, <1>2, <1>4, <2>2, <2>3, <2>4, StatementKeeps
<1>7. CASE i = 4
  <2>1. PICK r : r = [Idle EXCEPT !.pc = "stamp"]
    OBVIOUS
  <2>2. r \in Commands /\ r.pc = "stamp"
    BY <2>1 DEF Idle, Commands, PCs
  <2>3. Statement(p, FALSE, parts, r)
    <3>1. ~(i < Len(Created))
      BY <1>7, CreatedIsComplete
    <3> QED BY <1>1, <2>1, <3>1 DEF Create
  <2>4. ASSUME schema' = schema \cup parts, version' = version PROVE ProgressOf(r)'
    <3>1. \A j \in 1 .. 4 : Makes(Created[j]) \subseteq schema \cup parts
      <4> SUFFICES ASSUME NEW j \in 1 .. 4 PROVE Makes(Created[j]) \subseteq schema \cup parts
        OBVIOUS
      <4>1. j = i \/ j \in 1 .. i - 1
        BY <1>7
      <4> QED BY <1>3, <1>5, <4>1
    <3>2. schema' = Complete
      BY <1>0, <1>2, <2>4, <3>1, CreatedIsComplete
    <3> QED BY <2>2, <3>2 DEF ProgressOf
  <2> QED BY <1>0, <1>2, <1>4, <2>2, <2>3, <2>4, StatementKeeps
<1> QED BY <1>0, <1>6, <1>7

\* Whoever migrates has the rounds table.
LEMMA FirstPart ==
    ASSUME NEW v \in 2 .. 7, UpTo(v - 1) \subseteq schema
    PROVE  "sidecar_rounds" \in schema
<1>1. "sidecar_rounds" \in AddedIn(1)
  <2>1. Added[1] = <<"sidecar_rounds", "idx_sidecar_rounds_state">>
    BY DEF Added
  <2> QED BY <2>1 DEF AddedIn
<1>2. 1 \in 1 .. v - 1
  OBVIOUS
<1> QED BY <1>1, <1>2 DEF UpTo

LEMMA LookKeeps == ASSUME IInv, NEW p \in Proc, Look(p) PROVE IInv'
<1> DEFINE v == proc[p].at
<1>0. /\ ~At(p, "idle") /\ proc[p] \in Commands /\ ProgressOf(proc[p]) /\ VersionBacked
      /\ proc[p].pc = "look" /\ v \in 2 .. 7 /\ UpTo(v - 1) \subseteq schema
      /\ schema \subseteq Complete /\ holder = p /\ version \in 0 .. 8 /\ faults \in Nat
  BY CommandType DEF Look, At, ProgressOf, Commands
<1>1. UpTo(v) = UpTo(v - 1) \cup AddedIn(v) /\ AddedIn(v) \subseteq Complete
  <2>1. v - 1 \in Nat /\ (v - 1) + 1 = v /\ v \in 1 .. 7
    BY <1>0
  <2>2. UpTo((v - 1) + 1) = UpTo(v - 1) \cup AddedIn((v - 1) + 1)
    BY <2>1, UpToNext
  <2> QED BY <2>1, <2>2, AddedInComplete
<1>2. CASE v \in TableMigrations
  <2>1. PICK r : r = AfterMigration(v)
    OBVIOUS
  <2>2. Statement(p, FALSE, AddedIn(v), r)
    BY <1>2, <2>1 DEF Look
  <2>3. v \in 1 .. 7 /\ r \in Commands /\ r.pc # "idle"
    BY <1>0, <1>2, <2>1, AfterMigrationType, TableMigrationAdds
  <2>4. ASSUME schema' = schema \cup AddedIn(v), version' = version PROVE ProgressOf(r)'
    <3>1. UpTo(v) \subseteq schema' /\ schema' \subseteq Complete
      BY <1>0, <1>1, <2>4
    <3> QED BY <2>1, <2>3, <3>1, AfterMigrationProgress
  <2>5. "sidecar_rounds" \in schema
    BY <1>0, FirstPart
  <2>6. version = 0 => Makes("sidecar_rounds") \subseteq schema \cup AddedIn(v)
    BY <1>0, <2>5 DEF VersionBacked
  <2> HIDE DEF v
  <2> QED BY <1>0, <1>1, <2>2, <2>3, <2>4, <2>6, StatementKeeps
<1>3. CASE v \notin TableMigrations
  <2>1. PICK r : r = [proc[p] EXCEPT !.pc = "alter", !.next = 1, !.seen = schema]
    OBVIOUS
  <2>2. /\ r \in Commands /\ r.pc = "alter" /\ r.next = 1 /\ r.seen = schema /\ r.at = v
    BY <1>0, <2>1 DEF Commands, PCs
  <2>3. /\ proc' = [proc EXCEPT ![p] = r]
        /\ UNCHANGED <<version, schema, holder, faults>>
    BY <1>3, <2>1 DEF Look, ReadColumns, Goto
  <2>4. Len(Added[v]) \in Nat \ {0}
    <3>1. v \in 1 .. 7
      BY <1>0
    <3> QED BY <3>1, AddedLength
  <2>5. ProgressOf(r)'
    BY <1>0, <1>3, <2>2, <2>3, <2>4 DEF ProgressOf
  <2>6. VersionBacked'
    BY <1>0, <2>3 DEF VersionBacked
  <2> QED BY <1>0, <2>2, <2>3, <2>5, <2>6, HolderKeeps
<1> QED BY <1>2, <1>3

LEMMA AlterKeeps == ASSUME IInv, NEW p \in Proc, Alter(p) PROVE IInv'
<1> DEFINE v == proc[p].at
           i == proc[p].next
           c == Added[v][i]
<1>0. /\ ~At(p, "idle") /\ proc[p] \in Commands /\ ProgressOf(proc[p]) /\ VersionBacked
      /\ proc[p].pc = "alter" /\ v \in 2 .. 7 /\ UpTo(v - 1) \subseteq schema
      /\ i \in 1 .. Len(Added[v]) /\ v \notin TableMigrations
      /\ proc[p].seen \subseteq schema
      /\ \A j \in 1 .. Len(Added[v]) :
            IF j < i THEN Added[v][j] \in schema
            ELSE Added[v][j] \in schema => Added[v][j] \in proc[p].seen
      /\ schema \subseteq Complete /\ holder = p /\ version \in 0 .. 8 /\ faults \in Nat
  BY CommandType DEF Alter, At, ProgressOf, Commands
<1>1. Len(Added[v]) \in Nat \ {0} /\ c \in AddedIn(v) /\ AddedIn(v) \subseteq Complete
  <2>1. v \in 1 .. 7
    BY <1>0
  <2>2. Len(Added[v]) \in Nat \ {0} /\ AddedIn(v) \subseteq Complete
    BY <2>1, AddedLength, AddedInComplete
  <2> QED BY <1>0, <2>2 DEF AddedIn
<1>2. UpTo(v) = UpTo(v - 1) \cup AddedIn(v)
  <2>1. v - 1 \in Nat /\ (v - 1) + 1 = v
    BY <1>0
  <2>2. UpTo((v - 1) + 1) = UpTo(v - 1) \cup AddedIn((v - 1) + 1)
    BY <2>1, UpToNext
  <2> QED BY <2>1, <2>2
<1>3. PICK on : on = IF i < Len(Added[v]) THEN [proc[p] EXCEPT !.next = i + 1]
                                          ELSE AfterMigration(v)
  OBVIOUS
<1>4. on \in Commands /\ on.pc # "idle"
  <2>1. CASE i < Len(Added[v])
    BY <1>0, <1>3, <2>1 DEF Commands
  <2>2. CASE ~(i < Len(Added[v]))
    <3>1. v \in 1 .. 7 /\ on = AfterMigration(v)
      BY <1>0, <1>3, <2>2
    <3> QED BY <3>1, AfterMigrationType
  <2> QED BY <2>1, <2>2
\* With the part there and the others untouched, the command may go on.
<1>5. ASSUME schema' = schema \cup {c}, version' = version PROVE ProgressOf(on)'
  <2>1. CASE i < Len(Added[v])
    <3>1. /\ on.pc = "alter" /\ on.at = v /\ on.next = i + 1 /\ on.seen = proc[p].seen
      BY <1>0, <1>3, <2>1 DEF Commands
    <3>2. ASSUME NEW j \in 1 .. Len(Added[v])
          PROVE  IF j < i + 1 THEN Added[v][j] \in schema'
                 ELSE Added[v][j] \in schema' => Added[v][j] \in proc[p].seen
      <4>1. CASE j = i
        BY <1>0, <1>5, <4>1
      <4>2. CASE j # i
        <5>1. Added[v][j] # c
          <6>1. v \in 1 .. 7
            BY <1>0
          <6> QED BY <1>0, <4>2, <6>1, AddedDistinct
        <5>2. (j < i + 1) <=> (j < i)
          BY <1>0, <4>2
        <5> QED BY <1>0, <1>5, <5>1, <5>2
      <4> QED BY <4>1, <4>2
    <3>3. /\ UpTo(on.at - 1) \subseteq schema' /\ on.seen \subseteq schema' /\ on.at > 1
          /\ on.next \in 1 .. Len(Added[on.at]) /\ on.at \notin TableMigrations
      BY <1>0, <1>1, <1>5, <2>1, <3>1
    <3> HIDE DEF v, i, c
    <3> QED BY <3>1, <3>2, <3>3 DEF ProgressOf
  <2>2. CASE ~(i < Len(Added[v]))
    <3>1. AddedIn(v) \subseteq schema'
      BY <1>0, <1>5, <2>2 DEF AddedIn
    <3>2. /\ UpTo(v) \subseteq schema' /\ schema' \subseteq Complete /\ v \in 1 .. 7
          /\ on = AfterMigration(v)
      BY <1>0, <1>1, <1>2, <1>3, <1>5, <2>2, <3>1
    <3> QED BY <3>2, AfterMigrationProgress
  <2> QED BY <2>1, <2>2
<1>6. CASE c \in proc[p].seen
  <2>1. /\ Goto(p, on) /\ UNCHANGED <<version, schema, holder, faults>>
    BY <1>3, <1>6 DEF Alter
  <2>2. ProgressOf(on)'
    BY <1>0, <1>5, <1>6, <2>1
  <2>3. VersionBacked'
    BY <1>0, <2>1 DEF VersionBacked
  <2> QED BY <1>0, <1>4, <2>1, <2>2, <2>3, HolderKeeps DEF Goto
<1>7. CASE c \notin proc[p].seen
  <2>1. Statement(p, c \in schema, {c}, on)
    BY <1>3, <1>7 DEF Alter
  <2>2. "sidecar_rounds" \in schema
    BY <1>0, FirstPart
  <2>3. version = 0 => Makes("sidecar_rounds") \subseteq schema \cup {c}
    BY <1>0, <2>2 DEF VersionBacked
  <2>4. {c} \in SUBSET Complete
    BY <1>1
  <2>5. CASE c \in schema
    <3>1. Statement(p, TRUE, {c}, on)
      BY <2>1, <2>5 DEF Statement
    <3> HIDE DEF c
    <3> QED BY <1>0, <1>4, <1>5, <2>3, <2>4, <3>1, StatementKeeps
  <2>6. CASE c \notin schema
    <3>1. Statement(p, FALSE, {c}, on)
      BY <2>1, <2>6 DEF Statement
    <3> HIDE DEF c
    <3> QED BY <1>0, <1>4, <1>5, <2>3, <2>4, <3>1, StatementKeeps
  <2> QED BY <2>5, <2>6
<1> QED BY <1>6, <1>7

LEMMA StampKeeps == ASSUME IInv, NEW p \in Proc, Stamp(p) PROVE IInv'
<1>0. /\ ~At(p, "idle") /\ schema = Complete /\ holder = p /\ faults \in Nat
  BY CommandType DEF Stamp, At, ProgressOf
<1>1. CASE version' = 7 /\ Goto(p, [Idle EXCEPT !.pc = "open"]) /\ UNCHANGED <<schema, holder, faults>>
  <2>1. PICK r : r = [Idle EXCEPT !.pc = "open"]
    OBVIOUS
  <2>2. r \in Commands /\ r.pc = "open"
    BY <2>1 DEF Idle, Commands, PCs
  <2>3. VersionBacked' /\ ProgressOf(r)'
    BY <1>0, <1>1, <2>2 DEF VersionBacked, ProgressOf, Complete
  <2>4. version' \in 0 .. 8 /\ schema' \subseteq Complete
    BY <1>0, <1>1
  <2> QED BY <1>0, <1>1, <2>1, <2>2, <2>3, <2>4, HolderKeeps DEF Goto
<1>2. CASE Fault /\ End(p) /\ UNCHANGED <<version, schema>>
  BY <1>0, <1>2, EndKeeps DEF Fault
<1> QED BY <1>1, <1>2 DEF Stamp

LEMMA Inductive == IInv /\ [Next]_vars => IInv'
<1> SUFFICES ASSUME IInv, [Next]_vars PROVE IInv'
  OBVIOUS
<1>1. CASE UNCHANGED vars
  BY <1>1 DEF vars, IInv, TypeOK, VersionBacked, OnlyHolder, Progress, At
<1>2. ASSUME NEW p \in Proc, Kill(p) \/ Close(p) PROVE IInv'
  <2>1. ~At(p, "idle") /\ End(p) /\ UNCHANGED <<version, schema>> /\ faults' \in Nat
    BY <1>2, CommandType DEF Kill, Close, Fault, At
  <2> QED BY <2>1, EndKeeps
<1> QED BY <1>1, <1>2, OpenKeeps, VersionKeeps, CreateKeeps, LookKeeps, AlterKeeps, StampKeeps
        DEF Next, Step

LEMMA Initially == Init => IInv
<1> SUFFICES ASSUME Init PROVE IInv
  OBVIOUS
<1>1. PICK v \in 0 .. 8 : version = v /\ schema = UpTo(IF v > 7 THEN 7 ELSE v)
  BY DEF Init
<1>2. schema \subseteq Complete
  BY <1>1, UpToComplete
<1>3. TypeOK /\ OnlyHolder /\ Progress
  BY <1>1, <1>2, IdleType DEF Init, TypeOK, OnlyHolder, Progress, At
<1>4. version = 0 => schema = {}
  BY <1>1 DEF UpTo
<1> QED BY <1>1, <1>3, <1>4 DEF IInv, VersionBacked

\* The inductive invariant holds of every run.
THEOREM Invariance == Spec => []IInv
  BY Initially, Inductive, PTL DEF Spec

\* Every variable keeps its type.
THEOREM TypeCorrect == Spec => []TypeOK
<1>1. IInv => TypeOK
  BY DEF IInv
<1> QED BY <1>1, Invariance, PTL

\* A command that has the store open finds the whole current schema, after
\* any kills and failed statements of earlier openings.
THEOREM OpensComplete == Spec => []OpenedIsComplete
<1>1. IInv => OpenedIsComplete
  BY DEF IInv, Progress, OpenedIsComplete, At
<1> QED BY <1>1, Invariance, PTL

\* No ALTER TABLE is refused, for any number of commands.
THEOREM AltersOnce == Spec => []NoColumnTwice
<1>1. IInv => NoColumnTwice
  <2> SUFFICES ASSUME IInv, NEW p \in Proc, At(p, "alter")
               PROVE  LET c == Added[proc[p].at][proc[p].next]
                      IN c \in proc[p].seen \/ c \notin schema
    BY DEF NoColumnTwice
  <2>1. /\ proc[p].next \in 1 .. Len(Added[proc[p].at])
        /\ \A j \in 1 .. Len(Added[proc[p].at]) :
              IF j < proc[p].next THEN Added[proc[p].at][j] \in schema
              ELSE Added[proc[p].at][j] \in schema => Added[proc[p].at][j] \in proc[p].seen
    BY DEF IInv, Progress, At
  <2>2. proc[p].next \in Nat
    BY CommandType DEF Commands
  <2> QED BY <2>1, <2>2
<1> QED BY <1>1, Invariance, PTL
====
