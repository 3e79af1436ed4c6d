-------------------------- MODULE SchemaMigration --------------------------
(* The metadata schema when processes start (metadata.py:40-266): each      *)
(* brings the database from whatever release wrote it to its own, under     *)
(* SQLite's exclusive lock, and then learns the installation's identity.    *)
(* Processes of two releases start, fail and die in any order.              *)
(*                                                                          *)
(* A database is a version number, the objects that statements have added,  *)
(* the records of derived indexes, and the identity, named by the process   *)
(* that made it.  The rows of older releases stay as they are.              *)
EXTENDS Naturals, Sequences, FiniteSets, SequencesExt

CONSTANTS
    Starters,   \* processes, numbers from 1
    Supported,  \* Supported[p]: CURRENT_SCHEMA_VERSION of the release of p
    Legacy      \* sets of versions ready before: [source, active, deleted, whole]

VARIABLES
    database,  \* what is committed
    rows,      \* the versions that were ready before
    working,   \* what the open transaction sees
    lock,      \* the process with the exclusive lock, 0 if none has it
    starting   \* starting[p]: [pc, at, known]

schemaVars == <<database, rows, working, lock, starting>>

(* What the statements of each migration add.                               *)
Scripts ==
    << <<"installation_state", "documents", "versions", "chunks", "jobs", "writer_lock">>,
       <<"source_size">>,
       <<"payload_json", "engine_indexes", "engine_index_heads">>,
       <<"graphmind_lexical">> >>

Schema(n) == UNION {ToSet(Scripts[k]) : k \in 1 .. n}
Empty == [version |-> 0, objects |-> {}, identity |-> 0, indexes |-> {}, heads |-> {}]

(* Identities of installations: none, one of an older release, or of the     *)
(* process that made it.                                                    *)
Identities == Starters \cup {0, 1}

TypeOK ==
    /\ \A db \in {database, working} :
          /\ db.version \in 0 .. Len(Scripts) /\ db.objects \subseteq Schema(Len(Scripts))
          /\ db.identity \in Identities
    /\ lock \in Starters \cup {0}
    /\ \A p \in Starters : starting[p].known \in Identities

(* The index record of a version that was ready, by whether its source is   *)
(* deleted and its chunks match its manifest.                               *)
LegacyStatus(row) == IF row.deleted THEN "invalidated" ELSE IF row.whole THEN "ready" ELSE "failed"

(* A slip a maintainer could make: every version of a source gets the head. *)
HeadedAll(row) == LegacyStatus(row) = "ready"

Headed(row) == LegacyStatus(row) = "ready" /\ row.active

(* Records of the indexes that older releases built but did not record;     *)
(* their names need the identity.                                           *)
Backfilled(db, p) ==
    [db EXCEPT !.indexes = {<<row, LegacyStatus(row)>> : row \in rows},
               !.heads = {row \in rows : Headed(row)},
               !.identity = IF rows # {} /\ @ = 0 THEN p ELSE @]

Left(n) ==
    LET db == [Empty EXCEPT !.version = n, !.objects = Schema(n), !.identity = IF rows = {} THEN 0 ELSE 1]
    IN IF n < 3 THEN db ELSE Backfilled(db, 1)

Init ==
    /\ rows \in Legacy
    /\ \E n \in (IF rows = {} THEN 0 ELSE 1) .. Len(Scripts) : database = Left(n)
    /\ working = Empty /\ lock = 0
    /\ starting = [p \in Starters |-> [pc |-> "stopped", at |-> 1, known |-> 0]]

Goto(p, pc) == starting' = [starting EXCEPT ![p].pc = pc]

-----------------------------------------------------------------------------
(* Who does not get the lock in time gives up; a newer schema is left alone.*)
Begin(p) ==
    /\ starting[p].pc = "stopped"
    /\ IF lock # 0 \/ database.version > Supported[p]
       THEN Goto(p, "refused") /\ UNCHANGED <<working, lock>>
       ELSE /\ starting' = [starting EXCEPT ![p].pc = "migrating", ![p].at = 1]
            /\ working' = database /\ lock' = p
    /\ UNCHANGED <<database, rows>>

(* An error rolls everything back.                                          *)
Rollback(p) ==
    /\ lock' = 0 /\ working' = Empty /\ Goto(p, "refused")
    /\ UNCHANGED <<database, rows>>

Script(p) == Scripts[working.version + 1]
Migrating(p) == starting[p].pc = "migrating" /\ working.version < Supported[p]

(* A slip: sqlite3's executescript would commit what is open.               *)
KeptAtOnce(db) == db

(* A statement is only kept when all is committed.                          *)
Kept(db) == database

(* Only the first migration tolerates what is there already.                *)
Statement(p) ==
    /\ Migrating(p) /\ starting[p].at <= Len(Script(p))
    /\ LET object == Script(p)[starting[p].at] IN
       IF object \in working.objects /\ working.version > 0 THEN Rollback(p)
       ELSE /\ working' = [working EXCEPT !.objects = @ \cup {object}]
            /\ database' = Kept(working')
            /\ starting' = [starting EXCEPT ![p].at = @ + 1]
            /\ UNCHANGED <<rows, lock>>

Mark(p) ==
    /\ Migrating(p) /\ starting[p].at > Len(Script(p))
    /\ LET filled == IF working.version = 2 THEN Backfilled(working, p) ELSE working
       IN working' = [filled EXCEPT !.version = @ + 1]
    /\ starting' = [starting EXCEPT ![p].at = 1]
    /\ UNCHANGED <<database, rows, lock>>

Commit(p) ==
    /\ starting[p].pc = "migrating" /\ working.version = Supported[p]
    /\ database' = working /\ lock' = 0 /\ working' = Empty /\ Goto(p, "identify")
    /\ UNCHANGED rows

Break(p) == starting[p].pc = "migrating" /\ Rollback(p)

(* The identity is made once, in a transaction that reads it first.         *)
Identify(p) ==
    /\ starting[p].pc = "identify"
    /\ \/ /\ lock = 0
          /\ database' = [database EXCEPT !.identity = IF @ = 0 THEN p ELSE @]
          /\ starting' = [starting EXCEPT ![p].pc = "running", ![p].known = database'.identity]
       \/ Goto(p, "refused") /\ UNCHANGED database
    /\ UNCHANGED <<rows, working, lock>>

(* A process ends or dies; what it had not committed is rolled back by the  *)
(* next that opens the database.                                            *)
End(p) ==
    /\ starting[p].pc # "stopped"
    /\ starting' = [starting EXCEPT ![p] = [pc |-> "stopped", at |-> 1, known |-> 0]]
    /\ IF lock = p THEN lock' = 0 /\ working' = Empty ELSE UNCHANGED <<lock, working>>
    /\ UNCHANGED <<database, rows>>

Next == \E p \in Starters :
    Begin(p) \/ Statement(p) \/ Mark(p) \/ Commit(p) \/ Break(p) \/ Identify(p) \/ End(p)

Spec == Init /\ [][Next]_schemaVars

-----------------------------------------------------------------------------
(* Whoever dies at whatever statement, the database has exactly the objects *)
(* of the version it names (metadata.py:167-170, 211-238).                  *)
SchemaIsWhole == database.objects = Schema(database.version)

(* The sources that older releases served, and whose chunks match, are      *)
(* served after the migration, once each and no other                       *)
(* (rag/components/indexes.py:239-263).                                     *)
ServedSurvives ==
    database.version >= 3 =>
        database.heads = {row \in rows : row.active /\ ~row.deleted /\ row.whole}

(* All that run belong to one installation (metadata.py:250-266).           *)
OneInstallation ==
    \A p \in Starters : starting[p].pc = "running" => starting[p].known = database.identity

MigrationIsWhole == SchemaIsWhole /\ ServedSurvives /\ OneInstallation
=============================================================================
