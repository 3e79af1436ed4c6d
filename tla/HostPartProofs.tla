--------------------------- MODULE HostPartProofs ---------------------------
(***************************************************************************)
(* Theorems about the parts of a host that work by themselves: readiness,  *)
(* schema migration, native installation, the host's models and what an    *)
(* answer may cite, the tree by which a page is found, the stores and what *)
(* is found in them; for any number of processes, operators, callers,      *)
(* parts, pages, versions and passages.  The lemmas about folds and the    *)
(* least of some numbers are used in DocumentProofs too.                   *)
(***************************************************************************)
EXTENDS HostServices, SequenceTheorems, FiniteSetTheorems, WellFoundedInduction, TLAPS

-----------------------------------------------------------------------------
(* Readiness: whether a probe runs is whether a thread is inside one.      *)

Places == 1 .. Len(Engines) + Len(Needed) + 1

Nowhere == [n \in Places |-> 0]
OneAt(n) == [m \in Places |-> IF m = n THEN 1 ELSE 0]

CallerState == [pc : {"idle", "waiting", "ready", "unavailable"},
                told : {"nothing", "green", "red"}, fresh : BOOLEAN]

ThreadsFollowTheTask ==
    /\ task \in {"none", "running", "done"}
    /\ task = "running" => green = "nothing" /\ \E n \in Places : threads = OneAt(n)
    /\ task # "running" => threads = Nowhere

\* What a caller was told, it was told by a probe that ended while it waited.
ToldIsFresh ==
    /\ caller \in [Callers -> CallerState]
    /\ \A c \in Callers : caller[c].told # "nothing" \/ caller[c].pc = "ready" => caller[c].fresh

\* A probe that runs has seen up what it found, and all that is up now.
FoundWasSeen ==
    /\ task = "running" => up \cup answers \subseteq seen /\ (asked = "up" => Identity \in seen)
    /\ Probe!GreenWasSeen

ProbeInv == ThreadsFollowTheTask /\ ToldIsFresh /\ FoundWasSeen

LEMMA ProbePlaces ==
    /\ Len(Engines) \in Nat /\ Len(Needed) \in Nat
    /\ Len(Probe!Looks) = Len(Engines) + Len(Needed) /\ Probe!Positions = Places
    /\ 1 \in Places /\ Len(Probe!Looks) + 1 \in Places
    /\ \A n \in Places : n <= Len(Probe!Looks) => Probe!After(n) \in Places
<1>1. Len(Engines) \in Nat /\ Len(Needed) \in Nat
      /\ Len(Probe!Looks) = Len(Engines) + Len(Needed)
  BY HostServicesAssumption DEF Probe!Looks
<1>2. Probe!Positions = Places
  BY <1>1 DEF Probe!Positions, Places
<1>3. \A n \in Places : n <= Len(Probe!Looks) => Probe!After(n) \in Places
  BY <1>1 DEF Probe!After, Places
<1>. QED  BY <1>1, <1>2, <1>3 DEF Places

LEMMA ThreadMoves ==
    ASSUME NEW n \in Places
    PROVE  /\ [Nowhere EXCEPT ![n] = @ + 1] = OneAt(n)
           /\ [OneAt(n) EXCEPT ![n] = @ - 1] = Nowhere
           /\ \A m \in Places \ {n} : [OneAt(n) EXCEPT ![n] = @ - 1, ![m] = @ + 1] = OneAt(m)
           /\ OneAt(n)[n] = 1 /\ \A m \in Places : OneAt(n)[m] > 0 => m = n
           /\ \A m \in Places : ~Nowhere[m] > 0
<1>1. Nowhere \in [Places -> Nat] /\ OneAt(n) \in [Places -> Nat]
  BY DEF Nowhere, OneAt
<1>2. [Nowhere EXCEPT ![n] = @ + 1] = OneAt(n)
  BY DEF Nowhere, OneAt
<1>3. OneAt(n)[n] = 1 /\ OneAt(n)[n] - 1 = 0
  BY DEF OneAt
<1>4. [OneAt(n) EXCEPT ![n] = @ - 1] = Nowhere
  <2>1. [OneAt(n) EXCEPT ![n] = 0] = Nowhere
    BY DEF Nowhere, OneAt
  <2>. QED  BY <1>3, <2>1
<1>5. ASSUME NEW m \in Places \ {n}
      PROVE  [OneAt(n) EXCEPT ![n] = @ - 1, ![m] = @ + 1] = OneAt(m)
  <2>1. [OneAt(n) EXCEPT ![n] = @ - 1, ![m] = @ + 1] = [Nowhere EXCEPT ![m] = OneAt(n)[m] + 1]
    BY <1>4
  <2>2. OneAt(n)[m] = Nowhere[m]
    BY DEF Nowhere, OneAt
  <2>3. [Nowhere EXCEPT ![m] = Nowhere[m] + 1] = OneAt(m)
    BY DEF Nowhere, OneAt
  <2>. QED  BY <2>1, <2>2, <2>3
<1>6. \A m \in Places : OneAt(n)[m] > 0 => m = n
  BY DEF OneAt
<1>7. \A m \in Places : ~Nowhere[m] > 0
  BY DEF Nowhere
<1>. QED  BY <1>2, <1>3, <1>4, <1>5, <1>6, <1>7

LEMMA ProbeInit == Probe!Init => ProbeInv
BY ProbePlaces DEF Probe!Init, ProbeInv, ThreadsFollowTheTask, ToldIsFresh, Nowhere, CallerState,
   FoundWasSeen, Probe!GreenWasSeen

LEMMA SeenStep == ProbeInv /\ [Probe!Next]_Probe!probeVars => FoundWasSeen'
<1>. SUFFICES ASSUME ProbeInv, [Probe!Next]_Probe!probeVars PROVE FoundWasSeen'
  OBVIOUS
<1>. USE DEF ProbeInv, FoundWasSeen, Probe!GreenWasSeen
<1>0. Probe!Members(Needed)' = Probe!Members(Needed) /\ Probe!Members(Engines)' = Probe!Members(Engines)
  BY DEF Probe!Members
<1>1. ASSUME NEW p \in Probe!Monitored, Probe!Toggle(p) PROVE FoundWasSeen'
  <2>1. /\ UNCHANGED <<task, green, answers, asked>>
        /\ seen' = IF task = "running" THEN seen \cup up' ELSE seen
    BY <1>1 DEF Probe!Toggle
  <2>. QED  BY <1>0, <2>1
<1>2. ASSUME NEW c \in Callers, Probe!Ask(c) PROVE FoundWasSeen'
  <2>1. CASE task = "running"
    <3>1. UNCHANGED <<up, task, green, answers, asked, seen>>
      BY <1>2, <2>1 DEF Probe!Ask, Probe!Joins
    <3>. QED  BY <1>0, <3>1
  <2>2. CASE task # "running"
    <3>1. up' = up /\ green' = "nothing" /\ answers' = {} /\ asked' = "asked" /\ seen' = up
      BY <1>2, <2>2 DEF Probe!Ask, Probe!Joins, Probe!Probe
    <3>. QED  BY <3>1
  <2>. QED  BY <2>1, <2>2
<1>3. ASSUME NEW n \in Probe!Positions, Probe!Look(n) PROVE FoundWasSeen'
  <2>1. UNCHANGED <<up, task, green, asked, seen>>
    BY <1>3 DEF Probe!Look
  <2>2. task = "running" => answers' \subseteq answers \cup up
    BY <1>3 DEF Probe!Look
  <2>. QED  BY <1>0, <2>1, <2>2
<1>4. CASE Probe!IdentityAnswers
  <2>1. /\ UNCHANGED <<up, task, green, answers, seen>> /\ task = "running"
        /\ asked' = "up" => Identity \in up
    BY <1>4 DEF Probe!IdentityAnswers
  <2>. QED  BY <1>0, <2>1
<1>5. CASE Probe!Done
  <2>1. UNCHANGED <<up, answers, asked, seen>>
    BY <1>5 DEF Probe!Done
  <2>2. CASE task = "running"
    <3>1. task' = "done" /\ (green' = "green" => asked = "up" /\ Probe!Available)
      BY <1>5, <2>2 DEF Probe!Done
    <3>. QED  BY <1>0, <2>1, <2>2, <3>1 DEF Probe!Available
  <2>3. CASE task # "running"
    <3>1. UNCHANGED <<task, green>>
      BY <1>5, <2>3 DEF Probe!Done
    <3>. QED  BY <1>0, <2>1, <3>1
  <2>. QED  BY <2>2, <2>3
<1>6. ASSUME NEW c \in Callers, Probe!Answer(c) \/ Probe!GiveUp(c) PROVE FoundWasSeen'
  <2>1. UNCHANGED <<up, task, green, answers, asked, seen>>
    BY <1>6 DEF Probe!Answer, Probe!GiveUp, Probe!Abandoned
  <2>. QED  BY <1>0, <2>1
<1>7. CASE UNCHANGED Probe!probeVars
  <2>1. UNCHANGED <<up, task, green, answers, asked, seen>>
    BY <1>7 DEF Probe!probeVars
  <2>. QED  BY <1>0, <2>1
<1>. QED  BY <1>1, <1>2, <1>3, <1>4, <1>5, <1>6, <1>7 DEF Probe!Next

LEMMA ProbeStep == ProbeInv /\ [Probe!Next]_Probe!probeVars => ProbeInv'
<1>. SUFFICES ASSUME ProbeInv, [Probe!Next]_Probe!probeVars PROVE (ThreadsFollowTheTask /\ ToldIsFresh)'
  BY SeenStep DEF ProbeInv
<1>. USE ProbePlaces DEF ProbeInv
<1>. DEFINE Followed == ThreadsFollowTheTask /\ ToldIsFresh
<1>1. ASSUME NEW c \in Callers, Probe!Ask(c) PROVE Followed'
  <2>1. caller' = [caller EXCEPT ![c] = [pc |-> "waiting", told |-> "nothing", fresh |-> FALSE]]
    BY <1>1 DEF Probe!Ask, Probe!Joins, ThreadsFollowTheTask
  <2>2. ToldIsFresh'
    BY <2>1 DEF ToldIsFresh, CallerState
  <2>3. CASE task = "running"
    BY <1>1, <2>2, <2>3 DEF Probe!Ask, Probe!Joins, ThreadsFollowTheTask
  <2>4. CASE task # "running"
    <3>1. task' = "running" /\ green' = "nothing" /\ threads' = [threads EXCEPT ![1] = @ + 1]
      BY <1>1, <2>4 DEF Probe!Ask, Probe!Joins, Probe!Probe
    <3>2. threads' = OneAt(1)
      BY <2>4, <3>1, ThreadMoves DEF ThreadsFollowTheTask
    <3>. QED  BY <2>2, <3>1, <3>2 DEF ThreadsFollowTheTask
  <2>. QED  BY <2>3, <2>4
<1>2. ASSUME NEW n \in Places, Probe!Look(n) PROVE Followed'
  <2>1. n <= Len(Probe!Looks) /\ Probe!After(n) \in Places /\ n \in Nat
    BY <1>2 DEF Probe!Look, Places
  <2>2. task = "running" /\ threads = OneAt(n)
    BY <1>2, ThreadMoves DEF Probe!Look, ThreadsFollowTheTask
  <2>3. Probe!After(n) # n
    BY <2>1 DEF Probe!After
  <2>4. threads' = OneAt(Probe!After(n))
    <3>1. threads' = [threads EXCEPT ![n] = @ - 1, ![Probe!After(n)] = @ + 1]
      BY <1>2 DEF Probe!Look
    <3>. QED  BY <2>1, <2>2, <2>3, <3>1, ThreadMoves
  <2>. QED  BY <1>2, <2>1, <2>2, <2>4 DEF Probe!Look, ThreadsFollowTheTask, ToldIsFresh
<1>3. ASSUME Probe!Done PROVE Followed'
  <2>. DEFINE end == Len(Probe!Looks) + 1
  <2>0. /\ end \in Places /\ threads[end] > 0
        /\ threads' = [threads EXCEPT ![end] = @ - 1]
    BY <1>3 DEF Probe!Done
  <2>. HIDE DEF end
  <2>1. task = "running" /\ threads = OneAt(end)
    BY <2>0, ThreadMoves DEF ThreadsFollowTheTask
  <2>2. threads' = Nowhere
    BY <2>0, <2>1, ThreadMoves
  <2>3. /\ green' \in {"green", "red"} /\ task' = "done"
        /\ caller' = [c \in Callers |->
               IF caller[c].pc = "waiting" /\ caller[c].told = "nothing"
               THEN [caller[c] EXCEPT !.told = green', !.fresh = TRUE] ELSE caller[c]]
    BY <1>3, <2>1 DEF Probe!Done
  <2>4. ToldIsFresh'
    BY <2>3 DEF ToldIsFresh, CallerState
  <2>. QED  BY <2>2, <2>3, <2>4 DEF ThreadsFollowTheTask
<1>4. ASSUME NEW c \in Callers, Probe!Answer(c) PROVE Followed'
  BY <1>4 DEF Probe!Answer, ThreadsFollowTheTask, ToldIsFresh, CallerState
<1>5. ASSUME NEW c \in Callers, Probe!GiveUp(c) PROVE Followed'
  BY <1>5 DEF Probe!GiveUp, Probe!Abandoned, ThreadsFollowTheTask, ToldIsFresh, CallerState
<1>6. CASE (\E p \in Probe!Monitored : Probe!Toggle(p)) \/ Probe!IdentityAnswers
           \/ UNCHANGED Probe!probeVars
  BY <1>6 DEF Probe!Toggle, Probe!IdentityAnswers, Probe!probeVars, ThreadsFollowTheTask, ToldIsFresh
<1>. QED  BY <1>1, <1>2, <1>3, <1>4, <1>5, <1>6 DEF Probe!Next

\* However many callers come, wait, give up and come again, at most one thread
\* is inside a probe, and who is told that the server is ready is told by a probe
\* that had not ended when it asked, within which every part that is needed was up
\* at some time (product_server.py:246-260, 786-802).
THEOREM ReadinessStaysBounded == Probe!Spec => []ReadinessIsBounded
<1>1. ProbeInv => ReadinessIsBounded
  <2>1. ProbeInv => Probe!OneProbeAtATime /\ Probe!GreenIsNotCached
    BY ProbePlaces DEF ProbeInv, ThreadsFollowTheTask, ToldIsFresh, Nowhere, OneAt,
       Probe!OneProbeAtATime, Probe!GreenIsNotCached
  <2>. QED  BY <2>1 DEF ProbeInv, FoundWasSeen, ReadinessIsBounded
<1>. QED  BY <1>1, ProbeInit, ProbeStep, PTL DEF Probe!Spec

-----------------------------------------------------------------------------
(* The schema: the open transaction is ahead of the database by whole      *)
(* scripts and the statements of one more.                                 *)

Newest == Len(Migration!Scripts)
Objects == Migration!Schema(Newest)
StatusOfRow == {"ready", "failed", "invalidated"}
Database == [version : 0 .. Newest, objects : SUBSET Objects, identity : Migration!Identities,
             indexes : SUBSET (rowsBefore \X StatusOfRow), heads : SUBSET rowsBefore]
Start == [pc : {"stopped", "refused", "migrating", "identify", "running"}, at : Nat, known : Migration!Identities]

SchemaTyped ==
    /\ database \in Database /\ working \in Database
    /\ lock \in Starters \cup {0}
    /\ starting \in [Starters -> Start]

\* The objects of version n and of k statements of the next script.
Begun(n, k) == Migration!Schema(n) \cup {Migration!Scripts[n + 1][i] : i \in 1 .. k}

\* What older releases served.
Served == {row \in rowsBefore : row.active /\ ~row.deleted /\ row.whole}
HeadsAreServed(db) == db.version >= 3 => db.heads = Served

DatabaseIsWhole == database.objects = Migration!Schema(database.version) /\ HeadsAreServed(database)

WhoMigratesHasTheLock == \A p \in Starters : starting[p].pc = "migrating" <=> lock = p

\* p has run at - 1 statements of the next script.
WorkIsBegun ==
    \A p \in Starters : lock = p =>
        /\ working.version <= Supported[p]
        /\ starting[p].at >= 1
        /\ working.version = Newest => starting[p].at = 1
        /\ working.version < Newest => starting[p].at <= Len(Migration!Scripts[working.version + 1]) + 1
        /\ working.version = Supported[p] => starting[p].at = 1
        /\ working.objects = Begun(working.version, starting[p].at - 1)
        /\ HeadsAreServed(working)
        /\ database.identity # 0 => working.identity = database.identity

RunningAreOfOne ==
    \A p \in Starters : starting[p].pc = "running" =>
        starting[p].known = database.identity /\ database.identity # 0

SchemaInv == SchemaTyped /\ DatabaseIsWhole /\ WhoMigratesHasTheLock /\ WorkIsBegun /\ RunningAreOfOne

LEMMA ScriptFacts ==
    /\ Newest = 4
    /\ \A n \in 1 .. 4 : /\ Len(Migration!Scripts[n]) \in Nat
                         /\ DOMAIN Migration!Scripts[n] = 1 .. Len(Migration!Scripts[n])
<1>1. Newest = 4
  BY DEF Newest, Migration!Scripts
<1>2. ASSUME NEW n \in 1 .. 4
      PROVE  /\ Len(Migration!Scripts[n]) \in Nat
             /\ DOMAIN Migration!Scripts[n] = 1 .. Len(Migration!Scripts[n])
  <2>1. CASE n = 1
    BY <2>1 DEF Migration!Scripts
  <2>2. CASE n = 2
    BY <2>2 DEF Migration!Scripts
  <2>3. CASE n = 3
    BY <2>3 DEF Migration!Scripts
  <2>4. CASE n = 4
    BY <2>4 DEF Migration!Scripts
  <2>. QED  BY <2>1, <2>2, <2>3, <2>4
<1>. QED  BY <1>1, <1>2

\* The next version has the objects of this one and those of its script.
LEMMA SchemaGrows ==
    ASSUME NEW n \in 0 .. 3
    PROVE  /\ Migration!Schema(n + 1) = Begun(n, Len(Migration!Scripts[n + 1]))
           /\ Migration!Schema(n) = Begun(n, 0)
           /\ \A k \in Nat : Begun(n, k + 1) = Begun(n, k) \cup {Migration!Scripts[n + 1][k + 1]}
<1>1. 1 .. n + 1 = (1 .. n) \cup {n + 1}
  OBVIOUS
<1>2. Migration!Schema(n + 1) = Migration!Schema(n) \cup Migration!ToSet(Migration!Scripts[n + 1])
  <2>1. ASSUME NEW m, NEW x
        PROVE  x \in Migration!Schema(m) <=> \E k \in 1 .. m : x \in Migration!ToSet(Migration!Scripts[k])
    BY DEF Migration!Schema
  <2>. QED  BY <1>1, <2>1
<1>3. Migration!ToSet(Migration!Scripts[n + 1]) = {Migration!Scripts[n + 1][i] : i \in 1 .. Len(Migration!Scripts[n + 1])}
  BY ScriptFacts DEF Migration!ToSet
<1>4. ASSUME NEW k \in Nat
      PROVE  Begun(n, k + 1) = Begun(n, k) \cup {Migration!Scripts[n + 1][k + 1]}
  <2>1. 1 .. k + 1 = (1 .. k) \cup {k + 1}
    OBVIOUS
  <2>. QED  BY <2>1 DEF Begun
<1>. QED  BY <1>2, <1>3, <1>4 DEF Begun

LEMMA SchemaInside ==
    ASSUME NEW n \in 0 .. Newest
    PROVE  Migration!Schema(n) \subseteq Objects
BY ScriptFacts DEF Migration!Schema, Objects

\* A database with its fields replaced.
LEMMA DatabaseFields ==
    ASSUME NEW db \in Database, NEW v \in 0 .. Newest, NEW objects \in SUBSET Objects, NEW n \in Migration!Identities,
           NEW indexes \in SUBSET (rowsBefore \X StatusOfRow), NEW served \in SUBSET rowsBefore
    PROVE  LET new == [db EXCEPT !.version = v, !.objects = objects, !.identity = n,
                                 !.indexes = indexes, !.heads = served] IN
           /\ new \in Database /\ new.version = v /\ new.objects = objects /\ new.identity = n
           /\ new.heads = served
BY DEF Database

LEMMA BackfilledServes ==
    ASSUME NEW db \in Database, NEW p \in Migration!Identities
    PROVE  LET filled == Migration!Backfilled(db, p) IN
           /\ filled \in Database /\ filled.version = db.version /\ filled.objects = db.objects
           /\ filled.heads = Served
           /\ filled.identity = IF rowsBefore # {} /\ db.identity = 0 THEN p ELSE db.identity
<1>. DEFINE indexes == {<<row, Migration!LegacyStatus(row)>> : row \in rowsBefore}
            covered == {row \in rowsBefore : Migration!Headed(row)}
            named == IF rowsBefore # {} /\ db.identity = 0 THEN p ELSE db.identity
<1>1. indexes \in SUBSET (rowsBefore \X StatusOfRow)
  BY DEF Migration!LegacyStatus, StatusOfRow
<1>2. covered = Served
  BY DEF Migration!Headed, Migration!LegacyStatus, Served
<1>3. named \in Migration!Identities
  BY DEF Database
<1>4. Migration!Backfilled(db, p) = [db EXCEPT !.indexes = indexes, !.heads = covered, !.identity = named]
  BY DEF Migration!Backfilled
<1>. HIDE DEF indexes, covered, named
<1>5. /\ Migration!Backfilled(db, p) \in Database /\ Migration!Backfilled(db, p).version = db.version
      /\ Migration!Backfilled(db, p).objects = db.objects /\ Migration!Backfilled(db, p).heads = covered
      /\ Migration!Backfilled(db, p).identity = named
  BY <1>1, <1>2, <1>3, <1>4 DEF Database, Served
<1>. QED  BY <1>2, <1>5 DEF named

LEMMA EmptyDatabase ==
    /\ Migration!Empty \in Database /\ Migration!Empty.version = 0 /\ Migration!Empty.objects = {}
    /\ Migration!Empty.identity = 0
BY ScriptFacts DEF Migration!Empty, Database, Migration!Identities

LEMMA LeftIsWhole ==
    ASSUME NEW n \in 0 .. Newest
    PROVE  LET db == Migration!Left(n) IN
           /\ db \in Database /\ db.version = n /\ db.objects = Migration!Schema(n) /\ HeadsAreServed(db)
<1>. DEFINE base == [Migration!Empty EXCEPT !.version = n, !.objects = Migration!Schema(n),
                                           !.identity = IF rowsBefore = {} THEN 0 ELSE 1]
<1>1. base \in Database /\ base.version = n /\ base.objects = Migration!Schema(n)
  BY EmptyDatabase, SchemaInside DEF Database, Migration!Identities
<1>2. Migration!Left(n) = IF n < 3 THEN base ELSE Migration!Backfilled(base, 1)
  BY DEF Migration!Left
<1>. HIDE DEF base
<1>3. CASE n < 3
  BY <1>1, <1>2, <1>3 DEF HeadsAreServed
<1>4. CASE ~(n < 3)
  BY <1>1, <1>2, <1>4, BackfilledServes DEF HeadsAreServed, Migration!Identities
<1>. QED  BY <1>3, <1>4

LEMMA SchemaInit == Migration!Init => SchemaInv
<1>. SUFFICES ASSUME Migration!Init PROVE SchemaInv
  OBVIOUS
<1>1. PICK n \in 0 .. Newest : database = Migration!Left(n)
  <2>1. PICK n \in (IF rowsBefore = {} THEN 0 ELSE 1) .. Newest : database = Migration!Left(n)
    BY DEF Migration!Init, Newest
  <2>. QED  BY <2>1, ScriptFacts
<1>2. database \in Database /\ DatabaseIsWhole
  BY <1>1, LeftIsWhole DEF DatabaseIsWhole
<1>3. /\ working = Migration!Empty /\ lock = 0
      /\ starting = [p \in Starters |-> [pc |-> "stopped", at |-> 1, known |-> 0]]
  BY DEF Migration!Init
<1>4. SchemaTyped
  BY <1>2, <1>3, EmptyDatabase DEF SchemaTyped, Start, Migration!Identities
<1>. QED  BY <1>2, <1>3, <1>4, HostServicesAssumption
     DEF SchemaInv, WhoMigratesHasTheLock, WorkIsBegun, RunningAreOfOne

LEMMA BegunNothing == ASSUME NEW n PROVE Begun(n, 0) = Migration!Schema(n)
BY DEF Begun

LEMMA ReleaseFacts ==
    ASSUME NEW p \in Starters
    PROVE  Supported[p] \in 0 .. 4 /\ p \in Nat /\ p # 0
BY HostServicesAssumption, ScriptFacts DEF Newest

\* A process that neither migrates nor runs may move while nothing else does.
LEMMA OnlyOneMoves ==
    ASSUME SchemaInv, NEW p \in Starters, UNCHANGED <<database, working, lock>>, lock # p,
           starting' \in [Starters -> Start],
           \A q \in Starters : q # p => starting'[q] = starting[q],
           starting'[p].pc # "migrating",
           starting'[p].pc = "running" =>
               starting'[p].known = database.identity /\ database.identity # 0,
           UNCHANGED rowsBefore
    PROVE  SchemaInv'
<1>1. SchemaTyped' /\ DatabaseIsWhole'
  BY DEF SchemaInv, SchemaTyped, Database, Objects, DatabaseIsWhole, HeadsAreServed, Served
<1>2. WhoMigratesHasTheLock' /\ RunningAreOfOne'
  BY DEF SchemaInv, WhoMigratesHasTheLock, RunningAreOfOne
<1>3. WorkIsBegun'
  BY DEF SchemaInv, WorkIsBegun, HeadsAreServed, Served, Begun
<1>. QED  BY <1>1, <1>2, <1>3 DEF SchemaInv

\* The lock is given back, with nothing kept of the open transaction.
LEMMA GivenUp ==
    ASSUME SchemaInv, NEW p \in Starters, lock = p, lock' = 0, working' = Migration!Empty,
           UNCHANGED <<database, rowsBefore>>,
           starting' \in [Starters -> Start],
           \A q \in Starters : q # p => starting'[q] = starting[q],
           starting'[p].pc \notin {"migrating", "running"}
    PROVE  SchemaInv'
<1>1. SchemaTyped' /\ DatabaseIsWhole'
  BY EmptyDatabase
     DEF SchemaInv, SchemaTyped, Database, Objects, DatabaseIsWhole, HeadsAreServed, Served
<1>2. WhoMigratesHasTheLock' /\ WorkIsBegun' /\ RunningAreOfOne'
  BY ReleaseFacts DEF SchemaInv, WhoMigratesHasTheLock, WorkIsBegun, RunningAreOfOne
<1>. QED  BY <1>1, <1>2 DEF SchemaInv

LEMMA StartGoes ==
    ASSUME SchemaInv, NEW p \in Starters,
           NEW pc \in {"stopped", "refused", "migrating", "identify", "running"},
           Migration!Goto(p, pc)
    PROVE  /\ starting' \in [Starters -> Start] /\ starting'[p].pc = pc
           /\ \A q \in Starters : q # p => starting'[q] = starting[q]
BY DEF SchemaInv, SchemaTyped, Start, Migration!Goto

LEMMA RollbackStep ==
    ASSUME SchemaInv, NEW p \in Starters, starting[p].pc = "migrating", Migration!Rollback(p)
    PROVE  SchemaInv'
<1>1. lock = p
  BY DEF SchemaInv, WhoMigratesHasTheLock
<1>. QED  BY <1>1, StartGoes, GivenUp DEF Migration!Rollback

LEMMA MigrationBeginStep ==
    ASSUME SchemaInv, NEW p \in Starters, Migration!Begin(p)
    PROVE  SchemaInv'
<1>1. starting[p].pc = "stopped" /\ lock # p /\ UNCHANGED <<database, rowsBefore>>
  BY DEF Migration!Begin, SchemaInv, WhoMigratesHasTheLock
<1>2. CASE Migration!Goto(p, "refused") /\ UNCHANGED <<working, lock>>
  BY <1>1, <1>2, StartGoes, OnlyOneMoves
<1>3. CASE /\ lock = 0 /\ ~(database.version > Supported[p])
           /\ starting' = [starting EXCEPT ![p].pc = "migrating", ![p].at = 1]
           /\ working' = database /\ lock' = p
  <2>1. /\ starting' \in [Starters -> Start]
        /\ starting'[p].pc = "migrating" /\ starting'[p].at = 1
        /\ \A q \in Starters : q # p => starting'[q] = starting[q]
    BY <1>3 DEF SchemaInv, SchemaTyped, Start
  <2>2. SchemaTyped' /\ DatabaseIsWhole'
    BY <1>1, <1>3, <2>1
       DEF SchemaInv, SchemaTyped, Database, Objects, DatabaseIsWhole, HeadsAreServed, Served
  <2>3. WhoMigratesHasTheLock' /\ RunningAreOfOne'
    BY <1>1, <1>3, <2>1, ReleaseFacts DEF SchemaInv, WhoMigratesHasTheLock, RunningAreOfOne
  <2>4. WorkIsBegun'
    <3>1. /\ database.version \in 0 .. 4 /\ database.version <= Supported[p] /\ Supported[p] \in 0 .. 4
          /\ database.objects = Begun(database.version, 0) /\ HeadsAreServed(database)
      BY <1>3, ScriptFacts, ReleaseFacts, BegunNothing
         DEF SchemaInv, SchemaTyped, Database, DatabaseIsWhole
    <3>2. database.version < Newest => 1 <= Len(Migration!Scripts[database.version + 1]) + 1
      BY <3>1, ScriptFacts
    <3>. QED  BY <1>1, <1>3, <2>1, <3>1, <3>2 DEF WorkIsBegun, HeadsAreServed, Served, Begun
  <2>. QED  BY <2>2, <2>3, <2>4 DEF SchemaInv
<1>. QED  BY <1>2, <1>3 DEF Migration!Begin

\* What the holder of the lock has done of the next script.
WorkOf(p, db, upTo) ==
    /\ db \in Database /\ upTo \in Nat /\ upTo >= 1
    /\ db.version <= Supported[p]
    /\ db.version = Newest => upTo = 1
    /\ db.version < Newest => upTo <= Len(Migration!Scripts[db.version + 1]) + 1
    /\ db.version = Supported[p] => upTo = 1
    /\ db.objects = Begun(db.version, upTo - 1)
    /\ HeadsAreServed(db)
    /\ database.identity # 0 => db.identity = database.identity

LEMMA WorkGoesOn ==
    ASSUME SchemaInv, NEW p \in Starters, lock = p, UNCHANGED <<database, rowsBefore, lock>>,
           NEW db, NEW upTo, WorkOf(p, db, upTo),
           working' = db, starting' = [starting EXCEPT ![p].at = upTo]
    PROVE  SchemaInv'
<1>1. /\ starting' \in [Starters -> Start] /\ starting'[p].pc = starting[p].pc /\ starting'[p].at = upTo
      /\ \A q \in Starters : q # p => starting'[q] = starting[q]
  BY DEF SchemaInv, SchemaTyped, Start, WorkOf
<1>2. SchemaTyped' /\ DatabaseIsWhole'
  BY <1>1 DEF SchemaInv, SchemaTyped, Database, Objects, DatabaseIsWhole, HeadsAreServed, Served, WorkOf
<1>3. WhoMigratesHasTheLock'
  BY <1>1 DEF SchemaInv, WhoMigratesHasTheLock
<1>4. WorkIsBegun'
  BY <1>1 DEF WorkIsBegun, HeadsAreServed, Served, Begun, WorkOf
<1>5. RunningAreOfOne'
  BY <1>1 DEF SchemaInv, RunningAreOfOne, WhoMigratesHasTheLock
<1>. QED  BY <1>2, <1>3, <1>4, <1>5 DEF SchemaInv

LEMMA HolderWork ==
    ASSUME SchemaInv, NEW p \in Starters, Migration!Migrating(p)
    PROVE  /\ lock = p /\ WorkOf(p, working, starting[p].at)
           /\ working.version \in 0 .. 3 /\ working.version < Supported[p]
<1>1. lock = p /\ working.version < Supported[p]
  BY DEF SchemaInv, WhoMigratesHasTheLock, Migration!Migrating
<1>2. working \in Database /\ starting[p].at \in Nat /\ working.version \in Nat
  <2>1. working \in Database /\ starting[p] \in Start
    BY DEF SchemaInv, SchemaTyped
  <2>. QED  BY <2>1, ScriptFacts DEF Start, Database
<1>3. working.version \in 0 .. 3
  BY <1>1, <1>2, ReleaseFacts
<1>. QED  BY <1>1, <1>2, <1>3 DEF SchemaInv, WorkIsBegun, WorkOf

LEMMA StatementStep ==
    ASSUME SchemaInv, NEW p \in Starters, Migration!Statement(p)
    PROVE  SchemaInv'
<1>. DEFINE n == working.version
            upTo == starting[p].at
            object == Migration!Scripts[n + 1][upTo]
            db == [working EXCEPT !.objects = @ \cup {object}]
<1>1. Migration!Migrating(p) /\ upTo <= Len(Migration!Scripts[n + 1])
  BY DEF Migration!Statement, Migration!Script
<1>2. lock = p /\ WorkOf(p, working, upTo) /\ n \in 0 .. 3 /\ n < Supported[p]
  BY <1>1, HolderWork
<1>3. CASE Migration!Rollback(p)
  BY <1>1, <1>3, RollbackStep DEF Migration!Migrating
<1>4. CASE /\ working' = db /\ database' = Migration!Kept(working')
           /\ starting' = [starting EXCEPT ![p].at = @ + 1] /\ UNCHANGED <<rowsBefore, lock>>
  <2>1. database' = database /\ upTo \in Nat /\ starting' = [starting EXCEPT ![p].at = upTo + 1]
    BY <1>2, <1>4 DEF Migration!Kept, WorkOf
  <2>2. working \in Database /\ working.objects = Begun(n, upTo - 1) /\ upTo - 1 \in Nat
    BY <1>2, <2>1 DEF WorkOf
  <2>3. Begun(n, upTo) = Begun(n, upTo - 1) \cup {object}
    <3>1. (upTo - 1) + 1 = upTo
      BY <2>1
    <3>2. Begun(n, (upTo - 1) + 1) = Begun(n, upTo - 1) \cup {Migration!Scripts[n + 1][(upTo - 1) + 1]}
      BY <1>2, <2>2, SchemaGrows
    <3>. QED  BY <3>1, <3>2
  <2>4. object \in Objects
    <3>1. object \in Begun(n, Len(Migration!Scripts[n + 1]))
      <4>1. Len(Migration!Scripts[n + 1]) \in Nat
        BY <1>2, ScriptFacts
      <4>2. upTo \in 1 .. Len(Migration!Scripts[n + 1])
        BY <1>1, <2>1, <2>2, <4>1
      <4>. QED  BY <4>2 DEF Begun
    <3>2. Migration!Schema(n + 1) \subseteq Objects
      BY <1>2, SchemaInside, ScriptFacts
    <3>. QED  BY <1>2, <3>1, <3>2, SchemaGrows
  <2>. HIDE DEF object
  <2>5. /\ db \in Database /\ db.version = n /\ db.objects = Begun(n, upTo) /\ db.heads = working.heads
        /\ db.identity = working.identity
    BY <2>2, <2>3, <2>4 DEF Database
  <2>. HIDE DEF db
  <2>6. WorkOf(p, db, upTo + 1)
    <3>1. upTo + 1 <= Len(Migration!Scripts[n + 1]) + 1 /\ n # Newest /\ n # Supported[p]
      <4>1. Len(Migration!Scripts[n + 1]) \in Nat
        BY <1>2, ScriptFacts
      <4>2. upTo + 1 <= Len(Migration!Scripts[n + 1]) + 1
        BY <1>1, <2>1, <4>1
      <4>3. n # Newest
        BY <1>2, ScriptFacts
      <4>4. n # Supported[p]
        <5>1. Supported[p] \in Nat
          BY ReleaseFacts
        <5>. QED  BY <1>2, <5>1
      <4>. QED  BY <4>2, <4>3, <4>4
    <3>2. (upTo + 1) - 1 = upTo /\ upTo + 1 >= 1 /\ upTo + 1 \in Nat
      BY <2>1
    <3>3. HeadsAreServed(db)
      BY <1>2, <2>5 DEF WorkOf, HeadsAreServed
    <3>. QED  BY <1>2, <2>5, <3>1, <3>2, <3>3 DEF WorkOf
  <2>. QED  BY <1>2, <1>4, <2>1, <2>6, WorkGoesOn
<1>. QED  BY <1>3, <1>4 DEF Migration!Statement, Migration!Script

LEMMA MarkStep ==
    ASSUME SchemaInv, NEW p \in Starters, Migration!Mark(p)
    PROVE  SchemaInv'
<1>. DEFINE n == working.version
            upTo == starting[p].at
            filled == IF n = 2 THEN Migration!Backfilled(working, p) ELSE working
            db == [filled EXCEPT !.version = @ + 1]
<1>1. /\ Migration!Migrating(p) /\ upTo > Len(Migration!Scripts[n + 1]) /\ working' = db
      /\ starting' = [starting EXCEPT ![p].at = 1] /\ UNCHANGED <<database, rowsBefore, lock>>
  BY DEF Migration!Mark, Migration!Script
<1>2. lock = p /\ WorkOf(p, working, upTo) /\ n \in 0 .. 3 /\ n < Supported[p]
  BY <1>1, HolderWork
<1>3. working \in Database /\ upTo = Len(Migration!Scripts[n + 1]) + 1
  <2>1. n + 1 \in 1 .. 4 /\ n < Newest
    BY <1>2, ScriptFacts
  <2>2. Len(Migration!Scripts[n + 1]) \in Nat
    BY <2>1, ScriptFacts
  <2>3. /\ working \in Database /\ upTo \in Nat
        /\ upTo <= Len(Migration!Scripts[n + 1]) + 1
    BY <1>2, <2>1 DEF WorkOf
  <2>. QED  BY <1>1, <2>2, <2>3
<1>4. working.objects = Migration!Schema(n + 1)
  <2>1. upTo - 1 = Len(Migration!Scripts[n + 1])
    BY <1>2, <1>3, ScriptFacts
  <2>. QED  BY <1>2, <2>1, SchemaGrows DEF WorkOf
<1>5. /\ filled \in Database /\ filled.version = n /\ filled.objects = Migration!Schema(n + 1)
      /\ n + 1 >= 3 => filled.heads = Served
      /\ database.identity # 0 => filled.identity = database.identity
  <2>1. CASE n = 2
    BY <1>2, <1>3, <1>4, <2>1, BackfilledServes, ReleaseFacts DEF WorkOf, Database, Migration!Identities
  <2>2. CASE n # 2
    BY <1>2, <1>3, <1>4, <2>2 DEF WorkOf, HeadsAreServed
  <2>. QED  BY <2>1, <2>2
<1>. HIDE DEF filled
<1>6. /\ db \in Database /\ db.version = n + 1 /\ db.objects = Migration!Schema(n + 1)
      /\ db.heads = filled.heads /\ db.identity = filled.identity
  BY <1>2, <1>5, ScriptFacts DEF Database
<1>. HIDE DEF db
<1>7. WorkOf(p, db, 1)
  <2>1. db.objects = Begun(n + 1, 1 - 1)
    BY <1>6, BegunNothing
  <2>2. n + 1 < Newest => 1 <= Len(Migration!Scripts[(n + 1) + 1]) + 1
    BY <1>2, ScriptFacts
  <2>3. HeadsAreServed(db)
    BY <1>5, <1>6 DEF HeadsAreServed
  <2>4. n + 1 <= Supported[p]
    BY <1>2, ReleaseFacts
  <2>. QED  BY <1>5, <1>6, <2>1, <2>2, <2>3, <2>4 DEF WorkOf
<1>. QED  BY <1>1, <1>2, <1>7, WorkGoesOn

LEMMA CommitStep ==
    ASSUME SchemaInv, NEW p \in Starters, Migration!Commit(p)
    PROVE  SchemaInv'
<1>1. /\ starting[p].pc = "migrating" /\ working.version = Supported[p]
      /\ database' = working /\ lock' = 0 /\ working' = Migration!Empty
      /\ Migration!Goto(p, "identify") /\ UNCHANGED rowsBefore
  BY DEF Migration!Commit
<1>2. lock = p
  BY <1>1 DEF SchemaInv, WhoMigratesHasTheLock
<1>3. /\ working \in Database /\ working.objects = Migration!Schema(working.version)
      /\ HeadsAreServed(working)
      /\ database.identity # 0 => working.identity = database.identity
  BY <1>1, <1>2, BegunNothing DEF SchemaInv, SchemaTyped, WorkIsBegun
<1>4. /\ starting' \in [Starters -> Start] /\ starting'[p].pc = "identify"
      /\ \A q \in Starters : q # p => starting'[q] = starting[q]
  BY <1>1, StartGoes
<1>5. SchemaTyped' /\ DatabaseIsWhole'
  BY <1>1, <1>3, <1>4, EmptyDatabase
     DEF SchemaTyped, Database, Objects, DatabaseIsWhole, HeadsAreServed, Served
<1>6. WhoMigratesHasTheLock' /\ WorkIsBegun'
  BY <1>1, <1>2, <1>4, ReleaseFacts DEF SchemaInv, WhoMigratesHasTheLock, WorkIsBegun
<1>7. RunningAreOfOne'
  BY <1>1, <1>3, <1>4 DEF SchemaInv, RunningAreOfOne
<1>. QED  BY <1>5, <1>6, <1>7 DEF SchemaInv

LEMMA IdentifyStep ==
    ASSUME SchemaInv, NEW p \in Starters, Migration!Identify(p)
    PROVE  SchemaInv'
<1>1. /\ starting[p].pc = "identify" /\ lock # p /\ UNCHANGED <<rowsBefore, working, lock>>
  BY DEF Migration!Identify, SchemaInv, WhoMigratesHasTheLock
<1>2. CASE Migration!Goto(p, "refused") /\ UNCHANGED database
  BY <1>1, <1>2, StartGoes, OnlyOneMoves
<1>3. CASE /\ lock = 0
           /\ database' = [database EXCEPT !.identity = IF @ = 0 THEN p ELSE @]
           /\ starting' = [starting EXCEPT ![p].pc = "running", ![p].known = database'.identity]
  <2>. DEFINE named == IF database.identity = 0 THEN p ELSE database.identity
  <2>1. named \in Migration!Identities /\ named # 0 /\ (database.identity # 0 => named = database.identity)
    BY ReleaseFacts DEF SchemaInv, SchemaTyped, Database, Migration!Identities
  <2>2. database' = [database EXCEPT !.identity = named] /\ database \in Database
    BY <1>3 DEF SchemaInv, SchemaTyped
  <2>. HIDE DEF named
  <2>3. /\ database' \in Database /\ database'.identity = named /\ database'.version = database.version
        /\ database'.objects = database.objects /\ database'.heads = database.heads
    BY <2>1, <2>2 DEF Database
  <2>4. /\ starting' \in [Starters -> Start] /\ starting'[p].pc = "running" /\ starting'[p].known = named
        /\ \A q \in Starters : q # p => starting'[q] = starting[q]
    BY <1>3, <2>1, <2>3 DEF SchemaInv, SchemaTyped, Start
  <2>5. SchemaTyped' /\ DatabaseIsWhole'
    BY <1>1, <2>3, <2>4
       DEF SchemaInv, SchemaTyped, Database, Objects, DatabaseIsWhole, HeadsAreServed, Served
  <2>6. WhoMigratesHasTheLock' /\ WorkIsBegun'
    BY <1>1, <1>3, <2>4, ReleaseFacts DEF SchemaInv, WhoMigratesHasTheLock, WorkIsBegun
  <2>7. RunningAreOfOne'
    BY <2>1, <2>3, <2>4 DEF SchemaInv, RunningAreOfOne
  <2>. QED  BY <2>5, <2>6, <2>7 DEF SchemaInv
<1>. QED  BY <1>2, <1>3 DEF Migration!Identify

LEMMA EndStep ==
    ASSUME SchemaInv, NEW p \in Starters, Migration!End(p)
    PROVE  SchemaInv'
<1>1. /\ starting' \in [Starters -> Start] /\ starting'[p].pc = "stopped"
      /\ \A q \in Starters : q # p => starting'[q] = starting[q]
      /\ UNCHANGED <<database, rowsBefore>>
  BY DEF Migration!End, SchemaInv, SchemaTyped, Start, Migration!Identities
<1>2. CASE lock = p
  <2>1. lock' = 0 /\ working' = Migration!Empty
    BY <1>2 DEF Migration!End
  <2>. QED  BY <1>1, <1>2, <2>1, GivenUp
<1>3. CASE lock # p
  <2>1. UNCHANGED <<lock, working>>
    BY <1>3 DEF Migration!End
  <2>. QED  BY <1>1, <1>3, <2>1, OnlyOneMoves
<1>. QED  BY <1>2, <1>3

LEMMA SchemaStep == SchemaInv /\ [Migration!Next]_Migration!schemaVars => SchemaInv'
<1>. SUFFICES ASSUME SchemaInv, [Migration!Next]_Migration!schemaVars PROVE SchemaInv'
  OBVIOUS
<1>1. ASSUME NEW p \in Starters,
             \/ Migration!Begin(p) \/ Migration!Statement(p) \/ Migration!Mark(p) \/ Migration!Commit(p)
             \/ Migration!Break(p) \/ Migration!Identify(p) \/ Migration!End(p)
      PROVE  SchemaInv'
  <2>1. CASE Migration!Begin(p)
    BY <2>1, MigrationBeginStep
  <2>2. CASE Migration!Statement(p)
    BY <2>2, StatementStep
  <2>3. CASE Migration!Mark(p)
    BY <2>3, MarkStep
  <2>4. CASE Migration!Commit(p)
    BY <2>4, CommitStep
  <2>5. CASE Migration!Break(p)
    BY <2>5, RollbackStep DEF Migration!Break
  <2>6. CASE Migration!Identify(p)
    BY <2>6, IdentifyStep
  <2>7. CASE Migration!End(p)
    BY <2>7, EndStep
  <2>. QED  BY <1>1, <2>1, <2>2, <2>3, <2>4, <2>5, <2>6, <2>7
<1>2. CASE UNCHANGED Migration!schemaVars
  BY <1>2 DEF Migration!schemaVars, SchemaInv, SchemaTyped, Database, Objects, DatabaseIsWhole, HeadsAreServed,
              Served, WhoMigratesHasTheLock, WorkIsBegun, RunningAreOfOne, Begun
<1>. QED  BY <1>1, <1>2 DEF Migration!Next

LEMMA SchemaHolds == Migration!Spec => [](SchemaInv /\ Migration!MigrationIsWhole /\ Migration!TypeOK)
<1>1. SchemaInv => Migration!MigrationIsWhole
  BY DEF SchemaInv, Migration!MigrationIsWhole, Migration!SchemaIsWhole, Migration!ServedSurvives,
         Migration!OneInstallation, DatabaseIsWhole, HeadsAreServed, Served, RunningAreOfOne
<1>2. SchemaInv => Migration!TypeOK
  BY DEF SchemaInv, SchemaTyped, Database, Start, Newest, Objects, Migration!TypeOK
<1>. QED  BY <1>1, <1>2, SchemaInit, SchemaStep, PTL DEF Migration!Spec

-----------------------------------------------------------------------------
(* Native installation: every place has at most one owner, and whoever      *)
(* left it half done still owns it.                                         *)

Stage == {"review", "check", "claim", "pin", "copy", "register", "report", "done", "failed"}
Installation == [pc : Stage, at : 1 .. Len(Parts) + 1, made : BOOLEAN]
PartRecord == [by : Installers \cup {Nobody}, bytes : Native!Bytes]

InstallTyped ==
    /\ kind \in Native!Kinds
    /\ prepared \in [Installers -> [Native!Names -> {"good", "edited"}]]
    /\ locked \in [Installers -> [Native!Names -> Native!Bytes]]
    /\ pinned \in [Installers -> [Native!Names -> Native!Bytes]]
    /\ claimed \in Installers \cup {Nobody}
    /\ installed \in [Native!Names -> PartRecord]
    /\ run \in [Installers -> Installation]

\* The place is the one's who created its directory or wrote its first unit.
Owns(i) == IF kind = "units" THEN Len(Parts) > 0 /\ installed[Parts[1]].by = i ELSE claimed = i

\* A part of services or wheels is of the one who claimed the place, as it was
\* when compared; only pip reads again what to compare with.
OnlyGoodBytes ==
    /\ \A p \in Native!Names :
          \/ installed[p] = Native!NoPart
          \/ /\ installed[p].by \in Installers /\ installed[p].bytes # "none"
             /\ kind # "units" => /\ installed[p].by = claimed
                                  /\ installed[p].bytes = pinned[installed[p].by][p]
    /\ kind # "bundle" => \A i \in Installers : pinned[i] = Native!Reviewed

\* What i has copied, registered and made by the step that it is at.
Names(i) == {p \in Native!Names : pinned[i][p] # "none"}
CopiedSoFar(i) ==
    /\ run[i].pc = "copy" =>
           \A m \in 1 .. Len(Parts) : m < run[i].at /\ Parts[m] \in Names(i) => installed[Parts[m]].by = i
    /\ run[i].pc \in {"register", "report", "done"} => \A p \in Names(i) : installed[p].by = i
    /\ run[i].pc \in {"pin", "copy", "register", "report", "done"} => kind = "units" \/ claimed = i
    /\ run[i].pc = "pin" => kind = "bundle" /\ \A p \in Native!Names : installed[p].by # i
    /\ run[i].pc = "claim" => kind # "units"
    /\ run[i].made => Owns(i)
RegisteredSoFar(i) ==
    /\ run[i].pc = "register" /\ kind = "services" =>
           \A m \in 1 .. Len(Parts) : m < run[i].at => Parts[m] \in registered
    /\ run[i].pc \in {"report", "done"} => Names(i) \subseteq registered

Started(i) == run[i].pc \in {"review", "check", "failed"}
HalfDoneIsOwned == halfDone => \E i \in Installers : Owns(i) /\ Started(i)

InstallInv ==
    /\ InstallTyped /\ OnlyGoodBytes
    /\ \A i \in Installers : CopiedSoFar(i) /\ RegisteredSoFar(i)
    /\ \A i \in receipts : i \in Installers /\ run[i].pc = "done"
    /\ HalfDoneIsOwned

LEMMA PartFacts ==
    /\ Len(Parts) \in Nat
    /\ \A m \in 1 .. Len(Parts) : Parts[m] \in Native!Names
    /\ \A p \in Native!Names : \E m \in 1 .. Len(Parts) : Parts[m] = p
<1>1. Len(Parts) \in Nat /\ DOMAIN Parts = 1 .. Len(Parts)
  BY HostServicesAssumption
<1>. QED  BY <1>1 DEF Native!Names, Native!Range

LEMMA NobodyIsNoInstaller == ASSUME NEW i \in Installers PROVE i # Nobody
BY HostServicesAssumption

LEMMA InstallInit == Native!Init => InstallInv
<1>. SUFFICES ASSUME Native!Init PROVE InstallInv
  OBVIOUS
<1>1. 1 \in 1 .. Len(Parts) + 1
  BY PartFacts
<1>2. InstallTyped
  BY <1>1 DEF Native!Init, InstallTyped, Native!NoPart, Native!Reviewed, PartRecord, Native!Bytes, Installation, Stage
<1>3. OnlyGoodBytes
  BY DEF Native!Init, OnlyGoodBytes
<1>4. ASSUME NEW i \in Installers
      PROVE  CopiedSoFar(i) /\ RegisteredSoFar(i)
  BY DEF Native!Init, CopiedSoFar, RegisteredSoFar
<1>. QED  BY <1>2, <1>3, <1>4 DEF InstallInv, HalfDoneIsOwned, Native!Init

\* What lies in the place stays there.
PlaceGrows ==
    /\ kind' = kind
    /\ \A p \in Native!Names : installed[p].by # Nobody => installed'[p] = installed[p]
    /\ claimed # Nobody => claimed' = claimed
    /\ \A p \in Native!Names :
           p \in registered /\ (kind = "services" \/ installed[p].by # Nobody) => p \in registered'

LEMMA OwnersStay ==
    ASSUME PlaceGrows, NEW i \in Installers, Owns(i)
    PROVE  Owns(i)'
<1>1. CASE kind = "units"
  <2>1. Len(Parts) > 0 /\ Parts[1] \in Native!Names /\ installed[Parts[1]].by = i
    BY <1>1, PartFacts DEF Owns
  <2>. QED  BY <1>1, <2>1, NobodyIsNoInstaller DEF Owns, PlaceGrows
<1>2. CASE kind # "units"
  BY <1>2, NobodyIsNoInstaller DEF Owns, PlaceGrows
<1>. QED  BY <1>1, <1>2

LEMMA OthersStay ==
    ASSUME InstallInv, PlaceGrows, NEW j \in Installers, run'[j] = run[j], pinned'[j] = pinned[j],
           \A p \in Native!Names : installed'[p].by = j => installed[p].by = j
    PROVE  CopiedSoFar(j)' /\ RegisteredSoFar(j)'
<1>0. Names(j)' = Names(j)
  BY DEF Names
<1>1. j # Nobody /\ CopiedSoFar(j) /\ RegisteredSoFar(j)
  BY NobodyIsNoInstaller DEF InstallInv
<1>2. \A m \in 1 .. Len(Parts) : installed[Parts[m]].by = j => installed'[Parts[m]].by = j
  BY <1>1, PartFacts DEF PlaceGrows
<1>3. \A p \in Native!Names : installed[p].by = j => installed'[p].by = j
  BY <1>1 DEF PlaceGrows
<1>4. claimed = j => claimed' = j
  BY <1>1 DEF PlaceGrows
<1>5. run[j].made => Owns(j)'
  BY <1>1, OwnersStay DEF CopiedSoFar
<1>6. CopiedSoFar(j)'
  <2>1. Names(j) \subseteq Native!Names
    BY DEF Names
  <2>. QED  BY <1>0, <1>1, <1>2, <1>3, <1>4, <1>5, <2>1 DEF CopiedSoFar, PlaceGrows
<1>7. RegisteredSoFar(j)'
  <2>1. CASE run[j].pc = "register" /\ kind = "services"
    BY <1>1, <2>1, PartFacts DEF RegisteredSoFar, PlaceGrows
  <2>2. CASE run[j].pc \in {"report", "done"}
    <3>1. Names(j) \subseteq Native!Names
      BY DEF Names
    <3>. QED  BY <1>0, <1>1, <2>2, <3>1 DEF RegisteredSoFar, CopiedSoFar, PlaceGrows
  <2>. QED  BY <2>1, <2>2 DEF RegisteredSoFar, PlaceGrows
<1>. QED  BY <1>6, <1>7

\* One installer takes a step and the others do not.
LEMMA InstallerMoves ==
    ASSUME InstallInv, PlaceGrows, NEW i \in Installers,
           InstallTyped', OnlyGoodBytes', CopiedSoFar(i)', RegisteredSoFar(i)',
           \A j \in Installers : j # i => run'[j] = run[j] /\ pinned'[j] = pinned[j],
           \A p \in Native!Names : installed'[p] = installed[p] \/ installed'[p].by = i,
           run[i].pc # "done",
           receipts' = receipts \/ (receipts' = receipts \cup {i} /\ run'[i].pc = "done"),
           halfDone' => halfDone \/ (run[i].made /\ Started(i)'),
           Owns(i) /\ Started(i) => Started(i)'
    PROVE  InstallInv'
<1>1. \A j \in Installers : CopiedSoFar(j)' /\ RegisteredSoFar(j)'
  BY OthersStay
<1>2. \A j \in receipts' : j \in Installers /\ run'[j].pc = "done"
  BY DEF InstallInv
<1>3. HalfDoneIsOwned'
  <2>1. ASSUME halfDone
        PROVE  \E j \in Installers : Owns(j)' /\ Started(j)'
    <3>1. PICK j \in Installers : Owns(j) /\ Started(j)
      BY <2>1 DEF InstallInv, HalfDoneIsOwned
    <3>2. Owns(j)'
      BY <3>1, OwnersStay
    <3>3. Started(j)'
      BY <3>1 DEF Started
    <3>. QED  BY <3>2, <3>3
  <2>2. ASSUME run[i].made, Started(i)'
        PROVE  \E j \in Installers : Owns(j)' /\ Started(j)'
    <3>1. Owns(i)
      BY <2>2 DEF InstallInv, CopiedSoFar
    <3>. QED  BY <2>2, <3>1, OwnersStay
  <2>. QED  BY <2>1, <2>2 DEF HalfDoneIsOwned
<1>. QED  BY <1>1, <1>2, <1>3 DEF InstallInv

LEMMA InstallerGoes ==
    ASSUME InstallInv, NEW i \in Installers, NEW pc \in Stage, Native!Goto(i, pc)
    PROVE  /\ run' \in [Installers -> Installation]
           /\ run'[i].pc = pc /\ run'[i].at = 1 /\ run'[i].made = run[i].made
           /\ \A j \in Installers : j # i => run'[j] = run[j]
           /\ halfDone' => halfDone \/ (run[i].made /\ pc = "failed")
<1>1. 1 \in 1 .. Len(Parts) + 1
  BY PartFacts
<1>2. run \in [Installers -> Installation] /\ run' = [run EXCEPT ![i].pc = pc, ![i].at = 1]
  BY DEF InstallInv, InstallTyped, Native!Goto
<1>3. run' \in [Installers -> Installation]
  BY <1>1, <1>2 DEF Installation
<1>4. run'[i].pc = pc /\ run'[i].at = 1 /\ run'[i].made = run[i].made
  BY <1>2 DEF Installation
<1>. QED  BY <1>2, <1>3, <1>4 DEF Native!Goto

\* Nothing in the place changes, and the installer goes on where nothing is asked of it, or less.
LEMMA InstallerGoesBack ==
    ASSUME InstallInv, NEW i \in Installers, NEW pc \in {"review", "check", "claim", "failed"},
           Native!Goto(i, pc), run[i].pc # "done",
           pc = "claim" => kind # "units" /\ ~Owns(i),
           UNCHANGED <<kind, prepared, locked, pinned, claimed, installed, receipts>>,
           \A p \in Native!Names : p \in registered => p \in registered'
    PROVE  InstallInv'
<1>1. pc \in Stage
  BY DEF Stage
<1>2. /\ run' \in [Installers -> Installation] /\ run'[i].pc = pc /\ run'[i].made = run[i].made
      /\ \A j \in Installers : j # i => run'[j] = run[j]
      /\ halfDone' => halfDone \/ (run[i].made /\ pc = "failed")
  BY <1>1, InstallerGoes
<1>3. PlaceGrows
  BY DEF PlaceGrows
<1>4. InstallTyped' /\ OnlyGoodBytes'
  BY <1>2 DEF InstallInv, InstallTyped, OnlyGoodBytes
<1>5. run[i].made => Owns(i)'
  BY <1>3, OwnersStay DEF InstallInv, CopiedSoFar
<1>6. CopiedSoFar(i)' /\ RegisteredSoFar(i)'
  BY <1>2, <1>5 DEF CopiedSoFar, RegisteredSoFar
<1>7. (halfDone' => halfDone \/ (run[i].made /\ Started(i)')) /\ (Owns(i) /\ Started(i) => Started(i)')
  BY <1>2 DEF Started
<1>. QED  BY <1>2, <1>3, <1>4, <1>6, <1>7, InstallerMoves

LEMMA ReviewStep ==
    ASSUME InstallInv, NEW i \in Installers, Native!Review(i)
    PROVE  InstallInv'
<1>1. PICK pc \in {"check", "failed"} : Native!Goto(i, pc)
  BY DEF Native!Review
<1>2. run[i].pc = "review" /\ UNCHANGED <<kind, prepared, locked, pinned, claimed, installed, receipts, registered>>
  BY DEF Native!Review, Native!source, Native!place
<1>. QED  BY <1>1, <1>2, InstallerGoesBack

LEMMA OwnedIsUsed ==
    ASSUME InstallInv, NEW i \in Installers, Owns(i)
    PROVE  ~Native!Unused
<1>. i # Nobody /\ kind \in {"services", "units", "bundle"}
  BY NobodyIsNoInstaller DEF InstallInv, InstallTyped, Native!Kinds
<1>1. CASE kind = "units"
  <2>1. Parts[1] \in Native!Names /\ installed[Parts[1]].by = i
    BY <1>1, PartFacts DEF Owns
  <2>2. installed[Parts[1]] # Native!NoPart
    BY <2>1 DEF Native!NoPart
  <2>. QED  BY <1>1, <2>1, <2>2 DEF Native!Unused, Native!UnusedUnits
<1>2. CASE kind # "units"
  BY <1>2 DEF Owns, Native!Unused, Native!UnusedServices
<1>. QED  BY <1>1, <1>2

LEMMA CheckStep ==
    ASSUME InstallInv, NEW i \in Installers, Native!Check(i)
    PROVE  InstallInv'
<1>1. run[i].pc = "check" /\ UNCHANGED <<kind, prepared, locked, pinned, claimed, installed, receipts, registered>>
  BY DEF Native!Check, Native!source, Native!place
<1>2. CASE ~Native!Unused /\ Native!Goto(i, "failed")
  BY <1>1, <1>2, InstallerGoesBack
<1>3. CASE Native!Unused /\ kind # "units" /\ Native!Goto(i, "claim")
  <2>1. ~Owns(i)
    BY <1>3, OwnedIsUsed
  <2>. QED  BY <1>1, <1>3, <2>1, InstallerGoesBack
<1>4. CASE Native!Unused /\ kind = "units" /\ Native!Goto(i, "copy")
  <2>1. ~Owns(i)
    BY <1>4, OwnedIsUsed
  <2>2. "copy" \in Stage
    BY DEF Stage
  <2>3. /\ run' \in [Installers -> Installation] /\ run'[i].pc = "copy" /\ run'[i].at = 1
        /\ run'[i].made = run[i].made
        /\ \A j \in Installers : j # i => run'[j] = run[j]
        /\ halfDone' => halfDone
    BY <1>4, <2>2, InstallerGoes
  <2>4. PlaceGrows /\ InstallTyped' /\ OnlyGoodBytes'
    BY <1>1, <2>3 DEF PlaceGrows, InstallInv, InstallTyped, OnlyGoodBytes
  <2>5. ~run[i].made
    BY <2>1 DEF InstallInv, CopiedSoFar
  <2>6. CopiedSoFar(i)' /\ RegisteredSoFar(i)'
    BY <1>1, <1>4, <2>3, <2>5 DEF CopiedSoFar, RegisteredSoFar
  <2>. QED  BY <1>1, <2>1, <2>3, <2>4, <2>6, InstallerMoves
<1>. QED  BY <1>2, <1>3, <1>4 DEF Native!Check

LEMMA ClaimStep ==
    ASSUME InstallInv, NEW i \in Installers, Native!Claim(i)
    PROVE  InstallInv'
<1>1. run[i].pc = "claim" /\ UNCHANGED <<kind, prepared, locked, pinned, installed, registered, receipts>>
  BY DEF Native!Claim, Native!source
<1>2. CASE claimed # Nobody /\ Native!Goto(i, "failed") /\ UNCHANGED claimed
  BY <1>1, <1>2, InstallerGoesBack
<1>. DEFINE pc == Native!Claimed
<1>3. CASE /\ claimed = Nobody /\ claimed' = i /\ UNCHANGED halfDone
           /\ run' = [run EXCEPT ![i] = [pc |-> pc, at |-> 1, made |-> TRUE]]
  <2>1. kind # "units"
    BY <1>1 DEF InstallInv, CopiedSoFar
  <2>2. run' \in [Installers -> Installation] /\ run'[i] = [pc |-> pc, at |-> 1, made |-> TRUE]
        /\ \A j \in Installers : j # i => run'[j] = run[j]
    <3>1. pc \in Stage
      BY DEF Stage, Native!Claimed
    <3>. HIDE DEF pc
    <3>. QED  BY <1>3, <3>1, PartFacts DEF InstallInv, InstallTyped, Installation
  <2>3. \A p \in Native!Names : installed[p] = Native!NoPart
    BY <1>3, <2>1, NobodyIsNoInstaller DEF InstallInv, OnlyGoodBytes
  <2>6. PlaceGrows /\ InstallTyped' /\ OnlyGoodBytes'
    BY <1>1, <1>3, <2>2, <2>3 DEF PlaceGrows, InstallInv, InstallTyped, OnlyGoodBytes
  <2>4. CopiedSoFar(i)' /\ RegisteredSoFar(i)'
    <3>1. \A p \in Native!Names : installed[p].by # i
      BY <2>3, NobodyIsNoInstaller DEF Native!NoPart
    <3>2. run'[i].pc \in {"pin", "copy"} /\ run'[i].at = 1 /\ (run'[i].pc = "pin" => kind = "bundle")
      BY <2>2 DEF Native!Claimed
    <3>3. ~\E m \in 1 .. Len(Parts) : m < 1
      BY PartFacts
    <3>. HIDE DEF pc
    <3>. QED  BY <1>1, <1>3, <2>1, <3>1, <3>2, <3>3 DEF CopiedSoFar, RegisteredSoFar, Owns
  <2>5. ~Started(i)
    BY <1>1 DEF Started
  <2>. QED  BY <1>1, <1>3, <2>2, <2>4, <2>5, <2>6, InstallerMoves
<1>. QED  BY <1>2, <1>3 DEF Native!Claim

\* pip begins with nothing installed, so nothing was compared with what it read
\* before.
LEMMA PinStep ==
    ASSUME InstallInv, NEW i \in Installers, Native!Pin(i)
    PROVE  InstallInv'
<1>1. /\ run[i].pc = "pin" /\ pinned' = [pinned EXCEPT ![i] = locked[i]] /\ Native!Goto(i, "copy")
      /\ UNCHANGED <<kind, prepared, locked, claimed, installed, registered, receipts>>
  BY DEF Native!Pin, Native!source, Native!place
<1>2. kind = "bundle" /\ claimed = i /\ \A p \in Native!Names : installed[p].by # i
  BY <1>1 DEF InstallInv, CopiedSoFar
<1>3. "copy" \in Stage
  BY DEF Stage
<1>4. /\ run' \in [Installers -> Installation] /\ run'[i].pc = "copy" /\ run'[i].at = 1
      /\ run'[i].made = run[i].made
      /\ \A j \in Installers : j # i => run'[j] = run[j]
      /\ halfDone' => halfDone
  BY <1>1, <1>3, InstallerGoes
<1>5. /\ pinned' \in [Installers -> [Native!Names -> Native!Bytes]]
      /\ \A j \in Installers : j # i => pinned'[j] = pinned[j]
  BY <1>1 DEF InstallInv, InstallTyped
<1>6. PlaceGrows /\ InstallTyped'
  BY <1>1, <1>4, <1>5 DEF PlaceGrows, InstallInv, InstallTyped
<1>7. OnlyGoodBytes'
  BY <1>1, <1>2, <1>5 DEF InstallInv, OnlyGoodBytes
<1>8. CopiedSoFar(i)' /\ RegisteredSoFar(i)'
  <2>1. run[i].made => Owns(i)'
    BY <1>6, OwnersStay DEF InstallInv, CopiedSoFar
  <2>2. ~\E m \in 1 .. Len(Parts) : m < 1
    BY PartFacts
  <2>. QED  BY <1>1, <1>2, <1>4, <2>1, <2>2 DEF CopiedSoFar, RegisteredSoFar
<1>9. ~Started(i)
  BY <1>1 DEF Started
<1>. QED  BY <1>1, <1>4, <1>5, <1>6, <1>7, <1>8, <1>9, InstallerMoves

LEMMA PartIsMade ==
    ASSUME InstallInv, NEW i \in Installers, Native!Made(i), run[i].at <= Len(Parts)
    PROVE  /\ run' \in [Installers -> Installation]
           /\ run'[i].pc = run[i].pc /\ run'[i].at = run[i].at + 1 /\ run'[i].made
           /\ \A j \in Installers : j # i => run'[j] = run[j]
           /\ halfDone' = halfDone
<1>1. run \in [Installers -> Installation] /\ run[i].at \in 1 .. Len(Parts) /\ Len(Parts) \in Nat
  BY PartFacts DEF InstallInv, InstallTyped, Installation
<1>2. run' = [run EXCEPT ![i].at = run[i].at + 1, ![i].made = TRUE]
  BY DEF Native!Made
<1>3. run[i].at + 1 \in 1 .. Len(Parts) + 1
  BY <1>1
<1>4. run' \in [Installers -> Installation]
  BY <1>1, <1>2, <1>3 DEF Installation
<1>5. run'[i].pc = run[i].pc /\ run'[i].at = run[i].at + 1 /\ run'[i].made
  BY <1>1, <1>2 DEF Installation
<1>. QED  BY <1>2, <1>4, <1>5 DEF Native!Made

LEMMA CopyStep ==
    ASSUME InstallInv, NEW i \in Installers, Native!Copy(i)
    PROVE  InstallInv'
<1>. DEFINE k == run[i].at
            part == Parts[k]
<1>1. /\ run[i].pc = "copy" /\ k <= Len(Parts)
      /\ UNCHANGED <<kind, prepared, locked, pinned, claimed, registered, receipts>>
  BY DEF Native!Copy, Native!source
<1>2. CASE Native!Goto(i, "failed") /\ UNCHANGED installed
  BY <1>1, <1>2, InstallerGoesBack
<1>3. k \in 1 .. Len(Parts) /\ part \in Native!Names
  BY <1>1, PartFacts DEF InstallInv, InstallTyped, Installation
<1>4. ASSUME PlaceGrows, InstallTyped', OnlyGoodBytes', Native!Made(i),
             part \in Names(i) => installed'[part].by = i,
             \A p \in Native!Names : p # part => installed'[p] = installed[p],
             installed'[part] = installed[part] \/ installed'[part].by = i
      PROVE  InstallInv'
  <2>1. /\ run'[i].pc = "copy" /\ run'[i].at = k + 1 /\ run'[i].made
        /\ \A j \in Installers : j # i => run'[j] = run[j]
        /\ halfDone' = halfDone
    BY <1>1, <1>4, PartIsMade
  <2>2. Names(i)' = Names(i)
    BY <1>1 DEF Names
  <2>3. \A m \in 1 .. Len(Parts) : m < k + 1 /\ Parts[m] \in Names(i) => installed'[Parts[m]].by = i
    <3>1. ASSUME NEW m \in 1 .. Len(Parts), m < k, Parts[m] \in Names(i)
          PROVE  installed'[Parts[m]].by = i
      <4>1. installed[Parts[m]].by = i /\ Parts[m] \in Native!Names
        BY <1>1, <3>1, PartFacts DEF InstallInv, CopiedSoFar
      <4>. QED  BY <1>4, <3>1, <4>1
    <3>2. ASSUME NEW m \in 1 .. Len(Parts), m < k + 1
          PROVE  m < k \/ m = k
      BY <1>3, <3>2
    <3>. QED  BY <1>4, <3>1, <3>2
  <2>4. Owns(i)'
    <3>1. CASE kind = "units"
      <4>1. 1 \in 1 .. Len(Parts) /\ 1 < k + 1 /\ Len(Parts) > 0 /\ Parts[1] \in Native!Names
        BY <1>3, PartFacts
      <4>2. Parts[1] \in Names(i)
        BY <3>1, <4>1 DEF Names, InstallInv, OnlyGoodBytes, Native!Reviewed
      <4>. QED  BY <1>1, <2>3, <3>1, <4>1, <4>2 DEF Owns
    <3>2. CASE kind # "units"
      BY <1>1, <3>2 DEF Owns, InstallInv, CopiedSoFar
    <3>. QED  BY <3>1, <3>2
  <2>5. CopiedSoFar(i)' /\ RegisteredSoFar(i)'
    BY <1>1, <2>1, <2>2, <2>3, <2>4 DEF CopiedSoFar, RegisteredSoFar, InstallInv
  <2>6. ~Started(i)
    BY <1>1 DEF Started
  <2>. QED  BY <1>1, <1>4, <2>1, <2>5, <2>6, InstallerMoves
<1>5. Native!Made(i) => run' \in [Installers -> Installation]
  BY <1>1, PartIsMade
<1>6. CASE ~Native!Wanted(i) /\ Native!Made(i) /\ UNCHANGED installed
  <2>1. PlaceGrows /\ InstallTyped' /\ OnlyGoodBytes'
    BY <1>1, <1>5, <1>6 DEF PlaceGrows, InstallInv, InstallTyped, OnlyGoodBytes
  <2>2. part \notin Names(i)
    BY <1>6 DEF Native!Wanted, Native!PartOf, Names
  <2>. QED  BY <1>4, <1>6, <2>1, <2>2
<1>7. CASE /\ Native!Wanted(i) /\ Native!Acceptable(i) /\ installed[part] = Native!NoPart /\ Native!Made(i)
           /\ installed' = [installed EXCEPT ![part] = [by |-> i, bytes |-> prepared[i][part]]]
  <2>1. prepared[i][part] \in {"good", "edited"} /\ (kind # "units" => prepared[i][part] = pinned[i][part])
    BY <1>3, <1>7 DEF InstallInv, InstallTyped, Native!Acceptable, Native!PartOf
  <2>2. /\ installed' \in [Native!Names -> PartRecord]
        /\ installed'[part].by = i /\ installed'[part].bytes = prepared[i][part]
        /\ \A p \in Native!Names : p # part => installed'[p] = installed[p]
    BY <1>3, <1>7, <2>1 DEF InstallInv, InstallTyped, PartRecord, Native!Bytes
  <2>3. installed[part].by = Nobody
    BY <1>7 DEF Native!NoPart
  <2>4. PlaceGrows
    BY <1>1, <2>2, <2>3 DEF PlaceGrows
  <2>5. InstallTyped'
    BY <1>1, <1>5, <1>7, <2>2 DEF InstallInv, InstallTyped
  <2>6. kind = "units" \/ claimed = i
    BY <1>1 DEF InstallInv, CopiedSoFar
  <2>7. OnlyGoodBytes'
    BY <1>1, <2>1, <2>2, <2>6 DEF InstallInv, OnlyGoodBytes
  <2>. QED  BY <1>4, <1>7, <2>2, <2>4, <2>5, <2>7
<1>. QED  BY <1>2, <1>6, <1>7 DEF Native!Copy, Native!PartOf

\* Nothing in the place changes, and the installer goes to its next stage.
LEMMA InstallerGoesOn ==
    ASSUME InstallInv, NEW i \in Installers, NEW pc \in {"register", "report", "done"},
           Native!Goto(i, pc), run[i].pc \in {"copy", "register", "report"},
           UNCHANGED <<kind, prepared, locked, pinned, claimed, installed>>, PlaceGrows,
           \A p \in Names(i) : installed[p].by = i,
           pc # "register" => Names(i) \subseteq registered',
           receipts' = receipts \/ (pc = "done" /\ receipts' = receipts \cup {i})
    PROVE  InstallInv'
<1>1. pc \in Stage
  BY DEF Stage
<1>2. /\ run' \in [Installers -> Installation] /\ run'[i].pc = pc /\ run'[i].at = 1
      /\ run'[i].made = run[i].made
      /\ \A j \in Installers : j # i => run'[j] = run[j]
      /\ halfDone' => halfDone
  BY <1>1, InstallerGoes
<1>3. InstallTyped' /\ OnlyGoodBytes'
  BY <1>2 DEF InstallInv, InstallTyped, OnlyGoodBytes
<1>0. Names(i)' = Names(i)
  BY DEF Names
<1>4. CopiedSoFar(i)'
  BY <1>0, <1>2, OwnersStay DEF InstallInv, CopiedSoFar
<1>5. RegisteredSoFar(i)'
  BY <1>0, <1>2 DEF RegisteredSoFar
<1>6. ~Started(i)
  BY DEF Started
<1>. QED  BY <1>2, <1>3, <1>4, <1>5, <1>6, InstallerMoves

LEMMA CopiedStep ==
    ASSUME InstallInv, NEW i \in Installers, Native!Copied(i)
    PROVE  InstallInv'
<1>1. /\ run[i].pc = "copy" /\ run[i].at > Len(Parts) /\ Native!Goto(i, "register")
      /\ UNCHANGED <<kind, prepared, locked, pinned, claimed, installed, registered, receipts>>
  BY DEF Native!Copied, Native!source, Native!place
<1>2. ASSUME NEW p \in Names(i)
      PROVE  installed[p].by = i
  <2>1. PICK m \in 1 .. Len(Parts) : Parts[m] = p
    BY PartFacts DEF Names
  <2>2. m < run[i].at
    BY <1>1, PartFacts DEF InstallInv, InstallTyped, Installation
  <2>. QED  BY <1>1, <2>1, <2>2 DEF InstallInv, CopiedSoFar
<1>3. PlaceGrows
  BY <1>1 DEF PlaceGrows
<1>. QED  BY <1>1, <1>2, <1>3, InstallerGoesOn

LEMMA RegisterStep ==
    ASSUME InstallInv, NEW i \in Installers, Native!Register(i)
    PROVE  InstallInv'
<1>. DEFINE k == run[i].at
            part == Parts[k]
<1>1. run[i].pc = "register" /\ UNCHANGED <<kind, prepared, locked, pinned, claimed, installed, receipts>>
  BY DEF Native!Register, Native!source
<1>2. /\ i # Nobody /\ Names(i) \subseteq Native!Names
      /\ \A p \in Names(i) : installed[p].by = i
  BY <1>1, NobodyIsNoInstaller DEF InstallInv, CopiedSoFar, Names
<1>3. CASE kind = "services" /\ k <= Len(Parts) /\ Native!Goto(i, "failed") /\ UNCHANGED registered
  BY <1>1, <1>3, InstallerGoesBack
<1>4. CASE /\ kind = "services" /\ k <= Len(Parts) /\ Native!Made(i)
           /\ registered' = registered \cup {part}
  <2>1. /\ run' \in [Installers -> Installation]
        /\ run'[i].pc = "register" /\ run'[i].at = k + 1 /\ run'[i].made
        /\ \A j \in Installers : j # i => run'[j] = run[j]
        /\ halfDone' = halfDone
    BY <1>1, <1>4, PartIsMade
  <2>2. PlaceGrows /\ InstallTyped' /\ OnlyGoodBytes'
    BY <1>1, <1>4, <2>1 DEF PlaceGrows, InstallInv, InstallTyped, OnlyGoodBytes
  <2>3. CopiedSoFar(i)'
    BY <1>1, <1>4, <2>1 DEF CopiedSoFar, InstallInv, Owns, Names
  <2>4. RegisteredSoFar(i)'
    <3>1. k \in 1 .. Len(Parts)
      BY <1>4, PartFacts DEF InstallInv, InstallTyped, Installation
    <3>2. ASSUME NEW m \in 1 .. Len(Parts), m < k + 1
          PROVE  Parts[m] \in registered'
      <4>1. m < k \/ m = k
        BY <3>1, <3>2
      <4>2. \A n \in 1 .. Len(Parts) : n < k => Parts[n] \in registered
        BY <1>1, <1>4 DEF InstallInv, RegisteredSoFar
      <4>. QED  BY <1>4, <4>1, <4>2
    <3>. QED  BY <2>1, <3>2 DEF RegisteredSoFar
  <2>5. ~Started(i)
    BY <1>1 DEF Started
  <2>. QED  BY <1>1, <2>1, <2>2, <2>3, <2>4, <2>5, InstallerMoves
<1>5. CASE Native!Reload(i)
  <2>1. registered' = {p \in Native!Names : installed[p] # Native!NoPart} /\ kind # "services"
    BY <1>5 DEF Native!Reload
  <2>2. \A p \in Native!Names : installed[p].by # Nobody => p \in registered'
    BY <2>1 DEF Native!NoPart
  <2>3. PlaceGrows
    BY <1>1, <2>1, <2>2 DEF PlaceGrows
  <2>4. Names(i) \subseteq registered'
    BY <1>2, <2>2
  <2>5. Native!Goto(i, "report")
    BY <1>5 DEF Native!Reload
  <2>. QED  BY <1>1, <1>2, <2>3, <2>4, <2>5, InstallerGoesOn
<1>6. CASE kind = "services" /\ k > Len(Parts) /\ Native!Goto(i, "report") /\ UNCHANGED registered
  <2>1. PlaceGrows
    BY <1>1, <1>6 DEF PlaceGrows
  <2>2. ASSUME NEW p \in Names(i)
        PROVE  p \in registered'
    <3>1. PICK m \in 1 .. Len(Parts) : Parts[m] = p
      BY PartFacts DEF Names
    <3>2. m < k
      BY <1>6, PartFacts DEF InstallInv, InstallTyped, Installation
    <3>. QED  BY <1>1, <1>6, <3>1, <3>2 DEF InstallInv, RegisteredSoFar
  <2>. QED  BY <1>1, <1>2, <1>6, <2>1, <2>2, InstallerGoesOn
<1>. QED  BY <1>3, <1>4, <1>5, <1>6 DEF Native!Register, Native!Create, Native!PartOf

LEMMA ReportStep ==
    ASSUME InstallInv, NEW i \in Installers, Native!Report(i)
    PROVE  InstallInv'
<1>1. /\ run[i].pc = "report" /\ Native!Goto(i, "done") /\ receipts' = receipts \cup {i}
      /\ UNCHANGED <<kind, prepared, locked, pinned, claimed, installed, registered>>
  BY DEF Native!Report, Native!source, Native!place
<1>2. /\ \A p \in Names(i) : installed[p].by = i
      /\ Names(i) \subseteq registered'
  BY <1>1 DEF InstallInv, CopiedSoFar, RegisteredSoFar
<1>3. PlaceGrows
  BY <1>1 DEF PlaceGrows
<1>. QED  BY <1>1, <1>2, <1>3, InstallerGoesOn

LEMMA InstallStep == InstallInv /\ [Native!Next]_Native!installVars => InstallInv'
<1>. SUFFICES ASSUME InstallInv, [Native!Next]_Native!installVars PROVE InstallInv'
  OBVIOUS
<1>1. ASSUME UNCHANGED <<kind, claimed, installed, registered, run, pinned, receipts, halfDone>>,
             prepared' \in [Installers -> [Native!Names -> {"good", "edited"}]],
             locked' \in [Installers -> [Native!Names -> Native!Bytes]]
      PROVE  InstallInv'
  <2>1. InstallTyped' /\ OnlyGoodBytes'
    BY <1>1 DEF InstallInv, InstallTyped, OnlyGoodBytes
  <2>2. \A i \in Installers : CopiedSoFar(i)' /\ RegisteredSoFar(i)'
    BY <1>1 DEF InstallInv, CopiedSoFar, RegisteredSoFar, Owns, Names
  <2>. QED  BY <1>1, <2>1, <2>2 DEF InstallInv, HalfDoneIsOwned, Owns, Started
<1>2. CASE Native!ChangeHost
  BY <1>1, <1>2 DEF Native!ChangeHost, Native!place, InstallInv, InstallTyped
<1>3. ASSUME NEW i \in Installers, Native!Edit(i)
      PROVE  InstallInv'
  <2>1. UNCHANGED <<kind, claimed, installed, registered, run, pinned, receipts, halfDone>>
    BY <1>3 DEF Native!Edit, Native!place
  <2>2. \/ UNCHANGED prepared
        \/ \E p \in Native!Names : prepared' = [prepared EXCEPT ![i][p] = "edited"]
    BY <1>3 DEF Native!Edit
  <2>3. prepared' \in [Installers -> [Native!Names -> {"good", "edited"}]]
    <3>1. prepared \in [Installers -> [Native!Names -> {"good", "edited"}]]
      BY DEF InstallInv, InstallTyped
    <3>2. CASE UNCHANGED prepared
      BY <3>1, <3>2
    <3>3. ASSUME NEW p \in Native!Names, prepared' = [prepared EXCEPT ![i][p] = "edited"]
          PROVE  prepared' \in [Installers -> [Native!Names -> {"good", "edited"}]]
      <4>1. [prepared[i] EXCEPT ![p] = "edited"] \in [Native!Names -> {"good", "edited"}]
        BY <3>1
      <4>. QED  BY <3>1, <3>3, <4>1
    <3>. QED  BY <2>2, <3>2, <3>3
  <2>4. \/ UNCHANGED locked
        \/ \E p \in Native!Names, b \in Native!Bytes : locked' = [locked EXCEPT ![i][p] = b]
    BY <1>3 DEF Native!Edit
  <2>5. locked' \in [Installers -> [Native!Names -> Native!Bytes]]
    <3>1. locked \in [Installers -> [Native!Names -> Native!Bytes]]
      BY DEF InstallInv, InstallTyped
    <3>2. CASE UNCHANGED locked
      BY <3>1, <3>2
    <3>3. ASSUME NEW p \in Native!Names, NEW b \in Native!Bytes, locked' = [locked EXCEPT ![i][p] = b]
          PROVE  locked' \in [Installers -> [Native!Names -> Native!Bytes]]
      <4>1. [locked[i] EXCEPT ![p] = b] \in [Native!Names -> Native!Bytes]
        BY <3>1
      <4>. QED  BY <3>1, <3>3, <4>1
    <3>. QED  BY <2>4, <3>2, <3>3
  <2>. QED  BY <1>1, <2>1, <2>3, <2>5
<1>4. ASSUME NEW i \in Installers, Native!Fail(i) \/ Native!Retry(i)
      PROVE  InstallInv'
  <2>1. /\ run[i].pc # "done" /\ UNCHANGED <<kind, prepared, locked, pinned, claimed, installed, registered, receipts>>
        /\ Native!Goto(i, "failed") \/ Native!Goto(i, "review")
    BY <1>4 DEF Native!Fail, Native!Retry, Native!source, Native!place
  <2>. QED  BY <2>1, InstallerGoesBack
<1>5. ASSUME NEW i \in Installers,
             \/ Native!Review(i) \/ Native!Check(i) \/ Native!Claim(i) \/ Native!Pin(i) \/ Native!Copy(i)
             \/ Native!Copied(i) \/ Native!Register(i) \/ Native!Report(i)
      PROVE  InstallInv'
  BY <1>5, ReviewStep, CheckStep, ClaimStep, PinStep, CopyStep, CopiedStep, RegisterStep, ReportStep
<1>6. CASE UNCHANGED Native!installVars
  BY <1>1, <1>6 DEF Native!installVars, InstallInv, InstallTyped
<1>. QED  BY <1>2, <1>3, <1>4, <1>5, <1>6 DEF Native!Next

LEMMA InstallKeeps == InstallInv => Native!ReportedIsWhole /\ Native!PartialIsPreserved
<1>. SUFFICES ASSUME InstallInv PROVE Native!ReportedIsWhole /\ Native!PartialIsPreserved
  OBVIOUS
<1>1. ASSUME NEW i \in receipts
      PROVE  /\ i \in Installers /\ i # Nobody /\ ~Started(i)
             /\ \A p \in Names(i) : installed[p].by = i
             /\ Names(i) \subseteq registered
             /\ kind = "units" \/ claimed = i
  BY NobodyIsNoInstaller DEF InstallInv, CopiedSoFar, RegisteredSoFar, Started
<1>2. ASSUME NEW i \in receipts, NEW p \in Native!Names
      PROVE  /\ pinned[i][p] # "none" => installed[p].by = i /\ p \in registered
             /\ pinned[i][p] = "none" => installed[p] = Native!NoPart
             /\ kind # "units" /\ pinned[i][p] = "good" => installed[p].bytes = "good"
  <2>1. /\ i \in Installers /\ i # Nobody
        /\ p \in Names(i) => installed[p].by = i /\ p \in registered
        /\ kind = "units" \/ claimed = i
    BY <1>1
  <2>2. /\ \/ installed[p] = Native!NoPart
           \/ /\ installed[p].by \in Installers /\ installed[p].bytes # "none"
              /\ kind # "units" => /\ installed[p].by = claimed
                                   /\ installed[p].bytes = pinned[installed[p].by][p]
        /\ kind # "bundle" => pinned[i][p] = "good"
    BY <2>1 DEF InstallInv, OnlyGoodBytes, Native!Reviewed
  <2>3. p \in Names(i) <=> pinned[i][p] # "none"
    BY DEF Names
  <2>4. Native!NoPart.by = Nobody
    BY DEF Native!NoPart
  <2>. QED  BY <2>1, <2>2, <2>3, <2>4
<1>4. Native!ReportedIsWhole
  BY <1>2 DEF Native!ReportedIsWhole
<1>3. ASSUME halfDone, NEW i \in receipts
      PROVE  FALSE
  <2>1. PICK j \in Installers : Owns(j) /\ Started(j)
    BY <1>3 DEF InstallInv, HalfDoneIsOwned
  <2>2. i = j
    <3>1. CASE kind = "units"
      <4>1. Len(Parts) > 0 /\ Parts[1] \in Native!Names /\ installed[Parts[1]].by = j
        BY <2>1, <3>1, PartFacts DEF Owns
      <4>2. Parts[1] \in Names(i)
        BY <1>1, <1>3, <3>1, <4>1 DEF Names, InstallInv, OnlyGoodBytes, Native!Reviewed
      <4>. QED  BY <1>1, <1>3, <4>1, <4>2
    <3>2. CASE kind # "units"
      BY <1>1, <1>3, <2>1, <3>2 DEF Owns
    <3>. QED  BY <3>1, <3>2
  <2>. QED  BY <1>1, <1>3, <2>1, <2>2
<1>. QED  BY <1>3, <1>4 DEF Native!PartialIsPreserved

(* What an installer reported is whole and its own, what one left half done *)
(* is never completed, and a database is of one release, serves what it     *)
(* served and is of one installation (windows_installation.py:100-182,      *)
(* bundle_installer.py:133-156, metadata.py:211-266).                       *)
THEOREM InstallationsAreWhole == Native!Spec /\ Migration!Spec => []InstallationIsWhole
<1>1. Native!Spec => []InstallInv
  BY InstallInit, InstallStep, PTL DEF Native!Spec
<1>2. InstallInv /\ Migration!MigrationIsWhole => InstallationIsWhole
  BY InstallKeeps DEF InstallationIsWhole
<1>. QED  BY <1>1, <1>2, SchemaHolds, PTL

-----------------------------------------------------------------------------
(* Models: who holds the host's lock is at a model, and what a caller made  *)
(* is of the model that the collection names.                               *)

Operations == {"none", "answer", "index", "search", "rerank"}
Waiting == {"idle", "done", "failed", "resolve", "open", "lock", "request", "pause", "recheck", "store"}

Made == [of : Nat, returned : BOOLEAN]

\* A call with the fields that calls have.
Called(op, pc, local, attempt, batch, made, given, cited) ==
    [op |-> op, pc |-> pc, local |-> local, attempt |-> attempt, batch |-> batch,
     made |-> made, given |-> given, cited |-> cited]
IsCall(r) ==
    /\ r = Called(r.op, r.pc, r.local, r.attempt, r.batch, r.made, r.given, r.cited)
    /\ r.op \in Operations /\ r.pc \in Waiting /\ r.batch \in Nat /\ r.made \in Seq(Made)

ModelsTyped ==
    /\ tag \in Nat /\ collection \in Nat /\ identity \in [Callers -> Nat]
    /\ got \in [Callers -> Nat] /\ moved \in [Callers -> 0 .. 2]
    /\ holder \in Callers \cup {Nobody}
    /\ call = [c \in Callers |-> call[c]] /\ \A c \in Callers : IsCall(call[c])

Locked(c) == admission /\ OnHost(c)

LockIsForLocal(c) == call[c].pc = "lock" => admission /\ call[c].local

\* What c opened is of the model it resolved.
IdentityIsOne(c) ==
    /\ call[c].pc = "open" => identity[c] # 0
    /\ c \in opened => collection # 0 /\ identity[c] = collection

\* Between its looks c knows of a tag that moved once, not whether it moved more often.
LooksTell(c) ==
    BetweenLooks(c) =>
        /\ moved[c] = 0 => identity[c] = tag /\ (call[c].pc = "recheck" => got[c] = tag)
        /\ moved[c] = 1 => identity[c] # tag

\* All that c keeps is of its model, or of a tag that left and was back.
MadeIsOfOne(c) ==
    call[c].op \in Embedding =>
        /\ call[c].batch # 0 => c \in opened
        /\ call[c].batch = 0 => call[c].pc \in {"resolve", "open", "failed"} /\ ToSet(call[c].made) = {}
        /\ call[c].pc = "open" => call[c].batch = 0
        /\ call[c].pc # "pause"
        /\ \A v \in ToSet(call[c].made) : IsOf(v, identity[c])
        /\ call[c].pc \in {"store", "done"} => ToSet(call[c].made) # {}

VectorsAreOfOne == (vectors # {} => collection # 0) /\ \A v \in vectors : IsOf(v, collection)

CallInv(c) == LockIsForLocal(c) /\ IdentityIsOne(c) /\ LooksTell(c) /\ MadeIsOfOne(c)
ModelsInv == ModelsTyped /\ InferenceIsExclusive /\ VectorsAreOfOne /\ \A c \in Callers : CallInv(c)

LEMMA IdleFacts ==
    /\ IsCall(Idle) /\ Idle.op = "none" /\ Idle.pc = "idle" /\ Idle.local /\ Idle.batch = 0
    /\ ToSet(Idle.made) = {}
BY DEF Idle, IsCall, Called, Operations, Waiting, ToSet

LEMMA Appended ==
    ASSUME NEW S, NEW s \in Seq(S), NEW n \in S
    PROVE  /\ Append(s, n) \in Seq(S) /\ ToSet(Append(s, n)) = ToSet(s) \cup {n}
           /\ Len(Append(s, n)) = Len(s) + 1 /\ Len(s) \in Nat
<1>1. /\ DOMAIN s = 1 .. Len(s) /\ DOMAIN Append(s, n) = 1 .. Len(s) + 1
      /\ \A k \in 1 .. Len(s) : Append(s, n)[k] = s[k]
      /\ Append(s, n)[Len(s) + 1] = n /\ Len(s) \in Nat
  OBVIOUS
<1>2. 1 .. Len(s) + 1 = (1 .. Len(s)) \cup {Len(s) + 1}
  BY <1>1
<1>3. ToSet(Append(s, n)) = {Append(s, n)[k] : k \in 1 .. Len(s)} \cup {Append(s, n)[Len(s) + 1]}
  BY <1>1, <1>2 DEF ToSet
<1>. QED  BY <1>1, <1>3 DEF ToSet

\* The calls that the actions make of a call.
LEMMA CalledFields ==
    ASSUME NEW op \in Operations, NEW pc \in Waiting, NEW local, NEW attempt, NEW batch \in Nat,
           NEW made \in Seq(Made), NEW given, NEW cited
    PROVE  LET new == Called(op, pc, local, attempt, batch, made, given, cited) IN
           /\ IsCall(new) /\ new.op = op /\ new.pc = pc /\ new.local = local
           /\ new.batch = batch /\ new.made = made
BY DEF Called, IsCall

LEMMA OneReplaced ==
    ASSUME NEW r, IsCall(r), NEW n
    PROVE  /\ [r EXCEPT !.pc = n] = Called(r.op, n, r.local, r.attempt, r.batch, r.made, r.given, r.cited)
           /\ [r EXCEPT !.op = n] = Called(n, r.pc, r.local, r.attempt, r.batch, r.made, r.given, r.cited)
<1>1. [r EXCEPT !.pc = n] = Called(r.op, n, r.local, r.attempt, r.batch, r.made, r.given, r.cited)
  BY DEF IsCall, Called
<1>2. [r EXCEPT !.op = n] = Called(n, r.pc, r.local, r.attempt, r.batch, r.made, r.given, r.cited)
  BY DEF IsCall, Called
<1>. QED  BY <1>1, <1>2

LEMMA TwoReplaced ==
    ASSUME NEW r, IsCall(r), NEW n, NEW m
    PROVE  /\ [r EXCEPT !.pc = n, !.attempt = m] = Called(r.op, n, r.local, m, r.batch, r.made, r.given, r.cited)
           /\ [r EXCEPT !.pc = n, !.batch = m] = Called(r.op, n, r.local, r.attempt, m, r.made, r.given, r.cited)
           /\ [r EXCEPT !.pc = n, !.made = m] = Called(r.op, n, r.local, r.attempt, r.batch, m, r.given, r.cited)
<1>. DEFINE R == Called(r.op, n, r.local, r.attempt, r.batch, r.made, r.given, r.cited)
<1>1. [r EXCEPT !.pc = n] = R
  BY OneReplaced
<1>2. [R EXCEPT !.attempt = m] = Called(r.op, n, r.local, m, r.batch, r.made, r.given, r.cited)
  BY DEF Called
<1>3. [R EXCEPT !.batch = m] = Called(r.op, n, r.local, r.attempt, m, r.made, r.given, r.cited)
  BY DEF Called
<1>4. [R EXCEPT !.made = m] = Called(r.op, n, r.local, r.attempt, r.batch, m, r.given, r.cited)
  BY DEF Called
<1>. HIDE DEF R
<1>5. /\ [r EXCEPT !.pc = n, !.attempt = m] = [[r EXCEPT !.pc = n] EXCEPT !.attempt = m]
      /\ [r EXCEPT !.pc = n, !.batch = m] = [[r EXCEPT !.pc = n] EXCEPT !.batch = m]
      /\ [r EXCEPT !.pc = n, !.made = m] = [[r EXCEPT !.pc = n] EXCEPT !.made = m]
  OBVIOUS
<1>. QED  BY <1>1, <1>2, <1>3, <1>4, <1>5, Zenon

LEMMA ThreeReplaced ==
    ASSUME NEW r, IsCall(r), NEW n, NEW m, NEW k
    PROVE  [r EXCEPT !.pc = n, !.batch = m, !.made = k] =
               Called(r.op, n, r.local, r.attempt, m, k, r.given, r.cited)
<1>. DEFINE R == Called(r.op, n, r.local, r.attempt, m, r.made, r.given, r.cited)
<1>1. [r EXCEPT !.pc = n, !.batch = m] = R
  BY TwoReplaced
<1>2. [R EXCEPT !.made = k] = Called(r.op, n, r.local, r.attempt, m, k, r.given, r.cited)
  BY DEF Called
<1>. HIDE DEF R
<1>3. [r EXCEPT !.pc = n, !.batch = m, !.made = k] = [[r EXCEPT !.pc = n, !.batch = m] EXCEPT !.made = k]
  OBVIOUS
<1>. QED  BY <1>1, <1>2, <1>3, Zenon

LEMMA CitedReplaced ==
    ASSUME NEW r, IsCall(r), NEW n, NEW m
    PROVE  [r EXCEPT !.pc = n, !.cited = m] = Called(r.op, n, r.local, r.attempt, r.batch, r.made, r.given, m)
<1>. DEFINE R == Called(r.op, n, r.local, r.attempt, r.batch, r.made, r.given, r.cited)
<1>1. [r EXCEPT !.pc = n] = R
  BY OneReplaced
<1>2. [R EXCEPT !.cited = m] = Called(r.op, n, r.local, r.attempt, r.batch, r.made, r.given, m)
  BY DEF Called
<1>. HIDE DEF R
<1>3. [r EXCEPT !.pc = n, !.cited = m] = [[r EXCEPT !.pc = n] EXCEPT !.cited = m]
  OBVIOUS
<1>. QED  BY <1>1, <1>2, <1>3, Zenon

LEMMA ModelsInit == Init => ModelsInv
<1>. SUFFICES ASSUME Init PROVE ModelsInv
  OBVIOUS
<1>1. /\ tag \in Nat /\ holder = Nobody /\ collection = 0 /\ vectors = {} /\ opened = {}
      /\ identity = [c \in Callers |-> 0] /\ call = [c \in Callers |-> Idle]
      /\ got = [c \in Callers |-> 0] /\ moved = [c \in Callers |-> 0]
  BY DEF Init
<1>2. \A c \in Callers : call[c] = Idle /\ identity[c] = 0
  BY <1>1
<1>3. ModelsTyped
  BY <1>1, <1>2, IdleFacts DEF ModelsTyped
<1>4. InferenceIsExclusive
  BY <1>1, <1>2, IdleFacts, HostServicesAssumption DEF InferenceIsExclusive, OnHost
<1>5. ASSUME NEW c \in Callers
      PROVE  CallInv(c)
  BY <1>1, <1>2, IdleFacts DEF CallInv, LockIsForLocal, IdentityIsOne, LooksTell, BetweenLooks, MadeIsOfOne, Embedding
<1>. QED  BY <1>1, <1>3, <1>4, <1>5 DEF ModelsInv, VectorsAreOfOne

\* What the others know and have is not touched.
LooksKept(c) ==
    /\ got' \in [Callers -> Nat] /\ moved' \in [Callers -> 0 .. 2]
    /\ \A d \in Callers : d # c => got'[d] = got[d] /\ moved'[d] = moved[d]

\* One call moves, to what its own invariant allows, and takes or gives back the lock for itself.
LEMMA OneCallMoves ==
    ASSUME ModelsInv, NEW c \in Callers, NEW r, IsCall(r), call' = [call EXCEPT ![c] = r],
           tag' = tag, admission' = admission, collection' \in Nat, identity' \in [Callers -> Nat], LooksKept(c),
           \/ holder' = holder /\ (Locked(c) <=> Locked(c)')
           \/ holder = Nobody /\ holder' = c /\ Locked(c)'
           \/ holder' = (IF holder = c THEN Nobody ELSE holder) /\ ~OnHost(c)',
           CallInv(c)', VectorsAreOfOne',
           \A d \in Callers : d # c => identity'[d] = identity[d] /\ (d \in opened' <=> d \in opened),
           collection' = collection \/ collection = 0
    PROVE  ModelsInv'
<1>1. call'[c] = r /\ \A d \in Callers : d # c => call'[d] = call[d]
  BY DEF ModelsInv, ModelsTyped
<1>2. ModelsTyped'
  <2>1. call' = [d \in Callers |-> call'[d]]
    BY DEF ModelsInv, ModelsTyped
  <2>2. \A d \in Callers : IsCall(call'[d])
    BY <1>1 DEF ModelsInv, ModelsTyped
  <2>3. holder' \in Callers \cup {Nobody} /\ tag' \in Nat
    BY DEF ModelsInv, ModelsTyped
  <2>4. got' \in [Callers -> Nat] /\ moved' \in [Callers -> 0 .. 2]
    BY DEF LooksKept
  <2>. QED  BY <2>1, <2>2, <2>3, <2>4 DEF ModelsTyped
<1>3. InferenceIsExclusive'
  <2>1. Nobody \notin Callers /\ \A d \in Callers : Locked(d) <=> holder = d
    BY HostServicesAssumption DEF ModelsInv, InferenceIsExclusive, Locked
  <2>2. \A d \in Callers : d # c => (Locked(d)' <=> Locked(d))
    BY <1>1 DEF Locked, OnHost
  <2>3. ~OnHost(c)' => ~Locked(c)'
    BY DEF Locked
  <2>4. \A d \in Callers : Locked(d)' <=> holder' = d
    BY <2>1, <2>2, <2>3
  <2>. QED  BY <2>4 DEF InferenceIsExclusive, Locked
<1>4. ASSUME NEW d \in Callers, d # c
      PROVE  CallInv(d)'
  <2>1. /\ call'[d] = call[d] /\ identity'[d] = identity[d] /\ (d \in opened' <=> d \in opened)
        /\ got'[d] = got[d] /\ moved'[d] = moved[d]
        /\ CallInv(d)
    BY <1>1, <1>4 DEF ModelsInv, LooksKept
  <2>2. d \in opened => collection' = collection
    BY <2>1 DEF CallInv, IdentityIsOne
  <2>3. LockIsForLocal(d)' /\ IdentityIsOne(d)' /\ LooksTell(d)'
    BY <2>1, <2>2 DEF CallInv, LockIsForLocal, IdentityIsOne, LooksTell, BetweenLooks
  <2>4. MadeIsOfOne(d)'
    BY <2>1 DEF CallInv, MadeIsOfOne
  <2>. QED  BY <2>3, <2>4 DEF CallInv
<1>. QED  BY <1>2, <1>3, <1>4 DEF ModelsInv

\* A call goes to another place with what it has.
LEMMA CallGoes ==
    ASSUME ModelsInv, NEW c \in Callers, NEW pc \in Waiting, Goto(c, pc)
    PROVE  \E r : /\ IsCall(r) /\ call' = [call EXCEPT ![c] = r] /\ call'[c] = r
                  /\ r.op = call[c].op /\ r.pc = pc /\ r.local = call[c].local
                  /\ r.batch = call[c].batch /\ r.made = call[c].made
<1>. DEFINE old == call[c]
            r == Called(old.op, pc, old.local, old.attempt, old.batch, old.made, old.given, old.cited)
<1>1. IsCall(old) /\ call = [d \in Callers |-> call[d]]
  BY DEF ModelsInv, ModelsTyped
<1>2. IsCall(old) /\ [old EXCEPT !.pc = pc] = r
  BY <1>1, OneReplaced
<1>3. call' = [call EXCEPT ![c] = [old EXCEPT !.pc = pc]]
  BY <1>1 DEF Goto
<1>4. IsCall(r) /\ r.op = old.op /\ r.pc = pc /\ r.local = old.local /\ r.batch = old.batch /\ r.made = old.made
  BY <1>1, CalledFields DEF IsCall
<1>. HIDE DEF r
<1>5. call' = [call EXCEPT ![c] = r] /\ call'[c] = r
  BY <1>1, <1>2, <1>3
<1>. QED  BY <1>4, <1>5

\* A call that embeds nothing moves, and no one resolves or opens anything.
LEMMA PlainCallMoves ==
    ASSUME ModelsInv, NEW c \in Callers, NEW r, IsCall(r), call' = [call EXCEPT ![c] = r],
           UNCHANGED <<admission, tag, collection, vectors, opened, identity>>, LooksKept(c),
           r.op \notin Embedding, r.pc # "open", r.pc = "lock" => admission /\ r.local,
           \/ holder' = holder /\ (Locked(c) <=> admission /\ r.pc \in {"request", "pause"} /\ r.local)
           \/ holder = Nobody /\ holder' = c /\ admission /\ r.pc = "request" /\ r.local
           \/ holder' = (IF holder = c THEN Nobody ELSE holder) /\ r.pc \notin {"request", "pause"}
    PROVE  ModelsInv'
<1>1. call'[c] = r
  BY DEF ModelsInv, ModelsTyped
<1>2. /\ OnHost(c)' <=> r.pc \in {"request", "pause"} /\ r.local
      /\ Locked(c)' <=> admission /\ r.pc \in {"request", "pause"} /\ r.local
  BY <1>1 DEF OnHost, Locked
<1>3. CallInv(c)'
  BY <1>1 DEF ModelsInv, CallInv, LockIsForLocal, IdentityIsOne, LooksTell, BetweenLooks, MadeIsOfOne
<1>4. VectorsAreOfOne' /\ collection' \in Nat /\ identity' \in [Callers -> Nat] /\ tag' = tag
  BY DEF ModelsInv, ModelsTyped, VectorsAreOfOne
<1>. QED  BY <1>2, <1>3, <1>4, OneCallMoves

\* A call fails; if it was at a model it gives the lock back.
LEMMA CallFails ==
    ASSUME ModelsInv, NEW c \in Callers, Fail(c),
           UNCHANGED <<admission, tag, collection, vectors, opened, identity>>, LooksKept(c),
           \/ holder' = holder /\ ~OnHost(c)
           \/ holder' = (IF holder = c THEN Nobody ELSE holder)
    PROVE  ModelsInv'
<1>1. PICK r : /\ IsCall(r) /\ call' = [call EXCEPT ![c] = r] /\ call'[c] = r
               /\ r.op = call[c].op /\ r.pc = "failed" /\ r.local = call[c].local
               /\ r.batch = call[c].batch /\ r.made = call[c].made
  BY CallGoes DEF Fail, Waiting
<1>2. ~OnHost(c)' /\ (~OnHost(c) => (Locked(c) <=> Locked(c)'))
  BY <1>1 DEF OnHost, Locked
<1>3. CallInv(c)'
  BY <1>1 DEF ModelsInv, CallInv, LockIsForLocal, IdentityIsOne, LooksTell, BetweenLooks, MadeIsOfOne
<1>4. VectorsAreOfOne' /\ collection' \in Nat /\ identity' \in [Callers -> Nat] /\ tag' = tag
  BY DEF ModelsInv, ModelsTyped, VectorsAreOfOne
<1>. QED  BY <1>1, <1>2, <1>3, <1>4, OneCallMoves

LEMMA RetagStep ==
    ASSUME ModelsInv, Retag
    PROVE  ModelsInv'
<1>1. /\ tag' \in 0 .. MaxTag /\ tag' # tag
      /\ UNCHANGED <<admission, holder, collection, vectors, opened, identity, call, got>>
      /\ moved' = [c \in Callers |-> IF ~BetweenLooks(c) THEN 0 ELSE IF moved[c] = 0 THEN 1 ELSE 2]
  BY DEF Retag, stored, settings
<1>2. ASSUME NEW c \in Callers
      PROVE  CallInv(c)'
  <2>1. CallInv(c) /\ moved[c] \in 0 .. 2 /\ (BetweenLooks(c)' <=> BetweenLooks(c))
    BY <1>1 DEF ModelsInv, ModelsTyped, BetweenLooks
  <2>2. LooksTell(c)'
    <3>1. CASE BetweenLooks(c) /\ moved[c] = 0
      <4>1. identity[c] = tag /\ moved'[c] = 1
        BY <1>1, <2>1, <3>1 DEF CallInv, LooksTell
      <4>. QED  BY <1>1, <4>1 DEF LooksTell
    <3>2. CASE BetweenLooks(c) /\ moved[c] # 0
      <4>1. moved'[c] = 2
        BY <1>1, <3>2
      <4>. QED  BY <4>1 DEF LooksTell
    <3>3. CASE ~BetweenLooks(c)
      BY <2>1, <3>3 DEF LooksTell
    <3>. QED  BY <3>1, <3>2, <3>3
  <2>3. LockIsForLocal(c)' /\ IdentityIsOne(c)' /\ MadeIsOfOne(c)'
    BY <1>1, <2>1 DEF CallInv, LockIsForLocal, IdentityIsOne, MadeIsOfOne
  <2>. QED  BY <2>2, <2>3 DEF CallInv
<1>3. InferenceIsExclusive' /\ VectorsAreOfOne'
  BY <1>1 DEF ModelsInv, InferenceIsExclusive, OnHost, VectorsAreOfOne
<1>4. ModelsTyped'
  <2>1. tag' \in Nat
    BY <1>1, HostServicesAssumption
  <2>2. moved' \in [Callers -> 0 .. 2]
    BY <1>1
  <2>. QED  BY <1>1, <2>1, <2>2 DEF ModelsInv, ModelsTyped
<1>. QED  BY <1>2, <1>3, <1>4 DEF ModelsInv

LEMMA ForgetKeeps ==
    ASSUME ModelsInv, NEW c \in Callers, Forget(c)
    PROVE  LooksKept(c)
BY DEF ModelsInv, ModelsTyped, Forget, LooksKept

LEMMA NothingLooked ==
    ASSUME ModelsInv, NEW c \in Callers, UNCHANGED looks
    PROVE  LooksKept(c)
BY DEF ModelsInv, ModelsTyped, looks, LooksKept

LEMMA RestartStep ==
    ASSUME ModelsInv, NEW c \in Callers, Restart(c)
    PROVE  ModelsInv'
<1>1. /\ call' = [call EXCEPT ![c] = Idle] /\ call'[c] = Idle
      /\ identity' = [identity EXCEPT ![c] = 0] /\ opened' = opened \ {c}
      /\ holder' = (IF holder = c THEN Nobody ELSE holder)
      /\ UNCHANGED <<admission, tag, collection, vectors>> /\ LooksKept(c)
  BY ForgetKeeps DEF Restart, Release, settings, ModelsInv, ModelsTyped
<1>2. /\ collection' \in Nat /\ identity' \in [Callers -> Nat] /\ identity'[c] = 0
      /\ \A d \in Callers : d # c => identity'[d] = identity[d] /\ (d \in opened' <=> d \in opened)
  BY <1>1 DEF ModelsInv, ModelsTyped
<1>3. CallInv(c)'
  BY <1>1, <1>2, IdleFacts
     DEF CallInv, LockIsForLocal, IdentityIsOne, LooksTell, BetweenLooks, MadeIsOfOne, Embedding
<1>4. ~OnHost(c)' /\ VectorsAreOfOne'
  BY <1>1, IdleFacts DEF OnHost, VectorsAreOfOne, ModelsInv
<1>. QED  BY <1>1, <1>2, <1>3, <1>4, IdleFacts, OneCallMoves

LEMMA ReturnStep ==
    ASSUME ModelsInv, NEW c \in Callers, Return(c)
    PROVE  ModelsInv'
<1>1. /\ call' = [call EXCEPT ![c] = Idle] /\ ~Locked(c) /\ LooksKept(c)
      /\ UNCHANGED <<admission, tag, holder, collection, vectors, opened, identity>>
  BY ForgetKeeps DEF Return, stored, settings, OnHost, Locked
<1>. QED  BY <1>1, IdleFacts, PlainCallMoves DEF Embedding

LEMMA OrphanStep ==
    ASSUME ModelsInv, OrphanEnds
    PROVE  ModelsInv'
<1>1. UNCHANGED <<admission, tag, holder, collection, vectors, opened, identity, call, got, moved>>
  BY DEF OrphanEnds, settings, stored, looks
<1>. QED  BY <1>1 DEF ModelsInv, ModelsTyped, InferenceIsExclusive, OnHost, VectorsAreOfOne,
              CallInv, LockIsForLocal, IdentityIsOne, LooksTell, BetweenLooks, MadeIsOfOne

\* The calls that begin.
LEMMA BegunCall ==
    ASSUME NEW op \in Operations, NEW pc \in Waiting, NEW local, NEW n \in Nat, NEW given,
           NEW r, r = Called(op, pc, local, 0, n, <<>>, given, <<>>)
    PROVE  IsCall(r) /\ r.op = op /\ r.pc = pc /\ r.local = local /\ r.batch = n /\ r.made = <<>>
BY DEF Called, IsCall

LEMMA RankedCall ==
    ASSUME NEW pc, NEW r, r = [Idle EXCEPT !.op = "rerank", !.pc = pc]
    PROVE  r = Called("rerank", pc, TRUE, 0, 0, <<>>, <<>>, <<>>)
BY DEF Idle, Called

LEMMA EmbeddedCall ==
    ASSUME NEW op, NEW n, NEW pc, NEW local, NEW r,
           r = [Idle EXCEPT !.op = op, !.local = local, !.batch = n, !.pc = pc]
    PROVE  r = Called(op, pc, local, 0, n, <<>>, <<>>, <<>>)
BY DEF Idle, Called

LEMMA AskStep ==
    ASSUME ModelsInv, NEW c \in Callers, Ask(c)
    PROVE  ModelsInv'
<1>1. /\ At(c, "idle") /\ UNCHANGED <<admission, tag, holder, collection, vectors, opened, identity>>
      /\ LooksKept(c)
  BY NothingLooked DEF Ask, stored, settings
<1>2. PICK e \in Evidence, local \in BOOLEAN, pc \in {"failed", "lock", "request"}, r \in {call'[c]} :
         /\ pc = "lock" => admission /\ local
         /\ pc = "request" => ~(admission /\ local)
         /\ call' = [call EXCEPT ![c] = r]
         /\ r = [Idle EXCEPT !.op = "answer", !.local = local, !.given = e, !.pc = pc]
  <2>1. PICK e \in Evidence, local \in BOOLEAN, pc \in {"failed", "lock", "request"} :
           /\ pc = "lock" => admission /\ local
           /\ pc = "request" => ~(admission /\ local)
           /\ call' = [call EXCEPT ![c] = [Idle EXCEPT !.op = "answer", !.local = local, !.given = e, !.pc = pc]]
    BY Zenon DEF Ask, Entrance
  <2>2. call'[c] = [Idle EXCEPT !.op = "answer", !.local = local, !.given = e, !.pc = pc]
    BY <2>1 DEF ModelsInv, ModelsTyped
  <2>3. /\ call' = [call EXCEPT ![c] = call'[c]]
        /\ pc = "lock" => admission /\ local
        /\ pc = "request" => ~(admission /\ local)
    BY <2>1, <2>2
  <2>. QED  BY <2>2, <2>3, Zenon
<1>3. IsCall(r) /\ r.op = "answer" /\ r.pc = pc /\ r.local = local
  <2>1. r = Called("answer", pc, local, 0, 0, <<>>, e, <<>>)
    <3>1. r = [Idle EXCEPT !.op = "answer", !.local = local, !.given = e, !.pc = pc]
      BY <1>2
    <3>. QED  BY <3>1 DEF Idle, Called
  <2>2. "answer" \in Operations /\ pc \in Waiting /\ 0 \in Nat
    BY DEF Operations, Waiting
  <2>. QED  BY <2>1, <2>2, BegunCall
<1>4. ~Locked(c)
  BY <1>1 DEF Locked, OnHost, At
<1>. QED  BY <1>1, <1>2, <1>3, <1>4, PlainCallMoves DEF Embedding

LEMMA RankStep ==
    ASSUME ModelsInv, NEW c \in Callers, Rank(c)
    PROVE  ModelsInv'
<1>1. /\ At(c, "idle") /\ UNCHANGED <<admission, tag, holder, collection, vectors, opened, identity>>
      /\ LooksKept(c) /\ admission
  BY NothingLooked DEF Rank, stored, settings
<1>2. PICK pc \in {"done", "failed", "lock"}, r \in {call'[c]} :
         call' = [call EXCEPT ![c] = r] /\ r = [Idle EXCEPT !.op = "rerank", !.pc = pc]
  <2>1. PICK pc \in {"done", "failed", "lock"} :
           call' = [call EXCEPT ![c] = [Idle EXCEPT !.op = "rerank", !.pc = pc]]
    BY DEF Rank
  <2>2. call'[c] = [Idle EXCEPT !.op = "rerank", !.pc = pc]
    BY <2>1 DEF ModelsInv, ModelsTyped
  <2>. QED  BY <2>1, <2>2
<1>3. IsCall(r) /\ r.op = "rerank" /\ r.pc = pc /\ r.local
  <2>1. r = Called("rerank", pc, TRUE, 0, 0, <<>>, <<>>, <<>>)
    BY <1>2, RankedCall
  <2>2. "rerank" \in Operations /\ pc \in Waiting
    BY DEF Operations, Waiting
  <2>3. IsCall(r) /\ r.op = "rerank" /\ r.pc = pc /\ r.local = TRUE
    BY <2>1, <2>2 DEF Called, IsCall
  <2>. QED  BY <2>3
<1>4. ~Locked(c)
  BY <1>1 DEF Locked, OnHost, At
<1>. QED  BY <1>1, <1>2, <1>3, <1>4, PlainCallMoves DEF Embedding

\* The call r is the call old at another place.
Continues(old, r, pc) == IsCall(r) /\ r.op = old.op /\ r.pc = pc /\ r.local = old.local

LEMMA PlaceChanged ==
    ASSUME NEW old, IsCall(old), NEW pc \in Waiting, NEW r, r = [old EXCEPT !.pc = pc]
    PROVE  Continues(old, r, pc) /\ r.batch = old.batch /\ r.made = old.made
<1>1. r = Called(old.op, pc, old.local, old.attempt, old.batch, old.made, old.given, old.cited)
  BY OneReplaced, Zenon
<1>2. old.op \in Operations /\ old.batch \in Nat /\ old.made \in Seq(Made)
  BY DEF IsCall
<1>. QED  BY <1>1, <1>2 DEF Called, IsCall, Continues

LEMMA AttemptChanged ==
    ASSUME NEW old, IsCall(old), NEW pc \in Waiting, NEW m, NEW r, r = [old EXCEPT !.pc = pc, !.attempt = m]
    PROVE  Continues(old, r, pc) /\ r.batch = old.batch /\ r.made = old.made
<1>1. r = Called(old.op, pc, old.local, m, old.batch, old.made, old.given, old.cited)
  BY TwoReplaced, Zenon
<1>2. old.op \in Operations /\ old.batch \in Nat /\ old.made \in Seq(Made)
  BY DEF IsCall
<1>. QED  BY <1>1, <1>2 DEF Called, IsCall, Continues

LEMMA CitedChanged ==
    ASSUME NEW old, IsCall(old), NEW pc \in Waiting, NEW m, NEW r, r = [old EXCEPT !.pc = pc, !.cited = m]
    PROVE  Continues(old, r, pc) /\ r.batch = old.batch /\ r.made = old.made
<1>1. r = Called(old.op, pc, old.local, old.attempt, old.batch, old.made, old.given, m)
  BY CitedReplaced, Zenon
<1>2. old.op \in Operations /\ old.batch \in Nat /\ old.made \in Seq(Made)
  BY DEF IsCall
<1>. QED  BY <1>1, <1>2 DEF Called, IsCall, Continues

LEMMA CallIsThere ==
    ASSUME ModelsInv, NEW c \in Callers
    PROVE  /\ IsCall(call[c]) /\ CallInv(c) /\ (Locked(c) <=> holder = c) /\ c # Nobody
           /\ \A r : call' = [call EXCEPT ![c] = r] => call'[c] = r
BY HostServicesAssumption DEF ModelsInv, ModelsTyped, InferenceIsExclusive, Locked

LEMMA RespondStep ==
    ASSUME ModelsInv, NEW c \in Callers, Respond(c)
    PROVE  ModelsInv'
<1>1. /\ call[c].op = "answer" /\ At(c, "request")
      /\ UNCHANGED <<admission, tag, collection, vectors, opened, identity>>
      /\ IsCall(call[c]) /\ LooksKept(c)
  BY CallIsThere, NothingLooked DEF Respond, stored, settings
<1>2. ASSUME NEW reply, Receive(c, reply), Release(c)
      PROVE  ModelsInv'
  <2>. DEFINE cited == [n \in DOMAIN reply.aliases |-> Passage(c, reply.aliases[n])]
  <2>1. PICK r : /\ call' = [call EXCEPT ![c] = r]
                 /\ \/ r = [call[c] EXCEPT !.pc = "done", !.cited = cited]
                    \/ r = [call[c] EXCEPT !.pc = "failed"]
    BY <1>2 DEF Receive
  <2>. HIDE DEF cited
  <2>2. "done" \in Waiting /\ "failed" \in Waiting
    BY DEF Waiting
  <2>3. PICK pc \in {"done", "failed"} : Continues(call[c], r, pc)
    <3>1. CASE r = [call[c] EXCEPT !.pc = "done", !.cited = cited]
      BY <1>1, <2>2, <3>1, CitedChanged
    <3>2. CASE r = [call[c] EXCEPT !.pc = "failed"]
      BY <1>1, <2>2, <3>2, PlaceChanged
    <3>. QED  BY <2>1, <3>1, <3>2
  <2>. QED  BY <1>1, <1>2, <2>1, <2>3, PlainCallMoves DEF Continues, Embedding, Release
<1>3. CASE Retry(c)
  <2>1. PICK r : /\ call' = [call EXCEPT ![c] = r] /\ holder' = holder
                 /\ r = [call[c] EXCEPT !.pc = "pause", !.attempt = call[c].attempt + 1]
    BY <1>1, <1>3 DEF Retry, ModelsInv, ModelsTyped
  <2>2. "pause" \in Waiting
    BY DEF Waiting
  <2>3. Continues(call[c], r, "pause")
    BY <1>1, <2>1, <2>2, AttemptChanged
  <2>4. Locked(c) <=> admission /\ call[c].local
    BY <1>1 DEF Locked, OnHost, At
  <2>. QED  BY <1>1, <2>1, <2>3, <2>4, PlainCallMoves DEF Continues, Embedding
<1>4. CASE Fail(c) /\ Release(c)
  BY <1>1, <1>4, CallFails DEF Release
<1>. QED  BY <1>2, <1>3, <1>4 DEF Respond

LEMMA AgainStep ==
    ASSUME ModelsInv, NEW c \in Callers, Again(c)
    PROVE  ModelsInv'
<1>1. /\ At(c, "pause") /\ Goto(c, "request") /\ LooksKept(c)
      /\ UNCHANGED <<admission, tag, holder, collection, vectors, opened, identity>>
  BY NothingLooked DEF Again, stored, settings
<1>2. "request" \in Waiting
  BY DEF Waiting
<1>3. PICK r : /\ IsCall(r) /\ call' = [call EXCEPT ![c] = r] /\ call'[c] = r
               /\ r.op = call[c].op /\ r.pc = "request" /\ r.local = call[c].local
               /\ r.batch = call[c].batch /\ r.made = call[c].made
  BY <1>1, <1>2, CallGoes
<1>4. r.op \notin Embedding
  BY <1>1, <1>3, CallIsThere DEF At, CallInv, MadeIsOfOne
<1>5. Locked(c) <=> admission /\ r.local
  BY <1>1, <1>3 DEF Locked, OnHost, At
<1>. QED  BY <1>1, <1>3, <1>4, <1>5, PlainCallMoves

LEMMA TakeLockStep ==
    ASSUME ModelsInv, NEW c \in Callers, TakeLock(c)
    PROVE  ModelsInv'
<1>1. /\ At(c, "lock") /\ UNCHANGED <<admission, tag, collection, vectors, opened, identity, got, moved>>
      /\ LooksKept(c)
  BY NothingLooked DEF TakeLock, stored, settings, looks
<1>2. CASE Fail(c) /\ UNCHANGED holder
  <2>1. ~OnHost(c)
    BY <1>1 DEF OnHost, At
  <2>. QED  BY <1>1, <1>2, <2>1, CallFails
<1>3. CASE holder = Nobody /\ holder' = c /\ Goto(c, "request")
  <2>1. "request" \in Waiting
    BY DEF Waiting
  <2>2. PICK r : /\ IsCall(r) /\ call' = [call EXCEPT ![c] = r] /\ call'[c] = r
                 /\ r.op = call[c].op /\ r.pc = "request" /\ r.local = call[c].local
                 /\ r.batch = call[c].batch /\ r.made = call[c].made
    BY <1>3, <2>1, CallGoes
  <2>3. Locked(c)'
    BY <1>1, <2>2, CallIsThere DEF Locked, OnHost, At, CallInv, LockIsForLocal
  <2>4. CallInv(c)'
    <3>1. CallInv(c) /\ call[c].pc = "lock"
      BY <1>1, CallIsThere DEF At
    <3>2. LockIsForLocal(c)' /\ IdentityIsOne(c)' /\ LooksTell(c)'
      BY <1>1, <2>2, <3>1 DEF CallInv, LockIsForLocal, IdentityIsOne, LooksTell, BetweenLooks
    <3>3. MadeIsOfOne(c)'
      BY <1>1, <2>2, <3>1 DEF CallInv, MadeIsOfOne
    <3>. QED  BY <3>2, <3>3 DEF CallInv
  <2>5. VectorsAreOfOne' /\ collection' \in Nat /\ identity' \in [Callers -> Nat]
    BY <1>1 DEF ModelsInv, ModelsTyped, VectorsAreOfOne
  <2>. QED  BY <1>1, <1>3, <2>2, <2>3, <2>4, <2>5, OneCallMoves
<1>. QED  BY <1>2, <1>3 DEF TakeLock

LEMMA WorkStep ==
    ASSUME ModelsInv, NEW c \in Callers, Work(c)
    PROVE  ModelsInv'
<1>1. /\ call[c].op = "rerank" /\ Release(c) /\ LooksKept(c)
      /\ UNCHANGED <<admission, tag, collection, vectors, opened, identity>>
  BY NothingLooked DEF Work, stored, settings
<1>2. PICK pc \in {"done", "failed"} : Goto(c, pc)
  BY DEF Work
<1>3. pc \in Waiting
  BY DEF Waiting
<1>4. PICK r : /\ IsCall(r) /\ call' = [call EXCEPT ![c] = r] /\ call'[c] = r
               /\ r.op = call[c].op /\ r.pc = pc /\ r.local = call[c].local
               /\ r.batch = call[c].batch /\ r.made = call[c].made
  BY <1>2, <1>3, CallGoes
<1>. QED  BY <1>1, <1>4, PlainCallMoves DEF Embedding, Release

LEMMA EmbedStep ==
    ASSUME ModelsInv, NEW c \in Callers, Embed(c)
    PROVE  ModelsInv'
<1>1. /\ At(c, "idle") /\ UNCHANGED <<admission, tag, holder, collection, vectors, opened, identity>>
      /\ LooksKept(c)
  BY NothingLooked DEF Embed, stored, settings
<1>2. PICK op \in Embedding, n \in {0, 1}, r \in {call'[c]} :
         /\ n # 0 => c \in opened
         /\ call' = [call EXCEPT ![c] = r]
         /\ r = [Idle EXCEPT !.op = op, !.local = loopback, !.batch = n, !.pc = "resolve"]
  <2>1. PICK op \in Embedding, n \in {0, 1} :
           /\ n # 0 => c \in opened
           /\ call' = [call EXCEPT ![c] = [Idle EXCEPT !.op = op, !.local = loopback, !.batch = n, !.pc = "resolve"]]
    BY DEF Embed
  <2>2. call'[c] = [Idle EXCEPT !.op = op, !.local = loopback, !.batch = n, !.pc = "resolve"]
    BY <2>1 DEF ModelsInv, ModelsTyped
  <2>. QED  BY <2>1, <2>2
<1>3. /\ IsCall(r) /\ r.op = op /\ r.pc = "resolve" /\ r.batch = n /\ r.made = <<>>
  <2>1. r = Called(op, "resolve", loopback, 0, n, <<>>, <<>>, <<>>)
    <3>1. r = [Idle EXCEPT !.op = op, !.local = loopback, !.batch = n, !.pc = "resolve"]
      BY <1>2
    <3>. QED  BY <3>1, EmbeddedCall, Zenon
  <2>2. op \in Operations /\ "resolve" \in Waiting /\ n \in Nat
    BY DEF Operations, Waiting, Embedding
  <2>. QED  BY <2>1, <2>2 DEF Called, IsCall
<1>4. call'[c] = r /\ ToSet(r.made) = {}
  BY <1>2, <1>3 DEF ToSet
<1>5. CallInv(c)'
  <2>1. CallInv(c)
    BY CallIsThere
  <2>. QED  BY <1>1, <1>2, <1>3, <1>4, <2>1
            DEF At, CallInv, LockIsForLocal, IdentityIsOne, LooksTell, BetweenLooks, MadeIsOfOne
<1>6. ~Locked(c) /\ ~Locked(c)'
  BY <1>1, <1>3, <1>4 DEF Locked, OnHost, At
<1>7. VectorsAreOfOne' /\ collection' \in Nat /\ identity' \in [Callers -> Nat]
  BY <1>1 DEF ModelsInv, ModelsTyped, VectorsAreOfOne
<1>. QED  BY <1>1, <1>2, <1>3, <1>5, <1>6, <1>7, OneCallMoves

\* The tag is what the caller knows, or the call fails; it goes on to another
\* look, or to its request if there is no lock to take.
LEMMA ValidateStep ==
    ASSUME ModelsInv, NEW c \in Callers, NEW r, Known(c), identity' = [identity EXCEPT ![c] = tag],
           moved' = [moved EXCEPT ![c] = 0], got' = got, call' = [call EXCEPT ![c] = r], IsCall(r), ~OnHost(c),
           r.pc \in {"request", "pause"} => ~(admission /\ r.local),
           UNCHANGED <<admission, tag, holder, collection, vectors, opened>>, CallInv(c)'
    PROVE  ModelsInv'
<1>1. ~Locked(c) /\ ~Locked(c)'
  BY CallIsThere DEF OnHost, Locked
<1>2. /\ collection' \in Nat /\ identity' \in [Callers -> Nat] /\ VectorsAreOfOne'
      /\ \A d \in Callers : d # c => identity'[d] = identity[d] /\ (d \in opened' <=> d \in opened)
  BY DEF ModelsInv, ModelsTyped, VectorsAreOfOne
<1>3. LooksKept(c)
  BY DEF ModelsInv, ModelsTyped, LooksKept
<1>. QED  BY <1>1, <1>2, <1>3, OneCallMoves

LEMMA ResolveStep ==
    ASSUME ModelsInv, NEW c \in Callers, Resolve(c)
    PROVE  ModelsInv'
<1>. DEFINE pc == IF call[c].batch = 0 THEN "open" ELSE Entrance(call[c].local)
<1>1. At(c, "resolve") /\ UNCHANGED <<admission, tag, holder, collection, vectors, opened, got>> /\ ~OnHost(c)
  BY DEF Resolve, stored, settings, OnHost, At
<1>2. CASE Fail(c) /\ UNCHANGED <<identity, moved>>
  <2>1. LooksKept(c)
    BY <1>1, <1>2, NothingLooked DEF looks
  <2>. QED  BY <1>1, <1>2, <2>1, CallFails
<1>3. CASE /\ Known(c) /\ identity' = [identity EXCEPT ![c] = tag] /\ moved' = [moved EXCEPT ![c] = 0]
           /\ call' = [call EXCEPT ![c] = [call[c] EXCEPT !.pc = pc]]
  <2>1. PICK r : r = [call[c] EXCEPT !.pc = pc] /\ call' = [call EXCEPT ![c] = r] /\ call'[c] = r
    BY <1>3, CallIsThere
  <2>2. pc \in {"open", "lock", "request"} /\ pc \in Waiting
    BY DEF Waiting, Entrance
  <2>3. Continues(call[c], r, pc) /\ r.batch = call[c].batch /\ r.made = call[c].made
    <3>1. IsCall(call[c])
      BY CallIsThere
    <3>. QED  BY <2>1, <2>2, <3>1, PlaceChanged
  <2>4. /\ CallInv(c) /\ tag # 0 /\ identity[c] \in {0, tag} /\ identity'[c] = tag /\ moved'[c] = 0
        /\ tag \in Nat /\ collection \in Nat
    BY <1>3, CallIsThere DEF Known, ModelsInv, ModelsTyped
  <2>5. /\ pc = "lock" => admission /\ call[c].local
        /\ pc = "request" => ~(admission /\ call[c].local)
        /\ pc = "open" <=> call[c].batch = 0
    BY DEF Entrance
  <2>. HIDE DEF pc
  <2>6. CallInv(c)'
    <3>1. LockIsForLocal(c)'
      BY <1>1, <2>1, <2>3, <2>5 DEF LockIsForLocal, Continues
    <3>2. IdentityIsOne(c)'
      BY <1>1, <2>1, <2>3, <2>4 DEF CallInv, IdentityIsOne
    <3>3. LooksTell(c)'
      <4>1. call'[c].pc # "recheck" /\ moved'[c] = 0 /\ identity'[c] = tag'
        BY <1>1, <2>1, <2>2, <2>3, <2>4 DEF Continues
      <4>. QED  BY <4>1 DEF LooksTell
    <3>4. ASSUME call[c].op \in Embedding
          PROVE  /\ call[c].batch # 0 => c \in opened
                 /\ call[c].batch = 0 => ToSet(r.made) = {}
                 /\ \A v \in ToSet(r.made) : IsOf(v, tag)
      <4>1. /\ call[c].batch # 0 => c \in opened
            /\ call[c].batch = 0 => ToSet(call[c].made) = {}
            /\ \A v \in ToSet(call[c].made) : IsOf(v, identity[c])
        BY <2>4, <3>4 DEF CallInv, MadeIsOfOne
      <4>2. c \in opened => identity[c] = tag
        BY <2>4 DEF CallInv, IdentityIsOne
      <4>. QED  BY <2>3, <4>1, <4>2
    <3>5. MadeIsOfOne(c)'
      <4>1. r.op = call[c].op /\ r.pc = pc /\ r.batch = call[c].batch /\ opened' = opened
        BY <1>1, <2>3 DEF Continues
      <4>. QED  BY <2>1, <2>2, <2>4, <2>5, <3>4, <4>1 DEF MadeIsOfOne
    <3>. QED  BY <3>1, <3>2, <3>3, <3>5 DEF CallInv
  <2>7. IsCall(r) /\ (r.pc \in {"request", "pause"} => ~(admission /\ r.local))
    BY <2>2, <2>3, <2>5 DEF Continues
  <2>. QED  BY <1>1, <1>3, <2>1, <2>6, <2>7, ValidateStep
<1>. QED  BY <1>2, <1>3 DEF Resolve, Validate

LEMMA OpenStep ==
    ASSUME ModelsInv, NEW c \in Callers, Open(c)
    PROVE  ModelsInv'
<1>1. /\ At(c, "open") /\ UNCHANGED <<admission, tag, holder, vectors, identity, got, moved>> /\ ~OnHost(c)
      /\ LooksKept(c)
  BY NothingLooked DEF Open, settings, looks, OnHost, At
<1>2. CASE Fail(c) /\ UNCHANGED <<collection, opened>>
  BY <1>1, <1>2, CallFails
<1>3. CASE /\ collection \in {0, identity[c]} /\ collection' = identity[c] /\ opened' = opened \cup {c}
           /\ call' = [call EXCEPT ![c].pc = "resolve", ![c].batch = 1]
  <2>1. PICK r : /\ r = [call[c] EXCEPT !.pc = "resolve", !.batch = 1]
                 /\ call' = [call EXCEPT ![c] = r] /\ call'[c] = r
    BY <1>3, CallIsThere DEF ModelsInv, ModelsTyped
  <2>2. "resolve" \in Waiting
    BY DEF Waiting
  <2>3. Continues(call[c], r, "resolve") /\ r.batch = 1 /\ r.made = call[c].made
    <3>. DEFINE old == call[c]
    <3>1. IsCall(old) /\ r = [old EXCEPT !.pc = "resolve", !.batch = 1]
      BY <2>1, CallIsThere
    <3>. HIDE DEF old
    <3>2. Continues(old, r, "resolve") /\ r.batch = 1 /\ r.made = old.made
      <4>1. r = Called(old.op, "resolve", old.local, old.attempt, 1, old.made, old.given, old.cited)
        BY <3>1, TwoReplaced, Zenon
      <4>2. old.op \in Operations /\ old.batch \in Nat /\ old.made \in Seq(Made)
        BY <3>1 DEF IsCall
      <4>. QED  BY <2>2, <4>1, <4>2 DEF Called, IsCall, Continues
    <3>. QED  BY <3>2 DEF old
  <2>4. CallInv(c) /\ identity[c] # 0 /\ identity[c] \in Nat /\ VectorsAreOfOne
    BY <1>1, CallIsThere DEF CallInv, IdentityIsOne, At, ModelsInv, ModelsTyped
  <2>5. CallInv(c)'
    <3>1. r.pc = "resolve" /\ r.op = call[c].op /\ r.local = call[c].local
      BY <2>3 DEF Continues
    <3>2. LockIsForLocal(c)' /\ LooksTell(c)' /\ IdentityIsOne(c)'
      BY <1>1, <1>3, <2>1, <2>4, <3>1 DEF LockIsForLocal, LooksTell, BetweenLooks, IdentityIsOne
    <3>3. call[c].op \in Embedding => \A v \in ToSet(call[c].made) : IsOf(v, identity[c])
      BY <2>4 DEF CallInv, MadeIsOfOne
    <3>4. MadeIsOfOne(c)'
      <4>1. /\ call'[c].op = call[c].op /\ call'[c].batch = 1 /\ call'[c].made = call[c].made
            /\ call'[c].pc = "resolve" /\ identity'[c] = identity[c] /\ c \in opened'
        BY <1>1, <1>3, <2>1, <2>3, <3>1
      <4>. QED  BY <3>3, <4>1 DEF MadeIsOfOne
    <3>. QED  BY <3>2, <3>4 DEF CallInv
  <2>6. VectorsAreOfOne' /\ collection' \in Nat /\ identity' \in [Callers -> Nat]
    BY <1>1, <1>3, <2>4 DEF VectorsAreOfOne, ModelsInv, ModelsTyped
  <2>7. ~Locked(c) /\ ~Locked(c)' /\ (collection' = collection \/ collection = 0)
    BY <1>1, <1>3, <2>1, <2>3 DEF Locked, OnHost, Continues
  <2>8. \A d \in Callers : d # c => identity'[d] = identity[d] /\ (d \in opened' <=> d \in opened)
    BY <1>1, <1>3
  <2>. QED  BY <1>1, <2>1, <2>3, <2>5, <2>6, <2>7, <2>8, OneCallMoves DEF Continues
<1>. QED  BY <1>2, <1>3 DEF Open

LEMMA VectorsStep ==
    ASSUME ModelsInv, NEW c \in Callers, Vectors(c)
    PROVE  ModelsInv'
<1>1. /\ call[c].op \in Embedding /\ At(c, "request") /\ Release(c)
      /\ UNCHANGED <<admission, tag, collection, vectors, opened, identity, moved>>
  BY DEF Vectors, stored, settings
<1>2. CASE Fail(c) /\ UNCHANGED got
  <2>1. LooksKept(c)
    BY <1>1, <1>2, NothingLooked DEF looks
  <2>. QED  BY <1>1, <1>2, <2>1, CallFails DEF Release
<1>3. CASE Goto(c, "recheck") /\ got' = [got EXCEPT ![c] = tag]
  <2>1. "recheck" \in Waiting
    BY DEF Waiting
  <2>2. PICK r : /\ IsCall(r) /\ call' = [call EXCEPT ![c] = r] /\ call'[c] = r
                 /\ r.op = call[c].op /\ r.pc = "recheck" /\ r.local = call[c].local
                 /\ r.batch = call[c].batch /\ r.made = call[c].made
    BY <1>3, <2>1, CallGoes
  <2>3. CallInv(c) /\ call[c].pc = "request" /\ tag \in Nat /\ LooksKept(c) /\ got'[c] = tag
    BY <1>1, <1>3, CallIsThere DEF At, ModelsInv, ModelsTyped, LooksKept
  <2>4. CallInv(c)'
    <3>1. LooksTell(c)'
      <4>1. BetweenLooks(c)
        BY <1>1, <2>3 DEF BetweenLooks
      <4>2. /\ moved[c] = 0 => identity[c] = tag
            /\ moved[c] = 1 => identity[c] # tag
        BY <2>3, <4>1 DEF CallInv, LooksTell
      <4>. QED  BY <1>1, <2>3, <4>2 DEF LooksTell
    <3>2. LockIsForLocal(c)' /\ IdentityIsOne(c)'
      BY <1>1, <2>2, <2>3 DEF CallInv, LockIsForLocal, IdentityIsOne
    <3>3. MadeIsOfOne(c)'
      BY <1>1, <2>2, <2>3 DEF CallInv, MadeIsOfOne
    <3>. QED  BY <3>1, <3>2, <3>3 DEF CallInv
  <2>5. ~OnHost(c)' /\ VectorsAreOfOne' /\ collection' \in Nat /\ identity' \in [Callers -> Nat]
    BY <1>1, <2>2 DEF OnHost, VectorsAreOfOne, ModelsInv, ModelsTyped
  <2>. QED  BY <1>1, <2>2, <2>3, <2>4, <2>5, OneCallMoves DEF Release
<1>. QED  BY <1>2, <1>3 DEF Vectors

LEMMA RecheckStep ==
    ASSUME ModelsInv, NEW c \in Callers, Recheck(c)
    PROVE  ModelsInv'
<1>. DEFINE old == call[c]
            pc == IF LastBatch(c) THEN "store" ELSE "resolve"
            n == IF LastBatch(c) THEN old.batch ELSE old.batch + 1
            made == Append(old.made, Batch(c))
<1>1. At(c, "recheck") /\ UNCHANGED <<admission, tag, holder, collection, vectors, opened, got>> /\ ~OnHost(c)
  BY DEF Recheck, stored, settings, OnHost, At
<1>2. CASE Fail(c) /\ UNCHANGED <<identity, moved>>
  <2>1. LooksKept(c)
    BY <1>1, <1>2, NothingLooked DEF looks
  <2>. QED  BY <1>1, <1>2, <2>1, CallFails
<1>3. CASE /\ Known(c) /\ identity' = [identity EXCEPT ![c] = tag] /\ moved' = [moved EXCEPT ![c] = 0]
           /\ call' = [call EXCEPT ![c] = Kept(c)]
  <2>1. PICK r : /\ r = [old EXCEPT !.pc = pc, !.batch = n, !.made = made]
                 /\ call' = [call EXCEPT ![c] = r] /\ call'[c] = r
    BY <1>3, CallIsThere DEF Kept
  <2>2. IsCall(old) /\ CallInv(c) /\ old.batch \in Nat /\ old.made \in Seq(Made)
    BY CallIsThere DEF IsCall
  <2>3. pc \in {"store", "resolve"} /\ n \in Nat /\ (old.batch # 0 => n # 0)
    BY <2>2
  <2>4. Batch(c) \in Made /\ Batch(c).of = got[c] /\ (Batch(c).returned <=> moved[c] = 2)
    BY DEF Batch, Made, ModelsInv, ModelsTyped
  <2>5. made \in Seq(Made) /\ ToSet(made) = ToSet(old.made) \cup {Batch(c)}
    BY <2>2, <2>4, Appended
  <2>. HIDE DEF pc, n, made
  <2>6. IsCall(r) /\ r.op = old.op /\ r.pc = pc /\ r.local = old.local /\ r.batch = n /\ r.made = made
    <3>. HIDE DEF old
    <3>1. r = Called(old.op, pc, old.local, old.attempt, n, made, old.given, old.cited)
      BY <2>1, <2>2, ThreeReplaced, Zenon
    <3>2. old.op \in Operations /\ pc \in Waiting
      BY <2>2, <2>3 DEF IsCall, Waiting
    <3>. QED  BY <2>3, <2>5, <3>1, <3>2 DEF Called, IsCall
  <2>7. /\ tag # 0 /\ identity[c] \in {0, tag} /\ identity'[c] = tag /\ moved[c] \in 0 .. 2
        /\ tag \in Nat /\ collection \in Nat
    BY <1>3 DEF Known, ModelsInv, ModelsTyped
  <2>8. CallInv(c)'
    <3>1. LockIsForLocal(c)' /\ LooksTell(c)'
      BY <2>1, <2>3, <2>6 DEF LockIsForLocal, LooksTell, BetweenLooks
    <3>2. c \in opened => identity[c] = tag
      BY <2>2, <2>7 DEF CallInv, IdentityIsOne
    <3>3. IdentityIsOne(c)'
      BY <1>1, <2>1, <2>2, <2>3, <2>6, <2>7, <3>2 DEF CallInv, IdentityIsOne
    <3>4. ASSUME old.op \in Embedding
          PROVE  n # 0 /\ c \in opened /\ ToSet(made) # {} /\ \A v \in ToSet(made) : IsOf(v, tag)
      <4>1. /\ old.batch # 0 /\ c \in opened
            /\ \A v \in ToSet(old.made) : IsOf(v, identity[c])
        BY <1>1, <2>2, <3>4 DEF CallInv, MadeIsOfOne, At
      <4>2. BetweenLooks(c)
        BY <1>1, <3>4 DEF BetweenLooks, At
      <4>3. moved[c] = 0 \/ moved[c] = 2
        BY <2>2, <2>7, <3>2, <4>1, <4>2 DEF CallInv, LooksTell
      <4>4. moved[c] = 0 => got[c] = tag
        BY <1>1, <2>2, <4>2 DEF CallInv, LooksTell, At
      <4>5. IsOf(Batch(c), tag)
        BY <2>4, <4>3, <4>4 DEF IsOf
      <4>. QED  BY <2>3, <2>5, <3>2, <4>1, <4>5
    <3>5. MadeIsOfOne(c)'
      BY <1>1, <2>1, <2>3, <2>6, <2>7, <3>4 DEF MadeIsOfOne
    <3>. QED  BY <3>1, <3>3, <3>5 DEF CallInv
  <2>9. r.pc \notin {"request", "pause"}
    BY <2>3, <2>6
  <2>. QED  BY <1>1, <1>3, <2>1, <2>6, <2>8, <2>9, ValidateStep
<1>. QED  BY <1>2, <1>3 DEF Recheck, Validate

LEMMA StoreStep ==
    ASSUME ModelsInv, NEW c \in Callers, Store(c)
    PROVE  ModelsInv'
<1>1. /\ At(c, "store") /\ UNCHANGED <<admission, tag, holder, collection, opened, identity, got, moved>> /\ ~OnHost(c)
      /\ LooksKept(c)
  BY NothingLooked DEF Store, settings, looks, OnHost, At
<1>2. CASE Fail(c) /\ UNCHANGED vectors
  BY <1>1, <1>2, CallFails
<1>3. CASE /\ Goto(c, "done")
           /\ vectors' = IF call[c].op = "index" THEN vectors \cup ToSet(call[c].made) ELSE vectors
  <2>1. "done" \in Waiting
    BY DEF Waiting
  <2>2. PICK r : /\ IsCall(r) /\ call' = [call EXCEPT ![c] = r] /\ call'[c] = r
                 /\ r.op = call[c].op /\ r.pc = "done" /\ r.local = call[c].local
                 /\ r.batch = call[c].batch /\ r.made = call[c].made
    BY <1>3, <2>1, CallGoes
  <2>3. CallInv(c) /\ VectorsAreOfOne /\ call[c].pc = "store"
    BY <1>1, CallIsThere DEF ModelsInv, At
  <2>4. CallInv(c)'
    <3>1. LockIsForLocal(c)' /\ IdentityIsOne(c)' /\ LooksTell(c)'
      BY <1>1, <2>2, <2>3 DEF CallInv, LockIsForLocal, IdentityIsOne, LooksTell, BetweenLooks
    <3>2. MadeIsOfOne(c)'
      BY <1>1, <2>2, <2>3 DEF CallInv, MadeIsOfOne
    <3>. QED  BY <3>1, <3>2 DEF CallInv
  <2>5. ASSUME call[c].op = "index"
        PROVE  collection # 0 /\ \A v \in ToSet(call[c].made) : IsOf(v, collection)
    <3>1. call[c].op \in Embedding
      BY <2>5 DEF Embedding
    <3>2. c \in opened /\ \A v \in ToSet(call[c].made) : IsOf(v, identity[c])
      BY <2>3, <3>1 DEF CallInv, MadeIsOfOne
    <3>3. collection # 0 /\ identity[c] = collection
      BY <2>3, <3>2 DEF CallInv, IdentityIsOne
    <3>. QED  BY <3>2, <3>3
  <2>6. VectorsAreOfOne'
    BY <1>1, <1>3, <2>3, <2>5 DEF VectorsAreOfOne
  <2>7. ~Locked(c) /\ ~Locked(c)' /\ collection' \in Nat /\ identity' \in [Callers -> Nat]
    BY <1>1, <2>2 DEF Locked, OnHost, ModelsInv, ModelsTyped
  <2>. QED  BY <1>1, <2>2, <2>4, <2>6, <2>7, OneCallMoves
<1>. QED  BY <1>2, <1>3 DEF Store

LEMMA ModelsStep == ModelsInv /\ [Next]_inferenceVars => ModelsInv'
<1>. SUFFICES ASSUME ModelsInv, [Next]_inferenceVars PROVE ModelsInv'
  OBVIOUS
<1>1. CASE Retag \/ OrphanEnds
  BY <1>1, RetagStep, OrphanStep
<1>2. ASSUME NEW c \in Callers,
             \/ Restart(c) \/ Return(c)
             \/ Ask(c) \/ Respond(c) \/ Again(c)
             \/ TakeLock(c) \/ Rank(c) \/ Work(c)
             \/ Embed(c) \/ Resolve(c) \/ Open(c) \/ Vectors(c) \/ Recheck(c) \/ Store(c)
      PROVE  ModelsInv'
  BY <1>2, RestartStep, ReturnStep, AskStep, RespondStep, AgainStep, TakeLockStep, RankStep, WorkStep,
     EmbedStep, ResolveStep, OpenStep, VectorsStep, RecheckStep, StoreStep
<1>3. CASE UNCHANGED inferenceVars
  <2>1. UNCHANGED <<admission, tag, holder, collection, vectors, opened, identity, call, got, moved>>
    BY <1>3 DEF inferenceVars
  <2>. QED  BY <2>1 DEF ModelsInv, ModelsTyped, InferenceIsExclusive, OnHost, VectorsAreOfOne,
                CallInv, LockIsForLocal, IdentityIsOne, LooksTell, BetweenLooks, MadeIsOfOne
<1>. QED  BY <1>1, <1>2, <1>3 DEF Next

LEMMA ModelsKept == ModelsInv => ModelsAreShared
<1>. SUFFICES ASSUME ModelsInv PROVE ModelsAreShared
  OBVIOUS
<1>1. ASSUME NEW c \in Callers, call[c].op = "search", At(c, "done")
      PROVE  call[c].made # <<>> /\ \A v \in ToSet(call[c].made) : IsOf(v, collection)
  <2>1. call[c].op \in Embedding /\ CallInv(c) /\ call[c].pc = "done"
    BY <1>1 DEF ModelsInv, At, Embedding
  <2>2. /\ identity[c] = collection /\ ToSet(call[c].made) # {}
        /\ \A v \in ToSet(call[c].made) : IsOf(v, identity[c])
    BY <2>1 DEF CallInv, IdentityIsOne, MadeIsOfOne
  <2>3. ToSet(<<>>) = {}
    BY DEF ToSet
  <2>. QED  BY <2>2, <2>3
<1>. QED  BY <1>1 DEF ModelsAreShared, ModelsInv, VectorsAreOfOne, CollectionHoldsOneModel

(* Where admission is on, however many callers ask, wait, die and start     *)
(* again, at most one call is at the host's models, and whoever holds the   *)
(* lock is at a model; and wherever the tag moves, every vector kept or     *)
(* compared is of the model that the collection names, unless the tag left  *)
(* and was back between the looks before and after it was made              *)
(* (local_inference.py:61, providers.py:183-184, embeddings.py:133-184,     *)
(* 234-256, vector_store.py:97-135).                                        *)
THEOREM ModelsStayShared == Spec => []ModelsAreShared
BY ModelsInit, ModelsStep, ModelsKept, PTL DEF Spec

-----------------------------------------------------------------------------
(* Folds.  FoldLeft is recursive over sets of positions; what it computes   *)
(* is proved by induction on numbers, here over sets of them: the least     *)
(* number outside of a set has a predecessor within.                        *)

LEMMA LeastNumber ==
    ASSUME NEW T \in SUBSET Nat, T # {}
    PROVE  \E m \in T : \A k \in T : m <= k
<1>. DEFINE R == OpToRel(<, Nat)
<1>1. IsWellFoundedOn(R, Nat)
  BY NatLessThanWellFounded
<1>2. R = {p \in Nat \X Nat : p[1] < p[2]}
  BY DEF OpToRel
<1>. HIDE DEF R
<1>3. PICK x \in T : \A y \in T : ~(<<y, x>> \in R)
  BY <1>1, WFMin
<1>4. \A y \in T : <<y, x>> \in Nat \X Nat /\ <<y, x>>[1] = y /\ <<y, x>>[2] = x
  OBVIOUS
<1>5. \A y \in T : ~(y < x)
  BY <1>2, <1>3, <1>4
<1>. QED  BY <1>5

LEMMA InductionOverSets ==
    ASSUME NEW T, 0 \in T, \A n \in Nat : n \in T => n + 1 \in T
    PROVE  Nat \subseteq T
<1>. SUFFICES ASSUME Nat \ T # {} PROVE FALSE
  OBVIOUS
<1>1. PICK m \in Nat \ T : \A k \in Nat \ T : m <= k
  BY LeastNumber
<1>2. m # 0 /\ m - 1 \in Nat /\ m - 1 + 1 = m
  BY <1>1
<1>3. m - 1 \in T
  BY <1>1, <1>2
<1>. QED  BY <1>1, <1>2, <1>3

LEMMA Greatest ==
    ASSUME NEW b \in Nat, NEW T \in SUBSET (0 .. b), T # {}
    PROVE  Max(T) \in T /\ \A x \in T : x <= Max(T)
<1>. DEFINE U == {u \in Nat : \A x \in T : x <= u}
<1>1. PICK m \in U : \A k \in U : m <= k
  <2>1. b \in U /\ U \in SUBSET Nat
    OBVIOUS
  <2>. HIDE DEF U
  <2>. QED  BY <2>1, LeastNumber
<1>2. m \in T
  <2>1. SUFFICES ASSUME m \notin T PROVE FALSE
    OBVIOUS
  <2>2. \A x \in T : x < m /\ m - 1 \in Nat /\ x <= m - 1
    BY <2>1
  <2>3. m - 1 \in U
    BY <2>2
  <2>. QED  BY <2>3, <1>1
<1>. QED  BY <1>1, <1>2 DEF Max

LEMMA WithoutGreatest ==
    ASSUME NEW n \in Nat, NEW t \in SUBSET (1 .. n + 1), t # {}
    PROVE  /\ Max(t) \in t /\ Max(t) \in 1 .. n + 1 /\ t \ {Max(t)} \in SUBSET (1 .. n)
           /\ n + 1 \in t => Max(t) = n + 1
<1>1. Max(t) \in t /\ \A x \in t : x <= Max(t)
  <2>1. t \in SUBSET (0 .. n + 1) /\ n + 1 \in Nat
    OBVIOUS
  <2>. QED  BY <2>1, Greatest
<1>2. Max(t) \in 1 .. n + 1
  BY <1>1
<1>3. \A x \in t \ {Max(t)} : x \in 1 .. n + 1 /\ x <= Max(t) /\ x # Max(t)
  BY <1>1
<1>4. \A x \in t \ {Max(t)} : x \in 1 .. n
  BY <1>2, <1>3
<1>5. n + 1 \in t => Max(t) = n + 1
  BY <1>1, <1>2
<1>. QED  BY <1>1, <1>2, <1>4, <1>5

LEMMA WithoutLast ==
    ASSUME NEW n \in Nat, NEW t \in SUBSET (1 .. n + 1)
    PROVE  t \ {n + 1} \in SUBSET (1 .. n) /\ (n + 1 \notin t => t \in SUBSET (1 .. n))
<1>1. \A x \in 1 .. n + 1 : x # n + 1 => x \in 1 .. n
  OBVIOUS
<1>. QED  BY <1>1

LEMMA WholeInterval ==
    ASSUME NEW n \in Nat
    PROVE  1 .. n + 1 # {} /\ (1 .. n + 1) \ {n + 1} = 1 .. n /\ Max(1 .. n + 1) = n + 1
<1>1. n + 1 \in 1 .. n + 1 /\ \A x \in 1 .. n : x \in 1 .. n + 1 /\ x # n + 1
  OBVIOUS
<1>2. (1 .. n + 1) \ {n + 1} = 1 .. n
  BY <1>1, WithoutLast
<1>. QED  BY <1>1, <1>2, WithoutGreatest

(* The values of a fold along s, with steps g, at all sets of positions.    *)
Step(it, s, b, g, t) == IF t = {} THEN b ELSE g[<<it[t \ {Max(t)}], s[Max(t)]>>]
Unrolled(it, s, b, g) == it = [t \in SUBSET DOMAIN s |-> Step(it, s, b, g, t)]
Follows(it, n, s, b, g) == \A t \in SUBSET (1 .. n) : it[t] = Step(it, s, b, g, t)
Folds(A, E) == [A \X E -> A]
Extended(r, s, e) == Len(r) = Len(s) + 1 /\ r[Len(s) + 1] = e /\ \A k \in 1 .. Len(s) : r[k] = s[k]
Iterate(g, b, s) == (CHOOSE it : Unrolled(it, s, b, g))[DOMAIN s]

LEMMA Unrolling ==
    ASSUME NEW A, NEW E, NEW s \in Seq(E), NEW b \in A, NEW g \in [A \X E -> A]
    PROVE  \E it \in [SUBSET DOMAIN s -> A] : Unrolled(it, s, b, g)
<1>. DEFINE Upto(m) == \E it \in [SUBSET (1 .. m) -> A] : \A t \in SUBSET (1 .. m) : it[t] = Step(it, s, b, g, t)
            T == {m \in Nat : m <= Len(s) => Upto(m)}
<1>1. Upto(0)
  <2>1. \A t \in SUBSET (1 .. 0) : t = {}
    OBVIOUS
  <2>2. [t \in SUBSET (1 .. 0) |-> b] \in [SUBSET (1 .. 0) -> A]
    OBVIOUS
  <2>. QED  BY <2>1, <2>2 DEF Step
<1>2. ASSUME NEW m \in Nat, m + 1 <= Len(s), Upto(m)
      PROVE  Upto(m + 1)
  <2>1. PICK it \in [SUBSET (1 .. m) -> A] : \A t \in SUBSET (1 .. m) : it[t] = Step(it, s, b, g, t)
    BY <1>2
  <2>. DEFINE jt == [t \in SUBSET (1 .. m + 1) |->
                        IF m + 1 \in t THEN g[<<it[t \ {m + 1}], s[m + 1]>>] ELSE it[t]]
  <2>2. s[m + 1] \in E
    BY <1>2
  <2>3. \A t \in SUBSET (1 .. m + 1) : t \ {m + 1} \in SUBSET (1 .. m) /\ (m + 1 \notin t => t \in SUBSET (1 .. m))
    BY WithoutLast
  <2>4. jt \in [SUBSET (1 .. m + 1) -> A]
    BY <2>2, <2>3
  <2>5. \A t \in SUBSET (1 .. m) : t \in SUBSET (1 .. m + 1) /\ m + 1 \notin t /\ jt[t] = it[t]
    OBVIOUS
  <2>6. ASSUME NEW t \in SUBSET (1 .. m + 1)
        PROVE  jt[t] = Step(jt, s, b, g, t)
    <3>1. CASE m + 1 \in t
      <4>1. Max(t) = m + 1 /\ t # {}
        BY <3>1, WithoutGreatest
      <4>2. jt[t] = g[<<it[t \ {m + 1}], s[m + 1]>>] /\ jt[t \ {m + 1}] = it[t \ {m + 1}]
        BY <3>1, <2>3, <2>5
      <4>. QED  BY <4>1, <4>2 DEF Step
    <3>2. CASE m + 1 \notin t
      <4>1. t \in SUBSET (1 .. m) /\ jt[t] = it[t]
        BY <3>2, <2>3, <2>5
      <4>2. t \ {Max(t)} \in SUBSET (1 .. m)
        BY <4>1
      <4>3. jt[t \ {Max(t)}] = it[t \ {Max(t)}]
        BY <4>2, <2>5
      <4>. QED  BY <4>1, <4>3, <2>1 DEF Step
    <3>. QED  BY <3>1, <3>2
  <2>. HIDE DEF jt
  <2>. QED  BY <2>4, <2>6
<1>. HIDE DEF Upto
<1>3. Len(s) \in Nat /\ 0 \in T /\ \A m \in Nat : m \in T => m + 1 \in T
  BY <1>1, <1>2
<1>. HIDE DEF T
<1>4. Len(s) \in T
  BY <1>3, InductionOverSets
<1>5. Upto(Len(s))
  BY <1>3, <1>4 DEF T
<1>6. PICK it \in [SUBSET (1 .. Len(s)) -> A] : \A t \in SUBSET (1 .. Len(s)) : it[t] = Step(it, s, b, g, t)
  BY <1>5 DEF Upto
<1>7. DOMAIN s = 1 .. Len(s)
  OBVIOUS
<1>. QED  BY <1>6, <1>7 DEF Unrolled

LEMMA UnrollingsAgree ==
    ASSUME NEW n \in Nat, NEW s, NEW r, NEW b, NEW g, NEW it, NEW jt,
           \A k \in 1 .. n : s[k] = r[k],
           Follows(it, n, s, b, g), Follows(jt, n, r, b, g)
    PROVE  \A t \in SUBSET (1 .. n) : it[t] = jt[t]
<1>. DEFINE T == {m \in Nat : m <= n => \A t \in SUBSET (1 .. m) : it[t] = jt[t]}
<1>1. 0 \in T
  <2>1. \A t \in SUBSET (1 .. 0) : t = {} /\ t \in SUBSET (1 .. n)
    OBVIOUS
  <2>. QED  BY <2>1 DEF Step, Follows
<1>2. ASSUME NEW m \in Nat, m \in T, m + 1 <= n, NEW t \in SUBSET (1 .. m + 1)
      PROVE  it[t] = jt[t]
  <2>1. t \in SUBSET (1 .. n)
    BY <1>2
  <2>2. CASE t = {}
    BY <2>1, <2>2 DEF Step, Follows
  <2>3. CASE t # {}
    <3>1. Max(t) \in 1 .. n /\ t \ {Max(t)} \in SUBSET (1 .. m)
      BY <2>3, <1>2, WithoutGreatest
    <3>2. it[t \ {Max(t)}] = jt[t \ {Max(t)}]
      BY <1>2, <3>1
    <3>. QED  BY <2>1, <2>3, <3>1, <3>2 DEF Step, Follows
  <2>. QED  BY <2>2, <2>3
<1>3. \A m \in Nat : m \in T => m + 1 \in T
  BY <1>2
<1>. HIDE DEF T
<1>4. n \in T
  BY <1>1, <1>3, InductionOverSets
<1>5. n <= n => \A t \in SUBSET (1 .. n) : it[t] = jt[t]
  BY <1>4 DEF T
<1>. QED  BY <1>5

LEMMA ValuesOfUnrolled ==
    ASSUME NEW A, NEW n \in Nat, NEW it, it[{}] \in A,
           \A t \in SUBSET (1 .. n) : t # {} /\ it[t \ {Max(t)}] \in A => it[t] \in A
    PROVE  \A t \in SUBSET (1 .. n) : it[t] \in A
<1>. DEFINE T == {m \in Nat : m <= n => \A t \in SUBSET (1 .. m) : it[t] \in A}
<1>1. 0 \in T
  <2>1. \A t \in SUBSET (1 .. 0) : t = {}
    OBVIOUS
  <2>. QED  BY <2>1
<1>2. ASSUME NEW m \in Nat, m \in T, m + 1 <= n, NEW t \in SUBSET (1 .. m + 1), t # {}
      PROVE  it[t] \in A
  <2>1. t \ {Max(t)} \in SUBSET (1 .. m)
    BY <1>2, WithoutGreatest
  <2>3. t \in SUBSET (1 .. n)
    BY <1>2
  <2>2. it[t \ {Max(t)}] \in A
    BY <1>2, <2>1
  <2>. QED  BY <1>2, <2>2, <2>3
<1>3. \A m \in Nat : m \in T => m + 1 \in T
  BY <1>2
<1>. HIDE DEF T
<1>4. n \in T
  BY <1>1, <1>3, InductionOverSets
<1>. QED  BY <1>4 DEF T

LEMMA IterateIs ==
    ASSUME NEW n \in Nat, NEW s, DOMAIN s = 1 .. n, NEW b, NEW g, NEW it, Unrolled(it, s, b, g)
    PROVE  it[1 .. n] = Iterate(g, b, s)
<1>. DEFINE pick == CHOOSE jt : Unrolled(jt, s, b, g)
<1>1. Unrolled(pick, s, b, g)
  OBVIOUS
<1>. HIDE DEF pick
<1>2. Follows(it, n, s, b, g) /\ Follows(pick, n, s, b, g)
  BY <1>1 DEF Unrolled, Follows
<1>3. it[1 .. n] = pick[1 .. n]
  BY <1>2, UnrollingsAgree
<1>. QED  BY <1>3 DEF Iterate, pick

LEMMA IterateTyped ==
    ASSUME NEW A, NEW E, NEW s \in Seq(E), NEW b \in A, NEW g \in [A \X E -> A]
    PROVE  Iterate(g, b, s) \in A
<1>1. PICK it \in [SUBSET DOMAIN s -> A] : Unrolled(it, s, b, g)
  BY Unrolling
<1>2. it[1 .. Len(s)] = Iterate(g, b, s)
  BY <1>1, IterateIs
<1>. QED  BY <1>1, <1>2

LEMMA IterateNothing ==
    ASSUME NEW A, NEW E, NEW b \in A, NEW g \in [A \X E -> A]
    PROVE  Iterate(g, b, <<>>) = b
<1>. DEFINE nothing == <<>>
<1>1. nothing \in Seq(E) /\ DOMAIN nothing = {}
  OBVIOUS
<1>. HIDE DEF nothing
<1>2. PICK it : Unrolled(it, nothing, b, g)
  BY <1>1, Unrolling
<1>3. it[DOMAIN nothing] = b
  BY <1>1, <1>2 DEF Unrolled, Step
<1>4. it[1 .. 0] = Iterate(g, b, nothing) /\ DOMAIN nothing = 1 .. 0
  BY <1>1, <1>2, IterateIs
<1>. QED  BY <1>3, <1>4 DEF nothing

LEMMA IterateMore ==
    ASSUME NEW A, NEW E, NEW s \in Seq(E), NEW e \in E, NEW b \in A, NEW g \in Folds(A, E),
           NEW r \in Seq(E), Extended(r, s, e)
    PROVE  Iterate(g, b, r) = g[<<Iterate(g, b, s), e>>]
<1>. DEFINE n == Len(s)
<1>1. /\ n \in Nat /\ r \in Seq(E) /\ DOMAIN r = 1 .. n + 1 /\ DOMAIN s = 1 .. n
      /\ r[n + 1] = e /\ \A k \in 1 .. n : s[k] = r[k]
  BY DEF Extended
<1>. g \in [A \X E -> A]
  BY DEF Folds
<1>2. PICK it : Unrolled(it, s, b, g)
  BY Unrolling
<1>. HIDE DEF n
<1>3. PICK jt : Unrolled(jt, r, b, g)
  BY <1>1, Unrolling
<1>4. Follows(it, n, s, b, g)
  BY <1>1, <1>2 DEF Unrolled, Follows
<1>5. \A t \in SUBSET (1 .. n + 1) : jt[t] = Step(jt, r, b, g, t)
  BY <1>1, <1>3 DEF Unrolled
<1>6. \A t \in SUBSET (1 .. n) : t \in SUBSET (1 .. n + 1)
  BY <1>1
<1>7. \A t \in SUBSET (1 .. n) : it[t] = jt[t]
  <2>1. Follows(jt, n, r, b, g)
    BY <1>5, <1>6 DEF Follows
  <2>. QED  BY <1>1, <1>4, <2>1, UnrollingsAgree
<1>8. Max(1 .. n + 1) = n + 1 /\ 1 .. n + 1 # {} /\ (1 .. n + 1) \ {n + 1} = 1 .. n
  BY <1>1, WholeInterval
<1>9. jt[1 .. n + 1] = g[<<jt[1 .. n], e>>]
  BY <1>1, <1>5, <1>8 DEF Step
<1>10. it[1 .. n] = jt[1 .. n]
  BY <1>7
<1>11. it[1 .. n] = Iterate(g, b, s)
  BY <1>1, <1>2, IterateIs
<1>12. jt[1 .. n + 1] = Iterate(g, b, r)
  BY <1>1, <1>3, IterateIs
<1>. QED  BY <1>9, <1>10, <1>11, <1>12

(* The values of a fold along a sequence.                                   *)
LEMMA IterateGoesOn ==
    ASSUME NEW A, NEW E, NEW s \in Seq(E), NEW b \in A, NEW g \in Folds(A, E)
    PROVE  \E f \in [0 .. Len(s) -> A] :
              /\ f[0] = b /\ f[Len(s)] = Iterate(g, b, s)
              /\ \A n \in 0 .. Len(s) : f[n] = Iterate(g, b, SubSeq(s, 1, n))
              /\ \A n \in 1 .. Len(s) : f[n] = g[<<f[n - 1], s[n]>>]
<1>. DEFINE First(n) == SubSeq(s, 1, n)
            f == [n \in 0 .. Len(s) |-> Iterate(g, b, First(n))]
<1>1. Len(s) \in Nat /\ DOMAIN s = 1 .. Len(s)
  OBVIOUS
<1>2. \A n \in 0 .. Len(s) : First(n) \in Seq(E) /\ Len(First(n)) = n /\ \A k \in 1 .. n : First(n)[k] = s[k]
  <2>. SUFFICES ASSUME NEW n \in 0 .. Len(s)
                PROVE  First(n) \in Seq(E) /\ Len(First(n)) = n /\ \A k \in 1 .. n : First(n)[k] = s[k]
    OBVIOUS
  <2>1. n <= Len(s) /\ \A k \in 1 .. n : s[k] \in E
    BY <1>1
  <2>. QED  BY <1>1, <2>1
<1>3. First(0) = <<>> /\ First(Len(s)) = s
  <2>1. First(0) = <<>>
    OBVIOUS
  <2>2. First(Len(s)) = s
    BY <1>1
  <2>. QED  BY <2>1, <2>2
<1>4. \A n \in 1 .. Len(s) : n - 1 \in 0 .. Len(s) /\ n \in 0 .. Len(s) /\ (n - 1) + 1 = n
  BY <1>1
<1>. HIDE DEF First
<1>5. \A n \in 0 .. Len(s) : Iterate(g, b, First(n)) \in A
  <2>1. g \in [A \X E -> A]
    BY DEF Folds
  <2>. QED  BY <1>2, <2>1, IterateTyped
<1>6. Iterate(g, b, First(0)) = b
  <2>1. g \in [A \X E -> A]
    BY DEF Folds
  <2>. QED  BY <1>3, <2>1, IterateNothing
<1>7. ASSUME NEW n \in 1 .. Len(s)
      PROVE  Iterate(g, b, First(n)) = g[<<Iterate(g, b, First(n - 1)), s[n]>>]
  <2>1. n - 1 \in 0 .. Len(s) /\ n \in 0 .. Len(s) /\ (n - 1) + 1 = n /\ s[n] \in E
    BY <1>1, <1>4
  <2>2. First(n) \in Seq(E) /\ First(n - 1) \in Seq(E)
    BY <1>2, <2>1
  <2>3. Extended(First(n), First(n - 1), s[n])
    <3>1. Len(First(n)) = n /\ Len(First(n - 1)) = n - 1 /\ n \in 1 .. n
      BY <1>2, <2>1
    <3>2. First(n)[n] = s[n]
      BY <1>2, <2>1, <3>1
    <3>3. ASSUME NEW k \in 1 .. n - 1
          PROVE  First(n)[k] = First(n - 1)[k]
      <4>1. k \in 1 .. n
        OBVIOUS
      <4>. QED  BY <1>2, <2>1, <4>1
    <3>. QED  BY <2>1, <3>1, <3>2, <3>3 DEF Extended
  <2>. QED  BY <2>1, <2>2, <2>3, IterateMore
<1>8. f \in [0 .. Len(s) -> A]
  BY <1>5
<1>9. \A n \in 0 .. Len(s) : f[n] = Iterate(g, b, First(n))
  OBVIOUS
<1>. HIDE DEF f
<1>10. \A n \in 1 .. Len(s) : f[n] = g[<<f[n - 1], s[n]>>]
  BY <1>4, <1>7, <1>9
<1>11. f[0] = b /\ f[Len(s)] = Iterate(g, b, s)
  BY <1>1, <1>3, <1>6, <1>9
<1>. QED  BY <1>8, <1>9, <1>10, <1>11 DEF First

(* A fold by an operator is the fold by its function, where they agree.     *)
Inside(it, s, b, g, A, E) ==
    /\ it[{}] = b
    /\ \A t \in SUBSET DOMAIN s : t # {} =>
          /\ it[t \ {Max(t)}] \in A /\ s[Max(t)] \in E
          /\ it[t] = g[<<it[t \ {Max(t)}], s[Max(t)]>>]

Goes(it, s, b, g, A) ==
    /\ it = [t \in SUBSET DOMAIN s |-> it[t]] /\ it[{}] = b
    /\ \A t \in SUBSET DOMAIN s :
          t # {} /\ it[t \ {Max(t)}] \in A => it[t] = g[<<it[t \ {Max(t)}], s[Max(t)]>>]

LEMMA UnrollingInside ==
    ASSUME NEW A, NEW E, NEW s \in Seq(E), NEW b \in A, NEW g \in Folds(A, E)
    PROVE  \E it \in [SUBSET DOMAIN s -> A] : Inside(it, s, b, g, A, E)
<1>1. Len(s) \in Nat /\ DOMAIN s = 1 .. Len(s) /\ \A k \in 1 .. Len(s) : s[k] \in E
  OBVIOUS
<1>2. PICK it \in [SUBSET DOMAIN s -> A] : Unrolled(it, s, b, g)
  BY Unrolling DEF Folds
<1>3. ASSUME NEW t \in SUBSET DOMAIN s, t # {}
      PROVE  Max(t) \in 1 .. Len(s) /\ t \ {Max(t)} \in SUBSET DOMAIN s
  <2>1. t \in SUBSET (0 .. Len(s))
    BY <1>1
  <2>2. Max(t) \in t
    BY <1>1, <1>3, <2>1, Greatest
  <2>. QED  BY <1>1, <2>2
<1>4. \A t \in SUBSET DOMAIN s : it[t] = IF t = {} THEN b ELSE g[<<it[t \ {Max(t)}], s[Max(t)]>>]
  BY <1>2 DEF Unrolled, Step
<1>. QED  BY <1>1, <1>2, <1>3, <1>4 DEF Inside

LEMMA UnrollingFollowed ==
    ASSUME NEW A, NEW E, NEW s \in Seq(E), NEW b \in A, NEW g \in Folds(A, E), NEW pick,
           Goes(pick, s, b, g, A)
    PROVE  pick[DOMAIN s] = Iterate(g, b, s)
<1>. DEFINE n == Len(s)
<1>1. n \in Nat /\ DOMAIN s = 1 .. n /\ \A k \in 1 .. n : s[k] \in E
  OBVIOUS
<1>. USE DEF Goes
<1>. HIDE DEF n
<1>2. \A t \in SUBSET (1 .. n) : t # {} => Max(t) \in 1 .. n /\ t \ {Max(t)} \in SUBSET (1 .. n)
  <2>1. ASSUME NEW t \in SUBSET (1 .. n), t # {}
        PROVE  Max(t) \in t
    <3>1. t \in SUBSET (0 .. n)
      BY <1>1
    <3>. QED  BY <1>1, <2>1, <3>1, Greatest
  <2>. QED  BY <2>1
<1>3. ASSUME NEW t \in SUBSET (1 .. n)
      PROVE  pick[t] \in A
  <2>1. pick[{}] \in A
    OBVIOUS
  <2>2. ASSUME NEW r \in SUBSET (1 .. n), r # {}, pick[r \ {Max(r)}] \in A
        PROVE  pick[r] \in A
    <3>1. s[Max(r)] \in E /\ pick[r] = g[<<pick[r \ {Max(r)}], s[Max(r)]>>]
      BY <1>1, <1>2, <2>2
    <3>. QED  BY <2>2, <3>1 DEF Folds
  <2>. QED  BY <1>1, <2>1, <2>2, ValuesOfUnrolled
<1>4. \A t \in SUBSET DOMAIN s : pick[t] = Step(pick, s, b, g, t)
  BY <1>1, <1>2, <1>3 DEF Step
<1>5. Unrolled(pick, s, b, g)
  BY <1>4 DEF Unrolled
<1>. QED  BY <1>1, <1>5, IterateIs

-----------------------------------------------------------------------------
(* What a prompt shows of the passages that were retrieved, by the rule that *)
(* adds one of them (providers.py:278-283).                                 *)
PassagesOf(e) == [id : {x.id : x \in ToSet(e)}, size : Nat, image : BOOLEAN]
Prompts(P) == [left : Nat, shown : Seq(P)]
Filling(P) == [p \in Prompts(P) \X P |-> Fill(p[1], p[2])]
Sizing(P) == [p \in Nat \X P |-> p[1] + p[2].size]
Sized(P) == P \subseteq [id : {x.id : x \in P}, size : Nat, image : BOOLEAN]

IsFilled(more, state, item, P) ==
    /\ more \in Prompts(P)
    /\ item.size = 0 \/ state.left = 0 => more = state
    /\ item.size # 0 /\ state.left # 0 =>
          /\ more.shown = Append(state.shown, item)
          /\ more.left = IF item.size <= state.left THEN state.left - item.size ELSE 0

LEMMA LeastHere ==
    ASSUME NEW T \in SUBSET Nat, T # {}
    PROVE  Min(T) \in T /\ \A x \in T : Min(T) <= x
<1>1. PICK m \in T : \A k \in T : m <= k
  BY LeastNumber
<1>. QED  BY <1>1 DEF Min

LEMMA FillIs ==
    ASSUME NEW P, \A x \in P : x.size \in Nat, NEW state \in Prompts(P), NEW item \in P
    PROVE  IsFilled(Fill(state, item), state, item, P)
<1>. DEFINE part == Min({item.size, state.left})
            more == Fill(state, item)
<1>1. state.left \in Nat /\ state.shown \in Seq(P) /\ item.size \in Nat
  BY DEF Prompts
<1>2. part = IF item.size <= state.left THEN item.size ELSE state.left
  <2>1. {item.size, state.left} \in SUBSET Nat /\ {item.size, state.left} # {}
    BY <1>1
  <2>2. part \in {item.size, state.left} /\ \A x \in {item.size, state.left} : part <= x
    BY <2>1, LeastHere
  <2>. HIDE DEF part
  <2>. QED  BY <1>1, <2>2
<1>3. more = IF part = 0 THEN state ELSE [left |-> state.left - part, shown |-> Append(state.shown, item)]
  BY DEF Fill
<1>. HIDE DEF part, more
<1>4. CASE item.size = 0 \/ state.left = 0
  <2>1. part = 0
    BY <1>1, <1>2, <1>4
  <2>. QED  BY <1>3, <1>4, <2>1 DEF IsFilled, more
<1>5. CASE item.size # 0 /\ state.left # 0
  <2>1. part # 0 /\ state.left - part = (IF item.size <= state.left THEN state.left - item.size ELSE 0)
        /\ state.left - part \in Nat
    BY <1>1, <1>2, <1>5
  <2>2. more = [left |-> state.left - part, shown |-> Append(state.shown, item)]
    BY <1>3, <2>1
  <2>3. more \in Prompts(P)
    BY <1>1, <2>1, <2>2 DEF Prompts
  <2>4. more.left = state.left - part /\ more.shown = Append(state.shown, item)
    BY <2>2
  <2>. QED  BY <1>5, <2>1, <2>3, <2>4 DEF IsFilled, more
<1>. QED  BY <1>4, <1>5

LEMMA FillingTyped ==
    ASSUME NEW P, \A x \in P : x.size \in Nat, ContextChars \in Nat
    PROVE  /\ [left |-> ContextChars, shown |-> <<>>] \in Prompts(P)
           /\ Filling(P) \in Folds(Prompts(P), P) /\ Sizing(P) \in Folds(Nat, P)
           /\ \A p \in Prompts(P), c \in P : Filling(P)[<<p, c>>] = Fill(p, c) /\ Fill(p, c) \in Prompts(P)
           /\ \A p \in Nat, c \in P : Sizing(P)[<<p, c>>] = p + c.size /\ p + c.size \in Nat
<1>1. [left |-> ContextChars, shown |-> <<>>] \in Prompts(P)
  BY DEF Prompts
<1>2. \A p \in Prompts(P), c \in P : Fill(p, c) \in Prompts(P)
  BY FillIs DEF IsFilled
<1>3. \A p \in Nat, c \in P : p + c.size \in Nat
  OBVIOUS
<1>4. \A p \in Prompts(P), c \in P : Filling(P)[<<p, c>>] = Fill(p, c)
  BY DEF Filling
<1>5. \A p \in Nat, c \in P : Sizing(P)[<<p, c>>] = p + c.size
  BY DEF Sizing
<1>6. Filling(P) \in Folds(Prompts(P), P)
  BY <1>2 DEF Filling, Folds
<1>7. Sizing(P) \in Folds(Nat, P)
  BY <1>3 DEF Sizing, Folds
<1>. QED  BY <1>1, <1>2, <1>3, <1>4, <1>5, <1>6, <1>7

LEMMA PayloadIsIterated ==
    ASSUME NEW P, \A x \in P : x.size \in Nat, ContextChars \in Nat, NEW s \in Seq(P)
    PROVE  Payload(s) = Iterate(Filling(P), [left |-> ContextChars, shown |-> <<>>], s).shown
<1>. DEFINE b == [left |-> ContextChars, shown |-> <<>>]
            A == Prompts(P)
            g == Filling(P)
            Is(it) == it = [t \in SUBSET DOMAIN s |-> IF t = {} THEN b ELSE Fill(it[t \ {Max(t)}], s[Max(t)])]
            pick == CHOOSE it : Is(it)
<1>1. Payload(s) = pick[DOMAIN s].shown
  BY DEF Payload, FoldLeft, MapThenFoldSet
<1>2. b \in A /\ g \in Folds(A, P) /\ \A p \in A, c \in P : g[<<p, c>>] = Fill(p, c)
  BY FillingTyped
<1>3. \A k \in DOMAIN s : s[k] \in P
  OBVIOUS
<1>. HIDE DEF b, A, g
<1>4. PICK it \in [SUBSET DOMAIN s -> A] : Inside(it, s, b, g, A, P)
  BY <1>2, UnrollingInside
<1>5. Is(it)
  <2>1. \A t \in SUBSET DOMAIN s : it[t] = IF t = {} THEN b ELSE Fill(it[t \ {Max(t)}], s[Max(t)])
    BY <1>2, <1>4 DEF Inside
  <2>. QED  BY <2>1
<1>6. Is(pick)
  BY <1>5
<1>. HIDE DEF pick
<1>7. \A t \in SUBSET DOMAIN s : pick[t] = IF t = {} THEN b ELSE Fill(pick[t \ {Max(t)}], s[Max(t)])
  BY <1>6
<1>8. pick[{}] = b
  BY <1>7
<1>9. ASSUME NEW t \in SUBSET DOMAIN s, t # {}, pick[t \ {Max(t)}] \in A
      PROVE  pick[t] = g[<<pick[t \ {Max(t)}], s[Max(t)]>>]
  <2>1. s[Max(t)] \in P
    BY <1>4, <1>9 DEF Inside
  <2>. QED  BY <1>2, <1>7, <1>9, <2>1
<1>10. pick = [t \in SUBSET DOMAIN s |-> pick[t]]
  BY <1>6
<1>11. pick[DOMAIN s] = Iterate(g, b, s)
  <2>1. Goes(pick, s, b, g, A)
    BY <1>8, <1>9, <1>10 DEF Goes
  <2>. QED  BY <1>2, <2>1, UnrollingFollowed
<1>. QED  BY <1>1, <1>11 DEF b, g

SizeOf(s) == FoldLeft(LAMBDA sum, item : sum + item.size, 0, s)

LEMMA SizeIsIterated ==
    ASSUME NEW P, \A x \in P : x.size \in Nat, ContextChars \in Nat, NEW s \in Seq(P)
    PROVE  SizeOf(s) = Iterate(Sizing(P), 0, s)
<1>. DEFINE A == Nat
            g == Sizing(P)
            Is(it) == it = [t \in SUBSET DOMAIN s |-> IF t = {} THEN 0 ELSE it[t \ {Max(t)}] + s[Max(t)].size]
            pick == CHOOSE it : Is(it)
<1>1. SizeOf(s) = pick[DOMAIN s]
  BY DEF SizeOf, FoldLeft, MapThenFoldSet
<1>2. 0 \in A /\ g \in Folds(A, P) /\ \A p \in A, c \in P : g[<<p, c>>] = p + c.size
  BY FillingTyped
<1>3. \A k \in DOMAIN s : s[k] \in P
  OBVIOUS
<1>. HIDE DEF A, g
<1>4. PICK it \in [SUBSET DOMAIN s -> A] : Inside(it, s, 0, g, A, P)
  BY <1>2, UnrollingInside
<1>5. Is(it)
  <2>1. \A t \in SUBSET DOMAIN s : it[t] = IF t = {} THEN 0 ELSE it[t \ {Max(t)}] + s[Max(t)].size
    BY <1>2, <1>4 DEF Inside
  <2>. QED  BY <2>1
<1>6. Is(pick)
  BY <1>5
<1>. HIDE DEF pick
<1>7. \A t \in SUBSET DOMAIN s : pick[t] = IF t = {} THEN 0 ELSE pick[t \ {Max(t)}] + s[Max(t)].size
  BY <1>6
<1>8. pick[{}] = 0
  <2>1. {} \in SUBSET DOMAIN s
    OBVIOUS
  <2>2. pick[{}] = IF {} = {} THEN 0 ELSE pick[{} \ {Max({})}] + s[Max({})].size
    BY <1>7, <2>1, Zenon
  <2>. QED  BY <2>2, Zenon
<1>9. ASSUME NEW t \in SUBSET DOMAIN s, t # {}, pick[t \ {Max(t)}] \in A
      PROVE  pick[t] = g[<<pick[t \ {Max(t)}], s[Max(t)]>>]
  <2>1. s[Max(t)] \in P
    BY <1>4, <1>9 DEF Inside
  <2>. QED  BY <1>2, <1>7, <1>9, <2>1
<1>10. pick = [t \in SUBSET DOMAIN s |-> pick[t]]
  BY <1>6
<1>11. pick[DOMAIN s] = Iterate(g, 0, s)
  <2>1. Goes(pick, s, 0, g, A)
    BY <1>8, <1>9, <1>10 DEF Goes
  <2>. QED  BY <1>2, <2>1, UnrollingFollowed
<1>. QED  BY <1>1, <1>11 DEF g

\* The first n passages, h[k] characters in the first k of them.
Promised(state, e, h, n, P) ==
    /\ state \in Prompts(P) /\ (state.left # 0 => h[n] + state.left = ContextChars)
    /\ \A k \in DOMAIN state.shown :
          \E m \in 1 .. n : e[m] = state.shown[k] /\ e[m].size # 0 /\ h[m - 1] < ContextChars

LEMMA PromisedGoesOn ==
    ASSUME NEW P, \A x \in P : x.size \in Nat, ContextChars \in Nat, NEW e \in Seq(P),
           NEW h \in [0 .. Len(e) -> Nat], NEW n \in 1 .. Len(e), h[n] = h[n - 1] + e[n].size,
           NEW state, NEW more, Promised(state, e, h, n - 1, P), IsFilled(more, state, e[n], P)
    PROVE  Promised(more, e, h, n, P)
<1>1. /\ n \in Nat /\ n - 1 \in 0 .. Len(e) /\ h[n - 1] \in Nat /\ e[n] \in P /\ e[n].size \in Nat
      /\ state \in Prompts(P) /\ state.left \in Nat /\ state.shown \in Seq(P) /\ more \in Prompts(P)
      /\ \A m \in 1 .. n - 1 : m \in 1 .. n
  <2>1. state \in Prompts(P) /\ more \in Prompts(P)
    BY DEF Promised, IsFilled
  <2>2. state.left \in Nat /\ state.shown \in Seq(P)
    BY <2>1 DEF Prompts
  <2>3. n \in Nat /\ n - 1 \in 0 .. Len(e) /\ h[n - 1] \in Nat /\ e[n] \in P /\ \A m \in 1 .. n - 1 : m \in 1 .. n
    OBVIOUS
  <2>. QED  BY <2>1, <2>2, <2>3
<1>2. \A k \in DOMAIN state.shown :
         \E m \in 1 .. n : e[m] = state.shown[k] /\ e[m].size # 0 /\ h[m - 1] < ContextChars
  BY <1>1 DEF Promised
<1>3. state.left # 0 => h[n - 1] + state.left = ContextChars
  BY DEF Promised
<1>4. CASE e[n].size = 0 \/ state.left = 0
  <2>1. more = state
    BY <1>4 DEF IsFilled
  <2>2. more.left # 0 => h[n] + more.left = ContextChars
    BY <1>1, <1>3, <1>4, <2>1
  <2>. QED  BY <1>1, <1>2, <2>1, <2>2 DEF Promised
<1>5. CASE e[n].size # 0 /\ state.left # 0
  <2>1. more.shown = Append(state.shown, e[n]) /\ more.left = IF e[n].size <= state.left THEN state.left - e[n].size ELSE 0
    BY <1>5 DEF IsFilled
  <2>2. more.left # 0 => h[n] + more.left = ContextChars
    BY <1>1, <1>3, <1>5, <2>1
  <2>3. h[n - 1] < ContextChars
    BY <1>1, <1>3, <1>5
  <2>4. ASSUME NEW k \in DOMAIN more.shown
        PROVE  \E m \in 1 .. n : e[m] = more.shown[k] /\ e[m].size # 0 /\ h[m - 1] < ContextChars
    <3>1. CASE k \in DOMAIN state.shown
      <4>1. more.shown[k] = state.shown[k]
        BY <1>1, <2>1, <3>1
      <4>. QED  BY <1>2, <3>1, <4>1
    <3>2. CASE k = Len(state.shown) + 1
      <4>1. more.shown[k] = e[n] /\ n \in 1 .. n
        BY <1>1, <2>1, <3>2
      <4>. QED  BY <1>5, <2>3, <4>1
    <3>. QED  BY <1>1, <2>1, <3>1, <3>2
  <2>. QED  BY <1>1, <2>2, <2>4 DEF Promised
<1>. QED  BY <1>4, <1>5

LEMMA PromisedFollows ==
    ASSUME NEW P, \A x \in P : x.size \in Nat, ContextChars \in Nat, NEW e \in Seq(P),
           NEW h \in [0 .. Len(e) -> Nat], h[0] = 0, NEW f \in [0 .. Len(e) -> Prompts(P)],
           f[0] = [left |-> ContextChars, shown |-> <<>>],
           \A n \in 1 .. Len(e) : h[n] = h[n - 1] + e[n].size /\ IsFilled(f[n], f[n - 1], e[n], P)
    PROVE  Promised(f[Len(e)], e, h, Len(e), P)
<1>. DEFINE Bad == {n \in 0 .. Len(e) : ~Promised(f[n], e, h, n, P)}
<1>1. Len(e) \in Nat /\ Bad \subseteq Nat
  OBVIOUS
<1>2. Promised(f[0], e, h, 0, P)
  <2>1. f[0] \in Prompts(P) /\ f[0].left = ContextChars /\ f[0].shown = <<>> /\ DOMAIN f[0].shown = {}
    BY <1>1
  <2>. QED  BY <2>1 DEF Promised
<1>3. ASSUME Bad # {}
      PROVE  FALSE
  <2>1. PICK m \in Bad : \A k \in Bad : m <= k
    BY <1>1, <1>3, LeastNumber
  <2>2. m # 0 /\ m \in 0 .. Len(e) /\ ~Promised(f[m], e, h, m, P)
    BY <1>2
  <2>3. m \in 1 .. Len(e) /\ m - 1 \in 0 .. Len(e) /\ m - 1 \notin Bad
    BY <1>1, <2>1, <2>2
  <2>4. Promised(f[m - 1], e, h, m - 1, P)
    BY <2>3
  <2>5. h[m] = h[m - 1] + e[m].size /\ IsFilled(f[m], f[m - 1], e[m], P)
    BY <2>3
  <2>. QED  BY <2>2, <2>3, <2>4, <2>5, PromisedGoesOn
<1>4. Len(e) \notin Bad
  BY <1>3
<1>. QED  BY <1>1, <1>4

HasRoom(e, m) == e[m].size > 0 /\ Before(e, m) < ContextChars

LEMMA PayloadIs ==
    ASSUME ContextChars \in Nat, NEW e, e \in Seq(PassagesOf(e))
    PROVE  \A k \in DOMAIN Payload(e) : \E m \in DOMAIN e : e[m] = Payload(e)[k] /\ HasRoom(e, m)
<1>. DEFINE P == PassagesOf(e)
            A == Prompts(P)
            E == P
            g == Filling(P)
            N == Nat
            j == Sizing(P)
            b == [left |-> ContextChars, shown |-> <<>>]
<1>1. /\ e \in Seq(P) /\ Len(e) \in Nat /\ DOMAIN e = 1 .. Len(e)
      /\ \A x \in P : x.size \in Nat
      /\ \A n \in 1 .. Len(e) : e[n] \in P
  <2>1. \A x \in P : x.size \in Nat
    BY DEF PassagesOf
  <2>2. e \in Seq(P)
    OBVIOUS
  <2>. HIDE DEF P
  <2>. QED  BY <2>1, <2>2
<1>. HIDE DEF P
<1>2. /\ b \in A /\ g \in Folds(A, E) /\ e \in Seq(E) /\ 0 \in N /\ j \in Folds(N, E)
  BY <1>1, FillingTyped
<1>3. /\ \A p \in A, c \in P : g[<<p, c>>] = Fill(p, c)
      /\ \A p \in Nat, c \in P : j[<<p, c>>] = p + c.size
  BY <1>1, FillingTyped
<1>9. b = [left |-> ContextChars, shown |-> <<>>] /\ N = Nat /\ A = Prompts(P)
  OBVIOUS
<1>. HIDE DEF A, E, N, g, j, b
<1>4. PICK f \in [0 .. Len(e) -> A] :
         /\ f[0] = b /\ f[Len(e)] = Iterate(g, b, e)
         /\ \A n \in 1 .. Len(e) : f[n] = g[<<f[n - 1], e[n]>>]
  BY <1>2, IterateGoesOn
<1>5. PICK h \in [0 .. Len(e) -> N] :
         /\ h[0] = 0
         /\ \A n \in 0 .. Len(e) : h[n] = Iterate(j, 0, SubSeq(e, 1, n))
         /\ \A n \in 1 .. Len(e) : h[n] = j[<<h[n - 1], e[n]>>]
  BY <1>2, IterateGoesOn
<1>6. ASSUME NEW n \in 1 .. Len(e)
      PROVE  h[n] = h[n - 1] + e[n].size /\ IsFilled(f[n], f[n - 1], e[n], P)
  <2>1. n - 1 \in 0 .. Len(e)
    BY <1>1
  <2>2. h[n - 1] \in Nat /\ f[n - 1] \in A /\ e[n] \in P
    BY <1>1, <1>4, <1>5, <1>9, <2>1
  <2>3. f[n] = Fill(f[n - 1], e[n])
    BY <1>3, <1>4, <2>2
  <2>4. IsFilled(Fill(f[n - 1], e[n]), f[n - 1], e[n], P)
    BY <1>1, <1>9, <2>2, FillIs
  <2>. QED  BY <1>3, <1>5, <2>2, <2>3, <2>4
<1>7. Promised(f[Len(e)], e, h, Len(e), P)
  <2>1. h \in [0 .. Len(e) -> Nat] /\ f \in [0 .. Len(e) -> Prompts(P)]
    BY <1>4, <1>5, <1>9
  <2>. QED  BY <2>1, <1>1, <1>4, <1>5, <1>6, <1>9, PromisedFollows
<1>8. Payload(e) = f[Len(e)].shown
  BY <1>1, <1>4, <1>9, PayloadIsIterated DEF g
<1>10. ASSUME NEW m \in 1 .. Len(e)
       PROVE  Before(e, m) = h[m - 1]
  <2>1. m - 1 \in 0 .. Len(e)
    BY <1>1
  <2>2. \A k \in 1 .. m - 1 : k \in 1 .. Len(e) /\ e[k] \in P
    BY <1>1
  <2>3. SubSeq(e, 1, m - 1) \in Seq(P)
    BY <1>1, <2>1, <2>2
  <2>4. Before(e, m) = SizeOf(SubSeq(e, 1, m - 1))
    BY DEF Before, SizeOf
  <2>5. SizeOf(SubSeq(e, 1, m - 1)) = Iterate(j, 0, SubSeq(e, 1, m - 1))
    BY <1>1, <2>3, SizeIsIterated DEF j
  <2>. QED  BY <1>5, <2>1, <2>4, <2>5
<1>11. ASSUME NEW k \in DOMAIN Payload(e)
       PROVE  \E m \in DOMAIN e : e[m] = Payload(e)[k] /\ HasRoom(e, m)
  <2>1. PICK m \in 1 .. Len(e) : e[m] = Payload(e)[k] /\ e[m].size # 0 /\ h[m - 1] < ContextChars
    BY <1>7, <1>8, <1>11 DEF Promised
  <2>2. e[m].size \in Nat /\ Before(e, m) = h[m - 1]
    BY <1>1, <1>10
  <2>3. \A x \in Nat : x # 0 => x > 0
    OBVIOUS
  <2>4. HasRoom(e, m)
    BY <2>1, <2>2, <2>3 DEF HasRoom
  <2>5. m \in DOMAIN e
    BY <1>1
  <2>. QED  BY <2>1, <2>4, <2>5, Zenon
<1>. QED  BY <1>11

CitesShown(r) ==
    /\ DOMAIN r = DOMAIN Idle /\ r.given \in Evidence \cup {<<>>}
    /\ \A id \in ToSet(r.cited) : \E k \in DOMAIN Payload(r.given) : Payload(r.given)[k].id = id

AnswersInv == DOMAIN call = Callers /\ \A c \in Callers : CitesShown(call[c])

LEMMA IdleCitesNothing ==
    /\ DOMAIN Idle = {"op", "pc", "local", "attempt", "batch", "made", "given", "cited"}
    /\ \A r : DOMAIN r = DOMAIN Idle /\ r.given \in Evidence \cup {<<>>} /\ r.cited = <<>> => CitesShown(r)
    /\ CitesShown(Idle)
<1>. DEFINE none == <<>>
<1>1. ToSet(none) = {}
  BY DEF ToSet
<1>2. DOMAIN Idle = {"op", "pc", "local", "attempt", "batch", "made", "given", "cited"}
      /\ Idle.given = none /\ Idle.cited = none
  BY DEF Idle
<1>. HIDE DEF none
<1>3. \A r : DOMAIN r = DOMAIN Idle /\ r.given \in Evidence \cup {none} /\ r.cited = none => CitesShown(r)
  BY <1>1 DEF CitesShown, none
<1>4. CitesShown(Idle)
  BY <1>2, <1>3
<1>. QED  BY <1>2, <1>3, <1>4 DEF none

LEMMA AnswersInit == Init => AnswersInv
BY IdleCitesNothing DEF Init, AnswersInv

LEMMA OneAnswers ==
    ASSUME AnswersInv, NEW c \in Callers, NEW r, CitesShown(r), call' = [call EXCEPT ![c] = r]
    PROVE  AnswersInv'
<1>1. DOMAIN call' = Callers /\ \A d \in Callers : call'[d] = IF d = c THEN r ELSE call[d]
  BY DEF AnswersInv
<1>2. \A d \in Callers : CitesShown(call'[d])
  BY <1>1 DEF AnswersInv
<1>. QED  BY <1>1, <1>2 DEF AnswersInv

\* A call that only goes on cites what it cited.
LEMMA GoesOnAnswering ==
    ASSUME AnswersInv, NEW c \in Callers, NEW r, call' = [call EXCEPT ![c] = r],
           DOMAIN r = DOMAIN call[c], r.given = call[c].given, r.cited = call[c].cited
    PROVE  AnswersInv'
<1>1. CitesShown(call[c])
  BY DEF AnswersInv
<1>2. CitesShown(r)
  BY <1>1 DEF CitesShown
<1>. QED  BY <1>2, OneAnswers

LEMMA CallDomain ==
    ASSUME AnswersInv, NEW c \in Callers
    PROVE  /\ DOMAIN call[c] = {"op", "pc", "local", "attempt", "batch", "made", "given", "cited"}
           /\ c \in DOMAIN call
BY IdleCitesNothing DEF AnswersInv, CitesShown

LEMMA GotoAnswers ==
    ASSUME AnswersInv, NEW c \in Callers, NEW pc, Goto(c, pc)
    PROVE  AnswersInv'
<1>. DEFINE r == [call[c] EXCEPT !.pc = pc]
<1>1. call' = [call EXCEPT ![c] = r]
  BY DEF Goto
<1>2. DOMAIN r = DOMAIN call[c] /\ r.given = call[c].given /\ r.cited = call[c].cited
  BY CallDomain
<1>. HIDE DEF r
<1>. QED  BY <1>1, <1>2, GoesOnAnswering

LEMMA RetryAnswers ==
    ASSUME AnswersInv, NEW c \in Callers, Retry(c)
    PROVE  AnswersInv'
<1>. DEFINE r == [call[c] EXCEPT !.pc = "pause", !.attempt = @ + 1]
<1>1. call' = [call EXCEPT ![c] = r]
  BY CallDomain DEF Retry
<1>2. DOMAIN r = DOMAIN call[c] /\ r.given = call[c].given /\ r.cited = call[c].cited
  BY CallDomain
<1>. HIDE DEF r
<1>. QED  BY <1>1, <1>2, GoesOnAnswering

LEMMA BegunAnswers ==
    ASSUME AnswersInv, NEW c \in Callers, Restart(c) \/ Return(c) \/ Ask(c) \/ Rank(c) \/ Embed(c)
    PROVE  AnswersInv'
<1>1. ASSUME Restart(c) \/ Return(c)
      PROVE  AnswersInv'
  <2>1. call' = [call EXCEPT ![c] = Idle]
    BY <1>1 DEF Restart, Return
  <2>. QED  BY <2>1, OneAnswers, IdleCitesNothing
<1>2. CASE Ask(c)
  <2>1. PICK e \in Evidence, l \in BOOLEAN :
           \E pc : call' = [call EXCEPT ![c] = [Idle EXCEPT !.op = "answer", !.local = l, !.given = e, !.pc = pc]]
    BY <1>2, Zenon DEF Ask
  <2>5. PICK pc :
           call' = [call EXCEPT ![c] = [Idle EXCEPT !.op = "answer", !.local = l, !.given = e, !.pc = pc]]
    BY <2>1
  <2>. DEFINE r == [Idle EXCEPT !.op = "answer", !.local = l, !.given = e, !.pc = pc]
  <2>2. DOMAIN r = DOMAIN Idle /\ r.given = e /\ r.cited = <<>>
    BY DEF Idle
  <2>. HIDE DEF r
  <2>. QED  BY <2>5, <2>2, OneAnswers, IdleCitesNothing DEF r
<1>3. CASE Rank(c)
  <2>1. PICK pc : call' = [call EXCEPT ![c] = [Idle EXCEPT !.op = "rerank", !.pc = pc]]
    BY <1>3 DEF Rank
  <2>. DEFINE r == [Idle EXCEPT !.op = "rerank", !.pc = pc]
  <2>2. DOMAIN r = DOMAIN Idle /\ r.given = <<>> /\ r.cited = <<>>
    BY DEF Idle
  <2>. HIDE DEF r
  <2>. QED  BY <2>1, <2>2, OneAnswers, IdleCitesNothing DEF r
<1>4. CASE Embed(c)
  <2>1. PICK op, batch :
           call' = [call EXCEPT ![c] = [Idle EXCEPT !.op = op, !.local = loopback, !.batch = batch, !.pc = "resolve"]]
    BY <1>4 DEF Embed
  <2>. DEFINE r == [Idle EXCEPT !.op = op, !.local = loopback, !.batch = batch, !.pc = "resolve"]
  <2>2. DOMAIN r = DOMAIN Idle /\ r.given = <<>> /\ r.cited = <<>>
    BY DEF Idle
  <2>. HIDE DEF r
  <2>. QED  BY <2>1, <2>2, OneAnswers, IdleCitesNothing DEF r
<1>. QED  BY <1>1, <1>2, <1>3, <1>4

LEMMA ReceivedAnswers ==
    ASSUME AnswersInv, NEW c \in Callers, NEW reply \in Replies(Payload(call[c].given)), Receive(c, reply)
    PROVE  AnswersInv'
<1>. DEFINE shown == Payload(call[c].given)
            names == [n \in DOMAIN reply.aliases |-> Passage(c, reply.aliases[n])]
            done == [call[c] EXCEPT !.pc = "done", !.cited = names]
            failed == [call[c] EXCEPT !.pc = "failed"]
<1>1. CitesShown(call[c])
  BY DEF AnswersInv
<1>2. CASE Acceptable(reply, shown)
  <2>1. call' = [call EXCEPT ![c] = done]
    BY <1>2, CallDomain DEF Receive
  <2>2. DOMAIN done = DOMAIN call[c] /\ done.given = call[c].given /\ done.cited = names
    BY CallDomain
  <2>3. \A n \in DOMAIN reply.aliases : reply.aliases[n] \in DOMAIN shown
    <3>1. reply.outcome \in {"answer", "insufficient_evidence", "error"}
      BY DEF Replies
    <3>2. CASE reply.outcome = "answer"
      <4>1. ToSet(reply.aliases) \subseteq DOMAIN shown
        BY <1>2, <3>2 DEF Acceptable
      <4>2. \A n \in DOMAIN reply.aliases : reply.aliases[n] \in ToSet(reply.aliases)
        BY DEF ToSet
      <4>. QED  BY <4>1, <4>2
    <3>3. CASE reply.outcome # "answer"
      <4>1. reply.aliases = <<>>
        BY <1>2, <3>1, <3>3 DEF Acceptable, WellFormed
      <4>2. DOMAIN reply.aliases = {}
        BY <4>1
      <4>. QED  BY <4>2
    <3>. QED  BY <3>2, <3>3
  <2>4. \A n \in DOMAIN reply.aliases : names[n] = shown[reply.aliases[n]].id
    BY DEF Passage
  <2>5. ToSet(names) = {names[n] : n \in DOMAIN reply.aliases}
    BY DEF ToSet
  <2>. HIDE DEF names, shown
  <2>6. \A id \in ToSet(names) : \E k \in DOMAIN shown : shown[k].id = id
    BY <2>3, <2>4, <2>5
  <2>. HIDE DEF done
  <2>7. CitesShown(done)
    BY <1>1, <2>2, <2>6 DEF CitesShown, shown
  <2>. QED  BY <2>1, <2>7, OneAnswers
<1>3. CASE ~Acceptable(reply, shown)
  <2>1. call' = [call EXCEPT ![c] = failed]
    BY <1>3, CallDomain DEF Receive
  <2>2. DOMAIN failed = DOMAIN call[c] /\ failed.given = call[c].given /\ failed.cited = call[c].cited
    BY CallDomain
  <2>. HIDE DEF failed
  <2>. QED  BY <2>1, <2>2, GoesOnAnswering
<1>. QED  BY <1>2, <1>3

LEMMA WorkedAnswers ==
    ASSUME AnswersInv, NEW c \in Callers,
           Resolve(c) \/ Open(c) \/ Vectors(c) \/ Recheck(c)
    PROVE  AnswersInv'
<1>2. ASSUME Fail(c)
      PROVE  AnswersInv'
  BY <1>2, GotoAnswers DEF Fail
<1>3. CASE Resolve(c)
  <2>. DEFINE r == [call[c] EXCEPT !.pc = IF call[c].batch = 0 THEN "open" ELSE Entrance(call[c].local)]
  <2>1. call' = [call EXCEPT ![c] = r] \/ Fail(c)
    BY <1>3 DEF Resolve, Validate
  <2>2. DOMAIN r = DOMAIN call[c] /\ r.given = call[c].given /\ r.cited = call[c].cited
    BY CallDomain
  <2>. HIDE DEF r
  <2>. QED  BY <2>1, <2>2, <1>2, GoesOnAnswering
<1>4. CASE Open(c)
  <2>. DEFINE r == [call[c] EXCEPT !.pc = "resolve", !.batch = 1]
  <2>1. call' = [call EXCEPT ![c] = r] \/ Fail(c)
    BY <1>4, CallDomain DEF Open
  <2>2. DOMAIN r = DOMAIN call[c] /\ r.given = call[c].given /\ r.cited = call[c].cited
    BY CallDomain
  <2>. HIDE DEF r
  <2>. QED  BY <2>1, <2>2, <1>2, GoesOnAnswering
<1>5. CASE Vectors(c)
  <2>1. Goto(c, "recheck") \/ Fail(c)
    BY <1>5 DEF Vectors
  <2>. QED  BY <2>1, <1>2, GotoAnswers
<1>6. CASE Recheck(c)
  <2>. DEFINE r == Kept(c)
  <2>1. call' = [call EXCEPT ![c] = r] \/ Fail(c)
    BY <1>6 DEF Recheck, Validate
  <2>2. DOMAIN r = DOMAIN call[c] /\ r.given = call[c].given /\ r.cited = call[c].cited
    BY CallDomain DEF Kept
  <2>. HIDE DEF r
  <2>. QED  BY <2>1, <2>2, <1>2, GoesOnAnswering
<1>. QED  BY <1>3, <1>4, <1>5, <1>6

LEMMA AnswersStep == AnswersInv /\ [Next]_inferenceVars => AnswersInv'
<1>. SUFFICES ASSUME AnswersInv, [Next]_inferenceVars PROVE AnswersInv'
  OBVIOUS
<1>1. CASE UNCHANGED call
  BY <1>1 DEF AnswersInv
<1>2. CASE UNCHANGED inferenceVars \/ Retag \/ OrphanEnds
  BY <1>1, <1>2 DEF inferenceVars, Retag, OrphanEnds
<1>3. ASSUME NEW c \in Callers, Respond(c)
      PROVE  AnswersInv'
  <2>1. (\E reply \in Replies(Payload(call[c].given)) : Receive(c, reply)) \/ Retry(c) \/ Fail(c)
    BY <1>3 DEF Respond
  <2>. QED  BY <2>1, ReceivedAnswers, RetryAnswers, GotoAnswers DEF Fail
<1>4. ASSUME NEW c \in Callers, Again(c) \/ TakeLock(c) \/ Work(c) \/ Store(c)
      PROVE  AnswersInv'
  <2>1. \E pc : Goto(c, pc)
    BY <1>4 DEF Again, TakeLock, Work, Store, Fail
  <2>. QED  BY <2>1, GotoAnswers
<1>. QED  BY <1>2, <1>3, <1>4, BegunAnswers, WorkedAnswers DEF Next

LEMMA AnswersAreShown == AnswersInv => AnswersCiteWhatWasShown
<1>. SUFFICES ASSUME AnswersInv, NEW c \in Callers, NEW id \in ToSet(call[c].cited)
              PROVE  \E n \in DOMAIN call[c].given :
                        /\ call[c].given[n].id = id
                        /\ call[c].given[n].size > 0 /\ Before(call[c].given, n) < ContextChars
  BY DEF AnswersCiteWhatWasShown
<1>. DEFINE e == call[c].given
<1>1. e \in Evidence \cup {<<>>} /\ \E k \in DOMAIN Payload(e) : Payload(e)[k].id = id
  BY DEF AnswersInv, CitesShown
<1>. HIDE DEF e
<1>2. ContextChars \in Nat /\ e \in Seq(PassagesOf(e))
  <2>1. e \in Evidence => e \in Seq(PassagesOf(e))
    BY HostServicesAssumption DEF PassagesOf
  <2>2. e = <<>> => e \in Seq(PassagesOf(e))
    OBVIOUS
  <2>. QED  BY <1>1, <2>1, <2>2, HostServicesAssumption
<1>3. PICK k \in DOMAIN Payload(e) : Payload(e)[k].id = id
  BY <1>1
<1>4. PICK m \in DOMAIN e : e[m] = Payload(e)[k] /\ HasRoom(e, m)
  BY <1>2, <1>3, PayloadIs
<1>. QED  BY <1>3, <1>4 DEF HasRoom, e

\* An answer cites only passages of which the prompt held at least a character
\* (providers.py:278-283), for any size of the prompt, whichever passages were
\* retrieved and however the workers that answer wait, fail and try again.
THEOREM CitationsStayShown == Spec => []AnswersCiteWhatWasShown
BY AnswersInit, AnswersStep, AnswersAreShown, PTL DEF Spec

-----------------------------------------------------------------------------
(* Groups of F: how many there are of w, and which one the j-th is in.      *)
LEMMA FanoutTyped == Fanout \in Nat /\ Fanout >= 2
BY HostServicesAssumption

LEMMA Quotient ==
    ASSUME NEW a \in Nat, NEW b \in Nat, b >= 2
    PROVE  LET q == a \div b IN q \in Nat /\ b * q <= a /\ a < b * q + b
OBVIOUS

LEMMA Factors ==
    ASSUME NEW b \in Nat, b >= 2, NEW x \in Nat, NEW y \in Nat
    PROVE  /\ b * x < b * y => x < y
           /\ x < y => b * x + b <= b * y
           /\ b * x >= 2 * x
           /\ b * (x + 1) = b * x + b
OBVIOUS

LEMMA GroupsAre ==
    ASSUME NEW w \in Nat
    PROVE  /\ Tree!Groups(w) \in Nat
           /\ w > Fanout => Tree!Groups(w) + 1 <= w /\ Tree!Groups(w) >= 1
           /\ \A j \in 1 .. w : (j - 1) \div Fanout + 1 \in 1 .. Tree!Groups(w)
<1>. DEFINE g == Tree!Groups(w)
<1>1. Fanout \in Nat /\ Fanout >= 2
  BY FanoutTyped
<1>2. g \in Nat /\ Fanout * g <= w + Fanout - 1 /\ w + Fanout - 1 < Fanout * g + Fanout
  <2>1. w + Fanout - 1 \in Nat
    BY <1>1
  <2>. QED  BY <1>1, <2>1, Quotient DEF Tree!Groups
<1>. HIDE DEF g
<1>3. ASSUME w > Fanout
      PROVE  g + 1 <= w /\ g >= 1
  <2>1. g >= 1
    <3>1. g = 0 => Fanout * g = 0
      BY <1>1
    <3>. QED  BY <1>1, <1>2, <1>3, <3>1
  <2>2. CASE g >= w
    <3>1. w - 1 \in Nat /\ w = (w - 1) + 1 /\ w - 1 >= 2 /\ w - 1 < g
      BY <1>1, <1>2, <1>3, <2>2
    <3>2. Fanout * (w - 1) + Fanout <= Fanout * g
      BY <1>1, <1>2, <3>1, Factors
    <3>3. Fanout * (w - 1) >= 2 * (w - 1) /\ Fanout * (w - 1) \in Nat
      BY <1>1, <3>1, Factors
    <3>. QED  BY <1>1, <1>2, <3>1, <3>2, <3>3
  <2>. QED  BY <1>2, <2>1, <2>2
<1>4. ASSUME NEW j \in 1 .. w
      PROVE  (j - 1) \div Fanout + 1 \in 1 .. g
  <2>. DEFINE q == (j - 1) \div Fanout
  <2>1. q \in Nat /\ Fanout * q <= j - 1
    <3>1. j - 1 \in Nat
      OBVIOUS
    <3>. QED  BY <1>1, <3>1, Quotient
  <2>. HIDE DEF q
  <2>2. Fanout * q < Fanout * g
    BY <1>1, <1>2, <2>1
  <2>3. q < g
    BY <1>1, <1>2, <2>1, <2>2, Factors
  <2>. QED  BY <1>2, <2>1, <2>3 DEF q
<1>. QED  BY <1>2, <1>3, <1>4 DEF g

-----------------------------------------------------------------------------
(* An outline, its items and the pages with text.                           *)
LEMMA OutlineFacts ==
    ASSUME outline \in Outlines
    PROVE  /\ Len(outline) \in Nat /\ Tree!Items = 1 .. Len(outline)
           /\ \A n \in Tree!Items : /\ outline[n].parent \in Nat /\ outline[n].parent < n
                                    /\ outline[n].from \in Nat /\ outline[n].to \in Nat
           /\ IsFiniteSet(Tree!Items) /\ IsFiniteSet(Tree!WithText)
           /\ Tree!Items \subseteq Nat \ {0} /\ Tree!WithText \subseteq Nat \ {0}
<1>. DEFINE E == [id : {outline[n].id : n \in DOMAIN outline}, from : Nat, to : Nat, parent : Nat]
<1>1. outline \in Seq(E) /\ \A n \in DOMAIN outline : outline[n].parent < n
  BY HostServicesAssumption
<1>2. \A e \in E : e.parent \in Nat /\ e.from \in Nat /\ e.to \in Nat
  OBVIOUS
<1>. HIDE DEF E
<1>3. Len(outline) \in Nat /\ DOMAIN outline = 1 .. Len(outline) /\ \A n \in DOMAIN outline : outline[n] \in E
  BY <1>1
<1>4. Texts \in Seq(Nat) /\ Len(Texts) \in Nat /\ DOMAIN Texts = 1 .. Len(Texts)
  BY HostServicesAssumption
<1>5. IsFiniteSet(1 .. Len(outline)) /\ IsFiniteSet(1 .. Len(Texts))
  BY <1>3, <1>4, FS_Interval
<1>6. Tree!WithText \subseteq 1 .. Len(Texts)
  BY <1>4 DEF Tree!WithText, Tree!Pages
<1>7. IsFiniteSet(Tree!WithText)
  BY <1>5, <1>6, FS_Subset
<1>. QED  BY <1>1, <1>2, <1>3, <1>4, <1>5, <1>6, <1>7 DEF Tree!Items

Owners == Tree!Items \cup {0}

LEMMA ListedFacts ==
    ASSUME outline \in Outlines, NEW owner \in Owners
    PROVE  /\ Tree!Listed(owner) \subseteq Nat \ {0} /\ IsFiniteSet(Tree!Listed(owner))
           /\ IsFiniteSet(Tree!Matching(owner)) /\ Tree!Matching(owner) \subseteq Tree!WithText
           /\ Tree!Below(owner) \subseteq Tree!Items
<1>1. Tree!Below(owner) \subseteq Tree!Items /\ Tree!Matching(owner) \subseteq Tree!WithText
  BY DEF Tree!Below, Tree!Matching
<1>2. IsFiniteSet(Tree!Below(owner)) /\ IsFiniteSet(Tree!Matching(owner))
  BY <1>1, OutlineFacts, FS_Subset
<1>3. Tree!Listed(owner) \in {Tree!Below(owner), Tree!Matching(owner), {}}
  BY DEF Tree!Listed
<1>. QED  BY <1>1, <1>2, <1>3, OutlineFacts, FS_EmptySet

-----------------------------------------------------------------------------
(* A list of c nodes: how many groups there are in the n-th row above it.   *)
Wide(c, row) == Tree!FoldLeft(LAMBDA width, n : Tree!Groups(width), c, [n \in 1 .. row |-> n])
Grouping == [p \in Nat \X Nat |-> Tree!Groups(p[1])]

LEMMA GroupingFolds ==
    Grouping \in Folds(Nat, Nat) /\ \A w, n \in Nat : Grouping[<<w, n>>] = Tree!Groups(w)
BY GroupsAre DEF Grouping, Folds

LEMMA WideIsIterated ==
    ASSUME NEW c \in Nat, NEW row \in Nat
    PROVE  Wide(c, row) = Iterate(Grouping, c, [n \in 1 .. row |-> n])
<1>. DEFINE s == [n \in 1 .. row |-> n]
            A == Nat
            g == Grouping
            Is(it) == it = [t \in SUBSET DOMAIN s |-> IF t = {} THEN c ELSE Tree!Groups(it[t \ {Max(t)}])]
            pick == CHOOSE it : Is(it)
<1>1. Wide(c, row) = pick[DOMAIN s]
  BY DEF Wide, Tree!FoldLeft, Tree!MapThenFoldSet, Tree!Max, Max
<1>2. s \in Seq(Nat) /\ c \in A /\ g \in Folds(A, Nat) /\ \A p \in A, n \in Nat : g[<<p, n>>] = Tree!Groups(p)
  BY GroupingFolds
<1>. HIDE DEF A, g, s
<1>3. PICK it \in [SUBSET DOMAIN s -> A] : Inside(it, s, c, g, A, Nat)
  BY <1>2, UnrollingInside
<1>4. Is(it)
  <2>1. \A t \in SUBSET DOMAIN s : it[t] = IF t = {} THEN c ELSE Tree!Groups(it[t \ {Max(t)}])
    BY <1>2, <1>3 DEF Inside
  <2>. QED  BY <2>1
<1>5. Is(pick)
  BY <1>4
<1>. HIDE DEF pick
<1>6. \A t \in SUBSET DOMAIN s : pick[t] = IF t = {} THEN c ELSE Tree!Groups(pick[t \ {Max(t)}])
  BY <1>5
<1>7. ASSUME NEW t \in SUBSET DOMAIN s, t # {}, pick[t \ {Max(t)}] \in A
      PROVE  pick[t] = g[<<pick[t \ {Max(t)}], s[Max(t)]>>]
  <2>1. s[Max(t)] \in Nat
    BY <1>3, <1>7 DEF Inside
  <2>. QED  BY <1>2, <1>6, <1>7, <2>1
<1>8. pick = [t \in SUBSET DOMAIN s |-> pick[t]] /\ pick[{}] = c
  BY <1>5, <1>6
<1>9. pick[DOMAIN s] = Iterate(g, c, s)
  <2>1. Goes(pick, s, c, g, A)
    BY <1>7, <1>8 DEF Goes
  <2>. QED  BY <1>2, <2>1, UnrollingFollowed
<1>. QED  BY <1>1, <1>9 DEF g, s

LEMMA WideIs ==
    ASSUME NEW c \in Nat
    PROVE  /\ Wide(c, 0) = c
           /\ \A row \in Nat : Wide(c, row) \in Nat /\ Wide(c, row + 1) = Tree!Groups(Wide(c, row))
<1>. DEFINE Counted(row) == [n \in 1 .. row |-> n]
            g == Grouping
<1>1. \A row \in Nat : Counted(row) \in Seq(Nat) /\ row + 1 \in Nat
  OBVIOUS
<1>2. g \in Folds(Nat, Nat) /\ g \in [Nat \X Nat -> Nat] /\ \A w, n \in Nat : g[<<w, n>>] = Tree!Groups(w)
  BY GroupingFolds DEF Folds
<1>3. \A row \in Nat : Wide(c, row) = Iterate(g, c, Counted(row))
  BY WideIsIterated
<1>4. \A row \in Nat : Extended(Counted(row + 1), Counted(row), row + 1)
  BY DEF Extended
<1>5. Counted(0) = <<>>
  OBVIOUS
<1>. HIDE DEF Counted, g
<1>6. Iterate(g, c, <<>>) = c
  BY <1>2, IterateNothing
<1>7. ASSUME NEW row \in Nat
      PROVE  Wide(c, row) \in Nat /\ Wide(c, row + 1) = Tree!Groups(Wide(c, row))
  <2>1. Iterate(g, c, Counted(row)) \in Nat
    BY <1>1, <1>2, IterateTyped
  <2>2. Iterate(g, c, Counted(row + 1)) = g[<<Iterate(g, c, Counted(row)), row + 1>>]
    <3>. DEFINE A == Nat
                E == Nat
                next == row + 1
                s == Counted(row)
                more == Counted(next)
    <3>1. c \in A /\ g \in Folds(A, E) /\ s \in Seq(E) /\ more \in Seq(E) /\ next \in E
      BY <1>1, <1>2
    <3>2. Extended(more, s, next)
      BY <1>4
    <3>. HIDE DEF A, E, next, s, more
    <3>3. Iterate(g, c, more) = g[<<Iterate(g, c, s), next>>]
      BY <3>1, <3>2, IterateMore
    <3>. QED  BY <3>3 DEF next, s, more
  <2>. QED  BY <1>1, <1>2, <1>3, <2>1, <2>2
<1>. QED  BY <1>3, <1>5, <1>6, <1>7

LEMMA WidthIs ==
    ASSUME outline \in Outlines, NEW owner \in Owners
    PROVE  /\ Tree!Width(owner, 0) = Cardinality(Tree!Listed(owner))
           /\ \A row \in Nat : /\ Tree!Width(owner, row) \in Nat
                               /\ Tree!Width(owner, row + 1) = Tree!Groups(Tree!Width(owner, row))
<1>. DEFINE c == Cardinality(Tree!Listed(owner))
<1>1. c \in Nat
  BY ListedFacts, FS_CardinalityType
<1>2. \A row \in Nat : Tree!Width(owner, row) = Wide(c, row)
  BY DEF Tree!Width, Wide, Tree!Cardinality, Cardinality
<1>. HIDE DEF c
<1>3. Wide(c, 0) = c /\ \A row \in Nat : Wide(c, row) \in Nat /\ Wide(c, row + 1) = Tree!Groups(Wide(c, row))
  BY <1>1, WideIs
<1>4. Tree!Width(owner, 0) = Cardinality(Tree!Listed(owner))
  BY <1>2, <1>3 DEF c
<1>5. \A row \in Nat : row + 1 \in Nat
  OBVIOUS
<1>. QED  BY <1>2, <1>3, <1>4, <1>5

LEMMA RowFacts ==
    ASSUME outline \in Outlines, NEW owner \in Owners, NEW row \in Nat
    PROVE  /\ Tree!Row(owner, row) \subseteq Nat \ {0} /\ IsFiniteSet(Tree!Row(owner, row))
           /\ Cardinality(Tree!Row(owner, row)) = Tree!Width(owner, row)
           /\ Tree!Width(owner, row) \in Nat
<1>1. Tree!Width(owner, row) \in Nat /\ Tree!Width(owner, 0) = Cardinality(Tree!Listed(owner))
  BY WidthIs
<1>2. CASE row = 0
  BY <1>1, <1>2, ListedFacts DEF Tree!Row
<1>3. CASE row # 0
  <2>1. Tree!Row(owner, row) = 1 .. Tree!Width(owner, row)
    BY <1>3 DEF Tree!Row
  <2>2. /\ IsFiniteSet(1 .. Tree!Width(owner, row))
        /\ Cardinality(1 .. Tree!Width(owner, row)) = Tree!Width(owner, row)
    BY <1>1, FS_Interval
  <2>. QED  BY <1>1, <2>1, <2>2
<1>. QED  BY <1>2, <1>3

(* The rows that are made: above one that is too wide there is another, and *)
(* there is none above one that is not.                                     *)
LEMMA RowsNarrow ==
    ASSUME outline \in Outlines, NEW owner \in Owners, NEW row \in Tree!Rows(owner)
    PROVE  Tree!Width(owner, row) + row <= Tree!Width(owner, 0)
<1>. DEFINE W(n) == Tree!Width(owner, n)
            T == {n \in Nat : (\A r \in 0 .. n - 1 : W(r) > Fanout) => W(n) + n <= W(0)}
<1>1. W(0) \in Nat /\ \A n \in Nat : W(n) \in Nat /\ W(n + 1) = Tree!Groups(W(n))
  BY WidthIs
<1>2. row \in Nat /\ \A r \in 0 .. row - 1 : W(r) > Fanout
  BY <1>1 DEF Tree!Rows
<1>. HIDE DEF W
<1>3. 0 \in T
  BY <1>1
<1>4. ASSUME NEW n \in Nat, n \in T
      PROVE  n + 1 \in T
  <2>. SUFFICES ASSUME \A r \in 0 .. n : W(r) > Fanout PROVE W(n + 1) + (n + 1) <= W(0)
    OBVIOUS
  <2>1. W(n) + n <= W(0) /\ W(n) > Fanout
    BY <1>4
  <2>2. Tree!Groups(W(n)) + 1 <= W(n) /\ Tree!Groups(W(n)) \in Nat
    BY <1>1, <2>1, GroupsAre
  <2>. QED  BY <1>1, <2>1, <2>2
<1>. HIDE DEF T
<1>5. row \in T
  BY <1>2, <1>3, <1>4, InductionOverSets
<1>. QED  BY <1>2, <1>5 DEF T, W

LEMMA RowsGoOn ==
    ASSUME outline \in Outlines, NEW owner \in Owners, NEW row \in Tree!Rows(owner)
    PROVE  /\ row \in Nat /\ 0 \in Tree!Rows(owner)
           /\ Tree!Width(owner, row) > Fanout => row + 1 \in Tree!Rows(owner)
           /\ row # 0 => row - 1 \in Tree!Rows(owner) /\ Tree!Width(owner, row - 1) > Fanout
           /\ \A above \in Tree!Rows(owner) : above > row => Tree!Width(owner, row) > Fanout
<1>. DEFINE W(n) == Tree!Width(owner, n)
<1>1. W(0) \in Nat /\ \A n \in Nat : W(n) \in Nat
  BY WidthIs
<1>2. W(row) + row <= W(0)
  BY RowsNarrow
<1>3. Fanout \in Nat
  BY FanoutTyped
<1>4. \A n : n \in Tree!Rows(owner) <=> n \in 0 .. W(0) /\ \A r \in 0 .. n - 1 : W(r) > Fanout
  BY DEF Tree!Rows
<1>. HIDE DEF W
<1>5. row \in Nat /\ row <= W(0) /\ \A r \in 0 .. row - 1 : W(r) > Fanout
  BY <1>1, <1>4
<1>6. 0 \in Tree!Rows(owner)
  BY <1>1, <1>4
<1>7. W(row) > Fanout => row + 1 \in Tree!Rows(owner)
  <2>. SUFFICES ASSUME W(row) > Fanout PROVE row + 1 \in Tree!Rows(owner)
    OBVIOUS
  <2>1. row + 1 \in 0 .. W(0)
    BY <1>1, <1>2, <1>3, <1>5
  <2>2. \A r \in 0 .. (row + 1) - 1 : r = row \/ r \in 0 .. row - 1
    BY <1>5
  <2>. QED  BY <1>4, <1>5, <2>1, <2>2
<1>8. row # 0 => row - 1 \in Tree!Rows(owner) /\ W(row - 1) > Fanout
  <2>. SUFFICES ASSUME row # 0 PROVE row - 1 \in Tree!Rows(owner) /\ W(row - 1) > Fanout
    OBVIOUS
  <2>1. row - 1 \in 0 .. W(0) /\ row - 1 \in 0 .. row - 1
    BY <1>1, <1>5
  <2>2. \A r \in 0 .. (row - 1) - 1 : r \in 0 .. row - 1
    BY <1>5
  <2>. QED  BY <1>4, <1>5, <2>1, <2>2
<1>9. ASSUME NEW above \in Tree!Rows(owner), above > row
      PROVE  W(row) > Fanout
  <2>1. above \in Nat /\ row \in 0 .. above - 1
    BY <1>1, <1>4, <1>5, <1>9
  <2>. QED  BY <1>4, <2>1
<1>. QED  BY <1>5, <1>6, <1>7, <1>8, <1>9 DEF W

(* A number's place among the numbers up to it is its own.                  *)
LEMMA PlaceIs ==
    ASSUME NEW S \in SUBSET Nat, IsFiniteSet(S), NEW n \in S
    PROVE  /\ Tree!Place(S, n) \in 1 .. Cardinality(S)
           /\ \A m \in S : m > n => Tree!Place(S, m) > Tree!Place(S, n)
<1>. DEFINE Up(m) == {k \in S : k <= m}
<1>1. Cardinality(S) \in Nat
  BY FS_CardinalityType
<1>2. \A m \in S : IsFiniteSet(Up(m)) /\ Cardinality(Up(m)) \in Nat /\ Cardinality(Up(m)) <= Cardinality(S)
  <2>1. \A m \in S : Up(m) \in SUBSET S
    OBVIOUS
  <2>. HIDE DEF Up
  <2>. QED  BY <2>1, FS_Subset, FS_CardinalityType
<1>3. \A m \in S : Tree!Place(S, m) = Cardinality(Up(m))
  BY DEF Tree!Place, Tree!Cardinality, Cardinality
<1>4. Cardinality(Up(n)) # 0
  <2>1. n \in Up(n)
    OBVIOUS
  <2>. HIDE DEF Up
  <2>. QED  BY <1>2, <2>1, FS_EmptySet
<1>5. ASSUME NEW m \in S, m > n
      PROVE  Cardinality(Up(m)) > Cardinality(Up(n))
  <2>0. m \in Nat /\ n \in Nat /\ \A k \in S : k \in Nat /\ (k <= n => k <= m)
    BY <1>5
  <2>1. Up(n) \in SUBSET Up(m) /\ m \in Up(m) /\ m \notin Up(n)
    <3>1. \A k \in Up(n) : k \in Up(m)
      BY <2>0
    <3>2. m <= m /\ ~(m <= n)
      BY <1>5, <2>0
    <3>. QED  BY <3>1, <3>2
  <2>. HIDE DEF Up
  <2>2. Cardinality(Up(n)) <= Cardinality(Up(m)) /\ Cardinality(Up(m)) # Cardinality(Up(n))
    BY <1>2, <2>1, FS_Subset
  <2>. QED  BY <1>2, <2>2
<1>. HIDE DEF Up
<1>. QED  BY <1>1, <1>2, <1>3, <1>4, <1>5

(* A group's slice is of as many as the fan-out at most.                    *)
LEMMA SlicesFit ==
    ASSUME NEW S \in SUBSET Nat, IsFiniteSet(S), NEW g \in Nat,
           NEW T \in SUBSET S, \A n \in T : g = (Tree!Place(S, n) - 1) \div Fanout + 1
    PROVE  IsFiniteSet(T) /\ Cardinality(T) <= Fanout
<1>. DEFINE q == g - 1
            I == (Fanout * q + 1) .. (Fanout * q + Fanout)
            f == [n \in T |-> Tree!Place(S, n)]
<1>1. Fanout \in Nat /\ Fanout >= 2
  BY FanoutTyped
<1>2. ASSUME NEW n \in T
      PROVE  q \in Nat /\ Tree!Place(S, n) \in I
  <2>1. Tree!Place(S, n) \in 1 .. Cardinality(S) /\ Cardinality(S) \in Nat
    BY PlaceIs, FS_CardinalityType
  <2>2. Tree!Place(S, n) - 1 \in Nat
    BY <2>1
  <2>3. q = (Tree!Place(S, n) - 1) \div Fanout
    BY <1>1, <2>2
  <2>. HIDE DEF q
  <2>4. /\ q \in Nat /\ Fanout * q <= Tree!Place(S, n) - 1
        /\ Tree!Place(S, n) - 1 < Fanout * q + Fanout
    BY <1>1, <2>2, <2>3, Quotient
  <2>. QED  BY <1>1, <2>1, <2>4
<1>3. CASE T = {}
  BY <1>1, <1>3, FS_EmptySet
<1>4. CASE T # {}
  <2>1. q \in Nat
    BY <1>2, <1>4
  <2>. HIDE DEF q
  <2>2. Fanout * q \in Nat
    BY <1>1, <2>1
  <2>3. IsFiniteSet(I) /\ Cardinality(I) = Fanout
    <3>. DEFINE a == Fanout * q + 1
                b == Fanout * q + Fanout
    <3>1. a \in Int /\ b \in Int /\ b - a + 1 = Fanout /\ ~(a > b)
      BY <1>1, <2>2
    <3>. HIDE DEF a, b
    <3>2. IsFiniteSet(a .. b) /\ Cardinality(a .. b) = Fanout
      BY <3>1, FS_Interval
    <3>. QED  BY <3>2 DEF a, b
  <2>4. \A m, n \in T : f[m] = f[n] => m = n
    <3>1. ASSUME NEW m \in T, NEW n \in T, m > n
          PROVE  f[m] > f[n]
      BY <3>1, PlaceIs
    <3>2. \A n \in T : n \in Nat /\ f[n] \in Nat
      BY <1>2, <2>2
    <3>. HIDE DEF f
    <3>. QED  BY <3>1, <3>2
  <2>5. f \in [T -> I]
    BY <1>2
  <2>. HIDE DEF f, I
  <2>6. f \in Injection(T, I)
    BY <2>4, <2>5 DEF Injection, IsInjective
  <2>. QED  BY <2>3, <2>6, FS_Injection
<1>. QED  BY <1>3, <1>4

-----------------------------------------------------------------------------
(* The nodes that are made, those offered at the top of a list, and what    *)
(* they have below them.                                                    *)
LEMMA MadeAre ==
    ASSUME NEW owner, NEW some, NEW node
    PROVE  node \in Tree!Made(owner, some) <=>
               \E row \in some : \E n \in Tree!Row(owner, row) : node = Tree!Node(owner, row, n)
BY DEF Tree!Made

LEMMA FieldsAre ==
    ASSUME NEW owner, NEW row, NEW n
    PROVE  LET node == Tree!Node(owner, row, n) IN node.owner = owner /\ node.row = row /\ node.number = n
BY DEF Tree!Node

LEMMA NodesAre ==
    ASSUME NEW node
    PROVE  node \in Tree!Nodes <=>
               \E owner \in Owners : \E row \in Tree!Rows(owner) : \E n \in Tree!Row(owner, row) :
                   node = Tree!Node(owner, row, n)
BY MadeAre DEF Tree!Nodes, Owners

LEMMA NodesOfRow ==
    ASSUME NEW S, IsFiniteSet(S), NEW owner, NEW row
    PROVE  LET T == {Tree!Node(owner, row, n) : n \in S} IN IsFiniteSet(T) /\ Cardinality(T) <= Cardinality(S)
<1>. DEFINE T == {Tree!Node(owner, row, n) : n \in S}
            f == [n \in S |-> Tree!Node(owner, row, n)]
<1>1. f \in [S -> T] /\ \A t \in T : \E n \in S : f[n] = t
  OBVIOUS
<1>. HIDE DEF T, f
<1>2. f \in Surjection(S, T)
  BY <1>1 DEF Surjection
<1>3. IsFiniteSet(T) /\ Cardinality(T) <= Cardinality(S)
  BY <1>2, FS_Surjection
<1>. QED  BY <1>3 DEF T

LEMMA TopFits ==
    ASSUME outline \in Outlines, NEW owner \in Owners
    PROVE  /\ Tree!Top(owner) \subseteq Tree!Nodes
           /\ IsFiniteSet(Tree!Top(owner)) /\ Cardinality(Tree!Top(owner)) <= Fanout
<1>. DEFINE narrow == {row \in Tree!Rows(owner) : Tree!Width(owner, row) <= Fanout}
<1>1. Tree!Top(owner) = Tree!Made(owner, narrow)
  BY DEF Tree!Top
<1>2. \A row \in narrow : row \in Tree!Rows(owner) /\ row \in Nat /\ Tree!Width(owner, row) <= Fanout
  BY RowsGoOn
<1>3. \A r, s \in narrow : r = s
  <2>1. \A r, s \in narrow : ~(r > s)
    <3>1. \A r \in narrow : Tree!Width(owner, r) \in Nat
      BY <1>2, RowFacts
    <3>. QED  BY <1>2, <3>1, RowsGoOn, FanoutTyped
  <2>. HIDE DEF narrow
  <2>. QED  BY <1>2, <2>1
<1>. HIDE DEF narrow
<1>4. Tree!Top(owner) \subseteq Tree!Nodes
  BY <1>1, <1>2, MadeAre, NodesAre
<1>5. CASE narrow = {}
  <2>1. Tree!Top(owner) = {}
    BY <1>1, <1>5, MadeAre
  <2>. QED  BY <1>4, <2>1, FS_EmptySet, FanoutTyped
<1>6. CASE narrow # {}
  <2>1. PICK r \in narrow : \A s \in narrow : s = r
    BY <1>3, <1>6
  <2>. DEFINE S == Tree!Row(owner, r)
              Op(n) == Tree!Node(owner, r, n)
              T == {Op(n) : n \in S}
  <2>2. Tree!Top(owner) = T
    <3>1. \A node : node \in Tree!Top(owner) <=> node \in T
      BY <1>1, <2>1, MadeAre
    <3>. QED  BY <3>1
  <2>3. IsFiniteSet(S) /\ Cardinality(S) <= Fanout /\ Cardinality(S) \in Nat
    BY <1>2, RowFacts
  <2>4. IsFiniteSet(T) /\ Cardinality(T) <= Cardinality(S)
    <3>. HIDE DEF S
    <3>. QED  BY <2>3, NodesOfRow
  <2>5. Cardinality(T) \in Nat
    BY <2>4, FS_CardinalityType
  <2>. HIDE DEF S, T
  <2>. QED  BY <1>4, <2>2, <2>3, <2>4, <2>5, FanoutTyped
<1>. QED  BY <1>5, <1>6

LEMMA SlicesAre ==
    ASSUME outline \in Outlines, NEW owner \in Owners, NEW row \in Tree!Rows(owner), row # 0,
           NEW n \in Tree!Row(owner, row)
    PROVE  LET node == Tree!Node(owner, row, n)
               below == Tree!Row(owner, row - 1)
           IN /\ row - 1 \in Tree!Rows(owner)
              /\ Tree!Children(node) = {Tree!Node(owner, row - 1, m) : m \in Tree!Slice(node)}
              /\ Tree!Slice(node) \subseteq below
              /\ \A m \in below : m \in Tree!Slice(node) <=> n = (Tree!Place(below, m) - 1) \div Fanout + 1
<1>. DEFINE node == Tree!Node(owner, row, n)
<1>1. node.owner = owner /\ node.row = row /\ node.number = n
  BY FieldsAre
<1>2. row - 1 \in Tree!Rows(owner)
  BY RowsGoOn
<1>. HIDE DEF node
<1>3. Tree!Children(node) = {Tree!Node(owner, row - 1, m) : m \in Tree!Slice(node)}
  BY <1>1 DEF Tree!Children
<1>4. Tree!Slice(node) = {m \in Tree!Row(owner, row - 1) : n = (Tree!Place(Tree!Row(owner, row - 1), m) - 1) \div Fanout + 1}
  BY <1>1 DEF Tree!Slice
<1>. QED  BY <1>2, <1>3, <1>4 DEF node

LEMMA ChildrenFit ==
    ASSUME outline \in Outlines, NEW node \in Tree!Nodes
    PROVE  Tree!Children(node) \subseteq Tree!Nodes /\ Cardinality(Tree!Children(node)) <= Fanout
<1>a. PICK owner \in Owners : \E row \in Tree!Rows(owner) : \E n \in Tree!Row(owner, row) :
                                  node = Tree!Node(owner, row, n)
  BY NodesAre
<1>b. PICK row \in Tree!Rows(owner) : \E n \in Tree!Row(owner, row) : node = Tree!Node(owner, row, n)
  BY <1>a
<1>1. PICK n \in Tree!Row(owner, row) : node = Tree!Node(owner, row, n)
  BY <1>b
<1>2. node.owner = owner /\ node.row = row /\ node.number = n
  BY <1>1, FieldsAre
<1>3. CASE row # 0
  <2>. DEFINE below == Tree!Row(owner, row - 1)
              T == Tree!Slice(node)
              Op(m) == Tree!Node(owner, row - 1, m)
  <2>1. /\ row - 1 \in Tree!Rows(owner) /\ Tree!Children(node) = {Op(m) : m \in T} /\ T \subseteq below
        /\ \A m \in below : m \in T <=> n = (Tree!Place(below, m) - 1) \div Fanout + 1
    BY <1>1, <1>3, SlicesAre
  <2>2. row - 1 \in Nat /\ row \in Nat
    BY <2>1, RowsGoOn
  <2>3. below \in SUBSET Nat /\ IsFiniteSet(below) /\ n \in Nat
    BY <1>1, <2>2, RowFacts
  <2>. HIDE DEF below, T
  <2>4. IsFiniteSet(T) /\ Cardinality(T) <= Fanout
    BY <2>1, <2>3, SlicesFit
  <2>5. IsFiniteSet({Op(m) : m \in T}) /\ Cardinality({Op(m) : m \in T}) <= Cardinality(T)
    BY <2>4, NodesOfRow
  <2>6. Cardinality(T) \in Nat /\ Cardinality({Op(m) : m \in T}) \in Nat
    BY <2>4, <2>5, FS_CardinalityType
  <2>7. Cardinality(Tree!Children(node)) <= Fanout
    <3>. DEFINE C == {Op(m) : m \in T}
    <3>1. Tree!Children(node) = C /\ Cardinality(C) <= Cardinality(T) /\ Cardinality(C) \in Nat
      BY <2>1, <2>5, <2>6
    <3>. HIDE DEF C
    <3>. QED  BY <2>4, <2>6, <3>1, FanoutTyped
  <2>8. \A m \in T : Op(m) \in Tree!Nodes
    BY <2>1, NodesAre DEF below
  <2>. QED  BY <2>1, <2>7, <2>8
<1>4. CASE row = 0 /\ Tree!HasPages(owner)
  <2>1. Tree!Children(node) = {}
    BY <1>2, <1>4 DEF Tree!Children
  <2>. QED  BY <2>1, FS_EmptySet, FanoutTyped
<1>5. CASE row = 0 /\ ~Tree!HasPages(owner)
  <2>1. Tree!Children(node) = Tree!Top(n)
    BY <1>2, <1>5 DEF Tree!Children
  <2>2. n \in Tree!Items
    BY <1>1, <1>5, ListedFacts DEF Tree!Row, Tree!Listed
  <2>. QED  BY <2>1, <2>2, TopFits DEF Owners
<1>. QED  BY <1>3, <1>4, <1>5

(* A node is at the top or below one before it: below its group if its row  *)
(* is too wide, below the item whose list it is in if not.                  *)
LEMMA ReachedFromBefore ==
    ASSUME outline \in Outlines, NEW node \in Tree!Nodes
    PROVE  node \in Tree!Top(0) \/ \E m \in Tree!Nodes : Tree!Before(m, node) /\ node \in Tree!Children(m)
<1>a. PICK owner \in Owners : \E row \in Tree!Rows(owner) : \E n \in Tree!Row(owner, row) :
                                  node = Tree!Node(owner, row, n)
  BY NodesAre
<1>b. PICK row \in Tree!Rows(owner) : \E n \in Tree!Row(owner, row) : node = Tree!Node(owner, row, n)
  BY <1>a
<1>1. PICK n \in Tree!Row(owner, row) : node = Tree!Node(owner, row, n)
  BY <1>b
<1>2. node.owner = owner /\ node.row = row /\ node.number = n
  BY <1>1, FieldsAre
<1>3. owner \in Nat /\ row \in Nat
  BY OutlineFacts, RowsGoOn DEF Owners
<1>4. CASE Tree!Width(owner, row) > Fanout
  <2>. DEFINE below == Tree!Row(owner, row)
              above == row + 1
              g == (Tree!Place(below, n) - 1) \div Fanout + 1
              m == Tree!Node(owner, above, g)
  <2>1. above \in Tree!Rows(owner) /\ above # 0 /\ above - 1 = row /\ above \in Nat
    BY <1>3, <1>4, RowsGoOn
  <2>2. Tree!Place(below, n) \in 1 .. Tree!Width(owner, row) /\ Tree!Width(owner, row) \in Nat
    <3>1. below \in SUBSET Nat /\ IsFiniteSet(below) /\ Cardinality(below) = Tree!Width(owner, row)
      BY <1>3, RowFacts
    <3>. HIDE DEF below
    <3>2. n \in below
      BY DEF below
    <3>. QED  BY <1>3, <3>1, <3>2, PlaceIs, RowFacts
  <2>. HIDE DEF below
  <2>3. g \in 1 .. Tree!Groups(Tree!Width(owner, row))
    BY <2>2, GroupsAre
  <2>. HIDE DEF g
  <2>4. g \in Tree!Row(owner, above)
    BY <1>3, <2>1, <2>3, WidthIs DEF Tree!Row
  <2>. HIDE DEF above
  <2>5. n \in Tree!Slice(m) /\ Tree!Children(m) = {Tree!Node(owner, row, k) : k \in Tree!Slice(m)}
    BY <2>1, <2>4, SlicesAre DEF g, below
  <2>6. m \in Tree!Nodes
    BY <2>1, <2>4, NodesAre
  <2>7. m.owner = owner /\ m.row = row + 1
    BY FieldsAre DEF above
  <2>8. Tree!Before(m, node)
    BY <1>2, <1>3, <2>7 DEF Tree!Before
  <2>9. node \in Tree!Children(m)
    BY <1>1, <2>5
  <2>. QED  BY <2>6, <2>8, <2>9
<1>5. CASE ~(Tree!Width(owner, row) > Fanout)
  <2>1. Tree!Width(owner, row) <= Fanout
    BY <1>3, <1>5, RowFacts, FanoutTyped
  <2>2. node \in Tree!Top(owner)
    BY <1>1, <2>1, MadeAre DEF Tree!Top
  <2>3. CASE owner = 0
    BY <2>2, <2>3
  <2>4. CASE owner # 0
    <3>. DEFINE parent == outline[owner].parent
                m == Tree!Node(parent, 0, owner)
    <3>1. owner \in Tree!Items /\ parent \in Owners /\ parent < owner /\ parent \in Nat
      <4>1. owner \in Tree!Items /\ owner \in 1 .. Len(outline) /\ Len(outline) \in Nat
        BY <2>4, OutlineFacts DEF Owners
      <4>2. parent \in Nat /\ parent < owner
        BY <4>1, OutlineFacts
      <4>3. parent = 0 \/ parent \in 1 .. Len(outline)
        BY <4>1, <4>2
      <4>. QED  BY <4>1, <4>2, <4>3, OutlineFacts DEF Owners
    <3>2. owner \in Tree!Below(parent)
      BY <3>1 DEF Tree!Below
    <3>. HIDE DEF parent
    <3>3. ~Tree!HasPages(parent) /\ owner \in Tree!Row(parent, 0)
      BY <3>2 DEF Tree!HasPages, Tree!Listed, Tree!Row
    <3>4. 0 \in Tree!Rows(parent)
      <4>1. Tree!Width(parent, 0) \in Nat
        BY <3>1, RowFacts
      <4>. QED  BY <4>1 DEF Tree!Rows
    <3>5. m \in Tree!Nodes
      BY <3>1, <3>3, <3>4, NodesAre
    <3>6. m.owner = parent /\ m.row = 0 /\ m.number = owner
      BY FieldsAre
    <3>7. Tree!Children(m) = Tree!Top(owner)
      BY <3>3, <3>6 DEF Tree!Children
    <3>8. Tree!Before(m, node)
      BY <1>2, <3>1, <3>6 DEF Tree!Before
    <3>. QED  BY <2>2, <3>5, <3>7, <3>8
  <2>. QED  BY <2>3, <2>4
<1>. QED  BY <1>4, <1>5

(* The pages at the leaves are those that the leaves of the outline cover.  *)
LEMMA LeafIsCovered ==
    ASSUME outline \in Outlines, NEW node \in Tree!Nodes, Tree!Children(node) = {}, Tree!Page(node) # 0
    PROVE  \E n \in Tree!Items : Tree!Below(n) = {} /\ Tree!Page(node) \in Tree!Matching(n)
<1>a. PICK owner \in Owners : \E row \in Tree!Rows(owner) : \E n \in Tree!Row(owner, row) :
                                  node = Tree!Node(owner, row, n)
  BY NodesAre
<1>b. PICK row \in Tree!Rows(owner) : \E n \in Tree!Row(owner, row) : node = Tree!Node(owner, row, n)
  BY <1>a
<1>1. PICK n \in Tree!Row(owner, row) : node = Tree!Node(owner, row, n)
  BY <1>b
<1>2. node.owner = owner /\ node.row = row /\ node.number = n
  BY <1>1, FieldsAre
<1>3. row = 0 /\ n \in Tree!Listed(owner)
  BY <1>2 DEF Tree!Page, Tree!Row
<1>4. CASE Tree!HasPages(owner)
  <2>1. Tree!Page(node) = n
    BY <1>2, <1>3, <1>4 DEF Tree!Page
  <2>2. owner # 0 /\ Tree!Below(owner) = {}
    BY <1>4 DEF Tree!HasPages
  <2>3. n \in Tree!Matching(owner)
    <3>1. Tree!Listed(owner) \in {Tree!Matching(owner), {}}
      BY <1>4 DEF Tree!Listed
    <3>. QED  BY <1>3, <3>1
  <2>. QED  BY <2>1, <2>2, <2>3 DEF Owners
<1>5. CASE ~Tree!HasPages(owner)
  <2>1. n \in Tree!Below(owner) /\ n \in Tree!Items
    BY <1>3, <1>5, ListedFacts DEF Tree!Listed
  <2>2. /\ Tree!Listed(n) = {} /\ Tree!Matching(n) # {}
        /\ Tree!Page(node) = Tree!Min(Tree!Matching(n))
    BY <1>2, <1>3, <1>5 DEF Tree!Page
  <2>3. Tree!Below(n) = {}
    BY <2>2 DEF Tree!Listed, Tree!HasPages
  <2>4. Tree!Min(Tree!Matching(n)) \in Tree!Matching(n)
    <3>1. Tree!Matching(n) \in SUBSET Nat
      BY <2>1, OutlineFacts, ListedFacts DEF Owners
    <3>2. Min(Tree!Matching(n)) \in Tree!Matching(n)
      BY <2>2, <3>1, LeastHere
    <3>3. Tree!Min(Tree!Matching(n)) = Min(Tree!Matching(n))
      BY DEF Tree!Min, Min
    <3>. QED  BY <3>2, <3>3
  <2>. QED  BY <2>1, <2>2, <2>3, <2>4
<1>. QED  BY <1>4, <1>5

LEMMA CoveredIsLeaf ==
    ASSUME outline \in Outlines, NEW n \in Tree!Items, Tree!Below(n) = {}, NEW p \in Tree!Matching(n)
    PROVE  p # 0 /\ \E node \in Tree!Nodes : Tree!Children(node) = {} /\ Tree!Page(node) = p
<1>1. n \in Owners /\ n # 0 /\ Tree!HasPages(n) /\ n \in Nat /\ n \in 1 .. Len(outline) /\ Len(outline) \in Nat
  BY OutlineFacts DEF Tree!HasPages, Owners
<1>2. IsFiniteSet(Tree!Matching(n)) /\ p \in Nat /\ p # 0 /\ Tree!Matching(n) \in SUBSET Nat
  BY <1>1, OutlineFacts, ListedFacts
<1>3. CASE Cardinality(Tree!Matching(n)) > 1
  <2>. DEFINE node == Tree!Node(n, 0, p)
  <2>1. Tree!Listed(n) = Tree!Matching(n)
    BY <1>1, <1>3 DEF Tree!Listed, Tree!Cardinality, Cardinality
  <2>2. 0 \in Tree!Rows(n)
    BY <1>1, RowFacts DEF Tree!Rows
  <2>3. node \in Tree!Nodes
    BY <1>1, <2>1, <2>2, NodesAre DEF Tree!Row
  <2>4. node.owner = n /\ node.row = 0 /\ node.number = p
    BY FieldsAre
  <2>. HIDE DEF node
  <2>5. Tree!Children(node) = {} /\ Tree!Page(node) = p
    BY <1>1, <2>4 DEF Tree!Children, Tree!Page
  <2>. QED  BY <1>2, <2>3, <2>5
<1>4. CASE ~(Cardinality(Tree!Matching(n)) > 1)
  <2>. DEFINE parent == outline[n].parent
              node == Tree!Node(parent, 0, n)
  <2>1. Tree!Listed(n) = {}
    BY <1>1, <1>4 DEF Tree!Listed, Tree!Cardinality, Cardinality
  <2>2. Tree!Matching(n) = {p}
    <3>1. Cardinality(Tree!Matching(n)) \in Nat
      BY <1>2, FS_CardinalityType
    <3>2. Cardinality(Tree!Matching(n)) # 0
      BY <1>2, FS_EmptySet
    <3>3. Cardinality(Tree!Matching(n)) = 1
      BY <1>4, <3>1, <3>2
    <3>4. PICK x : Tree!Matching(n) = {x}
      BY <1>2, <3>3, FS_Singleton
    <3>. QED  BY <3>4
  <2>3. parent \in Owners
    <3>1. parent \in Nat /\ parent < n
      BY OutlineFacts
    <3>2. parent = 0 \/ parent \in 1 .. Len(outline)
      BY <1>1, <3>1
    <3>. QED  BY <3>2, OutlineFacts DEF Owners
  <2>4. n \in Tree!Below(parent)
    BY DEF Tree!Below
  <2>. HIDE DEF parent
  <2>5. ~Tree!HasPages(parent) /\ n \in Tree!Row(parent, 0)
    BY <2>4 DEF Tree!HasPages, Tree!Listed, Tree!Row
  <2>6. 0 \in Tree!Rows(parent)
    BY <2>3, RowFacts DEF Tree!Rows
  <2>7. node \in Tree!Nodes
    BY <2>3, <2>5, <2>6, NodesAre
  <2>8. node.owner = parent /\ node.row = 0 /\ node.number = n
    BY FieldsAre
  <2>. HIDE DEF node
  <2>9. Tree!Top(n) = {}
    <3>1. Tree!Width(n, 0) = 0
      BY <1>1, <2>1, WidthIs, FS_EmptySet
    <3>2. Tree!Rows(n) \subseteq {0}
      BY <3>1 DEF Tree!Rows
    <3>3. Tree!Row(n, 0) = {}
      BY <2>1 DEF Tree!Row
    <3>. QED  BY <3>2, <3>3, MadeAre DEF Tree!Top
  <2>10. Tree!Children(node) = {}
    BY <2>5, <2>8, <2>9 DEF Tree!Children
  <2>11. Tree!Page(node) = Tree!Min({p})
    BY <2>1, <2>2, <2>5, <2>8 DEF Tree!Page
  <2>12. Tree!Min({p}) = p
    <3>1. Min({p}) \in {p}
      BY <1>2, LeastHere
    <3>2. Tree!Min({p}) = Min({p})
      BY DEF Tree!Min, Min
    <3>. QED  BY <3>1, <3>2
  <2>. QED  BY <1>2, <2>7, <2>10, <2>11, <2>12
<1>. QED  BY <1>3, <1>4

LEMMA PagesWithinReach ==
    ASSUME outline \in Outlines, tree \in {{}, Tree!Nodes}
    PROVE  Tree!EveryPageIsWithinReach
<1>. SUFFICES ASSUME tree = Tree!Nodes PROVE Tree!EveryPageIsWithinReach
  BY DEF Tree!EveryPageIsWithinReach
<1>1. {Tree!Page(node) : node \in {n \in tree : Tree!Children(n) = {}}} \ {0}
          = UNION {Tree!Matching(n) : n \in {m \in Tree!Items : Tree!Below(m) = {}}}
  <2>. DEFINE Leaves == {Tree!Page(node) : node \in {n \in tree : Tree!Children(n) = {}}} \ {0}
              Covered == UNION {Tree!Matching(n) : n \in {m \in Tree!Items : Tree!Below(m) = {}}}
  <2>1. \A p \in Leaves : p \in Covered
    BY LeafIsCovered
  <2>2. \A p \in Covered : p \in Leaves
    BY CoveredIsLeaf
  <2>. QED  BY <2>1, <2>2
<1>2. \A node \in tree : node \in Tree!Top(0) \/ \E m \in tree : Tree!Before(m, node) /\ node \in Tree!Children(m)
  BY ReachedFromBefore
<1>3. ASSUME NEW offered \in {Tree!Top(0)} \cup {Tree!Children(node) : node \in tree}
      PROVE  offered \subseteq tree /\ Tree!Cardinality(offered) <= Fanout
  <2>1. Tree!Cardinality(offered) = Cardinality(offered)
    BY DEF Tree!Cardinality, Cardinality
  <2>2. CASE offered = Tree!Top(0)
    BY <2>1, <2>2, TopFits DEF Owners
  <2>3. CASE offered \in {Tree!Children(node) : node \in tree}
    BY <2>1, <2>3, ChildrenFit
  <2>. QED  BY <2>2, <2>3
<1>. QED  BY <1>1, <1>2, <1>3 DEF Tree!EveryPageIsWithinReach

-----------------------------------------------------------------------------
(* The way through it: the index is the whole tree as long as there is one, *)
(* and only a turn that is left is taken.                                   *)
LEMMA WidthIsWide == \A n, row : Tree!Width(n, row) = Wide(Cardinality(Tree!Listed(n)), row)
BY DEF Tree!Width, Wide, Tree!Cardinality, Cardinality

LEMMA NodesStay ==
    ASSUME outline' = outline
    PROVE  Tree!Nodes' = Tree!Nodes
<1>1. Tree!Items' = Tree!Items /\ \A n : Tree!Below(n)' = Tree!Below(n) /\ Tree!Matching(n)' = Tree!Matching(n)
  BY DEF Tree!Items, Tree!Below, Tree!Matching
<1>2. \A n : Tree!HasPages(n)' = Tree!HasPages(n)
  BY <1>1 DEF Tree!HasPages
<1>3. \A n : Tree!Listed(n)' = Tree!Listed(n)
  BY <1>1, <1>2 DEF Tree!Listed
<1>4. (\A n, row : Tree!Width(n, row) = Wide(Cardinality(Tree!Listed(n)), row))'
  BY WidthIsWide, PTL
<1>5. \A n, row : Tree!Width(n, row)' = Wide(Cardinality(Tree!Listed(n)'), row)
  BY <1>4
<1>6. \A n, row : Tree!Width(n, row)' = Tree!Width(n, row)
  BY <1>3, <1>5, WidthIsWide
<1>7. \A n, row : Tree!Row(n, row)' = Tree!Row(n, row)
  BY <1>3, <1>6 DEF Tree!Row
<1>8. \A n : Tree!Rows(n)' = Tree!Rows(n)
  BY <1>6 DEF Tree!Rows
<1>9. \A n, some : Tree!Made(n, some)' = Tree!Made(n, some)
  BY <1>7 DEF Tree!Made
<1>. QED  BY <1>1, <1>8, <1>9 DEF Tree!Nodes

TreeInv ==
    /\ Tree!TypeOK
    /\ turn \in {"indexed", "asking", "chosen", "navigated"} => tree = Tree!Nodes
    /\ turn = "chosen" => steps < MaxSteps

LEMMA TreeInit == Tree!Init => TreeInv
<1>. SUFFICES ASSUME Tree!Init PROVE TreeInv
  OBVIOUS
<1>1. MaxSteps \in Nat
  BY HostServicesAssumption
<1>3. steps \in 0 .. MaxSteps
  BY <1>1 DEF Tree!Init
<1>4. current \in BOOLEAN /\ cancelled \in BOOLEAN
  BY DEF Tree!Init
<1>2. Tree!TypeOK
  BY <1>3, <1>4 DEF Tree!Init, Tree!TypeOK
<1>. QED  BY <1>2 DEF Tree!Init, TreeInv

LEMMA FollowStep ==
    ASSUME TreeInv, NEW picked, Tree!Follow(picked), turn = "chosen"
    PROVE  /\ frontier' \subseteq tree /\ selected' \subseteq Tree!WithText
           /\ steps' \in 0 .. MaxSteps
<1>1. /\ outline \in Outlines /\ tree = Tree!Nodes /\ frontier \subseteq tree
      /\ selected \subseteq Tree!WithText /\ steps \in 0 .. MaxSteps /\ steps < MaxSteps /\ MaxSteps \in Nat
  BY HostServicesAssumption DEF TreeInv, Tree!TypeOK
<1>2. \A node \in frontier : Tree!Children(node) \subseteq tree
  BY <1>1, ChildrenFit
<1>3. frontier' \subseteq tree /\ selected' \subseteq Tree!WithText /\ steps' = steps + 1
  BY <1>1, <1>2 DEF Tree!Follow
<1>. QED  BY <1>1, <1>3

LEMMA TreeStep == TreeInv /\ [Tree!Next]_Tree!treeVars => TreeInv'
<1>. SUFFICES ASSUME TreeInv, [Tree!Next]_Tree!treeVars PROVE TreeInv'
  OBVIOUS
<1>1. /\ outline \in Outlines /\ tree \in {{}, Tree!Nodes} /\ frontier \subseteq tree
      /\ selected \subseteq Tree!WithText /\ steps \in 0 .. MaxSteps
      /\ turn \in {"outlined", "indexed", "asking", "chosen", "navigated", "refused"}
      /\ current \in BOOLEAN /\ cancelled \in BOOLEAN
      /\ turn \in {"indexed", "asking", "chosen", "navigated"} => tree = Tree!Nodes
      /\ turn = "chosen" => steps < MaxSteps
  BY DEF TreeInv, Tree!TypeOK
<1>2. outline' = outline
  BY DEF Tree!Next, Tree!Replace, Tree!Cancel, Tree!Build, Tree!Begin, Tree!Ask, Tree!Choose, Tree!Navigated,
         Tree!Refuse, Tree!index, Tree!treeVars
<1>3. Tree!Nodes' = Tree!Nodes /\ Tree!WithText' = Tree!WithText
  BY <1>2, NodesStay DEF Tree!WithText, Tree!Pages
<1>. DEFINE Typed ==
              /\ outline' \in Outlines /\ tree' \in {{}, Tree!Nodes} /\ frontier' \subseteq tree'
              /\ selected' \subseteq Tree!WithText /\ steps' \in 0 .. MaxSteps
              /\ turn' \in {"outlined", "indexed", "asking", "chosen", "navigated", "refused"}
              /\ current' \in BOOLEAN /\ cancelled' \in BOOLEAN
              /\ turn' \in {"indexed", "asking", "chosen", "navigated"} => tree' = Tree!Nodes
              /\ turn' = "chosen" => steps' < MaxSteps
<1>4. SUFFICES Typed
  BY <1>3 DEF TreeInv, Tree!TypeOK
<1>5. CASE Tree!Refuse
  BY <1>1, <1>5 DEF Tree!Refuse, Tree!index
<1>6. CASE Tree!Replace \/ Tree!Cancel
  BY <1>1, <1>6 DEF Tree!Replace, Tree!Cancel, Tree!index
<1>7. CASE Tree!Build
  <2>. SUFFICES ASSUME ~Tree!Refuse PROVE Typed
    BY <1>5
  <2>. QED  BY <1>1, <1>7 DEF Tree!Build
<1>8. CASE Tree!Begin
  <2>. SUFFICES ASSUME ~Tree!Refuse PROVE Typed
    BY <1>5
  <2>1. Tree!Top(0) \subseteq Tree!Nodes
    BY <1>1, TopFits DEF Owners
  <2>. QED  BY <1>1, <1>8, <2>1 DEF Tree!Begin, Tree!index
<1>9. CASE Tree!Ask
  <2>. SUFFICES ASSUME ~Tree!Refuse PROVE Typed
    BY <1>5
  <2>1. steps # MaxSteps
    BY <1>9 DEF Tree!Ask, Tree!Enough
  <2>2. steps < MaxSteps
    BY <1>1, <2>1, HostServicesAssumption
  <2>. QED  BY <1>1, <1>9, <2>2 DEF Tree!Ask, Tree!index
<1>10. CASE Tree!Choose
  <2>. SUFFICES ASSUME ~Tree!Refuse PROVE Typed
    BY <1>5
  <2>1. PICK picked \in Tree!Answers : Tree!Follow(picked)
    BY <1>10 DEF Tree!Choose
  <2>2. /\ turn = "chosen" /\ turn' = "asking" /\ outline' = outline /\ tree' = tree
        /\ current' = current /\ cancelled' = cancelled
    BY <1>10 DEF Tree!Choose, Tree!index
  <2>3. frontier' \subseteq tree /\ selected' \subseteq Tree!WithText /\ steps' \in 0 .. MaxSteps
    BY <2>1, <2>2, FollowStep
  <2>. QED  BY <1>1, <2>2, <2>3
<1>11. CASE Tree!Navigated
  <2>. SUFFICES ASSUME ~Tree!Refuse PROVE Typed
    BY <1>5
  <2>. QED  BY <1>1, <1>11 DEF Tree!Navigated, Tree!index
<1>12. CASE UNCHANGED Tree!treeVars
  BY <1>1, <1>12 DEF Tree!treeVars
<1>. QED  BY <1>6, <1>7, <1>8, <1>9, <1>10, <1>11, <1>12 DEF Tree!Next

(* Whatever the outline of a PDF is, the tree the provider is led through   *)
(* has every page with text that its leaves cover, and no other; every      *)
(* node of it is below the top; no more are offered together than the       *)
(* fan-out; and the provider is only ever offered nodes of that tree        *)
(* (tree_navigation/engine.py:34-80, 107-169).                              *)
THEOREM EveryPageStaysWithinReach == Tree!Spec => [](Tree!TypeOK /\ Tree!EveryPageIsWithinReach)
<1>1. TreeInv => Tree!TypeOK /\ Tree!EveryPageIsWithinReach
  BY PagesWithinReach DEF TreeInv, Tree!TypeOK
<1>. QED  BY <1>1, TreeInit, TreeStep, PTL DEF Tree!Spec

-----------------------------------------------------------------------------
(* Stores: both hold the same documents and chunks, and the graph has a     *)
(* version's node exactly while it has its chunks.                          *)

StoresHoldAlike == memory = [documents |-> nodes.documents, chunks |-> nodes.chunks]

NodesTyped ==
    /\ nodes = [documents |-> nodes.documents, versions |-> nodes.versions, chunks |-> nodes.chunks]
    /\ nodes.chunks \subseteq Stores!Chunks /\ nodes.versions \subseteq Stores!Versions

VersionsAreWhole ==
    \A c \in Stores!Chunks : c \in nodes.chunks <=> Home[c] \in nodes.versions

GraphInv == NodesTyped /\ StoresHoldAlike /\ VersionsAreWhole /\ Stores!EdgesFollowNames

LEMMA IdsOfVersions ==
    ASSUME NEW v \in Stores!Versions
    PROVE  /\ Stores!Ids[v] \subseteq Stores!Chunks /\ \A c \in Stores!Chunks : c \in Stores!Ids[v] <=> Home[c] = v
           /\ \E c \in Stores!Chunks : Home[c] = v
<1>1. Home \in [Stores!Chunks -> Stores!Versions] /\ \A w \in Stores!Versions : Stores!Ids[w] # {}
  BY HostServicesAssumption
<1>. QED  BY <1>1 DEF Stores!Ids

LEMMA GraphInit == Stores!Init => GraphInv
BY DEF Stores!Init, GraphInv, NodesTyped, StoresHoldAlike, VersionsAreWhole, Stores!EdgesFollowNames

LEMMA UpsertStep ==
    ASSUME GraphInv, NEW v \in Stores!Versions, Stores!Upsert(v)
    PROVE  GraphInv'
<1>. DEFINE documents == nodes.documents \cup {Held[v]}
            kept == nodes.chunks \cup Stores!Ids[v]
<1>1. /\ memory' = [documents |-> memory.documents \cup {Held[v]}, chunks |-> memory.chunks \cup Stores!Ids[v]]
      /\ nodes' = [documents |-> documents, versions |-> nodes.versions \cup {v}, chunks |-> kept]
      /\ edges' = {edge \in edges : ~Stores!Touches(v, edge)} \cup Stores!Resolved(v, kept, documents)
  BY DEF Stores!Upsert, Stores!MemoryUpsert, Stores!GraphUpsert
<1>2. /\ nodes'.documents = documents /\ nodes'.versions = nodes.versions \cup {v} /\ nodes'.chunks = kept
      /\ memory.documents = nodes.documents /\ memory.chunks = nodes.chunks
  BY <1>1 DEF GraphInv, StoresHoldAlike
<1>. HIDE DEF documents, kept
<1>3. NodesTyped' /\ StoresHoldAlike'
  BY <1>1, <1>2, IdsOfVersions DEF GraphInv, NodesTyped, StoresHoldAlike, documents, kept
<1>4. VersionsAreWhole'
  BY <1>2, IdsOfVersions DEF GraphInv, VersionsAreWhole, kept
<1>5. Stores!EdgesFollowNames'
  <2>1. edges' = {edge \in kept \X documents : Title[edge[2]] \in Refs[edge[1]]}
    BY <1>1 DEF GraphInv, Stores!EdgesFollowNames, Stores!Touches, Stores!Resolved, documents, kept
  <2>. QED  BY <2>1, <1>2 DEF Stores!EdgesFollowNames
<1>. QED  BY <1>3, <1>4, <1>5 DEF GraphInv

LEMMA DeleteStep ==
    ASSUME GraphInv, NEW d \in Stores!Documents, Stores!Delete(d)
    PROVE  GraphInv'
<1>. DEFINE documents == nodes.documents \ {d}
            kept == {c \in nodes.chunks : Stores!DocumentOf(c) # d}
            versions == {v \in nodes.versions : Held[v] # d}
<1>1. /\ memory' = [documents |-> memory.documents \ {d}, chunks |-> {c \in memory.chunks : Stores!DocumentOf(c) # d}]
      /\ nodes' = [documents |-> documents, versions |-> versions, chunks |-> kept]
      /\ edges' = {edge \in edges : Stores!DocumentOf(edge[1]) # d /\ edge[2] # d}
  BY DEF Stores!Delete, Stores!MemoryDelete, Stores!GraphDelete
<1>2. /\ nodes'.documents = documents /\ nodes'.versions = versions /\ nodes'.chunks = kept
      /\ memory.documents = nodes.documents /\ memory.chunks = nodes.chunks
  BY <1>1 DEF GraphInv, StoresHoldAlike
<1>. HIDE DEF documents, kept, versions
<1>3. NodesTyped' /\ StoresHoldAlike'
  BY <1>1, <1>2 DEF GraphInv, NodesTyped, StoresHoldAlike, documents, kept, versions
<1>4. VersionsAreWhole'
  BY <1>2 DEF GraphInv, VersionsAreWhole, kept, versions, Stores!DocumentOf
<1>5. Stores!EdgesFollowNames'
  <2>1. edges' = {edge \in kept \X documents : Title[edge[2]] \in Refs[edge[1]]}
    BY <1>1 DEF GraphInv, Stores!EdgesFollowNames, documents, kept
  <2>. QED  BY <2>1, <1>2 DEF Stores!EdgesFollowNames
<1>. QED  BY <1>3, <1>4, <1>5 DEF GraphInv

LEMMA GraphStep == GraphInv /\ [Stores!Next]_Stores!storesVars => GraphInv'
<1>. SUFFICES ASSUME GraphInv, [Stores!Next]_Stores!storesVars PROVE GraphInv'
  OBVIOUS
<1>1. ASSUME UNCHANGED <<memory, nodes, edges>>
      PROVE  GraphInv'
  BY <1>1 DEF GraphInv, NodesTyped, StoresHoldAlike, VersionsAreWhole, Stores!EdgesFollowNames
<1>2. ASSUME NEW v \in Stores!Versions, Stores!Upsert(v) \/ Stores!Activate(v)
      PROVE  GraphInv'
  BY <1>1, <1>2, UpsertStep DEF Stores!Activate
<1>3. ASSUME NEW d \in Stores!Documents, Stores!Tombstone(d) \/ Stores!Delete(d)
      PROVE  GraphInv'
  BY <1>1, <1>3, DeleteStep DEF Stores!Tombstone
<1>4. CASE Stores!Flush \/ (\E limit \in 1 .. MaxLimit : Stores!Query(limit)) \/ Stores!ScanPage
  BY <1>1, <1>4 DEF Stores!Flush, Stores!Query, Stores!ScanPage
<1>5. CASE UNCHANGED Stores!storesVars
  BY <1>1, <1>5 DEF Stores!storesVars
<1>. QED  BY <1>2, <1>3, <1>4, <1>5 DEF Stores!Next

\* A reference followed along an edge leads where its name leads in memory.
LEMMA ExpansionsAgree ==
    ASSUME GraphInv, NEW seeds, NEW limit, NEW scope \in {"chunk", "document"}, NEW versions
    PROVE  Stores!GraphExpand(seeds, limit, scope, versions) = Stores!MemoryExpand(seeds, limit, scope, versions)
<1>. DEFINE kept == nodes.chunks
            own == {c \in seeds \cap kept : Home[c] \in versions}
            near == IF scope = "chunk" THEN own ELSE {c \in kept : \E s \in own : Home[c] = Home[s]}
            targets == {d \in nodes.documents : Title[d] \in UNION {Refs[c] : c \in near}}
            sources == IF scope = "chunk" THEN seeds \cap kept
                       ELSE {c \in kept : \E s \in seeds \cap kept : Home[c] = Home[s]}
            byName == {c \in kept : Stores!DocumentOf(c) \in targets /\ Home[c] \in versions}
            byEdge == {c \in kept : \E edge \in edges :
                         /\ edge[1] \in sources /\ Home[edge[1]] \in versions
                         /\ edge[2] = Stores!DocumentOf(c) /\ Home[c] \in versions}
<1>1. memory.documents = nodes.documents /\ memory.chunks = nodes.chunks
  BY DEF GraphInv, StoresHoldAlike
<1>2. /\ Stores!GraphExpand(seeds, limit, scope, versions) = Stores!First(limit, byEdge)
      /\ Stores!MemoryExpand(seeds, limit, scope, versions) = Stores!First(limit, byName)
  BY <1>1 DEF Stores!GraphExpand, Stores!MemoryExpand
<1>3. near = {s \in sources : Home[s] \in versions} /\ near \subseteq kept
  OBVIOUS
<1>4. ASSUME NEW c \in kept
      PROVE  (\E edge \in edges : edge[1] \in sources /\ Home[edge[1]] \in versions /\ edge[2] = Stores!DocumentOf(c))
             <=> Stores!DocumentOf(c) \in targets
  <2>. HIDE DEF near, sources, own
  <2>1. ASSUME NEW edge \in edges,
               edge[1] \in sources /\ Home[edge[1]] \in versions /\ edge[2] = Stores!DocumentOf(c)
        PROVE  Stores!DocumentOf(c) \in targets
    BY <2>1, <1>3 DEF GraphInv, Stores!EdgesFollowNames
  <2>2. ASSUME Stores!DocumentOf(c) \in targets
        PROVE  \E edge \in edges :
                  edge[1] \in sources /\ Home[edge[1]] \in versions /\ edge[2] = Stores!DocumentOf(c)
    <3>1. PICK k \in near : Title[Stores!DocumentOf(c)] \in Refs[k]
      BY <2>2
    <3>2. <<k, Stores!DocumentOf(c)>> \in edges
      BY <3>1, <2>2, <1>3 DEF GraphInv, Stores!EdgesFollowNames
    <3>. QED  BY <3>1, <3>2, <1>3
  <2>. QED  BY <2>1, <2>2
<1>5. byEdge = byName
  <2>. HIDE DEF near, sources, own, targets
  <2>. QED  BY <1>4
<1>. QED  BY <1>2, <1>5

LEMMA TargetsAgree ==
    ASSUME GraphInv, NEW seeds, NEW limit, NEW versions
    PROVE  Stores!GraphTargets(seeds, limit, versions) = Stores!MemoryTargets(seeds, limit, versions)
<1>. DEFINE read == {Home[c] : c \in {s \in seeds \cap nodes.chunks : Home[s] \in versions}}
            names == UNION {Refs[c] : c \in {k \in nodes.chunks : Home[k] \in read}}
            present == {Stores!DocumentOf(c) : c \in {k \in nodes.chunks : Home[k] \in versions}}
            byName == {d \in nodes.documents \cap present : Title[d] \in names}
            byEdge == {d \in nodes.documents : \E edge \in edges, v \in nodes.versions :
                         /\ Home[edge[1]] \in read /\ edge[2] = d
                         /\ Held[v] = d /\ v \in versions}
<1>1. memory.documents = nodes.documents /\ memory.chunks = nodes.chunks
  BY DEF GraphInv, StoresHoldAlike
<1>2. /\ Stores!GraphTargets(seeds, limit, versions) = Stores!First(limit, byEdge)
      /\ Stores!MemoryTargets(seeds, limit, versions) = Stores!First(limit, byName)
  BY <1>1 DEF Stores!GraphTargets, Stores!MemoryTargets
<1>. HIDE DEF read
<1>3. ASSUME NEW d \in nodes.documents
      PROVE  d \in present <=> \E v \in nodes.versions : Held[v] = d /\ v \in versions
  <2>1. ASSUME d \in present
        PROVE  \E v \in nodes.versions : Held[v] = d /\ v \in versions
    <3>1. PICK c \in nodes.chunks : Home[c] \in versions /\ d = Held[Home[c]]
      BY <2>1 DEF Stores!DocumentOf
    <3>2. Home[c] \in nodes.versions
      BY DEF GraphInv, NodesTyped, VersionsAreWhole
    <3>. QED  BY <3>1, <3>2
  <2>2. ASSUME NEW v \in nodes.versions, Held[v] = d, v \in versions
        PROVE  d \in present
    <3>1. PICK c \in Stores!Chunks : Home[c] = v
      BY IdsOfVersions DEF GraphInv, NodesTyped
    <3>2. c \in nodes.chunks
      BY <3>1 DEF GraphInv, VersionsAreWhole
    <3>. QED  BY <3>1, <3>2, <2>2 DEF Stores!DocumentOf
  <2>. QED  BY <2>1, <2>2
<1>4. ASSUME NEW d \in nodes.documents
      PROVE  Title[d] \in names <=> \E edge \in edges : Home[edge[1]] \in read /\ edge[2] = d
  <2>1. ASSUME Title[d] \in names
        PROVE  \E edge \in edges : Home[edge[1]] \in read /\ edge[2] = d
    <3>1. PICK k \in nodes.chunks : Home[k] \in read /\ Title[d] \in Refs[k]
      BY <2>1
    <3>2. <<k, d>> \in edges
      BY <3>1 DEF GraphInv, Stores!EdgesFollowNames
    <3>. QED  BY <3>1, <3>2
  <2>2. ASSUME NEW edge \in edges, Home[edge[1]] \in read, edge[2] = d
        PROVE  Title[d] \in names
    BY <2>2 DEF GraphInv, Stores!EdgesFollowNames
  <2>. QED  BY <2>1, <2>2
<1>. HIDE DEF present, names
<1>5. byEdge = byName
  BY <1>3, <1>4
<1>. QED  BY <1>2, <1>5

(* In whatever order versions are written, replaced and removed, the edges  *)
(* in Neo4j are those that the names in stored chunks call for, and the     *)
(* services get from it what the tests get from the store in memory         *)
(* (reference_graph.py:69-130, 168-213, 282-369).                           *)
THEOREM GraphAnswersAsMemory == Stores!Spec => [](Stores!EdgesFollowNames /\ Stores!StoresAnswerAlike)
<1>1. GraphInv => Stores!EdgesFollowNames /\ Stores!StoresAnswerAlike
  BY ExpansionsAgree, TargetsAgree DEF GraphInv, Stores!StoresAnswerAlike
<1>. QED  BY <1>1, GraphInit, GraphStep, PTL DEF Stores!Spec

-----------------------------------------------------------------------------
LEMMA LessOf ==
    ASSUME NEW a \in Int, NEW b \in Int
    PROVE  Min({a, b}) = IF a <= b THEN a ELSE b
<1>1. PICK l \in {a, b} : \A k \in {a, b} : l <= k
  OBVIOUS
<1>2. Min({a, b}) \in {a, b} /\ \A k \in {a, b} : Min({a, b}) <= k
  BY <1>1 DEF Min
<1>. QED  BY <1>2

(* Ranks.  In an ordered set, what comes before an element is what is before *)
(* it and no more; so the first n of a set are n, unless the set has fewer.  *)
Ahead(T, R, c) == {k \in T : <<k, c>> \in R}
Lead(T, R, n) == {c \in T : Cardinality(Ahead(T, R, c)) < n}
Ordered(T, R) ==
    /\ IsFiniteSet(T)
    /\ \A c \in T : <<c, c>> \notin R
    /\ \A c, k \in T : c # k => (<<c, k>> \in R \/ <<k, c>> \in R)
    /\ \A c, k, l \in T : <<c, k>> \in R /\ <<k, l>> \in R => <<c, l>> \in R

LEMMA PartsAreOrdered ==
    ASSUME NEW T, NEW R, Ordered(T, R), NEW S \in SUBSET T
    PROVE  Ordered(S, R)
BY FS_Subset DEF Ordered

LEMMA BeforeIsCounted ==
    ASSUME NEW T, NEW R, Ordered(T, R), NEW c \in T
    PROVE  /\ IsFiniteSet(Ahead(T, R, c)) /\ Cardinality(Ahead(T, R, c)) \in Nat
           /\ Ahead(T, R, c) \subseteq T
           /\ Cardinality(Ahead(T, R, c)) + 1 <= Cardinality(T)
<1>. DEFINE B == Ahead(T, R, c)
<1>1. B \subseteq T /\ c \notin B /\ IsFiniteSet(T)
  BY DEF Ahead, Ordered
<1>. HIDE DEF B
<1>2. IsFiniteSet(B) /\ IsFiniteSet(B \cup {c}) /\ B \cup {c} \subseteq T
  BY <1>1, FS_Subset, FS_AddElement
<1>3. Cardinality(B \cup {c}) = Cardinality(B) + 1 /\ Cardinality(B) \in Nat
  BY <1>1, <1>2, FS_AddElement, FS_CardinalityType
<1>4. Cardinality(B \cup {c}) <= Cardinality(T)
  BY <1>1, <1>2, FS_Subset
<1>. QED  BY <1>1, <1>2, <1>3, <1>4 DEF B

\* Who comes before another has fewer before it.
LEMMA EarlierHaveFewer ==
    ASSUME NEW T, NEW R, Ordered(T, R), NEW k \in T, NEW c \in T, <<k, c>> \in R
    PROVE  Cardinality(Ahead(T, R, k)) < Cardinality(Ahead(T, R, c))
<1>. DEFINE B == Ahead(T, R, k)
            C == Ahead(T, R, c)
<1>1. B \subseteq C /\ k \in C /\ k \notin B
  BY DEF Ahead, Ordered
<1>2. IsFiniteSet(B) /\ IsFiniteSet(C) /\ Cardinality(B) \in Nat /\ Cardinality(C) \in Nat
  BY BeforeIsCounted
<1>. HIDE DEF B, C
<1>3. B \cup {k} \subseteq C /\ Cardinality(B \cup {k}) = Cardinality(B) + 1
  BY <1>1, <1>2, FS_AddElement
<1>4. Cardinality(B \cup {k}) <= Cardinality(C)
  BY <1>2, <1>3, FS_Subset
<1>. QED  BY <1>2, <1>3, <1>4 DEF B, C

LEMMA LeadIsLong ==
    ASSUME NEW T, NEW R, Ordered(T, R), NEW n \in Nat, Lead(T, R, n) # T
    PROVE  Cardinality(Lead(T, R, n)) >= n /\ IsFiniteSet(Lead(T, R, n)) /\ Cardinality(Lead(T, R, n)) \in Nat
<1>. DEFINE L == Lead(T, R, n)
            count(c) == Cardinality(Ahead(T, R, c))
            U == {count(c) : c \in T \ L}
<1>1. L \subseteq T /\ T \ L # {} /\ \A c \in T : count(c) \in Nat /\ (c \in L <=> count(c) < n)
  BY BeforeIsCounted DEF Lead
<1>. HIDE DEF L
<1>2. PICK m \in U : \A k \in U : m <= k
  <2>1. U \in SUBSET Nat /\ U # {}
    BY <1>1
  <2>. HIDE DEF U
  <2>. QED  BY <2>1, LeastNumber
<1>3. PICK c \in T \ L : m = count(c)
  BY <1>2
<1>4. Ahead(T, R, c) \subseteq L
  <2>1. ASSUME NEW k \in Ahead(T, R, c), k \notin L
        PROVE  FALSE
    <3>1. k \in T /\ <<k, c>> \in R
      BY DEF Ahead
    <3>2. count(k) < count(c)
      BY <3>1, EarlierHaveFewer
    <3>3. count(k) \in U /\ count(k) \in Nat /\ count(c) \in Nat
      BY <1>1, <2>1, <3>1
    <3>. HIDE DEF U, count
    <3>. QED  BY <1>2, <1>3, <3>2, <3>3
  <2>. QED  BY <2>1
<1>5. IsFiniteSet(L) /\ Cardinality(L) \in Nat /\ count(c) <= Cardinality(L)
  <2>1. IsFiniteSet(L)
    BY <1>1, FS_Subset DEF Ordered
  <2>. QED  BY <1>4, <2>1, FS_Subset, FS_CardinalityType
<1>6. count(c) >= n /\ count(c) \in Nat
  BY <1>1, <1>3
<1>. HIDE DEF count
<1>. QED  BY <1>5, <1>6 DEF L

LEMMA LeadIsShort ==
    ASSUME NEW T, NEW R, Ordered(T, R), NEW n \in Nat
    PROVE  Cardinality(Lead(T, R, n)) <= n /\ IsFiniteSet(Lead(T, R, n)) /\ Cardinality(Lead(T, R, n)) \in Nat
<1>. DEFINE L == Lead(T, R, n)
            count(c) == Cardinality(Ahead(T, R, c))
            U == {count(c) : c \in L}
<1>1. L \subseteq T /\ \A c \in T : count(c) \in Nat /\ (c \in L <=> count(c) < n)
  BY BeforeIsCounted DEF Lead
<1>. HIDE DEF L
<1>2. IsFiniteSet(L) /\ Cardinality(L) \in Nat
  BY <1>1, FS_Subset, FS_CardinalityType DEF Ordered
<1>3. CASE L = {}
  BY <1>3, FS_EmptySet DEF L
<1>4. CASE L # {}
  <2>1. Max(U) \in U /\ \A x \in U : x <= Max(U)
    <3>1. U \in SUBSET (0 .. n) /\ U # {}
      BY <1>1, <1>4
    <3>. HIDE DEF U
    <3>. QED  BY <3>1, Greatest
  <2>2. PICK c \in L : count(c) = Max(U)
    BY <2>1
  <2>3. L \subseteq Ahead(T, R, c) \cup {c}
    <3>1. ASSUME NEW k \in L, k # c, k \notin Ahead(T, R, c)
          PROVE  FALSE
      <4>1. k \in T /\ c \in T /\ <<c, k>> \in R
        BY <1>1, <3>1 DEF Ahead, Ordered
      <4>2. count(c) < count(k)
        BY <4>1, EarlierHaveFewer
      <4>3. count(k) \in U /\ count(k) \in Nat /\ count(c) \in Nat
        BY <1>1, <4>1
      <4>. HIDE DEF U, count
      <4>. QED  BY <2>1, <2>2, <4>2, <4>3
    <3>. QED  BY <3>1
  <2>4. c \in T /\ IsFiniteSet(Ahead(T, R, c)) /\ count(c) \in Nat /\ count(c) < n
    BY <1>1, BeforeIsCounted
  <2>. HIDE DEF count
  <2>7. c \notin Ahead(T, R, c)
    BY <2>4 DEF Ahead, Ordered
  <2>5. Cardinality(Ahead(T, R, c) \cup {c}) = count(c) + 1 /\ IsFiniteSet(Ahead(T, R, c) \cup {c})
    BY <2>4, <2>7, FS_AddElement DEF count
  <2>6. Cardinality(L) <= count(c) + 1
    BY <2>3, <2>5, FS_Subset
  <2>. QED  BY <1>2, <2>4, <2>6 DEF L
<1>. QED  BY <1>3, <1>4

\* In a smaller set there are fewer before an element.
LEMMA FewerInParts ==
    ASSUME NEW T, NEW R, Ordered(T, R), NEW S \in SUBSET T, NEW c
    PROVE  /\ Ahead(S, R, c) = Ahead(T, R, c) \cap S /\ IsFiniteSet(Ahead(T, R, c)) /\ IsFiniteSet(Ahead(S, R, c))
           /\ Cardinality(Ahead(S, R, c)) \in Nat /\ Cardinality(Ahead(T, R, c)) \in Nat
           /\ Cardinality(Ahead(S, R, c)) <= Cardinality(Ahead(T, R, c))
<1>1. Ahead(S, R, c) = Ahead(T, R, c) \cap S /\ Ahead(T, R, c) \subseteq T
  BY DEF Ahead
<1>2. IsFiniteSet(Ahead(T, R, c))
  BY <1>1, FS_Subset DEF Ordered
<1>. QED  BY <1>1, <1>2, FS_Subset, FS_CardinalityType

\* Of a part of a set only its first n matter to the first n of the whole.
LEMMA OnlyFirstMatter ==
    ASSUME NEW T, NEW R, Ordered(T, R), NEW A \in SUBSET T, NEW B \in SUBSET T, A \cup B = T, NEW n \in Nat
    PROVE  Lead(Lead(A, R, n) \cup B, R, n) = Lead(T, R, n)
<1>. DEFINE F == Lead(A, R, n)
            V == F \cup B
            ahead(S, c) == Cardinality(Ahead(S, R, c))
<1>0. Ordered(A, R) /\ F \subseteq A
  BY PartsAreOrdered DEF Lead
<1>. V \in SUBSET T
  BY <1>0
<1>1. /\ \A c \in A : c \in F <=> ahead(A, c) < n
      /\ \A c \in V : c \in Lead(V, R, n) <=> ahead(V, c) < n
      /\ \A c \in T : c \in Lead(T, R, n) <=> ahead(T, c) < n
  BY DEF Lead
<1>2. Lead(V, R, n) \subseteq V /\ Lead(T, R, n) \subseteq T
  BY DEF Lead
<1>3. \A c \in T : /\ ahead(A, c) \in Nat /\ ahead(V, c) \in Nat /\ ahead(T, c) \in Nat
                   /\ ahead(A, c) <= ahead(T, c) /\ ahead(V, c) <= ahead(T, c)
  BY FewerInParts
<1>. HIDE DEF F
<1>4. ASSUME NEW c \in Lead(T, R, n)
      PROVE  c \in Lead(V, R, n)
  <2>1. c \in T /\ ahead(T, c) < n
    BY <1>1, <1>2
  <2>. HIDE DEF ahead
  <2>2. c \in V
    BY <1>1, <1>3, <2>1
  <2>. QED  BY <1>1, <1>3, <2>1, <2>2
<1>5. ASSUME NEW c \in Lead(V, R, n), c \notin Lead(T, R, n)
      PROVE  FALSE
  <2>1. c \in V /\ c \in T /\ ahead(V, c) < n /\ ahead(T, c) >= n
    <3>. HIDE DEF ahead
    <3>. QED  BY <1>1, <1>2, <1>3, <1>5
  <2>2. PICK k \in A \ F : <<k, c>> \in R
    <3>1. SUFFICES ASSUME Ahead(T, R, c) \subseteq V PROVE FALSE
      BY DEF Ahead
    <3>2. Ahead(V, R, c) = Ahead(T, R, c)
      BY <3>1, FewerInParts
    <3>. QED  BY <1>3, <2>1, <3>2
  <2>3. F \subseteq Ahead(V, R, c)
    <3>1. ASSUME NEW x \in F
          PROVE  <<x, k>> \in R
      <4>1. x \in A /\ k \in A /\ x # k /\ ahead(A, x) < n /\ ~(ahead(A, k) < n)
        BY <1>0, <1>1, <2>2
      <4>2. <<k, x>> \notin R
        <5>1. ahead(A, x) \in Nat /\ ahead(A, k) \in Nat
          BY <1>3, <4>1
        <5>2. <<k, x>> \in R => ahead(A, k) < ahead(A, x)
          BY <1>0, <4>1, EarlierHaveFewer
        <5>. HIDE DEF ahead
        <5>. QED  BY <4>1, <5>1, <5>2
      <4>. QED  BY <4>1, <4>2 DEF Ordered
    <3>2. ASSUME NEW x \in F
          PROVE  <<x, c>> \in R
      BY <1>0, <2>1, <2>2, <3>1 DEF Ordered
    <3>. QED  BY <3>2 DEF Ahead
  <2>4. Cardinality(F) >= n /\ Cardinality(F) \in Nat
    <3>1. F # A
      BY <2>2
    <3>. QED  BY <1>0, <3>1, LeadIsLong DEF F
  <2>5. Cardinality(F) <= ahead(V, c)
    <3>1. IsFiniteSet(Ahead(V, R, c))
      BY <2>1, FewerInParts
    <3>. QED  BY <2>3, <3>1, FS_Subset
  <2>6. ahead(V, c) \in Nat
    BY <1>3, <2>1
  <2>. HIDE DEF ahead
  <2>. QED  BY <2>1, <2>4, <2>5, <2>6
<1>. QED  BY <1>4, <1>5 DEF F

-----------------------------------------------------------------------------
(* Searches: the vectors are those of the chunks, in the order of writing,  *)
(* and what a search has kept are the nearest of those it has read.         *)

Closer == {pair \in Stores!Chunks \X Stores!Chunks : Stores!Nearer(pair[1], pair[2])}

VectorsAreOfChunks == rows = nodes.chunks /\ live \subseteq nodes.versions

RowsAreOrdered == older \subseteq rows \X rows /\ Ordered(rows, older)

SearchTyped ==
    /\ search = [pc |-> search.pc, wanted |-> search.wanted, limit |-> search.limit,
                 offset |-> search.offset, hits |-> search.hits, paged |-> search.paged]
    /\ search.limit \in Nat /\ search.offset \in Nat /\ search.wanted \subseteq Stores!Versions
    /\ search.hits \subseteq {c \in Stores!Chunks : Home[c] \in search.wanted}

WantedIsThere == ~disturbed => search.wanted \subseteq nodes.versions

NearestAreKept ==
    search.pc = "scanning" /\ ~disturbed =>
        search.hits = Lead(Lead(Stores!Eligible, older, search.offset), Closer, search.limit)

SearchInv ==
    /\ VectorsAreOfChunks /\ RowsAreOrdered /\ SearchTyped /\ WantedIsThere /\ NearestAreKept
    /\ Stores!ShortSearchIsCompleted

LEMMA CloserOrders == Ordered(Stores!Chunks, Closer)
<1>1. IsFiniteSet(Stores!Chunks) /\ Stores!Chunks \subseteq Nat /\ \A c \in Stores!Chunks : Closeness[c] \in Nat
  BY HostServicesAssumption
<1>2. \A c, k \in Stores!Chunks :
         <<c, k>> \in Closer <=> Closeness[c] > Closeness[k] \/ (Closeness[c] = Closeness[k] /\ c > k)
  BY DEF Closer, Stores!Nearer
<1>. QED  BY <1>1, <1>2 DEF Ordered

LEMMA NearestIs ==
    ASSUME NEW found \in SUBSET Stores!Chunks, NEW limit
    PROVE  Stores!Nearest(limit, found) = Lead(found, Closer, limit)
<1>1. \A c \in found : Ahead(found, Closer, c) = {k \in found : Stores!Nearer(k, c)}
  BY DEF Ahead, Closer
<1>2. \A c \in found : Stores!Cardinality({k \in found : Stores!Nearer(k, c)}) = Cardinality(Ahead(found, Closer, c))
  BY <1>1 DEF Stores!Cardinality, Cardinality
<1>. QED  BY <1>2 DEF Stores!Nearest, Lead

LEMMA EligibleIs ==
    ASSUME SearchInv, GraphInv
    PROVE  /\ Stores!Eligible \in SUBSET Stores!Chunks /\ Stores!Eligible \in SUBSET rows
           /\ Ordered(Stores!Eligible, older) /\ Ordered(Stores!Eligible, Closer)
<1>1. Stores!Eligible \in SUBSET Stores!Chunks /\ Stores!Eligible \in SUBSET rows
  BY DEF SearchInv, VectorsAreOfChunks, GraphInv, NodesTyped, Stores!Eligible
<1>. QED  BY <1>1, CloserOrders, PartsAreOrdered DEF SearchInv, RowsAreOrdered

\* How many of a set its first ones are.
LEMMA LeadIsCounted ==
    ASSUME NEW T, NEW R, Ordered(T, R), NEW n \in Nat
    PROVE  Cardinality(Lead(T, R, n)) = Stores!Min({n, Cardinality(T)})
<1>1. Cardinality(T) \in Nat /\ Cardinality(Lead(T, R, n)) <= n /\ Cardinality(Lead(T, R, n)) \in Nat
  BY LeadIsShort, FS_CardinalityType DEF Ordered
<1>2. Cardinality(Lead(T, R, n)) <= Cardinality(T)
  BY FS_Subset DEF Lead, Ordered
<1>3. Lead(T, R, n) = T \/ Cardinality(Lead(T, R, n)) >= n
  BY LeadIsLong
<1>4. Stores!Min({n, Cardinality(T)}) = IF n <= Cardinality(T) THEN n ELSE Cardinality(T)
  BY <1>1, LessOf DEF Stores!Min, Min
<1>. QED  BY <1>1, <1>2, <1>3, <1>4

\* A step that removes nothing the search may find leaves it as it was.
LEMMA SearchGoesOn ==
    ASSUME SearchInv, GraphInv, search' = search,
           ~disturbed' => /\ ~disturbed /\ Stores!Eligible' = Stores!Eligible
                          /\ \A k, c \in Stores!Eligible : <<k, c>> \in older' <=> <<k, c>> \in older
    PROVE  SearchTyped' /\ NearestAreKept' /\ Stores!ShortSearchIsCompleted'
<1>1. SearchTyped'
  BY DEF SearchInv, SearchTyped
<1>2. NearestAreKept'
  <2>1. SUFFICES ASSUME search.pc = "scanning", ~disturbed'
                 PROVE  search.hits = Lead(Lead(Stores!Eligible', older', search.offset), Closer, search.limit)
    BY DEF NearestAreKept
  <2>2. \A c \in Stores!Eligible : Ahead(Stores!Eligible, older', c) = Ahead(Stores!Eligible, older, c)
    BY <2>1 DEF Ahead
  <2>3. Lead(Stores!Eligible', older', search.offset) = Lead(Stores!Eligible, older, search.offset)
    BY <2>1, <2>2 DEF Lead
  <2>. QED  BY <2>1, <2>3 DEF SearchInv, NearestAreKept
<1>3. Stores!ShortSearchIsCompleted'
  BY DEF SearchInv, Stores!ShortSearchIsCompleted
<1>. QED  BY <1>1, <1>2, <1>3

LEMMA CountedAlike == \A S : Stores!Cardinality(S) = Cardinality(S)
BY DEF Stores!Cardinality, Cardinality

LEMMA SearchInit == Stores!Init => SearchInv
<1>. SUFFICES ASSUME Stores!Init PROVE SearchInv
  OBVIOUS
<1>1. /\ rows = {} /\ older = {} /\ live = {} /\ nodes.chunks = {} /\ nodes.versions = {}
      /\ search = Stores!Quiet
  BY DEF Stores!Init
<1>2. Ordered({}, older)
  BY FS_EmptySet DEF Ordered
<1>. QED  BY <1>1, <1>2
     DEF SearchInv, VectorsAreOfChunks, RowsAreOrdered, SearchTyped, WantedIsThere, NearestAreKept,
         Stores!ShortSearchIsCompleted, Stores!Quiet

LEMMA SearchUpsert ==
    ASSUME SearchInv, GraphInv, NEW v \in Stores!Versions, Stores!Upsert(v)
    PROVE  SearchInv'
<1>. DEFINE new == Stores!Ids[v] \ rows
            pairs == older \cup (rows \X new) \cup {pair \in new \X new : pair[1] < pair[2]}
<1>1. /\ rows' = rows \cup new /\ older' = pairs /\ nodes'.chunks = nodes.chunks \cup Stores!Ids[v]
      /\ nodes'.versions = nodes.versions \cup {v}
      /\ UNCHANGED <<live, search, disturbed>>
  BY DEF Stores!Upsert, Stores!VectorUpsert, Stores!GraphUpsert
<1>2. new \subseteq Stores!Chunks /\ new \cap rows = {} /\ \A c \in new : Home[c] = v
  BY IdsOfVersions
<1>3. /\ rows \subseteq Stores!Chunks /\ IsFiniteSet(rows) /\ IsFiniteSet(Stores!Chunks)
      /\ Stores!Chunks \subseteq Nat /\ older \subseteq rows \X rows /\ Ordered(rows, older)
  BY HostServicesAssumption DEF SearchInv, VectorsAreOfChunks, RowsAreOrdered, Ordered, GraphInv, NodesTyped
<1>4. VectorsAreOfChunks'
  BY <1>1 DEF SearchInv, VectorsAreOfChunks
<1>. HIDE DEF new
<1>5. \A c, k \in rows \cup new :
         <<c, k>> \in pairs <=> \/ c \in rows /\ k \in rows /\ <<c, k>> \in older
                                \/ c \in rows /\ k \in new
                                \/ c \in new /\ k \in new /\ c < k
  BY <1>2, <1>3
<1>6. pairs \subseteq (rows \cup new) \X (rows \cup new)
  BY <1>3
<1>. HIDE DEF pairs
<1>7. Ordered(rows \cup new, pairs)
  <2>1. IsFiniteSet(rows \cup new)
    BY <1>2, <1>3, FS_Subset
  <2>2. ASSUME NEW c \in rows \cup new, <<c, c>> \in pairs
        PROVE  FALSE
    <3>1. c \in Nat /\ ~(c \in rows /\ c \in new)
      BY <1>2, <1>3
    <3>2. c \in rows => <<c, c>> \notin older
      BY <1>3 DEF Ordered
    <3>. QED  BY <1>5, <2>2, <3>1, <3>2
  <2>3. ASSUME NEW c \in rows \cup new, NEW k \in rows \cup new, c # k
        PROVE  <<c, k>> \in pairs \/ <<k, c>> \in pairs
    BY <1>2, <1>3, <1>5, <2>3 DEF Ordered
  <2>4. ASSUME NEW c \in rows \cup new, NEW k \in rows \cup new, NEW l \in rows \cup new,
               <<c, k>> \in pairs, <<k, l>> \in pairs
        PROVE  <<c, l>> \in pairs
    <3>1. CASE l \in rows
      <4>1. k \in rows /\ c \in rows
        BY <1>2, <1>5, <2>4, <3>1
      <4>. QED  BY <1>2, <1>3, <1>5, <2>4, <3>1, <4>1 DEF Ordered
    <3>2. CASE l \in new
      <4>1. CASE c \in rows
        BY <1>5, <3>2, <4>1
      <4>2. CASE c \in new
        <5>1. k \in new /\ c < k /\ k < l /\ c \in Nat /\ k \in Nat /\ l \in Nat
          BY <1>2, <1>3, <1>5, <2>4, <3>2, <4>2
        <5>. QED  BY <1>5, <3>2, <4>2, <5>1
      <4>. QED  BY <4>1, <4>2
    <3>. QED  BY <3>1, <3>2
  <2>. QED  BY <2>1, <2>2, <2>3, <2>4 DEF Ordered
<1>8. RowsAreOrdered'
  BY <1>1, <1>6, <1>7 DEF RowsAreOrdered
<1>9. WantedIsThere'
  BY <1>1 DEF SearchInv, WantedIsThere
<1>10. ASSUME ~disturbed
       PROVE  /\ Stores!Eligible' = Stores!Eligible
              /\ \A k, c \in Stores!Eligible : <<k, c>> \in older' <=> <<k, c>> \in older
  <2>1. ASSUME NEW c \in new
        PROVE  Home[c] \notin search.wanted
    <3>1. c \in Stores!Chunks /\ c \notin nodes.chunks
      BY <1>2 DEF SearchInv, VectorsAreOfChunks
    <3>2. Home[c] \notin nodes.versions
      BY <3>1 DEF GraphInv, VersionsAreWhole
    <3>. QED  BY <1>10, <3>2 DEF SearchInv, WantedIsThere
  <2>2. Stores!Eligible' = Stores!Eligible
    BY <1>1, <2>1 DEF Stores!Eligible
  <2>3. Stores!Eligible \subseteq rows
    BY DEF Stores!Eligible
  <2>. QED  BY <1>1, <1>2, <1>5, <2>2, <2>3
<1>11. SearchTyped' /\ NearestAreKept' /\ Stores!ShortSearchIsCompleted'
  BY <1>1, <1>10, SearchGoesOn
<1>. QED  BY <1>4, <1>8, <1>9, <1>11 DEF SearchInv

LEMMA SearchDelete ==
    ASSUME SearchInv, GraphInv, NEW d \in Stores!Documents, Stores!Delete(d)
    PROVE  SearchInv'
<1>. DEFINE kept == {c \in rows : Stores!DocumentOf(c) # d}
<1>1. /\ rows' = kept /\ older' = older \cap (kept \X kept)
      /\ nodes'.chunks = {c \in nodes.chunks : Stores!DocumentOf(c) # d}
      /\ nodes'.versions = {v \in nodes.versions : Held[v] # d}
      /\ disturbed' = (disturbed \/ \E c \in rows : Stores!DocumentOf(c) = d /\ Home[c] \in search.wanted)
      /\ UNCHANGED <<live, search>> /\ \A v \in live : Held[v] # d
  BY DEF Stores!Delete, Stores!VectorDelete, Stores!GraphDelete
<1>2. VectorsAreOfChunks'
  BY <1>1 DEF SearchInv, VectorsAreOfChunks
<1>3. RowsAreOrdered'
  <2>1. Ordered(kept, older)
    BY PartsAreOrdered DEF SearchInv, RowsAreOrdered
  <2>. HIDE DEF kept
  <2>2. Ordered(kept, older \cap (kept \X kept))
    BY <2>1 DEF Ordered
  <2>. QED  BY <1>1, <2>2 DEF RowsAreOrdered
<1>4. ASSUME ~disturbed'
      PROVE  ~disturbed /\ \A c \in rows : Stores!DocumentOf(c) = d => Home[c] \notin search.wanted
  BY <1>1, <1>4
<1>5. WantedIsThere'
  <2>1. SUFFICES ASSUME ~disturbed', NEW v \in search.wanted PROVE v \in nodes'.versions
    BY <1>1 DEF WantedIsThere
  <2>2. v \in nodes.versions /\ v \in Stores!Versions
    BY <1>4, <2>1 DEF SearchInv, WantedIsThere, GraphInv, NodesTyped
  <2>3. PICK c \in Stores!Chunks : Home[c] = v
    BY <2>2, IdsOfVersions
  <2>4. c \in rows
    BY <2>2, <2>3 DEF SearchInv, VectorsAreOfChunks, GraphInv, VersionsAreWhole
  <2>5. Held[v] # d
    BY <1>4, <2>1, <2>3, <2>4 DEF Stores!DocumentOf
  <2>. QED  BY <1>1, <2>2, <2>5
<1>6. ASSUME ~disturbed'
      PROVE  /\ ~disturbed /\ Stores!Eligible' = Stores!Eligible
             /\ \A k, c \in Stores!Eligible : <<k, c>> \in older' <=> <<k, c>> \in older
  <2>1. Stores!Eligible \subseteq kept
    BY <1>4, <1>6 DEF Stores!Eligible
  <2>2. Stores!Eligible' = Stores!Eligible
    BY <1>1, <2>1 DEF Stores!Eligible
  <2>. QED  BY <1>1, <1>4, <1>6, <2>1, <2>2
<1>7. SearchTyped' /\ NearestAreKept' /\ Stores!ShortSearchIsCompleted'
  BY <1>1, <1>6, SearchGoesOn
<1>. QED  BY <1>2, <1>3, <1>5, <1>7 DEF SearchInv

LEMMA SearchIdle ==
    ASSUME SearchInv, GraphInv, UNCHANGED <<nodes, rows, older, search, disturbed>>, live' \subseteq nodes.versions
    PROVE  SearchInv'
<1>1. VectorsAreOfChunks' /\ RowsAreOrdered' /\ WantedIsThere' /\ Stores!Eligible' = Stores!Eligible
  BY DEF SearchInv, VectorsAreOfChunks, RowsAreOrdered, WantedIsThere, Stores!Eligible
<1>. QED  BY <1>1, SearchGoesOn DEF SearchInv

LEMMA SearchQuery ==
    ASSUME SearchInv, GraphInv, NEW limit \in 1 .. MaxLimit, Stores!Query(limit)
    PROVE  SearchInv'
<1>. DEFINE there == {c \in rows : Home[c] \in live}
            showing == {c \in rows : Home[c] \in live /\ c \notin hidden}
            hits == Lead(showing, Closer, limit)
            short == Cardinality(hits) < limit
<1>1. limit \in Nat
  BY HostServicesAssumption
<1>2. rows \subseteq Stores!Chunks /\ live \subseteq Stores!Versions /\ live \subseteq nodes.versions
  BY DEF SearchInv, VectorsAreOfChunks, GraphInv, NodesTyped
<1>3. /\ search' = [Stores!Quiet EXCEPT !.wanted = live, !.limit = limit,
                       !.pc = IF live # {} /\ short THEN "scanning" ELSE "found",
                       !.hits = IF short THEN {} ELSE hits]
      /\ disturbed' = FALSE /\ UNCHANGED <<nodes, rows, older, live>>
  BY <1>1, <1>2, NearestIs, CountedAlike DEF Stores!Query
<1>4. hits \subseteq showing /\ showing \subseteq there /\ there \subseteq rows
  BY DEF Lead
<1>. HIDE DEF hits, short
<1>5. /\ search'.pc = (IF live # {} /\ short THEN "scanning" ELSE "found") /\ search'.wanted = live
      /\ search'.limit = limit /\ search'.offset = 0 /\ search'.hits = (IF short THEN {} ELSE hits)
      /\ search'.paged = FALSE
      /\ search' = [pc |-> search'.pc, wanted |-> search'.wanted, limit |-> search'.limit,
                    offset |-> search'.offset, hits |-> search'.hits, paged |-> search'.paged]
  BY <1>3 DEF Stores!Quiet
<1>6. VectorsAreOfChunks' /\ RowsAreOrdered' /\ WantedIsThere'
  BY <1>2, <1>3, <1>5 DEF SearchInv, VectorsAreOfChunks, RowsAreOrdered, WantedIsThere
<1>7. SearchTyped'
  BY <1>1, <1>2, <1>4, <1>5 DEF SearchTyped
<1>8. Stores!Eligible' = there
  BY <1>3, <1>5 DEF Stores!Eligible
<1>9. Ordered(there, Closer) /\ Ordered(showing, Closer) /\ Ordered(there, older)
  <2>1. there \in SUBSET Stores!Chunks /\ showing \in SUBSET Stores!Chunks /\ there \in SUBSET rows
    BY <1>2
  <2>. HIDE DEF there, showing
  <2>. QED  BY <2>1, CloserOrders, PartsAreOrdered DEF SearchInv, RowsAreOrdered
<1>. HIDE DEF there, showing
<1>10. NearestAreKept'
  <2>1. SUFFICES ASSUME search'.pc = "scanning"
                 PROVE  search'.hits = Lead(Lead(there, older', 0), Closer, limit)
    BY <1>5, <1>8 DEF NearestAreKept
  <2>2. search'.hits = {}
    BY <1>5, <2>1
  <2>3. Lead(there, older, 0) = {}
    <3>1. \A c \in there : Cardinality(Ahead(there, older, c)) \in Nat
      BY <1>9, BeforeIsCounted
    <3>. QED  BY <3>1 DEF Lead
  <2>. QED  BY <1>3, <2>2, <2>3 DEF Lead
<1>11. Stores!ShortSearchIsCompleted'
  <2>1. SUFFICES ASSUME search'.pc = "found"
                 PROVE  /\ \A c \in search'.hits : Home[c] \in search'.wanted
                        /\ Cardinality(search'.hits) = Stores!Min({limit, Cardinality(there)})
    BY <1>3, <1>5, <1>8, CountedAlike DEF Stores!ShortSearchIsCompleted
  <2>2. \A c \in search'.hits : Home[c] \in search'.wanted
    BY <1>7 DEF SearchTyped
  <2>3. /\ Cardinality(there) \in Nat /\ Cardinality(hits) \in Nat /\ Cardinality(hits) <= limit
        /\ Cardinality(hits) <= Cardinality(there)
    <3>1. IsFiniteSet(there) /\ hits \subseteq there
      BY <1>4, <1>9 DEF Ordered
    <3>2. Cardinality(hits) <= limit
      BY <1>1, <1>9, LeadIsShort DEF hits
    <3>. QED  BY <3>1, <3>2, FS_Subset, FS_CardinalityType
  <2>4. Stores!Min({limit, Cardinality(there)}) = IF limit <= Cardinality(there) THEN limit ELSE Cardinality(there)
    <3>1. Min({limit, Cardinality(there)}) = IF limit <= Cardinality(there) THEN limit ELSE Cardinality(there)
      BY <1>1, <2>3, LessOf
    <3>. QED  BY <3>1 DEF Stores!Min, Min
  <2>5. CASE short
    <3>1. live = {} /\ search'.hits = {}
      BY <1>5, <2>1, <2>5
    <3>2. there = {} /\ Cardinality({}) = 0
      BY <3>1, FS_EmptySet DEF there
    <3>. QED  BY <1>1, <2>2, <2>4, <3>1, <3>2
  <2>6. CASE ~short
    <3>1. search'.hits = hits /\ Cardinality(hits) >= limit
      BY <1>1, <1>5, <2>3, <2>6 DEF short
    <3>. QED  BY <1>1, <2>2, <2>3, <2>4, <3>1
  <2>. QED  BY <2>5, <2>6
<1>. QED  BY <1>6, <1>7, <1>10, <1>11 DEF SearchInv

LEMMA SearchPage ==
    ASSUME SearchInv, GraphInv, Stores!ScanPage
    PROVE  SearchInv'
<1>. DEFINE E == Stores!Eligible
            o == search.offset
            read == Lead(E, older, o)
            page == Stores!Page
            limit == search.limit
<1>1. /\ search.pc = "scanning" /\ UNCHANGED <<nodes, rows, older, live, disturbed>>
      /\ search' = [search EXCEPT !.hits = Stores!Nearest(limit, search.hits \cup page),
                       !.offset = o + Cardinality(page), !.paged = TRUE,
                       !.pc = IF Cardinality(page) < PageSize THEN "found" ELSE "scanning"]
  BY CountedAlike DEF Stores!ScanPage, Stores!LastPage
<1>2. /\ E \in SUBSET Stores!Chunks /\ E \in SUBSET rows /\ Ordered(E, older) /\ Ordered(E, Closer)
      /\ o \in Nat /\ limit \in Nat /\ PageSize \in Nat \ {0} /\ o + PageSize \in Nat
  <2>1. o \in Nat /\ limit \in Nat /\ PageSize \in Nat \ {0}
    BY HostServicesAssumption DEF SearchInv, SearchTyped
  <2>. QED  BY <2>1, EligibleIs
<1>3. page = {c \in E : o <= Cardinality(Ahead(E, older, c)) /\ Cardinality(Ahead(E, older, c)) < o + PageSize}
  BY CountedAlike DEF Stores!Page, Stores!Place, Ahead
<1>4. search.hits \subseteq {c \in Stores!Chunks : Home[c] \in search.wanted} /\ \A c \in E : Home[c] \in search.wanted
  BY DEF SearchInv, SearchTyped, Stores!Eligible
<1>. HIDE DEF E, page, o, limit
<1>5. /\ page \subseteq E /\ read \subseteq E /\ read \cup page = Lead(E, older, o + PageSize)
      /\ read \cap page = {}
  <2>1. \A c \in E : Cardinality(Ahead(E, older, c)) \in Nat
    BY <1>2, BeforeIsCounted
  <2>. QED  BY <1>2, <1>3, <2>1 DEF Lead
<1>6. /\ IsFiniteSet(page) /\ IsFiniteSet(read) /\ Cardinality(page) \in Nat /\ Cardinality(read) \in Nat
      /\ Cardinality(read \cup page) = Cardinality(read) + Cardinality(page)
  <2>1. IsFiniteSet(page) /\ IsFiniteSet(read)
    BY <1>2, <1>5, FS_Subset DEF Ordered
  <2>2. Cardinality(read \cap page) = 0
    BY <1>5, FS_EmptySet
  <2>3. Cardinality(page) \in Nat /\ Cardinality(read) \in Nat
    BY <2>1, FS_CardinalityType
  <2>4. Cardinality(read \cup page) = Cardinality(read) + Cardinality(page) - Cardinality(read \cap page)
    BY <2>1, FS_Union
  <2>. HIDE DEF read
  <2>. QED  BY <2>1, <2>2, <2>3, <2>4
<1>7. /\ Cardinality(read) <= o /\ Cardinality(read \cup page) <= o + PageSize
      /\ read # E => Cardinality(read) >= o
      /\ read \cup page # E => Cardinality(read \cup page) >= o + PageSize
  BY <1>2, <1>5, LeadIsShort, LeadIsLong
<1>8. Cardinality(page) < PageSize => read \cup page = E
  <2>. HIDE DEF read
  <2>. QED  BY <1>2, <1>6, <1>7
<1>9. ~(Cardinality(page) < PageSize) => Cardinality(page) = PageSize
  <2>1. ASSUME ~(Cardinality(page) < PageSize) PROVE read # E
    <3>1. page # {}
      BY <1>2, <1>6, <2>1, FS_EmptySet
    <3>. QED  BY <1>5, <3>1
  <2>. HIDE DEF read
  <2>. QED  BY <1>2, <1>6, <1>7, <2>1
<1>. HIDE DEF read
<1>10. /\ search'.pc = (IF Cardinality(page) < PageSize THEN "found" ELSE "scanning")
       /\ search'.wanted = search.wanted /\ search'.limit = limit /\ search'.paged = TRUE
       /\ search'.offset = o + Cardinality(page)
       /\ search'.hits = Stores!Nearest(limit, search.hits \cup page)
       /\ search' = [pc |-> search'.pc, wanted |-> search'.wanted, limit |-> search'.limit,
                     offset |-> search'.offset, hits |-> search'.hits, paged |-> search'.paged]
  BY <1>1 DEF SearchInv, SearchTyped, limit
<1>11. search'.hits \subseteq search.hits \cup page /\ search.hits \cup page \in SUBSET Stores!Chunks
  BY <1>2, <1>4, <1>5, <1>10 DEF Stores!Nearest
<1>12. SearchTyped'
  <2>1. search'.hits \subseteq {c \in Stores!Chunks : Home[c] \in search'.wanted}
    BY <1>4, <1>5, <1>10, <1>11
  <2>2. search'.limit \in Nat /\ search'.offset \in Nat
    BY <1>2, <1>6, <1>10
  <2>3. search'.wanted \subseteq Stores!Versions
    BY <1>10 DEF SearchInv, SearchTyped
  <2>4. search' = [pc |-> search'.pc, wanted |-> search'.wanted, limit |-> search'.limit,
                   offset |-> search'.offset, hits |-> search'.hits, paged |-> search'.paged]
    BY <1>10
  <2>. QED  BY <2>1, <2>2, <2>3, <2>4 DEF SearchTyped
<1>13. VectorsAreOfChunks' /\ RowsAreOrdered' /\ WantedIsThere' /\ Stores!Eligible' = E
  BY <1>1, <1>10 DEF SearchInv, VectorsAreOfChunks, RowsAreOrdered, WantedIsThere, Stores!Eligible, E
<1>14. ASSUME ~disturbed
       PROVE  search'.hits = Lead(read \cup page, Closer, limit)
  <2>1. search.hits = Lead(read, Closer, limit)
    BY <1>1, <1>14 DEF SearchInv, NearestAreKept, E, o, limit, read
  <2>2. search'.hits = Lead(search.hits \cup page, Closer, limit)
    BY <1>10, <1>11, NearestIs
  <2>3. Ordered(read \cup page, Closer)
    BY <1>2, <1>5, PartsAreOrdered
  <2>4. Lead(Lead(read, Closer, limit) \cup page, Closer, limit) = Lead(read \cup page, Closer, limit)
    <3>1. read \in SUBSET (read \cup page) /\ page \in SUBSET (read \cup page)
      OBVIOUS
    <3>. QED  BY <1>2, <2>3, <3>1, OnlyFirstMatter
  <2>. QED  BY <2>1, <2>2, <2>4
<1>15. NearestAreKept'
  <2>1. SUFFICES ASSUME search'.pc = "scanning", ~disturbed
                 PROVE  search'.hits = Lead(Lead(E, older, search'.offset), Closer, limit)
    BY <1>1, <1>10, <1>13 DEF NearestAreKept
  <2>2. search'.offset = o + PageSize
    BY <1>9, <1>10, <2>1
  <2>. QED  BY <1>5, <1>14, <2>1, <2>2
<1>16. Stores!ShortSearchIsCompleted'
  <2>1. SUFFICES ASSUME search'.pc = "found"
                 PROVE  /\ \A c \in search'.hits : Home[c] \in search'.wanted
                        /\ ~disturbed => /\ Cardinality(search'.hits) = Stores!Min({limit, Cardinality(E)})
                                         /\ search'.hits = Stores!Nearest(limit, E)
    BY <1>1, <1>10, <1>13, CountedAlike DEF Stores!ShortSearchIsCompleted
  <2>2. \A c \in search'.hits : Home[c] \in search'.wanted
    BY <1>12 DEF SearchTyped
  <2>3. ASSUME ~disturbed
        PROVE  search'.hits = Lead(E, Closer, limit)
    BY <1>8, <1>10, <1>14, <2>1, <2>3
  <2>. QED  BY <1>2, <2>2, <2>3, LeadIsCounted, NearestIs
<1>. QED  BY <1>12, <1>13, <1>15, <1>16 DEF SearchInv

LEMMA SearchStep == SearchInv /\ GraphInv /\ [Stores!Next]_Stores!storesVars => SearchInv'
<1>. SUFFICES ASSUME SearchInv, GraphInv, [Stores!Next]_Stores!storesVars PROVE SearchInv'
  OBVIOUS
<1>1. live \subseteq nodes.versions
  BY DEF SearchInv, VectorsAreOfChunks
<1>2. ASSUME NEW v \in Stores!Versions, Stores!Upsert(v) \/ Stores!Activate(v)
      PROVE  SearchInv'
  BY <1>1, <1>2, SearchUpsert, SearchIdle DEF Stores!Activate
<1>3. ASSUME NEW d \in Stores!Documents, Stores!Tombstone(d) \/ Stores!Delete(d)
      PROVE  SearchInv'
  BY <1>1, <1>3, SearchDelete, SearchIdle DEF Stores!Tombstone
<1>4. CASE Stores!Flush \/ (\E limit \in 1 .. MaxLimit : Stores!Query(limit)) \/ Stores!ScanPage
  BY <1>1, <1>4, SearchIdle, SearchQuery, SearchPage DEF Stores!Flush
<1>5. CASE UNCHANGED Stores!storesVars
  BY <1>1, <1>5, SearchIdle DEF Stores!storesVars
<1>. QED  BY <1>2, <1>3, <1>4, <1>5 DEF Stores!Next

(* Whatever versions are written, replaced, deleted and activated, Neo4j    *)
(* answers as the store in memory, the inventories of graph and vectors     *)
(* agree, and a search that finds too little reads all there is, page by    *)
(* page, and ends with the nearest (reference_graph.py:168-213,             *)
(* vector_store.py:225-249).                                                *)
THEOREM StoresStayComplete == Stores!Spec => []Stores!StoresAgree
<1>1. GraphInv => Stores!EdgesFollowNames /\ Stores!StoresAnswerAlike
  BY ExpansionsAgree, TargetsAgree DEF GraphInv, Stores!StoresAnswerAlike
<1>2. GraphInv /\ SearchInv => Stores!InventoriesAgree
  BY DEF GraphInv, StoresHoldAlike, SearchInv, VectorsAreOfChunks, Stores!InventoriesAgree, Stores!GraphIds,
         Stores!MemoryIds, Stores!VectorIds
<1>3. GraphInv /\ SearchInv => Stores!StoresAgree
  BY <1>1, <1>2 DEF SearchInv, Stores!StoresAgree
<1>. QED  BY <1>3, GraphInit, GraphStep, SearchInit, SearchStep, PTL DEF Stores!Spec

-----------------------------------------------------------------------------
(* Evidence: what is taken from a list of passages keeps the bounds, and    *)
(* what comes first in the list is taken.                                   *)

Passages == DOMAIN Units
Items == Passages \X BOOLEAN

LEMMA HybridCounted == \A S : Hybrid!Cardinality(S) = Cardinality(S)
BY DEF Hybrid!Cardinality, Cardinality

\* In an ordered set there is an n-th element for each n up to its total.
LEMMA RankIsTaken ==
    ASSUME NEW T, NEW R, Ordered(T, R), NEW n \in 1 .. Cardinality(T)
    PROVE  \E c \in T : Cardinality(Ahead(T, R, c)) = n - 1
<1>1. /\ n \in Nat /\ n - 1 \in Nat /\ Cardinality(T) \in Nat
  BY FS_CardinalityType DEF Ordered
<1>2. /\ Cardinality(Lead(T, R, n - 1)) <= n - 1 /\ Cardinality(Lead(T, R, n - 1)) \in Nat
      /\ Cardinality(Lead(T, R, n)) \in Nat
      /\ Lead(T, R, n) # T => Cardinality(Lead(T, R, n)) >= n
  BY <1>1, LeadIsShort, LeadIsLong
<1>3. Cardinality(Lead(T, R, n)) # Cardinality(Lead(T, R, n - 1))
  <2>1. CASE Lead(T, R, n) = T
    BY <1>1, <1>2, <2>1
  <2>2. CASE Lead(T, R, n) # T
    BY <1>1, <1>2, <2>2
  <2>. QED  BY <2>1, <2>2
<1>4. \A c \in T : Cardinality(Ahead(T, R, c)) \in Nat
  BY BeforeIsCounted
<1>5. SUFFICES ASSUME \A c \in T : Cardinality(Ahead(T, R, c)) # n - 1 PROVE FALSE
  OBVIOUS
<1>6. \A c \in T : Cardinality(Ahead(T, R, c)) < n <=> Cardinality(Ahead(T, R, c)) < n - 1
  BY <1>1, <1>4, <1>5
<1>7. Lead(T, R, n) = Lead(T, R, n - 1)
  BY <1>6 DEF Lead
<1>. QED  BY <1>3, <1>7

LEMMA ByScoreIs ==
    ASSUME NEW pool \in SUBSET Passages, NEW score \in Scores
    PROVE  Hybrid!ByScore(pool, score) \in Seq(Passages)
<1>. DEFINE R == {pair \in Passages \X Passages : Hybrid!Better(score, pair[1], pair[2])}
            list == Hybrid!ByScore(pool, score)
            total == Cardinality(pool)
<1>1. /\ IsFiniteSet(Passages) /\ Passages \subseteq Nat /\ \A u \in Passages : score[u] \in Nat
  BY HostServicesAssumption DEF Passages
<1>2. \A a, b \in Passages :
         <<a, b>> \in R <=> score[a] > score[b] \/ (score[a] = score[b] /\ a < b)
  BY DEF Hybrid!Better
<1>. HIDE DEF R
<1>3. Ordered(Passages, R)
  BY <1>1, <1>2 DEF Ordered
<1>4. Ordered(pool, R) /\ total \in Nat
  BY <1>3, PartsAreOrdered, FS_CardinalityType DEF Ordered
<1>5. \A u \in pool : {k \in pool : Hybrid!Better(score, k, u)} = Ahead(pool, R, u)
  BY <1>2 DEF Ahead, Hybrid!Better
<1>6. list = [n \in 1 .. Hybrid!Cardinality(pool) |->
                CHOOSE u \in pool : Hybrid!Cardinality({k \in pool : Hybrid!Better(score, k, u)}) = n - 1]
  BY DEF Hybrid!ByScore
<1>7. Hybrid!Cardinality(pool) = total
  BY HybridCounted
<1>8. ASSUME NEW n \in 1 .. total
      PROVE  list[n] \in Passages
  <2>. HIDE DEF list
  <2>1. \E u \in pool : Cardinality(Ahead(pool, R, u)) = n - 1
    BY <1>4, RankIsTaken
  <2>2. \E u \in pool : Hybrid!Cardinality({k \in pool : Hybrid!Better(score, k, u)}) = n - 1
    BY <1>5, <2>1, HybridCounted
  <2>. HIDE DEF total
  <2>. QED  BY <1>6, <1>7, <2>2
<1>. HIDE DEF total
<1>9. list = [n \in 1 .. total |-> list[n]]
  BY <1>6, <1>7
<1>. HIDE DEF list
<1>10. list \in Seq(Passages)
  BY <1>4, <1>8, <1>9
<1>. QED  BY <1>10 DEF list

-----------------------------------------------------------------------------
Fits(t, per, limit) ==
    /\ Len(t) <= limit
    /\ \A d : Hybrid!Of(t, d) <= per /\ Hybrid!Of(t, d) \in Nat
    /\ \A m, n \in DOMAIN t : m # n => Hybrid!Key(t[m]) # Hybrid!Key(t[n])

Taken(per, limit) == {t \in Seq(Passages) : Fits(t, per, limit)}

LEMMA NothingTaken ==
    ASSUME NEW per \in Nat, NEW limit \in Nat
    PROVE  <<>> \in Taken(per, limit) /\ Hybrid!Keys(<<>>) = {} /\ \A d : Hybrid!Of(<<>>, d) = 0
<1>1. \A d : Hybrid!Of(<<>>, d) = 0
  <2>1. \A d : {n \in DOMAIN <<>> : Hybrid!Doc(<<>>[n]) = d} = {}
    OBVIOUS
  <2>. QED  BY <2>1, HybridCounted, FS_EmptySet DEF Hybrid!Of
<1>. QED  BY <1>1 DEF Taken, Fits, Hybrid!Keys

\* One more: it is the last, and only its own document has one more.
LEMMA OneMore ==
    ASSUME NEW t \in Seq(Passages), NEW u \in Passages, \A d : Hybrid!Of(t, d) \in Nat
    PROVE  /\ Append(t, u) \in Seq(Passages) /\ Len(Append(t, u)) = Len(t) + 1
           /\ \A n \in 1 .. Len(t) : Append(t, u)[n] = t[n]
           /\ Append(t, u)[Len(t) + 1] = u
           /\ Hybrid!Keys(Append(t, u)) = Hybrid!Keys(t) \cup {Hybrid!Key(u)}
           /\ \A d : Hybrid!Of(Append(t, u), d) = IF d = Hybrid!Doc(u) THEN Hybrid!Of(t, d) + 1 ELSE Hybrid!Of(t, d)
<1>. DEFINE more == Append(t, u)
            next == Len(t) + 1
            of(s, d) == {n \in DOMAIN s : Hybrid!Doc(s[n]) = d}
<1>1. /\ more \in Seq(Passages) /\ Len(more) = next /\ next \in Nat /\ next \notin 1 .. Len(t)
      /\ DOMAIN more = 1 .. next /\ DOMAIN t = 1 .. Len(t) /\ 1 .. next = (1 .. Len(t)) \cup {next}
      /\ \A n \in 1 .. Len(t) : more[n] = t[n]
      /\ more[next] = u
  OBVIOUS
<1>. HIDE DEF more, next
<1>2. Hybrid!Keys(more) = Hybrid!Keys(t) \cup {Hybrid!Key(u)}
  BY <1>1 DEF Hybrid!Keys
<1>3. ASSUME NEW d
      PROVE  Hybrid!Of(more, d) = IF d = Hybrid!Doc(u) THEN Hybrid!Of(t, d) + 1 ELSE Hybrid!Of(t, d)
  <2>1. Hybrid!Of(more, d) = Cardinality(of(more, d)) /\ Hybrid!Of(t, d) = Cardinality(of(t, d))
    BY HybridCounted DEF Hybrid!Of
  <2>2. of(more, d) = IF d = Hybrid!Doc(u) THEN of(t, d) \cup {next} ELSE of(t, d)
    BY <1>1
  <2>3. IsFiniteSet(of(t, d)) /\ next \notin of(t, d)
    <3>1. IsFiniteSet(1 .. Len(t)) /\ of(t, d) \subseteq 1 .. Len(t)
      BY <1>1, FS_Interval
    <3>. HIDE DEF of
    <3>. QED  BY <1>1, <3>1, FS_Subset
  <2>. HIDE DEF of
  <2>4. Cardinality(of(t, d) \cup {next}) = Cardinality(of(t, d)) + 1
    BY <2>3, FS_AddElement
  <2>. QED  BY <2>1, <2>2, <2>4
<1>. QED  BY <1>1, <1>2, <1>3 DEF more, next

LEMMA AnotherFits ==
    ASSUME NEW per \in Nat, NEW limit \in Nat, NEW t \in Taken(per, limit), NEW item \in Items
    PROVE  /\ Hybrid!Another(t, item, per, limit) \in Taken(per, limit)
           /\ \/ Hybrid!Another(t, item, per, limit) = t
              \/ Hybrid!Another(t, item, per, limit) = Append(t, item[1])
<1>. DEFINE u == item[1]
            wanted == /\ Len(t) < limit /\ Hybrid!Key(u) \notin Hybrid!Keys(t)
                      /\ item[2] /\ Hybrid!Of(t, Hybrid!Doc(u)) < per
<1>1. t \in Seq(Passages) /\ Fits(t, per, limit) /\ u \in Passages
  BY DEF Taken, Items
<1>2. Hybrid!Another(t, item, per, limit) = IF wanted THEN Append(t, u) ELSE t
  BY DEF Hybrid!Another
<1>. HIDE DEF u
<1>3. ASSUME wanted PROVE Fits(Append(t, u), per, limit) /\ Append(t, u) \in Seq(Passages)
  <2>. DEFINE more == Append(t, u)
  <2>1. \A d : Hybrid!Of(t, d) \in Nat /\ Hybrid!Of(t, d) <= per
    BY <1>1 DEF Fits
  <2>2. /\ more \in Seq(Passages) /\ Len(more) = Len(t) + 1
        /\ \A n \in 1 .. Len(t) : more[n] = t[n]
        /\ more[Len(t) + 1] = u
        /\ \A d : Hybrid!Of(more, d) = IF d = Hybrid!Doc(u) THEN Hybrid!Of(t, d) + 1 ELSE Hybrid!Of(t, d)
    BY <1>1, <2>1, OneMore
  <2>. HIDE DEF more
  <2>3. Len(t) \in Nat /\ DOMAIN t = 1 .. Len(t) /\ DOMAIN more = 1 .. Len(t) + 1
    BY <1>1, <2>2
  <2>4. Len(more) <= limit
    BY <1>3, <2>2, <2>3
  <2>5. ASSUME NEW d PROVE Hybrid!Of(more, d) <= per /\ Hybrid!Of(more, d) \in Nat
    BY <1>3, <2>1, <2>2
  <2>6. \A n \in 1 .. Len(t) : Hybrid!Key(t[n]) # Hybrid!Key(u)
    BY <1>3, <2>3 DEF Hybrid!Keys
  <2>7. ASSUME NEW m \in DOMAIN more, NEW n \in DOMAIN more, m # n
        PROVE  Hybrid!Key(more[m]) # Hybrid!Key(more[n])
    <3>1. CASE m \in 1 .. Len(t) /\ n \in 1 .. Len(t)
      <4>1. Hybrid!Key(t[m]) # Hybrid!Key(t[n])
        BY <1>1, <2>3, <2>7, <3>1 DEF Fits
      <4>. QED  BY <2>2, <3>1, <4>1
    <3>2. CASE m = Len(t) + 1
      <4>1. n \in 1 .. Len(t)
        BY <2>3, <2>7, <3>2
      <4>. QED  BY <2>2, <2>6, <3>2, <4>1
    <3>3. CASE n = Len(t) + 1
      <4>1. m \in 1 .. Len(t)
        BY <2>3, <2>7, <3>3
      <4>. QED  BY <2>2, <2>6, <3>3, <4>1
    <3>. QED  BY <2>3, <3>1, <3>2, <3>3
  <2>. QED  BY <2>2, <2>4, <2>5, <2>7 DEF Fits, more
<1>. HIDE DEF wanted
<1>. QED  BY <1>1, <1>2, <1>3 DEF Taken, u

\* What is taken from the beginning of the list up to each place in it.
LEMMA TakeGoesOn ==
    ASSUME NEW per \in Nat, NEW limit \in Nat, NEW s \in Seq(Items)
    PROVE  \E it : /\ it[{}] = <<>> /\ it[1 .. Len(s)] = Hybrid!Take(s, per, limit)
                   /\ \A n \in 0 .. Len(s) : it[1 .. n] \in Taken(per, limit)
                   /\ \A n \in 1 .. Len(s) : it[1 .. n] = Hybrid!Another(it[1 .. n - 1], s[n], per, limit)
<1>. DEFINE A == Taken(per, limit)
            b == <<>>
            g == [p \in A \X Items |-> Hybrid!Another(p[1], p[2], per, limit)]
            n == Len(s)
            Is(it) == it = [t \in SUBSET DOMAIN s |->
                               IF t = {} THEN b ELSE Hybrid!Another(it[t \ {Max(t)}], s[Max(t)], per, limit)]
            pick == CHOOSE it : Is(it)
<1>1. Hybrid!Take(s, per, limit) = pick[DOMAIN s]
  BY DEF Hybrid!Take, Hybrid!FoldLeft, Hybrid!MapThenFoldSet, Hybrid!Max, Max
<1>2. /\ b \in A /\ g \in [A \X Items -> A]
      /\ \A p \in A, c \in Items :
            g[<<p, c>>] = Hybrid!Another(p, c, per, limit) /\ Hybrid!Another(p, c, per, limit) \in A
  <2>1. b \in A
    BY NothingTaken
  <2>2. \A p \in A, c \in Items : Hybrid!Another(p, c, per, limit) \in A
    BY AnotherFits
  <2>. HIDE DEF A
  <2>. QED  BY <2>1, <2>2
<1>3. n \in Nat /\ DOMAIN s = 1 .. n /\ \A k \in 1 .. n : s[k] \in Items
  OBVIOUS
<1>. HIDE DEF b, g, n, A
<1>4. \A t \in SUBSET (1 .. n) : t # {} => Max(t) \in 1 .. n /\ t \ {Max(t)} \in SUBSET (1 .. n)
  <2>1. ASSUME NEW t \in SUBSET (1 .. n), t # {}
        PROVE  Max(t) \in t
    <3>1. t \in SUBSET (0 .. n)
      BY <1>3
    <3>. QED  BY <1>3, <2>1, <3>1, Greatest
  <2>. QED  BY <2>1
<1>5. PICK it \in [SUBSET DOMAIN s -> A] : Unrolled(it, s, b, g)
  BY <1>2, Unrolling
<1>6. Is(it)
  <2>1. ASSUME NEW t \in SUBSET DOMAIN s
        PROVE  it[t] = IF t = {} THEN b ELSE Hybrid!Another(it[t \ {Max(t)}], s[Max(t)], per, limit)
    <3>1. it[t] = Step(it, s, b, g, t)
      BY <1>5 DEF Unrolled
    <3>2. t # {} => it[t \ {Max(t)}] \in A /\ s[Max(t)] \in Items
      BY <1>3, <1>4, <1>5
    <3>. QED  BY <3>1, <3>2, <1>2 DEF Step
  <2>. QED  BY <2>1
<1>7. Is(pick)
  BY <1>6
<1>. HIDE DEF pick
<1>8. \A t \in SUBSET (1 .. n) :
         pick[t] = IF t = {} THEN b ELSE Hybrid!Another(pick[t \ {Max(t)}], s[Max(t)], per, limit)
  BY <1>3, <1>7
<1>9. ASSUME NEW t \in SUBSET (1 .. n)
      PROVE  pick[t] \in A
  <2>1. pick[{}] \in A
    BY <1>2, <1>8
  <2>2. ASSUME NEW r \in SUBSET (1 .. n), r # {}, pick[r \ {Max(r)}] \in A
        PROVE  pick[r] \in A
    <3>1. s[Max(r)] \in Items /\ pick[r] = Hybrid!Another(pick[r \ {Max(r)}], s[Max(r)], per, limit)
      BY <1>3, <1>4, <1>8, <2>2
    <3>. QED  BY <2>2, <3>1, <1>2
  <2>. QED  BY <1>3, <2>1, <2>2, ValuesOfUnrolled
<1>10. ASSUME NEW k \in 1 .. n
       PROVE  pick[1 .. k] = Hybrid!Another(pick[1 .. k - 1], s[k], per, limit)
  <2>1. k - 1 \in Nat /\ (k - 1) + 1 = k /\ 1 .. k \in SUBSET (1 .. n)
    BY <1>3
  <2>2. 1 .. (k - 1) + 1 # {} /\ (1 .. (k - 1) + 1) \ {(k - 1) + 1} = 1 .. k - 1 /\ Max(1 .. (k - 1) + 1) = (k - 1) + 1
    BY <2>1, WholeInterval
  <2>3. 1 .. k # {} /\ (1 .. k) \ {k} = 1 .. k - 1 /\ Max(1 .. k) = k
    BY <2>1, <2>2
  <2>. QED  BY <1>8, <2>1, <2>3
<1>11. pick[{}] = <<>> /\ \A k \in 0 .. n : pick[1 .. k] \in A
  <2>1. pick[{}] = <<>>
    BY <1>8 DEF b
  <2>2. \A k \in 0 .. n : 1 .. k \in SUBSET (1 .. n)
    BY <1>3
  <2>. QED  BY <1>9, <2>1, <2>2
<1>. QED  BY <1>1, <1>3, <1>10, <1>11 DEF n, A

LEMMA TakenFits ==
    ASSUME NEW per \in Nat, NEW limit \in Nat, NEW s \in Seq(Items)
    PROVE  Hybrid!Take(s, per, limit) \in Taken(per, limit)
<1>1. Len(s) \in 0 .. Len(s)
  OBVIOUS
<1>. QED  BY <1>1, TakeGoesOn

\* What was taken stays.
LEMMA AnotherKeeps ==
    ASSUME NEW per \in Nat, NEW limit \in Nat, NEW t \in Taken(per, limit), NEW item \in Items
    PROVE  /\ Len(t) <= Len(Hybrid!Another(t, item, per, limit))
           /\ \A n \in 1 .. Len(t) : Hybrid!Another(t, item, per, limit)[n] = t[n]
           /\ Hybrid!Keys(t) \subseteq Hybrid!Keys(Hybrid!Another(t, item, per, limit))
<1>. DEFINE next == Hybrid!Another(t, item, per, limit)
<1>1. t \in Seq(Passages) /\ item[1] \in Passages /\ \A d : Hybrid!Of(t, d) \in Nat
  BY DEF Taken, Fits, Items
<1>2. next = t \/ next = Append(t, item[1])
  BY AnotherFits
<1>3. /\ Len(Append(t, item[1])) = Len(t) + 1 /\ Len(t) \in Nat
      /\ \A n \in 1 .. Len(t) : Append(t, item[1])[n] = t[n]
      /\ Hybrid!Keys(Append(t, item[1])) = Hybrid!Keys(t) \cup {Hybrid!Key(item[1])}
  BY <1>1, OneMore
<1>. HIDE DEF next
<1>4. CASE next = t
  BY <1>3, <1>4 DEF next
<1>5. CASE next = Append(t, item[1])
  BY <1>3, <1>5 DEF next
<1>. QED  BY <1>2, <1>4, <1>5

\* The first of a list is taken, and the second one if it scored enough,
\* unless its text is taken already.
LEMMA FirstAreTaken ==
    ASSUME NEW per \in Nat, NEW limit \in Nat, per > 1, limit > 1, NEW s \in Seq(Items), Len(s) > 0, s[1][2]
    PROVE  LET all == Hybrid!Take(s, per, limit)
           IN /\ Len(all) > 0 /\ all[1] = s[1][1]
              /\ Len(s) > 1 /\ s[2][2] => Hybrid!Key(s[2][1]) \in Hybrid!Keys(all)
<1>1. PICK it : /\ it[{}] = <<>> /\ it[1 .. Len(s)] = Hybrid!Take(s, per, limit)
                /\ \A n \in 0 .. Len(s) : it[1 .. n] \in Taken(per, limit)
                /\ \A n \in 1 .. Len(s) : it[1 .. n] = Hybrid!Another(it[1 .. n - 1], s[n], per, limit)
  BY TakeGoesOn
<1>2. Len(s) \in Nat /\ \A n \in 1 .. Len(s) : s[n] \in Items /\ s[n][1] \in Passages
  BY DEF Items
<1>3. it[1 .. 1] = Append(<<>>, s[1][1])
  <2>1. 1 .. 0 = {} /\ 1 \in 1 .. Len(s) /\ 1 - 1 = 0
    BY <1>2
  <2>2. it[1 .. 1] = Hybrid!Another(<<>>, s[1], per, limit)
    BY <1>1, <2>1
  <2>3. Hybrid!Keys(<<>>) = {} /\ Hybrid!Of(<<>>, Hybrid!Doc(s[1][1])) = 0 /\ Len(<<>>) = 0
    BY NothingTaken
  <2>. QED  BY <2>2, <2>3 DEF Hybrid!Another
<1>. DEFINE one == Append(<<>>, s[1][1])
            Good(t, n) == /\ Len(t) > 0 /\ t[1] = s[1][1]
                          /\ n > 1 /\ s[2][2] => Hybrid!Key(s[2][1]) \in Hybrid!Keys(t)
            P == {n \in Nat : n > 0 /\ n <= Len(s) => Good(it[1 .. n], n)}
<1>4. /\ one \in Seq(Passages) /\ Len(one) = 1 /\ one[1] = s[1][1]
      /\ \A d : Hybrid!Of(one, d) \in {0, 1}
  <2>1. <<>> \in Seq(Passages) /\ s[1][1] \in Passages /\ \A d : Hybrid!Of(<<>>, d) = 0
    BY <1>2, NothingTaken
  <2>2. \A d : Hybrid!Of(one, d) = IF d = Hybrid!Doc(s[1][1]) THEN 0 + 1 ELSE 0
    <3>1. \A d : Hybrid!Of(<<>>, d) \in Nat
      BY <2>1
    <3>2. \A d : Hybrid!Of(one, d) = IF d = Hybrid!Doc(s[1][1]) THEN Hybrid!Of(<<>>, d) + 1 ELSE Hybrid!Of(<<>>, d)
      BY <2>1, <3>1, OneMore
    <3>. HIDE DEF one
    <3>. QED  BY <2>1, <3>2
  <2>. QED  BY <2>1, <2>2
<1>5. ASSUME Len(s) > 1, s[2][2]
      PROVE  Hybrid!Key(s[2][1]) \in Hybrid!Keys(it[1 .. 2])
  <2>1. it[1 .. 2] = Hybrid!Another(one, s[2], per, limit)
    <3>1. 2 \in 1 .. Len(s) /\ 2 - 1 = 1
      BY <1>2, <1>5
    <3>2. it[1 .. 2] = Hybrid!Another(it[1 .. 2 - 1], s[2], per, limit)
      BY <1>1, <3>1
    <3>3. it[1 .. 2 - 1] = one
      BY <1>3, <3>1
    <3>. HIDE DEF one
    <3>. QED  BY <3>2, <3>3
  <2>2. s[2][1] \in Passages
    BY <1>2, <1>5
  <2>. HIDE DEF one
  <2>3. Hybrid!Of(one, Hybrid!Doc(s[2][1])) < per /\ Len(one) < limit /\ \A d : Hybrid!Of(one, d) \in Nat
    BY <1>4
  <2>4. Hybrid!Keys(Append(one, s[2][1])) = Hybrid!Keys(one) \cup {Hybrid!Key(s[2][1])}
    BY <1>4, <2>2, <2>3, OneMore
  <2>5. CASE Hybrid!Key(s[2][1]) \in Hybrid!Keys(one)
    BY <2>1, <2>5 DEF Hybrid!Another
  <2>6. CASE Hybrid!Key(s[2][1]) \notin Hybrid!Keys(one)
    <3>1. it[1 .. 2] = Append(one, s[2][1])
      BY <1>5, <2>1, <2>3, <2>6 DEF Hybrid!Another
    <3>. QED  BY <2>4, <3>1
  <2>. QED  BY <2>5, <2>6
<1>6. ASSUME NEW n \in Nat, n \in P
      PROVE  n + 1 \in P
  <2>1. SUFFICES ASSUME n + 1 <= Len(s) PROVE Good(it[1 .. n + 1], n + 1)
    BY <1>6
  <2>2. CASE n = 0
    <3>1. it[1 .. n + 1] = one
      BY <1>3, <2>2
    <3>. QED  BY <1>4, <2>2, <3>1
  <2>3. CASE n # 0
    <3>. DEFINE t == it[1 .. n]
                next == it[1 .. n + 1]
    <3>1. n \in 0 .. Len(s) /\ n + 1 \in 1 .. Len(s) /\ (n + 1) - 1 = n /\ n > 0
      BY <1>2, <2>1, <2>3
    <3>2. t \in Taken(per, limit) /\ next = Hybrid!Another(t, s[n + 1], per, limit) /\ s[n + 1] \in Items
      BY <1>1, <1>2, <3>1
    <3>3. Good(t, n)
      BY <1>6, <2>1, <3>1
    <3>4. t \in Seq(Passages) /\ Len(t) \in Nat
      BY <3>2 DEF Taken
    <3>. HIDE DEF t, next
    <3>5. /\ Len(t) <= Len(next) /\ \A k \in 1 .. Len(t) : next[k] = t[k]
          /\ Hybrid!Keys(t) \subseteq Hybrid!Keys(next) /\ next \in Taken(per, limit)
      <4>. DEFINE item == s[n + 1]
      <4>1. item \in Items /\ next = Hybrid!Another(t, item, per, limit)
        BY <3>2
      <4>. HIDE DEF item
      <4>2. Hybrid!Another(t, item, per, limit) \in Taken(per, limit)
        BY <3>2, <4>1, AnotherFits
      <4>3. /\ Len(t) <= Len(Hybrid!Another(t, item, per, limit))
            /\ \A k \in 1 .. Len(t) : Hybrid!Another(t, item, per, limit)[k] = t[k]
            /\ Hybrid!Keys(t) \subseteq Hybrid!Keys(Hybrid!Another(t, item, per, limit))
        BY <3>2, <4>1, AnotherKeeps
      <4>. QED  BY <4>1, <4>2, <4>3
    <3>6. Len(next) \in Nat
      BY <3>5 DEF Taken
    <3>7. Len(next) > 0 /\ next[1] = s[1][1]
      BY <3>3, <3>4, <3>5, <3>6
    <3>8. ASSUME s[2][2] PROVE Hybrid!Key(s[2][1]) \in Hybrid!Keys(next)
      <4>1. CASE n = 1
        <5>1. next = it[1 .. 2] /\ Len(s) > 1
          BY <2>1, <4>1 DEF next
        <5>. QED  BY <1>5, <3>8, <5>1
      <4>2. CASE n > 1
        BY <3>3, <3>5, <3>8, <4>2
      <4>. QED  BY <3>1, <4>1, <4>2
    <3>. QED  BY <3>7, <3>8 DEF next
  <2>. QED  BY <2>2, <2>3
<1>7. Len(s) \in P
  <2>1. 0 \in P
    OBVIOUS
  <2>. HIDE DEF P
  <2>. QED  BY <1>2, <1>6, <2>1, InductionOverSets
<1>. QED  BY <1>1, <1>2, <1>7

LEMMA MergedIs ==
    ASSUME NEW own \in Seq(Items), NEW more \in Seq(Items)
    PROVE  /\ Hybrid!Merged(own, more) \in Seq(Items)
           /\ Len(Hybrid!Merged(own, more)) = Len(own) + Len(more)
           /\ Len(own) > 0 => Hybrid!Merged(own, more)[1] = own[1]
           /\ Len(own) > 0 /\ Len(more) > 0 => Hybrid!Merged(own, more)[2] = more[1]
<1>. DEFINE l == Len(own)
            r == Len(more)
            both == IF l <= r THEN l ELSE r
            spot(n) == IF n > 2 * both THEN IF l > both THEN own[n - both] ELSE more[n - both]
                     ELSE IF n % 2 = 1 THEN own[(n + 1) \div 2] ELSE more[n \div 2]
            list == Hybrid!Merged(own, more)
<1>1. /\ l \in Nat /\ r \in Nat /\ both \in Nat /\ l + r \in Nat
      /\ (\A n \in 1 .. l : own[n] \in Items) /\ (\A n \in 1 .. r : more[n] \in Items)
      /\ both <= l /\ both <= r /\ (both = l \/ both = r)
  OBVIOUS
<1>2. list = [n \in 1 .. l + r |-> spot(n)]
  <2>1. Hybrid!Min({l, r}) = both
    <3>1. Min({l, r}) = both
      <4>1. l \in Int /\ r \in Int
        BY <1>1
      <4>. HIDE DEF l, r
      <4>. QED  BY <4>1, LessOf
    <3>. QED  BY <3>1 DEF Hybrid!Min, Min
  <2>. HIDE DEF l, r, both
  <2>. QED  BY <2>1 DEF Hybrid!Merged, l, r
<1>. HIDE DEF l, r, both, list
<1>3. ASSUME NEW n \in 1 .. l + r
      PROVE  spot(n) \in Items
  <2>1. CASE n > 2 * both /\ l > both
    <3>1. n - both \in 1 .. l
      BY <1>1, <2>1
    <3>. QED  BY <1>1, <2>1, <3>1
  <2>2. CASE n > 2 * both /\ ~(l > both)
    <3>1. n - both \in 1 .. r
      BY <1>1, <2>2
    <3>. QED  BY <1>1, <2>2, <3>1
  <2>3. CASE ~(n > 2 * both)
    <3>1. n % 2 = 1 => (n + 1) \div 2 \in 1 .. both
      BY <1>1, <2>3
    <3>2. n % 2 # 1 => n \div 2 \in 1 .. both
      BY <1>1, <2>3
    <3>3. 1 .. both \subseteq 1 .. l /\ 1 .. both \subseteq 1 .. r
      BY <1>1
    <3>. QED  BY <1>1, <2>3, <3>1, <3>2, <3>3
  <2>. QED  BY <2>1, <2>2, <2>3
<1>4. l > 0 => 1 \in 1 .. l + r /\ spot(1) = own[1]
  <2>1. CASE both = 0
    BY <1>1, <2>1
  <2>2. CASE both # 0
    <3>1. ~(1 > 2 * both) /\ 1 % 2 = 1 /\ (1 + 1) \div 2 = 1
      BY <1>1, <2>2
    <3>. QED  BY <1>1, <3>1
  <2>. QED  BY <2>1, <2>2
<1>5. l > 0 /\ r > 0 => 2 \in 1 .. l + r /\ spot(2) = more[1]
  <2>1. SUFFICES ASSUME l > 0, r > 0 PROVE 2 \in 1 .. l + r /\ spot(2) = more[1]
    OBVIOUS
  <2>2. ~(2 > 2 * both) /\ 2 % 2 # 1 /\ 2 \div 2 = 1
    BY <1>1, <2>1
  <2>. QED  BY <1>1, <2>1, <2>2
<1>. HIDE DEF spot
<1>6. list \in Seq(Items) /\ Len(list) = l + r
  BY <1>1, <1>2, <1>3
<1>7. \A n \in 1 .. l + r : list[n] = spot(n)
  BY <1>2
<1>. QED  BY <1>4, <1>5, <1>6, <1>7 DEF l, r, list

LEMMA JudgedIs ==
    ASSUME NEW list \in Seq(Passages), NEW score \in Scores
    PROVE  /\ Hybrid!Judged(list, score) \in Seq(Items) /\ Len(Hybrid!Judged(list, score)) = Len(list)
           /\ \A n \in 1 .. Len(list) :
                 Hybrid!Judged(list, score)[n] = <<list[n], score[list[n]] >= MinRelevance>>
<1>1. \A n \in 1 .. Len(list) : list[n] \in Passages /\ score[list[n]] \in Nat /\ MinRelevance \in Nat
  BY HostServicesAssumption DEF Passages
<1>2. \A n \in 1 .. Len(list) : <<list[n], score[list[n]] >= MinRelevance>> \in Items
  <2>1. ASSUME NEW n \in 1 .. Len(list)
        PROVE  <<list[n], score[list[n]] >= MinRelevance>> \in Passages \X BOOLEAN
    <3>1. list[n] \in Passages /\ (score[list[n]] >= MinRelevance) \in BOOLEAN
      BY <1>1
    <3>. QED  BY <3>1, Zenon
  <2>. QED  BY <2>1 DEF Items
<1>3. Hybrid!Judged(list, score) = [n \in 1 .. Len(list) |-> <<list[n], score[list[n]] >= MinRelevance>>]
  BY DEF Hybrid!Judged
<1>. QED  BY <1>2, <1>3

ListsAreKept ==
    /\ step \in {"chosen", "linked"} => chosen \in Seq(Passages) /\ Len(chosen) > 0
    /\ step = "linked" => linked \in Seq(Passages) /\ scores \in Scores

HybridInv == ListsAreKept /\ Hybrid!EvidenceKeepsRoom

LEMMA HybridInit == Hybrid!Init => HybridInv
BY DEF Hybrid!Init, HybridInv, ListsAreKept, Hybrid!EvidenceKeepsRoom, Hybrid!OriginAndTargetKeepRoom,
       Hybrid!EvidenceIsOneReading

LEMMA FoundIs ==
    ASSUME NEW versions, NEW lexical, NEW dense
    PROVE  Hybrid!Found(versions, lexical, dense) \in SUBSET Passages
BY DEF Hybrid!Found, Hybrid!Fused, Passages

LEMMA SeedStep ==
    ASSUME HybridInv, Hybrid!Seed
    PROVE  HybridInv'
<1>1. CASE Hybrid!Fail
  BY <1>1 DEF Hybrid!Fail, Hybrid!found, HybridInv, ListsAreKept, Hybrid!EvidenceKeepsRoom,
              Hybrid!OriginAndTargetKeepRoom, Hybrid!EvidenceIsOneReading
<1>2. CASE \E lexical, dense \in Rankings, score \in Scores :
             LET pool == Hybrid!Found(heads, lexical, dense)
             IN /\ chosen' = Hybrid!Take(Hybrid!Judged(Hybrid!ByScore(pool, score), score), 2, SeedLimit)
                /\ step' = IF chosen' = <<>> THEN "empty" ELSE "chosen"
  <2>1. PICK lexical, dense \in Rankings, score \in Scores :
           LET pool == Hybrid!Found(heads, lexical, dense)
           IN /\ chosen' = Hybrid!Take(Hybrid!Judged(Hybrid!ByScore(pool, score), score), 2, SeedLimit)
              /\ step' = IF chosen' = <<>> THEN "empty" ELSE "chosen"
    BY <1>2
  <2>. DEFINE list == Hybrid!ByScore(Hybrid!Found(heads, lexical, dense), score)
  <2>2. list \in Seq(Passages)
    BY FoundIs, ByScoreIs
  <2>3. Hybrid!Judged(list, score) \in Seq(Items)
    BY <2>2, JudgedIs
  <2>4. Hybrid!Take(Hybrid!Judged(list, score), 2, SeedLimit) \in Taken(2, SeedLimit)
    BY <2>3, TakenFits, HostServicesAssumption
  <2>5. chosen' \in Seq(Passages) /\ step' = IF chosen' = <<>> THEN "empty" ELSE "chosen"
    BY <2>1, <2>4 DEF Taken
  <2>6. step' = "chosen" => Len(chosen') > 0
    BY <2>5
  <2>. QED  BY <2>5, <2>6 DEF HybridInv, ListsAreKept, Hybrid!EvidenceKeepsRoom,
              Hybrid!OriginAndTargetKeepRoom, Hybrid!EvidenceIsOneReading
<1>. QED  BY <1>1, <1>2 DEF Hybrid!Seed

LEMMA LinkStep ==
    ASSUME HybridInv, Hybrid!Link
    PROVE  HybridInv'
<1>1. CASE Hybrid!Fail
  BY <1>1 DEF Hybrid!Fail, Hybrid!found, HybridInv, ListsAreKept, Hybrid!EvidenceKeepsRoom,
              Hybrid!OriginAndTargetKeepRoom, Hybrid!EvidenceIsOneReading
<1>2. CASE \E lexical, dense \in Rankings, score \in Scores :
             /\ linked' = Hybrid!ByScore(Hybrid!Found(Hybrid!TargetHeads, lexical, dense), score)
             /\ scores' = score /\ step' = "linked" /\ UNCHANGED chosen
  <2>1. linked' \in Seq(Passages) /\ scores' \in Scores /\ step' = "linked" /\ UNCHANGED chosen
    BY <1>2, FoundIs, ByScoreIs
  <2>2. chosen \in Seq(Passages) /\ Len(chosen) > 0
    BY DEF Hybrid!Link, HybridInv, ListsAreKept
  <2>. QED  BY <2>1, <2>2 DEF HybridInv, ListsAreKept, Hybrid!EvidenceKeepsRoom,
              Hybrid!OriginAndTargetKeepRoom, Hybrid!EvidenceIsOneReading
<1>. QED  BY <1>1, <1>2 DEF Hybrid!Link

LEMMA AssembleStep ==
    ASSUME HybridInv, Hybrid!Assemble
    PROVE  HybridInv'
<1>1. CASE Hybrid!Fail
  BY <1>1 DEF Hybrid!Fail, Hybrid!found, HybridInv, ListsAreKept, Hybrid!EvidenceKeepsRoom,
              Hybrid!OriginAndTargetKeepRoom, Hybrid!EvidenceIsOneReading
<1>2. CASE ~Hybrid!Fail
  <2>. DEFINE own == [n \in DOMAIN chosen |-> <<chosen[n], TRUE>>]
              more == Hybrid!Judged(linked, scores)
              list == Hybrid!Merged(own, more)
              all == Hybrid!Take(list, 3, MaxEvidence)
  <2>1. /\ evidence' = all /\ step' = "done" /\ UNCHANGED <<chosen, linked, scores>>
        /\ Hybrid!AreCurrent(Hybrid!ToSet(all)) /\ step = "linked"
    BY <1>2 DEF Hybrid!Assemble, Hybrid!Collect
  <2>2. chosen \in Seq(Passages) /\ Len(chosen) > 0 /\ linked \in Seq(Passages) /\ scores \in Scores
    BY <2>1 DEF HybridInv, ListsAreKept
  <2>3. own \in Seq(Items) /\ Len(own) = Len(chosen) /\ own[1] = <<chosen[1], TRUE>>
    <3>1. \A n \in 1 .. Len(chosen) : <<chosen[n], TRUE>> \in Items
      <4>1. \A n \in 1 .. Len(chosen) : chosen[n] \in Passages /\ TRUE \in BOOLEAN
        BY <2>2
      <4>. QED  BY <4>1, Zenon DEF Items
    <3>2. own = [n \in 1 .. Len(chosen) |-> <<chosen[n], TRUE>>]
      BY <2>2
    <3>3. Len(chosen) \in Nat /\ 1 \in 1 .. Len(chosen)
      BY <2>2
    <3>4. \A f : f \in [1 .. Len(chosen) -> Items] => f \in Seq(Items) /\ Len(f) = Len(chosen)
      BY <3>3
    <3>. HIDE DEF own
    <3>5. own \in [1 .. Len(chosen) -> Items]
      BY <3>1, <3>2, Zenon
    <3>6. own[1] = <<chosen[1], TRUE>>
      BY <3>2, <3>3, Zenon
    <3>. QED  BY <3>4, <3>5, <3>6
  <2>4. /\ more \in Seq(Items) /\ Len(more) = Len(linked)
        /\ Len(linked) > 0 => more[1] = <<linked[1], scores[linked[1]] >= MinRelevance>>
    BY <2>2, JudgedIs
  <2>. HIDE DEF own, more
  <2>5. /\ list \in Seq(Items) /\ Len(list) = Len(own) + Len(more)
        /\ list[1] = own[1] /\ (Len(more) > 0 => list[2] = more[1])
    BY <2>2, <2>3, <2>4, MergedIs
  <2>6. MaxEvidence \in Nat
    BY HostServicesAssumption
  <2>. HIDE DEF list
  <2>7. all \in Taken(3, MaxEvidence)
    BY <2>5, <2>6, TakenFits
  <2>8. ASSUME MaxEvidence > 1
        PROVE  /\ Len(all) > 0 /\ all[1] = chosen[1]
               /\ Len(linked) > 0 /\ scores[linked[1]] >= MinRelevance => Hybrid!Key(linked[1]) \in Hybrid!Keys(all)
    <3>1. Len(list) > 0 /\ list[1][2] /\ list[1][1] = chosen[1]
      BY <2>2, <2>3, <2>4, <2>5
    <3>2. /\ Len(all) > 0 /\ all[1] = list[1][1]
          /\ Len(list) > 1 /\ list[2][2] => Hybrid!Key(list[2][1]) \in Hybrid!Keys(all)
      <4>1. 3 \in Nat /\ 3 > 1
        OBVIOUS
      <4>. QED  BY <2>5, <2>6, <2>8, <3>1, <4>1, FirstAreTaken
    <3>3. Len(linked) > 0 => /\ Len(list) > 1 /\ list[2][1] = linked[1]
                             /\ list[2][2] = (scores[linked[1]] >= MinRelevance)
      BY <2>2, <2>3, <2>4, <2>5
    <3>. QED  BY <3>1, <3>2, <3>3
  <2>. HIDE DEF all
  <2>9. all \in Seq(Passages) /\ Fits(all, 3, MaxEvidence)
    BY <2>7 DEF Taken
  <2>10. Hybrid!OriginAndTargetKeepRoom'
    <3>1. MaxEvidence > 1 => Hybrid!Contains(all, chosen[1])
      BY <2>8, <2>9 DEF Hybrid!Contains
    <3>2. linked # <<>> => Len(linked) > 0
      BY <2>2
    <3>. QED  BY <2>1, <2>8, <3>1, <3>2 DEF Hybrid!OriginAndTargetKeepRoom
  <2>11. ASSUME NEW m \in DOMAIN all, NEW n \in DOMAIN all, Hybrid!Doc(all[m]) = Hybrid!Doc(all[n])
         PROVE  Hybrid!Version(all[m]) = Hybrid!Version(all[n])
    <3>1. all[m] \in Hybrid!ToSet(all) /\ all[n] \in Hybrid!ToSet(all)
      BY DEF Hybrid!ToSet
    <3>2. Hybrid!Version(all[m]) \in Hybrid!Current /\ Hybrid!Version(all[n]) \in Hybrid!Current
      BY <2>1, <3>1 DEF Hybrid!AreCurrent
    <3>. QED  BY <2>11, <3>2 DEF Hybrid!Current, Hybrid!Version, Hybrid!Doc
  <2>12. Hybrid!EvidenceIsOneReading'
    <3>1. /\ Len(all) <= MaxEvidence
          /\ \A d \in Hybrid!Docs : Hybrid!Of(all, d) <= 3
          /\ \A m, n \in DOMAIN all : m # n => Hybrid!Key(all[m]) # Hybrid!Key(all[n])
      BY <2>9 DEF Fits
    <3>. QED  BY <2>1, <2>11, <3>1 DEF Hybrid!EvidenceIsOneReading
  <2>13. ListsAreKept'
    BY <2>1 DEF ListsAreKept
  <2>. QED  BY <2>10, <2>12, <2>13 DEF HybridInv, Hybrid!EvidenceKeepsRoom
<1>. QED  BY <1>1, <1>2

LEMMA HybridStep == HybridInv /\ [Hybrid!Next]_Hybrid!hybridVars => HybridInv'
<1>. SUFFICES ASSUME HybridInv, [Hybrid!Next]_Hybrid!hybridVars PROVE HybridInv'
  OBVIOUS
<1>. USE DEF HybridInv, ListsAreKept, Hybrid!EvidenceKeepsRoom, Hybrid!OriginAndTargetKeepRoom,
             Hybrid!EvidenceIsOneReading
<1>1. ASSUME NEW d \in Hybrid!Docs, Hybrid!Replace(d)
      PROVE  HybridInv'
  BY <1>1 DEF Hybrid!Replace, Hybrid!found
<1>2. ASSUME NEW scope \in SUBSET Hybrid!Docs, Hybrid!Retrieve(scope)
      PROVE  HybridInv'
  <2>1. step' \in {"failed", "empty", "heads"}
    BY <1>2 DEF Hybrid!Retrieve
  <2>. QED  BY <2>1
<1>3. CASE UNCHANGED Hybrid!hybridVars
  BY <1>3 DEF Hybrid!hybridVars
<1>. QED  BY <1>1, <1>2, <1>3, SeedStep, LinkStep, AssembleStep DEF Hybrid!Next

(* And when the hybrid profile is done, the best passage of the question    *)
(* and the best that the references led to are among the evidence, which    *)
(* is of one version of each document, though sources are replaced while    *)
(* it is collected (hybrid.py:209-268).                                     *)
THEOREM RetrievalStaysComplete == Stores!Spec /\ Hybrid!Spec => []RetrievalIsComplete
<1>1. Hybrid!Spec => []HybridInv
  BY HybridInit, HybridStep, PTL DEF Hybrid!Spec
<1>2. HybridInv => Hybrid!EvidenceKeepsRoom
  BY DEF HybridInv
<1>3. Hybrid!EvidenceKeepsRoom /\ Stores!StoresAgree => RetrievalIsComplete
  BY DEF RetrievalIsComplete
<1>. QED  BY <1>1, <1>2, <1>3, StoresStayComplete, PTL

-----------------------------------------------------------------------------
(* Types.  The parts that a probe may find, and what it has found.          *)
ProbeSeen ==
    /\ up \subseteq Probe!Monitored /\ answers \subseteq Probe!Monitored /\ seen \subseteq Probe!Monitored
    /\ asked \in {"asked", "up", "down"} /\ green \in {"nothing", "green", "red"}

LEMMA ProbeSees == ProbeInv /\ ProbeSeen /\ [Probe!Next]_Probe!probeVars => ProbeSeen'
<1>. SUFFICES ASSUME ProbeInv, ProbeSeen, [Probe!Next]_Probe!probeVars PROVE ProbeSeen'
  OBVIOUS
<1>. USE DEF ProbeSeen
<1>1. ASSUME NEW p \in Probe!Monitored, Probe!Toggle(p) PROVE ProbeSeen'
  BY <1>1 DEF Probe!Toggle, Probe!Monitored, Probe!Looks
<1>2. ASSUME NEW c \in Callers, Probe!Ask(c) PROVE ProbeSeen'
  BY <1>2 DEF Probe!Ask, Probe!Probe, Probe!Monitored, Probe!Looks
<1>3. ASSUME NEW n \in Probe!Positions, Probe!Look(n) PROVE ProbeSeen'
  <2>1. n \in Nat /\ n >= 1 /\ n <= Len(Probe!Looks) /\ Len(Probe!Looks) \in Nat
    BY <1>3, ProbePlaces DEF Probe!Look, Places
  <2>2. DOMAIN Probe!Looks = 1 .. Len(Probe!Looks)
    BY HostServicesAssumption DEF Probe!Looks
  <2>3. Probe!Looks[n] \in Probe!Monitored
    BY <2>1, <2>2 DEF Probe!Monitored, Probe!Members
  <2>. QED  BY <1>3, <2>3 DEF Probe!Look, Probe!Monitored
<1>4. CASE Probe!IdentityAnswers
  BY <1>4 DEF Probe!IdentityAnswers, Probe!Monitored
<1>5. CASE Probe!Done
  BY <1>5 DEF Probe!Done, Probe!Monitored
<1>6. ASSUME NEW c \in Callers, Probe!Answer(c) \/ Probe!GiveUp(c) PROVE ProbeSeen'
  BY <1>6 DEF Probe!Answer, Probe!GiveUp, Probe!Monitored
<1>7. CASE UNCHANGED Probe!probeVars
  BY <1>7 DEF Probe!probeVars, Probe!Monitored
<1>. QED  BY <1>1, <1>2, <1>3, <1>4, <1>5, <1>6, <1>7 DEF Probe!Next

LEMMA ProbeTyped == Probe!Spec => []Probe!TypeOK
<1>1. Probe!Init => ProbeSeen
  BY DEF Probe!Init, ProbeSeen
<1>2. ProbeInv /\ ProbeSeen => Probe!TypeOK
  <2>1. \A n \in Places : OneAt(n) \in [Places -> Nat] /\ Nowhere \in [Places -> Nat]
    BY DEF OneAt, Nowhere
  <2>2. ThreadsFollowTheTask => threads \in [Places -> Nat]
    BY <2>1, ProbePlaces DEF ThreadsFollowTheTask
  <2>. QED  BY <2>2, ProbePlaces
            DEF ProbeInv, ProbeSeen, ThreadsFollowTheTask, ToldIsFresh, CallerState, Probe!TypeOK
<1>. QED  BY <1>1, <1>2, ProbeInit, ProbeStep, ProbeSees, PTL DEF Probe!Spec

-----------------------------------------------------------------------------
\* What an operator does to a directory, and what there is of the place.
InstallSeen ==
    /\ approved \in [Installers -> BOOLEAN] /\ extra \in [Installers -> BOOLEAN]
    /\ ready \in BOOLEAN /\ registered \subseteq Native!Names /\ halfDone \in BOOLEAN /\ edits \in 0 .. MaxEdits

LEMMA HalfDoneTyped ==
    ASSUME NEW i \in Installers, halfDone \in BOOLEAN,
           (\E pc \in Stage : Native!Goto(i, pc)) \/ UNCHANGED halfDone
    PROVE  halfDone' \in BOOLEAN
BY DEF Native!Goto

LEMMA RegisterSees ==
    ASSUME InstallInv, InstallSeen, NEW i \in Installers, Native!Register(i)
    PROVE  registered' \subseteq Native!Names /\ halfDone' \in BOOLEAN
<1>1. "report" \in Stage /\ "failed" \in Stage /\ halfDone \in BOOLEAN /\ registered \subseteq Native!Names
  BY DEF Stage, InstallSeen
<1>2. run[i].at <= Len(Parts) => Native!PartOf(i) \in Native!Names
  <2>1. run[i].at \in 1 .. Len(Parts) + 1 /\ Len(Parts) \in Nat
    BY PartFacts DEF InstallInv, InstallTyped, Installation
  <2>. QED  BY <2>1, PartFacts DEF Native!PartOf
<1>3. CASE Native!Create(i)
  BY <1>1, <1>2, <1>3, HalfDoneTyped DEF Native!Create, Native!Made
<1>4. CASE Native!Reload(i)
  BY <1>1, <1>4, HalfDoneTyped DEF Native!Reload
<1>5. CASE Native!Goto(i, "report") /\ UNCHANGED registered
  BY <1>1, <1>5, HalfDoneTyped
<1>. QED  BY <1>3, <1>4, <1>5 DEF Native!Register

LEMMA InstallSees == InstallInv /\ InstallSeen /\ [Native!Next]_Native!installVars => InstallSeen'
<1>. SUFFICES ASSUME InstallInv, InstallSeen, [Native!Next]_Native!installVars PROVE InstallSeen'
  OBVIOUS
<1>1. /\ approved \in [Installers -> BOOLEAN] /\ extra \in [Installers -> BOOLEAN]
      /\ ready \in BOOLEAN /\ registered \subseteq Native!Names /\ halfDone \in BOOLEAN /\ edits \in 0 .. MaxEdits
  BY DEF InstallSeen
<1>. DEFINE Stays == UNCHANGED <<approved, extra, ready, edits>>
<1>2. ASSUME NEW i \in Installers, Native!Edit(i) PROVE InstallSeen'
  <2>1. edits' \in 0 .. MaxEdits
    <3>1. MaxEdits \in Nat
      BY HostServicesAssumption
    <3>2. edits' = edits + 1 /\ edits < MaxEdits
      BY <1>2 DEF Native!Edit
    <3>. QED  BY <1>1, <3>1, <3>2
  <2>2. approved' \in [Installers -> BOOLEAN] /\ extra' \in [Installers -> BOOLEAN]
    BY <1>1, <1>2 DEF Native!Edit
  <2>3. ready' = ready /\ registered' = registered /\ halfDone' = halfDone
    BY <1>2 DEF Native!Edit, Native!place
  <2>. QED  BY <1>1, <2>1, <2>2, <2>3 DEF InstallSeen
<1>3. CASE Native!ChangeHost
  <2>1. ready' \in BOOLEAN /\ UNCHANGED <<approved, extra, edits, registered, halfDone>>
    BY <1>1, <1>3, Zenon DEF Native!ChangeHost, Native!place
  <2>. QED  BY <1>1, <2>1 DEF InstallSeen
<1>4. ASSUME NEW i \in Installers,
             \/ Native!Review(i) \/ Native!Check(i) \/ Native!Claim(i) \/ Native!Pin(i) \/ Native!Copy(i)
             \/ Native!Copied(i) \/ Native!Report(i) \/ Native!Fail(i) \/ Native!Retry(i)
      PROVE  InstallSeen'
  <2>1. Stays /\ registered' = registered
    BY <1>4 DEF Native!Review, Native!Check, Native!Claim, Native!Pin, Native!Copy, Native!Copied, Native!Report, Native!Fail,
                Native!Retry, Native!source, Native!place
  <2>2. (\E pc \in Stage : Native!Goto(i, pc)) \/ UNCHANGED halfDone
    <3>1. {"review", "check", "claim", "copy", "register", "done", "failed"} \subseteq Stage
      BY DEF Stage
    <3>. QED  BY <1>4, <3>1
              DEF Native!Review, Native!Check, Native!Claim, Native!Pin, Native!Copy, Native!Made, Native!Copied, Native!Report,
                  Native!Fail, Native!Retry
  <2>3. halfDone' \in BOOLEAN
    BY <1>1, <2>2, HalfDoneTyped
  <2>. QED  BY <1>1, <2>1, <2>3 DEF InstallSeen
<1>5. ASSUME NEW i \in Installers, Native!Register(i) PROVE InstallSeen'
  <2>1. Stays
    BY <1>5 DEF Native!Register, Native!source
  <2>2. registered' \subseteq Native!Names /\ halfDone' \in BOOLEAN
    BY <1>5, RegisterSees
  <2>. QED  BY <1>1, <2>1, <2>2 DEF InstallSeen
<1>6. CASE UNCHANGED Native!installVars
  BY <1>1, <1>6 DEF Native!installVars, InstallSeen
<1>. QED  BY <1>2, <1>3, <1>4, <1>5, <1>6 DEF Native!Next

LEMMA InstallersTyped == Native!Spec => []Native!TypeOK
<1>1. Native!Init => InstallSeen
  <2>. SUFFICES ASSUME Native!Init PROVE InstallSeen
    OBVIOUS
  <2>1. edits \in 0 .. MaxEdits
    BY HostServicesAssumption DEF Native!Init
  <2>2. /\ approved \in [Installers -> BOOLEAN] /\ extra \in [Installers -> BOOLEAN]
        /\ ready \in BOOLEAN /\ halfDone \in BOOLEAN
    BY DEF Native!Init
  <2>. QED  BY <2>1, <2>2 DEF Native!Init, InstallSeen
<1>2. InstallInv /\ InstallSeen => Native!TypeOK
  BY DEF InstallInv, InstallSeen, InstallTyped, PartRecord, Installation, Stage, Native!TypeOK
<1>. QED  BY <1>1, <1>2, InstallInit, InstallStep, InstallSees, PTL DEF Native!Spec
-----------------------------------------------------------------------------
(* Models, in their bounds: a call has no more vectors than batches, and    *)
(* one fewer until it keeps some.                                           *)

ToEmbed == {"resolve", "lock", "request", "pause", "recheck"}
OfVectors == {"resolve", "open", "recheck", "store"}
CallFits(r) ==
    /\ r.attempt \in 0 .. MaxRetries /\ r.batch \in 0 .. Batches
    /\ r.made \in Seq(Vector) /\ Len(r.made) <= r.batch
    /\ r.op \notin Embedding => r.batch = 0 /\ r.pc \notin OfVectors
    /\ r.op \in Embedding /\ r.pc \in ToEmbed /\ r.batch # 0 => Len(r.made) < r.batch
CallsFit == opened \subseteq Callers /\ \A c \in Callers : CallFits(call[c])
DigestsFit ==
    /\ admission \in BOOLEAN /\ loopback \in BOOLEAN /\ orphans \in 0 .. MaxOrphans
    /\ tag \in 0 .. MaxTag /\ collection \in 0 .. MaxTag /\ vectors \subseteq Vector
    /\ identity \in [Callers -> 0 .. MaxTag] /\ got \in [Callers -> 0 .. MaxTag]
ModelsFit == CallsFit /\ DigestsFit

LEMMA IdleFits == CallFits(Idle)
BY HostServicesAssumption DEF CallFits, Idle, Embedding, OfVectors

LEMMA OneFits ==
    ASSUME ModelsInv, CallsFit, NEW c \in Callers, NEW r, CallFits(r), call' = [call EXCEPT ![c] = r],
           opened' \subseteq Callers
    PROVE  CallsFit'
<1>1. call'[c] = r /\ \A d \in Callers : d # c => call'[d] = call[d]
  BY DEF ModelsInv, ModelsTyped
<1>2. \A d \in Callers : CallFits(call'[d])
  BY <1>1 DEF CallsFit
<1>3. \A d \in Callers : CallFits(call[d])'
  BY <1>2 DEF CallFits
<1>. QED  BY <1>3 DEF CallsFit

LEMMA PlaceFits ==
    ASSUME NEW old, IsCall(old), CallFits(old), NEW pc, NEW r, r = [old EXCEPT !.pc = pc],
           pc \in ToEmbed => old.op \notin Embedding \/ old.pc \in ToEmbed,
           pc \in OfVectors => old.op \in Embedding
    PROVE  CallFits(r)
<1>1. r = Called(old.op, pc, old.local, old.attempt, old.batch, old.made, old.given, old.cited)
  BY OneReplaced, Zenon
<1>2. r.op = old.op /\ r.pc = pc /\ r.attempt = old.attempt /\ r.batch = old.batch /\ r.made = old.made
  BY <1>1 DEF Called
<1>. QED  BY <1>2 DEF CallFits

\* A call goes to another place, and nothing else changes.
LEMMA GoesAndFits ==
    ASSUME ModelsInv, CallsFit, NEW c \in Callers, NEW pc, Goto(c, pc),
           pc \in ToEmbed => call[c].op \notin Embedding \/ call[c].pc \in ToEmbed,
           pc \in OfVectors => call[c].op \in Embedding,
           UNCHANGED opened
    PROVE  CallsFit'
<1>1. IsCall(call[c]) /\ CallFits(call[c]) /\ call = [d \in Callers |-> call[d]]
  BY DEF ModelsInv, ModelsTyped, CallsFit
<1>2. PICK r : r = [call[c] EXCEPT !.pc = pc] /\ call' = [call EXCEPT ![c] = r]
  BY <1>1 DEF Goto
<1>3. CallFits(r)
  BY <1>1, <1>2, PlaceFits
<1>4. opened' \subseteq Callers
  BY DEF CallsFit
<1>. QED  BY <1>2, <1>3, <1>4, OneFits

\* A call that begins.
LEMMA BegunFits ==
    ASSUME NEW op, NEW pc, NEW local, NEW n \in {0, 1}, NEW given,
           NEW r, r = Called(op, pc, local, 0, n, <<>>, given, <<>>),
           op \in Embedding \/ (n = 0 /\ pc \notin OfVectors)
    PROVE  CallFits(r)
<1>1. r.op = op /\ r.pc = pc /\ r.attempt = 0 /\ r.batch = n /\ r.made = <<>>
  BY DEF Called
<1>2. /\ 0 \in 0 .. MaxRetries /\ n \in 0 .. Batches /\ <<>> \in Seq(Vector) /\ Len(<<>>) = 0
      /\ n \in Nat /\ (n # 0 => 0 < n)
  BY HostServicesAssumption
<1>3. r.made \in Seq(Vector) /\ Len(r.made) = 0 /\ Len(r.made) <= r.batch /\ (r.batch # 0 => Len(r.made) < r.batch)
  <2>1. r.made \in Seq(Vector) /\ Len(r.made) = 0
    BY <1>1, <1>2, Zenon
  <2>2. r.batch = n
    BY <1>1
  <2>. QED  BY <1>2, <2>1, <2>2
<1>4. r.op \notin Embedding => r.batch = 0 /\ r.pc \notin OfVectors
  BY <1>1
<1>. QED  BY <1>1, <1>2, <1>3, <1>4, Zenon DEF CallFits

LEMMA AskFits ==
    ASSUME ModelsInv, CallsFit, NEW c \in Callers, Ask(c)
    PROVE  CallsFit'
<1>1. PICK e \in Evidence, local \in BOOLEAN, pc \in {"failed", "lock", "request"} :
         call' = [call EXCEPT ![c] = [Idle EXCEPT !.op = "answer", !.local = local, !.given = e, !.pc = pc]]
  BY Zenon DEF Ask, Entrance
<1>2. PICK r : r = [Idle EXCEPT !.op = "answer", !.local = local, !.given = e, !.pc = pc]
  OBVIOUS
<1>3. r = Called("answer", pc, local, 0, 0, <<>>, e, <<>>)
  BY <1>2 DEF Idle, Called
<1>4. CallFits(r)
  BY <1>3, BegunFits DEF OfVectors
<1>5. call' = [call EXCEPT ![c] = r]
  BY <1>1, <1>2, Zenon
<1>. QED  BY <1>4, <1>5, OneFits DEF CallsFit, Ask, stored

LEMMA RankFits ==
    ASSUME ModelsInv, CallsFit, NEW c \in Callers, Rank(c)
    PROVE  CallsFit'
<1>1. PICK pc \in {"done", "failed", "lock"} :
         call' = [call EXCEPT ![c] = [Idle EXCEPT !.op = "rerank", !.pc = pc]]
  BY DEF Rank
<1>2. PICK r : r = [Idle EXCEPT !.op = "rerank", !.pc = pc]
  OBVIOUS
<1>3. CallFits(r)
  BY <1>2, RankedCall, BegunFits DEF OfVectors
<1>4. call' = [call EXCEPT ![c] = r]
  BY <1>1, <1>2
<1>. QED  BY <1>3, <1>4, OneFits DEF CallsFit, Rank, stored

LEMMA EmbedFits ==
    ASSUME ModelsInv, CallsFit, NEW c \in Callers, Embed(c)
    PROVE  CallsFit'
<1>1. PICK op \in Embedding, n \in {0, 1} :
         call' = [call EXCEPT ![c] = [Idle EXCEPT !.op = op, !.local = loopback, !.batch = n, !.pc = "resolve"]]
  BY DEF Embed
<1>2. PICK r : r = [Idle EXCEPT !.op = op, !.local = loopback, !.batch = n, !.pc = "resolve"]
  OBVIOUS
<1>3. r = Called(op, "resolve", loopback, 0, n, <<>>, <<>>, <<>>)
  BY <1>2, EmbeddedCall, Zenon
<1>4. CallFits(r)
  <2>1. r.op \in Embedding /\ r.attempt = 0 /\ r.batch = n /\ r.made = <<>>
    BY <1>3 DEF Called
  <2>2. MaxRetries \in Nat /\ Batches \in Nat \ {0} /\ <<>> \in Seq(Vector) /\ Len(<<>>) = 0
    BY HostServicesAssumption
  <2>. QED  BY <2>1, <2>2 DEF CallFits
<1>5. call' = [call EXCEPT ![c] = r]
  BY <1>1, <1>2
<1>. QED  BY <1>4, <1>5, OneFits DEF CallsFit, Embed, stored

LEMMA RespondFits ==
    ASSUME ModelsInv, CallsFit, NEW c \in Callers, Respond(c)
    PROVE  CallsFit'
<1>1. /\ call[c].op = "answer" /\ UNCHANGED <<tag, collection, vectors, opened, identity>>
      /\ IsCall(call[c]) /\ CallFits(call[c]) /\ call = [d \in Callers |-> call[d]]
  BY DEF Respond, stored, ModelsInv, ModelsTyped, CallsFit
<1>2. ASSUME NEW reply, Receive(c, reply)
      PROVE  CallsFit'
  <2>. DEFINE cited == [n \in DOMAIN reply.aliases |-> Passage(c, reply.aliases[n])]
              old == call[c]
  <2>1. PICK r : /\ call' = [call EXCEPT ![c] = r]
                 /\ \/ r = [old EXCEPT !.pc = "done", !.cited = cited]
                    \/ r = [old EXCEPT !.pc = "failed"]
    BY <1>2 DEF Receive
  <2>2. IsCall(old) /\ CallFits(old)
    BY <1>1
  <2>. HIDE DEF cited, old
  <2>3. CallFits(r)
    <3>1. CASE r = [old EXCEPT !.pc = "done", !.cited = cited]
      <4>1. r = Called(old.op, "done", old.local, old.attempt, old.batch, old.made, old.given, cited)
        BY <2>2, <3>1, CitedReplaced, Zenon
      <4>2. r.op = old.op /\ r.pc = "done" /\ r.attempt = old.attempt /\ r.batch = old.batch /\ r.made = old.made
        BY <4>1 DEF Called
      <4>. QED  BY <2>2, <4>2 DEF CallFits, ToEmbed, OfVectors
    <3>2. CASE r = [old EXCEPT !.pc = "failed"]
      <4>1. "failed" \notin ToEmbed \cup OfVectors
        BY DEF ToEmbed, OfVectors
      <4>. QED  BY <2>2, <3>2, <4>1, PlaceFits
    <3>. QED  BY <2>1, <3>1, <3>2
  <2>. QED  BY <1>1, <2>1, <2>3, OneFits DEF CallsFit
<1>3. CASE Retry(c) /\ call[c].attempt < MaxRetries
  <2>. DEFINE old == call[c]
  <2>1. PICK r : call' = [call EXCEPT ![c] = r] /\ r = [old EXCEPT !.pc = "pause", !.attempt = old.attempt + 1]
    BY <1>1, <1>3 DEF Retry
  <2>2. IsCall(old) /\ CallFits(old) /\ old.op \notin Embedding /\ old.attempt < MaxRetries
    BY <1>1, <1>3 DEF Embedding
  <2>. HIDE DEF old
  <2>3. r = Called(old.op, "pause", old.local, old.attempt + 1, old.batch, old.made, old.given, old.cited)
    BY <2>1, <2>2, TwoReplaced, Zenon
  <2>4. r.op = old.op /\ r.pc = "pause" /\ r.attempt = old.attempt + 1 /\ r.batch = old.batch /\ r.made = old.made
    BY <2>3 DEF Called
  <2>5. CallFits(r)
    BY <2>2, <2>4, HostServicesAssumption DEF CallFits, OfVectors
  <2>. QED  BY <1>1, <2>1, <2>5, OneFits DEF CallsFit
<1>4. CASE Fail(c)
  <2>1. "failed" \notin ToEmbed \cup OfVectors
    BY DEF ToEmbed, OfVectors
  <2>. QED  BY <1>1, <1>4, <2>1, GoesAndFits DEF Fail
<1>. QED  BY <1>2, <1>3, <1>4 DEF Respond

LEMMA OpenFits ==
    ASSUME ModelsInv, CallsFit, NEW c \in Callers, Open(c)
    PROVE  CallsFit'
<1>. DEFINE old == call[c]
<1>1. UNCHANGED <<tag, vectors, identity>> /\ IsCall(old) /\ CallFits(old) /\ old.pc = "open"
  BY DEF Open, At, ModelsInv, ModelsTyped, CallsFit
<1>2. CASE Fail(c) /\ UNCHANGED <<collection, opened>>
  <2>1. "failed" \notin ToEmbed \cup OfVectors
    BY DEF ToEmbed, OfVectors
  <2>. QED  BY <1>1, <1>2, <2>1, GoesAndFits DEF Fail
<1>3. CASE /\ collection' = identity[c] /\ opened' = opened \cup {c}
           /\ call' = [call EXCEPT ![c].pc = "resolve", ![c].batch = 1]
  <2>1. PICK r : /\ r = [old EXCEPT !.pc = "resolve", !.batch = 1] /\ call' = [call EXCEPT ![c] = r]
    BY <1>3 DEF ModelsInv, ModelsTyped
  <2>2. old.op \in Embedding => old.batch = 0
    BY <1>1, CallIsThere DEF CallInv, MadeIsOfOne
  <2>3. opened' \subseteq Callers
    BY <1>3 DEF CallsFit
  <2>. HIDE DEF old
  <2>4. r = Called(old.op, "resolve", old.local, old.attempt, 1, old.made, old.given, old.cited)
    BY <1>1, <2>1, TwoReplaced, Zenon
  <2>5. r.op = old.op /\ r.attempt = old.attempt /\ r.batch = 1 /\ r.made = old.made
    BY <2>4 DEF Called
  <2>6. old.made \in Seq(Made) /\ old.batch \in Nat
    BY <1>1 DEF IsCall
  <2>7. CallFits(r)
    <3>1. old.batch = 0 /\ Batches \in Nat \ {0}
      BY <1>1, <2>2, HostServicesAssumption DEF CallFits, OfVectors
    <3>2. Len(old.made) = 0
      BY <1>1, <2>6, <3>1 DEF CallFits
    <3>3. old.op \in Embedding
      BY <1>1 DEF CallFits, OfVectors
    <3>. QED  BY <1>1, <2>5, <3>1, <3>2, <3>3 DEF CallFits
  <2>. QED  BY <2>1, <2>3, <2>7, OneFits
<1>. QED  BY <1>2, <1>3 DEF Open

LEMMA RecheckFits ==
    ASSUME ModelsInv, CallsFit, DigestsFit, NEW c \in Callers, Recheck(c)
    PROVE  CallsFit'
<1>. DEFINE old == call[c]
            pc == IF LastBatch(c) THEN "store" ELSE "resolve"
            n == IF LastBatch(c) THEN old.batch ELSE old.batch + 1
            made == Append(old.made, Batch(c))
<1>1. /\ UNCHANGED <<tag, collection, vectors, opened>> /\ IsCall(old) /\ CallFits(old) /\ old.pc = "recheck"
  BY DEF Recheck, At, stored, ModelsInv, ModelsTyped, CallsFit
<1>2. CASE Fail(c)
  <2>1. "failed" \notin ToEmbed \cup OfVectors
    BY DEF ToEmbed, OfVectors
  <2>. QED  BY <1>1, <1>2, <2>1, GoesAndFits DEF Fail
<1>3. CASE call' = [call EXCEPT ![c] = Kept(c)]
  <2>1. PICK r : r = [old EXCEPT !.pc = pc, !.batch = n, !.made = made] /\ call' = [call EXCEPT ![c] = r]
    BY <1>3 DEF Kept
  <2>2. old.op \in Embedding
    BY <1>1 DEF CallFits, OfVectors
  <2>3. old.batch # 0
    BY <1>1, <2>2, CallIsThere DEF CallInv, MadeIsOfOne
  <2>4. made \in Seq(Vector) /\ Len(made) = Len(old.made) + 1 /\ Len(old.made) \in Nat
    <3>1. got[c] \in 0 .. MaxTag /\ (moved[c] = 2) \in BOOLEAN
      BY DEF DigestsFit
    <3>2. Batch(c) \in Vector
      BY <3>1 DEF Batch, Vector
    <3>3. old.made \in Seq(Vector)
      BY <1>1 DEF CallFits
    <3>. QED  BY <3>2, <3>3, Appended
  <2>5. n \in 0 .. Batches /\ Len(made) <= n /\ (pc = "resolve" => Len(made) < n) /\ pc \in {"store", "resolve"}
    <3>1. Batches \in Nat /\ old.batch \in 0 .. Batches /\ Len(old.made) < old.batch
      BY <1>1, <2>2, <2>3, HostServicesAssumption DEF CallFits, ToEmbed
    <3>2. ~LastBatch(c) => old.batch # Batches
      BY DEF LastBatch
    <3>. QED  BY <2>4, <3>1, <3>2
  <2>. HIDE DEF old, pc, n, made
  <2>6. r = Called(old.op, pc, old.local, old.attempt, n, made, old.given, old.cited)
    BY <1>1, <2>1, ThreeReplaced, Zenon
  <2>7. r.op = old.op /\ r.pc = pc /\ r.attempt = old.attempt /\ r.batch = n /\ r.made = made
    BY <2>6 DEF Called
  <2>8. CallFits(r)
    BY <1>1, <2>2, <2>4, <2>5, <2>7 DEF CallFits, ToEmbed
  <2>. QED  BY <1>1, <2>1, <2>8, OneFits DEF CallsFit
<1>. QED  BY <1>2, <1>3 DEF Recheck, Validate

LEMMA OthersFit ==
    ASSUME ModelsInv, CallsFit, NEW c \in Callers,
           \/ Restart(c) \/ Return(c) \/ Again(c) \/ TakeLock(c) \/ Work(c) \/ Resolve(c) \/ Vectors(c) \/ Store(c)
    PROVE  CallsFit'
<1>. DEFINE old == call[c]
<1>1. CallsFit
  OBVIOUS
<1>2. CASE Restart(c) \/ Return(c)
  BY <1>2, IdleFits, OneFits DEF Restart, Return, stored, CallsFit
<1>. USE DEF ToEmbed, OfVectors
<1>3. CASE Again(c)
  BY <1>3, GoesAndFits DEF Again, stored, At
<1>4. CASE TakeLock(c)
  BY <1>4, GoesAndFits DEF TakeLock, stored, At, Fail
<1>5. CASE Work(c)
  <2>1. PICK pc \in {"done", "failed"} : Goto(c, pc)
    BY <1>5 DEF Work
  <2>. QED  BY <1>5, <2>1, GoesAndFits DEF Work, stored
<1>6. CASE Resolve(c)
  <2>1. old.op \in Embedding /\ old.pc = "resolve" /\ UNCHANGED opened
    BY <1>6 DEF Resolve, stored, At, CallsFit, CallFits
  <2>2. CASE Fail(c)
    BY <2>1, <2>2, GoesAndFits DEF Fail
  <2>3. ASSUME NEW pc \in {"open", "lock", "request"}, call' = [call EXCEPT ![c] = [old EXCEPT !.pc = pc]]
        PROVE  CallsFit'
    <3>1. Goto(c, pc)
      BY <2>3 DEF Goto, ModelsInv, ModelsTyped
    <3>. QED  BY <2>1, <3>1, GoesAndFits
  <2>4. Entrance(old.local) \in {"lock", "request"}
    BY DEF Entrance
  <2>5. \/ Fail(c)
        \/ call' = [call EXCEPT ![c] = [old EXCEPT !.pc = IF old.batch = 0 THEN "open" ELSE Entrance(old.local)]]
    BY <1>6 DEF Resolve, Validate
  <2>. QED  BY <2>2, <2>3, <2>4, <2>5
<1>7. CASE Store(c)
  BY <1>7, GoesAndFits DEF Store, Fail
<1>8. CASE Vectors(c)
  <2>1. (Goto(c, "recheck") \/ Fail(c)) /\ call[c].op \in Embedding /\ call[c].pc = "request" /\ UNCHANGED opened
    BY <1>8 DEF Vectors, At, stored
  <2>. QED  BY <2>1, GoesAndFits DEF Fail
<1>. QED  BY <1>2, <1>3, <1>4, <1>5, <1>6, <1>7, <1>8

LEMMA DigestsFitOn ==
    ASSUME ModelsInv, ModelsFit, [Next]_inferenceVars
    PROVE  DigestsFit'
<1>. USE DEF DigestsFit, ModelsFit, stored, looks, settings, Forget
<1>1. MaxTag \in Nat /\ MaxOrphans \in Nat
  BY HostServicesAssumption
<1>2. ASSUME orphans' \in 0 .. MaxOrphans, tag' \in 0 .. MaxTag, collection' \in 0 .. MaxTag, vectors' \subseteq Vector,
             identity' \in [Callers -> 0 .. MaxTag], got' \in [Callers -> 0 .. MaxTag], UNCHANGED settings
      PROVE  DigestsFit'
  BY <1>2
<1>3. CASE UNCHANGED inferenceVars \/ Retag
  BY <1>1, <1>2, <1>3 DEF inferenceVars, Retag
<1>4. CASE OrphanEnds
  BY <1>1, <1>2, <1>4 DEF OrphanEnds
<1>5. ASSUME NEW c \in Callers, Restart(c) \/ Return(c)
      PROVE  DigestsFit'
  <2>1. /\ orphans' = orphans \/ (orphans < MaxOrphans /\ orphans' = orphans + 1)
        /\ identity' = identity \/ identity' = [identity EXCEPT ![c] = 0]
        /\ got' = [got EXCEPT ![c] = 0] /\ UNCHANGED <<settings, tag, collection, vectors>>
    BY <1>5 DEF Restart, Return
  <2>. QED  BY <1>1, <1>2, <2>1
<1>6. ASSUME NEW c \in Callers, Ask(c) \/ Respond(c) \/ Again(c) \/ TakeLock(c) \/ Rank(c) \/ Work(c) \/ Embed(c)
      PROVE  DigestsFit'
  <2>1. UNCHANGED <<settings, tag, collection, vectors, identity, got, orphans>>
    BY <1>6 DEF Ask, Respond, Again, TakeLock, Rank, Work, Embed
  <2>. QED  BY <1>2, <2>1
<1>7. ASSUME NEW c \in Callers, Resolve(c) \/ Recheck(c)
      PROVE  DigestsFit'
  <2>1. /\ identity' = identity \/ identity' = [identity EXCEPT ![c] = tag]
        /\ UNCHANGED <<settings, tag, collection, vectors, got, orphans>>
    BY <1>7 DEF Resolve, Recheck, Validate
  <2>. QED  BY <1>2, <2>1
<1>8. ASSUME NEW c \in Callers, Open(c)
      PROVE  DigestsFit'
  <2>1. /\ collection' \in {collection, identity[c]}
        /\ UNCHANGED <<settings, tag, vectors, identity, got, orphans>>
    BY <1>8 DEF Open
  <2>. QED  BY <1>2, <2>1
<1>9. ASSUME NEW c \in Callers, Vectors(c)
      PROVE  DigestsFit'
  <2>1. /\ got' = got \/ got' = [got EXCEPT ![c] = tag]
        /\ UNCHANGED <<settings, tag, collection, vectors, identity, orphans>>
    BY <1>9 DEF Vectors
  <2>. QED  BY <1>2, <2>1
<1>10. ASSUME NEW c \in Callers, Store(c)
       PROVE  DigestsFit'
  <2>1. /\ vectors' \in {vectors, vectors \cup ToSet(call[c].made)}
        /\ UNCHANGED <<settings, tag, collection, identity, got, orphans>>
    BY <1>10 DEF Store
  <2>2. call[c].made \in Seq(Vector)
    BY DEF CallsFit, CallFits
  <2>3. ToSet(call[c].made) \subseteq Vector
    BY <2>2 DEF ToSet
  <2>. QED  BY <1>2, <2>1, <2>3
<1>. QED  BY <1>3, <1>4, <1>5, <1>6, <1>7, <1>8, <1>9, <1>10 DEF Next

LEMMA ModelsFitOn == ModelsInv /\ ModelsFit /\ [Next]_inferenceVars => ModelsFit'
<1>. SUFFICES ASSUME ModelsInv, ModelsFit, [Next]_inferenceVars PROVE CallsFit' /\ DigestsFit'
  BY DEF ModelsFit
<1>1. CallsFit /\ DigestsFit
  BY DEF ModelsFit
<1>2. CASE Retag \/ OrphanEnds \/ UNCHANGED inferenceVars
  <2>1. UNCHANGED <<opened, call>>
    BY <1>2 DEF Retag, OrphanEnds, inferenceVars, stored
  <2>2. CallsFit'
    BY <1>1, <2>1 DEF CallsFit, CallFits
  <2>. QED  BY <2>2, DigestsFitOn
<1>3. ASSUME NEW c \in Callers, Restart(c) \/ Return(c) \/ Again(c) \/ TakeLock(c) \/ Work(c) \/ Resolve(c)
                                \/ Vectors(c) \/ Store(c)
      PROVE  CallsFit'
  BY <1>1, <1>3, OthersFit
<1>. QED  BY <1>1, <1>2, <1>3, DigestsFitOn, AskFits, RankFits, EmbedFits, RespondFits, OpenFits, RecheckFits DEF Next

LEMMA ModelsFitTypes == ModelsInv /\ ModelsFit => TypeOK
<1>. SUFFICES ASSUME ModelsInv, ModelsFit PROVE TypeOK
  OBVIOUS
<1>1. CallsFit /\ DigestsFit
  BY DEF ModelsFit
<1>4. ASSUME NEW c \in Callers
      PROVE  /\ call[c].op \in {"none", "answer", "index", "search", "rerank"}
             /\ call[c].pc \in {"idle", "done", "failed"} \cup Waits
             /\ call[c].attempt \in 0 .. MaxRetries
             /\ call[c].batch \in 0 .. Batches
             /\ Len(call[c].made) <= call[c].batch
  <2>1. IsCall(call[c]) /\ CallFits(call[c])
    BY <1>1 DEF ModelsInv, ModelsTyped, CallsFit
  <2>2. call[c].op \in {"none", "answer", "index", "search", "rerank"}
    BY <2>1 DEF IsCall, Operations
  <2>3. call[c].pc \in {"idle", "done", "failed"} \cup Waits
    BY <2>1 DEF IsCall, Waiting, Waits
  <2>. QED  BY <2>1, <2>2, <2>3 DEF CallFits
<1>5. holder \in Callers \cup {Nobody} /\ moved \in [Callers -> 0 .. 2] /\ opened \subseteq Callers
  BY <1>1 DEF ModelsInv, ModelsTyped, CallsFit
<1>. QED  BY <1>1, <1>4, <1>5 DEF TypeOK, DigestsFit

LEMMA ModelsTypedWell == Spec => []TypeOK
<1>1. Init => ModelsFit
  <2>. SUFFICES ASSUME Init PROVE CallsFit /\ DigestsFit
    BY DEF ModelsFit
  <2>1. CallsFit
    BY IdleFits DEF Init, CallsFit
  <2>2. MaxTag \in Nat \ {0} /\ MaxOrphans \in Nat
    BY HostServicesAssumption
  <2>3. DigestsFit
    BY <2>2 DEF Init, DigestsFit
  <2>. QED  BY <2>1, <2>3
<1>2. ModelsInv /\ ModelsFit /\ [Next]_inferenceVars => (ModelsInv /\ ModelsFit)'
  BY ModelsStep, ModelsFitOn
<1>. QED  BY <1>1, <1>2, ModelsInit, ModelsFitTypes, PTL DEF Spec

(* Stores keep what there is to keep, and a search asks for no more than    *)
(* the most.                                                                *)
StoresFit ==
    /\ nodes.documents \subseteq Stores!Documents /\ hidden \subseteq Stores!Chunks
    /\ search.pc \in {"none", "scanning", "found"} /\ search.limit \in 0 .. MaxLimit /\ disturbed \in BOOLEAN

LEMMA StoresFitOn == SearchInv /\ StoresFit /\ [Stores!Next]_Stores!storesVars => StoresFit'
<1>. SUFFICES ASSUME SearchInv, StoresFit, [Stores!Next]_Stores!storesVars PROVE StoresFit'
  OBVIOUS
<1>. USE DEF StoresFit
<1>1. ASSUME UNCHANGED <<nodes, hidden, search, disturbed>>
      PROVE  StoresFit'
  BY <1>1
<1>2. ASSUME NEW v \in Stores!Versions, Stores!Upsert(v)
      PROVE  StoresFit'
  <2>1. nodes'.documents \subseteq Stores!Documents
    BY <1>2, HostServicesAssumption DEF Stores!Upsert, Stores!GraphUpsert
  <2>2. hidden' \subseteq Stores!Chunks /\ UNCHANGED <<search, disturbed>>
    BY <1>2, IdsOfVersions DEF Stores!Upsert, Stores!VectorUpsert
  <2>. QED  BY <2>1, <2>2
<1>3. ASSUME NEW d \in Stores!Documents, Stores!Delete(d)
      PROVE  StoresFit'
  <2>1. nodes'.documents \subseteq Stores!Documents /\ hidden' \subseteq Stores!Chunks /\ UNCHANGED search
    BY <1>3 DEF Stores!Delete, Stores!GraphDelete, Stores!VectorDelete
  <2>2. disturbed' \in BOOLEAN
    BY <1>3, Zenon DEF Stores!Delete, Stores!VectorDelete
  <2>. QED  BY <2>1, <2>2
<1>4. ASSUME NEW limit \in 1 .. MaxLimit, Stores!Query(limit)
      PROVE  StoresFit'
  <2>. DEFINE hits == Stores!Nearest(limit, {c \in rows : Home[c] \in live /\ c \notin hidden})
              short == Stores!Cardinality(hits) < limit
              shown == [Stores!Quiet EXCEPT !.wanted = live, !.limit = limit,
                           !.pc = IF live # {} /\ short THEN "scanning" ELSE "found",
                           !.hits = IF short THEN {} ELSE hits]
  <2>1. search' = shown /\ disturbed' = FALSE /\ UNCHANGED <<nodes, hidden>>
    BY <1>4 DEF Stores!Query
  <2>2. shown.pc \in {"scanning", "found"} /\ shown.limit = limit
    BY DEF Stores!Quiet
  <2>. HIDE DEF shown
  <2>3. MaxLimit \in Nat
    BY HostServicesAssumption
  <2>4. limit \in 0 .. MaxLimit
    BY <2>3
  <2>5. search'.pc \in {"scanning", "found"} /\ search'.limit \in 0 .. MaxLimit
    BY <2>1, <2>2, <2>4
  <2>6. disturbed' \in BOOLEAN
    BY <2>1, Zenon
  <2>. QED  BY <2>1, <2>5, <2>6
<1>5. CASE Stores!ScanPage
  <2>. DEFINE pc == IF Stores!LastPage(Stores!Page) THEN "found" ELSE "scanning"
  <2>1. search'.pc = pc /\ search'.limit = search.limit /\ UNCHANGED <<nodes, hidden, disturbed>>
    BY <1>5 DEF Stores!ScanPage, SearchInv, SearchTyped
  <2>. QED  BY <2>1
<1>6. CASE Stores!Flush
  BY <1>6 DEF Stores!Flush
<1>7. ASSUME NEW v \in Stores!Versions, Stores!Activate(v)
      PROVE  StoresFit'
  BY <1>7, <1>1 DEF Stores!Activate
<1>8. ASSUME NEW d \in Stores!Documents, Stores!Tombstone(d)
      PROVE  StoresFit'
  BY <1>8, <1>1 DEF Stores!Tombstone
<1>9. CASE UNCHANGED Stores!storesVars
  BY <1>1, <1>9 DEF Stores!storesVars
<1>. QED  BY <1>2, <1>3, <1>4, <1>5, <1>6, <1>7, <1>8, <1>9 DEF Stores!Next

LEMMA StoresTypedWell == Stores!Spec => []Stores!TypeOK
<1>1. Stores!Init => StoresFit
  <2>. SUFFICES ASSUME Stores!Init PROVE StoresFit
    OBVIOUS
  <2>1. nodes.documents = {} /\ hidden = {} /\ search.pc = "none" /\ search.limit = 0 /\ disturbed = FALSE
    BY DEF Stores!Init, Stores!Quiet
  <2>2. MaxLimit \in Nat
    BY HostServicesAssumption
  <2>3. 0 \in 0 .. MaxLimit
    BY <2>2
  <2>4. disturbed \in BOOLEAN
    BY <2>1, Zenon
  <2>. QED  BY <2>1, <2>3, <2>4 DEF StoresFit
<1>2. GraphInv /\ SearchInv /\ StoresFit /\ [Stores!Next]_Stores!storesVars => (GraphInv /\ SearchInv /\ StoresFit)'
  BY GraphStep, SearchStep, StoresFitOn
<1>3. GraphInv /\ SearchInv /\ StoresFit => Stores!TypeOK
  <2>. SUFFICES ASSUME GraphInv, SearchInv, StoresFit PROVE Stores!TypeOK
    OBVIOUS
  <2>1. /\ nodes.documents \subseteq Stores!Documents /\ nodes.versions \subseteq Stores!Versions
        /\ nodes.chunks \subseteq Stores!Chunks
    BY DEF GraphInv, NodesTyped, StoresFit
  <2>2. memory.documents = nodes.documents /\ memory.chunks = nodes.chunks
    BY DEF GraphInv, StoresHoldAlike
  <2>3. edges \subseteq nodes.chunks \X nodes.documents
    BY DEF GraphInv, Stores!EdgesFollowNames
  <2>4. rows = nodes.chunks /\ live \subseteq nodes.versions /\ older \subseteq rows \X rows
    BY DEF SearchInv, VectorsAreOfChunks, RowsAreOrdered
  <2>5. search.hits \subseteq Stores!Chunks
    BY DEF SearchInv, SearchTyped
  <2>6. hidden \subseteq Stores!Chunks /\ search.pc \in {"none", "scanning", "found"}
        /\ search.limit \in 0 .. MaxLimit /\ disturbed \in BOOLEAN
    BY DEF StoresFit
  <2>. QED  BY <2>1, <2>2, <2>3, <2>4, <2>5, <2>6 DEF Stores!TypeOK
<1>. QED  BY <1>1, <1>2, <1>3, GraphInit, SearchInit, PTL DEF Stores!Spec

(* What retrieval has chosen, found and collected are passages there are.   *)
HybridFits ==
    /\ indexing \in Indexings /\ active \in [Hybrid!Docs -> 0 .. MaxVersion]
    /\ step \in {"idle", "heads", "chosen", "linked", "done", "empty", "failed"}
    /\ heads \subseteq Hybrid!Docs \X (1 .. MaxVersion)
    /\ chosen \in Seq(Passages) /\ linked \in Seq(Passages) /\ evidence \in Seq(Passages)
    /\ scores \in Scores

LEMMA CollectTyped ==
    ASSUME chosen \in Seq(Passages), linked \in Seq(Passages), scores \in Scores
    PROVE  Hybrid!Collect \in Seq(Passages)
<1>. DEFINE own == [n \in DOMAIN chosen |-> <<chosen[n], TRUE>>]
            more == Hybrid!Judged(linked, scores)
<1>1. own \in Seq(Items)
  <2>1. own = [n \in 1 .. Len(chosen) |-> <<chosen[n], TRUE>>] /\ Len(chosen) \in Nat
    OBVIOUS
  <2>2. \A n \in 1 .. Len(chosen) : <<chosen[n], TRUE>> \in Items
    <3>1. \A n \in 1 .. Len(chosen) : chosen[n] \in Passages /\ TRUE \in BOOLEAN
      OBVIOUS
    <3>. QED  BY <3>1, Zenon DEF Items
  <2>3. \A f : f \in [1 .. Len(chosen) -> Items] => f \in Seq(Items)
    BY <2>1
  <2>. HIDE DEF own
  <2>4. own \in [1 .. Len(chosen) -> Items]
    BY <2>1, <2>2, Zenon
  <2>. QED  BY <2>3, <2>4
<1>2. more \in Seq(Items)
  BY JudgedIs
<1>3. Hybrid!Collect = Hybrid!Take(Hybrid!Merged(own, more), 3, MaxEvidence)
  BY DEF Hybrid!Collect
<1>. HIDE DEF own, more
<1>4. Hybrid!Merged(own, more) \in Seq(Items)
  BY <1>1, <1>2, MergedIs
<1>5. Hybrid!Take(Hybrid!Merged(own, more), 3, MaxEvidence) \in Taken(3, MaxEvidence)
  BY <1>4, TakenFits, HostServicesAssumption
<1>. QED  BY <1>3, <1>5 DEF Taken

LEMMA HybridFitsOn == HybridFits /\ [Hybrid!Next]_Hybrid!hybridVars => HybridFits'
<1>. SUFFICES ASSUME HybridFits, [Hybrid!Next]_Hybrid!hybridVars PROVE HybridFits'
  OBVIOUS
<1>. USE DEF HybridFits, Hybrid!found
<1>1. CASE UNCHANGED Hybrid!hybridVars
  BY <1>1 DEF Hybrid!hybridVars
<1>2. CASE Hybrid!Fail
  BY <1>2 DEF Hybrid!Fail
<1>3. ASSUME NEW d \in Hybrid!Docs, Hybrid!Replace(d)
      PROVE  HybridFits'
  <2>1. active[d] \in 0 .. MaxVersion /\ MaxVersion \in Nat /\ active[d] # MaxVersion
    BY <1>3, HostServicesAssumption DEF Hybrid!Replace
  <2>2. PICK next \in {0, active[d] + 1} : active' = [active EXCEPT ![d] = next]
    BY <1>3 DEF Hybrid!Replace
  <2>3. next \in 0 .. MaxVersion
    BY <2>1, <2>2
  <2>. QED  BY <1>3, <2>2, <2>3 DEF Hybrid!Replace
<1>4. ASSUME NEW scope \in SUBSET Hybrid!Docs, Hybrid!Retrieve(scope)
      PROVE  HybridFits'
  <2>1. Hybrid!Current \subseteq Hybrid!Docs \X (1 .. MaxVersion)
    <3>1. \A d \in Hybrid!Docs : active[d] # 0 => active[d] \in 1 .. MaxVersion
      BY HostServicesAssumption
    <3>. QED  BY <3>1 DEF Hybrid!Current
  <2>2. heads' \subseteq Hybrid!Current
    BY <1>4 DEF Hybrid!Retrieve, Hybrid!Heads
  <2>3. step' \in {"failed", "empty", "heads"}
    BY <1>4 DEF Hybrid!Retrieve
  <2>. QED  BY <1>4, <2>1, <2>2, <2>3 DEF Hybrid!Retrieve
<1>5. CASE Hybrid!Seed /\ ~Hybrid!Fail
  <2>1. PICK lexical, dense \in Rankings, score \in Scores :
           LET pool == Hybrid!Found(heads, lexical, dense)
           IN /\ chosen' = Hybrid!Take(Hybrid!Judged(Hybrid!ByScore(pool, score), score), 2, SeedLimit)
              /\ step' = IF chosen' = <<>> THEN "empty" ELSE "chosen"
              /\ UNCHANGED <<indexing, active, heads, linked, scores, evidence>>
    BY <1>5 DEF Hybrid!Seed
  <2>. DEFINE list == Hybrid!ByScore(Hybrid!Found(heads, lexical, dense), score)
  <2>2. Hybrid!Judged(list, score) \in Seq(Items)
    BY FoundIs, ByScoreIs, JudgedIs
  <2>3. Hybrid!Take(Hybrid!Judged(list, score), 2, SeedLimit) \in Taken(2, SeedLimit)
    BY <2>2, TakenFits, HostServicesAssumption
  <2>4. chosen' \in Seq(Passages) /\ step' \in {"empty", "chosen"}
    BY <2>1, <2>3 DEF Taken
  <2>. QED  BY <2>1, <2>4
<1>6. CASE Hybrid!Link /\ ~Hybrid!Fail
  <2>1. PICK lexical, dense \in Rankings, score \in Scores :
           /\ linked' = Hybrid!ByScore(Hybrid!Found(Hybrid!TargetHeads, lexical, dense), score)
           /\ scores' = score /\ step' = "linked"
           /\ UNCHANGED <<indexing, active, heads, chosen, evidence>>
    BY <1>6 DEF Hybrid!Link
  <2>2. linked' \in Seq(Passages)
    BY <2>1, FoundIs, ByScoreIs
  <2>. QED  BY <2>1, <2>2
<1>7. CASE Hybrid!Assemble /\ ~Hybrid!Fail
  BY <1>7, CollectTyped DEF Hybrid!Assemble
<1>. QED  BY <1>1, <1>2, <1>3, <1>4, <1>5, <1>6, <1>7 DEF Hybrid!Next

LEMMA HybridTypedWell == Hybrid!Spec => []Hybrid!TypeOK
<1>1. Hybrid!Init => HybridFits
  <2>. SUFFICES ASSUME Hybrid!Init PROVE HybridFits
    OBVIOUS
  <2>1. scores \in Scores
    <3>1. PICK s \in Scores : TRUE
      BY HostServicesAssumption
    <3>2. (CHOOSE r \in Scores : TRUE) \in Scores
      BY <3>1, Zenon
    <3>. QED  BY <3>2, Zenon DEF Hybrid!Init
  <2>2. MaxVersion \in Nat \ {0}
    BY HostServicesAssumption
  <2>3. 1 \in 0 .. MaxVersion
    BY <2>2
  <2>4. active \in [Hybrid!Docs -> 0 .. MaxVersion]
    BY <2>3 DEF Hybrid!Init
  <2>. QED  BY <2>1, <2>4 DEF Hybrid!Init, HybridFits
<1>2. HybridFits => Hybrid!TypeOK
  <2>. SUFFICES ASSUME HybridFits PROVE Hybrid!TypeOK
    OBVIOUS
  <2>1. \A s \in Seq(Passages) : Hybrid!ToSet(s) \subseteq DOMAIN Units
    BY DEF Hybrid!ToSet, Passages
  <2>. QED  BY <2>1 DEF HybridFits, Hybrid!TypeOK
<1>. QED  BY <1>1, <1>2, HybridFitsOn, PTL DEF Hybrid!Spec
=============================================================================
