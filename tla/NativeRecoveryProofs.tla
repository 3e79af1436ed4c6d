------------------------ MODULE NativeRecoveryProofs ------------------------
(***************************************************************************)
(* For any services, operators, roots and bounds: a service that stopped   *)
(* cleanly has no process left, a reported snapshot is one moment, half-   *)
(* restored state is not served, and a half-switched release is frozen.    *)
(***************************************************************************)
EXTENDS NativeRecovery, TLAPS

ProxyStates == [state : {"running", "stopping", "stopped"}, disabled : BOOLEAN]

LEMMA ProxyState ==
    ASSUME NEW state \in {"running", "stopping", "stopped"}, NEW disabled \in BOOLEAN
    PROVE  /\ [state |-> state, disabled |-> disabled] \in ProxyStates
           /\ \A p \in ProxyStates : [p EXCEPT !.state = state] \in ProxyStates
BY DEF ProxyStates

USE RecoveryAssumption DEF Releases, Hosted, Content

-----------------------------------------------------------------------------
(* The inductive invariant, in the parts each step can disturb.            *)

Opening == {"update", "rollback"}
Switching == {"updating", "rollingBack"}
OverRoots == {"inventory", "copy", "compare", "seal", "stage", "replace"}
Places == {"idle", "stop"} \cup OverRoots \cup Opening \cup Switching
Seen == UNION {[S -> Content] : S \in SUBSET Roots}
Entry == [at : Places, todo : SUBSET (Roles \cup Roots), seen : Seen]

Todo(o) == command[o].todo

CommandOK ==
    /\ command \in [Operators -> Entry]
    /\ \A o \in Operators :
          /\ At(o, "idle") => command[o] = Idle
          /\ command[o].at \in OverRoots => Todo(o) \subseteq Roots
          /\ command[o].at \in Opening \cup Switching => Todo(o) \subseteq UpdateRoles

\* A service that has ended, however it did, has no process left, and one
\* that ended well had none when its host ended.
EndedIsEmpty ==
    \A r \in Roles : /\ service[r] \in {"stopped", "failed"} => alive[r] = {}
                     /\ service[r] = "stopped" => ~killed[r]

\* Until a snapshot is reported nothing has been restored: the content of a
\* root only grows.
DataGrows ==
    manifest = None =>
        /\ \A o \in Operators : command[o].at \notin {"seal", "stage", "replace"}
        /\ \A r \in Roots : data[r] \in 0 .. writes

\* One backup at most is past the creation of the snapshot.
OneBackup ==
    /\ snapshot = None => manifest = None
    /\ \A o \in Operators : command[o].at \in {"copy", "compare"} =>
          /\ snapshot # None /\ manifest = None
          /\ \A p \in Operators : command[p].at \in {"copy", "compare"} => p = o

\* What the backup in hand has noted and copied.
Inventoried(o) ==
    At(o, "inventory") =>
        /\ command[o].seen \in [Roots \ Todo(o) -> Content]
        /\ manifest = None => \A r \in Roots \ Todo(o) : command[o].seen[r] <= data[r]

Copied(o) ==
    At(o, "copy") =>
        /\ command[o].seen \in [Roots -> Content]
        /\ \A r \in Roots : command[o].seen[r] <= data[r]
        /\ \A r \in Roots \ Todo(o) : snapshot[r] = command[o].seen[r]

Compared(o) ==
    At(o, "compare") =>
        /\ command[o].seen \in [Roots -> Content]
        /\ snapshot = command[o].seen
        /\ moment \in [Roots -> Content]
        /\ \A r \in Roots : command[o].seen[r] <= moment[r] /\ moment[r] <= data[r]
        /\ \A r \in Roots \ Todo(o) : moment[r] = command[o].seen[r]

BackupProgress == \A o \in Operators : Inventoried(o) /\ Copied(o) /\ Compared(o)

\* One restore at most is past the seal, and the seal stays until it is
\* reported.
OneRestore ==
    /\ \A o \in Operators : command[o].at \in {"seal", "stage", "replace"} => manifest # None
    /\ \A o \in Operators : command[o].at \in {"stage", "replace"} =>
          /\ seal /\ ~restored
          /\ \A p \in Operators : command[p].at \in {"stage", "replace"} => p = o
    /\ restored => /\ seal
                   /\ \A r \in Roots : retained[r] # None /\ data[r] # None

RootsArePresent ==
    /\ \A r \in Roots : data[r] = None => retained[r] # None
    /\ \A o \in Operators : At(o, "stage") =>
          \A r \in Roots \ Todo(o) : stage[r] \in Content
    /\ \A o \in Operators : At(o, "replace") =>
          /\ \A r \in Todo(o) : stage[r] \in Content
          /\ \A r \in Roots \ Todo(o) : retained[r] # None /\ data[r] # None

\* While roots are being replaced, and after a restore that died among them,
\* the sealed roles and the proxy are down and stay down.
Down == /\ proxy.state = "stopped"
        /\ \A r \in SealedRoles : service[r] \in {"stopped", "failed"}

MixedIsSealed ==
    (Mixed \/ \E o \in Operators : At(o, "replace")) => seal /\ ~restored /\ Down

\* The .pending files that are an update's own: those it created and has not
\* renamed yet.
Own(o) == IF command[o].at \in Opening THEN UpdateRoles \ Todo(o)
          ELSE IF command[o].at \in Switching THEN Todo(o)
          ELSE {}

PendingIsOwned ==
    /\ \A o \in Operators : \A r \in Own(o) :
          /\ pending[r] \in {Partial, Target(o)}
          /\ command[o].at \in Switching => pending[r] = Target(o)
    /\ \A o, p \in Operators : o # p => Own(o) \cap Own(p) = {}

\* One command at most is renaming, and what it renamed names its release.
OneSwitch ==
    \A o \in Operators : command[o].at \in Switching /\ Todo(o) # {} =>
        /\ \A p \in Operators : command[p].at \in Switching /\ p # o => Todo(p) = {}
        /\ \A r \in UpdateRoles \ Todo(o) : live[r] = Target(o)

HalfUpdated == \E q, r \in UpdateRoles : live[q] # live[r]

\* What freezes a half update: a .pending file no command has created itself.
LeftOver(r) ==
    /\ pending[r] # None
    /\ \A o \in Operators : command[o].at \in Opening => r \in Todo(o)

HalfUpdateIsMarked == HalfUpdated => \E r \in UpdateRoles : LeftOver(r)

WritesAreCounted == writes \in 0 .. MaxWrites

Types == TypeOK /\ CommandOK /\ WritesAreCounted
Backups == DataGrows /\ OneBackup /\ BackupProgress /\ SnapshotIsOneMoment
Restores == OneRestore /\ RootsArePresent /\ MixedIsSealed
Updates == PendingIsOwned /\ OneSwitch /\ HalfUpdateIsMarked

Inv == Types /\ EndedIsEmpty /\ Backups /\ Restores /\ Updates

-----------------------------------------------------------------------------
(* What a step of a command does to the commands in hand.                  *)

LEMMA IdleEntry == Idle \in Entry /\ Idle.at = "idle"
<1>1. [r \in {} |-> None] \in [{} -> Content]
  OBVIOUS
<1>. QED  BY <1>1 DEF Idle, Entry, Seen, Places

LEMMA SeenKept ==
    ASSUME CommandOK, NEW o \in Operators
    PROVE  command[o] \in Entry
BY DEF CommandOK

LEMMA GotoEffect ==
    ASSUME CommandOK, NEW o \in Operators, NEW place \in Places \ {"idle"},
           NEW todo \in SUBSET (Roles \cup Roots), Goto(o, place, todo),
           place \in OverRoots => todo \subseteq Roots,
           place \in Opening \cup Switching => todo \subseteq UpdateRoles
    PROVE  /\ CommandOK'
           /\ command'[o].at = place /\ Todo(o)' = todo
           /\ command'[o].seen = command[o].seen
           /\ \A p \in Operators \ {o} : command'[p] = command[p]
<1>1. command[o] \in Entry
  BY SeenKept
<1>2. command'[o] = [command[o] EXCEPT !.at = place, !.todo = todo]
  BY DEF Goto, CommandOK
<1>3. /\ command'[o] \in Entry
      /\ command'[o].at = place /\ command'[o].todo = todo /\ command'[o].seen = command[o].seen
  BY <1>1, <1>2 DEF Entry
<1>4. \A p \in Operators \ {o} : command'[p] = command[p]
  BY DEF Goto, CommandOK
<1>5. command' \in [Operators -> Entry]
  BY <1>3, <1>4 DEF Goto, CommandOK
<1>. QED  BY <1>3, <1>4, <1>5 DEF CommandOK, Todo, At

\* The same, for a command that starts walking all the roots.
LEMMA GotoRoots ==
    ASSUME CommandOK, NEW o \in Operators, NEW place \in OverRoots, Goto(o, place, Roots)
    PROVE  /\ CommandOK'
           /\ command'[o].at = place /\ Todo(o)' = Roots
           /\ command'[o].seen = command[o].seen
           /\ \A p \in Operators \ {o} : command'[p] = command[p]
<1>1. place \in Places \ {"idle"} /\ place \notin Opening \cup Switching
  BY DEF Places, OverRoots, Opening, Switching
<1>2. Roots \in SUBSET (Roles \cup Roots)
  OBVIOUS
<1>. QED  BY <1>1, <1>2, GotoEffect

LEMMA EndEffect ==
    ASSUME CommandOK, NEW o \in Operators, End(o)
    PROVE  /\ CommandOK'
           /\ command'[o] = Idle /\ command'[o].at = "idle"
           /\ \A p \in Operators \ {o} : command'[p] = command[p]
<1>1. command'[o] = Idle /\ \A p \in Operators \ {o} : command'[p] = command[p]
  BY DEF End, CommandOK
<1>2. command' \in [Operators -> Entry]
  BY <1>1, IdleEntry DEF End, CommandOK
<1>. QED  BY <1>1, <1>2, IdleEntry DEF CommandOK, Todo, At, OverRoots, Opening, Switching

LEMMA InventoryEffect ==
    ASSUME TypeOK, CommandOK, NEW o \in Operators, NEW r \in Roots, Inventory(o, r), data[r] # None
    PROVE  /\ CommandOK'
           /\ command'[o].at = "inventory" /\ Todo(o)' = Todo(o) \ {r}
           /\ command'[o].seen = [q \in DOMAIN command[o].seen \cup {r} |->
                                     IF q = r THEN data[r] ELSE command[o].seen[q]]
           /\ \A p \in Operators \ {o} : command'[p] = command[p]
<1>. DEFINE seen == [q \in DOMAIN command[o].seen \cup {r} |->
                        IF q = r THEN data[r] ELSE command[o].seen[q]]
<1>1. command[o] \in Entry
  BY SeenKept
<1>2. command'[o] = [command[o] EXCEPT !.todo = @ \ {r}, !.seen = seen]
  BY DEF Inventory, CommandOK
<1>3. PICK S \in SUBSET Roots : command[o].seen \in [S -> Content]
  BY <1>1 DEF Entry, Seen
<1>4. data[r] \in Content
  BY DEF TypeOK
<1>5. seen \in [S \cup {r} -> Content]
  BY <1>3, <1>4
<1>6. seen \in Seen
  BY <1>5 DEF Seen
<1>7. /\ command'[o] \in Entry
      /\ command'[o].at = command[o].at /\ command'[o].todo = command[o].todo \ {r}
      /\ command'[o].seen = seen
  <2>. HIDE DEF seen
  <2>. QED  BY <1>1, <1>2, <1>6 DEF Entry
<1>8. \A p \in Operators \ {o} : command'[p] = command[p]
  BY DEF Inventory, CommandOK
<1>9. command' \in [Operators -> Entry]
  BY <1>7, <1>8 DEF Inventory, CommandOK
<1>10. command[o].at = "inventory" /\ command[o].todo \subseteq Roots
  BY DEF Inventory, CommandOK, At, Todo, OverRoots
<1>. QED  BY <1>7, <1>8, <1>9, <1>10 DEF CommandOK, Todo, At, OverRoots, Opening, Switching

-----------------------------------------------------------------------------
(* Steps that leave a part of the state alone keep its invariant.          *)

\* A step changes no command, or takes it to a place outside some set.
Outside(places) ==
    \A o \in Operators : command'[o] = command[o] \/ command'[o].at \notin places

\* At most the commands of one operator change, and outside some places.
LEMMA GoesOutside ==
    ASSUME NEW places, NEW o \in Operators,
           \A p \in Operators \ {o} : command'[p] = command[p],
           command'[o].at \notin places
    PROVE  Outside(places)
BY DEF Outside

LEMMA BackupsFrame ==
    ASSUME Inv, CommandOK', UNCHANGED <<snapshot, manifest, moment, writes>>,
           manifest = None => UNCHANGED data /\ Outside({"seal", "stage", "replace"}),
           Outside({"inventory", "copy", "compare"})
    PROVE  Backups'
<1>. USE DEF Inv, Backups, Outside, At, Todo
<1>1. DataGrows'
  BY DEF DataGrows
<1>2. OneBackup'
  BY DEF OneBackup
<1>3. BackupProgress'
  <2>1. SUFFICES ASSUME NEW o \in Operators
                 PROVE  Inventoried(o)' /\ Copied(o)' /\ Compared(o)'
    BY DEF BackupProgress
  <2>2. CASE command'[o].at \notin {"inventory", "copy", "compare"}
    BY <2>2 DEF Inventoried, Copied, Compared
  <2>3. CASE command'[o] = command[o]
    <3>1. Inventoried(o) /\ Copied(o) /\ Compared(o)
      BY DEF BackupProgress
    <3>2. Inventoried(o)'
      BY <2>3, <3>1 DEF Inventoried
    <3>3. Copied(o)' /\ Compared(o)'
      BY <2>3, <3>1 DEF Copied, Compared, OneBackup
    <3>. QED  BY <3>2, <3>3
  <2>. QED  BY <2>2, <2>3
<1>4. SnapshotIsOneMoment'
  BY DEF SnapshotIsOneMoment
<1>. QED  BY <1>1, <1>2, <1>3, <1>4

LEMMA RestoresFrame ==
    ASSUME Inv, UNCHANGED <<stage, retained, seal, restored>>,
           \A r \in Roots : data'[r] = None <=> data[r] = None,
           manifest # None => manifest' # None,
           seal /\ Down => Down',
           Outside({"seal", "stage", "replace"})
    PROVE  Restores'
<1>. USE DEF Inv, Restores, Outside, At, Todo
<1>1. OneRestore'
  BY DEF OneRestore
<1>2. RootsArePresent'
  BY DEF RootsArePresent
<1>3. MixedIsSealed'
  BY DEF MixedIsSealed, Mixed
<1>. QED  BY <1>1, <1>2, <1>3

LEMMA UpdatesFrame ==
    ASSUME Inv, UNCHANGED <<live, pending>>, Outside(Opening \cup Switching)
    PROVE  Updates'
<1>. USE DEF Inv, Updates, Outside, At, Todo, Opening, Switching
<1>1. \A o \in Operators : (Own(o)' = Own(o) /\ Target(o)' = Target(o)) \/ Own(o)' = {}
  BY DEF Own, Target
<1>2. PendingIsOwned'
  BY <1>1 DEF PendingIsOwned, Own
<1>3. OneSwitch'
  BY DEF OneSwitch, Target
<1>4. HalfUpdateIsMarked'
  BY DEF HalfUpdateIsMarked, HalfUpdated, LeftOver
<1>. QED  BY <1>2, <1>3, <1>4

-----------------------------------------------------------------------------
(* Initially.                                                              *)

LEMMA InvInit == Init => Inv
<1>. SUFFICES ASSUME Init PROVE Inv
  OBVIOUS
<1>. USE DEF Init
<1>1. Types
  <2>1. CommandOK
    BY IdleEntry DEF CommandOK, At, Todo, OverRoots, Opening, Switching
  <2>2. proxy \in [state : {"running", "stopping", "stopped"}, disabled : BOOLEAN]
    BY ProxyState DEF ProxyStates
  <2>3. 0 \in Content /\ \A o \in Operators : command[o].todo = {}
    BY DEF Idle
  <2>4. /\ service \in [Roles -> Hosted \cup {"stopped", "failed"}]
        /\ alive \in [Roles -> SUBSET {"child", "descendant"}]
    OBVIOUS
  <2>5. /\ data \in [Roots -> Content \cup {None}]
        /\ stage \in [Roots -> Content \cup {None, Partial}]
        /\ retained \in [Roots -> Content \cup {None}]
        /\ live \in [UpdateRoles -> Releases]
        /\ pending \in [UpdateRoles -> Releases \cup {None, Partial}]
    BY <2>3
  <2>. HIDE DEF Content, Hosted
  <2>6. TypeOK
    BY <2>2, <2>3, <2>4, <2>5 DEF TypeOK
  <2>. QED  BY <2>1, <2>3, <2>6 DEF Types, WritesAreCounted
<1>2. EndedIsEmpty
  BY DEF EndedIsEmpty
<1>3. Backups
  BY DEF Backups, DataGrows, OneBackup, BackupProgress, Inventoried, Copied, Compared,
       SnapshotIsOneMoment, At, Idle
<1>4. Restores
  BY DEF Restores, OneRestore, RootsArePresent, MixedIsSealed, Mixed, At, Idle
<1>5. Updates
  BY DEF Updates, PendingIsOwned, OneSwitch, HalfUpdateIsMarked, HalfUpdated, Own, At, Idle,
       Opening, Switching
<1>. QED  BY <1>1, <1>2, <1>3, <1>4, <1>5 DEF Inv

-----------------------------------------------------------------------------
(* Services and their hosts.                                               *)

LEMMA HostLeaves ==
    ASSUME NEW r \in Roles, Host(r)
    PROVE  UNCHANGED <<proxy, stage, retained, record, seal, restored, release, command>>
BY DEF Host, Start, Spawn, UnexpectedExit, SendInterrupt, Reap, Drained, ForcedStop, HostDies,
     Write, ProcessExits, HostEnds, SameHost, tree, record, release

\* What a host does with its service: an ended service stays without a
\* process, and a sealed role that is down stays down under the seal.
LEMMA HostEffect ==
    ASSUME TypeOK, EndedIsEmpty, NEW r \in Roles, Host(r)
    PROVE  /\ service' \in [Roles -> Hosted \cup {"stopped", "failed"}]
           /\ alive' \in [Roles -> SUBSET {"child", "descendant"}]
           /\ code' \in [Roles -> {0, 1, 130}]
           /\ loaded' \in [Roles -> Releases]
           /\ killed' \in [Roles -> BOOLEAN]
           /\ EndedIsEmpty'
           /\ \A q \in Roles : service[q] \in {"stopped", "failed"} =>
                 \/ service'[q] \in {"stopped", "failed"}
                 \/ q = r /\ ~(r \in SealedRoles /\ seal)
<1>. SUFFICES /\ service' \in [Roles -> Hosted \cup {"stopped", "failed"}]
              /\ alive' \in [Roles -> SUBSET {"child", "descendant"}]
              /\ code' \in [Roles -> {0, 1, 130}]
              /\ loaded' \in [Roles -> Releases]
              /\ killed' \in [Roles -> BOOLEAN]
              /\ \A q \in Roles : service'[q] \in {"stopped", "failed"} => alive'[q] = {}
              /\ \A q \in Roles : service'[q] = "stopped" => ~killed'[q]
              /\ \A q \in Roles : service[q] \in {"stopped", "failed"} =>
                    \/ service'[q] \in {"stopped", "failed"}
                    \/ q = r /\ ~(r \in SealedRoles /\ seal)
  BY DEF EndedIsEmpty
<1>0. /\ service \in [Roles -> Hosted \cup {"stopped", "failed"}]
      /\ alive \in [Roles -> SUBSET {"child", "descendant"}]
      /\ code \in [Roles -> {0, 1, 130}]
      /\ loaded \in [Roles -> Releases]
      /\ killed \in [Roles -> BOOLEAN]
      /\ live \in [UpdateRoles -> Releases]
      /\ \A q \in Roles : service[q] \in {"stopped", "failed"} => alive[q] = {}
      /\ \A q \in Roles : service[q] = "stopped" => ~killed[q]
  BY DEF TypeOK, EndedIsEmpty
<1>1. CASE Start(r)
  <2>1. CASE r \in SealedRoles /\ seal
    BY <1>0, <1>1, <2>1 DEF Start
  <2>2. CASE ~(r \in SealedRoles /\ seal)
    <3>1. /\ service' = [service EXCEPT ![r] = "running"]
          /\ alive' = [alive EXCEPT ![r] = {"child"}]
          /\ killed' = [killed EXCEPT ![r] = FALSE]
          /\ code' = code
          /\ loaded' = [loaded EXCEPT ![r] = IF r \in UpdateRoles THEN live[r] ELSE @]
      BY <1>1, <2>2 DEF Start
    <3>. QED  BY <1>0, <2>2, <3>1
  <2>. QED  BY <2>1, <2>2
<1>2. CASE Spawn(r)
  BY <1>0, <1>2 DEF Spawn
<1>3. CASE UnexpectedExit(r)
  BY <1>0, <1>3 DEF UnexpectedExit, HostEnds
<1>4. CASE SendInterrupt(r)
  BY <1>0, <1>4 DEF SendInterrupt
<1>5. CASE Reap(r)
  <2>1. CASE CleanExit(r)
    BY <1>0, <1>5, <2>1 DEF Reap
  <2>2. CASE ~CleanExit(r)
    <3>1. /\ service' = [service EXCEPT ![r] = "failed"]
          /\ alive' = [alive EXCEPT ![r] = {}]
          /\ killed' = [killed EXCEPT ![r] = alive[r] # {}]
          /\ UNCHANGED <<code, loaded>>
          /\ service[r] \in {"stopping", "interrupted"}
      BY <1>5, <2>2 DEF Reap, HostEnds
    <3>2. killed' \in [Roles -> BOOLEAN]
      BY <1>0, <3>1
    <3>. QED  BY <1>0, <3>1, <3>2
  <2>. QED  BY <2>1, <2>2
<1>6. CASE Drained(r)
  BY <1>0, <1>6 DEF Drained, HostEnds
<1>7. CASE ForcedStop(r)
  BY <1>0, <1>7 DEF ForcedStop, HostEnds
<1>8. CASE HostDies(r)
  BY <1>0, <1>8 DEF HostDies, HostEnds
<1>9. CASE \E root \in Roots : Write(r, root)
  BY <1>0, <1>9 DEF Write, hosting
<1>10. CASE \E p \in {"child", "descendant"}, c \in {0, 1, 130} : ProcessExits(r, p, c)
  BY <1>0, <1>10 DEF ProcessExits
<1>. QED  BY <1>1, <1>2, <1>3, <1>4, <1>5, <1>6, <1>7, <1>8, <1>9, <1>10 DEF Host

\* Data changes by a write only, which a live process makes.
LEMMA HostWrites ==
    ASSUME NEW r \in Roles, Host(r)
    PROVE  \/ UNCHANGED <<data, writes>>
           \/ \E root \in Roots : Write(r, root)
BY DEF Host, Start, Spawn, UnexpectedExit, SendInterrupt, Reap, Drained, ForcedStop, HostDies,
     ProcessExits, SameHost, tree, bounds

LEMMA HostStep ==
    ASSUME Inv, NEW r \in Roles, Host(r)
    PROVE  Inv'
<1>0. /\ TypeOK /\ CommandOK /\ WritesAreCounted /\ EndedIsEmpty
      /\ UNCHANGED <<proxy, stage, retained, snapshot, manifest, moment, seal, restored,
                     plan, live, pending, command>>
  BY HostLeaves DEF Inv, Types, record, release
<1>1. /\ Outside({"inventory", "copy", "compare"}) /\ Outside({"seal", "stage", "replace"})
      /\ Outside(Opening \cup Switching)
  BY <1>0 DEF Outside
<1>2. EndedIsEmpty'
  BY <1>0, HostEffect
<1>3. CommandOK'
  BY <1>0 DEF CommandOK, At, Todo
<1>4. seal /\ Down => Down'
  BY <1>0, HostEffect DEF Down
<1>5. Updates'
  BY <1>0, <1>1, UpdatesFrame
<1>6. CASE UNCHANGED <<data, writes>>
  <2>1. TypeOK'
    BY <1>0, <1>6, HostEffect DEF TypeOK
  <2>2. Backups'
    BY <1>0, <1>1, <1>3, <1>6, BackupsFrame
  <2>3. Restores'
    BY <1>0, <1>1, <1>4, <1>6, RestoresFrame
  <2>. QED  BY <1>0, <1>2, <1>3, <1>5, <1>6, <2>1, <2>2, <2>3 DEF Inv, Types, WritesAreCounted
<1>7. ASSUME NEW root \in Roots, Write(r, root) PROVE Inv'
  <2>0. /\ data \in [Roots -> Content \cup {None}] /\ data[root] # None
        /\ writes \in Nat /\ writes < MaxWrites /\ writes' = writes + 1
        /\ data' = [data EXCEPT ![root] = writes + 1]
    BY <1>0, <1>7 DEF Write, TypeOK, WritesAreCounted
  <2>1. /\ data' \in [Roots -> Content \cup {None}]
        /\ \A q \in Roots : data'[q] = None <=> data[q] = None
        /\ \A q \in Roots : data[q] \in 0 .. writes => data'[q] \in 0 .. writes' /\ data[q] <= data'[q]
        /\ WritesAreCounted'
    BY <2>0 DEF WritesAreCounted
  <2>2. UNCHANGED <<service, alive, code, loaded, killed>>
    BY <1>7 DEF Write, hosting
  <2>3. TypeOK'
    BY <1>0, <2>1, <2>2 DEF TypeOK
  <2>4. Restores'
    BY <1>0, <1>1, <1>4, <2>1, RestoresFrame
  <2>5. DataGrows' /\ OneBackup' /\ SnapshotIsOneMoment'
    BY <1>0, <2>1 DEF Inv, Backups, DataGrows, OneBackup, SnapshotIsOneMoment, At
  <2>6. BackupProgress'
    <3>1. SUFFICES ASSUME NEW o \in Operators
                   PROVE  Inventoried(o)' /\ Copied(o)' /\ Compared(o)'
      BY DEF BackupProgress
    <3>2. /\ Inventoried(o) /\ Copied(o) /\ Compared(o)
          /\ command[o].at \in {"copy", "compare"} => manifest = None
          /\ manifest = None => \A q \in Roots : data[q] \in 0 .. writes
      BY DEF Inv, Backups, BackupProgress, OneBackup, DataGrows
    <3>3. manifest = None => \A q \in Roots : /\ data[q] \in Nat /\ data'[q] \in Nat
                                              /\ data[q] <= data'[q]
      BY <2>0, <2>1, <3>2
    <3>4. Inventoried(o)'
      BY <1>0, <3>2, <3>3 DEF Inventoried, At, Todo
    <3>5. Copied(o)'
      BY <1>0, <3>2, <3>3 DEF Copied, At, Todo
    <3>6. Compared(o)'
      BY <1>0, <3>2, <3>3 DEF Compared, At, Todo
    <3>. QED  BY <3>4, <3>5, <3>6
  <2>. QED  BY <1>0, <1>2, <1>3, <1>5, <2>1, <2>3, <2>4, <2>5, <2>6 DEF Inv, Types, Backups
<1>. QED  BY <1>6, <1>7, HostWrites

-----------------------------------------------------------------------------
(* The proxy, the administrator and the file system.                       *)

LEMMA EnvironmentStep ==
    ASSUME Inv, ProxyStops \/ PrepareUpdate \/ Unseal \/ ReopenProxy \/ Damage
    PROVE  Inv'
<1>0. /\ TypeOK /\ CommandOK /\ WritesAreCounted /\ EndedIsEmpty
      /\ UNCHANGED <<service, alive, code, loaded, killed, data, stage, retained, manifest, moment,
                     live, pending, command, writes>>
  BY DEF Inv, Types, ProxyStops, PrepareUpdate, Unseal, ReopenProxy, Damage,
       hosting, tree, record, release, bounds
<1>1. /\ Outside({"inventory", "copy", "compare"}) /\ Outside({"seal", "stage", "replace"})
      /\ Outside(Opening \cup Switching)
  BY <1>0 DEF Outside
<1>2. CommandOK' /\ WritesAreCounted' /\ EndedIsEmpty'
  BY <1>0 DEF CommandOK, WritesAreCounted, EndedIsEmpty, At, Todo
<1>3. Updates'
  BY <1>0, <1>1, UpdatesFrame
<1>. USE DEF Inv, Types
<1>4. CASE ProxyStops
  <2>1. UNCHANGED <<snapshot, seal, restored, plan>> /\ proxy' = [proxy EXCEPT !.state = "stopped"]
    BY <1>4 DEF ProxyStops, record, release
  <2>2. proxy' \in ProxyStates /\ proxy'.state = "stopped"
    BY <1>0, <2>1, ProxyState DEF TypeOK, ProxyStates
  <2>3. TypeOK'
    BY <1>0, <2>1, <2>2 DEF TypeOK, ProxyStates
  <2>4. seal /\ Down => Down'
    BY <1>0, <2>2 DEF Down
  <2>. QED  BY <1>0, <1>1, <1>2, <1>3, <2>1, <2>3, <2>4, BackupsFrame, RestoresFrame
<1>5. CASE PrepareUpdate
  <2>1. UNCHANGED <<proxy, snapshot, seal, restored>> /\ plan' = "reviewed"
    BY <1>5 DEF PrepareUpdate, record
  <2>3. TypeOK'
    BY <1>0, <2>1 DEF TypeOK
  <2>4. seal /\ Down => Down'
    BY <1>0, <2>1 DEF Down
  <2>. QED  BY <1>0, <1>1, <1>2, <1>3, <2>1, <2>3, <2>4, BackupsFrame, RestoresFrame
<1>6. CASE Unseal
  <2>1. UNCHANGED <<proxy, snapshot, plan>> /\ restored /\ ~restored' /\ ~seal'
    BY <1>6 DEF Unseal, record, release
  <2>2. TypeOK'
    BY <1>0, <1>6, <2>1 DEF TypeOK, Unseal
  <2>3. OneRestore' /\ RootsArePresent'
    BY <1>0, <2>1 DEF Restores, OneRestore, RootsArePresent, At, Todo
  <2>4. MixedIsSealed'
    BY <1>0, <2>1 DEF Restores, OneRestore, MixedIsSealed, Mixed, At
  <2>. QED  BY <1>0, <1>1, <1>2, <1>3, <2>1, <2>2, <2>3, <2>4, BackupsFrame DEF Restores
<1>7. CASE ReopenProxy
  <2>1. UNCHANGED <<snapshot, seal, restored, plan>> /\ ~seal
        /\ proxy' = [state |-> "running", disabled |-> FALSE]
    BY <1>7 DEF ReopenProxy, record, release
  <2>2. proxy' \in ProxyStates
    BY <2>1, ProxyState
  <2>3. TypeOK'
    BY <1>0, <2>1, <2>2 DEF TypeOK, ProxyStates
  <2>. QED  BY <1>0, <1>1, <1>2, <1>3, <2>1, <2>3, BackupsFrame, RestoresFrame
<1>8. CASE Damage
  <2>1. UNCHANGED <<proxy, seal, restored>>
        /\ \/ UNCHANGED snapshot /\ plan' = "changed"
           \/ UNCHANGED plan /\ manifest # None
              /\ \E r \in Roots : snapshot' = [snapshot EXCEPT ![r] = Partial]
    BY <1>8 DEF Damage
  <2>2. seal /\ Down => Down'
    BY <1>0, <2>1 DEF Down
  <2>3. Restores'
    BY <1>0, <1>1, <2>1, <2>2, RestoresFrame
  <2>4. CASE UNCHANGED snapshot /\ plan' = "changed"
    <3>1. TypeOK'
      BY <1>0, <2>1, <2>4 DEF TypeOK
    <3>. QED  BY <1>0, <1>1, <1>2, <1>3, <2>3, <2>4, <3>1, BackupsFrame
  <2>5. ASSUME UNCHANGED plan, manifest # None,
               NEW r \in Roots, snapshot' = [snapshot EXCEPT ![r] = Partial]
        PROVE  Inv'
    <3>1. snapshot \in [Roots -> Content \cup {None, Partial}]
      BY <1>0, <2>5 DEF Backups, OneBackup, TypeOK
    <3>2. snapshot' \in [Roots -> Content \cup {None, Partial}] /\ snapshot'[r] = Partial
      BY <2>5, <3>1
    <3>3. TypeOK'
      BY <1>0, <2>1, <2>5, <3>2 DEF TypeOK
    <3>4. Partial \in Range(snapshot')
      BY <3>2 DEF Range
    <3>5. Backups'
      BY <1>0, <2>5, <3>2, <3>4 DEF Backups, DataGrows, OneBackup, BackupProgress, Inventoried,
           Copied, Compared, SnapshotIsOneMoment, At, Todo
    <3>. QED  BY <1>2, <1>3, <2>3, <3>3, <3>5
  <2>. QED  BY <2>1, <2>4, <2>5
<1>. QED  BY <1>4, <1>5, <1>6, <1>7, <1>8

-----------------------------------------------------------------------------
(* Commands begin, stop services, end and die.                             *)

LEMMA ElsewhereFrame ==
    ASSUME NEW o \in Operators, \A p \in Operators \ {o} : command'[p] = command[p],
           command'[o].at \in {"idle", "stop"}
    PROVE  /\ Outside({"inventory", "copy", "compare"}) /\ Outside({"seal", "stage", "replace"})
           /\ Outside(Opening \cup Switching)
BY GoesOutside DEF Opening, Switching

\* A step of a command that ends it, or leaves it stopping services, and
\* touches no file.
LEMMA StoppingStep ==
    ASSUME Inv, NEW o \in Operators, CommandOK', TypeOK', EndedIsEmpty',
           seal /\ Down => Down',
           \A p \in Operators \ {o} : command'[p] = command[p],
           command'[o].at \in {"idle", "stop"} \/ UNCHANGED command,
           UNCHANGED <<data, stage, retained, snapshot, manifest, moment, seal, restored,
                       live, pending, writes>>
    PROVE  Inv'
<1>1. /\ Outside({"inventory", "copy", "compare"}) /\ Outside({"seal", "stage", "replace"})
      /\ Outside(Opening \cup Switching)
  BY ElsewhereFrame DEF Outside
<1>2. Backups' /\ Restores' /\ Updates'
  BY <1>1, BackupsFrame, RestoresFrame, UpdatesFrame
<1>. QED  BY <1>1, <1>2 DEF Inv, Types, WritesAreCounted

\* A command ends and changes nothing else.
LEMMA EndStep ==
    ASSUME Inv, NEW o \in Operators, End(o),
           UNCHANGED <<service, alive, code, loaded, killed, proxy, data, stage, retained, snapshot,
                       manifest, moment, seal, restored, plan, live, pending, writes>>
    PROVE  Inv'
<1>1. /\ CommandOK' /\ command'[o].at = "idle"
      /\ \A p \in Operators \ {o} : command'[p] = command[p]
  BY EndEffect DEF Inv, Types
<1>2. command' \in [Operators -> Entry]
  BY <1>1 DEF CommandOK
<1>3. TypeOK' /\ EndedIsEmpty'
  BY <1>2 DEF Inv, Types, TypeOK, EndedIsEmpty, Entry
<1>. QED  BY <1>1, <1>3, StoppingStep DEF Down

\* What every type invariant needs of the commands.
LEMMA CommandTypes ==
    ASSUME CommandOK
    PROVE  \A o \in Operators : command[o].todo \subseteq Roles \cup Roots
BY DEF CommandOK, Entry

LEMMA StopStep ==
    ASSUME Inv, NEW o \in Operators,
           BeginStop(o) \/ StopNext(o) \/ StopConfirmed(o) \/ Interrupt(o)
    PROVE  Inv'
<1>. USE DEF tree, record, release, hosting, bounds
<1>0. TypeOK /\ CommandOK /\ EndedIsEmpty
  BY DEF Inv, Types
<1>1. CASE BeginStop(o)
  <2>1. Goto(o, "stop", Roles)
        /\ UNCHANGED <<service, alive, code, loaded, killed, data, stage, retained, snapshot,
                       manifest, moment, seal, restored, plan, live, pending, writes>>
    BY <1>1 DEF BeginStop, Begin
  <2>2. CommandOK' /\ command'[o].at = "stop" /\ \A p \in Operators \ {o} : command'[p] = command[p]
    BY <1>0, <2>1, GotoEffect DEF Places, OverRoots, Opening, Switching
  <2>3. proxy' \in ProxyStates /\ (proxy.state = "stopped" => proxy'.state = "stopped")
    BY <1>0, <1>1, ProxyState DEF BeginStop, TypeOK, ProxyStates
  <2>4. TypeOK' /\ EndedIsEmpty'
    BY <1>0, <2>1, <2>2, <2>3, CommandTypes DEF TypeOK, EndedIsEmpty, ProxyStates, CommandOK, Entry
  <2>. QED  BY <2>1, <2>2, <2>3, <2>4, StoppingStep DEF Down
<1>2. CASE StopNext(o)
  <2>. DEFINE r == First(command[o].todo)
  <2>0. UNCHANGED <<alive, code, loaded, killed, proxy, data, stage, retained, snapshot,
                    manifest, moment, seal, restored, plan, live, pending, writes>>
    BY <1>2 DEF StopNext
  <2>1. CASE service[r] = "running" /\ service' = [service EXCEPT ![r] = "stopping"]
             /\ UNCHANGED command
    <3>. HIDE DEF r
    <3>1. TypeOK' /\ EndedIsEmpty' /\ CommandOK' /\ (Down => Down')
      <4>1. TypeOK'
        BY <1>0, <2>0, <2>1 DEF TypeOK
      <4>2. EndedIsEmpty'
        BY <1>0, <2>0, <2>1 DEF EndedIsEmpty, At, Todo
      <4>3. CommandOK'
        BY <1>0, <2>0, <2>1 DEF CommandOK, At, Todo
      <4>4. Down => Down'
        BY <1>0, <2>0, <2>1 DEF TypeOK, Down
      <4>. QED  BY <4>1, <4>2, <4>3, <4>4
    <3>. QED  BY <2>0, <2>1, <3>1, StoppingStep
  <2>2. CASE Goto(o, "stop", command[o].todo \ {r}) /\ UNCHANGED service
    <3>. HIDE DEF r
    <3>1. command[o].todo \ {r} \subseteq Roles \cup Roots
      BY <1>0 DEF TypeOK
    <3>2. CommandOK' /\ command'[o].at = "stop" /\ \A p \in Operators \ {o} : command'[p] = command[p]
      BY <1>0, <2>2, <3>1, GotoEffect DEF Places, OverRoots, Opening, Switching
    <3>3. TypeOK' /\ EndedIsEmpty'
      BY <1>0, <2>0, <2>2, <3>2 DEF TypeOK, EndedIsEmpty, CommandOK, Entry
    <3>. QED  BY <2>0, <2>2, <3>2, <3>3, StoppingStep DEF Down
  <2>. QED  BY <1>2, <2>1, <2>2 DEF StopNext
<1>3. CASE StopConfirmed(o) \/ Interrupt(o)
  BY <1>3, EndStep DEF StopConfirmed, Interrupt, OnlyCommand
<1>. QED  BY <1>1, <1>2, <1>3

-----------------------------------------------------------------------------
(* Backup.                                                                 *)

\* A step of a backup that keeps the services, the roots and what a
\* restore and an update depend on, once it is shown to keep the invariant
\* of the backups.
LEMMA BackupFrame ==
    ASSUME Inv, NEW o \in Operators, CommandOK', Backups',
           \A p \in Operators \ {o} : command'[p] = command[p],
           command'[o].at \in {"idle", "inventory", "copy", "compare"},
           UNCHANGED <<service, alive, code, loaded, killed, proxy, data, stage, retained,
                       seal, restored, plan, live, pending, writes>>,
           snapshot' \in {None} \cup [Roots -> Content \cup {None, Partial}],
           manifest' \in {None} \cup [Roots -> Content],
           manifest # None => manifest' # None,
           moment' \in {None} \cup [Roots -> Content \cup {None}]
    PROVE  Inv'
<1>1. Outside({"seal", "stage", "replace"}) /\ Outside(Opening \cup Switching)
  BY GoesOutside DEF Opening, Switching
<1>2. Restores' /\ Updates'
  BY <1>1, RestoresFrame, UpdatesFrame DEF Down
<1>3. TypeOK'
  BY DEF Inv, Types, TypeOK, CommandOK, Entry
<1>. QED  BY <1>2, <1>3 DEF Inv, Types, WritesAreCounted, EndedIsEmpty

\* The backups of other operators.
LEMMA OtherProgress ==
    ASSUME Inv, NEW p \in Operators, command'[p] = command[p], UNCHANGED data,
           manifest' = None => manifest = None,
           command[p].at \in {"copy", "compare"} => UNCHANGED <<snapshot, moment>>
    PROVE  Inventoried(p)' /\ Copied(p)' /\ Compared(p)'
<1>1. Inventoried(p) /\ Copied(p) /\ Compared(p)
  BY DEF Inv, Backups, BackupProgress
<1>2. Inventoried(p)'
  BY <1>1 DEF Inventoried, At, Todo
<1>3. Copied(p)'
  BY <1>1 DEF Copied, At, Todo
<1>4. Compared(p)'
  BY <1>1 DEF Compared, At, Todo
<1>. QED  BY <1>2, <1>3, <1>4

LEMMA BeginBackupStep ==
    ASSUME Inv, NEW o \in Operators, BeginBackup(o)
    PROVE  Inv'
<1>0. TypeOK /\ CommandOK /\ At(o, "idle") /\ Backups /\ command[o] = Idle
  BY DEF Inv, Types, BeginBackup, Begin, CommandOK
<1>1. Goto(o, "inventory", Roots)
      /\ UNCHANGED <<service, alive, code, loaded, killed, proxy, data, stage, retained, snapshot,
                     manifest, moment, seal, restored, plan, live, pending, writes>>
  BY DEF BeginBackup, Begin, hosting, tree, record
<1>2. /\ CommandOK' /\ command'[o].at = "inventory" /\ Todo(o)' = Roots
      /\ command'[o].seen = Idle.seen
      /\ \A p \in Operators \ {o} : command'[p] = command[p]
  BY <1>0, <1>1, GotoEffect DEF Places, OverRoots, Opening, Switching
<1>3. command'[o].seen \in [Roots \ Roots -> Content]
  BY <1>2 DEF Idle
<1>4. DataGrows' /\ OneBackup' /\ SnapshotIsOneMoment'
  BY <1>0, <1>1, <1>2 DEF Backups, DataGrows, OneBackup, SnapshotIsOneMoment, At
<1>5. Inventoried(o)' /\ Copied(o)' /\ Compared(o)'
  BY <1>2, <1>3 DEF Inventoried, Copied, Compared, At
<1>6. ASSUME NEW p \in Operators \ {o} PROVE Inventoried(p)' /\ Copied(p)' /\ Compared(p)'
  BY <1>1, <1>2, OtherProgress
<1>7. Backups'
  BY <1>4, <1>5, <1>6 DEF Backups, BackupProgress
<1>. QED  BY <1>0, <1>1, <1>2, <1>7, BackupFrame DEF TypeOK

\* A step within the inventory or out of it that touches no file.
LEMMA InventoryStep ==
    ASSUME Inv, NEW o \in Operators, NEW r \in Roots, Inventory(o, r)
    PROVE  Inv'
<1>0. /\ TypeOK /\ CommandOK /\ At(o, "inventory") /\ Backups /\ r \in Todo(o)
      /\ UNCHANGED <<service, alive, code, loaded, killed, proxy, data, stage, retained, snapshot,
                     manifest, moment, seal, restored, plan, live, pending, writes>>
  BY DEF Inv, Types, Inventory, OnlyCommand, hosting, tree, record, release, bounds, Todo
<1>1. CASE data[r] = None
  BY <1>0, <1>1, EndStep DEF Inventory
<1>2. CASE data[r] # None
  <2>1. /\ CommandOK' /\ command'[o].at = "inventory" /\ Todo(o)' = Todo(o) \ {r}
        /\ command'[o].seen = [q \in DOMAIN command[o].seen \cup {r} |->
                                  IF q = r THEN data[r] ELSE command[o].seen[q]]
        /\ \A p \in Operators \ {o} : command'[p] = command[p]
    BY <1>0, <1>2, InventoryEffect
  <2>2. /\ command[o].seen \in [Roots \ Todo(o) -> Content] /\ data[r] \in Content
        /\ manifest = None => \A q \in Roots \ Todo(o) : command[o].seen[q] <= data[q]
        /\ manifest = None => \A q \in Roots : data[q] \in Nat
    <3>1. Inventoried(o)
      BY <1>0 DEF Backups, BackupProgress
    <3>2. data[r] \in Content
      BY <1>2, <1>0 DEF TypeOK
    <3>3. manifest = None => \A q \in Roots : data[q] \in Nat
      BY <1>0 DEF Backups, DataGrows
    <3>. QED  BY <1>0, <3>1, <3>2, <3>3 DEF Inventoried
  <2>3. command'[o].seen \in [Roots \ Todo(o)' -> Content]
    BY <1>0, <2>1, <2>2
  <2>4. Inventoried(o)'
    BY <1>0, <2>1, <2>2, <2>3 DEF Inventoried
  <2>5. Copied(o)' /\ Compared(o)'
    BY <2>1 DEF Copied, Compared, At
  <2>6. DataGrows' /\ OneBackup' /\ SnapshotIsOneMoment'
    BY <1>0, <2>1 DEF Backups, DataGrows, OneBackup, SnapshotIsOneMoment, At
  <2>7. Backups'
    BY <1>0, <2>1, <2>4, <2>5, <2>6, OtherProgress DEF Backups, BackupProgress
  <2>. QED  BY <1>0, <2>1, <2>7, BackupFrame DEF TypeOK
<1>. QED  BY <1>1, <1>2

LEMMA CreateSnapshotStep ==
    ASSUME Inv, NEW o \in Operators, CreateSnapshot(o)
    PROVE  Inv'
<1>0. /\ TypeOK /\ CommandOK /\ At(o, "inventory") /\ Backups /\ Todo(o) = {}
      /\ UNCHANGED <<service, alive, code, loaded, killed, proxy, data, stage, retained,
                     manifest, moment, seal, restored, plan, live, pending, writes>>
  BY DEF Inv, Types, CreateSnapshot, hosting, tree, release, bounds, Todo
<1>1. CASE snapshot # None
  BY <1>0, <1>1, EndStep DEF CreateSnapshot
<1>2. CASE snapshot = None
  <2>1. snapshot' = [q \in Roots |-> None] /\ Goto(o, "copy", Roots)
    BY <1>2 DEF CreateSnapshot
  <2>2. /\ CommandOK' /\ command'[o].at = "copy" /\ Todo(o)' = Roots
        /\ command'[o].seen = command[o].seen
        /\ \A p \in Operators \ {o} : command'[p] = command[p]
    BY <1>0, <2>1, GotoEffect DEF Places, OverRoots, Opening, Switching
  <2>3. snapshot' \in [Roots -> Content \cup {None, Partial}]
    BY <2>1
  <2>4. snapshot' # None
    BY <2>3
  <2>5. manifest = None /\ \A p \in Operators : command[p].at \notin {"copy", "compare"}
    BY <1>0, <1>2 DEF Backups, OneBackup
  <2>6. Copied(o)'
    BY <1>0, <2>2, <2>5 DEF Copied, Backups, BackupProgress, Inventoried, At
  <2>7. Inventoried(o)' /\ Compared(o)'
    BY <2>2 DEF Inventoried, Compared, At
  <2>8. DataGrows' /\ OneBackup' /\ SnapshotIsOneMoment'
    BY <1>0, <2>2, <2>4, <2>5 DEF Backups, DataGrows, OneBackup, SnapshotIsOneMoment, At
  <2>9. Backups'
    BY <1>0, <2>2, <2>5, <2>6, <2>7, <2>8, OtherProgress DEF Backups, BackupProgress
  <2>. QED  BY <1>0, <2>2, <2>3, <2>9, BackupFrame DEF TypeOK
<1>. QED  BY <1>1, <1>2

LEMMA CopyRootStep ==
    ASSUME Inv, NEW o \in Operators, NEW r \in Roots, CopyRoot(o, r)
    PROVE  Inv'
<1>0. /\ TypeOK /\ CommandOK /\ At(o, "copy") /\ Backups /\ r \in Todo(o)
      /\ Todo(o) \subseteq Roots
      /\ UNCHANGED <<service, alive, code, loaded, killed, proxy, data, stage, retained,
                     manifest, moment, seal, restored, plan, live, pending, writes>>
      /\ snapshot' = [snapshot EXCEPT ![r] = data[r]]
  BY DEF Inv, Types, CopyRoot, hosting, tree, release, bounds, Todo, CommandOK, At, OverRoots
<1>1. /\ snapshot \in [Roots -> Content \cup {None, Partial}] /\ manifest = None
      /\ \A p \in Operators \ {o} : command[p].at \notin {"copy", "compare"}
  BY <1>0 DEF Backups, OneBackup, TypeOK, At
<1>2. snapshot' \in [Roots -> Content \cup {None, Partial}]
      /\ snapshot'[r] = data[r] /\ \A q \in Roots \ {r} : snapshot'[q] = snapshot[q]
  BY <1>0, <1>1 DEF TypeOK
<1>3. snapshot' # None
  BY <1>2
<1>4. SUFFICES ASSUME CommandOK', \A p \in Operators \ {o} : command'[p] = command[p],
                      \/ command'[o].at = "idle"
                      \/ /\ command'[o].at = "copy" /\ command'[o].seen = command[o].seen
                         /\ Todo(o)' = Todo(o) \ {r} /\ data[r] = command[o].seen[r]
               PROVE  Inv'
  <2>1. CASE End(o)
    BY <1>0, <2>1, <1>4, EndEffect
  <2>2. CASE Goto(o, "copy", Todo(o) \ {r}) /\ data[r] = command[o].seen[r]
    BY <1>0, <2>2, <1>4, GotoEffect DEF Places, OverRoots, Opening, Switching
  <2>. QED  BY <2>1, <2>2 DEF CopyRoot, Todo
<1>5. DataGrows' /\ OneBackup' /\ SnapshotIsOneMoment'
  BY <1>0, <1>1, <1>3, <1>4 DEF Backups, DataGrows, OneBackup, SnapshotIsOneMoment, At
<1>6. Copied(o)'
  BY <1>0, <1>2, <1>4 DEF Copied, Backups, BackupProgress, At, Todo
<1>7. Inventoried(o)' /\ Compared(o)'
  BY <1>4 DEF Inventoried, Compared, At
<1>8. Backups'
  BY <1>0, <1>1, <1>4, <1>5, <1>6, <1>7, OtherProgress DEF Backups, BackupProgress
<1>. QED  BY <1>0, <1>2, <1>4, <1>8, BackupFrame DEF TypeOK

LEMMA ConfirmBackupStep ==
    ASSUME Inv, NEW o \in Operators, ConfirmBackup(o)
    PROVE  Inv'
<1>0. /\ TypeOK /\ CommandOK /\ At(o, "copy") /\ Backups /\ Todo(o) = {}
      /\ UNCHANGED <<service, alive, code, loaded, killed, proxy, data, stage, retained, snapshot,
                     manifest, seal, restored, plan, live, pending, writes>>
      /\ moment' = data
  BY DEF Inv, Types, ConfirmBackup, hosting, tree, release, bounds, Todo
<1>1. /\ manifest = None
      /\ \A p \in Operators \ {o} : command[p].at \notin {"copy", "compare"}
      /\ \A r \in Roots : data[r] \in 0 .. writes
      /\ Copied(o)
  BY <1>0 DEF Backups, OneBackup, DataGrows, BackupProgress, At
<1>2. data \in [Roots -> Content] /\ \A r \in Roots : data[r] \in Nat
  BY <1>0, <1>1 DEF TypeOK, Inv, Types, WritesAreCounted
<1>3. SUFFICES ASSUME CommandOK', \A p \in Operators \ {o} : command'[p] = command[p],
                      \/ command'[o].at = "idle"
                      \/ /\ command'[o].at = "compare" /\ command'[o].seen = command[o].seen
                         /\ Todo(o)' = Roots
               PROVE  Inv'
  <2>1. CASE End(o)
    BY <1>0, <2>1, <1>3, EndEffect
  <2>2. CASE Goto(o, "compare", Roots)
    BY <1>0, <2>2, <1>3, GotoEffect DEF Places, OverRoots, Opening, Switching
  <2>. QED  BY <2>1, <2>2 DEF ConfirmBackup
<1>4. DataGrows' /\ OneBackup' /\ SnapshotIsOneMoment'
  BY <1>0, <1>1, <1>3 DEF Backups, DataGrows, OneBackup, SnapshotIsOneMoment, At
<1>5. Compared(o)'
  <2>1. SUFFICES ASSUME command'[o].at = "compare", command'[o].seen = command[o].seen,
                        Todo(o)' = Roots
                 PROVE  Compared(o)'
    BY <1>3 DEF Compared, At
  <2>2. /\ command[o].seen \in [Roots -> Content]
        /\ \A r \in Roots : command[o].seen[r] <= data[r] /\ snapshot[r] = command[o].seen[r]
    BY <1>0, <1>1 DEF Copied
  <2>3. snapshot \in [Roots -> Content \cup {None, Partial}]
    BY <1>0 DEF Backups, OneBackup, TypeOK, At
  <2>4. snapshot = command[o].seen
    BY <2>2, <2>3
  <2>. QED  BY <1>0, <1>2, <2>1, <2>2, <2>4 DEF Compared
<1>6. Inventoried(o)' /\ Copied(o)'
  BY <1>3 DEF Inventoried, Copied, At
<1>7. Backups'
  BY <1>0, <1>1, <1>3, <1>4, <1>5, <1>6, OtherProgress DEF Backups, BackupProgress
<1>. QED  BY <1>0, <1>2, <1>3, <1>7, BackupFrame DEF TypeOK

LEMMA CompareRootStep ==
    ASSUME Inv, NEW o \in Operators, NEW r \in Roots, CompareRoot(o, r)
    PROVE  Inv'
<1>0. /\ TypeOK /\ CommandOK /\ At(o, "compare") /\ Backups /\ r \in Todo(o)
      /\ Todo(o) \subseteq Roots /\ Compared(o)
      /\ UNCHANGED <<service, alive, code, loaded, killed, proxy, data, stage, retained, snapshot,
                     manifest, moment, seal, restored, plan, live, pending, writes>>
  BY DEF Inv, Types, CompareRoot, OnlyCommand, hosting, tree, record, release, bounds, Todo,
       CommandOK, At, OverRoots, Backups, BackupProgress
<1>1. CASE End(o)
  BY <1>0, <1>1, EndStep
<1>2. CASE Goto(o, "compare", Todo(o) \ {r}) /\ data[r] = command[o].seen[r]
  <2>1. /\ CommandOK' /\ command'[o].at = "compare" /\ Todo(o)' = Todo(o) \ {r}
        /\ command'[o].seen = command[o].seen
        /\ \A p \in Operators \ {o} : command'[p] = command[p]
    BY <1>0, <1>2, GotoEffect DEF Places, OverRoots, Opening, Switching
  <2>2. moment[r] = command[o].seen[r]
    BY <1>0, <1>2 DEF Compared
  <2>3. Compared(o)'
    BY <1>0, <2>1, <2>2 DEF Compared
  <2>4. Inventoried(o)' /\ Copied(o)'
    BY <2>1 DEF Inventoried, Copied, At
  <2>5. DataGrows' /\ OneBackup' /\ SnapshotIsOneMoment'
    BY <1>0, <2>1 DEF Backups, DataGrows, OneBackup, SnapshotIsOneMoment, At
  <2>6. Backups'
    BY <1>0, <2>1, <2>3, <2>4, <2>5, OtherProgress DEF Backups, BackupProgress
  <2>. QED  BY <1>0, <2>1, <2>6, BackupFrame DEF TypeOK
<1>. QED  BY <1>1, <1>2 DEF CompareRoot, Todo

LEMMA WriteManifestStep ==
    ASSUME Inv, NEW o \in Operators, WriteManifest(o)
    PROVE  Inv'
<1>0. /\ TypeOK /\ CommandOK /\ At(o, "compare") /\ Backups /\ Todo(o) = {} /\ Compared(o)
      /\ UNCHANGED <<service, alive, code, loaded, killed, proxy, data, stage, retained, snapshot,
                     moment, seal, restored, plan, live, pending, writes>>
      /\ manifest' = command[o].seen
  BY DEF Inv, Types, WriteManifest, hosting, tree, release, bounds, Todo, Backups, BackupProgress
<1>1. /\ manifest = None /\ snapshot # None
      /\ \A p \in Operators \ {o} : command[p].at \notin {"copy", "compare"}
  BY <1>0 DEF Backups, OneBackup, At
<1>2. /\ CommandOK' /\ command'[o].at = "idle"
      /\ \A p \in Operators \ {o} : command'[p] = command[p]
  BY <1>0, EndEffect DEF WriteManifest
<1>3. /\ manifest' \in [Roots -> Content] /\ manifest' = snapshot
      /\ moment \in [Roots -> Content] /\ \A r \in Roots : moment[r] = manifest'[r]
  BY <1>0 DEF Compared
<1>4. manifest' # None /\ manifest' = moment
  BY <1>3
<1>5. DataGrows' /\ OneBackup' /\ SnapshotIsOneMoment'
  BY <1>0, <1>1, <1>2, <1>3, <1>4 DEF DataGrows, OneBackup, SnapshotIsOneMoment
<1>6. Inventoried(o)' /\ Copied(o)' /\ Compared(o)'
  BY <1>2 DEF Inventoried, Copied, Compared, At
<1>7. Backups'
  BY <1>0, <1>2, <1>4, <1>5, <1>6, OtherProgress DEF Backups, BackupProgress
<1>. QED  BY <1>0, <1>1, <1>2, <1>3, <1>7, BackupFrame DEF TypeOK

-----------------------------------------------------------------------------
(* Restore.                                                                *)

\* A step of a restore, once it is shown to keep the invariant of the
\* restores: it touches neither the services nor a snapshot, and the roots
\* only when a snapshot has been reported.
LEMMA RestoreFrame ==
    ASSUME Inv, NEW o \in Operators, CommandOK', Restores', manifest # None,
           \A p \in Operators \ {o} : command'[p] = command[p],
           command'[o].at \in {"idle", "seal", "stage", "replace"},
           UNCHANGED <<service, alive, code, loaded, killed, proxy, snapshot, manifest, moment,
                       plan, live, pending, writes>>,
           data' \in [Roots -> Content \cup {None}],
           stage' \in [Roots -> Content \cup {None, Partial}],
           retained' \in [Roots -> Content \cup {None}],
           seal' \in BOOLEAN, restored' \in BOOLEAN
    PROVE  Inv'
<1>1. Outside({"inventory", "copy", "compare"}) /\ Outside(Opening \cup Switching)
  BY GoesOutside DEF Opening, Switching
<1>2. Backups' /\ Updates'
  BY <1>1, BackupsFrame, UpdatesFrame
<1>3. TypeOK'
  BY DEF Inv, Types, TypeOK, CommandOK, Entry
<1>. QED  BY <1>2, <1>3 DEF Inv, Types, WritesAreCounted, EndedIsEmpty

LEMMA BeginRestoreStep ==
    ASSUME Inv, NEW o \in Operators, BeginRestore(o)
    PROVE  Inv'
<1>0. /\ TypeOK /\ CommandOK /\ Restores /\ manifest # None
      /\ Goto(o, "seal", Roots)
      /\ UNCHANGED <<service, alive, code, loaded, killed, proxy, data, stage, retained, snapshot,
                     manifest, moment, seal, restored, plan, live, pending, writes>>
  BY DEF Inv, Types, BeginRestore, Begin, hosting, tree, record
<1>1. /\ CommandOK' /\ command'[o].at = "seal"
      /\ \A p \in Operators \ {o} : command'[p] = command[p]
  <2>1. "seal" \in OverRoots
    BY DEF OverRoots
  <2>. QED  BY <1>0, <2>1, GotoRoots
<1>2. OneRestore'
  BY <1>0, <1>1 DEF Restores, OneRestore
<1>3. RootsArePresent'
  BY <1>0, <1>1 DEF Restores, RootsArePresent, At, Todo
<1>4. MixedIsSealed'
  BY <1>0, <1>1 DEF Restores, MixedIsSealed, Mixed, Down, At
<1>. QED  BY <1>0, <1>1, <1>2, <1>3, <1>4, RestoreFrame DEF TypeOK, Restores

LEMMA CreateSealStep ==
    ASSUME Inv, NEW o \in Operators, CreateSeal(o)
    PROVE  Inv'
<1>0. /\ TypeOK /\ CommandOK /\ Restores /\ At(o, "seal") /\ manifest # None
      /\ UNCHANGED <<service, alive, code, loaded, killed, proxy, data, stage, retained, snapshot,
                     manifest, moment, restored, plan, live, pending, writes>>
      /\ seal' = TRUE
  BY DEF Inv, Types, CreateSeal, hosting, tree, record, release, bounds, Restores, OneRestore, At
<1>1. CASE seal /\ End(o)
  BY <1>0, <1>1, EndStep DEF TypeOK
<1>2. CASE ~seal /\ Goto(o, "stage", Roots)
  <2>1. /\ CommandOK' /\ command'[o].at = "stage" /\ Todo(o)' = Roots
        /\ \A p \in Operators \ {o} : command'[p] = command[p]
    <3>1. CommandOK /\ Goto(o, "stage", Roots)
      BY <1>0, <1>2
    <3>2. "stage" \in OverRoots
      BY DEF OverRoots
    <3>. QED  BY <3>1, <3>2, GotoRoots
  <2>2. ~restored /\ ~Mixed /\ \A p \in Operators : command[p].at \notin {"stage", "replace"}
    BY <1>2, <1>0 DEF Restores, OneRestore, MixedIsSealed
  <2>3. OneRestore'
    BY <1>0, <2>1, <2>2 DEF Restores, OneRestore
  <2>4. RootsArePresent'
    BY <1>0, <2>1, <2>2 DEF Restores, RootsArePresent, At
  <2>5. MixedIsSealed'
    BY <1>0, <2>1, <2>2 DEF MixedIsSealed, Mixed, At
  <2>. QED  BY <1>0, <2>1, <2>3, <2>4, <2>5, RestoreFrame DEF TypeOK, Restores
<1>. QED  BY <1>1, <1>2 DEF CreateSeal

LEMMA StageRootStep ==
    ASSUME Inv, NEW o \in Operators, NEW r \in Roots, StageRoot(o, r)
    PROVE  Inv'
<1>0. /\ TypeOK /\ CommandOK /\ Restores /\ At(o, "stage") /\ manifest # None
      /\ r \in Todo(o) /\ Todo(o) \subseteq Roots
      /\ UNCHANGED <<service, alive, code, loaded, killed, proxy, data, retained, snapshot,
                     manifest, moment, seal, restored, plan, live, pending, writes>>
      /\ stage' = [stage EXCEPT ![r] = IF @ = None THEN snapshot[r] ELSE @]
  BY DEF Inv, Types, StageRoot, hosting, record, release, bounds, Restores, OneRestore, At, Todo,
       CommandOK, OverRoots
<1>1. /\ manifest \in [Roots -> Content]
      /\ snapshot \in [Roots -> Content \cup {None, Partial}]
      /\ \A p \in Operators \ {o} : command[p].at \notin {"stage", "replace"}
  BY <1>0 DEF TypeOK, Inv, Backups, OneBackup, Restores, OneRestore, At
<1>2. /\ stage' \in [Roots -> Content \cup {None, Partial}]
      /\ \A q \in Roots \ {r} : stage'[q] = stage[q]
      /\ stage[r] = None => stage'[r] = snapshot[r]
  BY <1>0, <1>1 DEF TypeOK
<1>3. SUFFICES ASSUME CommandOK', \A p \in Operators \ {o} : command'[p] = command[p],
                      \/ command'[o].at = "idle"
                      \/ /\ command'[o].at = "stage" /\ Todo(o)' = Todo(o) \ {r}
                         /\ stage'[r] = manifest[r]
               PROVE  Inv'
  <2>1. CASE End(o)
    BY <1>0, <2>1, <1>3, EndEffect
  <2>2. CASE Goto(o, "stage", Todo(o) \ {r}) /\ stage[r] = None /\ snapshot[r] = manifest[r]
    BY <1>0, <1>2, <2>2, <1>3, GotoEffect DEF Places, OverRoots, Opening, Switching
  <2>. QED  BY <2>1, <2>2 DEF StageRoot, Todo
<1>4. OneRestore'
  BY <1>0, <1>3 DEF Restores, OneRestore, At
<1>5. RootsArePresent'
  BY <1>0, <1>1, <1>2, <1>3 DEF Restores, RootsArePresent, At, Todo
<1>6. MixedIsSealed'
  BY <1>0, <1>1, <1>3 DEF Restores, MixedIsSealed, Mixed, Down, At
<1>. QED  BY <1>0, <1>2, <1>3, <1>4, <1>5, <1>6, RestoreFrame DEF TypeOK, Restores

LEMMA ConfirmRestoreStep ==
    ASSUME Inv, NEW o \in Operators, ConfirmRestore(o)
    PROVE  Inv'
<1>0. /\ TypeOK /\ CommandOK /\ Restores /\ At(o, "stage") /\ manifest # None /\ Todo(o) = {}
      /\ UNCHANGED <<service, alive, code, loaded, killed, proxy, data, stage, retained, snapshot,
                     manifest, moment, seal, restored, plan, live, pending, writes>>
  BY DEF Inv, Types, ConfirmRestore, OnlyCommand, hosting, tree, record, release, bounds,
       Restores, OneRestore, At, Todo
<1>1. CASE End(o)
  BY <1>0, <1>1, EndStep
<1>2. CASE AllStopped /\ Goto(o, "replace", Roots)
  <2>1. /\ CommandOK' /\ command'[o].at = "replace" /\ Todo(o)' = Roots
        /\ \A p \in Operators \ {o} : command'[p] = command[p]
    BY <1>0, <1>2, GotoEffect DEF Places, OverRoots, Opening, Switching
  <2>2. /\ seal /\ ~restored /\ \A r \in Roots : stage[r] \in Content
        /\ \A p \in Operators \ {o} : command[p].at \notin {"stage", "replace"}
    BY <1>0 DEF Restores, OneRestore, RootsArePresent, At
  <2>3. Down
    BY <1>2 DEF AllStopped, Down
  <2>4. OneRestore'
    BY <1>0, <2>1, <2>2 DEF Restores, OneRestore
  <2>5. RootsArePresent'
    BY <1>0, <2>1, <2>2 DEF Restores, RootsArePresent, At, Todo
  <2>6. MixedIsSealed'
    BY <1>0, <2>1, <2>2, <2>3 DEF MixedIsSealed, Down
  <2>. QED  BY <1>0, <2>1, <2>4, <2>5, <2>6, RestoreFrame DEF TypeOK, Restores
<1>. QED  BY <1>1, <1>2 DEF ConfirmRestore

LEMMA RetainRootStep ==
    ASSUME Inv, NEW o \in Operators, NEW r \in Roots, RetainRoot(o, r)
    PROVE  Inv'
<1>0. /\ TypeOK /\ CommandOK /\ Restores /\ At(o, "replace") /\ manifest # None
      /\ r \in Todo(o) /\ \A q \in Roots : data[q] # None
      /\ UNCHANGED <<service, alive, code, loaded, killed, proxy, stage, snapshot,
                     manifest, moment, seal, restored, plan, live, pending, writes>>
  BY DEF Inv, Types, RetainRoot, hosting, record, release, bounds, Restores, OneRestore, At, Todo
<1>1. CASE End(o) /\ UNCHANGED <<data, retained>>
  BY <1>0, <1>1, EndStep
<1>2. CASE /\ retained' = [retained EXCEPT ![r] = data[r]]
           /\ data' = [data EXCEPT ![r] = None]
           /\ UNCHANGED command
  <2>1. /\ data' \in [Roots -> Content \cup {None}] /\ retained' \in [Roots -> Content \cup {None}]
        /\ retained'[r] # None /\ data'[r] = None
        /\ \A q \in Roots \ {r} : data'[q] = data[q] /\ retained'[q] = retained[q]
    BY <1>0, <1>2 DEF TypeOK
  <2>2. \A p \in Operators \ {o} : command[p].at \notin {"stage", "replace"}
    BY <1>0 DEF Restores, OneRestore, At
  <2>3. seal /\ ~restored /\ Down
    BY <1>0 DEF Restores, MixedIsSealed
  <2>4. CommandOK' /\ command' = command
    BY <1>0, <1>2 DEF CommandOK, At, Todo
  <2>5. OneRestore'
    BY <1>0, <2>3, <2>4 DEF Restores, OneRestore
  <2>6. RootsArePresent'
    BY <1>0, <2>1, <2>2, <2>4 DEF Restores, RootsArePresent, At, Todo
  <2>7. MixedIsSealed'
    BY <1>0, <2>3 DEF MixedIsSealed, Down
  <2>. QED  BY <1>0, <2>1, <2>4, <2>5, <2>6, <2>7, RestoreFrame DEF TypeOK, Restores, At
<1>. QED  BY <1>1, <1>2 DEF RetainRoot

LEMMA InstallRootStep ==
    ASSUME Inv, NEW o \in Operators, NEW r \in Roots, InstallRoot(o, r)
    PROVE  Inv'
<1>0. /\ TypeOK /\ CommandOK /\ Restores /\ At(o, "replace") /\ manifest # None
      /\ r \in Todo(o) /\ Todo(o) \subseteq Roots /\ data[r] = None
      /\ data' = [data EXCEPT ![r] = stage[r]]
      /\ stage' = [stage EXCEPT ![r] = None]
      /\ Goto(o, "replace", Todo(o) \ {r})
      /\ UNCHANGED <<service, alive, code, loaded, killed, proxy, retained, snapshot,
                     manifest, moment, seal, restored, plan, live, pending, writes>>
  BY DEF Inv, Types, InstallRoot, hosting, record, release, bounds, Restores, OneRestore, At, Todo,
       CommandOK, OverRoots
<1>1. /\ CommandOK' /\ command'[o].at = "replace" /\ Todo(o)' = Todo(o) \ {r}
      /\ \A p \in Operators \ {o} : command'[p] = command[p]
  BY <1>0, GotoEffect DEF Places, OverRoots, Opening, Switching
<1>2. /\ stage[r] \in Content /\ retained[r] # None
      /\ \A p \in Operators \ {o} : command[p].at \notin {"stage", "replace"}
  BY <1>0 DEF Restores, OneRestore, RootsArePresent, At
<1>3. /\ data' \in [Roots -> Content \cup {None}]
      /\ stage' \in [Roots -> Content \cup {None, Partial}]
      /\ data'[r] # None
      /\ \A q \in Roots \ {r} : data'[q] = data[q] /\ stage'[q] = stage[q]
  BY <1>0, <1>2 DEF TypeOK
<1>4. seal /\ ~restored /\ Down
  BY <1>0 DEF Restores, MixedIsSealed
<1>5. OneRestore'
  BY <1>0, <1>1, <1>4 DEF Restores, OneRestore, At
<1>6. RootsArePresent'
  BY <1>0, <1>1, <1>2, <1>3 DEF Restores, RootsArePresent, At, Todo
<1>7. MixedIsSealed'
  BY <1>0, <1>4 DEF MixedIsSealed, Down
<1>. QED  BY <1>0, <1>1, <1>3, <1>5, <1>6, <1>7, RestoreFrame DEF TypeOK, Restores

LEMMA RestoreReportedStep ==
    ASSUME Inv, NEW o \in Operators, RestoreReported(o)
    PROVE  Inv'
<1>0. /\ TypeOK /\ CommandOK /\ Restores /\ At(o, "replace") /\ manifest # None /\ Todo(o) = {}
      /\ UNCHANGED <<service, alive, code, loaded, killed, proxy, data, stage, retained, snapshot,
                     manifest, moment, seal, plan, live, pending, writes>>
      /\ restored' = TRUE
  BY DEF Inv, Types, RestoreReported, hosting, tree, record, release, bounds,
       Restores, OneRestore, At, Todo
<1>1. /\ CommandOK' /\ command'[o].at = "idle"
      /\ \A p \in Operators \ {o} : command'[p] = command[p]
  BY <1>0, EndEffect DEF RestoreReported
<1>2. /\ seal /\ \A r \in Roots : retained[r] # None /\ data[r] # None
      /\ \A p \in Operators \ {o} : command[p].at \notin {"stage", "replace"}
  BY <1>0 DEF Restores, OneRestore, RootsArePresent, At
<1>3. OneRestore' /\ RootsArePresent' /\ MixedIsSealed'
  BY <1>0, <1>1, <1>2 DEF Restores, OneRestore, RootsArePresent, MixedIsSealed, Mixed, At, Todo
<1>. QED  BY <1>0, <1>1, <1>3, RestoreFrame DEF TypeOK, Restores

-----------------------------------------------------------------------------
(* Update and rollback.                                                    *)

\* A step of an update, once it is shown to keep the invariant of the
\* updates: it touches the release specifications only.
LEMMA UpdateFrame ==
    ASSUME Inv, NEW o \in Operators, CommandOK', Updates',
           \A p \in Operators \ {o} : command'[p] = command[p],
           command'[o].at \in {"idle"} \cup Opening \cup Switching,
           UNCHANGED <<service, alive, code, loaded, killed, proxy, data, stage, retained, snapshot,
                       manifest, moment, seal, restored, plan, writes>>,
           live' \in [UpdateRoles -> Releases],
           pending' \in [UpdateRoles -> Releases \cup {None, Partial}]
    PROVE  Inv'
<1>1. Outside({"inventory", "copy", "compare"}) /\ Outside({"seal", "stage", "replace"})
  BY GoesOutside DEF Opening, Switching
<1>2. Backups' /\ Restores'
  BY <1>1, BackupsFrame, RestoresFrame DEF Down
<1>3. TypeOK'
  BY DEF Inv, Types, TypeOK, CommandOK, Entry
<1>. QED  BY <1>2, <1>3 DEF Inv, Types, WritesAreCounted, EndedIsEmpty

\* What the files of an update are, by where it stands.
LEMMA OwnTarget ==
    ASSUME NEW o \in Operators
    PROVE  /\ command[o].at \in Opening => Own(o) = UpdateRoles \ Todo(o)
           /\ command[o].at \in Switching => Own(o) = Todo(o)
           /\ command[o].at \notin Opening \cup Switching => Own(o) = {}
           /\ Target(o) \in Releases
BY DEF Own, Target, Opening, Switching

\* A command that does not move keeps its files and its target.
LEMMA OwnKept ==
    ASSUME NEW o \in Operators, command'[o] = command[o]
    PROVE  Own(o)' = Own(o) /\ Target(o)' = Target(o) /\ Todo(o)' = Todo(o)
BY DEF Own, Target, Todo

LEMMA BeginUpdateStep ==
    ASSUME Inv, NEW o \in Operators, NEW target \in Releases, BeginUpdate(o, target)
    PROVE  Inv'
<1>. DEFINE place == IF target = "after" THEN "update" ELSE "rollback"
<1>0. /\ TypeOK /\ CommandOK /\ Updates
      /\ Goto(o, place, UpdateRoles) /\ place \in Opening
      /\ UNCHANGED <<service, alive, code, loaded, killed, proxy, data, stage, retained, snapshot,
                     manifest, moment, seal, restored, plan, live, pending, writes>>
  BY DEF Inv, Types, BeginUpdate, Begin, hosting, tree, record, Opening
<1>. HIDE DEF place
<1>1. /\ CommandOK' /\ command'[o].at = place /\ Todo(o)' = UpdateRoles
      /\ \A p \in Operators \ {o} : command'[p] = command[p]
  BY <1>0, GotoEffect DEF Places, OverRoots, Opening, Switching
<1>2. Own(o)' = {}
  BY <1>0, <1>1 DEF Own
<1>3. \A p \in Operators \ {o} : Own(p)' = Own(p) /\ Target(p)' = Target(p) /\ Todo(p)' = Todo(p)
  BY <1>1, OwnKept
<1>4. PendingIsOwned'
  BY <1>0, <1>1, <1>2, <1>3 DEF Updates, PendingIsOwned
<1>5. OneSwitch'
  BY <1>0, <1>1, <1>3 DEF Updates, OneSwitch, Opening, Switching
<1>6. HalfUpdateIsMarked'
  BY <1>0, <1>1, <1>3 DEF Updates, HalfUpdateIsMarked, HalfUpdated, LeftOver
<1>. QED  BY <1>0, <1>1, <1>4, <1>5, <1>6, UpdateFrame DEF TypeOK, Updates

LEMMA OpenPendingStep ==
    ASSUME Inv, NEW o \in Operators, NEW r \in UpdateRoles, OpenPending(o, r)
    PROVE  Inv'
<1>0. /\ TypeOK /\ CommandOK /\ Updates
      /\ command[o].at \in Opening /\ r \in Todo(o) /\ Todo(o) \subseteq UpdateRoles
      /\ UNCHANGED <<service, alive, code, loaded, killed, proxy, data, stage, retained, snapshot,
                     manifest, moment, seal, restored, plan, live, writes>>
  BY DEF Inv, Types, OpenPending, hosting, tree, record, release, bounds, Todo, Opening, CommandOK
<1>1. CASE End(o) /\ UNCHANGED pending
  BY <1>0, <1>1, EndStep
<1>2. CASE /\ pending[r] = None
           /\ pending' = [pending EXCEPT ![r] = Partial]
           /\ Goto(o, command[o].at, Todo(o) \ {r})
  <2>1. /\ CommandOK' /\ command'[o].at = command[o].at /\ Todo(o)' = Todo(o) \ {r}
        /\ \A p \in Operators \ {o} : command'[p] = command[p]
    <3>1. /\ command[o].at \in Places \ {"idle"} /\ command[o].at \notin OverRoots
          /\ Todo(o) \ {r} \in SUBSET (Roles \cup Roots) /\ Todo(o) \ {r} \subseteq UpdateRoles
      BY <1>0 DEF Places, OverRoots, Opening
    <3>. QED  BY <1>0, <1>2, <3>1, GotoEffect
  <2>0. pending \in [UpdateRoles -> Releases \cup {None, Partial}]
    BY <1>0 DEF TypeOK
  <2>2. /\ pending' \in [UpdateRoles -> Releases \cup {None, Partial}]
        /\ pending'[r] = Partial /\ \A q \in UpdateRoles \ {r} : pending'[q] = pending[q]
    BY <1>2, <2>0
  <2>3. \A p \in Operators \ {o} : Own(p)' = Own(p) /\ Target(p)' = Target(p) /\ Todo(p)' = Todo(p)
    BY <2>1, OwnKept
  <2>4. Own(o) = UpdateRoles \ Todo(o) /\ Own(o)' = Own(o) \cup {r} /\ Target(o)' = Target(o)
    BY <1>0, <2>1 DEF Own, Target
  <2>5. \A p \in Operators : Own(p) \subseteq UpdateRoles /\ r \notin Own(p)
    <3>1. \A p \in Operators : Own(p) \subseteq UpdateRoles
      BY <1>0, OwnTarget DEF CommandOK
    <3>2. \A p \in Operators : Target(p) # None
      BY OwnTarget
    <3>. QED  BY <1>0, <1>2, <3>1, <3>2 DEF Updates, PendingIsOwned
  <2>6. command'[o].at \notin Switching
    BY <1>0, <2>1 DEF Opening, Switching
  <2>7. PendingIsOwned'
    <3>1. \A p \in Operators : \A q \in Own(p)' :
             /\ pending'[q] \in {Partial, Target(p)'}
             /\ command'[p].at \in Switching => pending'[q] = Target(p)'
      BY <1>0, <2>1, <2>2, <2>3, <2>4, <2>5, <2>6 DEF Updates, PendingIsOwned
    <3>2. \A p, q \in Operators : p # q => Own(p)' \cap Own(q)' = {}
      BY <1>0, <2>3, <2>4, <2>5 DEF Updates, PendingIsOwned
    <3>. QED  BY <3>1, <3>2 DEF PendingIsOwned
  <2>8. OneSwitch'
    BY <1>0, <2>1, <2>3, <2>6 DEF Updates, OneSwitch
  <2>9. HalfUpdateIsMarked'
    <3>1. SUFFICES ASSUME HalfUpdated PROVE \E q \in UpdateRoles : LeftOver(q)'
      BY <1>0 DEF HalfUpdateIsMarked, HalfUpdated
    <3>2. PICK q \in UpdateRoles : LeftOver(q)
      BY <1>0, <3>1 DEF Updates, HalfUpdateIsMarked
    <3>3. q # r
      BY <1>2, <3>2 DEF LeftOver
    <3>4. LeftOver(q)'
      BY <2>1, <2>2, <2>3, <3>2, <3>3 DEF LeftOver
    <3>. QED  BY <3>4
  <2>. QED  BY <1>0, <2>1, <2>2, <2>7, <2>8, <2>9, UpdateFrame DEF TypeOK, Updates
<1>. QED  BY <1>1, <1>2 DEF OpenPending, Todo

LEMMA WritePendingStep ==
    ASSUME Inv, NEW o \in Operators, NEW r \in UpdateRoles, WritePending(o, r)
    PROVE  Inv'
<1>0. /\ TypeOK /\ CommandOK /\ Updates
      /\ command[o].at \in Opening /\ r \notin Todo(o) /\ pending[r] = Partial
      /\ pending' = [pending EXCEPT ![r] = Target(o)]
      /\ UNCHANGED <<service, alive, code, loaded, killed, proxy, data, stage, retained, snapshot,
                     manifest, moment, seal, restored, plan, live, writes, command>>
  BY DEF Inv, Types, WritePending, hosting, tree, record, release, bounds, Todo, Opening
<1>1. /\ CommandOK' /\ command' = command
      /\ \A p \in Operators : Own(p)' = Own(p) /\ Target(p)' = Target(p) /\ Todo(p)' = Todo(p)
  BY <1>0, OwnKept DEF CommandOK, At, Todo
<1>2. /\ pending' \in [UpdateRoles -> Releases \cup {None, Partial}]
      /\ pending'[r] = Target(o) /\ \A q \in UpdateRoles \ {r} : pending'[q] = pending[q]
  BY <1>0, OwnTarget DEF TypeOK
<1>3. r \in Own(o)
  BY <1>0 DEF Own
<1>4. PendingIsOwned'
  <2>1. \A p \in Operators : Own(p) \subseteq UpdateRoles
    BY <1>0, OwnTarget DEF CommandOK
  <2>2. \A p \in Operators \ {o} : r \notin Own(p)
    BY <1>0, <1>3 DEF Updates, PendingIsOwned
  <2>. QED  BY <1>0, <1>1, <1>2, <2>1, <2>2 DEF Updates, PendingIsOwned
<1>5. OneSwitch'
  BY <1>0, <1>1 DEF Updates, OneSwitch
<1>6. HalfUpdateIsMarked'
  <2>1. \A q \in UpdateRoles : pending[q] # None => pending'[q] # None
    BY <1>2, OwnTarget
  <2>2. \A q \in UpdateRoles : LeftOver(q) => LeftOver(q)'
    BY <1>1, <2>1 DEF LeftOver
  <2>. QED  BY <1>0, <2>2 DEF Updates, HalfUpdateIsMarked, HalfUpdated
<1>. QED  BY <1>0, <1>1, <1>2, <1>4, <1>5, <1>6, UpdateFrame DEF TypeOK, Updates

LEMMA ConfirmUpdateStep ==
    ASSUME Inv, NEW o \in Operators, ConfirmUpdate(o)
    PROVE  Inv' /\ ~HalfUpdated
<1>. DEFINE place == IF At(o, "update") THEN "updating" ELSE "rollingBack"
<1>0. /\ TypeOK /\ CommandOK /\ Updates /\ place \in Switching
      /\ command[o].at \in Opening /\ Todo(o) = {}
      /\ \A r \in UpdateRoles : pending[r] # Partial
      /\ UNCHANGED <<service, alive, code, loaded, killed, proxy, data, stage, retained, snapshot,
                     manifest, moment, seal, restored, plan, live, pending, writes>>
  BY DEF Inv, Types, ConfirmUpdate, OnlyCommand, hosting, tree, record, release, bounds, Todo,
       Opening, Switching
<1>1. ~HalfUpdated
  BY <1>0 DEF Updates, HalfUpdateIsMarked, LeftOver
<1>2. CASE End(o)
  BY <1>0, <1>1, <1>2, EndStep
<1>3. CASE Goto(o, place, UpdateRoles)
  <2>0. Target(o)' = Target(o)
    <3>1. command'[o].at = place
      <4>. HIDE DEF place
      <4>. QED  BY <1>0, <1>3, GotoEffect DEF Places, OverRoots, Opening, Switching
    <3>. QED  BY <1>0, <3>1 DEF Target, Opening, At
  <2>. HIDE DEF place
  <2>1. /\ CommandOK' /\ command'[o].at = place /\ Todo(o)' = UpdateRoles
        /\ \A p \in Operators \ {o} : command'[p] = command[p]
    BY <1>0, <1>3, GotoEffect DEF Places, OverRoots, Opening, Switching
  <2>2. \A p \in Operators \ {o} : Own(p)' = Own(p) /\ Target(p)' = Target(p) /\ Todo(p)' = Todo(p)
    BY <2>1, OwnKept
  <2>3. Own(o) = UpdateRoles /\ Own(o)' = UpdateRoles
    BY <1>0, <2>1 DEF Own, Opening, Switching
  <2>4. \A p \in Operators \ {o} : Own(p) = {}
    <3>1. \A p \in Operators : Own(p) \subseteq UpdateRoles
      BY <1>0, OwnTarget DEF CommandOK
    <3>. QED  BY <1>0, <2>3, <3>1 DEF Updates, PendingIsOwned
  <2>5. PendingIsOwned'
    BY <1>0, <2>0, <2>1, <2>2, <2>3, <2>4 DEF Updates, PendingIsOwned
  <2>6. OneSwitch'
    <3>1. \A p \in Operators \ {o} : command[p].at \in Switching => Todo(p) = {}
      BY <2>4, OwnTarget
    <3>. QED  BY <1>0, <2>1, <2>2, <3>1 DEF OneSwitch
  <2>7. HalfUpdateIsMarked'
    BY <1>0, <1>1 DEF HalfUpdateIsMarked, HalfUpdated
  <2>. QED  BY <1>0, <1>1, <2>1, <2>5, <2>6, <2>7, UpdateFrame DEF TypeOK, Updates
<1>. QED  BY <1>2, <1>3 DEF ConfirmUpdate

LEMMA ReplaceStep ==
    ASSUME Inv, NEW o \in Operators, NEW r \in UpdateRoles, Replace(o, r)
    PROVE  Inv'
<1>0. /\ TypeOK /\ CommandOK /\ Updates
      /\ command[o].at \in Switching /\ r \in Todo(o) /\ Todo(o) \subseteq UpdateRoles
      /\ UNCHANGED <<service, alive, code, loaded, killed, proxy, data, stage, retained, snapshot,
                     manifest, moment, seal, restored, plan, writes>>
  BY DEF Inv, Types, Replace, hosting, tree, record, release, bounds, Todo, Switching, CommandOK
<1>1. Own(o) = Todo(o) /\ pending[r] = Target(o) /\ Target(o) \in Releases
  BY <1>0, OwnTarget DEF Updates, PendingIsOwned
<1>2. /\ live' = [live EXCEPT ![r] = Target(o)]
      /\ pending' = [pending EXCEPT ![r] = None]
      /\ Goto(o, command[o].at, Todo(o) \ {r})
  BY <1>1 DEF Replace, Todo
<1>3. /\ CommandOK' /\ command'[o].at = command[o].at /\ Todo(o)' = Todo(o) \ {r}
      /\ \A p \in Operators \ {o} : command'[p] = command[p]
  BY <1>0, <1>2, GotoEffect DEF Places, OverRoots, Opening, Switching
<1>4. /\ pending' \in [UpdateRoles -> Releases \cup {None, Partial}]
      /\ live' \in [UpdateRoles -> Releases]
      /\ pending'[r] = None /\ live'[r] = Target(o)
      /\ \A q \in UpdateRoles \ {r} : pending'[q] = pending[q] /\ live'[q] = live[q]
  BY <1>0, <1>1, <1>2 DEF TypeOK
<1>5. \A p \in Operators \ {o} : Own(p)' = Own(p) /\ Target(p)' = Target(p) /\ Todo(p)' = Todo(p)
  BY <1>3, OwnKept
<1>6. Own(o)' = Own(o) \ {r} /\ Target(o)' = Target(o)
  BY <1>0, <1>1, <1>3 DEF Own, Target, Opening, Switching
<1>7. \A p \in Operators : Own(p) \subseteq UpdateRoles
  BY <1>0, OwnTarget DEF CommandOK
<1>8. \A p \in Operators \ {o} : r \notin Own(p)
  BY <1>0, <1>1 DEF Updates, PendingIsOwned
<1>9. PendingIsOwned'
  <2>1. \A p \in Operators : \A q \in Own(p)' :
           /\ pending'[q] \in {Partial, Target(p)'}
           /\ command'[p].at \in Switching => pending'[q] = Target(p)'
    BY <1>0, <1>3, <1>4, <1>5, <1>6, <1>7, <1>8 DEF Updates, PendingIsOwned
  <2>2. \A p, q \in Operators : p # q => Own(p)' \cap Own(q)' = {}
    BY <1>0, <1>5, <1>6 DEF Updates, PendingIsOwned
  <2>. QED  BY <2>1, <2>2 DEF PendingIsOwned
<1>10. /\ \A p \in Operators \ {o} : command[p].at \in Switching => Todo(p) = {}
       /\ \A q \in UpdateRoles \ Todo(o) : live[q] = Target(o)
  BY <1>0 DEF Updates, OneSwitch
<1>11. OneSwitch'
  BY <1>0, <1>3, <1>4, <1>5, <1>6, <1>10 DEF OneSwitch
<1>12. HalfUpdateIsMarked'
  <2>1. CASE Todo(o) \ {r} = {}
    BY <1>0, <1>4, <1>10, <2>1 DEF HalfUpdateIsMarked, HalfUpdated
  <2>2. ASSUME NEW q \in Todo(o) \ {r} PROVE LeftOver(q)'
    <3>1. pending'[q] # None
      BY <1>0, <1>1, <1>4, <2>2 DEF Updates, PendingIsOwned
    <3>2. \A p \in Operators : command'[p].at \in Opening => q \in Todo(p)'
      <4>1. command'[o].at \notin Opening
        BY <1>0, <1>3 DEF Opening, Switching
      <4>2. ASSUME NEW p \in Operators \ {o}, command[p].at \in Opening PROVE q \in Todo(p)
        BY <1>0, <1>1, <2>2, <4>2, OwnTarget DEF Updates, PendingIsOwned
      <4>. QED  BY <1>3, <1>5, <4>1, <4>2
    <3>. QED  BY <3>1, <3>2 DEF LeftOver
  <2>. QED  BY <1>0, <2>1, <2>2 DEF HalfUpdateIsMarked
<1>. QED  BY <1>0, <1>3, <1>4, <1>9, <1>11, <1>12, UpdateFrame DEF TypeOK, Updates

LEMMA UpdateReportedStep ==
    ASSUME Inv, NEW o \in Operators, UpdateReported(o)
    PROVE  Inv'
BY EndStep DEF UpdateReported, OnlyCommand, hosting, tree, record, release, bounds

-----------------------------------------------------------------------------
(* The theorems.                                                           *)

LEMMA StutterStep == ASSUME Inv, UNCHANGED vars PROVE Inv'
<1>. USE DEF vars, hosting, tree, record, release, bounds, At, Todo
<1>1. Types' /\ EndedIsEmpty'
  BY DEF Inv, Types, TypeOK, CommandOK, WritesAreCounted, EndedIsEmpty
<1>2. /\ Outside({"inventory", "copy", "compare"}) /\ Outside({"seal", "stage", "replace"})
      /\ Outside(Opening \cup Switching)
  BY DEF Outside
<1>3. Backups' /\ Restores' /\ Updates'
  BY <1>1, <1>2, BackupsFrame, RestoresFrame, UpdatesFrame DEF Types, Down
<1>. QED  BY <1>1, <1>3 DEF Inv

LEMMA OperateStep == ASSUME Inv, NEW o \in Operators, Operate(o) PROVE Inv'
BY StopStep, BeginBackupStep, BeginRestoreStep, BeginUpdateStep, CreateSnapshotStep,
   ConfirmBackupStep, WriteManifestStep, CreateSealStep, ConfirmRestoreStep,
   RestoreReportedStep, InventoryStep, CopyRootStep, CompareRootStep, StageRootStep,
   RetainRootStep, InstallRootStep, OpenPendingStep, WritePendingStep, ReplaceStep,
   ConfirmUpdateStep, UpdateReportedStep DEF Operate

LEMMA InvStep == Inv /\ [Next]_vars => Inv'
BY StutterStep, OperateStep, HostStep, EnvironmentStep DEF Next

\* Only a confirmed update starts to rename, and only such a one renames.
NoNewSwitch == /\ UNCHANGED live
               /\ \A o \in Operators : command'[o].at \in Switching => command[o].at \in Switching

LEMMA EndedNoSwitch ==
    ASSUME CommandOK, NEW o \in Operators, End(o), UNCHANGED live
    PROVE  NoNewSwitch
BY EndEffect DEF NoNewSwitch, Switching

LEMMA WentNoSwitch ==
    ASSUME CommandOK, NEW o \in Operators, NEW place, NEW todo, Goto(o, place, todo),
           place \notin Switching \/ place = command[o].at, UNCHANGED live
    PROVE  NoNewSwitch
<1>1. command[o] \in Entry
  BY SeenKept
<1>2. command'[o].at = place
  BY <1>1 DEF Goto, CommandOK, Entry
<1>3. \A p \in Operators \ {o} : command'[p] = command[p]
  BY DEF Goto, CommandOK
<1>. QED  BY <1>2, <1>3 DEF NoNewSwitch

LEMMA StaysNoSwitch == ASSUME UNCHANGED <<live, command>> PROVE NoNewSwitch
BY DEF NoNewSwitch

LEMMA WhoSwitches ==
    ASSUME CommandOK, TypeOK, Next
    PROVE  \/ NoNewSwitch
           \/ \E o \in Operators : ConfirmUpdate(o) /\ UNCHANGED live
           \/ \E o \in Operators, r \in UpdateRoles : Replace(o, r)
<1>. USE DEF release
<1>1. ASSUME NEW r \in Roles, Host(r) PROVE NoNewSwitch
  BY <1>1, HostLeaves, StaysNoSwitch
<1>2. CASE ProxyStops \/ PrepareUpdate \/ Unseal \/ ReopenProxy \/ Damage
  BY <1>2, StaysNoSwitch DEF ProxyStops, PrepareUpdate, Unseal, ReopenProxy, Damage
<1>3. ASSUME NEW o \in Operators, Operate(o)
      PROVE  \/ NoNewSwitch
             \/ ConfirmUpdate(o) /\ UNCHANGED live
             \/ \E r \in UpdateRoles : Replace(o, r)
  <2>1. CASE BeginStop(o) \/ BeginBackup(o) \/ BeginRestore(o) \/ \E t \in Releases : BeginUpdate(o, t)
    BY <2>1, WentNoSwitch DEF BeginStop, BeginBackup, BeginRestore, BeginUpdate, Begin, Switching
  <2>2. CASE StopNext(o) \/ StopConfirmed(o) \/ Interrupt(o) \/ UpdateReported(o)
    BY <2>2, WentNoSwitch, EndedNoSwitch, StaysNoSwitch
       DEF StopNext, StopConfirmed, Interrupt, UpdateReported, OnlyCommand, Switching
  <2>3. CASE CreateSnapshot(o) \/ ConfirmBackup(o) \/ WriteManifest(o)
    BY <2>3, WentNoSwitch, EndedNoSwitch
       DEF CreateSnapshot, ConfirmBackup, WriteManifest, Switching
  <2>4. CASE CreateSeal(o) \/ ConfirmRestore(o) \/ RestoreReported(o)
    BY <2>4, WentNoSwitch, EndedNoSwitch
       DEF CreateSeal, ConfirmRestore, RestoreReported, OnlyCommand, Switching
  <2>5. ASSUME NEW r \in Roots, Inventory(o, r) PROVE NoNewSwitch
    <3>1. UNCHANGED live /\ At(o, "inventory")
      BY <2>5 DEF Inventory, OnlyCommand
    <3>2. CASE data[r] = None
      BY <2>5, <3>1, <3>2, EndedNoSwitch DEF Inventory
    <3>3. CASE data[r] # None
      BY <2>5, <3>1, <3>3, InventoryEffect DEF NoNewSwitch, Switching
    <3>. QED  BY <3>2, <3>3
  <2>6. ASSUME NEW r \in Roots, CopyRoot(o, r) \/ CompareRoot(o, r) \/ StageRoot(o, r)
        PROVE  NoNewSwitch
    BY <2>6, WentNoSwitch, EndedNoSwitch DEF CopyRoot, CompareRoot, StageRoot, OnlyCommand, Switching
  <2>7. ASSUME NEW r \in Roots, RetainRoot(o, r) \/ InstallRoot(o, r) PROVE NoNewSwitch
    BY <2>7, WentNoSwitch, EndedNoSwitch, StaysNoSwitch DEF RetainRoot, InstallRoot, Switching
  <2>8. ASSUME NEW r \in UpdateRoles, OpenPending(o, r) \/ WritePending(o, r) PROVE NoNewSwitch
    BY <2>8, WentNoSwitch, EndedNoSwitch, StaysNoSwitch DEF OpenPending, WritePending
  <2>9. CASE ConfirmUpdate(o)
    BY <2>9 DEF ConfirmUpdate, OnlyCommand
  <2>. QED  BY <1>3, <2>1, <2>2, <2>3, <2>4, <2>5, <2>6, <2>7, <2>8, <2>9 DEF Operate
<1>. QED  BY <1>1, <1>2, <1>3 DEF Next

\* The parts of the invariant hold in every state of every behaviour, with
\* commands of two and more operators interleaved at every file operation.
THEOREM Invariance == Spec => []Inv
BY InvInit, InvStep, PTL DEF Spec

\* The state keeps its type: above all a release specification never names a
\* half-written one and a root never gets an unverified copy.
THEOREM TypeCorrect == Spec => []TypeOK
BY Invariance, PTL DEF Inv, Types

\* A service reported stopped with success has no process left and none of its
\* processes was killed, whatever its child, its descendants, its host and the
\* deadline did (SvcDoRun).
THEOREM StopKillsNothing == Spec => []CleanStopKillsNothing
<1>1. Inv => CleanStopKillsNothing
  BY DEF Inv, EndedIsEmpty, CleanStopKillsNothing
<1>. QED  BY <1>1, Invariance, PTL

\* A reported snapshot holds every root as it was at one moment, although
\* services may write between the checks of a backup (backup).
THEOREM SnapshotIsConsistent == Spec => []SnapshotIsOneMoment
BY Invariance, PTL DEF Inv, Backups

\* While some roots are restored and some are not, whether the restore runs
\* or has died, the proxy is down and no reader or worker lives (restore).
THEOREM MixedIsNeverServed == Spec => []MixedStateIsNotServed
<1>1. Inv => MixedStateIsNotServed
  BY DEF Inv, Types, Restores, MixedIsSealed, Down, EndedIsEmpty, MixedStateIsNotServed
<1>. QED  BY <1>1, Invariance, PTL

\* Once an update has died half way no command replaces a specification
\* again (apply_update).
THEOREM HalfUpdatesStay == Spec => HalfUpdateIsFrozen
<1>. DEFINE Frozen == /\ \E q, r \in UpdateRoles : live[q] # live[r]
                      /\ ~Replacing
                      => UNCHANGED live /\ ~Replacing'
<1>1. Inv /\ [Next]_vars => Frozen \/ UNCHANGED vars
  <2>1. SUFFICES ASSUME Inv, Next, HalfUpdated, ~Replacing
                 PROVE  UNCHANGED live /\ ~Replacing'
    BY DEF HalfUpdated
  <2>2. ~\E o \in Operators, r \in UpdateRoles : Replace(o, r)
    BY <2>1 DEF Replace, Replacing
  <2>3. ~\E o \in Operators : ConfirmUpdate(o)
    BY <2>1, ConfirmUpdateStep
  <2>4. NoNewSwitch
    BY <2>1, <2>2, <2>3, WhoSwitches DEF Inv, Types
  <2>. QED  BY <2>1, <2>4 DEF NoNewSwitch, Replacing, Switching
<1>. QED  BY <1>1, Invariance, PTL DEF Spec, HalfUpdateIsFrozen
=============================================================================
