--------------------------- MODULE NativeRecovery ---------------------------
(***************************************************************************)
(* Stopping, snapshotting, restoring and updating a native Windows         *)
(* installation: windows_operations.py and the service host that runs each *)
(* service, windows_service_host.py.                                       *)
(*                                                                         *)
(* Operators run commands, two of them at once if they like; nothing but   *)
(* exclusive file creation keeps the commands apart.  Meanwhile the        *)
(* services live: they are started by an administrator, write to their     *)
(* state, crash, and stop when they are asked to.  A command never cleans  *)
(* up after itself, so failing and dying anywhere are the same step.       *)
(*                                                                         *)
(* The content of a root is the number of writes it has seen.  Capacity,   *)
(* reparse points, access lists and path rules are left out: they refuse a *)
(* command before it changes anything (Interrupt).                         *)
(***************************************************************************)
EXTENDS Naturals, Sequences, FiniteSets, SequencesExt

CONSTANTS
    Operators,
    StopOrder,     \* STOP_ORDER: every role once, application roles first
    UpdateRoles,   \* UPDATE_ROLES
    SealedRoles,   \* the roles the restore seal keeps down
    JavaRoles,     \* roles whose child may end a requested stop with 130
    Roots,         \* the directories a snapshot holds
    None, Partial,
    MaxCommands,   \* bound: commands ever begun
    MaxStarts,     \* bound: service starts by an administrator
    MaxWrites,     \* bound: writes by services
    MaxFaults      \* bound: interrupted commands, crashed hosts, damaged files

Roles == Range(StopOrder)
Content == 0 .. MaxWrites
Releases == {"before", "after"}

ASSUME RecoveryAssumption ==
    /\ UpdateRoles \subseteq Roles
    /\ SealedRoles \subseteq Roles
    /\ JavaRoles \subseteq Roles
    /\ \A n \in {MaxCommands, MaxStarts, MaxWrites, MaxFaults} : n \in Nat
    /\ None # Partial
    /\ {None, Partial} \cap (Nat \cup Releases) = {}
    /\ None \notin [Roots -> Content \cup {None, Partial}]

VARIABLES
    service,   \* per role: what the service manager reports and its host does
    alive,     \* per role: which processes of its job live
    code,      \* per role: exit code of its child
    loaded,    \* per role: the release its child was started from
    killed,    \* history, per role: its host ended by killing what lived
    proxy,     \* the public proxy: its state, and whether it is disabled
    data,      \* per root: its content; None while no directory has its name
    stage, retained,  \* per root: its .restore-stage and .pre-restore trees
    snapshot,  \* the snapshot directory: None, or its content per root
    manifest,  \* snapshot.json
    seal,      \* RESTORE_SEALED.json stands beside the live specifications
    restored,  \* a restore has been reported and not been reconciled yet
    plan,      \* the prepared release change: none, reviewed, or changed since
    live,      \* per update role: the release its live specification names
    pending,   \* per update role: its .pending file
    command,   \* per operator: the command in hand
    moment,    \* history: the roots as a backup checked its copies
    begun, starts, writes, faults

hosting == <<service, alive, code, loaded, killed>>
tree == <<data, stage, retained>>
record == <<snapshot, manifest, moment>>
release == <<plan, live, pending>>
bounds == <<begun, starts, writes, faults>>
vars == <<hosting, proxy, tree, record, seal, restored, release, command, bounds>>

Hosted == {"running", "stopping", "interrupted", "draining"}
Idle == [at |-> "idle", todo |-> {}, seen |-> [r \in {} |-> None]]

At(o, place) == command[o].at = place
Goto(o, place, todo) ==
    command' = [command EXCEPT ![o].at = place, ![o].todo = todo]
\* A command that is done, or raises: main reports that partial files are
\* preserved and undoes nothing.
End(o) == command' = [command EXCEPT ![o] = Idle]

\* The first role of the stop order among some.
First(roles) == CHOOSE r \in roles : \A q \in roles :
    (CHOOSE i \in DOMAIN StopOrder : StopOrder[i] = r)
        <= (CHOOSE i \in DOMAIN StopOrder : StopOrder[i] = q)

\* require_stopped: every service stopped with success, the proxy disabled.
AllStopped ==
    /\ \A r \in Roles : service[r] = "stopped"
    /\ proxy = [state |-> "stopped", disabled |-> TRUE]

Init ==
    /\ \/ service = [r \in Roles |-> "running"]
       \/ service = [r \in Roles |-> "stopped"]
    /\ alive = [r \in Roles |-> IF service[r] = "running" THEN {"child"} ELSE {}]
    /\ code = [r \in Roles |-> 0]
    /\ loaded = [r \in Roles |-> "before"]
    /\ killed = [r \in Roles |-> FALSE]
    /\ proxy \in {[state |-> "running", disabled |-> FALSE],
                  [state |-> "stopped", disabled |-> TRUE]}
    /\ proxy.state = "running" <=> \A r \in Roles : service[r] = "running"
    /\ data = [r \in Roots |-> 0]
    /\ stage = [r \in Roots |-> None]
    /\ retained = [r \in Roots |-> None]
    /\ snapshot = None
    /\ manifest = None
    /\ moment = None
    /\ seal = FALSE
    /\ restored = FALSE
    /\ plan = "none"
    /\ live = [r \in UpdateRoles |-> "before"]
    /\ pending = [r \in UpdateRoles |-> None]
    /\ command = [o \in Operators |-> Idle]
    /\ begun = 0 /\ starts = 0 /\ writes = 0 /\ faults = 0

-----------------------------------------------------------------------------
(* A service and its host (SvcDoRun).                                      *)

SameHost == UNCHANGED <<proxy, tree, record, seal, restored, release, command>>

\* An administrator starts a service.  Its host reads the live
\* specification; the seal turns a reader's or a worker's host away.
Start(r) ==
    /\ service[r] \in {"stopped", "failed"}
    /\ starts < MaxStarts
    /\ starts' = starts + 1
    /\ IF r \in SealedRoles /\ seal
       THEN /\ service' = [service EXCEPT ![r] = "failed"]
            /\ UNCHANGED <<alive, loaded, killed>>
       ELSE /\ service' = [service EXCEPT ![r] = "running"]
            /\ alive' = [alive EXCEPT ![r] = {"child"}]
            /\ killed' = [killed EXCEPT ![r] = FALSE]
            /\ loaded' = [loaded EXCEPT ![r] =
                             IF r \in UpdateRoles THEN live[r] ELSE @]
    /\ UNCHANGED <<code, begun, writes, faults>> /\ SameHost

\* The child starts a process of its own, in the same job.
Spawn(r) ==
    /\ alive[r] = {"child"}
    /\ alive' = [alive EXCEPT ![r] = {"child", "descendant"}]
    /\ UNCHANGED <<service, code, loaded, killed, bounds>> /\ SameHost

\* Any process of a service writes its state.
Write(r, root) ==
    /\ alive[r] # {}
    /\ data[root] # None
    /\ writes < MaxWrites
    /\ writes' = writes + 1
    /\ data' = [data EXCEPT ![root] = writes + 1]
    /\ UNCHANGED <<hosting, proxy, stage, retained, record, seal, restored,
                   release, command, begun, starts, faults>>

ProcessExits(r, p, c) ==
    /\ p \in alive[r]
    /\ alive' = [alive EXCEPT ![r] = @ \ {p}]
    /\ code' = [code EXCEPT ![r] = IF p = "child" THEN c ELSE @]
    /\ p = "descendant" => c = 0
    /\ UNCHANGED <<service, loaded, killed, bounds>> /\ SameHost

\* The host ends: closing its job kills whatever is left of it.
HostEnds(r, result) ==
    /\ service' = [service EXCEPT ![r] = result]
    /\ alive' = [alive EXCEPT ![r] = {}]
    /\ killed' = [killed EXCEPT ![r] = alive[r] # {}]
    /\ UNCHANGED <<code, loaded>>

UnexpectedExit(r) ==
    /\ service[r] = "running"
    /\ "child" \notin alive[r]
    /\ HostEnds(r, "failed")
    /\ UNCHANGED bounds /\ SameHost

\* The stop command has been tried; a child that still lives gets CTRL+C.
SendInterrupt(r) ==
    /\ service[r] = "stopping"
    /\ "child" \in alive[r]
    /\ service' = [service EXCEPT ![r] = "interrupted"]
    /\ UNCHANGED <<alive, code, loaded, killed, bounds>> /\ SameHost

\* clean_child_stop.
CleanExit(r) ==
    \/ code[r] = 0
    \/ code[r] = 130 /\ service[r] = "interrupted" /\ r \in JavaRoles

\* The child has ended in time: wait for its descendants, or fail.
Reap(r) ==
    /\ service[r] \in {"stopping", "interrupted"}
    /\ "child" \notin alive[r]
    /\ IF CleanExit(r)
       THEN /\ service' = [service EXCEPT ![r] = "draining"]
            /\ UNCHANGED <<alive, code, loaded, killed>>
       ELSE HostEnds(r, "failed")
    /\ UNCHANGED bounds /\ SameHost

\* Mutant: the descendants are not waited for; the job's end kills them.
DrainedUnwaited(r) ==
    /\ service[r] = "draining"
    /\ HostEnds(r, "stopped")
    /\ UNCHANGED bounds /\ SameHost

Drained(r) ==
    /\ service[r] = "draining"
    /\ alive[r] = {}
    /\ HostEnds(r, "stopped")
    /\ UNCHANGED bounds /\ SameHost

\* The deadline passes with processes left: the job is terminated.
ForcedStop(r) ==
    /\ service[r] \in {"interrupted", "draining"}
    /\ alive[r] # {}
    /\ HostEnds(r, "failed")
    /\ UNCHANGED bounds /\ SameHost

HostDies(r) ==
    /\ service[r] \in Hosted
    /\ faults < MaxFaults
    /\ faults' = faults + 1
    /\ HostEnds(r, "failed")
    /\ UNCHANGED <<begun, starts, writes>> /\ SameHost

ProxyStops ==
    /\ proxy.state = "stopping"
    /\ proxy' = [proxy EXCEPT !.state = "stopped"]
    /\ UNCHANGED <<hosting, tree, record, seal, restored, release, command, bounds>>

-----------------------------------------------------------------------------
(* Commands begin.                                                         *)

Begin(o, place, todo) ==
    /\ At(o, "idle")
    /\ begun < MaxCommands
    /\ begun' = begun + 1
    /\ Goto(o, place, todo)
    /\ UNCHANGED <<hosting, tree, record, seal, restored, live, pending,
                   starts, writes, faults>>

\* quiesce disables the proxy before it asks it to stop.
BeginStop(o) ==
    /\ Begin(o, "stop", Roles)
    /\ proxy' = [state |-> IF proxy.state = "running" THEN "stopping" ELSE proxy.state,
                 disabled |-> TRUE]
    /\ UNCHANGED plan

\* The remaining commands check first that all is stopped, or raise.
BeginBackup(o) ==
    AllStopped /\ Begin(o, "inventory", Roots) /\ UNCHANGED <<proxy, plan>>

\* restore verifies the reviewed manifest, every copy and that no trees of
\* an earlier restore are left.
BeginRestore(o) ==
    /\ manifest # None
    /\ AllStopped
    /\ snapshot = manifest
    /\ \A r \in Roots : stage[r] = None /\ retained[r] = None
    /\ Begin(o, "seal", Roots)
    /\ UNCHANGED <<proxy, plan>>

\* prepare_update writes a new directory and no service file.
PrepareUpdate ==
    /\ plan = "none"
    /\ plan' = "reviewed"
    /\ UNCHANGED <<hosting, proxy, tree, record, seal, restored, live, pending,
                   command, bounds>>

Source(target) == IF target = "after" THEN "before" ELSE "after"

\* apply_update: the plan is as reviewed and every live specification is
\* the one it would replace.
BeginUpdate(o, target) ==
    /\ plan = "reviewed"
    /\ \A r \in UpdateRoles : live[r] = Source(target)
    /\ AllStopped
    /\ Begin(o, IF target = "after" THEN "update" ELSE "rollback", UpdateRoles)
    /\ UNCHANGED <<proxy, plan>>

-----------------------------------------------------------------------------
(* Stop.                                                                   *)

OnlyCommand == UNCHANGED <<hosting, proxy, tree, record, seal, restored, release, bounds>>

\* A service that is running is asked to stop, one that has stopped is done.
StopNext(o) ==
    /\ At(o, "stop")
    /\ proxy.state = "stopped"
    /\ command[o].todo # {}
    /\ LET r == First(command[o].todo) IN
       \/ /\ service[r] = "running"
          /\ service' = [service EXCEPT ![r] = "stopping"]
          /\ UNCHANGED <<alive, code, loaded, killed, command>>
       \/ /\ service[r] \in {"stopped", "failed"}
          /\ Goto(o, "stop", command[o].todo \ {r})
          /\ UNCHANGED hosting
    /\ UNCHANGED <<proxy, tree, record, seal, restored, release, bounds>>

StopConfirmed(o) ==
    /\ At(o, "stop")
    /\ command[o].todo = {}
    /\ End(o)
    /\ OnlyCommand

-----------------------------------------------------------------------------
(* Backup.                                                                 *)

\* inventory of one root, before anything is copied.
Inventory(o, r) ==
    /\ At(o, "inventory")
    /\ r \in command[o].todo
    /\ IF data[r] = None
       THEN End(o)
       ELSE command' = [command EXCEPT
                ![o].todo = @ \ {r},
                ![o].seen = [q \in DOMAIN @ \cup {r} |-> IF q = r THEN data[r] ELSE @[q]]]
    /\ OnlyCommand

\* private_directory: the snapshot is created exclusively.
CreateSnapshot(o) ==
    /\ At(o, "inventory")
    /\ command[o].todo = {}
    /\ IF snapshot = None
       THEN /\ snapshot' = [r \in Roots |-> None]
            /\ Goto(o, "copy", Roots)
       ELSE /\ UNCHANGED snapshot
            /\ End(o)
    /\ UNCHANGED <<hosting, proxy, tree, manifest, moment, seal, restored, release, bounds>>

\* The copy is compared with the inventory.
CopyRoot(o, r) ==
    /\ At(o, "copy")
    /\ r \in command[o].todo
    /\ snapshot' = [snapshot EXCEPT ![r] = data[r]]
    /\ IF data[r] = command[o].seen[r]
       THEN Goto(o, "copy", command[o].todo \ {r})
       ELSE End(o)
    /\ UNCHANGED <<hosting, proxy, tree, manifest, moment, seal, restored, release, bounds>>

ConfirmBackup(o) ==
    /\ At(o, "copy")
    /\ command[o].todo = {}
    /\ IF AllStopped THEN Goto(o, "compare", Roots) ELSE End(o)
    /\ moment' = data
    /\ UNCHANGED <<hosting, proxy, tree, snapshot, manifest, seal, restored, release, bounds>>

\* Mutant: the source is not compared again.
CompareRootTrusting(o, r) ==
    /\ At(o, "compare")
    /\ r \in command[o].todo
    /\ Goto(o, "compare", command[o].todo \ {r})
    /\ OnlyCommand

\* Second inventory: has the source changed while it was copied?
CompareRoot(o, r) ==
    /\ At(o, "compare")
    /\ r \in command[o].todo
    /\ IF data[r] = command[o].seen[r]
       THEN Goto(o, "compare", command[o].todo \ {r})
       ELSE End(o)
    /\ OnlyCommand

WriteManifest(o) ==
    /\ At(o, "compare")
    /\ command[o].todo = {}
    /\ manifest' = command[o].seen
    /\ End(o)
    /\ UNCHANGED <<hosting, proxy, tree, snapshot, moment, seal, restored, release, bounds>>

-----------------------------------------------------------------------------
(* Restore.                                                                *)

\* The seal is created exclusively and survives whatever follows.
CreateSeal(o) ==
    /\ At(o, "seal")
    /\ IF seal THEN End(o) ELSE Goto(o, "stage", Roots)
    /\ seal' = TRUE
    /\ UNCHANGED <<hosting, proxy, tree, record, restored, release, bounds>>

\* Mutant: the staged copy is not verified.
StageRootUnverified(o, r) ==
    /\ At(o, "stage")
    /\ r \in command[o].todo
    /\ stage' = [stage EXCEPT ![r] = snapshot[r]]
    /\ Goto(o, "stage", command[o].todo \ {r})
    /\ UNCHANGED <<hosting, proxy, data, retained, record, seal, restored, release, bounds>>

\* private_directory, copy_tree and the verification of the copy.
StageRoot(o, r) ==
    /\ At(o, "stage")
    /\ r \in command[o].todo
    /\ stage' = [stage EXCEPT ![r] = IF @ = None THEN snapshot[r] ELSE @]
    /\ IF stage[r] = None /\ snapshot[r] = manifest[r]
       THEN Goto(o, "stage", command[o].todo \ {r})
       ELSE End(o)
    /\ UNCHANGED <<hosting, proxy, data, retained, record, seal, restored, release, bounds>>

\* Mutant: the services are not looked at again before the roots are replaced.
ConfirmRestoreBlindly(o) ==
    /\ At(o, "stage")
    /\ command[o].todo = {}
    /\ Goto(o, "replace", Roots)
    /\ OnlyCommand

\* scm.require_stopped again, after everything was staged.
ConfirmRestore(o) ==
    /\ At(o, "stage")
    /\ command[o].todo = {}
    /\ IF AllStopped THEN Goto(o, "replace", Roots) ELSE End(o)
    /\ OnlyCommand

RetainRoot(o, r) ==
    /\ At(o, "replace")
    /\ r \in command[o].todo
    /\ \A q \in Roots : data[q] # None
    /\ IF retained[r] = None
       THEN /\ retained' = [retained EXCEPT ![r] = data[r]]
            /\ data' = [data EXCEPT ![r] = None]
            /\ UNCHANGED command
       ELSE /\ End(o)
            /\ UNCHANGED <<data, retained>>
    /\ UNCHANGED <<hosting, proxy, stage, record, seal, restored, release, bounds>>

InstallRoot(o, r) ==
    /\ At(o, "replace")
    /\ r \in command[o].todo
    /\ data[r] = None
    /\ data' = [data EXCEPT ![r] = stage[r]]
    /\ stage' = [stage EXCEPT ![r] = None]
    /\ Goto(o, "replace", command[o].todo \ {r})
    /\ UNCHANGED <<hosting, proxy, retained, record, seal, restored, release, bounds>>

RestoreReported(o) ==
    /\ At(o, "replace")
    /\ command[o].todo = {}
    /\ restored' = TRUE
    /\ End(o)
    /\ UNCHANGED <<hosting, proxy, tree, record, seal, release, bounds>>

\* After a reported restore the operator reconciles and removes the seal.
Unseal ==
    /\ restored
    /\ restored' = FALSE
    /\ seal' = FALSE
    /\ UNCHANGED <<hosting, proxy, tree, record, release, command, bounds>>

\* The operator enables and starts the proxy when nothing is in hand.
ReopenProxy ==
    /\ proxy.disabled /\ proxy.state = "stopped"
    /\ ~seal
    /\ \A o \in Operators : At(o, "idle")
    /\ begun < MaxCommands
    /\ proxy' = [state |-> "running", disabled |-> FALSE]
    /\ UNCHANGED <<hosting, tree, record, seal, restored, release, command, bounds>>

-----------------------------------------------------------------------------
(* Update and rollback.                                                    *)

Target(o) == IF command[o].at \in {"update", "updating"} THEN "after" ELSE "before"

\* Mutant: a .pending file that is there is written over.
OpenPendingOver(o, r) ==
    /\ command[o].at \in {"update", "rollback"}
    /\ r \in command[o].todo
    /\ \A q \in UpdateRoles \ command[o].todo : pending[q] # Partial
    /\ pending' = [pending EXCEPT ![r] = Partial]
    /\ Goto(o, command[o].at, command[o].todo \ {r})
    /\ UNCHANGED <<hosting, proxy, tree, record, seal, restored, plan, live, bounds>>

\* A .pending file is opened exclusively, then written.
OpenPending(o, r) ==
    /\ command[o].at \in {"update", "rollback"}
    /\ r \in command[o].todo
    /\ \A q \in UpdateRoles \ command[o].todo : pending[q] # Partial
    /\ IF pending[r] = None
       THEN /\ pending' = [pending EXCEPT ![r] = Partial]
            /\ Goto(o, command[o].at, command[o].todo \ {r})
       ELSE /\ UNCHANGED pending
            /\ End(o)
    /\ UNCHANGED <<hosting, proxy, tree, record, seal, restored, plan, live, bounds>>

WritePending(o, r) ==
    /\ command[o].at \in {"update", "rollback"}
    /\ r \in UpdateRoles \ command[o].todo
    /\ pending[r] = Partial
    /\ pending' = [pending EXCEPT ![r] = Target(o)]
    /\ UNCHANGED <<hosting, proxy, tree, record, seal, restored, plan, live, command, bounds>>

ConfirmUpdate(o) ==
    /\ command[o].at \in {"update", "rollback"}
    /\ command[o].todo = {}
    /\ \A r \in UpdateRoles : pending[r] # Partial
    /\ IF AllStopped
       THEN Goto(o, IF At(o, "update") THEN "updating" ELSE "rollingBack", UpdateRoles)
       ELSE End(o)
    /\ OnlyCommand

\* os.replace of one specification, in whatever order the set gives.
Replace(o, r) ==
    /\ command[o].at \in {"updating", "rollingBack"}
    /\ r \in command[o].todo
    /\ IF pending[r] = None
       THEN /\ End(o)
            /\ UNCHANGED <<live, pending>>
       ELSE /\ live' = [live EXCEPT ![r] = pending[r]]
            /\ pending' = [pending EXCEPT ![r] = None]
            /\ Goto(o, command[o].at, command[o].todo \ {r})
    /\ UNCHANGED <<hosting, proxy, tree, record, seal, restored, plan, bounds>>

UpdateReported(o) ==
    /\ command[o].at \in {"updating", "rollingBack"}
    /\ command[o].todo = {}
    /\ End(o)
    /\ OnlyCommand

-----------------------------------------------------------------------------
\* A call of the command fails, a wait runs out, or the process is killed.
Interrupt(o) ==
    /\ ~At(o, "idle")
    /\ faults < MaxFaults
    /\ faults' = faults + 1
    /\ End(o)
    /\ UNCHANGED <<hosting, proxy, tree, record, seal, restored, release,
                   begun, starts, writes>>

\* The snapshot or the prepared plan is changed where it lies.
Damage ==
    /\ faults < MaxFaults
    /\ faults' = faults + 1
    /\ \/ /\ manifest # None
          /\ \E r \in Roots : snapshot' = [snapshot EXCEPT ![r] = Partial]
          /\ UNCHANGED plan
       \/ /\ plan = "reviewed"
          /\ plan' = "changed"
          /\ UNCHANGED snapshot
    /\ UNCHANGED <<hosting, proxy, tree, manifest, moment, seal, restored, live,
                   pending, command, begun, starts, writes>>

Host(r) ==
    \/ Start(r) \/ Spawn(r) \/ UnexpectedExit(r) \/ SendInterrupt(r) \/ Reap(r)
    \/ Drained(r) \/ ForcedStop(r) \/ HostDies(r)
    \/ \E root \in Roots : Write(r, root)
    \/ \E p \in {"child", "descendant"}, c \in {0, 1, 130} : ProcessExits(r, p, c)

Operate(o) ==
    \/ BeginStop(o) \/ BeginBackup(o) \/ BeginRestore(o)
    \/ \E target \in Releases : BeginUpdate(o, target)
    \/ StopNext(o) \/ StopConfirmed(o)
    \/ CreateSnapshot(o) \/ ConfirmBackup(o) \/ WriteManifest(o)
    \/ CreateSeal(o) \/ ConfirmRestore(o) \/ RestoreReported(o)
    \/ \E r \in Roots :
          \/ Inventory(o, r) \/ CopyRoot(o, r) \/ CompareRoot(o, r)
          \/ StageRoot(o, r) \/ RetainRoot(o, r) \/ InstallRoot(o, r)
    \/ \E r \in UpdateRoles : OpenPending(o, r) \/ WritePending(o, r) \/ Replace(o, r)
    \/ ConfirmUpdate(o) \/ UpdateReported(o)
    \/ Interrupt(o)

Next ==
    \/ \E r \in Roles : Host(r)
    \/ \E o \in Operators : Operate(o)
    \/ ProxyStops \/ PrepareUpdate \/ Unseal \/ ReopenProxy \/ Damage

Spec == Init /\ [][Next]_vars

-----------------------------------------------------------------------------
(* Properties.                                                             *)

TypeOK ==
    /\ service \in [Roles -> Hosted \cup {"stopped", "failed"}]
    /\ alive \in [Roles -> SUBSET {"child", "descendant"}]
    /\ code \in [Roles -> {0, 1, 130}]
    /\ loaded \in [Roles -> Releases]
    /\ killed \in [Roles -> BOOLEAN]
    /\ proxy \in [state : {"running", "stopping", "stopped"}, disabled : BOOLEAN]
    /\ data \in [Roots -> Content \cup {None}]
    /\ stage \in [Roots -> Content \cup {None, Partial}]
    /\ retained \in [Roots -> Content \cup {None}]
    /\ snapshot \in {None} \cup [Roots -> Content \cup {None, Partial}]
    /\ manifest \in {None} \cup [Roots -> Content]
    /\ moment \in {None} \cup [Roots -> Content \cup {None}]
    /\ seal \in BOOLEAN /\ restored \in BOOLEAN
    /\ plan \in {"none", "reviewed", "changed"}
    /\ live \in [UpdateRoles -> Releases]
    /\ pending \in [UpdateRoles -> Releases \cup {None, Partial}]
    /\ \A o \in Operators : command[o].todo \subseteq Roles \cup Roots

\* What require_stopped rests on: a service that is reported stopped with
\* success was brought down by nobody.  Its child and every descendant ended
\* of their own accord, so none was killed in the middle of a write when the
\* job was closed behind the report, and none is left to write after it
\* (clean_child_stop and the wait for the job, windows_service_host.py:152-160).
CleanStopKillsNothing ==
    \A r \in Roles : service[r] = "stopped" => alive[r] = {} /\ ~killed[r]

\* A reported snapshot is the state of all its roots at one moment, even
\* when a service was started, wrote and stopped again while it was taken
\* (backup's two inventories around two checks).
SnapshotIsOneMoment ==
    manifest # None =>
        /\ manifest = moment
        /\ Partial \in Range(snapshot) \/ snapshot = manifest

\* Some roots are the snapshot's and some are not.
Mixed ==
    /\ \E r \in Roots : retained[r] # None
    /\ \E r \in Roots : retained[r] = None \/ data[r] = None

\* Half-restored state is never served: a reader or a worker started before
\* the seal is seen by the last check, a later one meets the seal, and the
\* proxy is down (restore, main of windows_service_host.py).
MixedStateIsNotServed ==
    Mixed => /\ proxy.state # "running"
             /\ \A r \in SealedRoles : alive[r] = {}

Replacing == \E o \in Operators : command[o].at \in {"updating", "rollingBack"}

\* Live specifications of two releases, with no command replacing them, are
\* what an interrupted update left; no later update or rollback touches
\* them (apply_update: drift, and exclusive .pending files).
HalfUpdateIsFrozen ==
    [][ /\ \E q, r \in UpdateRoles : live[q] # live[r]
        /\ ~Replacing
        => UNCHANGED live /\ ~Replacing' ]_vars
=============================================================================
