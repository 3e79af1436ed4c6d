--------------------------- MODULE AccountControl ---------------------------
(***************************************************************************)
(* Host account commands (identity.py, KeycloakAdminClient) on one account *)
(* of the identity service, which other parties change meanwhile: a reader *)
(* signs in, a password is reset (PasswordRevocationFactory.java).         *)
(*                                                                         *)
(* A command is four requests under a host-local file lock: read the       *)
(* account, replace it, end its sessions, read it again.  Every request    *)
(* may fail or time out, or the process may die; a replacement that failed *)
(* was made, or was not, or is still to be made.                           *)
(***************************************************************************)
EXTENDS Naturals

CONSTANTS
    Operators,  \* processes running `graphmind accounts`
    Nobody,
    MaxEpoch,   \* bound: changes of the account
    MaxLate     \* bound: replacements made after their command has failed

ASSUME AccountAssumption ==
    /\ Nobody \notin Operators
    /\ MaxEpoch \in Nat
    /\ MaxLate \in Nat

Commands == {"disable", "enable", "delete", "restore"}

\* dated: graphmind_deleted_at is present.  Its time is left out.
Accounts == [enabled : BOOLEAN, status : {"active", "disabled", "deleted"},
             dated : BOOLEAN, epoch : 0 .. MaxEpoch]

VARIABLES
    account,
    sessions,  \* the epochs under which its open sessions began
    lock,      \* who holds account-admin.lock
    at,        \* where each command is
    command,
    update,    \* what it writes
    late,      \* replacements given up on that the service still has to make
    lates,
    hits       \* history: late replacements made since a command's own; 2 is many

vars == <<account, sessions, lock, at, command, update, late, lates, hits>>

Working == {"resolving", "replacing", "revoking", "verifying"}

TypeOK ==
    /\ account \in Accounts
    /\ sessions \in SUBSET (0 .. MaxEpoch)
    /\ lock \in Operators \cup {Nobody}
    /\ at \in [Operators -> Working \cup {"idle", "reported", "failed"}]
    /\ command \in [Operators -> Commands]
    /\ update \in [Operators -> Accounts]
    /\ late \in SUBSET Accounts
    /\ lates \in 0 .. MaxLate
    /\ hits \in 0 .. 2

SignedUp == [enabled |-> TRUE, status |-> "active", dated |-> FALSE, epoch |-> 0]

Init ==
    /\ account = SignedUp
    /\ sessions = {}
    /\ lock = Nobody
    /\ at = [o \in Operators |-> "idle"]
    /\ command = [o \in Operators |-> "disable"]
    /\ update = [o \in Operators |-> SignedUp]
    /\ late = {}
    /\ lates = 0
    /\ hits = 0

Deleted(a) == a.status = "deleted" \/ a.dated

\* Mutant of Updated: the command's name is stored for its status.
UpdatedVerbatim(a, c) ==
    [enabled |-> c \in {"enable", "restore"},
     status |-> c,
     dated |-> c = "delete" \/ (c # "restore" /\ a.dated),
     epoch |-> a.epoch + 1]

\* What a command writes over the account it read.
Updated(a, c) ==
    [enabled |-> c \in {"enable", "restore"},
     status |-> IF c = "delete" \/ (c = "disable" /\ Deleted(a)) THEN "deleted"
                ELSE IF c = "disable" THEN "disabled"
                ELSE "active",
     dated |-> c = "delete" \/ (c # "restore" /\ a.dated),
     epoch |-> a.epoch + 1]

-----------------------------------------------------------------------------
(* A command.                                                              *)

Goto(o, place) == at' = [at EXCEPT ![o] = place]
Leave(o, place) == Goto(o, place) /\ lock' = Nobody

\* Mutant of Begin: the commands are not serialised.
BeginUnlocked(o, c) ==
    /\ at[o] \notin Working
    /\ lock' = o
    /\ Goto(o, "resolving")
    /\ command' = [command EXCEPT ![o] = c]
    /\ UNCHANGED <<account, sessions, update, late, lates, hits>>

\* A command that finds the lock taken ends there.
Begin(o, c) ==
    /\ at[o] \notin Working
    /\ lock = Nobody
    /\ lock' = o
    /\ Goto(o, "resolving")
    /\ command' = [command EXCEPT ![o] = c]
    /\ UNCHANGED <<account, sessions, update, late, lates, hits>>

RefuseEnable(o) ==
    /\ at[o] = "resolving"
    /\ command[o] = "enable" /\ Deleted(account)
    /\ Leave(o, "failed")
    /\ UNCHANGED <<account, sessions, command, update, late, lates, hits>>

Resolve(o) ==
    /\ at[o] = "resolving"
    /\ ~(command[o] = "enable" /\ Deleted(account))
    /\ account.epoch < MaxEpoch
    /\ update' = [update EXCEPT ![o] = Updated(account, command[o])]
    /\ Goto(o, "replacing")
    /\ UNCHANGED <<account, sessions, lock, command, late, lates, hits>>

Replace(o) ==
    /\ at[o] = "replacing"
    /\ account' = update[o]
    /\ Goto(o, "revoking")
    /\ hits' = 0
    /\ UNCHANGED <<sessions, lock, command, update, late, lates>>

\* Mutant of Revoke: only the sessions of earlier epochs are ended.
RevokeEarlier(o) ==
    /\ at[o] = "revoking"
    /\ sessions' = {s \in sessions : s >= update[o].epoch}
    /\ Goto(o, "verifying")
    /\ UNCHANGED <<account, lock, command, update, late, lates, hits>>

Revoke(o) ==
    /\ at[o] = "revoking"
    /\ sessions' = {}
    /\ Goto(o, "verifying")
    /\ UNCHANGED <<account, lock, command, update, late, lates, hits>>

\* What is stored must be what was written, the epoch included.
Verify(o) ==
    /\ at[o] = "verifying"
    /\ Leave(o, IF account = update[o] THEN "reported" ELSE "failed")
    /\ UNCHANGED <<account, sessions, command, update, late, lates, hits>>

\* A request fails, or the process dies and the lock with it.
Fail(o) ==
    /\ at[o] \in Working
    /\ Leave(o, "failed")
    /\ \/ UNCHANGED <<account, sessions, late, lates>>
       \/ at[o] = "replacing" /\ account' = update[o] /\ UNCHANGED <<sessions, late, lates>>
       \/ /\ at[o] = "replacing" /\ lates < MaxLate
          /\ late' = late \cup {update[o]} /\ lates' = lates + 1
          /\ UNCHANGED <<account, sessions>>
       \/ at[o] = "revoking" /\ sessions' = {} /\ UNCHANGED <<account, late, lates>>
    /\ UNCHANGED <<command, update, hits>>

-----------------------------------------------------------------------------
(* The identity service.                                                   *)

ReplaceLate(a) ==
    /\ a \in late
    /\ account' = a
    /\ late' = late \ {a}
    /\ hits' = IF hits < 2 THEN hits + 1 ELSE hits
    /\ UNCHANGED <<sessions, lock, at, command, update, lates>>

SignIn ==
    /\ account.enabled
    /\ sessions' = sessions \cup {account.epoch}
    /\ UNCHANGED <<account, lock, at, command, update, late, lates, hits>>

\* The listener runs in the transaction that changes the password.  A private
\* operator may change it whatever the account's state.
ChangePassword(selfService) ==
    /\ selfService => account.enabled /\ account.status = "active" /\ ~account.dated
    /\ account.epoch < MaxEpoch
    /\ account' = [account EXCEPT !.epoch = @ + 1]
    /\ sessions' = {}
    /\ UNCHANGED <<lock, at, command, update, late, lates, hits>>

-----------------------------------------------------------------------------

Next ==
    \/ \E o \in Operators :
          \/ \E c \in Commands : Begin(o, c)
          \/ RefuseEnable(o) \/ Resolve(o) \/ Replace(o) \/ Revoke(o) \/ Verify(o)
          \/ Fail(o)
    \/ \E a \in late : ReplaceLate(a)
    \/ SignIn
    \/ \E selfService \in BOOLEAN : ChangePassword(selfService)

Spec == Init /\ [][Next]_vars

-----------------------------------------------------------------------------
(* Properties.                                                             *)

\* "Serialize CLI processes as well as coroutines so stale reads cannot undo a
\* concurrent deletion" (identity.py:611-612).
StaleReadsUndoNoDeletion ==
    [][Deleted(account) /\ ~Deleted(account') =>
          \E o \in Operators : at[o] = "replacing" /\ command[o] = "restore"]_vars

\* The lock does achieve this as long as no command gave up on a replacement
\* that the service still had to make, whatever else failed, died, or changed
\* the account meanwhile.
DeletionStands ==
    [][lates = 0 /\ Deleted(account) /\ ~Deleted(account') =>
          \E o \in Operators : at[o] = "replacing" /\ command[o] = "restore"]_vars

\* A command that reports success has left no session that began before it,
\* and none at all if it stopped the account, whoever signed in or changed the
\* password while it ran.  One late replacement between its own and its check
\* cannot hide: it shows in the check, or it changed no more than the epoch.
\* Two can: the second may put back what the first had changed.
ReportedIsRevoked ==
    [][\A o \in Operators : at[o] # "reported" /\ at'[o] = "reported" /\ hits <= 1 =>
          /\ \A s \in sessions : s >= update[o].epoch
          /\ command[o] \in {"disable", "delete"} => sessions = {} /\ ~account.enabled]_vars

=============================================================================
