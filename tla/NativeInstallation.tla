------------------------- MODULE NativeInstallation -------------------------
(* The three installers of a native host, each run by an operator from a    *)
(* prepared directory whose manifest was approved by its hash: Windows      *)
(* services (tools/windows_installation.py), systemd units                  *)
(* (tools/ubuntu_installation.py) and the Python environment of a release   *)
(* bundle (tools/bundle_installer.py).  All three claim an unused place,    *)
(* copy the approved parts into it, register them, and write a receipt      *)
(* last; what an installer leaves half done is kept for inspection.         *)
(*                                                                          *)
(* Two operators may run the same installer for the same place, each from   *)
(* a directory of their own; the files of a directory may be edited while   *)
(* it is installed, and an installer may fail or die before any step.  A    *)
(* bundle is verified whole, then pip reads its lock again, and compares    *)
(* each wheel with what it read.                                            *)
EXTENDS Naturals, Sequences, FiniteSets

CONSTANTS
    Installers,   \* runs of an installer, each from its own directory
    Parts,        \* the sequence of service names, units or wheels
    Nobody,       \* owner of nothing
    MaxEdits      \* bound on files edited after their preparation

VARIABLES
    kind,       \* "services", "units" or "bundle"
    prepared,   \* prepared[i][p]: "good" or "edited"; what the directory of i holds
    locked,     \* locked[i][p]: the wheel that requirements.lock names in the bundle of i
    approved,   \* approved[i]: the manifest of i has the hash that was approved
    extra,      \* a file the manifest does not list lies in the bundle of i
    ready,      \* the accounts, paths and permissions a unit needs are there
    claimed,    \* who created the place: the live directory or the environment
    live,       \* live[p]: [by, bytes] of the part installed, by Nobody if none
    registered, \* parts the service manager knows (the environment checked)
    run,        \* run[i]: [pc, at, made]
    pinned,     \* pinned[i][p]: what i compares the part with
    receipts,   \* installers that reported success
    halfDone,   \* some installer stopped after it had created something
    edits       \* files edited so far

installVars == <<kind, prepared, locked, approved, extra, ready, claimed, live, registered, run, pinned, receipts,
                 halfDone, edits>>

Range(s) == {s[n] : n \in DOMAIN s}
Names == Range(Parts)
Kinds == {"services", "units", "bundle"}
NoPart == [by |-> Nobody, bytes |-> "none"]
Bytes == {"good", "edited", "none"}
Reviewed == [p \in Names |-> "good"]

TypeOK ==
    /\ kind \in Kinds
    /\ prepared \in [Installers -> [Names -> {"good", "edited"}]]
    /\ locked \in [Installers -> [Names -> Bytes]] /\ pinned \in [Installers -> [Names -> Bytes]]
    /\ approved \in [Installers -> BOOLEAN] /\ extra \in [Installers -> BOOLEAN]
    /\ ready \in BOOLEAN
    /\ claimed \in Installers \cup {Nobody}
    /\ live \in [Names -> [by : Installers \cup {Nobody}, bytes : Bytes]]
    /\ registered \subseteq Names
    /\ run \in [Installers -> [pc : {"review", "check", "claim", "pin", "copy", "register", "report", "done", "failed"},
                               at : 1 .. Len(Parts) + 1, made : BOOLEAN]]
    /\ receipts \subseteq Installers /\ halfDone \in BOOLEAN
    /\ edits \in 0 .. MaxEdits

Init ==
    /\ kind \in Kinds
    /\ prepared = [i \in Installers |-> Reviewed]
    /\ locked = [i \in Installers |-> Reviewed] /\ pinned = [i \in Installers |-> Reviewed]
    /\ approved = [i \in Installers |-> TRUE] /\ extra = [i \in Installers |-> FALSE]
    /\ ready \in BOOLEAN
    /\ claimed = Nobody /\ live = [p \in Names |-> NoPart] /\ registered = {}
    /\ run = [i \in Installers |-> [pc |-> "review", at |-> 1, made |-> FALSE]]
    /\ receipts = {} /\ halfDone = FALSE /\ edits = 0

place == <<claimed, live, registered>>
source == <<kind, prepared, locked, approved, extra, ready, edits>>

Goto(i, pc) ==
    /\ run' = [run EXCEPT ![i].pc = pc, ![i].at = 1]
    /\ halfDone' = (halfDone \/ (pc = "failed" /\ run[i].made))

Made(i) == run' = [run EXCEPT ![i].at = @ + 1, ![i].made = TRUE] /\ UNCHANGED halfDone

PartOf(i) == Parts[run[i].at]

(* A file of a directory is edited, one is added to it, a line of its lock  *)
(* is changed or taken away, or its manifest is replaced.                   *)
Edit(i) ==
    /\ edits < MaxEdits /\ edits' = edits + 1
    /\ \/ (\E p \in Names : prepared' = [prepared EXCEPT ![i][p] = "edited"]) /\ UNCHANGED <<locked, approved, extra>>
       \/ /\ kind = "bundle"
          /\ \E p \in Names, b \in Bytes : locked' = [locked EXCEPT ![i][p] = b]
          /\ UNCHANGED <<prepared, approved, extra>>
       \/ extra' = [extra EXCEPT ![i] = TRUE] /\ UNCHANGED <<prepared, locked, approved>>
       \/ approved' = [approved EXCEPT ![i] = FALSE] /\ UNCHANGED <<prepared, locked, extra>>
    /\ UNCHANGED <<kind, ready, place, run, pinned, receipts, halfDone>>

(* The host's accounts and files are put right, or out of order.            *)
ChangeHost ==
    /\ ready' = ~ready
    /\ UNCHANGED <<kind, prepared, locked, approved, extra, edits, place, run, pinned, receipts, halfDone>>

-----------------------------------------------------------------------------
(* The manifest has the approved hash and lists exactly the parts, and each *)
(* has the listed bytes.                                                    *)
ListedBytes(i) == approved[i] /\ \A p \in Names : prepared[i][p] = "good"

SpecsReviewed(i) == kind = "services" /\ ListedBytes(i)

UnitsReviewed(i) == kind = "units" /\ ListedBytes(i)

(* A bundle must hold nothing else besides, and its lock name what it lists.*)
BundleVerified(i) == kind = "bundle" /\ ListedBytes(i) /\ ~extra[i] /\ locked[i] = Reviewed

(* Only units are installed after a look at the accounts and paths they     *)
(* name, made as those accounts.                                            *)
Preflight == kind = "units" => ready

Review(i) ==
    /\ run[i].pc = "review"
    /\ Goto(i, IF (SpecsReviewed(i) \/ UnitsReviewed(i) \/ BundleVerified(i)) /\ Preflight THEN "check" ELSE "failed")
    /\ UNCHANGED <<source, place, pinned, receipts>>

(* No part is known to the service manager or lies where it would go.  For  *)
(* services the manager is asked for all of them, then the directory.       *)
UnusedServices == registered = {} /\ claimed = Nobody

UnusedUnits == registered = {} /\ \A p \in Names : live[p] = NoPart

Unused == CASE kind = "services" -> UnusedServices
            [] kind = "units" -> UnusedUnits
            [] kind = "bundle" -> claimed = Nobody

Check(i) ==
    /\ run[i].pc = "check"
    /\ Goto(i, IF ~Unused THEN "failed" ELSE IF kind = "units" THEN "copy" ELSE "claim")
    /\ UNCHANGED <<source, place, pinned, receipts>>

Claimed == IF kind = "bundle" THEN "pin" ELSE "copy"

(* A slip a maintainer could make: a directory that appeared meanwhile is   *)
(* used.                                                                    *)
ClaimReusing(i) ==
    /\ run[i].pc = "claim"
    /\ claimed' = i
    /\ run' = [run EXCEPT ![i] = [pc |-> Claimed, at |-> 1, made |-> TRUE]]
    /\ UNCHANGED <<source, live, registered, pinned, receipts, halfDone>>

(* The live directory, or the environment, is created, never reused.        *)
Claim(i) ==
    /\ run[i].pc = "claim"
    /\ IF claimed # Nobody
       THEN Goto(i, "failed") /\ UNCHANGED claimed
       ELSE /\ claimed' = i
            /\ run' = [run EXCEPT ![i] = [pc |-> Claimed, at |-> 1, made |-> TRUE]]
            /\ UNCHANGED halfDone
    /\ UNCHANGED <<source, live, registered, pinned, receipts>>

(* pip reads the lock as it is by then, after the environment is made: what *)
(* was verified is not read again.                                          *)
Pin(i) ==
    /\ run[i].pc = "pin"
    /\ pinned' = [pinned EXCEPT ![i] = locked[i]]
    /\ Goto(i, "copy")
    /\ UNCHANGED <<source, place, receipts>>

-----------------------------------------------------------------------------
(* A slip: what was reviewed is not compared again.                         *)
AcceptableUnchecked(i) == run[i].at \in DOMAIN Parts

(* A part is copied: from a service's specification the bytes are hashed    *)
(* again, a wheel's are compared with the lock pip read; a unit's are not.  *)
Acceptable(i) == kind = "units" \/ prepared[i][PartOf(i)] = pinned[i][PartOf(i)]

(* pip installs only what the lock names.                                   *)
Wanted(i) == pinned[i][PartOf(i)] # "none"

(* Each file is created, and never written over.                            *)
Copy(i) ==
    /\ run[i].pc = "copy" /\ run[i].at <= Len(Parts)
    /\ \/ ~Wanted(i) /\ Made(i) /\ UNCHANGED live
       \/ Wanted(i) /\ (~Acceptable(i) \/ live[PartOf(i)] # NoPart) /\ Goto(i, "failed") /\ UNCHANGED live
       \/ /\ Wanted(i) /\ Acceptable(i) /\ live[PartOf(i)] = NoPart
          /\ live' = [live EXCEPT ![PartOf(i)] = [by |-> i, bytes |-> prepared[i][PartOf(i)]]]
          /\ Made(i)
    /\ UNCHANGED <<source, claimed, registered, pinned, receipts>>

Copied(i) ==
    /\ run[i].pc = "copy" /\ run[i].at > Len(Parts)
    /\ Goto(i, "register")
    /\ UNCHANGED <<source, place, pinned, receipts>>

(* A service is created under its name, which must be free, with the        *)
(* specification just written; all units are loaded at once from their      *)
(* directory; pip checks the whole environment.                             *)
Create(i) ==
    /\ kind = "services" /\ run[i].at <= Len(Parts)
    /\ IF PartOf(i) \in registered
       THEN Goto(i, "failed") /\ UNCHANGED registered
       ELSE registered' = registered \cup {PartOf(i)} /\ Made(i)

Reload(i) == kind # "services" /\ registered' = {p \in Names : live[p] # NoPart} /\ Goto(i, "report")

Register(i) ==
    /\ run[i].pc = "register"
    /\ \/ Create(i)
       \/ Reload(i)
       \/ kind = "services" /\ run[i].at > Len(Parts) /\ Goto(i, "report") /\ UNCHANGED registered
    /\ UNCHANGED <<source, claimed, live, pinned, receipts>>

(* The receipt is the last thing written.                                   *)
Report(i) ==
    /\ run[i].pc = "report"
    /\ receipts' = receipts \cup {i} /\ Goto(i, "done")
    /\ UNCHANGED <<source, place, pinned>>

(* A step fails, or the installer dies: everything stays as it is.          *)
Fail(i) ==
    /\ run[i].pc \in {"check", "claim", "pin", "copy", "register", "report"}
    /\ Goto(i, "failed")
    /\ UNCHANGED <<source, place, pinned, receipts>>

(* The operator tries again from the same directory.                        *)
Retry(i) ==
    /\ run[i].pc = "failed"
    /\ Goto(i, "review")
    /\ UNCHANGED <<source, place, pinned, receipts>>

Next ==
    \/ ChangeHost
    \/ \E i \in Installers : Edit(i) \/ Review(i) \/ Check(i) \/ Claim(i) \/ Pin(i) \/ Copy(i) \/ Copied(i)
                             \/ Register(i) \/ Report(i) \/ Fail(i) \/ Retry(i)

Spec == Init /\ [][Next]_installVars

-----------------------------------------------------------------------------
(* A reported installation is one installer's, from its first part to its   *)
(* last: nobody reports over another's parts.  Of services and wheels every *)
(* part has the approved bytes, whenever its file was edited; but a wheel   *)
(* only as far as the lock still named it when pip read it, and one that it *)
(* did not name any more is not there (windows_installation.py:64-160,      *)
(* bundle_installer.py:133-156).                                            *)
ReportedIsWhole ==
    \A i \in receipts : \A p \in Names :
        /\ pinned[i][p] # "none" => live[p].by = i /\ p \in registered
        /\ pinned[i][p] = "none" => live[p] = NoPart
        /\ kind # "units" /\ pinned[i][p] = "good" => live[p].bytes = "good"

(* What an installer left half done is preserved for inspection: no later   *)
(* attempt, its own included, completes or reports it, even one that had    *)
(* found the place unused before (windows_installation.py:65).              *)
PartialIsPreserved == halfDone => receipts = {}

=============================================================================
