---------------------------- MODULE AttemptLedger ----------------------------
(***************************************************************************)
(* What the durable queue promises to the handlers it runs, with no        *)
(* executors, locks, leases or clocks: a ledger of jobs, of how often each *)
(* was attempted, and of the one attempt that may still publish.           *)
(*                                                                         *)
(* `holder` is the attempt whose writes the fence lets through.  There is  *)
(* at most one; it is never one whose job went back to the queue or was    *)
(* started again; an attempt that lost this right never regains it; and    *)
(* only the holder settles its job.                                        *)
(***************************************************************************)
EXTENDS Naturals

CONSTANTS MaxJobs, MaxAttempts

Jobs == 1 .. MaxJobs
Attempts == [job : 0 .. MaxJobs, attempt : 0 .. MaxAttempts]

VARIABLES status, attempt, holder

vars == <<status, attempt, holder>>

Init ==
    /\ status = [j \in Jobs |-> "absent"]
    /\ attempt = [j \in Jobs |-> 0]
    /\ holder = {}

\* A new job; a deletion fails the queued work `superseded` on its document.
Submit(j, superseded) ==
    /\ status[j] = "absent"
    /\ \A i \in superseded : status[i] = "queued"
    /\ status' = [i \in Jobs |-> IF i = j THEN "queued"
                                 ELSE IF i \in superseded THEN "failed"
                                 ELSE status[i]]
    /\ attempt' = [attempt EXCEPT ![j] = 0]
    /\ UNCHANGED holder

Retry(j) ==
    /\ status[j] \in {"failed", "succeeded"}
    /\ status' = [status EXCEPT ![j] = "queued"]
    /\ UNCHANGED <<attempt, holder>>

\* An attempt starts; it becomes the holder unless there is one, or unless
\* its writer lease was gone before it began.
Begin(j) ==
    /\ status[j] = "queued"
    /\ status' = [status EXCEPT ![j] = "running"]
    /\ attempt' = [attempt EXCEPT ![j] = @ + 1]
    /\ \/ UNCHANGED holder
       \/ holder = {} /\ holder' = {[job |-> j, attempt |-> attempt[j] + 1]}

\* The holder records how its job ended.
Settle(c, outcome) ==
    /\ holder = {c}
    /\ status[c.job] = "running"
    /\ attempt[c.job] = c.attempt
    /\ outcome \in {"succeeded", "failed"}
    /\ status' = [status EXCEPT ![c.job] = outcome]
    /\ holder' = {}
    /\ UNCHANGED attempt

\* A lease ran out, a process died, a call failed: for good.
Lapse ==
    /\ holder # {}
    /\ holder' = {}
    /\ UNCHANGED <<status, attempt>>

\* Interrupted jobs return to the queue, never the holder's.
Requeue(interrupted) ==
    /\ \A i \in interrupted : status[i] = "running"
    /\ \A c \in holder : c.job \notin interrupted
    /\ status' = [i \in Jobs |-> IF i \in interrupted THEN "queued" ELSE status[i]]
    /\ UNCHANGED <<attempt, holder>>

Next ==
    \/ \E j \in Jobs : \E superseded \in SUBSET (Jobs \ {j}) : Submit(j, superseded)
    \/ \E j \in Jobs : Retry(j) \/ Begin(j)
    \/ \E c \in Attempts, outcome \in {"succeeded", "failed"} : Settle(c, outcome)
    \/ Lapse
    \/ \E interrupted \in SUBSET Jobs : Requeue(interrupted)

Spec == Init /\ [][Next]_vars

=============================================================================
