--------------------------- MODULE ReadinessProbe ---------------------------
(* The readiness answer of the product server (product_server.py:246-260,   *)
(* 786-802).  Callers of /health/ready share one probe: a task that looks   *)
(* at the engines, the storage and the provider in a worker thread and at   *)
(* the identity service beside it, and is green when all it needs was up    *)
(* when it looked.  A caller waits for a while only, may go away, and never *)
(* takes the probe with it: a thread that hangs on a service that does not  *)
(* answer cannot be stopped.  Who joins a probe late is told of looks that  *)
(* were made before it asked.                                               *)
EXTENDS Naturals, Sequences, FiniteSets

CONSTANTS
    Callers,
    Engines,       \* the sequence of enabled engines, in the order they are tried
    Needed,        \* the sequence of other parts that the thread looks at
    Identity       \* the identity service

VARIABLES
    up,       \* parts that are up
    task,     \* "none", "running", "done" or "cancelled": the shared task
    green,    \* its result, once done: "green" or "red", before it "nothing"
    threads,  \* worker threads inside a probe: where each is, as a bag of positions
    found,    \* what the current task has found up so far
    identity, \* what it knows of the identity service: "asked", "up" or "down"
    caller,   \* caller[c]: [pc, told, fresh]; told is the result that reached it
    seen      \* parts that were up at some time since the current task began

probeVars == <<up, task, green, threads, found, identity, caller, seen>>

(* The order in which the thread looks: engines until one is up, the rest.  *)
Looks == Engines \o Needed
Members(s) == {s[n] : n \in DOMAIN s}
Monitored == Members(Looks) \cup {Identity}
Positions == 1 .. Len(Looks) + 1

TypeOK ==
    /\ up \subseteq Monitored
    /\ task \in {"none", "running", "done", "cancelled"}
    /\ green \in {"nothing", "green", "red"}
    /\ threads \in [Positions -> Nat]
    /\ found \subseteq Monitored /\ seen \subseteq Monitored
    /\ identity \in {"asked", "up", "down"}
    /\ caller \in [Callers -> [pc : {"idle", "waiting", "ready", "unavailable"},
                             told : {"nothing", "green", "red"}, fresh : BOOLEAN]]

Init ==
    /\ up \in SUBSET Monitored
    /\ task = "none" /\ green = "nothing" /\ threads = [n \in Positions |-> 0]
    /\ found = {} /\ identity = "asked" /\ seen = {}
    /\ caller = [c \in Callers |-> [pc |-> "idle", told |-> "nothing", fresh |-> FALSE]]

(* A part fails or comes back.                                              *)
Toggle(p) ==
    /\ up' = IF p \in up THEN up \ {p} ELSE up \cup {p}
    /\ seen' = IF task = "running" THEN seen \cup up' ELSE seen
    /\ UNCHANGED <<task, green, threads, found, identity, caller>>

-----------------------------------------------------------------------------
(* A slip a maintainer could make: a probe that has ended is joined too.    *)
JoinsAny == task # "none"

(* A caller joins the probe that runs, or begins one.                       *)
Joins == task = "running"

(* A slip: what an earlier probe found is not forgotten.                    *)
ProbeRemembering ==
    /\ task' = "running" /\ green' = "nothing" /\ UNCHANGED found /\ identity' = "asked"
    /\ threads' = [threads EXCEPT ![1] = @ + 1] /\ seen' = up

Probe ==
    /\ task' = "running" /\ green' = "nothing" /\ found' = {} /\ identity' = "asked"
    /\ threads' = [threads EXCEPT ![1] = @ + 1] /\ seen' = up

Ask(c) ==
    /\ caller[c].pc # "waiting"
    /\ caller' = [caller EXCEPT ![c] = [pc |-> "waiting", told |-> IF Joins THEN green ELSE "nothing", fresh |-> FALSE]]
    /\ IF Joins THEN UNCHANGED <<task, green, found, identity, threads, seen>> ELSE Probe
    /\ UNCHANGED up

(* A thread looks at the next part; once an engine is up it skips the       *)
(* others.  Only the current task's thread reports what it finds.           *)
After(n) == IF n <= Len(Engines) /\ Looks[n] \in up THEN Len(Engines) + 1 ELSE n + 1

Look(n) ==
    /\ n <= Len(Looks) /\ threads[n] > 0
    /\ threads' = [threads EXCEPT ![n] = @ - 1, ![After(n)] = @ + 1]
    /\ found' = IF task = "running" /\ Looks[n] \in up THEN found \cup {Looks[n]} ELSE found
    /\ UNCHANGED <<up, task, green, identity, caller, seen>>

(* The discovery document is fetched anew, never taken from the cache.      *)
IdentityAnswers ==
    /\ task = "running" /\ identity = "asked"
    /\ identity' = IF Identity \in up THEN "up" ELSE "down"
    /\ UNCHANGED <<up, task, green, threads, found, caller, seen>>

(* One engine and all the rest.                                             *)
Available == Members(Engines) \cap found # {} /\ Members(Needed) \subseteq found

(* The task ends when both have answered.                                   *)
Done ==
    /\ threads[Len(Looks) + 1] > 0
    /\ threads' = [threads EXCEPT ![Len(Looks) + 1] = @ - 1]
    /\ IF task = "running"
       THEN /\ identity # "asked"
            /\ task' = "done"
            /\ green' = IF identity = "up" /\ Available THEN "green" ELSE "red"
            /\ caller' = [c \in Callers |->
                   IF caller[c].pc = "waiting" /\ caller[c].told = "nothing"
                   THEN [caller[c] EXCEPT !.told = green', !.fresh = TRUE] ELSE caller[c]]
       ELSE UNCHANGED <<task, green, caller>>
    /\ UNCHANGED <<up, found, identity, seen>>

Answer(c) ==
    /\ caller[c].pc = "waiting" /\ caller[c].told # "nothing"
    /\ caller' = [caller EXCEPT ![c].pc = IF caller[c].told = "green" THEN "ready" ELSE "unavailable"]
    /\ UNCHANGED <<up, task, green, threads, found, identity, seen>>

(* A slip: without the shield the wait cancels the task it waits for, but   *)
(* not its thread.                                                          *)
AbandonedCancelled == task' = IF task = "running" THEN "cancelled" ELSE task

(* What becomes of the task when a caller stops waiting: it is shielded.    *)
Abandoned == task' = task

(* The wait of a caller times out, or the caller goes away.                 *)
GiveUp(c) ==
    /\ caller[c].pc = "waiting"
    /\ caller' = [caller EXCEPT ![c].pc = "unavailable"]
    /\ Abandoned
    /\ UNCHANGED <<up, green, threads, found, identity, seen>>

Next ==
    \/ \E p \in Monitored : Toggle(p)
    \/ \E c \in Callers : Ask(c) \/ Answer(c) \/ GiveUp(c)
    \/ \E n \in Positions : Look(n)
    \/ IdentityAnswers \/ Done

Spec == Init /\ [][Next]_probeVars

-----------------------------------------------------------------------------
(* However many callers came and gave up, at most one thread is inside a    *)
(* probe (product_server.py:247, no timed-out thread pileup).               *)
OneProbeAtATime ==
    \A m, n \in Positions : threads[m] + threads[n] > 0 =>
        threads[m] <= 1 /\ (m # n => threads[m] + threads[n] <= 1)

(* A green answer is of a probe that still ran when the caller asked, or    *)
(* began then; the looks themselves may be older                            *)
(* (product_server.py:247, no cached green status).                         *)
GreenIsNotCached == \A c \in Callers : caller[c].pc = "ready" => caller[c].fresh

(* Green is no sum of what several probes found: within this one each part  *)
(* that is needed was up, though never all at once, and no look of an       *)
(* abandoned probe counts (product_server.py:255-258, 786-796).             *)
GreenWasSeen ==
    green = "green" => Members(Needed) \cup {Identity} \subseteq seen /\ Members(Engines) \cap seen # {}
=============================================================================
