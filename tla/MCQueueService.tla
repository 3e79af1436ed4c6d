--------------------------- MODULE MCQueueService ---------------------------
(* The service of one host, explored in two scenes.  In "backlog" one       *)
(* worker and a command that may die drain two jobs of a document; a second *)
(* worker met all the busy transactions, and died, before the first job     *)
(* came.  In "failures" two workers and a command, any of which may die or  *)
(* stall wherever it is, and two refused transactions meet over one job.    *)
EXTENDS MCJobQueue

VARIABLE scene

\* Init, and the state in which StoreError(w2) and Crash(w2) have left it.
ServiceInit ==
    /\ jobs = [j \in Jobs |-> [status |-> "absent", operation |-> "import_document",
                               document |-> Nobody, attempt |-> 0,
                               owner |-> Nobody, lease |-> -1]]
    /\ writer = Unowned
    /\ kernel = [h \in Hosts |-> Nobody]
    /\ scene \in {"backlog", "failures"}
    /\ pc = [e \in Executors |-> IF scene = "backlog" /\ e = w2 THEN "exited" ELSE "idle"]
    /\ target = [e \in Executors |-> NoJob]
    /\ claim = [e \in Executors |-> NoClaim]
    /\ beating = [e \in Executors |-> FALSE]
    /\ lost = [e \in Executors |-> FALSE]
    /\ stray = [e \in Executors |-> NoClaim]
    /\ errors = IF scene = "backlog" THEN MaxStoreErrors ELSE 0

ServiceNext ==
    /\ Next
    /\ scene = "failures" => \A j \in Jobs \ {1} : jobs'[j].status = "absent"
    /\ UNCHANGED scene

\* The scenes bound submissions only, which Fairness does not ask for.
ServiceSpec == ServiceInit /\ [][ServiceNext]_<<vars, scene>> /\ Fairness

=============================================================================
