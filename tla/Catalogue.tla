------------------------------ MODULE Catalogue ------------------------------
(***************************************************************************)
(* What the ingestion of one source promises its readers, whatever happens *)
(* inside: every engine that serves the source serves the same version of  *)
(* it; engines come into service together, in one publication; and only a  *)
(* publication or a deletion takes an engine out of service.               *)
(***************************************************************************)
CONSTANTS Engines, Versions, None

VARIABLES
    served,   \* per engine: the version its readers are given
    deleted   \* the source is tombstoned

Nothing == [e \in Engines |-> None]

Init == served = Nothing /\ deleted = FALSE

\* A publication of v brings some engines into service; those of another
\* version leave it, those that serve v already stay.
Publish(v, brought) ==
    /\ ~deleted
    /\ \A e \in Engines : served[e] = v => e \in brought
    /\ served' = [e \in Engines |-> IF e \in brought THEN v ELSE None]
    /\ UNCHANGED deleted

Delete == deleted' = TRUE /\ served' = Nothing

Restore == deleted' = FALSE /\ UNCHANGED served

Next ==
    \/ \E v \in Versions, brought \in (SUBSET Engines) \ {{}} : Publish(v, brought)
    \/ Delete
    \/ Restore

Spec == Init /\ [][Next]_<<served, deleted>>
=============================================================================
