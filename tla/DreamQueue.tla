------------------------------ MODULE DreamQueue ------------------------------
(***************************************************************************)
(* One dream run at a time implements at-least-once delivery in order: the *)
(* refinement of AtLeastOnce by DreamCurator, for one scope.               *)
(***************************************************************************)
EXTENDS DreamCurator

CONSTANT Watched    \* the scope looked at

ASSUME WatchedAssumption == Watched \in Projects \cup {Global}

Arrived   == {i \in Live \ recycled : InScope(i, Watched)}
Delivered == {i \in Arrived : Logged(Watched, i)}
Acked     == {i \in Arrived : rows[i].seq <= mark[Watched]}

Queue == INSTANCE AtLeastOnce WITH
           Events <- 1..MaxEvents, arrived <- Arrived,
           delivered <- Delivered, acked <- Acked

\* A scope's ledger, recorded batches and watermark implement AtLeastOnce:
\* batches come in the order of global_seq without gaps, and coverage only
\* grows, over recorded events, through crashes and deletions.
QueueSpec == Queue!Spec

=============================================================================
