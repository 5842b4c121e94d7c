----------------------------- MODULE MCJobQueue -----------------------------
(* Instances of JobQueue for TLC: user 1 owns the first job or two, user 2 *)
(* the rest.                                                               *)
EXTENDS JobQueue, TLC

CONSTANTS j1, j2, j3

MCOwner == (j1 :> 1) @@ (j2 :> 1) @@ (j3 :> 2)

(* One user submits both, so that its queue is never drained for sure.     *)
MCOwnerSame == (j1 :> 1) @@ (j2 :> 1)

(* Interchangeable workers; used in runs without liveness properties.      *)
WorkerSymmetry == Permutations(Workers)

=============================================================================
