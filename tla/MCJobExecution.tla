--------------------------- MODULE MCJobExecution ---------------------------
(***************************************************************************)
(* JobExecution on small instances.  Jobs and repositories are             *)
(* interchangeable model values; no liveness is checked here.              *)
(***************************************************************************)
EXTENDS JobExecution

CONSTANTS r1, r2, j1, j2

Interchangeable == Permutations(Job) \cup Permutations(Repo)

\* Run `execution` is two instances in one.  Jobs of one repository, with
\* nothing else in the cache, and all there may be:
OneRepository ==
    \E r \in Repo :
        /\ \A j \in Job : repo[j] = r
        /\ \A s \in Repo \ {r} : clone[s] = NoClone /\ remote[s].head = 0

\* And jobs of any, over any cache, until they spawn: by then they have left the
\* cache.  What a child and a cancel do is left to the first.
Unspawned == \A j \in Job : proc[j] = "none" /\ ~cancelled[j]

OneOrUnspawned == OneRepository \/ Unspawned

=============================================================================
