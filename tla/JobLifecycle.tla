---------------------------- MODULE JobLifecycle ----------------------------
(***************************************************************************)
(* What the worker tier promises of each job, without agents, channels,    *)
(* leases or runners: the states of WORKER_TIER.md 2.2, as the jobs table  *)
(* (src/src/service/store.rs) shows them, the attempts it counts, and the  *)
(* map a job publishes.  WorkerLease implements this.                      *)
(***************************************************************************)
EXTENDS Naturals

CONSTANTS Job

VARIABLES state,    \* each job's status in the table
          attempt,  \* the epochs given out for it
          map       \* whether a map of it was published

vars == <<state, attempt, map>>

Held == {"leased", "running"}
Live == {"queued"} \cup Held

Init ==
    /\ state = [j \in Job |-> "queued"]
    /\ attempt = [j \in Job |-> 0]
    /\ map = [j \in Job |-> FALSE]

Moves(j, from, to) ==
    /\ state[j] \in from
    /\ state' = [state EXCEPT ![j] = to]

\* An attempt begins only while no earlier one holds the job.
Try(j) ==
    /\ state[j] = "queued"
    /\ attempt' = [attempt EXCEPT ![j] = @ + 1]
    /\ UNCHANGED <<state, map>>

\* It is given to an agent, which reports from it.
Lease(j) ==
    /\ attempt[j] > 0
    /\ Moves(j, {"queued"}, "leased")
    /\ UNCHANGED <<attempt, map>>

Run(j) == Moves(j, {"leased"}, "running") /\ UNCHANGED <<attempt, map>>

\* It is given up: lost, released, or moved to another class.
GiveUp(j) == Moves(j, Held, "queued") /\ UNCHANGED <<attempt, map>>

\* Only an attempt that holds the job publishes a map.
Publish(j) ==
    /\ state[j] \in Held
    /\ map' = [map EXCEPT ![j] = TRUE]
    /\ UNCHANGED <<state, attempt>>

\* A job is done only when its map is there; both ends are for good.
Finish(j) == map[j] /\ Moves(j, Held, "done") /\ UNCHANGED <<attempt, map>>

Fail(j) == Moves(j, Live, "failed") /\ UNCHANGED <<attempt, map>>

JobStep(j) ==
    \/ Try(j) \/ Lease(j) \/ Run(j) \/ GiveUp(j) \/ Publish(j) \/ Finish(j)
    \/ Fail(j)

Next == \E j \in Job : JobStep(j)

Spec == Init /\ [][Next]_vars

=============================================================================
