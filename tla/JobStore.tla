------------------------------ MODULE JobStore ------------------------------
(***************************************************************************)
(* The durable `jobs` table of the service (src/src/service/store.rs), one *)
(* row per job, written only in worker modes.  Each operator is the whole  *)
(* effect of one SQL transaction on one row; a guard that fails leaves the *)
(* row as it was, which is the UPDATE matching no row.                     *)
(*                                                                         *)
(* Left out of a row: the texts (slug, commit, spec, snapshot), the        *)
(* wall-clock deadline, which only operators read, the admission order,    *)
(* which never changes, and `attempt`, which no decision reads             *)
(* (`class_lost` is what the retry bound is checked against).              *)
(***************************************************************************)
EXTENDS Integers

CONSTANTS Agent,        \* the worker ids a lease holder may be
          MaxClass,     \* worker classes are 0..MaxClass, smallest first
          Retries,      \* lost-worker retries per class (DEFAULT_RETRIES)
          NoAgent       \* lease_holder NULL, or a lease without an agent

ASSUME StoreAssumption == /\ MaxClass \in Nat
                          /\ Retries \in Nat
                          /\ NoAgent \notin Agent

Class == 0 .. MaxClass

Live == {"queued", "leased", "running"}
Ended == {"done", "failed"}

Row == [status : Live \cup Ended,
        class  : Class,
        lost   : Nat,           \* class_lost
        epoch  : Nat,
        holder : Agent \cup {NoAgent}]

\* The row an admission writes: never leased, on the class it is bound to.
NewRow(c) == [status |-> "queued", class |-> c, lost |-> 0, epoch |-> 0,
              holder |-> NoAgent]

\* A row that may still change (TERMINAL_JOB).
IsLive(r) == r.status \in Live

-----------------------------------------------------------------------------

\* begin_attempt: the epoch is raised before any assign carries it.
BeginAttempt(r) == [r EXCEPT !.epoch = @ + 1]

\* Mutant: a save without a holder forgets the one there is.
SaveJobStateUnheld(r, e, status, holder) ==
    IF IsLive(r) /\ r.epoch = e
    THEN [r EXCEPT !.status = status, !.holder = holder] ELSE r

\* Mutant: a late save revives a row that has ended.
SaveJobStateEnded(r, e, status, holder) ==
    IF r.epoch = e
    THEN [r EXCEPT !.status = status,
                   !.holder = IF holder = NoAgent THEN @ ELSE holder]
    ELSE r

\* save_job_state: only the lease of the row's own epoch writes; a missing
\* holder keeps the one there is.
SaveJobState(r, e, status, holder) ==
    IF IsLive(r) /\ r.epoch = e
    THEN [r EXCEPT !.status = status,
                   !.holder = IF holder = NoAgent THEN @ ELSE holder]
    ELSE r

\* The row a re-queue is decided on (requeue_job, rebind_job).
MayRequeue(r, e) == IsLive(r) /\ r.epoch = e

\* Mutant: one loss too early.
ExhaustedEarly(r, counted) == counted /\ r.lost + 1 >= Retries

\* Mutant: one loss too late.
ExhaustedLate(r, counted) == counted /\ r.lost > Retries

\* A counted loss past the retry bound of the class.
Exhausted(r, counted) == counted /\ r.lost >= Retries

\* requeue_job.
Requeue(r, counted) ==
    [r EXCEPT !.status = "queued",
              !.lost = IF counted THEN @ + 1 ELSE @,
              !.holder = NoAgent]

\* rebind_job: another class, whose own losses start again at none.
Rebind(r, class) ==
    [r EXCEPT !.status = "queued", !.class = class, !.lost = 0,
              !.holder = NoAgent]

\* finish_job: the first terminal write wins.
FinishJob(r, status) ==
    IF IsLive(r) THEN [r EXCEPT !.status = status, !.holder = NoAgent] ELSE r

\* Mutant: the epoch alone is compared, and a cancelled job's map appears.
MayPublishEnded(r, e) == r.epoch = e

\* The fence of publish: the map pointer moves only for the epoch that holds
\* the row, in the same transaction.
MayPublish(r, e) == r.epoch = e /\ r.status \in {"leased", "running"}

=============================================================================
