--------------------------- MODULE JobCompletion ---------------------------
(***************************************************************************)
(* How one job ends in the service's worker modes, where it has two        *)
(* records: the snapshot in memory, which clients read, and the row in the *)
(* store, which a restart reads (src/src/service/jobs.rs, with the         *)
(* re-queue and the registration of workers.rs).  The slot's worker_loop   *)
(* and the runner in it, each client that cancels the job, and a restart   *)
(* write the two in steps of their own.                                    *)
(*                                                                         *)
(* What the runner does with its agent is WorkerLease; here a run may go   *)
(* any way it can go.  A job is admitted already.  A write's retries are   *)
(* one step, as only the last of them changes anything.                    *)
(***************************************************************************)
EXTENDS Integers

CONSTANTS Client,       \* clients that may cancel the job, once each
          MaxRuns,      \* bound: times a process starts the job
          MaxRestarts,  \* bound: restarts of the master
          May           \* what the surroundings may do in this instance

ASSUME CompletionAssumption ==
    /\ MaxRuns \in Nat \ {0} /\ MaxRestarts \in Nat
    /\ May \subseteq {"fail", "requeue", "panic", "stop", "storefail"}

VARIABLES row,        \* the row: "live", or how it ended
          snap,       \* the snapshot; "gone" when a restart did not load it
          place,      \* where the registry has the job
          loop,       \* where the slot's thread is
          pending,    \* the ending the slot's thread is writing
          next,       \* where it goes from there
          held,       \* worker_loop's `held`
          requeue,    \* the registry's marks on the job
          cancelled,
          published,  \* its map is published (by the publish fence)
          client,     \* where each client's cancel is
          answer,     \* what each client was answered
          stopping,
          gaveUp,     \* a terminal write was given up (a history)
          runs, restarts

slot == <<place, loop, pending, next, held, requeue>>
records == <<row, snap>>
clients == <<client, answer>>
process == <<stopping, restarts>>
vars == <<records, slot, cancelled, published, clients, process, gaveUp, runs>>

Ended == {"done", "cancelled", "failed"}
Terminal(s) == s \in Ended

Init ==
    /\ row = "live" /\ snap = "live"
    /\ place = "queue" /\ loop = "idle"
    /\ pending = "none" /\ next = "none" /\ held = FALSE
    /\ requeue = FALSE /\ cancelled = FALSE /\ published = FALSE
    /\ client = [c \in Client |-> "idle"]
    /\ answer = [c \in Client |-> "none"]
    /\ stopping = FALSE /\ gaveUp = FALSE
    /\ runs = 0 /\ restarts = 0

\* Mutant: the last terminal write wins.
FinishRowLast(r, how) == how

\* finish_job: the first terminal write wins.
FinishRow(r, how) == IF Terminal(r) THEN r ELSE how

\* send_modify under is_terminal: so does the first ending in memory.
FinishSnap(s, how) == IF Terminal(s) THEN s ELSE how

-----------------------------------------------------------------------------
\* The slot: worker_loop, and the runner in it.

\* dispatch_idle, or worker_loop taking its next job.
Dispatch ==
    /\ place = "queue" /\ loop = "idle" /\ ~stopping
    /\ place' = "slot" /\ loop' = "runs" /\ runs' = runs + 1
    /\ UNCHANGED <<records, pending, next, held, requeue, cancelled,
                   published, clients, process, gaveUp>>

Goes(to) ==
    /\ loop' = to
    /\ UNCHANGED <<place, pending, next, held>>

\* finish_terminal_durable up to its store write: a job that has ended in
\* memory is left as it is.
Finish(how, after) ==
    /\ UNCHANGED <<place, held>>
    /\ IF Terminal(snap)
       THEN loop' = after /\ UNCHANGED <<pending, next>>
       ELSE loop' = "writing" /\ pending' = how /\ next' = after

\* The runner returns without ending the job: its user cancelled it, or a
\* stopping master leaves it to its agent.
RunLeaves ==
    /\ loop = "runs" /\ (cancelled \/ stopping)
    /\ Goes("returned")
    /\ UNCHANGED <<records, requeue, cancelled, published, clients, process,
                   gaveUp, runs>>

RunFails ==
    /\ "fail" \in May /\ loop = "runs"
    /\ Finish("failed", "returned")
    /\ UNCHANGED <<records, requeue, cancelled, published, clients, process,
                   gaveUp, runs>>

\* register_result looks for a cancel, then publishes; the fence refuses a
\* row that has ended.
RunHasResult ==
    /\ loop = "runs" /\ ~cancelled
    /\ Goes("registering")
    /\ UNCHANGED <<records, requeue, cancelled, published, clients, process,
                   gaveUp, runs>>

Publish ==
    /\ loop = "registering"
    /\ \/ ~Terminal(row) /\ Goes("registered") /\ published' = TRUE
       \/ /\ Terminal(row) \/ "storefail" \in May
          /\ Finish("failed", "returned") /\ UNCHANGED published
    /\ UNCHANGED <<records, requeue, cancelled, clients, process, gaveUp,
                   runs>>

Registered ==
    /\ loop = "registered"
    /\ Finish("done", "returned")
    /\ UNCHANGED <<records, requeue, cancelled, published, clients, process,
                   gaveUp, runs>>

\* requeue: the row goes back to its queue unless it has ended; a store that
\* fails ends the job.  (Its retry bound is WorkerLease's; here MaxRuns.)
RunRequeues ==
    /\ "requeue" \in May /\ loop = "runs" /\ runs < MaxRuns
    /\ \/ Goes(IF Terminal(row) THEN "returned" ELSE "marking")
       \/ "storefail" \in May /\ Finish("failed", "returned")
    /\ UNCHANGED <<records, requeue, cancelled, published, clients, process,
                   gaveUp, runs>>

\* The snapshot is reset unless it has ended, and the job marked.
MarkRequeue ==
    /\ loop = "marking"
    /\ requeue' = TRUE
    /\ Goes("returned")
    /\ UNCHANGED <<records, cancelled, published, clients, process, gaveUp,
                   runs>>

RunPanics ==
    /\ "panic" \in May /\ loop \in {"runs", "registering", "registered"}
    /\ Finish("failed", "returned")
    /\ UNCHANGED <<records, requeue, cancelled, published, clients, process,
                   gaveUp, runs>>

\* Mutant: memory is told before the row is written.
WriteEndLate ==
    /\ loop = "writing"
    /\ snap' = FinishSnap(snap, pending)
    /\ row' = row /\ gaveUp' = gaveUp
    /\ Goes("applying")
    /\ UNCHANGED <<requeue, cancelled, published, clients, process, runs>>

\* The durable write, which is retried and then given up.
WriteEnd ==
    /\ loop = "writing"
    /\ \/ row' = FinishRow(row, pending) /\ gaveUp' = gaveUp
       \/ "storefail" \in May /\ row' = row /\ gaveUp' = TRUE
    /\ Goes("applying")
    /\ UNCHANGED <<snap, requeue, cancelled, published, clients, process,
                   runs>>

ApplyEnd ==
    /\ loop = "applying"
    /\ snap' = FinishSnap(snap, pending)
    /\ loop' = next /\ pending' = "none" /\ next' = "none"
    /\ UNCHANGED <<row, place, held, requeue, cancelled, published, clients,
                   process, gaveUp, runs>>

\* The runner is back: has it put the job in its queue again, or does a stop
\* leave it for the next process?
ReadHeld ==
    /\ loop = "returned"
    /\ held' = (stopping \/ requeue)
    /\ loop' = "checking"
    /\ UNCHANGED <<records, place, pending, next, requeue, cancelled,
                   published, clients, process, gaveUp, runs>>

\* Mutant: a runner that returned has ended its job.
CheckEndTrusted ==
    /\ loop = "checking"
    /\ Goes("recording")
    /\ UNCHANGED <<records, requeue, cancelled, published, clients, process,
                   gaveUp, runs>>

\* "A panic or an unexpected return must never leave an accepted job in
\* flight."
CheckEnd ==
    /\ loop = "checking"
    /\ IF held THEN Goes("recording") ELSE Finish("failed", "recording")
    /\ UNCHANGED <<records, requeue, cancelled, published, clients, process,
                   gaveUp, runs>>

\* persist_terminal, tried once.
Record ==
    /\ loop = "recording"
    /\ \/ row' = IF Terminal(snap) THEN FinishRow(row, snap) ELSE row
       \/ "storefail" \in May /\ row' = row
    /\ Goes("leaving")
    /\ UNCHANGED <<snap, requeue, cancelled, published, clients, process,
                   gaveUp, runs>>

\* Mutant: the marks stay on a job that goes back to its queue.
LeaveMarked ==
    /\ loop = "leaving"
    /\ loop' = "idle"
    /\ place' = IF ~Terminal(snap) /\ requeue /\ ~stopping THEN "queue"
                ELSE "none"
    /\ UNCHANGED <<records, pending, next, held, requeue, cancelled,
                   published, clients, process, gaveUp, runs>>

\* Mutant: a job put back in its queue is not inserted there.
LeaveUnqueued ==
    /\ loop = "leaving"
    /\ loop' = "idle" /\ place' = "none" /\ requeue' = FALSE
    /\ cancelled' = (cancelled /\ ~Terminal(snap))
    /\ UNCHANGED <<records, pending, next, held, published, clients, process,
                   gaveUp, runs>>

\* The slot lets the job go, back to its queue if it was put there.
Leave ==
    /\ loop = "leaving"
    /\ loop' = "idle" /\ requeue' = FALSE
    /\ place' = IF ~Terminal(snap) /\ requeue /\ ~stopping THEN "queue"
                ELSE "none"
    /\ cancelled' = (cancelled /\ ~Terminal(snap))
    /\ UNCHANGED <<records, pending, next, held, published, clients, process,
                   gaveUp, runs>>

-----------------------------------------------------------------------------
\* cancel_job.

\* Mutant: memory is told first, and then the row.
CancelPeeksNot(c) ==
    /\ client[c] = "idle"
    /\ client' = [client EXCEPT ![c] = "cancelling"]
    /\ UNCHANGED <<records, slot, cancelled, published, answer, process,
                   gaveUp, runs>>

\* A client's peek at the snapshot, before anything is written.
CancelPeeks(c) ==
    /\ client[c] = "idle"
    /\ client' = [client EXCEPT ![c] = IF snap = "live" THEN "writing"
                                       ELSE "cancelling"]
    /\ UNCHANGED <<records, slot, cancelled, published, answer, process,
                   gaveUp, runs>>

CancelWrites(c) ==
    /\ client[c] = "writing"
    /\ \/ row' = FinishRow(row, "cancelled") /\ gaveUp' = gaveUp
       \/ "storefail" \in May /\ row' = row /\ gaveUp' = TRUE
    /\ client' = [client EXCEPT ![c] = "cancelling"]
    /\ UNCHANGED <<snap, slot, cancelled, published, answer, process, runs>>

\* Mutant: a job no longer in memory is answered without its row.
CancelForgets(c) ==
    /\ client[c] = "cancelling" /\ snap = "gone"
    /\ client' = [client EXCEPT ![c] = "answered"]
    /\ answer' = [answer EXCEPT ![c] = snap]
    /\ UNCHANGED <<records, slot, cancelled, published, process, gaveUp, runs>>

\* JobRegistry::cancel, under the registry's lock: a queued job leaves its
\* queue, one in a slot is marked.  A job no longer in memory is answered
\* from its row.
Cancel(c) ==
    /\ client[c] = "cancelling"
    /\ snap' = IF snap = "live" THEN "cancelled" ELSE snap
    /\ IF snap = "live"
       THEN /\ place' = IF place = "queue" THEN "none" ELSE place
            /\ cancelled' = (cancelled \/ place # "queue")
       ELSE UNCHANGED <<place, cancelled>>
    /\ client' = [client EXCEPT ![c] = IF snap = "gone" THEN "answered"
                                       ELSE "recording"]
    /\ answer' = [answer EXCEPT ![c] = IF snap = "gone" THEN row ELSE snap']
    /\ UNCHANGED <<row, loop, pending, next, held, requeue, published,
                   process, gaveUp, runs>>

CancelRecords(c) ==
    /\ client[c] = "recording"
    /\ \/ row' = FinishRow(row, answer[c])
       \/ "storefail" \in May /\ row' = row
    /\ client' = [client EXCEPT ![c] = "answered"]
    /\ UNCHANGED <<snap, slot, cancelled, published, answer, process, gaveUp,
                   runs>>

-----------------------------------------------------------------------------
\* The process.

\* JobRegistry::shutdown.
Stop ==
    /\ "stop" \in May /\ ~stopping
    /\ stopping' = TRUE
    /\ UNCHANGED <<records, slot, cancelled, published, clients, restarts,
                   gaveUp, runs>>

\* A crash or the end of a stop, and restore: an ended row is answered from
\* the store, the job of a live one is queued, or starts in a slot at once if
\* a process before had started it.
Restart ==
    /\ restarts < MaxRestarts
    /\ restarts' = restarts + 1 /\ stopping' = FALSE
    /\ snap' = IF Terminal(row) THEN "gone" ELSE "live"
    /\ \/ Terminal(row) /\ place' = "none" /\ loop' = "idle" /\ runs' = 0
       \/ ~Terminal(row) /\ place' = "queue" /\ loop' = "idle" /\ runs' = 0
       \/ /\ ~Terminal(row) /\ place # "queue"
          /\ place' = "slot" /\ loop' = "runs" /\ runs' = 1
    /\ pending' = "none" /\ next' = "none"
    /\ held' = FALSE /\ requeue' = FALSE /\ cancelled' = FALSE
    /\ client' = [c \in Client |-> IF client[c] = "answered" THEN "answered"
                                   ELSE "idle"]
    /\ answer' = [c \in Client |-> IF client[c] = "answered" THEN answer[c]
                                   ELSE "none"]
    /\ gaveUp' = FALSE
    /\ UNCHANGED <<row, published>>

\* The runner's own choices, and the loop around it.
Runner == RunLeaves \/ RunFails \/ RunHasResult \/ RunRequeues \/ RunPanics
Loop == \/ Publish \/ Registered \/ MarkRequeue \/ WriteEnd \/ ApplyEnd
        \/ ReadHeld \/ CheckEnd \/ Record \/ Leave

CancelJob(c) ==
    CancelPeeks(c) \/ CancelWrites(c) \/ Cancel(c) \/ CancelRecords(c)

Next == \/ Dispatch \/ Runner \/ Loop \/ Stop \/ Restart
        \/ \E c \in Client : CancelJob(c)

Spec == Init /\ [][Next]_vars

\* Threads go on; a client may never cancel, a master never stop.
FairSpec ==
    /\ Spec
    /\ WF_vars(Dispatch) /\ WF_vars(Runner) /\ WF_vars(Loop)

-----------------------------------------------------------------------------
\* Properties.

Steps == {"idle", "runs", "registering", "registered", "marking", "writing",
          "applying", "returned", "checking", "recording", "leaving"}

\* Every part of the state is of its kind.
TypeOK ==
    /\ row \in Ended \cup {"live"}
    /\ snap \in Ended \cup {"live", "gone"}
    /\ place \in {"queue", "slot", "none"}
    /\ loop \in Steps
    /\ pending \in Ended \cup {"none"}
    /\ next \in {"none", "returned", "recording"}
    /\ {held, requeue, cancelled, published, stopping, gaveUp} \subseteq BOOLEAN
    /\ client \in [Client -> {"idle", "writing", "cancelling", "recording",
                              "answered"}]
    /\ answer \in [Client -> Ended \cup {"none"}]
    /\ runs \in 0 .. MaxRuns /\ restarts \in 0 .. MaxRestarts

\* No accepted job is left in flight: while its snapshot is not terminal the
\* job is in its queue or in a slot, unless a stop leaves it to the next
\* process; whatever the runner did and whoever cancelled meanwhile.
NeverInFlight == snap = "live" /\ ~stopping => place # "none"

\* An ending reaches a client no moment before the row backs it, except when
\* the store refused every retry: a restart then never runs again what a
\* client saw end.
TerminalBacked == Terminal(snap) /\ row = "live" => gaveUp

\* A job waits in its queue with no mark of a run before it: a stale
\* `requeue` would pass its next run's silent end for a re-queue, a stale
\* `cancelled` would end that run unasked.
QueuedIsFresh == place = "queue" => ~requeue /\ ~cancelled

\* Once a client sees the job ended, cancelled above all, no run of it
\* publishes a map any more, though the publish fence looks at the row only
\* and the runner looked for the cancel before.
NothingAfterEnd ==
    [][published' /\ ~published => snap = "live" \/ gaveUp]_vars

\* An ending stays: the snapshot's, for as long as the process shows it, and
\* the row's, each of them by itself, whichever of runner, clients and
\* worker_loop writes next; only a restart after a store that refused every
\* retry runs the job again.  (That the two are one ending is RowIsSnapshot.)
EndsOnce ==
    [][/\ Terminal(snap) => \/ snap' \in {snap, "gone"}
                            \/ gaveUp /\ restarts' # restarts
       /\ Terminal(row) => row' = row]_vars

\* An accepted job ends, however its runs return and whatever the store
\* refuses, unless the master stops.
Ends == snap = "live" ~> snap # "live" \/ stopping

\* Everything is written.
AtRest == loop = "idle" /\ \A c \in Client : client[c] \in {"idle", "answered"}

\* "The first terminal write wins: ... every writer of one job writes the
\* same terminal state" (store.rs, finish_job); worker_loop's last write
\* "reconciles the row with whatever ended up final in memory" (jobs.rs).
RowIsSnapshot == AtRest /\ Terminal(snap) => row = snap

=============================================================================
