--------------------------- MODULE AdmissionQueue ---------------------------
(***************************************************************************)
(* The job registry: how an admitted job reaches a slot, and what of it    *)
(* the next process finds (src/src/service/jobs.rs).                       *)
(*                                                                         *)
(* `durable` is worker mode: an admission is visible in its queue at once, *)
(* its row is written off the registry's lock, and only then may a slot    *)
(* start it.  Otherwise (local mode) nothing is stored and an idle slot    *)
(* starts the job in its admission.                                        *)
(*                                                                         *)
(* An action is one critical section of the registry's lock, or one store  *)
(* transaction of an admission.  What a slot does with its job is          *)
(* WorkerLease's; how one job's row and snapshot end in steps of their own *)
(* is JobCompletion's: here each is one step.  Jobs are named by their     *)
(* admission order.  Local mode has one class, which holds every job: a    *)
(* slot of a larger class is there one more slot of it.                    *)
(***************************************************************************)
EXTENDS Schedule, FiniteSets

CONSTANTS Key,          \* repositories at a commit: what is deduplicated
          Client,       \* requests under way at once
          MaxQueued,    \* max_queued_jobs, per class
          MaxJobs,      \* bound: jobs ever admitted
          MaxRestarts,  \* bound: restarts of the master
          May           \* what the surroundings may do in this instance

ASSUME AdmissionAssumption ==
    /\ "none" \notin Key  \* it names no repository
    /\ MaxQueued \in Nat /\ MaxJobs \in Nat /\ MaxRestarts \in Nat
    /\ May \subseteq {"storefail", "cancel", "stop", "agents", "requeue"}

Id == 1 .. MaxJobs
None == 0
Slot == DOMAIN SlotClass

VARIABLES durable,   \* worker mode, for good
          job,       \* the jobs in memory
          active,    \* the dedup keys
          queue,     \* the class queues
          running,   \* the job in each slot
          admitted,  \* the last admission order given out
          row,       \* the jobs table
          client,    \* where each request is in spawn_job
          live,      \* agents connected per class
          changed,   \* the hub is about to call agents_changed
          stopping,
          stalled,   \* a job was withdrawn, or moved to a queue its slot does not
             \* serve, with no dispatch since (a history)
          restarts

registry == <<job, active, queue, running, admitted>>
agents == <<live, changed>>
vars == <<durable, registry, row, client, agents, stopping, stalled, restarts>>

\* A job that is over is forgotten once no slot and no request has it, as is
\* all of a row that has ended: nothing here reads more of them.
NoJob == [key |-> "none", class |-> 0, persisted |-> FALSE, again |-> FALSE,
          ended |-> FALSE]
NoRow == [key |-> "none", class |-> 0, status |-> "none"]
EndedRow == [NoRow EXCEPT !.status = "ended"]
Idle == [pc |-> "idle", id |-> None]

IsLive(r) == r.status \in {"queued", "leased"}
Unended(j) == job[j] # NoJob /\ ~job[j].ended

Init ==
    /\ durable \in BOOLEAN
    /\ job = [j \in Id |-> NoJob]
    /\ active = [k \in Key |-> None]
    /\ queue = [c \in Class |-> <<>>]
    /\ running = [s \in Slot |-> None]
    /\ admitted = 0
    /\ row = [j \in Id |-> NoRow]
    /\ client = [c \in Client |-> Idle]
    /\ live = [c \in Class |-> 0]
    /\ changed = FALSE /\ stopping = FALSE /\ stalled = FALSE
    /\ restarts = 0

-----------------------------------------------------------------------------
\* Which job an idle slot takes.  `q` are the queues, `r` the running jobs,
\* `jobs` the jobs, `up` the agents per class.

\* has_spare_agent.
HasSpareAgent(c, r, up) ==
    \/ ~durable
    \/ Cardinality({s \in Slot : SlotClass[s] = c /\ r[s] # None}) < up[c]

\* next_queue_for: only a persisted head starts, and a slot spills to a
\* smaller class only with an agent of its own.
NextQueueFor(s, q, r, jobs, up) ==
    LET c == SlotClass[s]
        d == NextFor(c, q)
    IN  IF d = NoClass \/ ~jobs[Head(q[d])].persisted
           \/ (d # c /\ ~HasSpareAgent(c, r, up))
        THEN NoClass ELSE d

\* take_head into slot s, if it may take one.
TakeNext(s, at, jobs, up) ==
    LET d == NextQueueFor(s, at.queue, at.running, jobs, up)
    IN  IF at.running[s] # None \/ d = NoClass THEN at
        ELSE [queue |-> [at.queue EXCEPT ![d] = Tail(@)],
              running |-> [at.running EXCEPT ![s] = Head(at.queue[d])]]

\* dispatch_idle.
DispatchIdle(at, jobs, up) ==
    FoldLeft(LAMBDA got, s : TakeNext(s, got, jobs, up), at,
             [s \in Slot |-> s])

\* The registry's queues and slots become `at`.
Becomes(at) == queue' = at.queue /\ running' = at.running

Dispatches(q, r, jobs) ==
    /\ Becomes(IF stopping THEN [queue |-> q, running |-> r]
               ELSE DispatchIdle([queue |-> q, running |-> r], jobs, live))
    /\ stalled' = (stalled /\ stopping)

\* startable_slot_for: the first idle slot of the class, or of a larger one
\* with an agent to spare.
StartableSlots(c) ==
    {s \in Slot : /\ running[s] = None /\ SlotClass[s] >= c
                  /\ SlotClass[s] = c \/ HasSpareAgent(SlotClass[s], running, live)}

\* retain; a job waits once.
Without(q, j) == [c \in Class |-> RemoveFirst(q[c], j)]
InQueue(j) == \E c \in Class : j \in ToSet(queue[c])
InSlot(j) == \E s \in Slot : running[s] = j

\* Mutant: a re-queued job goes to the tail.
InsertLast(seq, j) == Append(seq, j)

\* insert_by_order: before the first of a later order.
InsertByOrder(seq, j) ==
    LET later == {n \in DOMAIN seq : seq[n] > j}
    IN  InsertAt(seq, IF later = {} THEN Len(seq) + 1 ELSE Min(later), j)

\* Mutant: every slot is counted.
CountedAll == Slot

\* simulate_queue_etas: the slots an estimate counts.  A busy one always is;
\* an idle one, in worker mode, while its class has a connected agent that
\* the slots counted before it do not account for.
Counted ==
    {s \in Slot :
       \/ ~durable \/ running[s] # None
       \/ Cardinality({t \in Slot : /\ SlotClass[t] = SlotClass[s]
                                    /\ running[t] # None \/ t < s})
          < live[SlotClass[s]]}

-----------------------------------------------------------------------------
\* A request: spawn_job.

\* What a class holds, and what a job may be predicted to need.
Memory == [c \in Class |-> IF durable THEN c ELSE MaxClass + 1]
Peak == 0 .. MaxClass + 1

\* admit: a key nobody runs, and a queue of its class with room or a slot
\* that may start it.  (A duplicate is answered with the active job, a full
\* queue and a stopping service refuse: nothing changes.)
Admit(c, k) ==
    \E peak \in Peak :
        LET class == Bind(peak, Memory)
            slots == StartableSlots(class)
            j == admitted + 1
        IN
        /\ client[c] = Idle /\ ~stopping /\ active[k] = None /\ j \in Id
        /\ slots # {} \/ Len(queue[class]) < MaxQueued
        /\ admitted' = j
        /\ job' = [job EXCEPT ![j] = [NoJob EXCEPT !.key = k, !.class = class,
                                                   !.persisted = ~durable]]
        /\ active' = [active EXCEPT ![k] = j]
        /\ IF slots # {} /\ ~durable
           THEN /\ running' = [running EXCEPT ![Min(slots)] = j]
                /\ UNCHANGED queue
           ELSE /\ queue' = [queue EXCEPT ![class] = Append(@, j)]
                /\ UNCHANGED running
        /\ client' = IF durable
                     THEN [client EXCEPT ![c] = [pc |-> "inserting", id |-> j]]
                     ELSE client
        /\ UNCHANGED <<durable, row, agents, stopping, stalled, restarts>>

ClientAt(c, pc) == client[c].pc = pc
ClientGoes(c, pc) == client' = [client EXCEPT ![c].pc = pc]

\* persist_admission: the row is written from a copy of the snapshot, or
\* cannot be.  The copy is of a waiting job: a cancel that lands after it was
\* taken is in the row only when RecordEnd has written it.  (One that lands
\* before is in it at once.)
InsertJob(c) ==
    LET j == client[c].id IN
    /\ ClientAt(c, "inserting")
    /\ \/ /\ row' = [row EXCEPT ![j] = [key |-> job[j].key,
                                        class |-> job[j].class,
                                        status |-> "queued"]]
          /\ ClientGoes(c, "admitting")
       \/ /\ "storefail" \in May
          /\ ClientGoes(c, "abandoning") /\ UNCHANGED row
    /\ UNCHANGED <<durable, registry, agents, stopping, stalled, restarts>>

\* The request is answered, after it has recorded the end of a job that ended
\* meanwhile.
Answered(c) ==
    IF Unended(client[c].id) THEN client' = [client EXCEPT ![c] = Idle]
    ELSE ClientGoes(c, "recording")

\* admitted: the job, if it still waits, may be started now.
Admitted(c) ==
    LET j == client[c].id IN
    /\ ClientAt(c, "admitting")
    /\ job' = IF InQueue(j) THEN [job EXCEPT ![j].persisted = TRUE] ELSE job
    /\ Dispatches(queue, running, job')
    /\ Answered(c)
    /\ UNCHANGED <<durable, active, admitted, row, agents, stopping, restarts>>

\* abandon: the job is withdrawn.  No slot is looked for.
Abandon(c) ==
    LET j == client[c].id IN
    /\ ClientAt(c, "abandoning")
    /\ queue' = Without(queue, j)
    /\ active' = [k \in Key |-> IF active[k] = j THEN None ELSE active[k]]
    /\ job' = [job EXCEPT ![j] = NoJob]
    /\ client' = [client EXCEPT ![c] = Idle]
    /\ stalled' = TRUE
    /\ UNCHANGED <<durable, running, admitted, row, agents, stopping, restarts>>

\* j is over; it is kept while a slot or a request has it.
Over(j, kept) ==
    [job EXCEPT ![j] = IF kept THEN [@ EXCEPT !.ended = TRUE] ELSE NoJob]

\* finish_job: a row that has ended, or is missing, is not written.
FinishRow(r) == IF IsLive(r) THEN EndedRow ELSE r
Recorded(j) == row' = [row EXCEPT ![j] = FinishRow(@)]

\* persist_terminal: a job cancelled meanwhile.
RecordEnd(c) ==
    LET j == client[c].id IN
    /\ ClientAt(c, "recording")
    /\ Recorded(j)
    /\ job' = [job EXCEPT ![j] = NoJob]
    /\ client' = [client EXCEPT ![c] = Idle]
    /\ UNCHANGED <<durable, active, queue, running, admitted, agents, stopping,
                   stalled, restarts>>

-----------------------------------------------------------------------------
\* The slots: worker_loop.

\* Its runner leased the job to an agent.
Leased(s) ==
    LET j == running[s] IN
    /\ durable /\ j # None /\ Unended(j) /\ ~stopping
    /\ row[j].status = "queued"
    /\ row' = [row EXCEPT ![j].status = "leased"]
    /\ UNCHANGED <<durable, registry, client, agents, stopping, stalled,
                   restarts>>

\* Mutant: only the slot that is free looks for a job.
HandsOverOnly(s, q, jobs, moved) ==
    LET at == [queue |-> q, running |-> [running EXCEPT ![s] = None]] IN
    /\ Becomes(IF durable /\ stopping THEN at ELSE TakeNext(s, at, jobs, live))
    /\ UNCHANGED stalled

\* The slot is handed to the next job under the same lock; only if there is
\* none does another slot, in worker mode, get to look.  `moved`: its job went
\* to the queue of another class.
HandsOver(s, q, jobs, moved) ==
    LET at == [queue |-> q, running |-> [running EXCEPT ![s] = None]]
        taken == TakeNext(s, at, jobs, live)
    IN  IF durable /\ stopping THEN Becomes(at) /\ UNCHANGED stalled
        ELSE IF durable /\ taken = at THEN Dispatches(q, at.running, jobs)
        ELSE Becomes(taken) /\ stalled' = (stalled \/ moved)

\* Mutant: the key is given up whoever holds it now.
KeyFreedAlways(j) == [active EXCEPT ![job[j].key] = None]

\* The dedup key of a job that is over, unless a newer job has it.
KeyFreed(j) ==
    [active EXCEPT ![job[j].key] = IF @ = j THEN None ELSE @]

\* The job is over: it ends now, or its user or a stop had ended it.
RunEnds(s) ==
    LET j == running[s] IN
    /\ j # None
    /\ job' = [job EXCEPT ![j] = NoJob]
    /\ Recorded(j)
    /\ active' = KeyFreed(j)
    /\ HandsOver(s, queue, job', FALSE)
    /\ UNCHANGED <<durable, admitted, client, agents, stopping, restarts>>

\* The runner put the job back in its queue, or in a larger class's, in the
\* store already; a stop leaves it there.  (Once per job: WorkerLease counts.)
RunRequeued(s) ==
    LET j == running[s] IN
    /\ "requeue" \in May /\ durable /\ j # None /\ Unended(j)
    /\ IsLive(row[j]) /\ ~job[j].again
    /\ \E class \in job[j].class .. MaxClass :
         /\ row' = [row EXCEPT ![j].status = "queued", ![j].class = class]
         /\ job' = [job EXCEPT ![j].class = class, ![j].again = TRUE]
         /\ HandsOver(s, IF stopping THEN queue
                         ELSE [queue EXCEPT ![class] = InsertByOrder(@, j)],
                      job', class # SlotClass[s])
    /\ UNCHANGED <<durable, active, admitted, client, agents, stopping,
                   restarts>>

\* A stopping master's runner leaves the job as the table has it.
RunLeft(s) ==
    LET j == running[s] IN
    /\ durable /\ stopping /\ j # None /\ Unended(j)
    /\ HandsOver(s, queue, job, FALSE)
    /\ UNCHANGED <<durable, job, active, admitted, row, client, agents,
                   stopping, restarts>>

-----------------------------------------------------------------------------
\* The user, the agents and the process.

\* Mutant: a job that waits is only marked.
CancelWaiting(j) ==
    /\ "cancel" \in May /\ Unended(j)
    /\ job' = [job EXCEPT ![j].ended = TRUE]
    /\ active' = KeyFreed(j)
    /\ Recorded(j)
    /\ UNCHANGED <<durable, queue, running, admitted, client, agents, stopping,
                   stalled, restarts>>

\* cancel_job: a waiting job leaves its queue, one in a slot keeps it until
\* its runner returns.
CancelJob(j) ==
    /\ "cancel" \in May /\ Unended(j)
    /\ job' = Over(j, InSlot(j) \/ ~job[j].persisted)
    /\ queue' = Without(queue, j)
    /\ active' = KeyFreed(j)
    /\ Recorded(j)
    /\ UNCHANGED <<durable, running, admitted, client, agents, stopping,
                   stalled, restarts>>

\* Mutant: a channel is counted for an agent.
AgentsMoveByChannel(c) ==
    /\ "agents" \in May /\ durable /\ c > 0
    /\ live' = [live EXCEPT ![c] = @ + 1]
    /\ changed' = TRUE
    /\ UNCHANGED <<durable, registry, row, client, stopping, stalled, restarts>>

\* An agent of class c connects or goes away.  (The smallest class spills
\* nowhere: its agents decide nothing here.)
AgentsMove(c) ==
    /\ "agents" \in May /\ durable /\ c > 0
    /\ \E n \in {live[c] - 1, live[c] + 1} \cap (0 .. Slots[c]) :
         live' = [live EXCEPT ![c] = n]
    /\ changed' = TRUE
    /\ UNCHANGED <<durable, registry, row, client, stopping, stalled, restarts>>

\* agents_changed.
AgentsChanged ==
    /\ changed
    /\ changed' = FALSE
    /\ Dispatches(queue, running, job)
    /\ UNCHANGED <<durable, job, active, admitted, row, client, live, stopping,
                   restarts>>

\* JobRegistry::shutdown: in worker mode the jobs are left to the table, in
\* local mode every one of them fails.
Shutdown ==
    /\ "stop" \in May /\ ~stopping
    /\ stopping' = TRUE
    /\ IF durable
       THEN UNCHANGED <<job, active, queue>>
       ELSE /\ job' = [j \in Id |-> IF InSlot(j) THEN [job[j] EXCEPT !.ended = TRUE]
                                    ELSE NoJob]
            /\ active' = [k \in Key |-> None]
            /\ queue' = [c \in Class |-> <<>>]
    /\ UNCHANGED <<durable, running, admitted, row, client, agents, stalled,
                   restarts>>

\* Of two live rows of a key the later one is not reloaded.
Reloaded ==
    {j \in Id : /\ IsLive(row[j])
                /\ \A i \in 1 .. j - 1 :
                     IsLive(row[i]) => row[i].key # row[j].key}

\* A leased job holds a slot again, if there is one; any other is queued.
RestoreRow(at, j) ==
    LET class == row[j].class
        slots == {s \in Slot : at.running[s] = None /\ SlotClass[s] >= class}
    IN  IF j \notin Reloaded THEN at
        ELSE IF row[j].status = "leased" /\ slots # {}
        THEN [at EXCEPT !.running[Min(slots)] = j]
        ELSE [at EXCEPT !.queue[class] = InsertByOrder(@, j)]

\* The queues and slots that the rows make, in admission order.
NoneHeld == [queue |-> [c \in Class |-> <<>>], running |-> [s \in Slot |-> None]]
Restored == FoldLeft(RestoreRow, NoneHeld, [j \in Id |-> j])

\* The process ends at any step, and the next one restores the table.
Restart ==
    LET held == Restored
        jobs == [j \in Id |->
                   IF j \in Reloaded
                   THEN [NoJob EXCEPT !.key = row[j].key,
                                      !.class = row[j].class,
                                      !.persisted = TRUE,
                                      !.again = job[j].again]
                   ELSE NoJob]
        down == [c \in Class |-> 0]
    IN
    /\ durable /\ restarts < MaxRestarts
    /\ restarts' = restarts + 1
    /\ Becomes(DispatchIdle(held, jobs, down))
    /\ job' = jobs
    /\ active' = [k \in Key |->
                    LET of == {j \in Reloaded : row[j].key = k}
                    IN  IF of = {} THEN None ELSE Min(of)]
    /\ row' = [j \in Id |->
                 IF ~IsLive(row[j]) THEN row[j]
                 ELSE IF j \notin Reloaded THEN EndedRow
                 ELSE IF \E c \in Class : j \in ToSet(held.queue[c])
                 THEN [row[j] EXCEPT !.status = "queued"] ELSE row[j]]
    /\ client' = [c \in Client |-> Idle]
    /\ live' = down /\ changed' = FALSE
    /\ stopping' = FALSE /\ stalled' = FALSE
    /\ UNCHANGED <<durable, admitted>>

-----------------------------------------------------------------------------

Persist(c) == InsertJob(c) \/ Admitted(c) \/ Abandon(c) \/ RecordEnd(c)

Next ==
    \/ \E c \in Client : Persist(c) \/ \E k \in Key : Admit(c, k)
    \/ \E s \in Slot : Leased(s) \/ RunEnds(s) \/ RunRequeued(s) \/ RunLeft(s)
    \/ \E j \in Id : CancelJob(j)
    \/ \E c \in Class : AgentsMove(c)
    \/ AgentsChanged \/ Shutdown \/ Restart

Spec == Init /\ [][Next]_vars

-----------------------------------------------------------------------------
\* Properties.

JobRec == [key : Key \cup {"none"}, class : Class, persisted : BOOLEAN,
           again : BOOLEAN, ended : BOOLEAN]
RowRec == [key : Key \cup {"none"}, class : Class,
           status : {"none", "queued", "leased", "ended"}]
ClientRec == [pc : {"idle", "inserting", "admitting", "abandoning",
                    "recording"},
              id : Id \cup {None}]

\* Every part of the state is of its kind.
TypeOK ==
    /\ durable \in BOOLEAN
    /\ job \in [Id -> JobRec]
    /\ active \in [Key -> Id \cup {None}]
    /\ queue \in [Class -> Seq(Id)]
    /\ running \in [Slot -> Id \cup {None}]
    /\ admitted \in 0 .. MaxJobs
    /\ row \in [Id -> RowRec]
    /\ client \in [Client -> ClientRec]
    /\ \A c \in Class : live[c] \in 0 .. Slots[c]
    /\ {changed, stopping, stalled} \subseteq BOOLEAN
    /\ restarts \in 0 .. MaxRestarts

\* A job is in one place: no two slots run it, it does not wait while it
\* runs, and it waits once, among the jobs of its class.  Only a job that has
\* not ended waits, so a job cancelled while its row is being written is
\* never started.
InOnePlace ==
    /\ \A s, t \in Slot : running[s] = running[t] /\ running[s] # None => s = t
    /\ \A c \in Class : \A n \in DOMAIN queue[c] :
         LET j == queue[c][n] IN
         /\ Unended(j) /\ job[j].class = c /\ ~InSlot(j)
         /\ \A m \in 1 .. n - 1 : queue[c][m] < j

\* The dedup key and the jobs agree: a key names the one job of it that has
\* not ended, whoever cancelled, withdrew, re-queued or restored it, so no two
\* jobs of a key are live at once and no request is answered with a job that is
\* over.  (A job that ended by a cancel may wind down in its slot meanwhile.)
KeyIsJob ==
    \A k \in Key :
        \A j \in Id : Unended(j) /\ job[j].key = k <=> active[k] = j

\* "A queued job sees an idle slot only when that slot may not take it"
\* (jobs.rs, simulate_queue_etas).  What is under way may still change that:
\* the hub's notice, or the insert of a job that was cancelled while it
\* blocked a queue.  A job withdrawn in `abandon`, and one that moved to a
\* larger class while its slot took another, do wait beside an idle slot
\* until the next dispatch; they are told apart by `stalled`.
Startable(s) ==
    /\ running[s] = None /\ ~stopping
    /\ NextQueueFor(s, queue, running, job, live) # NoClass
UnderWay == changed \/ \E c \in Client : /\ client[c].pc \notin {"idle", "recording"}
                                         /\ ~Unended(client[c].id)
NothingStartable == \A s \in Slot : Startable(s) => UnderWay
StartedUnlessStalled == stalled \/ NothingStartable

\* Starts are in admission order within a class: no job starts while an
\* earlier one of its class waits, whether it was re-queued, moved here, or
\* is still being written.
NoOvertaking ==
    [][\A s \in Slot :
         LET j == running'[s] IN
         (j # None /\ ~InSlot(j) /\ restarts' = restarts)
         => \A i \in ToSet(queue'[job'[j].class]) : i > j]_vars

\* An estimate counts the slots that dispatch would use: once nothing is under
\* way, each waiting job's estimated start is the one it gets when the busy
\* slots, with any running times, take jobs by the dispatch rule (each taken
\* to have its agent); no idle slot makes it look earlier.
EstimateIsDispatch ==
    LET busy == {s \in Slot : running[s] # None}
        settled == /\ ~stopping /\ ~stalled /\ ~UnderWay
                   /\ \A c \in Client : client[c].pc = "idle"
        free(cost) == [s \in Slot |-> IF s \in busy THEN cost[running[s]] ELSE 0]
        ClassOf(S) == [s \in S |-> SlotClass[s]]
    IN  settled => \A cost \in [Id -> 1 .. 2] :
          Simulate(ClassOf(Counted), free(cost), queue, cost)
            = Playing(ClassOf(busy), free(cost), queue, cost)

\* That estimate and dispatch are the same rule is a fact of Schedule: it is
\* looked at before anything is admitted.
SameRule == admitted = 0 /\ restarts = 0 => SimulateIsDispatch

=============================================================================
