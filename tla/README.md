# tolmap in TLA+

tolmap turns a git repository into a map. Its service (`src/src/service/`)
takes requests over HTTP, queues one job per request, and runs each job in a
child process: on this machine (local mode), in agents it starts itself
(loopback mode), or in agents on other hosts that dial in (remote mode).
This directory models the parts of it where steps of several actors interleave
and where crashes, lost channels and restarts must not lose or repeat work:
from the request that admits a job, over the queues and the slots, the durable
row and the agent that leases it (remote mode), to the clone, the child process
and the cancel on the host that runs it (an agent's, or the service's own in
local mode), and back to the job's two recorded endings.

## The system

| component | code (under `src/src/`) | state | operations | what makes it correct |
|---|---|---|---|---|
| job store | `service/store.rs` | `jobs` rows (status, class, lost workers, epoch, holder), maps, timings | one transaction each: insert, begin_attempt, save_job_state, requeue_job, rebind_job, finish_job, publish | an epoch is given out once; a terminal row never changes; a map appears only for the live epoch |
| job registry, queue, runner slots | `service/jobs.rs` | snapshots, dedup keys, a queue per class, slots, orphans | spawn_job (admit, persist_admission, admitted, abandon), dispatch_idle, worker_loop, cancel_job, restore, shutdown, finish_*_durable | a job is in one place; keys name what is live; what may start starts, in order; every admitted job ends once; what a client was told outlives the process |
| worker hub and runner | `service/workers.rs` | channels, leases, settled results, waiting claims, one runner thread per started job | add_conn, remove_conn, handle, claim, adopt, cancel, reroute, expired, resume, verdict, end_lease, abandon_lease; run_remote, requeue, let_go_stopping, register_result, put_artifact | one agent per attempt; events in order; every lease ends; verdicts are kept |
| agent | `service/agent.rs` | the job it holds, its outbox, its channel, the frames that wait for one | dial, on_welcome, on_message, on_job, finished, flush, tick, let_go | never works unasked for ever; forgets nothing the master has not applied |
| queue schedule, estimates | `service/schedule.rs`, `eta.rs` | none (pure) | bind, next_for, simulate; fitting a prediction to past timings | the simulated order is the order dispatched |
| executor | `service/executor.rs` | the job directory, the child and its registration | execute, run_child, child_started, child_exited, pin_commit | a cancel reaches the child; the child builds the admitted commit; nothing is left behind |
| clone cache | `service/clone.rs` | clone directories and their last use | materialize, fetch_and_fast_forward, local_clone_into, touch, evict_lru | the budget holds again once an eviction has counted all; the clone in use stays |
| result adoption | `service/worker_result.rs` | none | adopt | only checked files are kept |
| rate limiter | `service/ratelimit.rs` | hits per client | check | never more than the limit in a window |
| HTTP, settings, views | `service/http.rs`, `config.rs`, `compare.rs`, `lens.rs`, ... | none | handlers | formatting and parsing |
| pipeline | `pipeline.rs`, `extract.rs`, `partition.rs`, `geometry.rs`, ... | files | analysis of one repository | the same output for the same input |

How they interact. `POST /api/index` admits a job: registry snapshot and store
row. A slot of the registry starts the job's *runner* (`run_remote`), which
raises the row's epoch (`begin_attempt`), waits in the hub for a free agent
(`claim`), and from then on reads what the hub forwards from that agent. Hub
and agent talk over one WebSocket channel (frames `ready`, `heartbeat`,
`job_event`, `released` up; `assign`, `cancel`, `result_accepted`,
`result_rejected`, `lease_renewed` and a close down); artifacts go over
separate HTTP requests. A user's cancel and the hub's resume run on other
threads than the runner, under two locks (registry and hub) that are never
held together.

On the host that runs it, a job's thread clones or fetches into a cache other
jobs use, evicts from it, copies, pins the commit, starts the child and reads
what it says; a cancel comes from another thread and kills what is registered
under a lock of its own. When a runner is done, its slot takes the next job
from the queues; admissions and cancels reach the queues from request threads,
and the hub reports agents that come and go.

What is hard: the runner, the hub's channels, the agent's socket thread and
the user each change part of one job's state in critical sections of their
own; channels drop at any time with frames in flight, and may be half-open;
leases run out by deadline on a poll; the master may crash between any two of
the store's transactions; verdicts and cancels may be lost and are given again
on reconnect.

## Modules

| module | what it is |
|---|---|
| `JobStore` | the `jobs` table: each operator is one SQL transaction on one row |
| `Outbox` | the agent's outbox: sequence numbers, acknowledgement, rewind |
| `AgentState` | what one agent process holds, and what its socket thread makes of each order, event and welcome |
| `WorkerLease` | the composition: rows, runners, hub, channels, agents, user cancel, graceful stop, restart; its fairness and all properties |
| `JobLifecycle` | what the tier promises of a job (waits, is held, ends; attempts; its map), without agents, leases or runners; `WorkerLease` implements it |
| `JobCompletion` | how one job ends: worker_loop and its runner, cancelling clients, a restart, each writing row and snapshot in steps of its own, over a store that may fail |
| `Schedule` | the pure rules of the queues: binding to a class, whose queue a slot takes from, the simulation behind the estimates, and the dispatch rule played forward to compare it with |
| `AdmissionQueue` | the registry: requests that admit jobs, the class queues, dedup keys and slots, cancel, re-queue, move, agents, stop and restart |
| `CloneCache` | the clones of a host: what clone and fetch leave, last use, which clones an eviction removes |
| `JobExecution` | one host running jobs: clone, copy, pin, child, cancel; local mode and agent |
| `MCWorkerLease`, `MCAdmissionQueue`, `MCJobExecution` | instances for TLC (`JobCompletion` needs none) |
| `WorkerLeaseProofs` | lemmas per operator, `TypeCorrect`; the inductive invariants `FenceInv` and `LifeInv`: the fence, that `WorkerLease` implements `JobLifecycle`, and that what ended stands; `LinkInv` and `ClaimsInv`: which agent is free and who claims an attempt, and the properties that follow |
| `AttemptProofs` | how attempts end, what is said of them, how many there are, and the numbers of their events: the inductive invariants `EndInv`, `AttemptInv` and `ChannelInv`, and the properties that follow |
| `EventProofs` | what reaches a runner from its lease, and in what order: the inductive invariant `EventInv`, and `EventsInOrder` |
| `VerdictProofs` | what an agent is told of its result: the inductive invariant `VerdictInv`, and `VerdictHonest` |
| `JobCompletionProofs` | the inductive invariant `CompletionInv`, and the properties that follow |
| `JobExecutionProofs` | the inductive invariants `ExecutionInv` (a job's run) and `CacheInv` (the clones), and the properties that follow |
| `SequenceProofs` | what the library's operators on sequences and its folds return, for every sequence |
| `AdmissionProofs` | the registry: the inductive invariants `KeyInv` (its dedup keys), `RegistryInv` (its queues and slots) and `StartInv` (what could start), and the properties that follow |

How they fit. `WorkerLease` is built from `JobStore`, `Outbox` and
`AgentState`, `AdmissionQueue` from `Schedule`, `JobExecution` from
`CloneCache`. The three compositions and `JobCompletion` meet at the job:
`AdmissionQueue` hands a job to a slot and gets it back ended, re-queued or
left; `WorkerLease` is what happens in between in remote mode; in it, one step of
the agent's job is a whole `JobExecution`; and `JobCompletion` opens the step
in which a job ends. Each leaves to the others what they model, and allows at
its border everything they may do.

State of `WorkerLease` and the code:

| variable | code |
|---|---|
| `row[j]` | the row of `jobs` in SQLite |
| `runner[j]` | the slot thread in `run_remote`: where it is (`pc`) and its locals |
| `cancelled`, `outcome[j]` | the registry's cancelled jobs; how the job's snapshot ended and why |
| `published[j]` | maps published for the job (a history variable) |
| `lease[j]` | `HubInner.leases`; `time` stands for the deadline: `live`, `due` (passed, nobody has looked) or `lost`; `events` is all that was sent to the runner's receiver, `runner[j].read` how much of it was read |
| `settled[j]` | `HubInner.settled` |
| `conn[c]`, `nextConn` | `HubInner.conns`, `next_conn` |
| `agent[a]` | the agent process: `link`, `cur` (`Current` with its outbox), `pending`, `ready` (`want_ready`) |
| `up[c]`, `down[c]` | frames in flight on channel c |
| `stopping`, `restarts` | `JobRegistry::shutdown` has begun; restarts so far (a bound) |

An action is one critical section of the hub's lock, one store transaction, or
one turn of an agent's socket thread (which ends with its flush, as
`Agent::run` does). `OnReady`, `OnHeartbeat`, `OnStaleEvent`,
`OnNextEvent` and `OnReleased` are the arms of
`WorkerHub::handle`; `Start`, `Claim`, `GiveUp`, `SaveLeased`, `RunOrphan`,
`OnFeatures`, `OnResult`, `Publish`, `Registered`, `OnError`, `OnRelease`,
`NoticeCancel`, `LetLeaseGo`, `FindExpired`, `EndLease`, `StoreRequeue` and
`RunnerPanics` are the steps of `run_remote` and of what it calls; the actions
of an agent are named for its handlers. `Restart` drops the process's memory
and its channels, and does what `restore` does with each row: a live
leased or running row is adopted at its epoch for its holder, a queued one is
queued again. In `JobCompletion`, `row` and `snap` are the job's two records reduced to how it
ended (with the error code: `cancelled` and `failed` are both `status` failed),
`loop` is where the slot's thread is in `worker_loop` or in the runner it
spawned, `pending` and `next` are the ending that `finish_terminal_durable` is
writing and where it returns to, `requeue` and `cancelled` are the registry's
marks on the job, `client[c]` is where each client is in `cancel_job`. It says
nothing of agents and leases: a run there may fail, return a result, ask for a
re-queue, panic or return without an ending, whichever `WorkerLease` lets it.

`AdmissionQueue` and the code (`JobRegistry` in `jobs.rs`):

| variable | code |
|---|---|
| `durable` | `worker_mode`: rows are kept and agents lease jobs; else local mode |
| `job[j]`, `admitted` | the record of a job while anybody has it: its key, class, `persisted`, whether it ended; `admission_order` |
| `active[k]` | `active`, the dedup keys |
| `queue[c]`, `running[s]` | the queue of each class, the job in each slot |
| `row[j]` | the jobs table, reduced to what a restart reads |
| `client[c]` | where a request is in `spawn_job` (`inserting`, `admitting`, `abandoning`, `recording`): steps between which the registry's lock is free |
| `live[c]`, `changed` | connected agents per class, and the hub's notice of a change not yet delivered |
| `stalled` | a history: a job was withdrawn, or moved past its slot, with no dispatch since |

`Admit`, `InsertJob`, `Admitted`, `Abandon` and `RecordEnd` are the steps of a
request; `Leased`, `RunEnds`, `RunRequeued` and `RunLeft` what a slot's runner
may come back with, each with the hand-over of the slot that `worker_loop` does
under the same lock; `CancelJob`, `AgentsMove`, `AgentsChanged`, `Shutdown` and
`Restart` are the handlers of those names.

`JobExecution` and the code (`executor.rs`, `clone.rs`, `JobContext` of
`agent.rs`, `run_blocking` of `jobs.rs`): `pc[j]` is where the job's thread is
in `execute_inner` and in `run_child`, `dir[j]` the commit its copy is at,
`proc[j]`, `death[j]` the child and what killed it, `registered[j]` the entry a
cancel kills by (`children` of the registry, `Current::child` of an agent),
`cancelled[j]` the mark, `killing[j]` an agent's cancel between its flag and
its kill (local mode does both under one lock), `said[j]` what the child's
events came to, `exit[j]` whether the executor sent a kill itself. `clone`,
`recent` and `listing` are the cache, the order of last use, and the eviction
each job is in: candidates listed in one step, removed in later ones. A clone is
`partial` while git fills it, and `broken` when a removal or a git that failed left
some of it. Sizes are counted in files, one for a clone's directory and one for
each commit it holds, so a fetch may grow a clone. `CloneFails`, `FetchFails`
(with a clone that grew, or not), `ListFails`, a size in `List` that cannot be
read, and `EvictFails` are the error paths of `materialize_with_progress` and
`evict_lru`, none of which is followed by another eviction of that job. Two
histories: `evicted` (jobs whose clone was removed under them) and `overlooked`
(something failed that left files no eviction has counted since; a listing that
reads all there is ends it). Commits of a repository are numbered as they reach
its remote, which has those from `floor` to `head`; a force push raises `floor`.

Definitions marked `Mutant` are plausible bugs of the definition
that follows them; nothing but the project's mutation runs uses them.

## Runs

`May` names what the surroundings may do in an instance: `expire` (a lease
runs out although its agent is there), `drop` (a channel breaks or falls
silent on either side), `cancel` (the user), `stop` (graceful stop), `fail`
and `oom` (the job), `hold` (the hold time passes), `reroute` (the features
call for a larger class), `panic` (the runner), `agentcrash`, `beat`
(heartbeats). A lease whose agent cannot renew it may run out in every run.

| run | instance | asks |
|---|---|---|
| `lease_resume` | 1 job, 1 agent of the larger of 2 classes, 3 channels, 3 attempts, 1 retry; drop, expire, beat | `TypeOK`, `EventsInOrder`, `InSequence`, `VerdictHonest`, `NeverUnasked`, `LostAfterRetries` |
| `lease_contention` | 2 jobs, 1 agent, 2 channels, 2 attempts each; expire, agentcrash, panic; with fairness | `OneLeasePerAgent`, `AssignFindsFree`, `JobEnds` |
| `lease_restart` | 1 job, 2 agents, 2 channels, 3 attempts, no retry, 1 restart; expire, stop, cancel | `Fence`, `EpochHasOneHolder`, `NoInternalFailure`, `AcceptedIsPublished`, `AttemptsBounded`, `EndStands`, `FollowsLifecycle` |
| `lease_live` | 1 job, 1 agent of the smaller of 2 classes; cancel, stop, hold, agentcrash, fail, oom, reroute; with fairness | `RunnerReturns`, `CancelFreesWorker`, `AgentLetsGo` |
| `completion` | 2 clients, 2 runs per process, 1 restart; everything; with fairness | `TypeOK`, `NeverInFlight`, `TerminalBacked`, `QueuedIsFresh`, `EndsOnce`, `NothingAfterEnd`, `Ends` |
| `admission` | 2 keys, 2 requests at once, 2 classes with a slot each, queues of 1, 3 jobs, 1 restart; both modes; everything | `TypeOK`, `InOnePlace`, `KeyIsJob`, `StartedUnlessStalled`, `EstimateIsDispatch`, `SameRule`, `NoOvertaking` |
| `execution` | 2 jobs, 2 repositories, 2 commits, room for 3 of 6 files; local mode and agent; everything; constrained | `TypeOK`, `CancelStopsChild`, `BuildsAdmitted`, `OomHonest`, `NothingLeft`, `WithinBudget` |
| `restart_unasked` | 1 job, 1 agent, 1 restart; expire | `NeverUnasked` is violated: a finding |
| `reroute_denied` | 1 job, 2 classes; reroute | `RerouteMoves` is violated: a finding |
| `completion_rest` | 2 clients, no restart; fail | `RowIsSnapshot` is violated: a finding |
| `admission_moved` | 2 classes, 3 jobs, no restart; agents, requeue | `NothingStartable` is violated: a finding |
| `execution_evicted` | 2 jobs, 2 repositories, 1 commit, room for 3 of 4 files; nothing but the jobs | `ActiveKept` is violated: a finding |

What they show. Events of a job reach its runner once and in order over any
number of replaced channels the bound allows, and a lease, its runner and its
row never disagree on the attempt (`lease_resume`, `lease_restart`). An agent is
never sent a job while it has one, though claims, resumes and detached leases
decide together who is free (`lease_contention`). What was told to a worker or a
client is backed by the table, and final (`VerdictHonest`,
`AcceptedIsPublished`, `EndStands`, `completion`). The jobs table and the maps,
through all of it, are those of `JobLifecycle`. A job is in one queue or one
slot, and an idle slot waits beside a job it may take only in the two cases the
history `stalled` names (`admission`); the estimates shown to clients replay the
same rule, for any running times. On the host, cancel and child find each other
whichever comes first, and the child builds the commit that was admitted while
the clone it came from moves. An eviction is best-effort: whatever of it fails, or
a fetch that grew its clone and failed, leaves the cache over its budget, but
only until a job has listed it all and nothing fails after (`execution`).

Bounds. `MaxEpoch` attempts per job, `MaxConn` channels opened, `MaxRestarts`
restarts, one heartbeat and one renewal in flight per channel. One job is
enough where a property relates a job's row, runner, lease and agent: jobs
meet only in `claim` and on a channel, which `lease_contention` gives two jobs
and one agent for. Three channels make one resume after a resume, two of one
agent's channels alive at once, and an eviction (`MaxChannels` is 2; the code's
limit is larger). Two attempts make a stale one; three are one more
than `AttemptsBounded` allows without a retry and with a restart, and than the
one retry of `lease_resume` needs. The agent of `lease_resume`
is of the larger class so that it runs the job both before and after a loss under
memory pressure moves it there; that of `lease_live` is not, so that a job that
moves leaves it for good. A restart breaks every channel by itself, so
`lease_restart` needs no `drop`. In `completion`, two clients race each other and the
slot, two runs make a re-queue followed by a run, and one restart makes a run
on a row the process before left; its `May` adds `requeue` and `storefail` (a
write given up after its retries, or tried once and failed). In `admission`, one
slot per class and queues of one make a full queue, a spill and a blocked head
with three jobs (`MaxJobs` ever admitted: one running, one waiting, one
arriving), each re-queued at most once; the estimate is compared for running
times of 1 and 2, and as pure functions for four jobs (`SameRule`). In
`execution`, two jobs of one repository meet at its clone, and two commits make a
push or a force push between admission and copy. Two repositories, with room for
one clone of two commits, or one of one commit and what a failure left of the
other, make an eviction under another job and a fetch that takes the cache over its
budget. The run's constraint `OneOrUnspawned` is there for time: it keeps the states
in which either both jobs are of one repository, whose clone is the only one
(`OneRepository`), or no child was started and no job cancelled (`Unspawned`).
Nothing of `WithinBudget` is lost by it: a job that spawns has left the cache and
does not come back, a job whose spawn fails ends as well, and a cancel changes no
step at the cache (it lets a job of the same commit start beside the cancelled one,
as a push between the two does). What it leaves out is a child, or a cancel, of a
job beside a second repository: the properties of the child speak of one job at a
time, and are proved, as is `WithinBudget`, for any number of jobs and
repositories (`ExecutionInvariant`, `CacheFits`).
Keys and requests,
and jobs and repositories, are interchangeable in these, and are declared
symmetric; no liveness is checked there. Every passing run is
exhaustive, `execution` within its constraint. Deadlock is not
checked: a bounded run really ends, when all jobs have ended or the bound on
channels, jobs or runs is used up.

### Fairness

`FairSpec` assumes weak fairness of each agent's turns (its process runs
`Agent::run` in a loop), of the handling of each channel's frames
(`serve_agent` is a task of its own per channel), of each runner (a thread
that polls every `POLL`; its panic is not fair), of redialling that is heard,
of the removal of a channel nobody reads, and of the deadline of a lease that
its agent does not renew. It assumes nothing of the environment: drops,
cancels, stops, crashes and failures may or may not happen. The hold time of
an agent does pass (`AgentLetsGo` rests on it), as a clock does.

`JobCompletion!FairSpec` assumes that a queued job is dispatched to a free slot,
that the runner returns one way or another (`RunnerReturns` of `WorkerLease` is
that property of `run_remote`) and that the slot's thread goes on. It assumes
nothing of clients: a job's end does not wait for a cancel that is under way.

`AdmissionQueue` and `JobExecution` state no fairness: what they have to say of
waiting is said as an invariant (`NothingStartable`, `NothingLeft`).

### The abstract specification

`FollowsLifecycle` is `Lifecycle!Spec`, the specification of `JobLifecycle` with
`state` and `attempt` read from the row and `map` from the published maps. It
says of every step of `WorkerLease` that it is a step of one job's life, or none:
an attempt begins only while the job waits, and is leased before it runs; only an
attempt that holds the job publishes; a job is done only with its map; what ended
stays. The mapping needs no history: runners, leases, channels and agents have
no counterpart.

## Proofs

For every set of jobs and agents, any number of classes, any bounds, and
whatever the surroundings may do, from `StoreAssumption` and
`LeaseAssumption` (kinds of the constants, and that `NoAgent` is no agent), and
for every number of clients, runs and restarts:

* `WorkerLeaseProofs!TypeCorrect`: `Spec => []TypeOK`. The type invariant is
  inductive on its own. One lemma per operator says what kind of record it
  returns (`AgentState`'s on an agent's state, `Outbox`'s on an outbox, the
  hub's on leases and channels), one lemma per action that it keeps the
  types.
* `JobCompletionProofs`, from `CompletionAssumption`: `CompletionInvariant`
  (`Spec => []CompletionInv`), and from it `TypesKept` (`[]TypeOK`),
  `EndsBacked` (`[]TerminalBacked`), `NoneInFlight` (`[]NeverInFlight`),
  `RequeuedFresh` (`[]QueuedIsFresh`), `EndsAreFinal` (`EndsOnce`) and `PublishesLive` (`NothingAfterEnd`). None is inductive:
  whether memory may be told of an ending depends on whether its teller has
  been to the store (`Backing`: the slot once it is applying, a client once it
  is cancelling), and whether a job may leave its slot unended depends on marks
  read a few steps before (`Placed`: what `held` was read from still holds).
* `WorkerLeaseProofs!FenceInvariant`: `Spec => []FenceInv`, and
  `WorkerLeaseProofs!Fenced`: `Spec => []Fence`. `Fence` says the hub holds a lease
  of a job exactly while its runner is in charge, and that lease, runner and
  row agree on the epoch. It is not inductive: a restart rebuilds runners and
  leases from rows, so what a row says must already have been true, and a
  claim creates a lease at an epoch the runner read earlier. `EpochsGiven`
  adds that a runner in charge or claiming works at its row's epoch, which has
  been given out, and that a leased or running row has one. `FencedAt(j)` is
  the invariant of one job; an action that changes one job's runner, lease or
  row leaves the others' alone (`OneJob`), and an action of an agent or a
  channel changes no field it speaks of (`StaysFenced`).
* On the same invariant, `WorkerLeaseProofs` goes on to
  `FollowsTheLifecycle`, `Spec => FollowsLifecycle`, that `WorkerLease`
  implements `JobLifecycle` for any jobs, agents, classes and bounds, and
  `EndsStand`, `Spec => EndStands`. The inductive invariant is `LifeInv`:
  `FenceInv`, which gives every save, re-queue and publication the epoch it is
  compared with, and `StandsAt`, what is still true of a row that a runner read
  several steps ago (nobody holds a row whose runner is on its way to a lease;
  a row whose runner has its lease is no longer queued; one that published has
  a map). The argument is one lemma per action: it leaves all jobs but one as
  they were (`NoneLives`, `OneLives`), and that one job takes a step of its
  life or none (`LifeStep`, mapped to a step of `JobLifecycle` by `Following`).
* `JobExecutionProofs`. From no assumption on the constants,
  `ExecutionInvariant` (`Spec => []ExecutionInv`), and from it `ChildStopped`
  (`[]CancelStopsChild`), `AdmittedBuilt` (`[]BuildsAdmitted`), `NoneLeft`
  (`[]NothingLeft`) and `OomIsOom` (`[]OomHonest`). `Sound(j)` is the invariant of
  one job: where its thread is while the child lives and while it is registered,
  that an agent's kill follows its flag, that the copy is at the admitted commit
  from the pin on, and that what this host killed is either cancelled or known as
  its own kill before the cause of death is read. It needs nothing of the clone
  cache, so an eviction or a fetch cannot disturb it (`ClonesKeep`): that is what
  pinning in the job's own copy buys. A step of a job leaves the others' part of
  the state alone (`Only`, `OthersSound`).
  From `CacheAssumption` (repositories and commits are finite, and commits are
  numbered from 0 without a gap), `CacheInvariant` (`Spec => []CacheInv`), and from
  it `HostTyped` (`[]TypeOK`) and `CacheFits` (`[]WithinBudget`), for any number of
  jobs, repositories, commits and room for any number of files. An eviction is
  best-effort, so no theorem says the budget holds: `WithinBudget` says it does
  where nothing has failed since a job listed all there is (`~overlooked`) and no
  job is at its clone. So what has to be inductive is what jobs that overlap owe
  each other: while the clones nobody is filling are over the budget
  (`~Fits`), something failed and is not counted yet, or the last job that was
  through with filling has not listed them, or is removing from a list that has
  counted all of them (`Clearing`), so one that listed too early is made good by a
  later one (`Counted`). Every success that adds files leads to a listing, every
  failure that adds or leaves some is `overlooked`, and removals only take away
  (`StillCounted`). It takes that whoever fills a clone is the only one at it
  (`Alone`).

* `WorkerLeaseProofs`, second half, from the same assumptions.
  `LinkInvariant` (`Spec => [](TypeOK /\ LinkInv)`) and
  `AssignsFindFree` (`[]AssignFindsFree`): an agent's slot is one token, which is
  on its channel as a `ready` under way, in the hub as the channel's `ready`,
  under way as an `assign`, or with the agent as its job or as the `ready` it
  owes; never two of them (`OneToken`), whichever channel is lost or replaced.
  `ClaimsInvariant` (`Spec => [](ClaimBase /\ ClaimsInv)`) and `OneHolderPerEpoch`
  (`[]EpochHasOneHolder`): everything that may make an agent work on an attempt
  (its own state, an `assign` under way, the lease, the holder in the row that
  a restart adopts) names one agent, and no attempt that was not given out. The
  row has to be among them: it outlives the others over a restart.
* `AttemptProofs`, from the same assumptions. `EndInvariant`
  (`Spec => []EndInv`), from which `AcceptedArePublished` (`[]AcceptedIsPublished`)
  and `LostAfterAll` (`[]LostAfterRetries`): row, snapshot, map and count of losses
  agree at each place of the runner between its steps. `WordsInvariant`
  (`Spec => []AttemptInv`): each event, release and cancel, on a channel, in an
  agent's queue or outbox, or forwarded to the runner, was asked for. The
  argument is that of a set of words, triples of job, epoch and word, that may be
  said: a word stands if its attempt was given out and, while the lease of that
  attempt is held, runner and lease remember what called for it (a `reroute`
  for a class to move to, a result for its uploads, ...). A word that stands keeps
  standing (`WordsStay`), as what a runner asked it does not forget and a lease that
  ended does not return but by a restart; so nothing need be known of how long a
  frame is under way, and it is enough that each one stands when it is sent.
  From it `NoFailureInside` (`[]NoInternalFailure`), and with `TriesInv`, which
  counts a row's attempts by its class, its losses and the restarts,
  `TriesBounded` (`[]AttemptsBounded`). `UnaskedOnlyAfterRestart` is
  `[](restarts = 0 => NeverUnasked)`: with a restart the property is violated, which
  is a finding below, and the theorem says that nothing but a restart violates
  it. `OneLeaseEach` (`[]OneLease`): of two leases of one agent, one has run out
  (which stays so: `SpentStays`) or was adopted by a restart; the latter has a
  fresh deadline, so that `OneLeasePerAgent` itself is proved, and checked, without
  a restart (`OneLeaseWithoutRestart`).
* Its last part is about the channel. `ChannelInvariant`
  (`Spec => [](AttemptInv /\ ChannelInv)`) and `EventsComeInSequence`
  (`[]InSequence`): on the channel of a lease that has not run out, the events of
  its attempt are numbered one after the other (`Numbered`), from the lease's
  `next` to some last one; if the agent runs the job on this channel, that is its
  outbox's `last`, and if the `assign` is still under way there are none.
  Reading one takes away the first number (`TailNumbers`), a flush adds numbers
  from `last + 1` on (`FlushNumbers`, `JoinNumbers`), a resume that moves the
  lease starts both sides again at `next` (`MovedNumbers`), and whatever else the
  hub, a runner or another agent does is no event of this attempt (`LeaseSteady`,
  `OnSteady`, `ByAgent`; `SteadyKeeps`). That a claim begins with a channel
  silent about the new attempt is from `WordsInv`: what is said is of an attempt
  that was given out. The agent's `last` is not tied to the hub's `next` but
  through the channel: between resumes the two are apart by what is under way.
* `EventProofs`, from the same assumptions. `EventInvariant`
  (`Spec => [](AttemptInv /\ ChannelInv /\ EventInv)`) and `EventsStayInOrder`
  (`[]EventsInOrder`): a runner gets a job's features first, at most one terminal
  event, and each reason its agent let go for at most once. Numbers do not give
  that, as `released` has none and a resume renumbers what it sends again. The
  argument has four parts. The log of a lease is `Logged`: features only as
  the first event, nothing but releases behind a terminal one; for that it
  is enough that features are always number 1 (`FirstInv`). The word that an
  attempt is let go for some reason is in one place at most (`Once`): in the
  lease's log, on one channel of its agent, in the `cancel` that asks for it, or
  owed by the agent; and in none of them while the agent has the job
  to run, so that one `cancel` read makes one `released`. A hub that told its
  agent remembers that it did for as long as the agent is attached (`Attends`,
  `KnowsInv`), and a resume that forgets the channel finds the agent with
  the job still there or the word on its way. Last, `BlankInv`: of an attempt
  whose agent has yet to write its first event, the hub heard none, so an outbox
  that starts again at 1 sends no features twice; an answer that the attempt is
  settled cannot be about it, as what is settled was settled on an event
  (`BookInv`).
* `VerdictProofs`, from the same assumptions. `VerdictInvariant`
  (`Spec => [](AttemptInv /\ ChannelInv /\ EventInv /\ VerdictInv)`) and
  `VerdictsStayHonest` (`[]VerdictHonest`): a verdict an agent has yet to read
  says what is settled, and one that accepts is of a job whose map is published.
  Verdicts are given by a runner that settles, by the hub that reads a result
  late or again, and by a resume, and none waits for another; so a refusal on its
  way, of an attempt that is still leased, must never be followed by an
  acceptance. `VerdictInv` has four parts. `TidyInv`: a result is the last thing an
  agent reports of an attempt, and a linked agent has written all it
  reported. `JobInv`: the hub took a result only if the lease's log says so, and
  what was accepted is of a job that is over (`Concluded`). `SealInv`, of each
  attempt that is leased: a result under way on a channel from which the hub may
  take it is alone there and the agent's last word, and the hub has not
  taken one before (`Single`); an agent whose result was taken or settled has
  nothing more to write (`Rested`), which is why a resume sends nothing again of
  it; while nothing is settled the lease is on the channel its agent goes on
  with (`Followed`); and what is settled is on its way to its end (`Parting`).
  `HonestInv`: what a verdict under way says is what is settled, or a refusal of
  an attempt that was given out and from which the hub will take no result any
  more, as its lease is over, cancelled, run out or without a channel
  (`Barred`); or it is an acceptance of a job that is over. That this
  stays so is `HonestStays` (only a resume makes a barred lease one from which a result may
  be taken, and an agent with a verdict to read is linked and does not dial), and that it is so when a verdict is sent is one lemma per sender
  (`RunnerHonest`, `StaleHonest`, `EventHonest`, `ConnectHonest`).
* `AdmissionProofs`, from `AdmissionAssumption`: `KeyInvariant`
  (`Spec => []KeyInv`) and `KeysAreJobs` (`[]KeyIsJob`), for any number of
  requests, repositories, jobs and slots: a dedup key leads to the job of that
  repository that has not ended. It needs the numbers not given out, and that
  a job whose end a request has yet to record keeps its key until then. Dispatch
  moves jobs between queues and slots by a fold; that it touches no key and
  no record is all this part uses of it.
  `RegistryInvariant` (`Spec => []RegistryInv`) adds the queues and slots:
  each queue strictly increasing, of unended jobs bound to its class, none of
  them in a slot, no job in two slots (`Placed`, of any pair of queues and
  slots, so that it can be said of the ones between two turns of a dispatch).
  From it `RegistryTyped` (`[]TypeOK`), `JobsInOnePlace` (`[]InOnePlace`) and
  `NobodyOvertakes` (`NoOvertaking`). A turn of a slot keeps `Placed` and starts
  only the head of a queue (`TakeNextPlaces`); a round is a run of turns
  (`DispatchRuns`), and the queues and slots that are well placed and started
  no other job since the round began (`PlacesLeft`) are closed under turns, so
  they hold its end. Restore is a run of rows in the same way: what it has
  placed after a row is made of rows up to that one.
  `StartInvariant` (`Spec => []StartInv`) and `NoIdleSlot`
  (`[]StartedUnlessStalled`) say that no slot is idle beside a job it may take.
  After a turn a slot is busy or finds nothing (`TurnSticks`), and does not find
  what the turns after it leave (`StuckStays`): they take persisted heads and keep
  slots busy, so an agent that was not to spare is not now (`BusyGrows`). So a
  whole round leaves nothing to start (`DispatchSticks`). Other steps do not look
  for slots, and must leave queues that are no easier to take from (`Quieter`): a
  queue that gets its first job gets one whose row is not written, and a head
  that may not start stays. The one step that takes such a head away is a cancel,
  and there it matters that its request is still on the way to dispatch
  (`Writing`).
* `SequenceProofs`, from nothing: what `RemoveAt`, `RemoveFirst` and `InsertAt`
  return, and that `FoldLeft` over a sequence is a run of its steps
  (`FoldRuns`): states `h[0]` to `h[n]`, one step apart, from the base to the
  value. Both the library's `MapThenFoldSet` and the runs are recursive
  functions, and the library's theorems on these take an operator, which the
  provers here cannot instantiate; what they do find is that a set of
  naturals that is not empty has a least element (`LeastOf`) and that a set
  with 0 that is closed under successor holds every number (`UpTo`), and an
  induction is an application of one of them to a set written out.

Only model-checked: in `AdmissionQueue` the comparison of the estimate with dispatch
(`EstimateIsDispatch`, `SameRule`): two different programs, one that picks with a
`CHOOSE` over predicted times and one that folds over slots, would have to be shown
to compute the same for any predictions; and all liveness, and whatever rests on
ENABLED, which the prover does not do. No module uses a RECURSIVE operator; what is
computed over sequences is written with folds.

## Findings

* `restart_unasked`. `resume` marks a run-out lease lost so that the
  `released` it provokes is ignored "rather than read as a job the agent gave
  up unasked" (`workers.rs`, comment in `resume`). The mark is in memory; the
  row is re-queued later, by the runner. If the master restarts in between,
  the next process adopts the lease at the same epoch, reads the agent's
  `released lease_lost`, and fails the job.
* `reroute_denied`. `WORKER_TIER.md` §2.1 says a reroute sends `cancel` and
  rebinds the job on `released`. The hub refuses the lease's uploads at once,
  a refusal is final for the agent, and the agent's terminal `error` may be on
  its way before it reads the `cancel`: the job fails.
* `completion_rest`. `finish_job` says every writer of one job writes the same
  terminal state, and `finish_terminal_durable` that worker_loop's last write
  reconciles the row with memory. A runner may write `failed` or `done` to the
  row, a cancel that peeked at a live snapshot makes the snapshot `cancelled`,
  and as the first write to the row wins, none of the later ones reconciles
  them (nor the other way round, a cancel's row under a snapshot worker_loop
  failed). Clients are told one ending before a restart and another after it.
  `EndsOnce` holds all the same: each record by itself is final.

* `admission_moved`. When the job of a slot moves to a larger class, the slot
  looks for its next job, and only if it finds none are the other slots looked
  at. If it does find one, the moved job waits beside an idle slot of its class
  until something else dispatches. The comment of that branch says the look
  round is for "a job it just put back for a class it does not serve", and the
  estimates count on no such idle slot.
* `execution_evicted`. `API.md` and the comment of `materialize` say an eviction
  never removes the active clone. `evict_lru` spares the clone of the job it
  serves; in local mode with two jobs at once it may remove the clone the other
  one is filling or reading, and that job fails. (An agent runs one job at a
  time: there it holds.)

## What is left out

Of the worker tier: loopback mode with `shutdown now` and its supervisor;
`draining` (no master sends it); agents of another build, and `local_paths`;
tokens, TLS and the frame budget; the size limit of `settled`; uploads, which
are one step here: their reservations of bytes and writers, given back on
every exit, are not modelled (each check and its reservation are one critical
section); the failure of `prepare`; failing store writes; progress events, their
coalescing in the outbox and its bound on log lines (a coalesced progress is
superseded by a later one). Two reductions: a frame sent where nobody listens
is not kept, and a `welcome` is heard in the step that sends it or never. In
`WorkerLease` a user's cancel, and a runner's ending, write the row and the
snapshot in one step; `JobCompletion` takes them apart, for one job that is
admitted already, and leaves out a restart with fewer slots than leased rows.

Of the registry, in `AdmissionQueue`: snapshots, progress and timing rows; the
answer to a duplicate request, which changes nothing here, so that a client told
the id of a job withdrawn later is not modelled; the two writes of an ending,
which are `JobCompletion`'s; the moment at which a runner finds its job moved,
which is any. A predicted peak is any number: the regressions of `eta.rs` and the
memory model are over the reals, which TLC does not have.

Of the host, in `JobExecution`: repositories at a local path, which have no
clone; the time a listing takes, which is one step here (a clone that changes
while it is read may count as nothing, as the code has it, or as it is); a first
directory that is made in part, and a removal of the job directory that fails,
so that `NothingLeft` takes it that these do not; process ids, so that a cancel
between the reaping and the end of a registration, which could signal a reused
id, is none here; the contents of inputs, environment and the hardening of the
child, which are one step that may fail; downloads.

Of the rest: `worker_result.rs` is sequential file-system I/O by one thread,
`ratelimit.rs` a window under one lock, `http.rs` and the settings are stateless
handlers, parsing and formatting. The indexing pipeline (`pipeline.rs`,
`extract.rs`, `symbols.rs`, `detect.rs`, `indexers.rs`, ...), clustering and
layout, the command line and the viewer are most of the program's lines: a
sequential function of one repository, whose correctness is about the languages
it reads, and floating-point geometry. They have no protocol for a model checker
to explore, and their data is out of its reach. `PROJECT.json` gives every
component's status.

## Plan

1. *Done*: the worker tier (`JobStore`, `Outbox`, `AgentState`, `WorkerLease`,
   `JobLifecycle`), a job's ending (`JobCompletion`), the registry (`Schedule`,
   `AdmissionQueue`), the host (`CloneCache`, `JobExecution`); proofs of types,
   the fence, the lifecycle, claims, attempts, events, the registry's
   keys, queues, slots and starts, verdicts, endings, the host and its clones.
2. To model: uploads with their reservations, and the outbox with coalescing and
   the log bound; the lemmas of the outbox.
