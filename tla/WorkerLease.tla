---------------------------- MODULE WorkerLease ----------------------------
(***************************************************************************)
(* The worker tier in remote mode: a master that leases jobs to agents     *)
(* over channels that drop, and the agents that run them                   *)
(* (src/src/service/workers.rs, agent.rs, and the runner's side of         *)
(* jobs.rs and store.rs).                                                  *)
(*                                                                         *)
(* Master: the jobs table (`row`), one runner thread per started job       *)
(* (`runner`), the hub's leases, settled results and channels (`lease`,    *)
(* `settled`, `conn`).  Agents: one process each, with one job slot.       *)
(* `up[c]` and `down[c]` are the frames in flight on channel c.            *)
(*                                                                         *)
(* An action is one critical section of the hub, one store transaction or  *)
(* one turn of an agent's socket thread.  A user cancel and a runner's     *)
(* ending each write the row and then the snapshot; here the two writes    *)
(* are one step (JobCompletion takes them apart).                          *)
(***************************************************************************)
EXTENDS JobStore, AgentState, FiniteSets

CONSTANTS Job,          \* jobs, named by their admission order
          AgentClass,   \* the class of each agent's host
          MaxEpoch,     \* bound: attempts per job
          MaxConn,      \* bound: channels ever opened
          MaxChannels,  \* WORKER_MAX_CHANNELS_PER_AGENT
          MaxRestarts,  \* bound: restarts of the master
          May           \* what the surroundings may do in this instance

ASSUME LeaseAssumption ==
    /\ Job \subseteq Nat \ {0}
    /\ AgentClass \in [Agent -> Class]
    /\ {MaxEpoch, MaxConn, MaxRestarts} \subseteq Nat
    /\ MaxChannels \in Nat \ {0}
    /\ May \subseteq {"expire", "drop", "cancel", "stop", "fail", "oom",
                      "hold", "reroute", "panic", "agentcrash", "beat"}

NoClass == -1
Conn == 1 .. MaxConn

VARIABLES row,        \* the jobs table
          runner,     \* per job: the slot thread in run_remote
          cancelled,  \* the registry's cancelled jobs
          outcome,    \* how the job's snapshot ended, or "none"
          published,  \* maps published for the job (a history)
          stopping,   \* a graceful stop has begun
          restarts,   \* restarts so far (a history)
          lease, settled, conn, nextConn,     \* the hub
          agent,      \* the agent processes
          up, down    \* the channels

hub == <<lease, settled, conn, nextConn>>
jobs == <<row, runner, cancelled, outcome, published>>
process == <<stopping, restarts>>
vars == <<jobs, process, hub, agent, up, down>>

-----------------------------------------------------------------------------
\* The master's records.

\* A lease; epoch 0 is no lease (the first attempt has epoch 1).  `time` is
\* the deadline: ahead ("live"), passed ("due"), or found passed ("lost").
\* `events` is all that was forwarded to the runner, `hot` whether the last
\* heartbeat's memory was close to the class's limit.
NewLease(c, a, e) ==
    [conn |-> c, agent |-> a, epoch |-> e, time |-> "live", next |-> 1,
     cancelled |-> FALSE, finished |-> FALSE, rerouting |-> FALSE,
     hot |-> FALSE, result |-> FALSE, uploads |-> FALSE, events |-> <<>>]

NoLease == NewLease(NoConn, NoAgent, 0)
Held(j) == lease[j] # NoLease

NoSettled == [epoch |-> 0, agent |-> NoAgent, accepted |-> FALSE, last |-> 0]

NoChannel == [agent |-> NoAgent, ready |-> FALSE, holding |-> NoJob]
Open(c) == conn[c] # NoChannel

\* run_remote's locals: `read` events so far, `to` the class a reroute or a
\* re-queue moves the job to, `close` and `after` how its lease ends.
Fresh == [pc |-> "queued", epoch |-> 0, class |-> 0, adopted |-> FALSE,
          cancelSent |-> FALSE, read |-> 0, counted |-> FALSE,
          to |-> NoClass, close |-> FALSE, after |-> "gone"]

Init ==
    /\ row = [j \in Job |-> NewRow(0)]
    /\ runner = [j \in Job |-> Fresh]
    /\ cancelled = {}
    /\ outcome = [j \in Job |-> "none"]
    /\ published = [j \in Job |-> 0]
    /\ stopping = FALSE
    /\ restarts = 0
    /\ lease = [j \in Job |-> NoLease]
    /\ settled = [j \in Job |-> NoSettled]
    /\ conn = [c \in Conn |-> NoChannel]
    /\ nextConn = 1
    /\ agent = [a \in Agent |-> NewAgent]
    /\ up = [c \in Conn |-> <<>>]
    /\ down = [c \in Conn |-> <<>>]

\* down with order m sent on c; what no agent listens to is not kept.
Listening(c) == c # NoConn /\ Open(c) /\ agent[conn[c].agent].link = c
Sent(c, m) ==
    IF Listening(c) THEN [down EXCEPT ![c] = Append(@, m)] ELSE down

CloseOrder == Order("close", NoJob, 0, "none", 0)
CancelOrder(j, e, why) == Order("cancel", j, e, why, 0)
VerdictOrder(j, e, accepted) ==
    Order("verdict", j, e, IF accepted THEN "accepted" ELSE "rejected", 0)

\* Mutant: the channel still holds the job whose lease has ended.
FreedLate(c, j) == conn

Freed(c, j) ==
    [k \in Conn |-> IF k = c /\ conn[k].holding = j
                    THEN [conn[k] EXCEPT !.holding = NoJob] ELSE conn[k]]

-----------------------------------------------------------------------------
\* The agents.

\* Agent a's turn leaves it as s, and ends with a flush; what it writes is
\* lost if the master has dropped the channel.
Turn(a, s) ==
    IF s.link = NoConn
    THEN agent' = [agent EXCEPT ![a] = s] /\ UNCHANGED up
    ELSE /\ agent' = [agent EXCEPT ![a] = AfterFlush(s)]
         /\ up' = IF Open(s.link)
                  THEN [up EXCEPT ![s.link] = @ \o FramesOf(s)] ELSE up

\* The job reports its features; events also collect while the channel is
\* down.
JobProgress(a) ==
    /\ Working(agent[a]) /\ ~agent[a].cur.begun
    /\ Turn(a, Reports(agent[a], "features"))
    /\ UNCHANGED <<jobs, process, hub, down>>

\* with_lease: whose uploads the master takes.
MayUpload(a, j, e) ==
    /\ Held(j) /\ lease[j].agent = a /\ lease[j].epoch = e
    /\ ~lease[j].cancelled /\ ~lease[j].rerouting
    /\ lease[j].time # "lost" /\ ~lease[j].finished

\* The finished job's artifacts go up over HTTP, with or without a channel.
Upload(a) ==
    LET cur == agent[a].cur
        taken == MayUpload(a, cur.job, cur.epoch)
    IN  /\ Working(agent[a]) /\ cur.begun /\ cur.up = "no"
        /\ lease' = IF taken THEN [lease EXCEPT ![cur.job].uploads = TRUE]
                    ELSE lease
        /\ agent' = [agent EXCEPT ![a].cur.up = IF taken THEN "yes"
                                                ELSE "refused"]
        /\ UNCHANGED <<jobs, process, settled, conn, nextConn, up, down>>

\* The job thread ends: with a result, refused by the master's listener,
\* with an error of its own, or killed for memory.
JobFinished(a) ==
    LET s == agent[a] IN
    /\ Working(s)
    /\ \/ s.cur.up = "yes" /\ Turn(a, EndsWith(s, "result", "result"))
       \/ s.cur.up = "refused" /\ Turn(a, EndsWith(s, "denied", "failed"))
       \/ /\ "fail" \in May /\ s.cur.up = "no"
          /\ Turn(a, EndsWith(s, "failed", "failed"))
       \/ /\ "oom" \in May /\ s.cur.up = "no"
          /\ Turn(a, LetGo(s, "oom"))
    /\ UNCHANGED <<jobs, process, hub, down>>

\* A killed job's thread ends, and the agent releases the job.
JobKilled(a) ==
    /\ Holds(agent[a]) /\ ~Runs(agent[a])
    /\ Turn(a, LetGo(agent[a], agent[a].cur.released))
    /\ UNCHANGED <<jobs, process, hub, down>>

\* Mutant: the hold time is only counted while there is a channel.
HoldExpiresLinked(a) ==
    /\ "hold" \in May /\ Holds(agent[a]) /\ agent[a].cur.done # "no"
    /\ agent[a].link # NoConn
    /\ Turn(a, LetGo(agent[a], "no"))
    /\ UNCHANGED <<jobs, process, hub, down>>

\* A finished job waits for the master at most the hold time.
HoldExpires(a) ==
    /\ "hold" \in May /\ Holds(agent[a]) /\ agent[a].cur.done # "no"
    /\ Turn(a, LetGo(agent[a], "no"))
    /\ UNCHANGED <<jobs, process, hub, down>>

\* One heartbeat in flight at a time.
Heartbeat(a) ==
    LET c == agent[a].link  cur == agent[a].cur  IN
    /\ "beat" \in May /\ Listening(c) /\ Holds(agent[a])
    /\ \A k \in DOMAIN up[c] : up[c][k].type # "heartbeat"
    /\ \A k \in DOMAIN down[c] : down[c][k].type # "renewed"
    /\ \E memory \in IF MaxClass > 0 THEN {"hot", "calm"} ELSE {"calm"} :
         up' = [up EXCEPT ![c] =
                  Append(@, Frame("heartbeat", cur.job, cur.epoch, 0, memory))]
    /\ UNCHANGED <<jobs, process, hub, agent, down>>

\* The next order on the agent's channel.
Reads(a, type) ==
    /\ agent[a].link # NoConn
    /\ down[agent[a].link] # <<>>
    /\ Head(down[agent[a].link]).type = type
Next1(a) == Head(down[agent[a].link])

\* on_message, for each kind of order.
OnOrder(a) ==
    LET s == agent[a]  m == Next1(a) IN
    /\ \/ Reads(a, "assign") /\ Turn(a, Assigned(s, m))
       \/ Reads(a, "cancel") /\ Turn(a, Cancelled(s, m))
       \/ Reads(a, "verdict") /\ Turn(a, Answered(s, m))
       \/ Reads(a, "renewed") /\ Turn(a, Renewed(s, m))
    /\ down' = [down EXCEPT ![s.link] = Tail(@)]
    /\ UNCHANGED <<jobs, process, hub>>

\* disconnect: the job runs on; what was not read is lost.  The master
\* closed the channel, or it failed or fell silent.
Disconnect(a) ==
    /\ agent[a].link # NoConn
    /\ "drop" \in May \/ ~Open(agent[a].link) \/ Reads(a, "close")
    /\ agent' = [agent EXCEPT ![a].link = NoConn]
    /\ down' = [down EXCEPT ![agent[a].link] = <<>>]
    /\ UNCHANGED <<jobs, process, hub, up>>

\* The worker's host dies; a new process starts there holding nothing.
AgentCrash(a) ==
    /\ "agentcrash" \in May /\ agent[a] # NewAgent
    /\ agent' = [agent EXCEPT ![a] = NewAgent]
    /\ down' = [c \in Conn |-> IF c = agent[a].link THEN <<>> ELSE down[c]]
    /\ UNCHANGED <<jobs, process, hub, up>>

-----------------------------------------------------------------------------
\* The hub: channels.

\* detach_leases: a lease outlives its channel.
Detached(closed) ==
    [j \in Job |-> IF lease[j].conn \in closed
                   THEN [lease[j] EXCEPT !.conn = NoConn] ELSE lease[j]]

\* add_conn: all but the newest MaxChannels - 1 of the agent's channels go.
Evicted(a) ==
    LET own == {c \in Conn : conn[c].agent = a}
    IN  {c \in own : Cardinality({d \in own : d > c}) >= MaxChannels - 1}

\* resume: what the hub makes of agent a naming job j at epoch e, j's lease
\* being l.
ResumeAnswer(a, j, e, l) ==
    IF settled[j].epoch = e /\ settled[j].agent = a THEN "settled"
    ELSE IF l.agent # a \/ l.epoch # e \/ l.time # "live" THEN "lease_lost"
    ELSE IF l.cancelled THEN "cancelled"
    ELSE IF l.rerouting THEN "reroute" ELSE "moves"

\* Mutant: an answer that takes the lease away leaves the lease as it was.
AfterResumeKept(l, answer, c) ==
    IF answer = "moves" THEN [l EXCEPT !.conn = c] ELSE l

\* The lease after that answer.  A deadline that has passed is found here
\* as the runner would find it; an answered reroute has a fresh one.
AfterResume(l, answer, c) ==
    CASE answer = "moves" -> [l EXCEPT !.conn = c]
      [] answer = "lease_lost" /\ l.time = "due" -> [l EXCEPT !.time = "lost"]
      [] OTHER -> l

\* add_conn, resume and the agent's on_welcome.  The agent does nothing
\* while it dials, so the welcome is heard in the same step, or never: then
\* the master has a channel nobody reads.
Connect(a) ==
    LET s == agent[a]
        c == nextConn
        j == s.cur.job
        gone == Evicted(a)
        lease1 == Detached(gone)
        answer == IF Runs(s) THEN ResumeAnswer(a, j, s.cur.epoch, lease1[j])
                  ELSE "none"
        old == IF answer = "moves" THEN lease1[j].conn ELSE NoConn
        acked == IF answer = "settled" THEN settled[j].last
                 ELSE IF answer = "moves" THEN lease1[j].next - 1 ELSE 0
        told == IF answer \in {"settled", "moves"} THEN "continue" ELSE answer
        t == Welcomed(s, c, told, acked)
    IN  /\ s.link = NoConn /\ c \in Conn /\ ~stopping
        /\ nextConn' = c + 1
        /\ lease' = IF answer = "none" THEN lease1
                    ELSE [lease1 EXCEPT ![j] = AfterResume(@, answer, c)]
        /\ conn' = [k \in Conn |->
                      IF k \in gone THEN NoChannel
                      ELSE IF k = c THEN [agent |-> a, ready |-> FALSE,
                                          holding |-> IF answer = "moves"
                                                      THEN j ELSE NoJob]
                      ELSE IF k = old /\ conn[k].holding = j
                           THEN [conn[k] EXCEPT !.holding = NoJob]
                      ELSE conn[k]]
        /\ \/ /\ agent' = [agent EXCEPT ![a] = AfterFlush(t)]
              /\ up' = [k \in Conn |-> IF k \in gone THEN <<>>
                                       ELSE IF k = c THEN FramesOf(t)
                                       ELSE up[k]]
              /\ down' = IF answer = "settled"
                         THEN [down EXCEPT ![c] = <<VerdictOrder(j,
                                  s.cur.epoch, settled[j].accepted)>>]
                         ELSE down
           \/ /\ "drop" \in May
              /\ up' = [k \in Conn |-> IF k \in gone THEN <<>> ELSE up[k]]
              /\ UNCHANGED <<agent, down>>
        /\ UNCHANGED <<jobs, process, settled>>

\* Nobody reads the channel, or the master has closed it.
Dead(c) ==
    ~Listening(c) \/ \E k \in DOMAIN down[c] : down[c][k] = CloseOrder

\* serve_agent leaves its loop: remove_conn.
RemoveConn(c) ==
    /\ Open(c) /\ ("drop" \in May \/ Dead(c))
    /\ conn' = [conn EXCEPT ![c] = NoChannel]
    /\ lease' = Detached({c})
    /\ up' = [up EXCEPT ![c] = <<>>]
    /\ UNCHANGED <<jobs, process, settled, nextConn, agent, down>>

\* The lease's channel leads to an agent whose heartbeats renew it.
Renews(j) ==
    /\ Listening(lease[j].conn)
    /\ HoldsThat(agent[conn[lease[j].conn].agent], j, lease[j].epoch)

\* Mutant: only a lease with a channel runs out.
ExpireAttached(j) ==
    /\ Held(j) /\ lease[j].time = "live" /\ lease[j].conn # NoConn
    /\ lease' = [lease EXCEPT ![j].time = "due"]
    /\ UNCHANGED <<jobs, process, settled, conn, nextConn, agent, up, down>>

\* A lease's deadline passes: heartbeats came too late, or none come.
Expire(j) ==
    /\ Held(j) /\ lease[j].time = "live"
    /\ "expire" \in May \/ ~Renews(j)
    /\ lease' = [lease EXCEPT ![j].time = "due"]
    /\ UNCHANGED <<jobs, process, settled, conn, nextConn, agent, up, down>>

-----------------------------------------------------------------------------
\* The hub: handle, one frame of a channel.

Gets(c, type) == Open(c) /\ up[c] # <<>> /\ Head(up[c]).type = type
Took(c) == up' = [up EXCEPT ![c] = Tail(@)]

OnReady(c) ==
    /\ Gets(c, "ready") /\ Took(c)
    /\ conn' = [conn EXCEPT ![c].ready = TRUE]
    /\ UNCHANGED <<jobs, process, lease, settled, nextConn, agent, down>>

\* Only the channel holding the live epoch, never a lease found expired.
Current(c, f) ==
    LET l == lease[f.job]
    IN  l.conn = c /\ l.epoch = f.epoch /\ l.time # "lost"

\* A heartbeat renews the lease and acknowledges what was applied.
OnHeartbeat(c) ==
    LET f == Head(up[c])  j == f.job  IN
    /\ Gets(c, "heartbeat") /\ Took(c)
    /\ IF Current(c, f)
       THEN /\ lease' = [lease EXCEPT ![j].time = "live",
                                      ![j].hot = (f.ev = "hot")]
            /\ down' = Sent(c, Order("renewed", j, f.epoch, "none",
                                     lease[j].next - 1))
       ELSE UNCHANGED <<lease, down>>
    /\ UNCHANGED <<jobs, process, settled, conn, nextConn, agent>>

Terminal == {"result", "failed", "denied", "refused"}

\* Mutant: the answer goes to the channel that now holds the lease.
AnsweredOnLease(c, f, again) ==
    IF f.ev # "result" THEN down
    ELSE Sent(lease[f.job].conn,
              VerdictOrder(f.job, f.epoch, again /\ settled[f.job].accepted))

\* The answer to a result that will not be applied: a verdict given to this
\* epoch before, or a refusal.
Again(c, f, again) ==
    IF f.ev # "result" THEN down
    ELSE Sent(c, VerdictOrder(f.job, f.epoch,
                              again /\ settled[f.job].accepted))
SettledTo(c, f) == /\ settled[f.job].epoch = f.epoch
                   /\ settled[f.job].agent = conn[c].agent

\* A job event for no lease, or not of the lease's channel and epoch.
OnStaleEvent(c) ==
    LET f == Head(up[c]) IN
    /\ Gets(c, "event") /\ ~Current(c, f) /\ Took(c)
    /\ down' = Again(c, f, ~Held(f.job) /\ SettledTo(c, f))
    /\ UNCHANGED <<jobs, process, hub, agent>>

\* The next event of the lease: dropped after a terminal one, refused after
\* a cancel, else forwarded to the runner.  It renews the lease.  (A repeat
\* is ignored and a gap closes the channel: InSequence says neither comes.)
OnNextEvent(c) ==
    LET f == Head(up[c])  l == lease[f.job]
        ends == f.ev \in Terminal
        renewed == [l EXCEPT !.next = @ + 1, !.time = "live",
                             !.finished = @ \/ ends]
    IN
    /\ Gets(c, "event") /\ Current(c, f) /\ f.seq = l.next /\ Took(c)
    /\ \/ /\ l.finished
          /\ lease' = [lease EXCEPT ![f.job] = [renewed EXCEPT !.finished = TRUE]]
          /\ down' = IF l.result /\ settled[f.job].epoch # f.epoch THEN down
                     ELSE Again(c, f, l.result)
       \/ /\ ~l.finished /\ l.cancelled
          /\ lease' = [lease EXCEPT ![f.job] = renewed]
          /\ down' = Again(c, f, FALSE)
       \/ /\ ~l.finished /\ ~l.cancelled
          /\ lease' = [lease EXCEPT ![f.job] =
                         [renewed EXCEPT !.result = (f.ev = "result"),
                                         !.events = Append(@, f.ev)]]
          /\ UNCHANGED down
    /\ UNCHANGED <<jobs, process, settled, conn, nextConn, agent>>

\* `released`, from the lease's agent on any of its channels.
OnReleased(c) ==
    LET f == Head(up[c])  l == lease[f.job]
        heeded == l.agent = conn[c].agent /\ l.epoch = f.epoch
                  /\ l.time # "lost"
    IN
    /\ Gets(c, "released") /\ Took(c)
    /\ lease' = IF heeded
                THEN [lease EXCEPT ![f.job].finished = TRUE,
                                   ![f.job].events = Append(@, f.ev)]
                ELSE lease
    /\ UNCHANGED <<jobs, process, settled, conn, nextConn, agent, down>>

-----------------------------------------------------------------------------
\* The runner: run_remote.

At(j, pc) == runner[j].pc = pc
Goes(j, r) == runner' = [runner EXCEPT ![j] = r]
\* The runner will end its lease and go on as `after`.
Ending(r, close, after) ==
    [r EXCEPT !.pc = "ending", !.close = close, !.after = after]

\* Mutant: the job is re-queued while its lease still stands.
RequeueingFirst(r, close, counted, to) ==
    [r EXCEPT !.pc = "requeue", !.close = close, !.counted = counted, !.to = to]
Requeueing(r, close, counted, to) ==
    [Ending(r, close, "requeue") EXCEPT !.counted = counted, !.to = to]

\* finish_done_durable, finish_failed_durable: a job that has ended stays as
\* it ended.
Ends(j, status, how) ==
    /\ row' = [row EXCEPT ![j] = FinishJob(@, status)]
    /\ outcome' = [outcome EXCEPT ![j] = IF @ = "none" THEN how ELSE @]

\* A slot of the job's class, or of a larger one that spills down, takes it;
\* begin_attempt raises the epoch.
Start(j) ==
    /\ At(j, "queued") /\ ~stopping
    /\ IsLive(row[j]) /\ row[j].epoch < MaxEpoch
    /\ row' = [row EXCEPT ![j] = BeginAttempt(@)]
    /\ \E class \in row[j].class .. MaxClass :
         Goes(j, [Fresh EXCEPT !.pc = "claiming", !.class = class,
                               !.epoch = BeginAttempt(row[j]).epoch])
    /\ UNCHANGED <<cancelled, outcome, published, process, hub, agent, up,
                   down>>

\* Mutant: only a lease with a channel keeps its agent busy.
BusyAttached(a, j) ==
    \E k \in Job \ {j} :
        Held(k) /\ lease[k].agent = a /\ lease[k].conn # NoConn

\* An agent is busy with another job's lease until it is known to have run
\* out.
Busy(a, j) ==
    \E k \in Job \ {j} :
        /\ Held(k) /\ lease[k].agent = a /\ lease[k].time # "lost"
        /\ ~(lease[k].conn = NoConn /\ lease[k].time = "due")

\* Mutant: the agent is not asked to have said `ready`.
FreeUnready(c, j) ==
    /\ Open(c) /\ ~Busy(conn[c].agent, j)
    /\ conn[c].holding = NoJob
    /\ AgentClass[conn[c].agent] = runner[j].class

Free(c, j) ==
    /\ Open(c) /\ ~Busy(conn[c].agent, j)
    /\ conn[c].ready /\ conn[c].holding = NoJob
    /\ AgentClass[conn[c].agent] = runner[j].class

\* pick_agent: the waiting runners are served in admission order, each the
\* oldest channel free for it.
Given(j, taken) ==
    LET free == {c \in Conn : Free(c, j) /\ conn[c].agent \notin taken}
    IN  IF free = {} THEN NoConn
        ELSE CHOOSE c \in free : \A d \in free : c <= d

PickAgent(me) ==
    LET taken[j \in 0 .. me] ==
            IF j = 0 THEN {}
            ELSE LET c == Given(j, taken[j - 1])
                 IN  IF j \notin Job \/ ~At(j, "claiming") \/ c = NoConn
                     THEN taken[j - 1]
                     ELSE taken[j - 1] \cup {conn[c].agent}
    IN  Given(me, taken[me - 1])

\* claim: the lease and its `assign`.  The cancel was looked for before the
\* hub's lock, so a cancelled job may still be leased.
Claim(j) ==
    \E c \in Conn :
        /\ At(j, "claiming") /\ ~stopping
        /\ c = PickAgent(j) /\ Free(c, j)
        /\ conn' = [conn EXCEPT ![c].ready = FALSE, ![c].holding = j]
        /\ lease' = [lease EXCEPT ![j] =
                       NewLease(c, conn[c].agent, runner[j].epoch)]
        /\ down' = Sent(c, Order("assign", j, runner[j].epoch, "none", 0))
        /\ Goes(j, [runner[j] EXCEPT !.pc = "leased"])
        /\ UNCHANGED <<row, cancelled, outcome, published, process, settled,
                       nextConn, agent, up>>

\* claim gives up: cancelled, or the master is stopping.
GiveUp(j) ==
    /\ At(j, "claiming") /\ (stopping \/ j \in cancelled)
    /\ Goes(j, [runner[j] EXCEPT !.pc = "gone"])
    /\ UNCHANGED <<row, cancelled, outcome, published, process, hub, agent,
                   up, down>>

\* save_state "leased", with the holder a restart hands the lease back to.
SaveLeased(j) ==
    /\ At(j, "leased")
    /\ row' = [row EXCEPT ![j] = SaveJobState(@, runner[j].epoch, "leased",
                                              lease[j].agent)]
    /\ Goes(j, [runner[j] EXCEPT !.pc = "running"])
    /\ UNCHANGED <<cancelled, outcome, published, process, hub, agent, up,
                   down>>

\* A runner whose lease a restarted master adopted; one cancelled before it
\* ran tells the agent and drops the lease.
RunOrphan(j) ==
    /\ At(j, "orphan")
    /\ IF j \in cancelled
       THEN /\ down' = Sent(lease[j].conn,
                            CancelOrder(j, lease[j].epoch, "cancelled"))
            /\ conn' = Freed(lease[j].conn, j)
            /\ lease' = [lease EXCEPT ![j] = NoLease]
            /\ Goes(j, [runner[j] EXCEPT !.pc = "gone"])
       ELSE /\ \E class \in row[j].class .. MaxClass :
                 Goes(j, [runner[j] EXCEPT !.pc = "running", !.class = class])
            /\ UNCHANGED <<down, conn, lease>>
    /\ UNCHANGED <<row, cancelled, outcome, published, process, settled,
                   nextConn, agent, up>>

\* The next event of the lease's queue.
Received(j) == /\ At(j, "running")
               /\ runner[j].read < Len(lease[j].events)
Event(j) == lease[j].events[runner[j].read + 1]
ReadOn(j) == [runner[j] EXCEPT !.read = @ + 1]

\* `features`: the job is running; it may have outgrown the class it runs
\* on, which is asked at most once per lease.
OnFeatures(j) ==
    /\ Received(j) /\ Event(j) = "features"
    /\ row' = [row EXCEPT ![j] = SaveJobState(@, runner[j].epoch, "running",
                                              NoAgent)]
    /\ \/ /\ Goes(j, ReadOn(j))
          /\ UNCHANGED <<lease, down>>
       \/ /\ "reroute" \in May /\ runner[j].to = NoClass
          /\ ~runner[j].cancelSent
          /\ \E target \in runner[j].class + 1 .. MaxClass :
               Goes(j, [ReadOn(j) EXCEPT !.to = target])
          /\ lease' = [lease EXCEPT ![j].rerouting = TRUE]
          /\ down' = Sent(lease[j].conn,
                          CancelOrder(j, lease[j].epoch, "reroute"))
    /\ UNCHANGED <<cancelled, outcome, published, process, settled, conn,
                   nextConn, agent, up>>

\* verdict: told to whichever channel holds the lease, and remembered.
Verdict(j, accepted) ==
    /\ settled' = [settled EXCEPT ![j] =
                     [epoch |-> lease[j].epoch, agent |-> lease[j].agent,
                      accepted |-> accepted, last |-> lease[j].next - 1]]
    /\ down' = Sent(lease[j].conn, VerdictOrder(j, lease[j].epoch, accepted))

\* Mutant: an adopted lease's result is checked like any other.
LacksNothing(j) == FALSE

\* A restarted master does not know what was uploaded before it.
LacksUploads(j) == runner[j].adopted /\ ~lease[j].uploads

\* Mutant: the agent is told before the map is published.
RegistersToldFirst(j, r) ==
    Goes(j, [r EXCEPT !.pc = "registering"]) /\ Verdict(j, TRUE)

\* register_result begins; nothing is said to the agent until it has ended.
Registers(j, r) ==
    Goes(j, [r EXCEPT !.pc = "registering"]) /\ UNCHANGED <<settled, down>>

\* A result is refused when an adopted lease lacks its uploads (the job runs
\* again), when the job was cancelled, or when its check fails; otherwise it
\* is on its way to be published.
OnResult(j) ==
    LET r == ReadOn(j) IN
    /\ Received(j) /\ Event(j) = "result"
    /\ \/ /\ LacksUploads(j)
          /\ Verdict(j, FALSE)
          /\ Goes(j, Requeueing(r, FALSE, FALSE, NoClass))
          /\ UNCHANGED <<row, outcome>>
       \/ /\ ~LacksUploads(j) /\ j \in cancelled
          /\ Verdict(j, FALSE)
          /\ Goes(j, Ending(r, FALSE, "gone"))
          /\ UNCHANGED <<row, outcome>>
       \/ /\ ~LacksUploads(j) /\ j \notin cancelled
          /\ IF lease[j].uploads
             THEN Registers(j, r) /\ UNCHANGED <<row, outcome>>
             ELSE /\ Verdict(j, FALSE)
                  /\ Ends(j, "failed", "invalid")
                  /\ Goes(j, Ending(r, FALSE, "gone"))
    /\ UNCHANGED <<cancelled, published, process, lease, conn, nextConn,
                   agent, up>>

\* publish: the map pointer moves if the row is still this epoch's, in one
\* transaction; a refused one fails the job.
Publish(j) ==
    /\ At(j, "registering")
    /\ IF MayPublish(row[j], runner[j].epoch)
       THEN /\ published' = [published EXCEPT ![j] = @ + 1]
            /\ Goes(j, [runner[j] EXCEPT !.pc = "registered"])
            /\ UNCHANGED <<row, outcome, settled, down>>
       ELSE /\ Ends(j, "failed", "stale")
            /\ Verdict(j, FALSE)
            /\ Goes(j, Ending(runner[j], FALSE, "gone"))
            /\ UNCHANGED published
    /\ UNCHANGED <<cancelled, process, lease, conn, nextConn, agent, up>>

\* The job is done, and the agent is told its result was registered.
Registered(j) ==
    /\ At(j, "registered")
    /\ Ends(j, "done", "done")
    /\ Verdict(j, TRUE)
    /\ Goes(j, Ending(runner[j], FALSE, "gone"))
    /\ UNCHANGED <<cancelled, published, process, lease, conn, nextConn,
                   agent, up>>

\* The agent's error fails the job.
OnError(j) ==
    /\ Received(j) /\ Event(j) \in Terminal \ {"result"}
    /\ Ends(j, "failed", Event(j))
    /\ Goes(j, Ending(ReadOn(j), FALSE, "gone"))
    /\ UNCHANGED <<cancelled, published, process, hub, agent, up, down>>

\* Mutant: the class above, whether or not there is one.
BiggerAlways(class) == class + 1

\* The class an out-of-memory job moves to.
Bigger(class) == IF class < MaxClass THEN class + 1 ELSE NoClass

\* `released`: the end of a cancelled job's lease; a move to the class the
\* features called for; out of memory, one class up or the end; a reroute an
\* earlier process asked for; or a job given up unasked.
OnRelease(j) ==
    LET r == ReadOn(j)  why == Event(j)
        bigger == Bigger(r.class)
    IN
    /\ Received(j)
    /\ why \in {"cancelled", "lease_lost", "reroute", "oom"}
    /\ \/ /\ r.cancelSent
          /\ Goes(j, Ending(r, FALSE, "gone"))
          /\ UNCHANGED <<row, outcome>>
       \/ /\ ~r.cancelSent /\ why = "reroute"
          /\ Goes(j, Requeueing(r, FALSE, FALSE, r.to))
          /\ UNCHANGED <<row, outcome>>
       \/ /\ ~r.cancelSent /\ why = "oom" /\ bigger # NoClass
          /\ Goes(j, Requeueing(r, FALSE, FALSE, bigger))
          /\ UNCHANGED <<row, outcome>>
       \/ /\ ~r.cancelSent
          /\ \/ why = "oom" /\ bigger = NoClass /\ Ends(j, "failed", "oom")
             \/ /\ why \in {"cancelled", "lease_lost"}
                /\ Ends(j, "failed", "unasked")
          /\ Goes(j, Ending(r, FALSE, "gone"))
    /\ UNCHANGED <<cancelled, published, process, hub, agent, up, down>>

\* The registry made the job terminal: the agent is told, and the lease
\* stays until it answers or runs out.
NoticeCancel(j) ==
    /\ At(j, "running") /\ j \in cancelled /\ ~runner[j].cancelSent
    /\ lease' = [lease EXCEPT ![j].cancelled = TRUE]
    /\ down' = Sent(lease[j].conn, CancelOrder(j, lease[j].epoch, "cancelled"))
    /\ Goes(j, [runner[j] EXCEPT !.cancelSent = TRUE])
    /\ UNCHANGED <<row, cancelled, outcome, published, process, settled, conn,
                   nextConn, agent, up>>

\* A stopping master's runner lets a detached lease go once what its channel
\* delivered is read; the row stays for the next process.
LetLeaseGo(j) ==
    /\ At(j, "running") /\ stopping /\ lease[j].conn = NoConn
    /\ runner[j].read = Len(lease[j].events)
    /\ Goes(j, Ending(runner[j], FALSE, "gone"))
    /\ UNCHANGED <<row, cancelled, outcome, published, process, hub, agent,
                   up, down>>

\* Mutant: a cancelled job's lease is not looked at.
FindExpiredUncancelled(j) ==
    /\ At(j, "running") /\ lease[j].time # "live" /\ ~runner[j].cancelSent
    /\ lease' = [lease EXCEPT ![j].time = "lost"]
    /\ Goes(j, Requeueing(runner[j], TRUE, ~runner[j].adopted, runner[j].to))
    /\ UNCHANGED <<row, cancelled, outcome, published, process, settled, conn,
                   nextConn, agent, up, down>>

\* expired: the lease is lost for good, and the job goes back to its queue,
\* counted unless a restart took the worker away; to a larger class if its
\* worker probably died of memory.
FindExpired(j) ==
    LET r == runner[j]
        memory == IF ~r.adopted /\ lease[j].hot THEN Bigger(r.class)
                  ELSE NoClass
        to == IF memory > r.to THEN memory ELSE r.to
    IN
    /\ At(j, "running") /\ lease[j].time # "live"
    /\ lease' = [lease EXCEPT ![j].time = "lost"]
    /\ Goes(j, IF r.cancelSent \/ stopping THEN Ending(r, TRUE, "gone")
               ELSE Requeueing(r, TRUE, ~r.adopted, to))
    /\ UNCHANGED <<row, cancelled, outcome, published, process, settled, conn,
                   nextConn, agent, up, down>>

\* end_lease.
EndLease(j) ==
    /\ At(j, "ending")
    /\ lease' = [lease EXCEPT ![j] = NoLease]
    /\ conn' = Freed(lease[j].conn, j)
    /\ down' = IF runner[j].close THEN Sent(lease[j].conn, CloseOrder)
               ELSE down
    /\ Goes(j, [runner[j] EXCEPT !.pc = runner[j].after])
    /\ UNCHANGED <<row, cancelled, outcome, published, process, settled,
                   nextConn, agent, up>>

\* requeue: the store decides first.  A stopping master leaves the job in
\* the table.
StoreRequeue(j) ==
    LET r == runner[j]
        back == [Fresh EXCEPT !.pc = IF stopping THEN "gone" ELSE "queued"]
    IN
    /\ At(j, "requeue")
    /\ \/ /\ ~MayRequeue(row[j], r.epoch)
          /\ Goes(j, [r EXCEPT !.pc = "gone"])
          /\ UNCHANGED <<row, outcome>>
       \/ /\ MayRequeue(row[j], r.epoch) /\ r.to # NoClass
          /\ row' = [row EXCEPT ![j] = Rebind(@, r.to)]
          /\ Goes(j, back)
          /\ UNCHANGED outcome
       \/ /\ MayRequeue(row[j], r.epoch) /\ r.to = NoClass
          /\ ~Exhausted(row[j], r.counted)
          /\ row' = [row EXCEPT ![j] = Requeue(@, r.counted)]
          /\ Goes(j, back)
          /\ UNCHANGED outcome
       \/ /\ MayRequeue(row[j], r.epoch) /\ r.to = NoClass
          /\ Exhausted(row[j], r.counted)
          /\ Ends(j, "failed", "lost")
          /\ Goes(j, [r EXCEPT !.pc = "gone"])
    /\ UNCHANGED <<cancelled, published, process, hub, agent, up, down>>

\* A bug in the runner: RunnerLease's drop ends its lease and has the agent
\* stop; worker_loop fails the job.
RunnerPanics(j) ==
    /\ "panic" \in May
    /\ runner[j].pc \in {"leased", "running", "registering", "registered"}
    /\ down' = IF lease[j].cancelled THEN down
               ELSE Sent(lease[j].conn,
                         CancelOrder(j, lease[j].epoch, "lease_lost"))
    /\ conn' = Freed(lease[j].conn, j)
    /\ lease' = [lease EXCEPT ![j] = NoLease]
    /\ Ends(j, "failed", "internal")
    /\ Goes(j, [runner[j] EXCEPT !.pc = "gone"])
    /\ UNCHANGED <<cancelled, published, process, settled, nextConn, agent,
                   up>>

-----------------------------------------------------------------------------
\* The user and the process.

\* cancel_job: terminal the moment it is recorded; a queued job never runs.
UserCancel(j) ==
    /\ "cancel" \in May /\ outcome[j] = "none"
    /\ Ends(j, "failed", "cancelled")
    /\ cancelled' = cancelled \cup {j}
    /\ runner' = IF At(j, "queued")
                 THEN [runner EXCEPT ![j].pc = "gone"] ELSE runner
    /\ UNCHANGED <<published, process, hub, agent, up, down>>

\* A graceful stop: nothing starts any more, and every channel is closed.
Stop ==
    /\ "stop" \in May /\ ~stopping
    /\ stopping' = TRUE
    /\ down' = [c \in Conn |-> IF Listening(c) THEN Append(down[c], CloseOrder)
                              ELSE down[c]]
    /\ UNCHANGED <<jobs, restarts, hub, agent, up>>

\* The process ends, gracefully or not, and the next one restores the table:
\* leased and running jobs keep their epoch, and their holder may resume.
Restart ==
    LET leased == {j \in Job : row[j].status \in {"leased", "running"}} IN
    /\ restarts < MaxRestarts
    /\ restarts' = restarts + 1
    /\ stopping' = FALSE
    /\ cancelled' = {}
    /\ runner' = [j \in Job |->
                    IF j \in leased
                    THEN [Fresh EXCEPT !.pc = "orphan", !.adopted = TRUE,
                                       !.epoch = row[j].epoch]
                    ELSE IF IsLive(row[j]) THEN Fresh
                    ELSE [Fresh EXCEPT !.pc = "gone"]]
    /\ lease' = [j \in Job |->
                   IF j \in leased
                   THEN NewLease(NoConn, row[j].holder, row[j].epoch)
                   ELSE NoLease]
    /\ settled' = [j \in Job |-> NoSettled]
    /\ conn' = [c \in Conn |-> NoChannel]
    /\ up' = [c \in Conn |-> <<>>]
    /\ UNCHANGED <<row, outcome, published, nextConn, agent, down>>

-----------------------------------------------------------------------------

AgentStep(a) ==
    \/ JobProgress(a) \/ Upload(a) \/ JobFinished(a) \/ JobKilled(a)
    \/ HoldExpires(a) \/ Heartbeat(a) \/ OnOrder(a) \/ Disconnect(a)
    \/ AgentCrash(a) \/ Connect(a)

ChannelStep(c) ==
    \/ OnReady(c) \/ OnHeartbeat(c) \/ OnStaleEvent(c)
    \/ OnNextEvent(c) \/ OnReleased(c) \/ RemoveConn(c)

RunnerStep(j) ==
    \/ Start(j) \/ Claim(j) \/ GiveUp(j) \/ SaveLeased(j) \/ RunOrphan(j)
    \/ OnFeatures(j) \/ OnResult(j) \/ Publish(j) \/ Registered(j)
    \/ OnError(j) \/ OnRelease(j) \/ NoticeCancel(j) \/ LetLeaseGo(j)
    \/ FindExpired(j) \/ EndLease(j) \/ StoreRequeue(j) \/ RunnerPanics(j)

Next ==
    \/ \E a \in Agent : AgentStep(a)
    \/ \E c \in Conn : ChannelStep(c)
    \/ \E j \in Job : RunnerStep(j) \/ Expire(j) \/ UserCancel(j)
    \/ Stop
    \/ Restart

Spec == Init /\ [][Next]_vars

-----------------------------------------------------------------------------
\* The fairness the code has: threads keep running, sockets are read, a job
\* thread ends, a closed or unread channel is noticed, and a lease nobody
\* renews runs out.  Nothing the surroundings may do is fair.
Fairness ==
    /\ \A a \in Agent :
         /\ WF_vars(JobProgress(a)) /\ WF_vars(Upload(a))
         /\ WF_vars(JobFinished(a)) /\ WF_vars(JobKilled(a))
         /\ WF_vars(HoldExpires(a)) /\ WF_vars(OnOrder(a))
         /\ WF_vars(Disconnect(a) /\ (~Open(agent[a].link) \/ Reads(a, "close")))
         /\ WF_vars(Connect(a) /\ agent[a]'.link # NoConn)
    /\ \A c \in Conn :
         /\ WF_vars(OnReady(c)) /\ WF_vars(OnStaleEvent(c))
         /\ WF_vars(OnNextEvent(c))
         /\ WF_vars(OnReleased(c)) /\ WF_vars(OnHeartbeat(c))
         /\ WF_vars(RemoveConn(c) /\ Dead(c))
    /\ \A j \in Job :
         /\ WF_vars(RunnerStep(j) /\ ~RunnerPanics(j))
         /\ WF_vars(Expire(j) /\ ~Renews(j))

FairSpec == Spec /\ Fairness

-----------------------------------------------------------------------------
\* Properties.

Outcome == Terminal \cup {"none", "done", "cancelled", "invalid", "stale",
                          "unasked", "oom", "lost", "internal"}
JobEvent == Terminal \cup {"features"}
Reason == {"cancelled", "lease_lost", "reroute", "oom"}
Place == {"queued", "claiming", "leased", "running", "registering",
          "registered", "ending", "requeue", "orphan", "gone"}

RunnerRec ==
    [pc : Place, epoch : Nat, class : Class, adopted : BOOLEAN,
     cancelSent : BOOLEAN, read : Nat, counted : BOOLEAN,
     to : Class \cup {NoClass}, close : BOOLEAN, after : {"gone", "requeue"}]

LeaseRec ==
    [conn : Conn \cup {NoConn}, agent : Agent \cup {NoAgent}, epoch : Nat,
     time : {"live", "due", "lost"}, next : Nat, cancelled : BOOLEAN,
     finished : BOOLEAN, rerouting : BOOLEAN, hot : BOOLEAN,
     result : BOOLEAN, uploads : BOOLEAN, events : Seq(JobEvent \cup Reason)]

SettledRec == [epoch : Nat, agent : Agent \cup {NoAgent},
               accepted : BOOLEAN, last : Int]

ChannelRec == {NoChannel} \cup [agent : Agent, ready : BOOLEAN,
                                 holding : Job \cup {NoJob}]

OutboxRec == [evs : Seq(JobEvent), written : Nat, last : Int]

CurrentRec ==
    [job : Job \cup {NoJob}, epoch : Nat, released : Reason \cup {"no"},
     done : {"no", "result", "failed"}, up : {"no", "yes", "refused"},
     begun : BOOLEAN, out : OutboxRec]

FrameOf(type, evs) ==
    [type : {type}, job : Job, epoch : Nat, seq : Int, ev : evs]
FrameRec == FrameOf("event", JobEvent) \cup FrameOf("released", Reason)
              \cup FrameOf("heartbeat", {"hot", "calm"})
              \cup {Frame("ready", NoJob, 0, 0, "none")}

OrderOf(types, whys) ==
    [type : types, job : Job, epoch : Nat, why : whys, acked : Int]
OrderRec == OrderOf({"cancel"}, Reason)
              \cup OrderOf({"verdict"}, {"accepted", "rejected"})
              \cup OrderOf({"assign", "renewed"}, {"none"}) \cup {CloseOrder}

AgentRec == [link : Conn \cup {NoConn}, cur : CurrentRec,
             pending : Seq(FrameRec), ready : BOOLEAN]

\* Every part of the state is of its kind.
TypeOK ==
    /\ row \in [Job -> Row]
    /\ runner \in [Job -> RunnerRec]
    /\ cancelled \subseteq Job
    /\ outcome \in [Job -> Outcome]
    /\ published \in [Job -> Nat]
    /\ stopping \in BOOLEAN
    /\ restarts \in Nat
    /\ lease \in [Job -> LeaseRec]
    /\ settled \in [Job -> SettledRec]
    /\ conn \in [Conn -> ChannelRec]
    /\ nextConn \in Nat \ {0}
    /\ agent \in [Agent -> AgentRec]
    /\ up \in [Conn -> Seq(FrameRec)]
    /\ down \in [Conn -> Seq(OrderRec)]

\* The places where a runner owns its job's lease.
Owning == {"leased", "running", "registering", "registered", "ending",
           "orphan"}

\* Fencing (WORKER_TIER.md 2.4): the hub holds a lease of a job exactly while
\* the job's runner is in charge of it, and lease, runner and the durable row
\* agree on the epoch.  A re-queue, a lost lease, a cancel, a refused result,
\* a panic and a restart each take the three apart in different steps; a
\* lease that outlived its runner would let an old agent's frames, uploads
\* and result in.
Fence ==
    \A j \in Job :
        /\ Held(j) <=> runner[j].pc \in Owning
        /\ Held(j) => /\ lease[j].epoch = runner[j].epoch
                      /\ lease[j].epoch = row[j].epoch

\* What makes the fence inductive: a runner in charge, or about to claim,
\* works at the epoch of its row; and an attempt, which the durable row may
\* remember over a restart, has been given an epoch.
Attempted == Owning \cup {"claiming"}
EpochsGiven ==
    \A j \in Job :
        /\ runner[j].pc \in Attempted => /\ runner[j].epoch = row[j].epoch
                                       /\ row[j].epoch > 0
        /\ row[j].status \in {"leased", "running"} => row[j].epoch > 0
        /\ Held(j) => lease[j].epoch > 0

FenceInv == TypeOK /\ Fence /\ EpochsGiven

\* Two jobs are never leased to one agent at once, except while one of the
\* two leases has run out (`claim` skips an agent with any lease, on a
\* channel or not, that has not expired).
OneLeasePerAgent ==
    \A j, k \in Job :
        (/\ j # k /\ Held(j) /\ Held(k) /\ lease[j].agent = lease[k].agent)
        => \E i \in {j, k} : \/ lease[i].time = "lost"
                             \/ lease[i].time = "due" /\ lease[i].conn = NoConn

\* One attempt, one agent: two agents never hold a job at one epoch, none
\* holds an epoch the store has not given out, and a lease of an epoch some
\* agent works at is that agent's, whatever was lost, resumed or restarted
\* on the way.
EpochHasOneHolder ==
    \A a \in Agent :
        LET cur == agent[a].cur IN
        Holds(agent[a]) =>
            /\ cur.epoch <= row[cur.job].epoch
            /\ (Held(cur.job) /\ lease[cur.job].epoch = cur.epoch
                => lease[cur.job].agent = a)
            /\ \A b \in Agent \ {a} : ~HoldsThat(agent[b], cur.job, cur.epoch)

\* An `assign` only ever finds an agent with no job: `ready`, the lease table
\* and what the agent holds agree across reconnects, so that on_message's
\* refusal is never taken.
AssignFindsFree ==
    \A a \in Agent :
        LET c == agent[a].link IN
        c # NoConn /\ (\E k \in DOMAIN down[c] : down[c][k].type = "assign")
        => ~Holds(agent[a])

\* `handle` ignores an event that repeats a seq and closes the channel for
\* one that skips one: an agent that renumbers its outbox at every resume
\* sends neither on the channel that holds its lease.
InSequence ==
    \A c \in Conn :
        Gets(c, "event") /\ Current(c, Head(up[c]))
        => Head(up[c]).seq = lease[Head(up[c]).job].next

\* What reaches the runner from one lease is what the job reported, once and
\* in order, however often the channel was replaced under it.
EventsInOrder ==
    \A j \in Job :
        \A m, n \in DOMAIN lease[j].events :
            m < n => /\ lease[j].events[m] # lease[j].events[n]
                     /\ lease[j].events[n] # "features"
                     /\ lease[j].events[m] \in Terminal
                        => lease[j].events[n] \notin Terminal

\* `result_accepted` makes the agent delete its output, so the hub remembers
\* and sends it only for a job whose map is published, and a job is done
\* only when its map is.
AcceptedIsPublished ==
    \A j \in Job :
        /\ settled[j].accepted => published[j] > 0 /\ outcome[j] # "none"
        /\ outcome[j] = "done" => published[j] > 0

\* The orders agent a has yet to read.
Unread(a) == IF agent[a].link = NoConn THEN {}
             ELSE {down[agent[a].link][k] : k \in DOMAIN down[agent[a].link]}

\* Whatever channel a verdict reaches its agent on, and however often, it is
\* the one the runner gave: never `result_rejected` for a result that was
\* registered, nor the other way round.
VerdictHonest ==
    \A a \in Agent : \A m \in Unread(a) :
        m.type = "verdict" =>
            /\ m.why = "accepted" => published[m.job] > 0
            /\ (settled[m.job].epoch = m.epoch /\ settled[m.job].agent = a)
               => (settled[m.job].accepted <=> m.why = "accepted")

\* `resume` marks a lease it answers `lease_lost` as lost "so the `released`
\* this `cancel` brings back is ignored rather than read as a job the agent
\* gave up unasked" (workers.rs:2670): no job fails as given up unasked.
NeverUnasked == \A j \in Job : outcome[j] # "unasked"

\* No job fails on the tier's own doing: sent to an agent that is busy,
\* refused at its publication though nobody cancelled it, or accepted from
\* an agent that has not uploaded what it names.
NoInternalFailure ==
    \A j \in Job : outcome[j] \notin {"refused", "stale", "invalid"}

\* A job fails for its worker's loss only after Retries losses and one more.
LostAfterRetries ==
    \A j \in Job : outcome[j] = "lost" => row[j].epoch > Retries

\* No job is tried for ever: each class allows Retries re-queues and one
\* attempt more, a move to a larger class starts that count again, and a
\* restart adds at most one attempt, which is not counted.
AttemptsBounded ==
    \A j \in Job :
        row[j].epoch <= (MaxClass + 1) * (Retries + 1) + restarts

\* `reroute` moves a running job to the class its features call for; the
\* agent's own answer to losing its upload endpoint is not what ends it.
RerouteMoves == \A j \in Job : outcome[j] # "denied"

\* What ended stays ended: once a job's row is terminal (done, failed or
\* cancelled by its user), no late result, re-queue, expiry or restart
\* changes it, and none publishes a map for it.
EndStands ==
    [][\A j \in Job : ~IsLive(row[j])
                      => row'[j] = row[j] /\ published'[j] = published[j]]_vars

\* The jobs table and the published maps, through all this, are those of a
\* job that waits, is held, and ends: no attempt begins while another holds
\* the job, none but one that holds it publishes, and a job is done only with
\* its map, whichever steps of runner, hub, user and restart come between.
Lifecycle == INSTANCE JobLifecycle
    WITH state <- [j \in Job |-> row[j].status],
         attempt <- [j \in Job |-> row[j].epoch],
         map <- [j \in Job |-> published[j] > 0]
FollowsLifecycle == Lifecycle!Spec

\* A job that nobody stops is settled in the end: it ends done, or failed
\* for a reason of its own.  No job waits for ever for an agent that is free
\* again, and no two jobs wait for each other's, as long as agents may dial
\* (the bound on channels).
JobEnds == \A j \in Job : <>(outcome[j] # "none" \/ nextConn \notin Conn)

\* A runner does not wait for ever for its agent.
RunnerReturns == \A j \in Job : At(j, "running") ~> ~At(j, "running")

\* A cancelled job's lease ends, whatever has become of its worker.
CancelFreesWorker == \A j \in Job : j \in cancelled ~> ~Held(j)

\* An agent does not keep a job for ever, whether the master answers or not.
AgentLetsGo == \A a \in Agent : Holds(agent[a]) ~> ~Holds(agent[a])

=============================================================================
