------------------------- MODULE WorkerLeaseProofs -------------------------
(***************************************************************************)
(* Proofs about WorkerLease, for any jobs, agents, classes, bounds and     *)
(* surroundings: every part of the state keeps its kind (TypeOK), the      *)
(* fence of WORKER_TIER.md 2.4 holds (Fence), and WorkerLease implements   *)
(* JobLifecycle, so that what ended stays ended.                           *)
(*                                                                         *)
(* The types rest on lemmas on what the outbox, the agent's turns, the     *)
(* rows and the hub's operators return.                                    *)
(*                                                                         *)
(* FenceInv, the fence with the types and what is known of epochs, is      *)
(* inductive.  It is a conjunction over jobs of a condition on one lease,  *)
(* one runner and one row (FencedAt), so most steps, which change these    *)
(* for one job or keep what the condition reads, are one lemma             *)
(* (StaysFenced).                                                          *)
(*                                                                         *)
(* A step changes the row or the map of at most one job.  What it makes of *)
(* that job depends on what its runner believes of the row it last looked  *)
(* at several steps ago: StandsAt says what is still true of it.           *)
(*                                                                         *)
(* The second half is about who holds what.  An agent's slot is one token: *)
(* on the agent's channel it is either its `ready` on the way up, the      *)
(* readiness the hub has noted, an `assign` on the way down, or the job    *)
(* the agent holds, and never two of these (LinkInv).  So an `assign`      *)
(* finds a free agent.  And one attempt at a job is claimed in four        *)
(* places: by the agent that holds it, by the `assign` on the way to it,   *)
(* by the hub's lease and by the holder in the durable row.  All claims to *)
(* an attempt are one agent's, and none is made before the attempt's epoch *)
(* is out (ClaimsInv).                                                     *)
(***************************************************************************)
EXTENDS WorkerLease, TLAPS

USE DEF NoJob, NoConn, NoClass, Conn

-----------------------------------------------------------------------------
\* The outbox.

LEMMA PushTyped ==
    ASSUME NEW o \in OutboxRec, NEW ev \in JobEvent
    PROVE  Push(o, ev) \in OutboxRec
BY DEF OutboxRec, Push

\* An acknowledgement covers part of what was written.
LEMMA CoveredBound ==
    ASSUME NEW o \in OutboxRec, NEW acked \in Int
    PROVE  Covered(o, acked) \in 0 .. o.written
BY DEF OutboxRec, Covered

LEMMA SuffixTyped ==
    ASSUME NEW S, NEW s \in Seq(S), NEW n \in Nat
    PROVE  SubSeq(s, n + 1, Len(s)) \in Seq(S)
OBVIOUS

LEMMA AckTyped ==
    ASSUME NEW o \in OutboxRec, NEW acked \in Int
    PROVE  Ack(o, acked) \in OutboxRec
<1> DEFINE n == Covered(o, acked)
<1>1. n \in Nat /\ n <= o.written
  BY CoveredBound DEF OutboxRec
<1>2. SubSeq(o.evs, n + 1, Len(o.evs)) \in Seq(JobEvent)
  BY <1>1, SuffixTyped DEF OutboxRec
<1>3. o.written - n \in Nat
  BY <1>1 DEF OutboxRec
<1> HIDE DEF n
<1> QED
  BY <1>2, <1>3 DEF Ack, OutboxRec, n

LEMMA RewindTyped ==
    ASSUME NEW o \in OutboxRec, NEW acked \in Int
    PROVE  Rewind(o, acked) \in OutboxRec
BY AckTyped DEF Rewind, OutboxRec

LEMMA FlushedTyped ==
    ASSUME NEW o \in OutboxRec
    PROVE  Flushed(o) \in OutboxRec
<1>1. Len(o.evs) \in Nat /\ o.last + (Len(o.evs) - o.written) \in Int
  BY DEF OutboxRec
<1> QED
  BY <1>1 DEF Flushed, OutboxRec

LEMMA FunctionIsSequence ==
    ASSUME NEW S, NEW n \in Nat, NEW f \in [1 .. n -> S]
    PROVE  f \in Seq(S)
OBVIOUS

\* What is written of the outbox is the job's own, numbered by integers.
LEMMA UnwrittenTyped ==
    ASSUME NEW o \in OutboxRec
    PROVE  Unwritten(o) \in Seq([seq : Int, ev : JobEvent])
<1> DEFINE n == Len(o.evs) - o.written
           W == [seq : Int, ev : JobEvent]
           w(k) == [seq |-> o.last + k, ev |-> o.evs[o.written + k]]
<1>1. n \in Int /\ Unwritten(o) = [k \in 1 .. n |-> w(k)]
  BY DEF Unwritten, OutboxRec
<1>2. ASSUME NEW k \in 1 .. n
      PROVE  w(k) \in W
  <2>1. o.written + k \in 1 .. Len(o.evs) /\ o.last + k \in Int
    BY DEF OutboxRec
  <2>2. o.evs[o.written + k] \in JobEvent
    BY <2>1 DEF OutboxRec
  <2> QED
    BY <2>1, <2>2
<1> HIDE DEF n, w, W
<1>3. CASE n >= 0
  <2>1. n \in Nat
    BY <1>1, <1>3
  <2>2. [k \in 1 .. n |-> w(k)] \in [1 .. n -> W]
    BY <1>2
  <2> QED
    BY <1>1, <2>1, <2>2, FunctionIsSequence DEF W
<1>4. CASE n < 0
  <2>1. 1 .. n = 1 .. 0
    BY <1>1, <1>4
  <2>2. Unwritten(o) = [k \in 1 .. 0 |-> w(k)]
    BY <1>1, <2>1
  <2>3. [k \in 1 .. 0 |-> w(k)] \in [1 .. 0 -> W]
    BY <1>2, <2>1
  <2> QED
    BY <2>2, <2>3, FunctionIsSequence DEF W
<1> QED
  BY <1>1, <1>3, <1>4 DEF W

-----------------------------------------------------------------------------
\* The agent's state.

LEMMA FrameTyped ==
    ASSUME NEW j \in Job, NEW e \in Nat, NEW q \in Int
    PROVE  /\ \A ev \in JobEvent : Frame("event", j, e, q, ev) \in FrameRec
           /\ \A ev \in Reason : Frame("released", j, e, q, ev) \in FrameRec
           /\ \A ev \in {"hot", "calm"} :
                Frame("heartbeat", j, e, q, ev) \in FrameRec
           /\ Frame("ready", NoJob, 0, 0, "none") \in FrameRec
BY DEF Frame, FrameRec, FrameOf

LEMMA IdleTyped == Idle \in CurrentRec /\ NewAgent \in AgentRec
BY DEF Idle, EmptyOutbox, CurrentRec, OutboxRec, NewAgent, AgentRec

LEMMA LetGoTyped ==
    ASSUME NEW s \in AgentRec, Holds(s), NEW why \in Reason \cup {"no"}
    PROVE  LetGo(s, why) \in AgentRec
<1>1. s.cur.job \in Job /\ s.cur.epoch \in Nat /\ s.pending \in Seq(FrameRec)
  BY DEF AgentRec, CurrentRec, Holds
<1>2. why # "no" => Frame("released", s.cur.job, s.cur.epoch, 0, why) \in FrameRec
  BY <1>1, FrameTyped
<1>3. (IF why = "no" THEN s.pending
       ELSE Append(s.pending, Frame("released", s.cur.job, s.cur.epoch, 0, why)))
      \in Seq(FrameRec)
  BY <1>1, <1>2
<1> QED
  BY <1>3, IdleTyped DEF LetGo, AgentRec

LEMMA StoppedTyped ==
    ASSUME NEW s \in AgentRec, Holds(s), NEW why \in Reason
    PROVE  Stopped(s, why) \in AgentRec
<1>1. [s EXCEPT !.cur.released = why] \in AgentRec
  BY DEF AgentRec, CurrentRec
<1> QED
  BY <1>1, LetGoTyped DEF Stopped

LEMMA QueueTyped ==
    ASSUME NEW s \in AgentRec, NEW f \in FrameRec
    PROVE  Queue(s, f) \in AgentRec
BY DEF Queue, AgentRec

\* An order of each kind has what that kind carries.
LEMMA OrderKinds ==
    ASSUME NEW m \in OrderRec
    PROVE  /\ m.type # "close" => m.job \in Job /\ m.epoch \in Nat /\ m.acked \in Int
           /\ m.type = "cancel" => m.why \in Reason
BY DEF OrderRec, OrderOf, CloseOrder, Order

LEMMA AssignedTyped ==
    ASSUME NEW s \in AgentRec, NEW m \in OrderRec, m.type = "assign"
    PROVE  Assigned(s, m) \in AgentRec
<1>1. m.job \in Job /\ m.epoch \in Nat
  BY OrderKinds
<1>2. Frame("event", m.job, m.epoch, 1, "refused") \in FrameRec
  BY <1>1, FrameTyped DEF JobEvent, Terminal
<1>3. [Idle EXCEPT !.job = m.job, !.epoch = m.epoch] \in CurrentRec
  BY <1>1, IdleTyped DEF CurrentRec
<1> QED
  BY <1>2, <1>3, QueueTyped DEF Assigned, AgentRec

LEMMA CancelledTyped ==
    ASSUME NEW s \in AgentRec, NEW m \in OrderRec, m.type = "cancel"
    PROVE  Cancelled(s, m) \in AgentRec
<1>1. m.job \in Job /\ m.epoch \in Nat /\ m.why \in Reason
  BY OrderKinds
<1>2. Frame("released", m.job, m.epoch, 0, m.why) \in FrameRec
  BY <1>1, FrameTyped
<1>3. HoldsThat(s, m.job, m.epoch) => Holds(s)
  BY <1>1, LeaseAssumption DEF HoldsThat, Holds
<1> QED
  BY <1>1, <1>2, <1>3, StoppedTyped, QueueTyped DEF Cancelled

LEMMA AnsweredTyped ==
    ASSUME NEW s \in AgentRec, NEW m \in OrderRec, m.type = "verdict"
    PROVE  Answered(s, m) \in AgentRec
<1>1. HoldsThat(s, m.job, m.epoch) => Holds(s)
  BY OrderKinds, LeaseAssumption DEF HoldsThat, Holds
<1> QED
  BY <1>1, LetGoTyped DEF Answered

LEMMA OutTyped ==
    ASSUME NEW s \in AgentRec, NEW o \in OutboxRec
    PROVE  s.cur.out \in OutboxRec /\ [s EXCEPT !.cur.out = o] \in AgentRec
BY DEF AgentRec, CurrentRec

LEMMA RenewedTyped ==
    ASSUME NEW s \in AgentRec, NEW m \in OrderRec, m.type = "renewed"
    PROVE  Renewed(s, m) \in AgentRec
<1>1. Ack(s.cur.out, m.acked) \in OutboxRec
  BY OrderKinds, AckTyped DEF AgentRec, CurrentRec
<1> QED
  BY <1>1, OutTyped DEF Renewed

LEMMA WelcomedTyped ==
    ASSUME NEW s \in AgentRec, NEW c \in Conn, NEW acked \in Int,
           NEW answer \in {"none", "continue", "lease_lost", "cancelled", "reroute"},
           answer = "none" => ~Runs(s)
    PROVE  Welcomed(s, c, answer, acked) \in AgentRec
<1> DEFINE t == [s EXCEPT !.link = c]
           u == [t EXCEPT !.cur.out = EmptyOutbox]
<1>1. t \in AgentRec /\ t.cur = s.cur
  BY DEF AgentRec
<1>2. [t EXCEPT !.ready = TRUE] \in AgentRec
  BY <1>1 DEF AgentRec
<1>3. Rewind(t.cur.out, acked) \in OutboxRec
  BY <1>1, RewindTyped DEF AgentRec, CurrentRec
<1>4. [t EXCEPT !.cur.out = Rewind(t.cur.out, acked)] \in AgentRec
  BY <1>1, <1>3, OutTyped
<1>5. u \in AgentRec /\ (Holds(s) => Holds(u))
  <2>1. EmptyOutbox \in OutboxRec
    BY DEF EmptyOutbox, OutboxRec
  <2>2. u \in AgentRec
    BY <1>1, <2>1, OutTyped
  <2>3. u.cur.job = s.cur.job
    BY <1>1 DEF AgentRec, CurrentRec
  <2> QED
    BY <2>2, <2>3 DEF Holds
<1>6. Runs(s) /\ answer # "continue" => answer \in Reason
  BY DEF Reason
<1>7. Holds(s) /\ answer \in Reason => Stopped(u, answer) \in AgentRec
  BY <1>5, StoppedTyped
<1> HIDE DEF t, u
<1>8. Welcomed(s, c, answer, acked) =
        IF ~Holds(s) THEN [t EXCEPT !.ready = TRUE]
        ELSE IF ~Runs(s) THEN t
        ELSE IF answer = "continue"
             THEN [t EXCEPT !.cur.out = Rewind(t.cur.out, acked)]
        ELSE Stopped(u, answer)
  BY DEF Welcomed, t, u
<1> QED
  BY <1>1, <1>2, <1>4, <1>6, <1>7, <1>8

LEMMA ReportsTyped ==
    ASSUME NEW s \in AgentRec, NEW ev \in JobEvent,
           NEW done \in {"no", "result", "failed"}
    PROVE  /\ Reports(s, ev) \in AgentRec
           /\ EndsWith(s, ev, done) \in AgentRec
<1>1. Push(s.cur.out, ev) \in OutboxRec
  BY PushTyped DEF AgentRec, CurrentRec
<1> QED
  BY <1>1 DEF Reports, EndsWith, AgentRec, CurrentRec

LEMMA AfterEventsTyped ==
    ASSUME NEW s \in AgentRec
    PROVE  AfterEvents(s) \in AgentRec
<1>1. [s EXCEPT !.cur = Idle, !.ready = TRUE] \in AgentRec
  BY IdleTyped DEF AgentRec
<1>2. Flushed(s.cur.out) \in OutboxRec
  BY FlushedTyped DEF AgentRec, CurrentRec
<1>3. [s EXCEPT !.cur.out = Flushed(@)] \in AgentRec
  BY <1>2 DEF AgentRec, CurrentRec
<1> QED
  BY <1>1, <1>3 DEF AfterEvents

LEMMA EventFramesTyped ==
    ASSUME NEW s \in AgentRec
    PROVE  EventFrames(s) \in Seq(FrameRec)
<1> DEFINE w == Unwritten(s.cur.out)
           W == [seq : Int, ev : JobEvent]
           f(k) == Frame("event", s.cur.job, s.cur.epoch, w[k].seq, w[k].ev)
<1>1. w \in Seq(W)
  BY UnwrittenTyped DEF AgentRec, CurrentRec
<1>2. CASE Runs(s)
  <2>1. s.cur.job \in Job /\ s.cur.epoch \in Nat
    BY <1>2 DEF Runs, Holds, AgentRec, CurrentRec
  <2>2. ASSUME NEW k \in DOMAIN w
        PROVE  f(k) \in FrameRec
    <3>1. w[k] \in W
      <4> HIDE DEF w, W
      <4> QED
        BY <1>1
    <3>2. w[k].seq \in Int /\ w[k].ev \in JobEvent
      BY <3>1
    <3> QED
      BY <2>1, <3>2, FrameTyped
  <2>3. EventFrames(s) = [k \in DOMAIN w |-> f(k)]
    BY <1>2 DEF EventFrames
  <2>4. DOMAIN w = 1 .. Len(w) /\ Len(w) \in Nat
    BY <1>1
  <2>5. [k \in DOMAIN w |-> f(k)] \in [1 .. Len(w) -> FrameRec]
    <3> HIDE DEF f, w
    <3> QED
      BY <2>2, <2>4
  <2> HIDE DEF f, w
  <2> QED
    BY <2>3, <2>4, <2>5, FunctionIsSequence
<1>3. CASE ~Runs(s)
  BY <1>3 DEF EventFrames
<1> QED
  BY <1>2, <1>3

LEMMA FlushTyped ==
    ASSUME NEW s \in AgentRec
    PROVE  AfterFlush(s) \in AgentRec /\ FramesOf(s) \in Seq(FrameRec)
<1>1. AfterFlush(s) \in AgentRec
  <2> DEFINE t == AfterEvents(s)
  <2>1. t \in AgentRec /\ Holds(t) \in BOOLEAN /\ <<>> \in Seq(FrameRec)
    BY AfterEventsTyped DEF Holds
  <2>2. AfterFlush(s) = [t EXCEPT !.pending = <<>>,
                                  !.ready = t.ready /\ Holds(t)]
    BY DEF AfterFlush
  <2> HIDE DEF t
  <2> QED
    BY <2>1, <2>2 DEF AgentRec
<1>2. s.pending \in Seq(FrameRec)
  BY DEF AgentRec
<1>3. (IF OwesReady(AfterEvents(s))
       THEN <<Frame("ready", NoJob, 0, 0, "none")>> ELSE <<>>) \in Seq(FrameRec)
  <2>1. Frame("ready", NoJob, 0, 0, "none") \in FrameRec
    BY DEF FrameRec
  <2> QED
    BY <2>1
<1>4. s.pending \o EventFrames(s) \in Seq(FrameRec)
  BY <1>2, EventFramesTyped
<1> QED
  BY <1>1, <1>3, <1>4 DEF FramesOf

-----------------------------------------------------------------------------
\* The parts that several actions change.

LEMMA RowTyped ==
    ASSUME NEW r \in Row, NEW e \in Nat, NEW counted \in BOOLEAN,
           NEW class \in Class
    PROVE  /\ BeginAttempt(r) \in Row
           /\ \A status \in Live, holder \in Agent \cup {NoAgent} :
                SaveJobState(r, e, status, holder) \in Row
           /\ Requeue(r, counted) \in Row
           /\ Rebind(r, class) \in Row
           /\ \A status \in Ended : FinishJob(r, status) \in Row
<1>1. BeginAttempt(r) \in Row
  BY DEF BeginAttempt, Row
<1>2. ASSUME NEW status \in Live, NEW holder \in Agent \cup {NoAgent}
      PROVE  SaveJobState(r, e, status, holder) \in Row
  <2> DEFINE h == IF holder = NoAgent THEN r.holder ELSE holder
  <2>1. h \in Agent \cup {NoAgent}
    BY DEF Row
  <2>2. SaveJobState(r, e, status, holder) =
          IF IsLive(r) /\ r.epoch = e
          THEN [r EXCEPT !.status = status, !.holder = h] ELSE r
    BY DEF SaveJobState
  <2> HIDE DEF h
  <2>3. [r EXCEPT !.status = status, !.holder = h] \in Row
    BY <2>1 DEF Row
  <2> QED
    BY <2>2, <2>3
<1>3. Requeue(r, counted) \in Row
  <2> DEFINE n == IF counted THEN r.lost + 1 ELSE r.lost
  <2>1. n \in Nat
    BY DEF Row
  <2>2. Requeue(r, counted) =
          [r EXCEPT !.status = "queued", !.lost = n, !.holder = NoAgent]
    BY DEF Requeue
  <2> HIDE DEF n
  <2> QED
    BY <2>1, <2>2 DEF Row, Live
<1>4. Rebind(r, class) \in Row
  BY DEF Rebind, Live, Row
<1>5. ASSUME NEW status \in Ended
      PROVE  FinishJob(r, status) \in Row
  BY DEF FinishJob, Row
<1> QED
  BY <1>1, <1>2, <1>3, <1>4, <1>5

LEMMA TurnTyped ==
    ASSUME TypeOK, NEW a \in Agent, NEW s \in AgentRec, Turn(a, s)
    PROVE  agent' \in [Agent -> AgentRec] /\ up' \in [Conn -> Seq(FrameRec)]
<1>1. s.link \in Conn \cup {NoConn}
  BY DEF AgentRec
<1>2. CASE s.link = NoConn
  BY <1>2 DEF Turn, TypeOK
<1>3. CASE s.link # NoConn
  <2>1. AfterFlush(s) \in AgentRec /\ FramesOf(s) \in Seq(FrameRec)
    BY FlushTyped
  <2>2. up[s.link] \o FramesOf(s) \in Seq(FrameRec)
    BY <1>1, <1>3, <2>1 DEF TypeOK
  <2> QED
    BY <1>3, <2>1, <2>2 DEF Turn, TypeOK
<1> QED
  BY <1>2, <1>3

LEMMA SentTyped ==
    ASSUME TypeOK, NEW c \in Conn \cup {NoConn}, NEW m \in OrderRec
    PROVE  Sent(c, m) \in [Conn -> Seq(OrderRec)]
<1>1. CASE Listening(c)
  <2>1. c \in Conn /\ Append(down[c], m) \in Seq(OrderRec)
    <3>1. c \in Conn /\ down[c] \in Seq(OrderRec)
      BY <1>1 DEF Listening, TypeOK
    <3> QED
      BY <3>1
  <2> QED
    BY <1>1, <2>1 DEF Sent, TypeOK
<1>2. CASE ~Listening(c)
  BY <1>2 DEF Sent, TypeOK
<1> QED
  BY <1>1, <1>2

LEMMA OrderTyped ==
    ASSUME NEW j \in Job, NEW e \in Nat, NEW n \in Int
    PROVE  /\ CloseOrder \in OrderRec
           /\ \A why \in Reason : CancelOrder(j, e, why) \in OrderRec
           /\ \A accepted \in BOOLEAN : VerdictOrder(j, e, accepted) \in OrderRec
           /\ Order("assign", j, e, "none", 0) \in OrderRec
           /\ Order("renewed", j, e, "none", n) \in OrderRec
BY DEF OrderRec, OrderOf, CloseOrder, CancelOrder, VerdictOrder, Order

LEMMA FreedTyped ==
    ASSUME TypeOK, NEW c, NEW j \in Job
    PROVE  Freed(c, j) \in [Conn -> ChannelRec]
<1> SUFFICES ASSUME NEW k \in Conn
             PROVE  (IF k = c /\ conn[k].holding = j
                     THEN [conn[k] EXCEPT !.holding = NoJob] ELSE conn[k])
                    \in ChannelRec
  BY DEF Freed
<1>1. conn[k] \in ChannelRec /\ j # NoJob
  BY LeaseAssumption DEF TypeOK
<1>2. CASE conn[k].holding = j
  <2>1. conn[k] \in [agent : Agent, ready : BOOLEAN, holding : Job \cup {NoJob}]
    BY <1>1, <1>2 DEF ChannelRec, NoChannel
  <2> QED
    BY <1>1, <2>1 DEF ChannelRec
<1> QED
  BY <1>1, <1>2

LEMMA LeaseTyped ==
    ASSUME NEW c \in Conn \cup {NoConn}, NEW a \in Agent \cup {NoAgent},
           NEW e \in Nat
    PROVE  NewLease(c, a, e) \in LeaseRec /\ NoLease \in LeaseRec
<1>1. <<>> \in Seq(JobEvent \cup Reason)
  OBVIOUS
<1> QED
  BY <1>1 DEF NewLease, NoLease, LeaseRec

LEMMA DetachedTyped ==
    ASSUME TypeOK, NEW closed
    PROVE  Detached(closed) \in [Job -> LeaseRec]
<1> SUFFICES ASSUME NEW j \in Job
             PROVE  (IF lease[j].conn \in closed
                     THEN [lease[j] EXCEPT !.conn = NoConn] ELSE lease[j])
                    \in LeaseRec
  BY DEF Detached
<1>1. lease[j] \in LeaseRec
  BY DEF TypeOK
<1> QED
  BY <1>1 DEF LeaseRec

\* A runner starts anywhere.
LEMMA FreshTyped ==
    /\ Fresh \in RunnerRec
    /\ \A pc \in Place : [Fresh EXCEPT !.pc = pc] \in RunnerRec
<1>1. Fresh \in RunnerRec
  BY StoreAssumption DEF Fresh, RunnerRec, Place, Class
<1>2. ASSUME NEW pc \in Place
      PROVE  [Fresh EXCEPT !.pc = pc] \in RunnerRec
  BY <1>1, <1>2 DEF RunnerRec
<1> QED
  BY <1>1, <1>2

\* The runner's leaving for the end of its lease, and the job's end.
LEMMA RunnerTyped ==
    ASSUME NEW r \in RunnerRec, NEW close \in BOOLEAN, NEW counted \in BOOLEAN,
           NEW to \in Class \cup {NoClass}, NEW after \in {"gone", "requeue"}
    PROVE  /\ Ending(r, close, after) \in RunnerRec
           /\ Requeueing(r, close, counted, to) \in RunnerRec
BY DEF Ending, Requeueing, RunnerRec, Place

LEMMA ReadOnTyped ==
    ASSUME TypeOK, NEW j \in Job
    PROVE  runner[j] \in RunnerRec /\ ReadOn(j) \in RunnerRec
<1>1. runner[j] \in RunnerRec
  BY DEF TypeOK
<1> QED
  BY <1>1 DEF ReadOn, RunnerRec

LEMMA GoesTyped ==
    ASSUME TypeOK, NEW j \in Job, NEW r \in RunnerRec, Goes(j, r)
    PROVE  runner' \in [Job -> RunnerRec]
BY DEF TypeOK, Goes

LEMMA EndsTyped ==
    ASSUME TypeOK, NEW j \in Job, NEW status \in Ended, NEW how \in Outcome,
           Ends(j, status, how)
    PROVE  row' \in [Job -> Row] /\ outcome' \in [Job -> Outcome]
<1>1. row[j] \in Row
  BY DEF TypeOK
<1>2. FinishJob(row[j], status) \in Row
  BY <1>1 DEF FinishJob, Row
<1> QED
  BY <1>2 DEF TypeOK, Ends

LEMMA VerdictTyped ==
    ASSUME TypeOK, NEW j \in Job, NEW accepted \in BOOLEAN,
           Verdict(j, accepted)
    PROVE  /\ settled' \in [Job -> SettledRec]
           /\ down' \in [Conn -> Seq(OrderRec)]
<1>1. lease[j] \in LeaseRec
  BY DEF TypeOK
<1>2. [epoch |-> lease[j].epoch, agent |-> lease[j].agent,
       accepted |-> accepted, last |-> lease[j].next - 1] \in SettledRec
  BY <1>1 DEF LeaseRec, SettledRec
<1>3. VerdictOrder(j, lease[j].epoch, accepted) \in OrderRec
  BY <1>1, OrderTyped DEF LeaseRec
<1>4. lease[j].conn \in Conn \cup {NoConn}
  BY <1>1 DEF LeaseRec
<1> QED
  BY <1>2, <1>3, <1>4, SentTyped DEF Verdict, TypeOK

-----------------------------------------------------------------------------
\* Every step keeps TypeOK.

\* The order an agent reads.
LEMMA ReadTyped ==
    ASSUME TypeOK, NEW a \in Agent, NEW type, Reads(a, type)
    PROVE  /\ agent[a].link \in Conn
           /\ Next1(a) \in OrderRec /\ Next1(a).type = type
           /\ Tail(down[agent[a].link]) \in Seq(OrderRec)
<1>1. agent[a].link \in Conn
  BY DEF TypeOK, AgentRec, Reads
<1>2. down[agent[a].link] \in Seq(OrderRec) /\ down[agent[a].link] # <<>>
  BY <1>1 DEF TypeOK, Reads
<1> QED
  BY <1>1, <1>2 DEF Reads, Next1

LEMMA AgentStepTyped ==
    ASSUME TypeOK, NEW a \in Agent,
           \/ JobProgress(a) \/ Upload(a) \/ JobFinished(a) \/ JobKilled(a)
           \/ HoldExpires(a) \/ Heartbeat(a) \/ OnOrder(a) \/ Disconnect(a)
           \/ AgentCrash(a)
    PROVE  TypeOK'
<1> DEFINE s == agent[a]
<1>1. s \in AgentRec
  BY DEF TypeOK
<1>2. Holds(s) => s.cur.job \in Job /\ s.cur.epoch \in Nat
  BY <1>1 DEF AgentRec, CurrentRec, Holds
<1> HIDE DEF s
<1>3. ASSUME NEW t \in AgentRec, Turn(a, t),
             UNCHANGED <<jobs, process, hub>>,
             down' \in [Conn -> Seq(OrderRec)]
      PROVE  TypeOK'
  BY <1>3, TurnTyped DEF TypeOK, jobs, process, hub
<1>4. CASE JobProgress(a)
  <2>1. Reports(s, "features") \in AgentRec
    BY <1>1, ReportsTyped DEF JobEvent
  <2> QED
    BY <1>3, <1>4, <2>1 DEF JobProgress, s, TypeOK
<1>5. CASE Upload(a)
  <2>1. s.cur.job \in Job
    BY <1>2, <1>5 DEF Upload, Working, Runs, s
  <2>2. ASSUME NEW how \in {"yes", "refused"}
        PROVE  [agent EXCEPT ![a].cur.up = how] \in [Agent -> AgentRec]
    <3>1. [s EXCEPT !.cur.up = how] \in AgentRec
      BY <1>1 DEF AgentRec, CurrentRec
    <3> QED
      BY <3>1 DEF s, TypeOK
  <2>3. [lease EXCEPT ![s.cur.job].uploads = TRUE] \in [Job -> LeaseRec]
    <3>1. lease[s.cur.job] \in LeaseRec
      BY <2>1 DEF TypeOK
    <3>2. [lease[s.cur.job] EXCEPT !.uploads = TRUE] \in LeaseRec
      BY <3>1 DEF LeaseRec
    <3> QED
      BY <3>2 DEF TypeOK
  <2>4. lease' \in [Job -> LeaseRec] /\ agent' \in [Agent -> AgentRec]
    BY <1>5, <2>2, <2>3 DEF Upload, s, TypeOK
  <2> QED
    BY <1>5, <2>4 DEF Upload, TypeOK, jobs, process
<1>6. CASE JobFinished(a)
  <2>1. Holds(s)
    BY <1>6 DEF JobFinished, Working, Runs, s
  <2>2. /\ EndsWith(s, "result", "result") \in AgentRec
        /\ EndsWith(s, "denied", "failed") \in AgentRec
        /\ EndsWith(s, "failed", "failed") \in AgentRec
        /\ LetGo(s, "oom") \in AgentRec
    BY <1>1, <2>1, ReportsTyped, LetGoTyped DEF JobEvent, Terminal, Reason
  <2> QED
    BY <1>3, <1>6, <2>2 DEF JobFinished, s, TypeOK
<1>7. CASE JobKilled(a)
  <2>1. Holds(s) /\ s.cur.released \in Reason
    BY <1>1, <1>7 DEF JobKilled, Runs, s, AgentRec, CurrentRec
  <2>2. LetGo(s, s.cur.released) \in AgentRec
    BY <1>1, <2>1, LetGoTyped
  <2> QED
    BY <1>3, <1>7, <2>2 DEF JobKilled, s, TypeOK
<1>8. CASE HoldExpires(a)
  <2>1. LetGo(s, "no") \in AgentRec
    BY <1>1, <1>8, LetGoTyped DEF HoldExpires, s
  <2> QED
    BY <1>3, <1>8, <2>1 DEF HoldExpires, s, TypeOK
<1>9. CASE Heartbeat(a)
  <2>1. s.cur.job \in Job /\ s.cur.epoch \in Nat
    BY <1>2, <1>9 DEF Heartbeat, s
  <2>2. PICK memory \in {"hot", "calm"} :
          up' = [up EXCEPT ![s.link] =
                   Append(@, Frame("heartbeat", s.cur.job, s.cur.epoch, 0, memory))]
    BY <1>9 DEF Heartbeat, s
  <2>3. s.link \in Conn
    BY <1>1, <1>9 DEF Heartbeat, Listening, s, AgentRec
  <2>4. Frame("heartbeat", s.cur.job, s.cur.epoch, 0, memory) \in FrameRec
    BY <2>1, FrameTyped
  <2>5. up[s.link] \in Seq(FrameRec)
    BY <2>3 DEF TypeOK
  <2>6. up' \in [Conn -> Seq(FrameRec)]
    BY <2>2, <2>3, <2>4, <2>5 DEF TypeOK
  <2> QED
    BY <1>9, <2>6 DEF Heartbeat, TypeOK, jobs, process, hub
<1>10. CASE OnOrder(a)
  <2> DEFINE m == Next1(a)
  <2>1. \A type : Reads(a, type) =>
           /\ s.link \in Conn /\ m \in OrderRec /\ m.type = type
           /\ Tail(down[s.link]) \in Seq(OrderRec)
    BY ReadTyped DEF s
  <2> HIDE DEF m
  <2>2. PICK t \in AgentRec : Turn(a, t)
    <3>1. CASE Reads(a, "assign") /\ Turn(a, Assigned(s, m))
      BY <1>1, <2>1, <3>1, AssignedTyped
    <3>2. CASE Reads(a, "cancel") /\ Turn(a, Cancelled(s, m))
      BY <1>1, <2>1, <3>2, CancelledTyped
    <3>3. CASE Reads(a, "verdict") /\ Turn(a, Answered(s, m))
      BY <1>1, <2>1, <3>3, AnsweredTyped
    <3>4. CASE Reads(a, "renewed") /\ Turn(a, Renewed(s, m))
      BY <1>1, <2>1, <3>4, RenewedTyped
    <3> QED
      BY <1>10, <3>1, <3>2, <3>3, <3>4 DEF OnOrder, s, m
  <2>3. \E type : Reads(a, type)
    BY <1>10 DEF OnOrder
  <2>4. down' = [down EXCEPT ![s.link] = Tail(down[s.link])]
    BY <1>10 DEF OnOrder, s
  <2>5. down' \in [Conn -> Seq(OrderRec)]
    BY <2>1, <2>3, <2>4 DEF TypeOK
  <2> QED
    BY <1>3, <1>10, <2>2, <2>5 DEF OnOrder
<1>11. CASE Disconnect(a)
  <2>1. <<>> \in Seq(OrderRec)
    OBVIOUS
  <2>2. down' \in [Conn -> Seq(OrderRec)]
    BY <1>11, <2>1 DEF Disconnect, TypeOK
  <2>3. agent' \in [Agent -> AgentRec]
    BY <1>11 DEF Disconnect, TypeOK, AgentRec
  <2> QED
    BY <1>11, <2>2, <2>3 DEF Disconnect, TypeOK, jobs, process, hub
<1>12. CASE AgentCrash(a)
  <2>1. <<>> \in Seq(OrderRec)
    OBVIOUS
  <2>2. down' \in [Conn -> Seq(OrderRec)]
    BY <1>12, <2>1 DEF AgentCrash, TypeOK
  <2>3. agent' \in [Agent -> AgentRec]
    BY <1>12, IdleTyped DEF AgentCrash, TypeOK
  <2> QED
    BY <1>12, <2>2, <2>3 DEF AgentCrash, TypeOK, jobs, process, hub
<1> QED
  BY <1>4, <1>5, <1>6, <1>7, <1>8, <1>9, <1>10, <1>11, <1>12

\* The frame the hub handles.
LEMMA GetsTyped ==
    ASSUME TypeOK, NEW c \in Conn, NEW type, Gets(c, type), Took(c)
    PROVE  /\ Head(up[c]) \in FrameRec /\ Head(up[c]).type = type
           /\ up' \in [Conn -> Seq(FrameRec)]
           /\ conn[c].agent \in Agent
<1>1. up[c] \in Seq(FrameRec) /\ up[c] # <<>> /\ Head(up[c]).type = type
  BY DEF Gets, TypeOK
<1>2. Head(up[c]) \in FrameRec /\ Tail(up[c]) \in Seq(FrameRec)
  BY <1>1
<1>3. up' \in [Conn -> Seq(FrameRec)]
  BY <1>2 DEF Took, TypeOK
<1>4. conn[c].agent \in Agent
  BY DEF Gets, Open, TypeOK, ChannelRec
<1> QED
  BY <1>1, <1>2, <1>3, <1>4

\* What a frame of each kind carries.
LEMMA FrameKinds ==
    ASSUME NEW f \in FrameRec
    PROVE  /\ f.type # "ready" => f.job \in Job /\ f.epoch \in Nat
           /\ f.type = "event" => f.ev \in JobEvent
           /\ f.type = "released" => f.ev \in Reason
BY DEF FrameRec, FrameOf, Frame

LEMMA AgainTyped ==
    ASSUME TypeOK, NEW c \in Conn, NEW f, f.job \in Job, f.epoch \in Nat,
           NEW again \in BOOLEAN
    PROVE  Again(c, f, again) \in [Conn -> Seq(OrderRec)]
<1>1. VerdictOrder(f.job, f.epoch, again /\ settled[f.job].accepted) \in OrderRec
  BY DEF VerdictOrder, Order, OrderRec, OrderOf
<1> QED
  BY <1>1, SentTyped DEF Again, TypeOK

\* The changes the hub makes to a lease.
LEMMA LeaseChanges ==
    ASSUME NEW l \in LeaseRec, NEW c \in Conn, NEW b \in BOOLEAN,
           NEW time \in {"live", "due", "lost"}
    PROVE  /\ [l EXCEPT !.conn = c] \in LeaseRec
           /\ [l EXCEPT !.time = time] \in LeaseRec
           /\ [l EXCEPT !.time = time, !.hot = b] \in LeaseRec
           /\ [l EXCEPT !.cancelled = b] \in LeaseRec
           /\ [l EXCEPT !.rerouting = b] \in LeaseRec
           /\ [l EXCEPT !.finished = b] \in LeaseRec
           /\ [l EXCEPT !.next = @ + 1, !.time = time, !.finished = b] \in LeaseRec
<1>1. [l EXCEPT !.conn = c] \in LeaseRec
  BY DEF LeaseRec
<1>2. [l EXCEPT !.time = time] \in LeaseRec
  BY DEF LeaseRec
<1>3. [l EXCEPT !.time = time, !.hot = b] \in LeaseRec
  BY DEF LeaseRec
<1>4. [l EXCEPT !.cancelled = b] \in LeaseRec
  BY DEF LeaseRec
<1>5. [l EXCEPT !.rerouting = b] \in LeaseRec
  BY DEF LeaseRec
<1>6. [l EXCEPT !.finished = b] \in LeaseRec
  BY DEF LeaseRec
<1>7. [l EXCEPT !.next = @ + 1, !.time = time, !.finished = b] \in LeaseRec
  <2>1. l.next + 1 \in Nat
    BY DEF LeaseRec
  <2> QED
    BY <2>1 DEF LeaseRec
<1> QED
  BY <1>1, <1>2, <1>3, <1>4, <1>5, <1>6, <1>7

LEMMA LeaseForwards ==
    ASSUME NEW l \in LeaseRec, NEW ev \in JobEvent \cup Reason, NEW b \in BOOLEAN
    PROVE  /\ [l EXCEPT !.result = b, !.events = Append(@, ev)] \in LeaseRec
           /\ [l EXCEPT !.finished = b, !.events = Append(@, ev)] \in LeaseRec
<1>1. Append(l.events, ev) \in Seq(JobEvent \cup Reason)
  BY DEF LeaseRec
<1> QED
  BY <1>1 DEF LeaseRec

LEMMA ChannelStepTyped ==
    ASSUME TypeOK, NEW c \in Conn,
           \/ OnReady(c) \/ OnHeartbeat(c) \/ OnStaleEvent(c)
           \/ OnNextEvent(c) \/ OnReleased(c)
           \/ RemoveConn(c)
    PROVE  TypeOK'
<1> DEFINE f == Head(up[c])
           l == lease[f.job]
<1>1. \A type : Gets(c, type) /\ Took(c) =>
         /\ f \in FrameRec /\ f.type = type
         /\ up' \in [Conn -> Seq(FrameRec)]
         /\ conn[c].agent \in Agent
  BY GetsTyped
<1>2. f.job \in Job => l \in LeaseRec
  BY DEF TypeOK
<1>4. CASE OnReady(c)
  <2>1. conn' \in [Conn -> ChannelRec]
    BY <1>4, ZenonT(30) DEF OnReady, Gets, Open, TypeOK, ChannelRec, NoChannel
  <2> QED
    BY <1>1, <1>4, <2>1 DEF OnReady, TypeOK, jobs, process
<1>5. CASE OnHeartbeat(c)
  <2>1. f.job \in Job /\ f.epoch \in Nat /\ up' \in [Conn -> Seq(FrameRec)]
    BY <1>1, <1>5, FrameKinds DEF OnHeartbeat
  <2>2. l.next - 1 \in Int
    BY <1>2, <2>1 DEF LeaseRec
  <2>3. Order("renewed", f.job, f.epoch, "none", l.next - 1) \in OrderRec
    BY <2>1, <2>2, OrderTyped
  <2>4. [l EXCEPT !.time = "live", !.hot = (f.ev = "hot")] \in LeaseRec
    BY <1>2, <2>1, LeaseChanges
  <2> HIDE DEF f
  <2>5. [lease EXCEPT ![f.job].time = "live", ![f.job].hot = (f.ev = "hot")]
          \in [Job -> LeaseRec]
    BY <2>1, <2>4 DEF TypeOK
  <2>6. \/ /\ lease' = [lease EXCEPT ![f.job].time = "live",
                                     ![f.job].hot = (f.ev = "hot")]
           /\ down' = Sent(c, Order("renewed", f.job, f.epoch, "none", l.next - 1))
        \/ lease' = lease /\ down' = down
    BY <1>5 DEF OnHeartbeat, f
  <2>7. lease' \in [Job -> LeaseRec] /\ down' \in [Conn -> Seq(OrderRec)]
    <3> DEFINE m == Order("renewed", f.job, f.epoch, "none", l.next - 1)
    <3>1. Sent(c, m) \in [Conn -> Seq(OrderRec)]
      BY <2>3, SentTyped
    <3> HIDE DEF m
    <3> QED
      BY <2>5, <2>6, <3>1 DEF TypeOK, m
  <2> QED
    BY <1>5, <2>1, <2>7 DEF OnHeartbeat, TypeOK, jobs, process
<1>6. CASE OnStaleEvent(c)
  <2>1. f.job \in Job /\ f.epoch \in Nat /\ up' \in [Conn -> Seq(FrameRec)]
    BY <1>1, <1>6, FrameKinds DEF OnStaleEvent
  <2>2. (~Held(f.job) /\ SettledTo(c, f)) \in BOOLEAN
    OBVIOUS
  <2>3. down' \in [Conn -> Seq(OrderRec)]
    BY <1>6, <2>1, <2>2, AgainTyped DEF OnStaleEvent
  <2> QED
    BY <1>6, <2>1, <2>3 DEF OnStaleEvent, TypeOK, jobs, process, hub
<1>8. CASE OnNextEvent(c)
  <2> DEFINE ends == f.ev \in Terminal
             renewed == [l EXCEPT !.next = @ + 1, !.time = "live",
                                  !.finished = @ \/ ends]
             dropped == [renewed EXCEPT !.finished = TRUE]
             sent == [renewed EXCEPT !.result = (f.ev = "result"),
                                     !.events = Append(@, f.ev)]
  <2>0. /\ Gets(c, "event") /\ Took(c)
        /\ UNCHANGED <<jobs, process, settled, conn, nextConn, agent>>
    BY <1>8 DEF OnNextEvent
  <2>1. /\ f.job \in Job /\ f.epoch \in Nat /\ f.ev \in JobEvent
        /\ up' \in [Conn -> Seq(FrameRec)]
    BY <1>1, <2>0, FrameKinds
  <2>2. l \in LeaseRec /\ (l.finished \/ ends) \in BOOLEAN /\ l.result \in BOOLEAN
    BY <1>2, <2>1 DEF LeaseRec
  <2>3. renewed \in LeaseRec
    BY <2>2, LeaseChanges
  <2>4. dropped \in LeaseRec
    <3> HIDE DEF renewed
    <3> QED
      BY <2>3, LeaseChanges
  <2>5. sent \in LeaseRec
    <3> HIDE DEF renewed
    <3> QED
      BY <2>1, <2>3, LeaseForwards
  <2>6. /\ Again(c, f, l.result) \in [Conn -> Seq(OrderRec)]
        /\ Again(c, f, FALSE) \in [Conn -> Seq(OrderRec)]
    BY <2>1, <2>2, AgainTyped
  <2>7. /\ \E l1 \in {dropped, renewed, sent} : lease' = [lease EXCEPT ![f.job] = l1]
        /\ down' \in {down, Again(c, f, l.result), Again(c, f, FALSE)}
    BY <1>8, Zenon DEF OnNextEvent
  <2> HIDE DEF dropped, renewed, sent, l, f
  <2>8. lease' \in [Job -> LeaseRec]
    <3>1. PICK l1 \in LeaseRec : lease' = [lease EXCEPT ![f.job] = l1]
      BY <2>3, <2>4, <2>5, <2>7
    <3> QED
      BY <3>1 DEF TypeOK
  <2>9. down' \in [Conn -> Seq(OrderRec)]
    BY <2>6, <2>7 DEF TypeOK
  <2> QED
    BY <2>0, <2>1, <2>8, <2>9 DEF TypeOK, jobs, process
<1>9. CASE OnReleased(c)
  <2>0. Gets(c, "released") /\ Took(c)
    BY <1>9 DEF OnReleased
  <2>1. /\ f.job \in Job /\ f.ev \in Reason
        /\ up' \in [Conn -> Seq(FrameRec)]
    BY <1>1, <2>0, FrameKinds
  <2>2. [l EXCEPT !.finished = TRUE, !.events = Append(@, f.ev)] \in LeaseRec
    BY <1>2, <2>1, LeaseForwards
  <2> HIDE DEF f
  <2>3. [lease EXCEPT ![f.job].finished = TRUE, ![f.job].events = Append(@, f.ev)]
          \in [Job -> LeaseRec]
    BY <2>1, <2>2 DEF TypeOK
  <2>4. lease' \in [Job -> LeaseRec]
    BY <1>9, <2>3 DEF OnReleased, f, TypeOK
  <2> QED
    BY <1>9, <2>1, <2>4 DEF OnReleased, TypeOK, jobs, process
<1>10. CASE RemoveConn(c)
  <2>1. conn' \in [Conn -> ChannelRec] /\ lease' \in [Job -> LeaseRec]
    BY <1>10, DetachedTyped DEF RemoveConn, ChannelRec, TypeOK
  <2>2. <<>> \in Seq(FrameRec)
    OBVIOUS
  <2>3. up' \in [Conn -> Seq(FrameRec)]
    BY <1>10, <2>2 DEF RemoveConn, TypeOK
  <2> QED
    BY <1>10, <2>1, <2>3 DEF RemoveConn, TypeOK, jobs, process
<1> QED
  BY <1>4, <1>5, <1>6, <1>8, <1>9, <1>10

LEMMA ConnectTyped ==
    ASSUME TypeOK, NEW a \in Agent, Connect(a)
    PROVE  TypeOK'
<1> DEFINE s == agent[a]
           c == nextConn
           j == s.cur.job
           gone == Evicted(a)
           lease1 == Detached(gone)
           answer == IF Runs(s) THEN ResumeAnswer(a, j, s.cur.epoch, lease1[j])
                     ELSE "none"
           old == IF answer = "moves" THEN lease1[j].conn ELSE NoConn
           acked == IF answer = "settled" THEN settled[j].last
                    ELSE IF answer = "moves" THEN lease1[j].next - 1 ELSE 0
           told == IF answer \in {"settled", "moves"} THEN "continue" ELSE answer
           t == Welcomed(s, c, told, acked)
           givenAgain == VerdictOrder(j, s.cur.epoch, settled[j].accepted)
           leased == IF answer = "none" THEN lease1
                     ELSE [lease1 EXCEPT ![j] = AfterResume(@, answer, c)]
           conn1 == [k \in Conn |->
                       IF k \in gone THEN NoChannel
                       ELSE IF k = c THEN [agent |-> a, ready |-> FALSE,
                                           holding |-> IF answer = "moves"
                                                       THEN j ELSE NoJob]
                       ELSE IF k = old /\ conn[k].holding = j
                            THEN [conn[k] EXCEPT !.holding = NoJob]
                       ELSE conn[k]]
<1>1. /\ c \in Conn /\ nextConn' = c + 1
      /\ lease' = leased /\ conn' = conn1
      /\ UNCHANGED <<jobs, process, settled>>
  BY DEF Connect
<1>2. \/ /\ agent' = [agent EXCEPT ![a] = AfterFlush(t)]
         /\ up' = [k \in Conn |-> IF k \in gone THEN <<>>
                                  ELSE IF k = c THEN FramesOf(t) ELSE up[k]]
         /\ down' = IF answer = "settled" THEN [down EXCEPT ![c] = <<givenAgain>>]
                    ELSE down
      \/ /\ up' = [k \in Conn |-> IF k \in gone THEN <<>> ELSE up[k]]
         /\ agent' = agent /\ down' = down
  BY DEF Connect
<1>3. /\ s \in AgentRec /\ (Runs(s) => j \in Job /\ s.cur.epoch \in Nat)
      /\ (answer = "none" => ~Runs(s)) /\ (answer # "none" => Runs(s))
  <2>1. s \in AgentRec
    BY DEF TypeOK
  <2>2. Runs(s) => j \in Job /\ s.cur.epoch \in Nat
    BY <2>1 DEF AgentRec, CurrentRec, Runs, Holds
  <2>3. Runs(s) => answer # "none"
    BY DEF ResumeAnswer
  <2> QED
    BY <2>1, <2>2, <2>3
<1>4. /\ answer \in {"none", "settled", "lease_lost", "cancelled", "reroute", "moves"}
      /\ told \in {"none", "continue", "lease_lost", "cancelled", "reroute"}
      /\ (told = "none" => answer = "none")
  BY DEF ResumeAnswer
<1>5. lease1 \in [Job -> LeaseRec] /\ (j \in Job => settled[j] \in SettledRec)
  BY DetachedTyped DEF TypeOK
<1> HIDE DEF s, c, j, gone, lease1, answer
<1>6. acked \in Int
  <2>1. answer # "none" => lease1[j] \in LeaseRec /\ settled[j] \in SettledRec
    BY <1>3, <1>5
  <2> QED
    BY <1>4, <2>1 DEF LeaseRec, SettledRec
<1> HIDE DEF acked, told
<1>7. t \in AgentRec
  BY <1>1, <1>3, <1>4, <1>6, WelcomedTyped
<1> HIDE DEF t
<1>8. leased \in [Job -> LeaseRec]
  <2>1. ASSUME answer # "none"
        PROVE  AfterResume(lease1[j], answer, c) \in LeaseRec
    <3>1. lease1[j] \in LeaseRec
      BY <1>3, <1>5, <2>1
    <3> QED
      BY <1>1, <3>1, LeaseChanges DEF AfterResume
  <2> QED
    BY <1>5, <2>1
<1>9. conn1 \in [Conn -> ChannelRec]
  <2>1. answer = "moves" => j \in Job /\ j # NoJob
    BY <1>3, LeaseAssumption
  <2>2. ASSUME NEW k \in Conn
        PROVE  conn1[k] \in ChannelRec
    <3>1. conn[k] \in ChannelRec /\ NoChannel \in ChannelRec
      BY DEF TypeOK, ChannelRec
    <3>2. [agent |-> a, ready |-> FALSE,
           holding |-> IF answer = "moves" THEN j ELSE NoJob] \in ChannelRec
      BY <2>1 DEF ChannelRec
    <3>3. ASSUME k = old, k # NoConn, conn[k].holding = j
          PROVE  [conn[k] EXCEPT !.holding = NoJob] \in ChannelRec
      <4>1. j # NoJob
        BY <2>1, <3>3
      <4> QED
        BY <3>1, <3>3, <4>1 DEF ChannelRec, NoChannel
    <3>4. k # NoConn
      OBVIOUS
    <3> HIDE DEF old
    <3> QED
      BY <3>1, <3>2, <3>3, <3>4
  <2> QED
    BY <2>2
<1>10. agent' \in [Agent -> AgentRec]
  <2>1. AfterFlush(t) \in AgentRec
    BY <1>7, FlushTyped
  <2> QED
    BY <1>2, <2>1 DEF TypeOK
<1>11. up' \in [Conn -> Seq(FrameRec)]
  <2>1. FramesOf(t) \in Seq(FrameRec) /\ <<>> \in Seq(FrameRec)
    BY <1>7, FlushTyped
  <2>2. up \in [Conn -> Seq(FrameRec)]
    BY DEF TypeOK
  <2> QED
    BY <1>2, <2>1, <2>2
<1>12. down' \in [Conn -> Seq(OrderRec)]
  <2>1. answer = "settled" => <<givenAgain>> \in Seq(OrderRec)
    <3>1. ASSUME answer = "settled" PROVE givenAgain \in OrderRec
      BY <1>3, <3>1 DEF VerdictOrder, Order, OrderRec, OrderOf
    <3> HIDE DEF givenAgain
    <3> QED
      BY <3>1
  <2>2. down \in [Conn -> Seq(OrderRec)]
    BY DEF TypeOK
  <2> HIDE DEF givenAgain
  <2> QED
    BY <1>2, <2>1, <2>2
<1>13. nextConn' \in Nat \ {0}
  BY <1>1, LeaseAssumption
<1> HIDE DEF leased, conn1
<1> QED
  BY <1>1, <1>8, <1>9, <1>10, <1>11, <1>12, <1>13 DEF TypeOK, jobs, process

LEMMA ExpireTyped ==
    ASSUME TypeOK, NEW j \in Job, Expire(j)
    PROVE  TypeOK'
<1>1. [lease[j] EXCEPT !.time = "due"] \in LeaseRec
  <2>1. lease[j] \in LeaseRec
    BY DEF TypeOK
  <2> QED
    BY <2>1 DEF LeaseRec
<1>2. lease' \in [Job -> LeaseRec]
  BY <1>1 DEF Expire, TypeOK
<1> QED
  BY <1>2 DEF Expire, TypeOK, jobs, process

LEMMA UserStepTyped ==
    ASSUME TypeOK, \/ \E j \in Job : UserCancel(j)
                   \/ Stop
                   \/ Restart
    PROVE  TypeOK'
<1>1. ASSUME NEW j \in Job, UserCancel(j)
      PROVE  TypeOK'
  <2>1. row' \in [Job -> Row] /\ outcome' \in [Job -> Outcome]
    BY <1>1, EndsTyped DEF UserCancel, Ended, Outcome
  <2>2. runner' \in [Job -> RunnerRec]
    <3>1. runner[j] \in RunnerRec
      BY DEF TypeOK
    <3>2. [runner[j] EXCEPT !.pc = "gone"] \in RunnerRec
      BY <3>1 DEF RunnerRec, Place
    <3> QED
      BY <1>1, <3>2 DEF UserCancel, TypeOK
  <2> QED
    BY <1>1, <2>1, <2>2 DEF UserCancel, TypeOK, process, hub
<1>2. CASE Stop
  <2>1. \A c \in Conn : Append(down[c], CloseOrder) \in Seq(OrderRec)
    <3>1. CloseOrder \in OrderRec
      BY DEF OrderRec
    <3>2. \A c \in Conn : down[c] \in Seq(OrderRec)
      BY DEF TypeOK
    <3> QED
      BY <3>1, <3>2
  <2>2. down' \in [Conn -> Seq(OrderRec)]
    BY <1>2, <2>1 DEF Stop, TypeOK
  <2> QED
    BY <1>2, <2>2 DEF Stop, TypeOK, jobs, hub
<1>3. CASE Restart
  <2>1. Fresh \in RunnerRec
    BY StoreAssumption DEF Fresh, RunnerRec, Place, Class
  <2>2. runner' \in [Job -> RunnerRec]
    <3>1. \A j \in Job : row[j].epoch \in Nat
      BY DEF TypeOK, Row
    <3>2. \A j \in Job :
            /\ [Fresh EXCEPT !.pc = "orphan", !.adopted = TRUE,
                             !.epoch = row[j].epoch] \in RunnerRec
            /\ [Fresh EXCEPT !.pc = "gone"] \in RunnerRec
      BY <2>1, <3>1 DEF RunnerRec, Place
    <3> QED
      BY <1>3, <2>1, <3>2 DEF Restart
  <2>3. lease' \in [Job -> LeaseRec]
    <3>1. \A j \in Job : /\ row[j].epoch \in Nat
                         /\ row[j].holder \in Agent \cup {NoAgent}
      BY DEF TypeOK, Row
    <3>2. \A j \in Job :
            /\ NewLease(NoConn, row[j].holder, row[j].epoch) \in LeaseRec
            /\ NoLease \in LeaseRec
      BY <3>1, LeaseTyped
    <3> QED
      BY <1>3, <3>2 DEF Restart
  <2>4. settled' \in [Job -> SettledRec]
    <3>1. NoSettled \in SettledRec
      BY DEF NoSettled, SettledRec
    <3> QED
      BY <1>3, <3>1 DEF Restart
  <2>5. conn' \in [Conn -> ChannelRec]
    BY <1>3 DEF Restart, ChannelRec
  <2>6. up' \in [Conn -> Seq(FrameRec)]
    <3>1. <<>> \in Seq(FrameRec)
      OBVIOUS
    <3> QED
      BY <1>3, <3>1 DEF Restart
  <2>7. /\ restarts' = restarts + 1 /\ stopping' = FALSE /\ cancelled' = {}
        /\ UNCHANGED <<row, outcome, published, nextConn, agent, down>>
    BY <1>3 DEF Restart
  <2>8. /\ restarts' \in Nat /\ stopping' \in BOOLEAN /\ cancelled' \subseteq Job
        /\ row' \in [Job -> Row] /\ outcome' \in [Job -> Outcome]
        /\ published' \in [Job -> Nat] /\ nextConn' \in Nat \ {0}
        /\ agent' \in [Agent -> AgentRec] /\ down' \in [Conn -> Seq(OrderRec)]
    <3>1. restarts' \in Nat
      BY <2>7 DEF TypeOK
    <3>2. cancelled' \subseteq Job /\ stopping' \in BOOLEAN
      BY <2>7
    <3>3. /\ row' \in [Job -> Row] /\ outcome' \in [Job -> Outcome]
          /\ published' \in [Job -> Nat] /\ nextConn' \in Nat \ {0}
          /\ agent' \in [Agent -> AgentRec] /\ down' \in [Conn -> Seq(OrderRec)]
      BY <2>7 DEF TypeOK
    <3> QED
      BY <3>1, <3>2, <3>3
  <2> QED
    BY <2>2, <2>3, <2>4, <2>5, <2>6, <2>8 DEF TypeOK
<1> QED
  BY <1>1, <1>2, <1>3

\* What a runner reads of its lease's queue.
LEMMA EventTyped ==
    ASSUME TypeOK, NEW j \in Job, Received(j)
    PROVE  Event(j) \in JobEvent \cup Reason
<1>1. runner[j].read \in Nat /\ lease[j].events \in Seq(JobEvent \cup Reason)
  BY DEF TypeOK, RunnerRec, LeaseRec
<1>2. runner[j].read + 1 \in 1 .. Len(lease[j].events)
  BY <1>1 DEF Received
<1> HIDE DEF Received
<1> QED
  BY <1>1, <1>2 DEF Event

LEMMA RunnerStartTyped ==
    ASSUME TypeOK, NEW j \in Job,
           \/ Start(j) \/ Claim(j) \/ GiveUp(j) \/ SaveLeased(j)
           \/ RunOrphan(j) \/ OnFeatures(j) \/ Publish(j) \/ Registered(j)
    PROVE  TypeOK'
<1> DEFINE r == runner[j]
           l == lease[j]
<1>1. r \in RunnerRec /\ l \in LeaseRec /\ row[j] \in Row
  BY DEF TypeOK
<1>2. /\ r.epoch \in Nat /\ r.class \in Class
      /\ l.conn \in Conn \cup {NoConn} /\ l.agent \in Agent \cup {NoAgent}
      /\ l.epoch \in Nat
  BY <1>1 DEF RunnerRec, LeaseRec
<1>3. \A class \in row[j].class .. MaxClass \cup r.class + 1 .. MaxClass :
         class \in Class
  BY <1>1, <1>2, StoreAssumption DEF Row, Class
<1>4. ASSUME NEW pc \in Place
      PROVE  [r EXCEPT !.pc = pc] \in RunnerRec
  BY <1>1 DEF RunnerRec
<1> HIDE DEF r, l
<1>5. CASE Start(j)
  <2>1. BeginAttempt(row[j]) \in Row
    BY <1>1 DEF BeginAttempt, Row
  <2>2. PICK class \in row[j].class .. MaxClass :
          Goes(j, [Fresh EXCEPT !.pc = "claiming", !.class = class,
                                !.epoch = BeginAttempt(row[j]).epoch])
    BY <1>5 DEF Start
  <2>3. class \in Class /\ BeginAttempt(row[j]).epoch \in Nat
    BY <1>3, <2>1 DEF Row
  <2>4. [Fresh EXCEPT !.pc = "claiming", !.class = class,
                      !.epoch = BeginAttempt(row[j]).epoch] \in RunnerRec
    BY <2>3 DEF Fresh, RunnerRec, Place
  <2>5. row' \in [Job -> Row]
    BY <1>5, <2>1 DEF Start, TypeOK
  <2> QED
    BY <1>5, <2>2, <2>4, <2>5, GoesTyped DEF Start, TypeOK, process, hub
<1>6. CASE Claim(j)
  <2>1. PICK c \in Conn :
          /\ Free(c, j)
          /\ conn' = [conn EXCEPT ![c].ready = FALSE, ![c].holding = j]
          /\ lease' = [lease EXCEPT ![j] = NewLease(c, conn[c].agent, r.epoch)]
          /\ down' = Sent(c, Order("assign", j, r.epoch, "none", 0))
          /\ Goes(j, [r EXCEPT !.pc = "leased"])
          /\ UNCHANGED <<row, cancelled, outcome, published, process, settled,
                         nextConn, agent, up>>
    BY <1>6 DEF Claim, r
  <2>2. conn[c] \in [agent : Agent, ready : BOOLEAN, holding : Job \cup {NoJob}]
    BY <2>1 DEF Free, Open, TypeOK, ChannelRec
  <2>3. [conn[c] EXCEPT !.ready = FALSE, !.holding = j] \in ChannelRec
    BY <2>2 DEF ChannelRec
  <2>4. conn' \in [Conn -> ChannelRec]
    BY <2>1, <2>3 DEF TypeOK
  <2>5. NewLease(c, conn[c].agent, r.epoch) \in LeaseRec
    BY <1>2, <2>2, LeaseTyped
  <2>6. lease' \in [Job -> LeaseRec]
    BY <2>1, <2>5 DEF TypeOK
  <2>7. down' \in [Conn -> Seq(OrderRec)]
    <3>1. Order("assign", j, r.epoch, "none", 0) \in OrderRec
      BY <1>2 DEF Order, OrderRec, OrderOf
    <3>2. Sent(c, Order("assign", j, r.epoch, "none", 0)) \in [Conn -> Seq(OrderRec)]
      BY <3>1, SentTyped
    <3> QED
      BY <2>1, <3>2
  <2>8. runner' \in [Job -> RunnerRec]
    BY <1>4, <2>1, GoesTyped DEF Place
  <2> QED
    BY <2>1, <2>4, <2>6, <2>7, <2>8 DEF TypeOK, process
<1>7. CASE GiveUp(j)
  <2>1. runner' \in [Job -> RunnerRec]
    BY <1>4, <1>7, GoesTyped DEF GiveUp, Place, r
  <2> QED
    BY <1>7, <2>1 DEF GiveUp, TypeOK, process, hub
<1>8. CASE SaveLeased(j)
  <2>1. SaveJobState(row[j], r.epoch, "leased", l.agent) \in Row
    BY <1>1, <1>2, StoreAssumption, RowTyped DEF Live, Class
  <2>2. row' \in [Job -> Row]
    BY <1>8, <2>1 DEF SaveLeased, TypeOK, r, l
  <2>3. runner' \in [Job -> RunnerRec]
    BY <1>4, <1>8, GoesTyped DEF SaveLeased, Place, r
  <2> QED
    BY <1>8, <2>2, <2>3 DEF SaveLeased, TypeOK, process, hub
<1>9. CASE RunOrphan(j)
  <2>1. CASE j \in cancelled
    <3>1. down' \in [Conn -> Seq(OrderRec)]
      <4>1. CancelOrder(j, l.epoch, "cancelled") \in OrderRec
        BY <1>2, OrderTyped DEF Reason
      <4> QED
        BY <1>2, <1>9, <2>1, <4>1, SentTyped DEF RunOrphan, l
    <3>2. conn' \in [Conn -> ChannelRec]
      BY <1>9, <2>1, FreedTyped DEF RunOrphan
    <3>3. NoLease \in LeaseRec
      BY LeaseTyped
    <3>4. lease' \in [Job -> LeaseRec]
      BY <1>9, <2>1, <3>3 DEF RunOrphan, TypeOK
    <3>5. runner' \in [Job -> RunnerRec]
      BY <1>4, <1>9, <2>1, GoesTyped DEF RunOrphan, Place, r
    <3> QED
      BY <1>9, <3>1, <3>2, <3>4, <3>5 DEF RunOrphan, TypeOK, process
  <2>2. CASE j \notin cancelled
    <3>1. PICK class \in row[j].class .. MaxClass :
            Goes(j, [r EXCEPT !.pc = "running", !.class = class])
      BY <1>9, <2>2 DEF RunOrphan, r
    <3>2. [r EXCEPT !.pc = "running", !.class = class] \in RunnerRec
      BY <1>1, <1>3 DEF RunnerRec, Place
    <3>3. runner' \in [Job -> RunnerRec]
      BY <3>1, <3>2, GoesTyped
    <3> QED
      BY <1>9, <2>2, <3>3 DEF RunOrphan, TypeOK, process
  <2> QED
    BY <2>1, <2>2
<1>10. CASE OnFeatures(j)
  <2>1. SaveJobState(row[j], r.epoch, "running", NoAgent) \in Row
    BY <1>1, <1>2, StoreAssumption, RowTyped DEF Live, Class
  <2>2. row' \in [Job -> Row]
    BY <1>10, <2>1 DEF OnFeatures, TypeOK, r
  <2>3. ReadOn(j) \in RunnerRec
    BY ReadOnTyped
  <2>4. CASE Goes(j, ReadOn(j)) /\ UNCHANGED <<lease, down>>
    <3>1. runner' \in [Job -> RunnerRec]
      BY <2>3, <2>4, GoesTyped
    <3> QED
      BY <1>10, <2>2, <2>4, <3>1 DEF OnFeatures, TypeOK, process
  <2>5. CASE /\ \E target \in r.class + 1 .. MaxClass :
                  Goes(j, [ReadOn(j) EXCEPT !.to = target])
             /\ lease' = [lease EXCEPT ![j].rerouting = TRUE]
             /\ down' = Sent(l.conn, CancelOrder(j, l.epoch, "reroute"))
    <3>1. PICK target \in r.class + 1 .. MaxClass :
            Goes(j, [ReadOn(j) EXCEPT !.to = target])
      BY <2>5
    <3>2. [ReadOn(j) EXCEPT !.to = target] \in RunnerRec
      BY <1>3, <2>3, <3>1 DEF RunnerRec
    <3>3. runner' \in [Job -> RunnerRec]
      BY <3>1, <3>2, GoesTyped
    <3>4. [l EXCEPT !.rerouting = TRUE] \in LeaseRec
      BY <1>1 DEF LeaseRec
    <3>5. lease' \in [Job -> LeaseRec]
      BY <2>5, <3>4 DEF TypeOK, l
    <3>6. CancelOrder(j, l.epoch, "reroute") \in OrderRec
      BY <1>2, OrderTyped DEF Reason
    <3>7. down' \in [Conn -> Seq(OrderRec)]
      BY <1>2, <2>5, <3>6, SentTyped
    <3> QED
      BY <1>10, <2>2, <3>3, <3>5, <3>7 DEF OnFeatures, TypeOK, process
  <2> QED
    BY <1>10, <2>4, <2>5 DEF OnFeatures, r, l
<1>11. ASSUME Ends(j, "failed", "stale") \/ Ends(j, "done", "done")
       PROVE  row' \in [Job -> Row] /\ outcome' \in [Job -> Outcome]
  BY <1>11, EndsTyped DEF Ended, Outcome
<1>12. ASSUME Goes(j, Ending(r, FALSE, "gone"))
       PROVE  runner' \in [Job -> RunnerRec]
  BY <1>1, <1>12, RunnerTyped, GoesTyped
<1>13. CASE Publish(j)
  <2>1. CASE MayPublish(row[j], r.epoch)
    <3>1. published' \in [Job -> Nat]
      BY <1>13, <2>1 DEF Publish, TypeOK, r
    <3>2. runner' \in [Job -> RunnerRec]
      BY <1>4, <1>13, <2>1, GoesTyped DEF Publish, Place, r
    <3> QED
      BY <1>13, <2>1, <3>1, <3>2 DEF Publish, TypeOK, process, r
  <2>2. CASE ~MayPublish(row[j], r.epoch)
    <3>1. /\ Ends(j, "failed", "stale") /\ Verdict(j, FALSE)
          /\ Goes(j, Ending(r, FALSE, "gone")) /\ published' = published
          /\ UNCHANGED <<cancelled, process, lease, conn, nextConn, agent, up>>
      BY <1>13, <2>2 DEF Publish, r
    <3> QED
      BY <1>11, <1>12, <3>1, VerdictTyped DEF TypeOK, process
  <2> QED
    BY <2>1, <2>2
<1>14. CASE Registered(j)
  <2>1. /\ Ends(j, "done", "done") /\ Verdict(j, TRUE)
        /\ Goes(j, Ending(r, FALSE, "gone"))
        /\ UNCHANGED <<cancelled, published, process, lease, conn, nextConn,
                       agent, up>>
    BY <1>14 DEF Registered, r
  <2> QED
    BY <1>11, <1>12, <2>1, VerdictTyped DEF TypeOK, process
<1> QED
  BY <1>5, <1>6, <1>7, <1>8, <1>9, <1>10, <1>13, <1>14

LEMMA RunnerEndTyped ==
    ASSUME TypeOK, NEW j \in Job,
           \/ OnResult(j) \/ OnError(j) \/ OnRelease(j) \/ NoticeCancel(j)
           \/ LetLeaseGo(j) \/ FindExpired(j) \/ EndLease(j)
           \/ StoreRequeue(j) \/ RunnerPanics(j)
    PROVE  TypeOK'
<1> DEFINE r == runner[j]
           l == lease[j]
<1>1. r \in RunnerRec /\ l \in LeaseRec /\ row[j] \in Row
  BY DEF TypeOK
<1>2. /\ r.epoch \in Nat /\ r.class \in Class /\ r.to \in Class \cup {NoClass}
      /\ r.counted \in BOOLEAN /\ r.after \in {"gone", "requeue"}
      /\ l.conn \in Conn \cup {NoConn} /\ l.epoch \in Nat
  BY <1>1 DEF RunnerRec, LeaseRec
<1>3. ASSUME NEW pc \in Place
      PROVE  [r EXCEPT !.pc = pc] \in RunnerRec
  BY <1>1 DEF RunnerRec
<1>4. Bigger(r.class) \in Class \cup {NoClass}
  BY <1>2, StoreAssumption DEF Bigger, Class
<1>5. ASSUME NEW how \in {"invalid", "failed", "denied", "refused", "result",
                          "oom", "unasked", "lost", "internal"},
             Ends(j, "failed", how)
      PROVE  row' \in [Job -> Row] /\ outcome' \in [Job -> Outcome]
  BY <1>5, EndsTyped DEF Ended, Outcome, Terminal
<1>6. ReadOn(j) \in RunnerRec
  BY ReadOnTyped
<1>7. ASSUME NEW q \in RunnerRec, NEW close \in BOOLEAN,
             Goes(j, Ending(q, close, "gone"))
      PROVE  runner' \in [Job -> RunnerRec]
  BY <1>7, RunnerTyped, GoesTyped
<1>8. ASSUME NEW q \in RunnerRec, NEW close \in BOOLEAN, NEW counted \in BOOLEAN,
             NEW to \in Class \cup {NoClass},
             Goes(j, Requeueing(q, close, counted, to))
      PROVE  runner' \in [Job -> RunnerRec]
  <2>1. Requeueing(q, close, counted, to) \in RunnerRec
    BY RunnerTyped
  <2> QED
    BY <1>8, <2>1, GoesTyped
<1>9. TypeOK => /\ row \in [Job -> Row] /\ outcome \in [Job -> Outcome]
                /\ lease \in [Job -> LeaseRec]
  BY DEF TypeOK
<1> HIDE DEF r, l
<1>10. CASE OnResult(j)
  <2> DEFINE q == ReadOn(j)
  <2>1. UNCHANGED <<cancelled, published, process, lease, conn, nextConn, agent, up>>
    BY <1>10 DEF OnResult
  <2>2. \/ /\ Verdict(j, FALSE) /\ UNCHANGED <<row, outcome>>
           /\ Goes(j, Requeueing(q, FALSE, FALSE, NoClass))
        \/ /\ Verdict(j, FALSE) /\ UNCHANGED <<row, outcome>>
           /\ Goes(j, Ending(q, FALSE, "gone"))
        \/ /\ Registers(j, q) /\ UNCHANGED <<row, outcome>>
        \/ /\ Verdict(j, FALSE) /\ Ends(j, "failed", "invalid")
           /\ Goes(j, Ending(q, FALSE, "gone"))
    BY <1>10 DEF OnResult
  <2> HIDE DEF q
  <2>3. q \in RunnerRec
    BY <1>6 DEF q
  <2>4. [q EXCEPT !.pc = "registering"] \in RunnerRec
    BY <2>3 DEF RunnerRec, Place
  <2>5. CASE Registers(j, q) /\ UNCHANGED <<row, outcome>>
    BY <2>1, <2>4, <2>5, GoesTyped DEF Registers, TypeOK, process
  <2>6. CASE /\ Verdict(j, FALSE) /\ UNCHANGED <<row, outcome>>
             /\ Goes(j, Requeueing(q, FALSE, FALSE, NoClass))
    BY <1>8, <2>1, <2>3, <2>6, VerdictTyped DEF TypeOK, process
  <2>7. CASE /\ Verdict(j, FALSE) /\ UNCHANGED <<row, outcome>>
             /\ Goes(j, Ending(q, FALSE, "gone"))
    BY <1>7, <2>1, <2>3, <2>7, VerdictTyped DEF TypeOK, process
  <2>8. CASE /\ Verdict(j, FALSE) /\ Ends(j, "failed", "invalid")
             /\ Goes(j, Ending(q, FALSE, "gone"))
    BY <1>5, <1>7, <2>1, <2>3, <2>8, VerdictTyped DEF TypeOK, process
  <2> QED
    BY <2>2, <2>5, <2>6, <2>7, <2>8
<1>11. CASE OnError(j)
  <2>1. Event(j) \in {"failed", "denied", "refused"}
    BY <1>11 DEF OnError, Terminal
  <2> QED
    BY <1>5, <1>6, <1>7, <1>11, <2>1 DEF OnError, TypeOK, process, hub
<1>12. CASE OnRelease(j)
  <2> DEFINE q == ReadOn(j)
  <2>1. UNCHANGED <<cancelled, published, process, hub, agent, up, down>>
    BY <1>12 DEF OnRelease
  <2>2. \/ /\ Goes(j, Ending(q, FALSE, "gone"))
           /\ \/ UNCHANGED <<row, outcome>>
              \/ Ends(j, "failed", "oom")
              \/ Ends(j, "failed", "unasked")
        \/ /\ UNCHANGED <<row, outcome>>
           /\ \/ Goes(j, Requeueing(q, FALSE, FALSE, q.to))
              \/ Goes(j, Requeueing(q, FALSE, FALSE, Bigger(q.class)))
    BY <1>12 DEF OnRelease
  <2> HIDE DEF q
  <2>3. q \in RunnerRec /\ q.to \in Class \cup {NoClass}
        /\ Bigger(q.class) \in Class \cup {NoClass}
    BY <1>6, StoreAssumption DEF q, RunnerRec, Bigger, Class
  <2>4. row' \in [Job -> Row] /\ outcome' \in [Job -> Outcome]
    BY <1>5, <1>9, <2>2
  <2>5. runner' \in [Job -> RunnerRec]
    BY <1>7, <1>8, <2>2, <2>3
  <2> QED
    BY <2>1, <2>4, <2>5 DEF TypeOK, process, hub
<1>13. CASE NoticeCancel(j)
  <2>1. [l EXCEPT !.cancelled = TRUE] \in LeaseRec
    BY <1>1 DEF LeaseRec
  <2>2. lease' \in [Job -> LeaseRec]
    BY <1>13, <2>1 DEF NoticeCancel, TypeOK, l
  <2>3. CancelOrder(j, l.epoch, "cancelled") \in OrderRec
    BY <1>2, OrderTyped DEF Reason
  <2>4. down' \in [Conn -> Seq(OrderRec)]
    BY <1>2, <1>13, <2>3, SentTyped DEF NoticeCancel, l
  <2>5. [r EXCEPT !.cancelSent = TRUE] \in RunnerRec
    BY <1>1 DEF RunnerRec
  <2>6. runner' \in [Job -> RunnerRec]
    BY <1>13, <2>5, GoesTyped DEF NoticeCancel, r
  <2> QED
    BY <1>13, <2>2, <2>4, <2>6 DEF NoticeCancel, TypeOK, process
<1>14. CASE LetLeaseGo(j)
  <2>1. runner' \in [Job -> RunnerRec]
    BY <1>1, <1>7, <1>14 DEF LetLeaseGo, r
  <2> QED
    BY <1>14, <2>1 DEF LetLeaseGo, TypeOK, process, hub
<1>15. CASE FindExpired(j)
  <2> DEFINE memory == IF ~r.adopted /\ l.hot THEN Bigger(r.class) ELSE NoClass
             to == IF memory > r.to THEN memory ELSE r.to
  <2>1. to \in Class \cup {NoClass} /\ (~r.adopted) \in BOOLEAN
    BY <1>2, <1>4
  <2>2. /\ lease' = [lease EXCEPT ![j].time = "lost"]
        /\ \/ Goes(j, Ending(r, TRUE, "gone"))
           \/ Goes(j, Requeueing(r, TRUE, ~r.adopted, to))
        /\ UNCHANGED <<row, cancelled, outcome, published, process, settled,
                       conn, nextConn, agent, up, down>>
    BY <1>15 DEF FindExpired, r, l
  <2> HIDE DEF to
  <2>3. runner' \in [Job -> RunnerRec]
    BY <1>1, <1>7, <1>8, <2>1, <2>2
  <2>4. [l EXCEPT !.time = "lost"] \in LeaseRec
    BY <1>1 DEF LeaseRec
  <2>5. lease' \in [Job -> LeaseRec]
    BY <2>2, <2>4 DEF TypeOK, l
  <2> QED
    BY <2>2, <2>3, <2>5 DEF TypeOK, process
<1>16. CASE EndLease(j)
  <2>1. NoLease \in LeaseRec
    BY LeaseTyped
  <2>2. lease' \in [Job -> LeaseRec] /\ conn' \in [Conn -> ChannelRec]
    BY <1>16, <2>1, FreedTyped DEF EndLease, TypeOK
  <2>3. CloseOrder \in OrderRec
    BY DEF OrderRec
  <2>4. down' \in [Conn -> Seq(OrderRec)]
    BY <1>2, <1>16, <2>3, SentTyped DEF EndLease, TypeOK, l
  <2>5. runner' \in [Job -> RunnerRec]
    BY <1>2, <1>3, <1>16, GoesTyped DEF EndLease, Place, r
  <2> QED
    BY <1>16, <2>2, <2>4, <2>5 DEF EndLease, TypeOK, process
<1>17. CASE StoreRequeue(j)
  <2> DEFINE back == [Fresh EXCEPT !.pc = IF stopping THEN "gone" ELSE "queued"]
  <2>1. back \in RunnerRec
    <3>1. (IF stopping THEN "gone" ELSE "queued") \in Place
      BY DEF Place
    <3> QED
      BY <3>1, FreshTyped
  <2>2. UNCHANGED <<cancelled, published, process, hub, agent, up, down>>
    BY <1>17 DEF StoreRequeue
  <2>3. /\ Goes(j, back) \/ Goes(j, [r EXCEPT !.pc = "gone"])
        /\ \/ row' = row /\ outcome' = outcome
           \/ /\ r.to # NoClass /\ outcome' = outcome
              /\ row' = [row EXCEPT ![j] = Rebind(@, r.to)]
           \/ /\ outcome' = outcome
              /\ row' = [row EXCEPT ![j] = Requeue(@, r.counted)]
           \/ Ends(j, "failed", "lost")
    BY <1>17 DEF StoreRequeue, r
  <2> HIDE DEF back
  <2>4. runner' \in [Job -> RunnerRec]
    BY <1>3, <2>1, <2>3, GoesTyped DEF Place
  <2>5. r.to # NoClass => Rebind(row[j], r.to) \in Row
    BY <1>1, <1>2 DEF Rebind, Row, Live
  <2>6. Requeue(row[j], r.counted) \in Row
    BY <1>1, <1>2, StoreAssumption, RowTyped DEF Class
  <2>7. row' \in [Job -> Row] /\ outcome' \in [Job -> Outcome]
    BY <1>5, <1>9, <2>3, <2>5, <2>6
  <2> QED
    BY <2>2, <2>4, <2>7 DEF TypeOK, process, hub
<1>18. CASE RunnerPanics(j)
  <2>1. row' \in [Job -> Row] /\ outcome' \in [Job -> Outcome]
    BY <1>5, <1>18 DEF RunnerPanics
  <2>2. runner' \in [Job -> RunnerRec]
    BY <1>3, <1>18, GoesTyped DEF RunnerPanics, Place, r
  <2>3. NoLease \in LeaseRec
    BY LeaseTyped
  <2>4. lease' \in [Job -> LeaseRec] /\ conn' \in [Conn -> ChannelRec]
    BY <1>18, <2>3, FreedTyped DEF RunnerPanics, TypeOK
  <2>5. CancelOrder(j, l.epoch, "lease_lost") \in OrderRec
    BY <1>2, OrderTyped DEF Reason
  <2>6. down' \in [Conn -> Seq(OrderRec)]
    BY <1>2, <1>18, <2>5, SentTyped DEF RunnerPanics, TypeOK, l
  <2> QED
    BY <1>18, <2>1, <2>2, <2>4, <2>6 DEF RunnerPanics, TypeOK, process
<1> QED
  BY <1>10, <1>11, <1>12, <1>13, <1>14, <1>15, <1>16, <1>17, <1>18

-----------------------------------------------------------------------------

LEMMA InitTyped == Init => TypeOK
<1> SUFFICES ASSUME Init PROVE TypeOK
  OBVIOUS
<1>1. /\ <<>> \in Seq(FrameRec) /\ <<>> \in Seq(OrderRec)
      /\ NoLease \in LeaseRec
  BY LeaseTyped
<1>2. NewRow(0) \in Row
  BY StoreAssumption DEF NewRow, Row, Live, Class
<1>3. Fresh \in RunnerRec
  BY FreshTyped
<1>4. NoSettled \in SettledRec /\ NoChannel \in ChannelRec
  BY DEF NoSettled, SettledRec, ChannelRec
<1>5. /\ row \in [Job -> Row] /\ runner \in [Job -> RunnerRec]
      /\ lease \in [Job -> LeaseRec] /\ settled \in [Job -> SettledRec]
  BY <1>1, <1>2, <1>3, <1>4 DEF Init
<1>6. conn \in [Conn -> ChannelRec] /\ agent \in [Agent -> AgentRec]
  BY <1>4, IdleTyped DEF Init
<1>7. up \in [Conn -> Seq(FrameRec)] /\ down \in [Conn -> Seq(OrderRec)]
  BY <1>1 DEF Init
<1>8. /\ cancelled \subseteq Job /\ outcome \in [Job -> Outcome]
      /\ published \in [Job -> Nat] /\ stopping \in BOOLEAN
      /\ restarts \in Nat /\ nextConn \in Nat \ {0}
  <2>1. "none" \in Outcome
    BY DEF Outcome
  <2>2. /\ cancelled \subseteq Job /\ stopping \in BOOLEAN
        /\ restarts \in Nat /\ nextConn \in Nat \ {0}
    <3>1. cancelled \subseteq Job
      BY DEF Init
    <3>2. stopping \in BOOLEAN
      BY DEF Init
    <3>3. restarts \in Nat /\ nextConn \in Nat \ {0}
      BY DEF Init
    <3> QED
      BY <3>1, <3>2, <3>3
  <2>3. outcome \in [Job -> Outcome] /\ published \in [Job -> Nat]
    BY <2>1 DEF Init
  <2> QED
    BY <2>2, <2>3
<1> QED
  BY <1>5, <1>6, <1>7, <1>8 DEF TypeOK

LEMMA NextTyped ==
    ASSUME TypeOK, [Next]_vars
    PROVE  TypeOK'
<1>1. CASE UNCHANGED vars
  BY <1>1 DEF TypeOK, vars, jobs, process, hub
<1>2. ASSUME NEW a \in Agent, AgentStep(a)
      PROVE  TypeOK'
  BY <1>2, AgentStepTyped, ConnectTyped DEF AgentStep
<1>3. ASSUME NEW c \in Conn, ChannelStep(c)
      PROVE  TypeOK'
  BY <1>3, ChannelStepTyped DEF ChannelStep
<1>4. ASSUME NEW j \in Job, RunnerStep(j)
      PROVE  TypeOK'
  BY <1>4, RunnerStartTyped, RunnerEndTyped DEF RunnerStep
<1> QED
  BY <1>1, <1>2, <1>3, <1>4, ExpireTyped, UserStepTyped DEF Next

\* The state keeps its kind: every variable of master, channels and agents.
THEOREM TypeCorrect == Spec => []TypeOK
<1>1. Init => TypeOK
  BY InitTyped
<1>2. TypeOK /\ [Next]_vars => TypeOK'
  BY NextTyped
<1> QED
  BY <1>1, <1>2, PTL DEF Spec

-----------------------------------------------------------------------------
\* The fence.

FencedAt(l, r, w) ==
    /\ l # NoLease <=> r.pc \in Owning
    /\ l # NoLease => l.epoch = r.epoch /\ l.epoch = w.epoch /\ l.epoch > 0
    /\ r.pc \in Attempted => r.epoch = w.epoch /\ w.epoch > 0
    /\ w.status \in {"leased", "running"} => w.epoch > 0

LEMMA FenceByJob ==
    /\ Fence /\ EpochsGiven
       => \A j \in Job : FencedAt(lease[j], runner[j], row[j])
    /\ (\A j \in Job : FencedAt(lease[j], runner[j], row[j])')
       => (Fence /\ EpochsGiven)'
BY DEF Fence, EpochsGiven, FencedAt, Held

\* No agent, channel or deadline goes with no lease.
LEMMA NoLeaseIs ==
    /\ NoLease.conn = 0 /\ NoLease.agent = NoAgent /\ NoLease.epoch = 0
    /\ NoLease.time = "live"
BY DEF NoLease, NewLease

\* What keeps one job fenced: a lease that keeps its epoch, a runner that
\* keeps its epoch and its charge, a row that keeps its epoch.
LEMMA StaysFenced ==
    ASSUME NEW l, NEW r, NEW w, NEW m, NEW q, NEW v, FencedAt(l, r, w),
           m = l \/ (l # NoLease /\ m.epoch = l.epoch),
           q = r \/ (/\ q.epoch = r.epoch
                     /\ q.pc \in Owning <=> r.pc \in Owning
                     /\ q.pc \in Attempted => r.pc \in Attempted),
           v = w \/ (/\ v.epoch = w.epoch
                     /\ v.status \in {"leased", "running"} => w.epoch > 0)
    PROVE  FencedAt(m, q, v)
<1>1. m # NoLease <=> l # NoLease
  BY NoLeaseIs DEF FencedAt
<1> QED
  BY <1>1 DEF FencedAt

\* What keeps every job fenced: at most one job is not as it was, and that
\* one is fenced.
LEMMA OneJob ==
    ASSUME FenceInv, NEW j \in Job, NEW m, NEW q, NEW v,
           lease' = [lease EXCEPT ![j] = m],
           runner' = [runner EXCEPT ![j] = q],
           row' = [row EXCEPT ![j] = v],
           FencedAt(m, q, v)
    PROVE  (Fence /\ EpochsGiven)'
<1>1. \A k \in Job : FencedAt(lease[k], runner[k], row[k])
  BY FenceByJob DEF FenceInv
<1>2. ASSUME NEW k \in Job
      PROVE  FencedAt(lease'[k], runner'[k], row'[k])
  <2>1. /\ lease'[k] = IF k = j THEN m ELSE lease[k]
        /\ runner'[k] = IF k = j THEN q ELSE runner[k]
        /\ row'[k] = IF k = j THEN v ELSE row[k]
    BY DEF FenceInv, TypeOK
  <2> QED
    BY <1>1, <2>1
<1> QED
  BY <1>2, FenceByJob

LEMMA Untouched ==
    ASSUME FenceInv, UNCHANGED <<lease, runner, row>>
    PROVE  (Fence /\ EpochsGiven)'
BY DEF FenceInv, Fence, EpochsGiven, Held

\* The row operations keep the epoch, and only a save for the row's own epoch
\* makes it leased or running.
LEMMA RowEpochs ==
    ASSUME NEW w \in Row
    PROVE  /\ \A e \in Nat, status \in Live, holder \in Agent \cup {NoAgent} :
                LET v == SaveJobState(w, e, status, holder)
                IN  v.epoch = w.epoch /\ (v = w \/ w.epoch = e)
           /\ \A counted \in BOOLEAN :
                /\ Requeue(w, counted).epoch = w.epoch
                /\ Requeue(w, counted).status = "queued"
           /\ \A class \in Class :
                /\ Rebind(w, class).epoch = w.epoch
                /\ Rebind(w, class).status = "queued"
           /\ \A status \in Ended :
                LET v == FinishJob(w, status)
                IN  v = w \/ (v.epoch = w.epoch /\ v.status \in Ended)
BY DEF Row, SaveJobState, Requeue, Rebind, FinishJob

-----------------------------------------------------------------------------
\* The agents and the channels.

\* A lease that keeps its epoch, and a runner and a row that do not change.
LEMMA LeaseStays ==
    ASSUME FenceInv, UNCHANGED <<runner, row>>,
           \A k \in Job : \/ lease'[k] = lease[k]
                          \/ Held(k) /\ lease'[k].epoch = lease[k].epoch
    PROVE  (Fence /\ EpochsGiven)'
<1>1. \A k \in Job : FencedAt(lease[k], runner[k], row[k])
  BY FenceByJob DEF FenceInv
<1>2. ASSUME NEW k \in Job
      PROVE  FencedAt(lease'[k], runner'[k], row'[k])
  BY <1>1, StaysFenced DEF Held
<1> QED
  BY <1>2, FenceByJob

LEMMA DetachedStays ==
    ASSUME TypeOK, NEW closed \in SUBSET Conn, NEW k \in Job
    PROVE  /\ \/ Detached(closed)[k] = lease[k]
              \/ Held(k) /\ Detached(closed)[k].epoch = lease[k].epoch
           /\ Detached(closed)[k].agent = lease[k].agent
           /\ Detached(closed)[k].time = lease[k].time
<1>1. lease[k] \in LeaseRec
  BY DEF TypeOK
<1>2. Detached(closed)[k] = IF lease[k].conn \in closed
                            THEN [lease[k] EXCEPT !.conn = 0] ELSE lease[k]
  BY DEF Detached
<1>3. lease[k].conn \in closed => Held(k)
  BY NoLeaseIs DEF Held
<1> QED
  BY <1>1, <1>2, <1>3 DEF LeaseRec

LEMMA UploadFenced ==
    ASSUME FenceInv, NEW a \in Agent, Upload(a)
    PROVE  (Fence /\ EpochsGiven)'
<1> DEFINE cur == agent[a].cur
           j == cur.job
<1>1. /\ j \in Job
      /\ \/ UNCHANGED lease
         \/ Held(j) /\ lease' = [lease EXCEPT ![j].uploads = TRUE]
      /\ UNCHANGED <<runner, row>>
  <2>1. agent[a] \in AgentRec
    BY DEF FenceInv, TypeOK
  <2>2. j \in Job
    BY <2>1 DEF Upload, Working, Runs, Holds, AgentRec, CurrentRec
  <2>3. \/ UNCHANGED lease
        \/ Held(j) /\ lease' = [lease EXCEPT ![j].uploads = TRUE]
    BY DEF Upload, MayUpload
  <2> QED
    BY <2>2, <2>3 DEF Upload, jobs
<1> HIDE DEF j
<1>2. ASSUME NEW k \in Job
      PROVE  \/ lease'[k] = lease[k]
             \/ Held(k) /\ lease'[k].epoch = lease[k].epoch
  <2>1. lease \in [Job -> LeaseRec] /\ lease[j] \in LeaseRec
    BY <1>1 DEF FenceInv, TypeOK
  <2>2. [lease[j] EXCEPT !.uploads = TRUE].epoch = lease[j].epoch
    BY <2>1 DEF LeaseRec
  <2> QED
    BY <1>1, <2>1, <2>2
<1> QED
  BY <1>1, <1>2, LeaseStays

LEMMA ConnectFenced ==
    ASSUME FenceInv, NEW a \in Agent, Connect(a)
    PROVE  (Fence /\ EpochsGiven)'
<1> DEFINE s == agent[a]
           c == nextConn
           j == s.cur.job
           gone == Evicted(a)
           lease1 == Detached(gone)
           answer == IF Runs(s) THEN ResumeAnswer(a, j, s.cur.epoch, lease1[j])
                     ELSE "none"
<1>1. /\ UNCHANGED <<runner, row>>
      /\ lease' = IF answer = "none" THEN lease1
                  ELSE [lease1 EXCEPT ![j] = AfterResume(@, answer, c)]
  BY DEF Connect, jobs
<1>2. gone \in SUBSET Conn
  BY DEF Evicted
<1>3. s \in AgentRec
  BY DEF FenceInv, TypeOK
<1>4. answer # "none" => j \in Job
  BY <1>3 DEF Runs, Holds, AgentRec, CurrentRec
<1>5. answer = "moves" => lease1[j].agent = a
  BY DEF ResumeAnswer
<1>6. lease1 \in [Job -> LeaseRec]
  BY <1>2, DetachedTyped DEF FenceInv
<1> HIDE DEF answer, gone, lease1, s, c, j
<1>7. ASSUME NEW k \in Job
      PROVE  \/ lease'[k] = lease[k]
             \/ Held(k) /\ lease'[k].epoch = lease[k].epoch
  <2>1. /\ \/ lease1[k] = lease[k]
           \/ Held(k) /\ lease1[k].epoch = lease[k].epoch
        /\ lease1[k].agent = lease[k].agent /\ lease1[k].time = lease[k].time
    BY <1>2, DetachedStays DEF lease1, FenceInv
  <2>2. CASE answer = "none" \/ k # j
    BY <1>1, <1>4, <1>6, <2>1, <2>2
  <2>3. CASE answer # "none" /\ k = j
    <3>1. lease'[k] = AfterResume(lease1[k], answer, c)
      BY <1>1, <1>4, <1>6, <2>3
    <3>2. answer = "moves" => Held(k)
      BY <1>5, <2>1, <2>3, NoLeaseIs, StoreAssumption DEF Held
    <3>3. lease1[k].time = "due" => Held(k)
      BY <2>1, NoLeaseIs DEF Held
    <3>4. lease1[k] \in LeaseRec
      BY <1>6
    <3>5. \/ AfterResume(lease1[k], answer, c) = lease1[k]
          \/ /\ Held(k)
             /\ AfterResume(lease1[k], answer, c).epoch = lease1[k].epoch
      BY <3>2, <3>3, <3>4 DEF AfterResume, LeaseRec
    <3> QED
      BY <2>1, <3>1, <3>5
  <2> QED
    BY <2>2, <2>3
<1> QED
  BY <1>1, <1>7, LeaseStays

LEMMA AgentStepFenced ==
    ASSUME FenceInv, NEW a \in Agent, AgentStep(a)
    PROVE  (Fence /\ EpochsGiven)'
<1>1. CASE Upload(a)
  BY <1>1, UploadFenced
<1>2. CASE Connect(a)
  BY <1>2, ConnectFenced
<1>3. CASE \/ JobProgress(a) \/ JobFinished(a) \/ JobKilled(a) \/ HoldExpires(a)
           \/ Heartbeat(a) \/ OnOrder(a) \/ Disconnect(a) \/ AgentCrash(a)
  <2>1. UNCHANGED <<lease, runner, row>>
    BY <1>3 DEF JobProgress, JobFinished, JobKilled, HoldExpires, Heartbeat,
                OnOrder, Disconnect, AgentCrash, jobs, hub
  <2> QED
    BY <2>1, Untouched
<1> QED
  BY <1>1, <1>2, <1>3 DEF AgentStep

\* A frame for a lease's epoch finds it held, whether it is the channel or
\* the agent that is compared.
LEMMA FoundHeld ==
    ASSUME FenceInv, NEW c \in Conn, NEW f, f.job \in Job
    PROVE  /\ Current(c, f) => Held(f.job)
           /\ Open(c) /\ lease[f.job].agent = conn[c].agent => Held(f.job)
<1>1. Open(c) => conn[c].agent \in Agent
  BY DEF Open, FenceInv, TypeOK, ChannelRec
<1> QED
  BY <1>1, NoLeaseIs, StoreAssumption DEF Current, Held

LEMMA ChannelStepFenced ==
    ASSUME FenceInv, NEW c \in Conn, ChannelStep(c)
    PROVE  (Fence /\ EpochsGiven)'
<1> DEFINE f == Head(up[c])
           l == lease[f.job]
           heeded == l.agent = conn[c].agent /\ l.epoch = f.epoch /\ l.time # "lost"
<1>1. TypeOK
  BY DEF FenceInv
<1>2. CASE OnReady(c) \/ OnStaleEvent(c)
  BY <1>2, Untouched DEF OnReady, OnStaleEvent, jobs, hub
<1>3. CASE RemoveConn(c)
  <2>1. lease' = Detached({c}) /\ UNCHANGED <<runner, row>>
    BY <1>3 DEF RemoveConn, jobs
  <2> QED
    BY <1>1, <2>1, DetachedStays, LeaseStays
<1>4. ASSUME NEW m, lease' = [lease EXCEPT ![f.job] = m], UNCHANGED <<runner, row>>,
             f.job \in Job, Held(f.job), m.epoch = l.epoch
      PROVE  (Fence /\ EpochsGiven)'
  BY <1>1, <1>4, LeaseStays DEF TypeOK
<1>5. CASE OnHeartbeat(c)
  <2>1. f.job \in Job
    BY <1>1, <1>5, GetsTyped, FrameKinds DEF OnHeartbeat
  <2>2. CASE ~Current(c, f)
    BY <1>5, <2>2, Untouched DEF OnHeartbeat, jobs
  <2>3. CASE Current(c, f)
    <3> DEFINE m == [l EXCEPT !.time = "live", !.hot = (f.ev = "hot")]
    <3>1. l \in LeaseRec
      BY <1>1, <2>1 DEF TypeOK
    <3>2. m.epoch = l.epoch
      BY <3>1 DEF LeaseRec
    <3>3. lease' = [lease EXCEPT ![f.job] = m] /\ UNCHANGED <<runner, row>>
      BY <1>1, <1>5, <2>1, <2>3 DEF OnHeartbeat, jobs, TypeOK
    <3>4. Held(f.job)
      BY <2>1, <2>3, FoundHeld
    <3> HIDE DEF m, l, f
    <3> QED
      BY <1>4, <2>1, <3>2, <3>3, <3>4
  <2> QED
    BY <2>2, <2>3
<1>6. CASE OnNextEvent(c)
  <2> DEFINE ends == f.ev \in Terminal
             renewed == [l EXCEPT !.next = @ + 1, !.time = "live",
                                  !.finished = @ \/ ends]
  <2>1. f.job \in Job /\ Current(c, f)
    BY <1>1, <1>6, GetsTyped, FrameKinds, SMTT(30) DEF OnNextEvent
  <2>2. l \in LeaseRec
    BY <1>1, <2>1 DEF TypeOK
  <2>3. PICK m \in {[renewed EXCEPT !.finished = TRUE], renewed,
                    [renewed EXCEPT !.result = (f.ev = "result"),
                                    !.events = Append(@, f.ev)]} :
          lease' = [lease EXCEPT ![f.job] = m]
    BY <1>6 DEF OnNextEvent
  <2>4. m.epoch = l.epoch
    BY <2>2, <2>3 DEF LeaseRec
  <2>5. UNCHANGED <<runner, row>> /\ Held(f.job)
    BY <1>6, <2>1, FoundHeld DEF OnNextEvent, jobs
  <2> HIDE DEF renewed, l, f
  <2> QED
    BY <1>4, <2>1, <2>3, <2>4, <2>5
<1>7. CASE OnReleased(c)
  <2>1. f.job \in Job
    BY <1>1, <1>7, GetsTyped, FrameKinds, SMTT(30) DEF OnReleased
  <2>2. UNCHANGED <<runner, row>>
    BY <1>7 DEF OnReleased, jobs
  <2>3. CASE ~heeded
    BY <1>7, <2>2, <2>3, Untouched DEF OnReleased
  <2>4. CASE heeded
    <3> DEFINE m == [l EXCEPT !.finished = TRUE, !.events = Append(@, f.ev)]
    <3>1. l \in LeaseRec
      BY <1>1, <2>1 DEF TypeOK
    <3>2. m.epoch = l.epoch
      BY <3>1 DEF LeaseRec
    <3>3. lease' = [lease EXCEPT ![f.job] = m]
      BY <1>1, <1>7, <2>1, <2>4 DEF OnReleased, TypeOK
    <3>4. Held(f.job)
      BY <1>7, <2>1, <2>4, FoundHeld DEF OnReleased, Gets
    <3> HIDE DEF m, l, f
    <3> QED
      BY <1>4, <2>1, <2>2, <3>2, <3>3, <3>4
  <2> QED
    BY <2>3, <2>4
<1> QED
  BY <1>2, <1>3, <1>5, <1>6, <1>7 DEF ChannelStep

LEMMA ExpireFenced ==
    ASSUME FenceInv, NEW j \in Job, Expire(j)
    PROVE  (Fence /\ EpochsGiven)'
<1>1. lease \in [Job -> LeaseRec]
  BY DEF FenceInv, TypeOK
<1>2. /\ lease' = [lease EXCEPT ![j].time = "due"] /\ Held(j)
      /\ UNCHANGED <<runner, row>>
  BY DEF Expire, jobs
<1>3. [lease[j] EXCEPT !.time = "due"].epoch = lease[j].epoch
  BY <1>1 DEF LeaseRec
<1>4. \A k \in Job : \/ lease'[k] = lease[k]
                     \/ Held(k) /\ lease'[k].epoch = lease[k].epoch
  BY <1>1, <1>2, <1>3
<1> QED
  BY <1>2, <1>4, LeaseStays

-----------------------------------------------------------------------------
\* The runners.

\* A runner that has read an event.
LEMMA ReadsOn ==
    ASSUME TypeOK, NEW j \in Job
    PROVE  /\ ReadOn(j) \in RunnerRec /\ ReadOn(j).epoch = runner[j].epoch
           /\ ReadOn(j).pc = runner[j].pc
<1>1. runner[j] \in RunnerRec
  BY DEF TypeOK
<1> QED
  BY <1>1, ReadOnTyped DEF ReadOn, RunnerRec

\* A function changed nowhere is one changed to what it was.
LEMMA Same ==
    ASSUME TypeOK, NEW j \in Job
    PROVE  /\ UNCHANGED lease => lease' = [lease EXCEPT ![j] = lease[j]]
           /\ UNCHANGED row => row' = [row EXCEPT ![j] = row[j]]
           /\ UNCHANGED runner => runner' = [runner EXCEPT ![j] = runner[j]]
BY DEF TypeOK

\* The lease and the row a runner's steps leave.
LeaseKeeps(j) ==
    \E m : lease' = [lease EXCEPT ![j] = m] /\ m.epoch = lease[j].epoch
RowKeeps(j) ==
    \E v : row' = [row EXCEPT ![j] = v] /\ v.epoch = row[j].epoch

LEMMA Keeps ==
    ASSUME TypeOK, NEW j \in Job
    PROVE  /\ UNCHANGED lease => LeaseKeeps(j)
           /\ UNCHANGED row => RowKeeps(j)
           /\ \A how : \A status \in Ended :
                Ends(j, status, how) => RowKeeps(j)
<1>1. row[j] \in Row
  BY DEF TypeOK
<1>2. ASSUME NEW status \in Ended, NEW how, Ends(j, status, how)
      PROVE  RowKeeps(j)
  <2>1. row' = [row EXCEPT ![j] = FinishJob(row[j], status)]
    BY <1>2 DEF Ends
  <2>2. FinishJob(row[j], status).epoch = row[j].epoch
    BY <1>1, RowEpochs
  <2> QED
    BY <2>1, <2>2 DEF RowKeeps
<1> QED
  BY <1>2, Same DEF LeaseKeeps, RowKeeps

\* A runner in charge that goes on as q.
LEMMA InCharge ==
    ASSUME FenceInv, NEW j \in Job, NEW q, Goes(j, q),
           runner[j].pc \in Owning, q.epoch = runner[j].epoch, q.pc \in Owning,
           LeaseKeeps(j), RowKeeps(j)
    PROVE  (Fence /\ EpochsGiven)'
<1>1. PICK m : lease' = [lease EXCEPT ![j] = m] /\ m.epoch = lease[j].epoch
  BY DEF LeaseKeeps
<1>2. PICK v : row' = [row EXCEPT ![j] = v] /\ v.epoch = row[j].epoch
  BY DEF RowKeeps
<1>3. FencedAt(lease[j], runner[j], row[j])
  BY FenceByJob DEF FenceInv
<1>4. lease[j] # NoLease /\ runner[j].pc \in Attempted /\ row[j].epoch > 0
  BY <1>3 DEF FencedAt, Attempted
<1>5. FencedAt(m, q, v)
  BY <1>1, <1>2, <1>3, <1>4, StaysFenced DEF Attempted
<1> QED
  BY <1>1, <1>2, <1>5, OneJob DEF Goes

\* A runner that is not in charge has no lease.
LEMMA NotInCharge ==
    ASSUME FenceInv, NEW j \in Job
    PROVE  /\ FencedAt(lease[j], runner[j], row[j])
           /\ runner[j].pc \notin Owning => lease[j] = NoLease
           /\ runner[j] \in RunnerRec /\ row[j] \in Row /\ lease[j] \in LeaseRec
BY FenceByJob DEF FenceInv, TypeOK, FencedAt

\* A runner that lets its lease go and is not about to claim another.
LEMMA LetsGo ==
    ASSUME FenceInv, NEW j \in Job, NEW q, Goes(j, q), q.pc \notin Attempted,
           lease' = [lease EXCEPT ![j] = NoLease],
           \/ UNCHANGED row
           \/ \E how : \E status \in Ended : Ends(j, status, how)
           \/ \E v \in Row : /\ row' = [row EXCEPT ![j] = v]
                             /\ v.status = "queued"
    PROVE  (Fence /\ EpochsGiven)'
<1>1. TypeOK /\ row[j] \in Row
  BY NotInCharge DEF FenceInv
<1>2. PICK v : /\ row' = [row EXCEPT ![j] = v]
               /\ v = row[j] \/ v.status \notin {"leased", "running"}
  <2>1. CASE UNCHANGED row
    BY <1>1, <2>1, Same
  <2>2. ASSUME NEW status \in Ended, NEW how, Ends(j, status, how)
        PROVE  \E v : /\ row' = [row EXCEPT ![j] = v]
                      /\ v = row[j] \/ v.status \notin {"leased", "running"}
    <3>1. row' = [row EXCEPT ![j] = FinishJob(row[j], status)]
      BY <2>2 DEF Ends
    <3> QED
      BY <1>1, <3>1, RowEpochs DEF Ended
  <2> QED
    BY <2>1, <2>2
<1>3. FencedAt(NoLease, q, v)
  BY <1>2, NotInCharge DEF FencedAt, Attempted
<1> QED
  BY <1>2, <1>3, OneJob DEF Goes

LEMMA ClaimFenced ==
    ASSUME FenceInv, NEW j \in Job, Start(j) \/ Claim(j) \/ GiveUp(j)
    PROVE  (Fence /\ EpochsGiven)'
<1> DEFINE r == runner[j]
<1>1. TypeOK /\ FencedAt(lease[j], r, row[j]) /\ r \in RunnerRec /\ row[j] \in Row
  BY NotInCharge DEF FenceInv
<1>2. CASE Start(j)
  <2> DEFINE v == BeginAttempt(row[j])
  <2>1. r.pc = "queued" /\ UNCHANGED lease /\ row' = [row EXCEPT ![j] = v]
    BY <1>2 DEF Start, At, hub
  <2>2. PICK class \in row[j].class .. MaxClass :
          Goes(j, [Fresh EXCEPT !.pc = "claiming", !.class = class,
                                !.epoch = v.epoch])
    BY <1>2 DEF Start
  <2> DEFINE q == [Fresh EXCEPT !.pc = "claiming", !.class = class,
                                !.epoch = v.epoch]
  <2>3. q.pc = "claiming" /\ q.epoch = v.epoch
    BY DEF Fresh
  <2>4. v.epoch > 0
    BY <1>1 DEF BeginAttempt, Row
  <2>5. lease[j] = NoLease
    BY <2>1, NotInCharge DEF Owning
  <2> HIDE DEF v, q
  <2>6. FencedAt(lease[j], q, v)
    BY <2>3, <2>4, <2>5 DEF FencedAt, Owning, Attempted
  <2> QED
    BY <1>1, <2>1, <2>2, <2>6, Same, OneJob DEF Goes, q
<1>3. CASE Claim(j)
  <2>1. PICK c \in Conn :
          /\ At(j, "claiming")
          /\ lease' = [lease EXCEPT ![j] = NewLease(c, conn[c].agent, r.epoch)]
          /\ Goes(j, [r EXCEPT !.pc = "leased"])
          /\ UNCHANGED row
    BY <1>3 DEF Claim
  <2> DEFINE q == [r EXCEPT !.pc = "leased"]
             m == NewLease(c, conn[c].agent, r.epoch)
  <2>2. q.pc = "leased" /\ q.epoch = r.epoch
    BY <1>1 DEF RunnerRec
  <2>3. r.epoch = row[j].epoch /\ row[j].epoch > 0
    BY <1>1, <2>1 DEF FencedAt, At, Attempted
  <2>4. m.epoch = r.epoch
    BY DEF NewLease
  <2> HIDE DEF m, q
  <2>5. FencedAt(m, q, row[j])
    BY <2>2, <2>3, <2>4, NoLeaseIs DEF FencedAt, Owning, Attempted
  <2> QED
    BY <1>1, <2>1, <2>5, Same, OneJob DEF Goes, q, m
<1>4. CASE GiveUp(j)
  <2> DEFINE q == [r EXCEPT !.pc = "gone"]
  <2>1. q.pc = "gone" /\ q.epoch = r.epoch
    BY <1>1 DEF RunnerRec
  <2>2. Goes(j, q) /\ r.pc = "claiming" /\ UNCHANGED <<row, lease>>
    BY <1>4 DEF GiveUp, At, hub
  <2> HIDE DEF q
  <2>3. lease[j] = NoLease
    BY <2>2, NotInCharge DEF Owning
  <2> QED
    BY <1>1, <2>1, <2>2, <2>3, Same, LetsGo DEF Attempted, Owning
<1> QED
  BY <1>2, <1>3, <1>4

\* The steps that end a lease, and what becomes of a job without one.
LEMMA LeavingFenced ==
    ASSUME FenceInv, NEW j \in Job,
           EndLease(j) \/ StoreRequeue(j) \/ RunnerPanics(j)
    PROVE  (Fence /\ EpochsGiven)'
<1> DEFINE r == runner[j]
<1>1. TypeOK /\ r \in RunnerRec /\ row[j] \in Row
  BY NotInCharge DEF FenceInv
<1>2. [r EXCEPT !.pc = "gone"].pc = "gone"
  BY <1>1 DEF RunnerRec
<1>3. CASE EndLease(j)
  <2>1. [r EXCEPT !.pc = r.after].pc \in {"gone", "requeue"}
    BY <1>1 DEF RunnerRec
  <2>2. /\ Goes(j, [r EXCEPT !.pc = r.after]) /\ UNCHANGED row
        /\ lease' = [lease EXCEPT ![j] = NoLease]
    BY <1>3 DEF EndLease
  <2> HIDE DEF r
  <2> QED
    BY <2>1, <2>2, LetsGo DEF Attempted, Owning
<1>4. CASE StoreRequeue(j)
  <2> DEFINE back == [Fresh EXCEPT !.pc = IF stopping THEN "gone" ELSE "queued"]
  <2>1. back.pc \in {"gone", "queued"}
    BY DEF Fresh
  <2>2. r.pc = "requeue" /\ UNCHANGED lease
    BY <1>4 DEF StoreRequeue, At, hub
  <2>3. lease' = [lease EXCEPT ![j] = NoLease]
    BY <1>1, <2>2, NotInCharge, Same DEF Owning
  <2>4. PICK q \in {back, [r EXCEPT !.pc = "gone"]} : Goes(j, q)
    BY <1>4 DEF StoreRequeue
  <2>5. q.pc \notin Attempted
    BY <1>2, <2>1, <2>4 DEF Attempted, Owning
  <2>6. \/ UNCHANGED row
        \/ r.to # NoClass /\ row' = [row EXCEPT ![j] = Rebind(row[j], r.to)]
        \/ row' = [row EXCEPT ![j] = Requeue(row[j], r.counted)]
        \/ Ends(j, "failed", "lost")
    BY <1>4 DEF StoreRequeue
  <2>7. /\ r.to # NoClass => /\ Rebind(row[j], r.to) \in Row
                             /\ Rebind(row[j], r.to).status = "queued"
        /\ Requeue(row[j], r.counted) \in Row
        /\ Requeue(row[j], r.counted).status = "queued"
    <3>1. r.counted \in BOOLEAN /\ (r.to # NoClass => r.to \in Class)
      BY <1>1 DEF RunnerRec
    <3>2. 0 \in Nat /\ 0 \in Class
      BY StoreAssumption DEF Class
    <3> QED
      BY <1>1, <3>1, <3>2, RowTyped, RowEpochs
  <2>8. "failed" \in Ended
    BY DEF Ended
  <2> HIDE DEF r, back
  <2> QED
    BY <2>3, <2>4, <2>5, <2>6, <2>7, <2>8, LetsGo
<1>5. CASE RunnerPanics(j)
  <2>1. /\ Goes(j, [r EXCEPT !.pc = "gone"]) /\ Ends(j, "failed", "internal")
        /\ lease' = [lease EXCEPT ![j] = NoLease]
    BY <1>5 DEF RunnerPanics
  <2>2. "failed" \in Ended
    BY DEF Ended
  <2> HIDE DEF r
  <2> QED
    BY <1>2, <2>1, <2>2, LetsGo DEF Attempted, Owning
<1> QED
  BY <1>3, <1>4, <1>5

\* A lease changed in what no fence reads.
LEMMA LeaseFields ==
    ASSUME TypeOK, NEW j \in Job
    PROVE  /\ lease' = [lease EXCEPT ![j].rerouting = TRUE] => LeaseKeeps(j)
           /\ lease' = [lease EXCEPT ![j].cancelled = TRUE] => LeaseKeeps(j)
           /\ lease' = [lease EXCEPT ![j].time = "lost"] => LeaseKeeps(j)
<1> DEFINE l == lease[j]
<1>1. l \in LeaseRec
  BY DEF TypeOK
<1>2. /\ [l EXCEPT !.rerouting = TRUE].epoch = l.epoch
      /\ [l EXCEPT !.cancelled = TRUE].epoch = l.epoch
      /\ [l EXCEPT !.time = "lost"].epoch = l.epoch
  BY <1>1 DEF LeaseRec
<1>3. CASE lease' = [lease EXCEPT ![j].rerouting = TRUE]
  BY <1>2, <1>3 DEF LeaseKeeps
<1>4. CASE lease' = [lease EXCEPT ![j].cancelled = TRUE]
  BY <1>2, <1>4 DEF LeaseKeeps
<1>5. CASE lease' = [lease EXCEPT ![j].time = "lost"]
  BY <1>2, <1>5 DEF LeaseKeeps
<1> QED
  BY <1>3, <1>4, <1>5

\* The states a runner writes for its lease.
LEMMA Saves ==
    ASSUME TypeOK, NEW j \in Job, NEW status \in Live,
           NEW holder \in Agent \cup {NoAgent},
           row' = [row EXCEPT ![j] = SaveJobState(@, runner[j].epoch, status,
                                                  holder)]
    PROVE  RowKeeps(j)
<1>1. row[j] \in Row /\ runner[j].epoch \in Nat
  BY DEF TypeOK, RunnerRec
<1>2. SaveJobState(row[j], runner[j].epoch, status, holder).epoch = row[j].epoch
  BY <1>1, RowEpochs
<1> QED
  BY <1>2 DEF RowKeeps

\* A runner that is told of something, and stays in charge.
LEMMA RunningFenced ==
    ASSUME FenceInv, NEW j \in Job,
           \/ SaveLeased(j) \/ RunOrphan(j) \/ OnFeatures(j) \/ OnResult(j)
           \/ Publish(j) \/ Registered(j) \/ OnError(j) \/ OnRelease(j)
           \/ NoticeCancel(j) \/ LetLeaseGo(j) \/ FindExpired(j)
    PROVE  (Fence /\ EpochsGiven)'
<1> DEFINE r == runner[j]
<1>1. TypeOK /\ r \in RunnerRec /\ lease[j] \in LeaseRec
  BY NotInCharge DEF FenceInv
<1>2. /\ "failed" \in Ended /\ "done" \in Ended
      /\ {"leased", "running"} \subseteq Live
  BY DEF Ended, Live
<1>3. {"leased", "running", "registering", "registered", "orphan"}
        \subseteq Owning
  BY DEF Owning
<1>4. /\ ReadOn(j) \in RunnerRec /\ ReadOn(j).epoch = r.epoch
      /\ ReadOn(j).pc = r.pc
  BY <1>1, ReadsOn
<1>5. CASE SaveLeased(j)
  <2>1. /\ row' = [row EXCEPT ![j] = SaveJobState(@, r.epoch, "leased",
                                                  lease[j].agent)]
        /\ Goes(j, [r EXCEPT !.pc = "running"]) /\ r.pc = "leased"
        /\ UNCHANGED lease
    BY <1>5 DEF SaveLeased, At, hub
  <2>2. lease[j].agent \in Agent \cup {NoAgent}
    BY <1>1 DEF LeaseRec
  <2>3. RowKeeps(j) /\ LeaseKeeps(j)
    BY <1>1, <1>2, <2>1, <2>2, Saves, Keeps
  <2>4. /\ [r EXCEPT !.pc = "running"].epoch = r.epoch
        /\ [r EXCEPT !.pc = "running"].pc \in Owning
    BY <1>1 DEF RunnerRec, Owning
  <2> QED
    BY <1>3, <2>1, <2>3, <2>4, InCharge
<1>6. CASE RunOrphan(j)
  <2>1. CASE j \in cancelled
    <3>1. /\ Goes(j, [r EXCEPT !.pc = "gone"]) /\ UNCHANGED row
          /\ lease' = [lease EXCEPT ![j] = NoLease]
      BY <1>6, <2>1 DEF RunOrphan
    <3>2. [r EXCEPT !.pc = "gone"].pc = "gone"
      BY <1>1 DEF RunnerRec
    <3> HIDE DEF r
    <3> QED
      BY <3>1, <3>2, LetsGo DEF Attempted, Owning
  <2>2. CASE j \notin cancelled
    <3>1. PICK class \in row[j].class .. MaxClass :
            Goes(j, [r EXCEPT !.pc = "running", !.class = class])
      BY <1>6, <2>2 DEF RunOrphan
    <3> DEFINE q == [r EXCEPT !.pc = "running", !.class = class]
    <3>2. q.epoch = r.epoch /\ q.pc = "running"
      BY <1>1 DEF RunnerRec
    <3>3. r.pc = "orphan" /\ UNCHANGED <<lease, row>>
      BY <1>6, <2>2 DEF RunOrphan, At
    <3> HIDE DEF q
    <3> QED
      BY <1>1, <1>3, <3>1, <3>2, <3>3, Keeps, InCharge DEF q
  <2> QED
    BY <2>1, <2>2
<1>7. CASE OnFeatures(j)
  <2>1. /\ row' = [row EXCEPT ![j] = SaveJobState(@, r.epoch, "running", NoAgent)]
        /\ r.pc = "running"
    BY <1>7 DEF OnFeatures, Received, At
  <2>2. RowKeeps(j)
    BY <1>1, <1>2, <2>1, Saves
  <2>3. LeaseKeeps(j)
    BY <1>1, <1>7, Keeps, LeaseFields DEF OnFeatures
  <2>4. \/ Goes(j, ReadOn(j))
        \/ \E target \in r.class + 1 .. MaxClass :
             Goes(j, [ReadOn(j) EXCEPT !.to = target])
    BY <1>7 DEF OnFeatures
  <2>5. ASSUME NEW target
        PROVE  /\ [ReadOn(j) EXCEPT !.to = target].epoch = r.epoch
               /\ [ReadOn(j) EXCEPT !.to = target].pc = r.pc
    BY <1>4 DEF RunnerRec
  <2> QED
    BY <1>3, <1>4, <2>1, <2>2, <2>3, <2>4, <2>5, InCharge
<1>8. CASE OnResult(j)
  <2> DEFINE q == ReadOn(j)
  <2>1. r.pc = "running" /\ UNCHANGED lease
    BY <1>8 DEF OnResult, Received, At
  <2>2. UNCHANGED row \/ Ends(j, "failed", "invalid")
    BY <1>8 DEF OnResult
  <2>3. PICK g \in {Requeueing(q, FALSE, FALSE, NoClass), Ending(q, FALSE, "gone"),
                    [q EXCEPT !.pc = "registering"]} : Goes(j, g)
    BY <1>8 DEF OnResult, Registers
  <2> HIDE DEF q
  <2>4. g.epoch = r.epoch /\ g.pc \in Owning
    BY <1>4, <2>3 DEF Ending, Requeueing, RunnerRec, Owning, q
  <2>5. RowKeeps(j) /\ LeaseKeeps(j)
    BY <1>1, <1>2, <2>1, <2>2, Keeps
  <2> QED
    BY <1>3, <2>1, <2>3, <2>4, <2>5, InCharge
<1>9. CASE Publish(j)
  <2>1. r.pc = "registering" /\ UNCHANGED lease
    BY <1>9 DEF Publish, At
  <2>2. UNCHANGED row \/ Ends(j, "failed", "stale")
    BY <1>9 DEF Publish
  <2>3. PICK g \in {Ending(r, FALSE, "gone"), [r EXCEPT !.pc = "registered"]} :
          Goes(j, g)
    BY <1>9 DEF Publish
  <2>4. g.epoch = r.epoch /\ g.pc \in Owning
    BY <1>1, <2>3 DEF Ending, RunnerRec, Owning
  <2>5. RowKeeps(j) /\ LeaseKeeps(j)
    BY <1>1, <1>2, <2>1, <2>2, Keeps
  <2> QED
    BY <1>3, <2>1, <2>3, <2>4, <2>5, InCharge
<1>10. CASE Registered(j) \/ LetLeaseGo(j)
  <2>1. /\ r.pc \in {"registered", "running"} /\ UNCHANGED lease
        /\ UNCHANGED row \/ Ends(j, "done", "done")
        /\ Goes(j, Ending(r, FALSE, "gone"))
    BY <1>10 DEF Registered, LetLeaseGo, At, hub
  <2>2. RowKeeps(j) /\ LeaseKeeps(j)
    BY <1>1, <1>2, <2>1, Keeps
  <2>3. /\ Ending(r, FALSE, "gone").epoch = r.epoch
        /\ Ending(r, FALSE, "gone").pc \in Owning
    BY <1>1 DEF Ending, Requeueing, RunnerRec, Owning
  <2> QED
    BY <1>3, <2>1, <2>2, <2>3, InCharge
<1>11. CASE OnError(j) \/ OnRelease(j)
  <2> DEFINE q == ReadOn(j)
  <2>1. r.pc = "running" /\ UNCHANGED lease
    BY <1>11 DEF OnError, OnRelease, Received, At, hub
  <2>2. UNCHANGED row \/ \E how : Ends(j, "failed", how)
    BY <1>11 DEF OnError, OnRelease
  <2>3. \/ Goes(j, Ending(q, FALSE, "gone"))
        \/ Goes(j, Requeueing(q, FALSE, FALSE, q.to))
        \/ Goes(j, Requeueing(q, FALSE, FALSE, Bigger(q.class)))
    BY <1>11 DEF OnError, OnRelease
  <2> HIDE DEF q
  <2>4. RowKeeps(j) /\ LeaseKeeps(j)
    BY <1>1, <1>2, <2>1, <2>2, Keeps
  <2>5. \A to : /\ Ending(q, FALSE, "gone").epoch = r.epoch
                /\ Ending(q, FALSE, "gone").pc \in Owning
                /\ Requeueing(q, FALSE, FALSE, to).epoch = r.epoch
                /\ Requeueing(q, FALSE, FALSE, to).pc \in Owning
    BY <1>4 DEF Ending, Requeueing, RunnerRec, Owning, q
  <2> QED
    BY <1>3, <2>1, <2>3, <2>4, <2>5, InCharge
<1>12. CASE NoticeCancel(j)
  <2>1. /\ r.pc = "running" /\ UNCHANGED row
        /\ lease' = [lease EXCEPT ![j].cancelled = TRUE]
        /\ Goes(j, [r EXCEPT !.cancelSent = TRUE])
    BY <1>12 DEF NoticeCancel, At
  <2>2. RowKeeps(j) /\ LeaseKeeps(j)
    BY <1>1, <2>1, Keeps, LeaseFields
  <2>3. /\ [r EXCEPT !.cancelSent = TRUE].epoch = r.epoch
        /\ [r EXCEPT !.cancelSent = TRUE].pc = r.pc
    BY <1>1 DEF RunnerRec
  <2> QED
    BY <1>3, <2>1, <2>2, <2>3, InCharge
<1>13. CASE FindExpired(j)
  <2>1. /\ r.pc = "running" /\ UNCHANGED row
        /\ lease' = [lease EXCEPT ![j].time = "lost"]
        /\ \/ Goes(j, Ending(r, TRUE, "gone"))
           \/ \E to : Goes(j, Requeueing(r, TRUE, ~r.adopted, to))
    BY <1>13 DEF FindExpired, At
  <2>2. RowKeeps(j) /\ LeaseKeeps(j)
    BY <1>1, <2>1, Keeps, LeaseFields
  <2>3. \A to : /\ Ending(r, TRUE, "gone").epoch = r.epoch
                /\ Ending(r, TRUE, "gone").pc \in Owning
                /\ Requeueing(r, TRUE, ~r.adopted, to).epoch = r.epoch
                /\ Requeueing(r, TRUE, ~r.adopted, to).pc \in Owning
    BY <1>1 DEF Ending, Requeueing, RunnerRec, Owning
  <2> QED
    BY <1>3, <2>1, <2>2, <2>3, InCharge
<1> QED
  BY <1>5, <1>6, <1>7, <1>8, <1>9, <1>10, <1>11, <1>12, <1>13

-----------------------------------------------------------------------------
\* The user, the process, and the theorem.

LEMMA UserCancelFenced ==
    ASSUME FenceInv, NEW j \in Job, UserCancel(j)
    PROVE  (Fence /\ EpochsGiven)'
<1> DEFINE q == IF At(j, "queued") THEN [runner[j] EXCEPT !.pc = "gone"]
                ELSE runner[j]
<1>1. TypeOK /\ row[j] \in Row /\ runner[j] \in RunnerRec
  BY NotInCharge DEF FenceInv
<1>2. runner' = [runner EXCEPT ![j] = q]
  BY <1>1, Same DEF UserCancel
<1>3. row' = [row EXCEPT ![j] = FinishJob(row[j], "failed")] /\ UNCHANGED lease
  BY DEF UserCancel, Ends, hub
<1>4. q = runner[j] \/ /\ q.epoch = runner[j].epoch /\ q.pc = "gone"
                       /\ runner[j].pc = "queued"
  BY <1>1 DEF At, RunnerRec
<1> HIDE DEF q
<1> DEFINE v == FinishJob(row[j], "failed")
<1>5. v = row[j] \/ (v.epoch = row[j].epoch /\ v.status \in Ended)
  BY <1>1, RowEpochs DEF Ended
<1> HIDE DEF v
<1>6. FencedAt(lease[j], q, v)
  BY <1>4, <1>5, NotInCharge, StaysFenced DEF Ended, Attempted, Owning
<1> QED
  BY <1>1, <1>2, <1>3, <1>6, Same, OneJob DEF v

\* A restarted process adopts exactly the rows that have an epoch.
LEMMA RestartFenced ==
    ASSUME FenceInv, Restart
    PROVE  (Fence /\ EpochsGiven)'
<1> DEFINE leased == {j \in Job : row[j].status \in {"leased", "running"}}
<1>1. ASSUME NEW k \in Job
      PROVE  FencedAt(lease'[k], runner'[k], row'[k])
  <2>1. UNCHANGED row /\ FencedAt(lease[k], runner[k], row[k])
    BY NotInCharge DEF Restart
  <2>2. /\ runner'[k] = IF k \in leased
                        THEN [Fresh EXCEPT !.pc = "orphan", !.adopted = TRUE,
                                           !.epoch = row[k].epoch]
                        ELSE IF IsLive(row[k]) THEN Fresh
                        ELSE [Fresh EXCEPT !.pc = "gone"]
        /\ lease'[k] = IF k \in leased
                       THEN NewLease(NoConn, row[k].holder, row[k].epoch)
                       ELSE NoLease
    BY DEF Restart
  <2>3. CASE k \in leased
    <3>1. runner'[k].pc = "orphan" /\ runner'[k].epoch = row[k].epoch
      BY <2>2, <2>3 DEF Fresh
    <3>2. lease'[k].epoch = row[k].epoch
      BY <2>2, <2>3 DEF NewLease
    <3>3. row[k].epoch > 0
      BY <2>1, <2>3 DEF FencedAt
    <3> QED
      BY <2>1, <3>1, <3>2, <3>3, NoLeaseIs DEF FencedAt, Owning
  <2>4. CASE k \notin leased
    <3>1. runner'[k].pc \in {"queued", "gone"} /\ lease'[k] = NoLease
      BY <2>2, <2>4 DEF Fresh
    <3> QED
      BY <2>1, <3>1 DEF FencedAt, Attempted, Owning
  <2> QED
    BY <2>3, <2>4
<1> QED
  BY <1>1, FenceByJob

LEMMA NextFenced ==
    ASSUME FenceInv, [Next]_vars
    PROVE  (Fence /\ EpochsGiven)'
<1>1. CASE UNCHANGED vars
  BY <1>1, Untouched DEF vars, jobs, hub
<1>2. ASSUME NEW j \in Job, RunnerStep(j)
      PROVE  (Fence /\ EpochsGiven)'
  BY <1>2, ClaimFenced, RunningFenced, LeavingFenced DEF RunnerStep
<1>3. CASE Stop
  BY <1>3, Untouched DEF Stop, jobs, hub
<1> QED
  BY <1>1, <1>2, <1>3, AgentStepFenced, ChannelStepFenced, ExpireFenced,
     UserCancelFenced, RestartFenced DEF Next

LEMMA FenceBegins == Init => FenceInv
<1> SUFFICES ASSUME Init PROVE FenceInv
  OBVIOUS
<1>1. ASSUME NEW j \in Job
      PROVE  /\ lease[j] = NoLease /\ runner[j].pc = "queued"
             /\ row[j].status = "queued"
  BY DEF Init, Fresh, NewRow
<1> QED
  BY <1>1, InitTyped DEF FenceInv, Fence, EpochsGiven, Held, Attempted, Owning

\* FenceInv holds in every state.
THEOREM FenceInvariant == Spec => []FenceInv
<1>1. FenceInv /\ [Next]_vars => FenceInv'
  BY NextTyped, NextFenced DEF FenceInv
<1> QED
  BY <1>1, FenceBegins, PTL DEF Spec

\* The hub holds a lease exactly while the job's runner is in charge of it,
\* and lease, runner and durable row agree on the epoch, whatever is lost,
\* resumed, cancelled, expired or restarted on the way.
THEOREM Fenced == Spec => []Fence
<1>1. FenceInv => Fence
  BY DEF FenceInv
<1> QED
  BY <1>1, FenceInvariant, PTL

-----------------------------------------------------------------------------
\* What a runner knows of its row.


Holding == {"leased", "running"}

\* A runner on its way to a lease works for a row that nobody holds, one that
\* has its lease for a row that is no longer queued, and one that has
\* published for a job with a map.  (A row may have ended meanwhile.)
StandsAt(r, w, p) ==
    /\ r.pc \in {"queued", "claiming", "leased"} => w.status \notin Holding
    /\ r.pc \in {"orphan", "running", "registering", "registered"}
         => w.status # "queued"
    /\ r.pc = "registered" => p > 0

LifeInv == /\ FenceInv
           /\ \A j \in Job : StandsAt(runner[j], row[j], published[j])

\* Row w and p maps become row v and q maps in one step of a job's life.
Moved(w, v, from, to) == w.status \in from /\ v.status = to

Lives(w, v, p, q) ==
    \/ v.status = w.status /\ v.epoch = w.epoch /\ q = p
    \/ Moved(w, v, {"queued"}, "queued") /\ v.epoch = w.epoch + 1 /\ q = p
    \/ /\ v.epoch = w.epoch /\ q = p
       /\ \/ w.epoch > 0 /\ Moved(w, v, {"queued"}, "leased")
          \/ Moved(w, v, {"leased"}, "running")
          \/ Moved(w, v, Holding, "queued")
          \/ p > 0 /\ Moved(w, v, Holding, "done")
          \/ Moved(w, v, Live, "failed")
    \/ /\ v.status = w.status /\ v.epoch = w.epoch
       /\ w.status \in Holding /\ q > 0

LifeStep(w, v, p, q) ==
    /\ Lives(w, v, p, q)
    /\ ~IsLive(w) => v = w /\ q = p

\* The state of Lifecycle, and one job's part of it.
Follows == [Lifecycle!Next]_(Lifecycle!vars)

LEMMA Following ==
    ASSUME TypeOK, NEW j \in Job, NEW v, NEW q,
           row' = [row EXCEPT ![j] = v],
           published' = [published EXCEPT ![j] = q],
           q \in Nat, Lives(row[j], v, published[j], q)
    PROVE  Follows
<1> DEFINE state == [k \in Job |-> row[k].status]
           attempt == [k \in Job |-> row[k].epoch]
           map == [k \in Job |-> published[k] > 0]
<1>1. /\ state' = [state EXCEPT ![j] = v.status]
      /\ attempt' = [attempt EXCEPT ![j] = v.epoch]
      /\ map' = [map EXCEPT ![j] = q > 0]
  <2>1. ASSUME NEW k \in Job
        PROVE  /\ row'[k] = IF k = j THEN v ELSE row[k]
               /\ published'[k] = IF k = j THEN q ELSE published[k]
    BY DEF TypeOK
  <2>2. /\ state' = [k \in Job |-> row'[k].status]
        /\ attempt' = [k \in Job |-> row'[k].epoch]
        /\ map' = [k \in Job |-> published'[k] > 0]
    OBVIOUS
  <2>3. [k \in Job |-> row'[k].status] = [state EXCEPT ![j] = v.status]
    <3>1. \A k \in Job : row'[k].status = IF k = j THEN v.status ELSE row[k].status
      BY <2>1
    <3> QED
      BY <3>1
  <2>4. [k \in Job |-> row'[k].epoch] = [attempt EXCEPT ![j] = v.epoch]
    <3>1. \A k \in Job : row'[k].epoch = IF k = j THEN v.epoch ELSE row[k].epoch
      BY <2>1
    <3> QED
      BY <3>1
  <2>5. [k \in Job |-> published'[k] > 0] = [map EXCEPT ![j] = q > 0]
    <3>1. \A k \in Job : (published'[k] > 0) = IF k = j THEN (q > 0) ELSE (published[k] > 0)
      BY <2>1
    <3> QED
      BY <3>1
  <2> QED
    BY <2>2, <2>3, <2>4, <2>5
<1>2. /\ state[j] = row[j].status /\ attempt[j] = row[j].epoch
      /\ map[j] = (published[j] > 0)
  OBVIOUS
<1>3. /\ v.status = row[j].status => UNCHANGED state
      /\ v.epoch = row[j].epoch => UNCHANGED attempt
      /\ q = published[j] => UNCHANGED map
  BY <1>1
<1> HIDE DEF state, attempt, map
<1>4. CASE v.status = row[j].status /\ v.epoch = row[j].epoch /\ q = published[j]
  BY <1>3, <1>4 DEF Follows, Lifecycle!vars, state, attempt, map
<1>5. CASE /\ Moved(row[j], v, {"queued"}, "queued")
           /\ v.epoch = row[j].epoch + 1 /\ q = published[j]
  <2>1. Lifecycle!Try(j)
    BY <1>1, <1>2, <1>3, <1>5 DEF Lifecycle!Try, Moved, state, attempt, map
  <2> QED
    BY <2>1 DEF Follows, Lifecycle!Next, Lifecycle!JobStep
<1>6. CASE /\ v.epoch = row[j].epoch /\ q = published[j]
           /\ \/ row[j].epoch > 0 /\ Moved(row[j], v, {"queued"}, "leased")
              \/ Moved(row[j], v, {"leased"}, "running")
              \/ Moved(row[j], v, Holding, "queued")
              \/ published[j] > 0 /\ Moved(row[j], v, Holding, "done")
              \/ Moved(row[j], v, Live, "failed")
  <2>1. \/ Lifecycle!Lease(j) \/ Lifecycle!Run(j) \/ Lifecycle!GiveUp(j)
        \/ Lifecycle!Finish(j) \/ Lifecycle!Fail(j)
    BY <1>1, <1>2, <1>3, <1>6
       DEF Lifecycle!Lease, Lifecycle!Run, Lifecycle!GiveUp, Lifecycle!Finish,
           Lifecycle!Fail, Lifecycle!Moves, Lifecycle!Held, Lifecycle!Live,
           Moved, Holding, Live, state, attempt, map
  <2> QED
    BY <2>1 DEF Follows, Lifecycle!Next, Lifecycle!JobStep
<1>7. CASE /\ v.status = row[j].status /\ v.epoch = row[j].epoch
           /\ row[j].status \in Holding /\ q > 0
  <2>1. Lifecycle!Publish(j)
    BY <1>1, <1>2, <1>3, <1>7
       DEF Lifecycle!Publish, Lifecycle!Held, Holding, state, attempt, map
  <2> QED
    BY <2>1 DEF Follows, Lifecycle!Next, Lifecycle!JobStep
<1> QED
  BY <1>4, <1>5, <1>6, <1>7 DEF Lives

-----------------------------------------------------------------------------
\* What every step comes to.
Stood == \A j \in Job : StandsAt(runner[j], row[j], published[j])
Stays == \A j \in Job : ~IsLive(row[j])
                        => row'[j] = row[j] /\ published'[j] = published[j]
Lived == Stood' /\ Follows /\ Stays

LEMMA OneLives ==
    ASSUME LifeInv, NEW j \in Job, NEW r, NEW v, NEW q \in Nat,
           runner' = [runner EXCEPT ![j] = r],
           row' = [row EXCEPT ![j] = v],
           published' = [published EXCEPT ![j] = q],
           LifeStep(row[j], v, published[j], q), StandsAt(r, v, q)
    PROVE  Lived
<1>1. TypeOK
  BY DEF LifeInv, FenceInv
<1>2. ASSUME NEW k \in Job
      PROVE  /\ runner'[k] = IF k = j THEN r ELSE runner[k]
             /\ row'[k] = IF k = j THEN v ELSE row[k]
             /\ published'[k] = IF k = j THEN q ELSE published[k]
  BY <1>1 DEF TypeOK
<1>3. Stood'
  BY <1>2 DEF Stood, LifeInv
<1>4. Stays
  BY <1>2 DEF Stays, LifeStep
<1> QED
  BY <1>1, <1>3, <1>4, Following DEF Lived, LifeStep

\* Nothing it speaks of changes.
LEMMA NoneLives ==
    ASSUME LifeInv, UNCHANGED <<runner, row, published>>
    PROVE  Lived
<1>1. Stood' /\ Stays
  BY DEF Stood, Stays, LifeInv
<1>2. Follows
  BY DEF Follows, Lifecycle!vars
<1> QED
  BY <1>1, <1>2 DEF Lived

\* What is known of one job.
LEMMA OfOne ==
    ASSUME LifeInv, NEW j \in Job
    PROVE  /\ StandsAt(runner[j], row[j], published[j])
           /\ runner[j] \in RunnerRec /\ row[j] \in Row /\ published[j] \in Nat
           /\ runner[j].pc \in Attempted
                => runner[j].epoch = row[j].epoch /\ row[j].epoch > 0
           /\ UNCHANGED row => row' = [row EXCEPT ![j] = row[j]]
           /\ UNCHANGED published
                => published' = [published EXCEPT ![j] = published[j]]
           /\ UNCHANGED runner => runner' = [runner EXCEPT ![j] = runner[j]]
<1>1. TypeOK
  BY DEF LifeInv, FenceInv
<1> QED
  BY <1>1 DEF LifeInv, FenceInv, TypeOK, EpochsGiven

\* Only the runner moves.
LEMMA RunnerMoves ==
    ASSUME LifeInv, NEW j \in Job, NEW r, Goes(j, r),
           UNCHANGED <<row, published>>,
           StandsAt(r, row[j], published[j])
    PROVE  Lived
<1>1. /\ row' = [row EXCEPT ![j] = row[j]]
      /\ published' = [published EXCEPT ![j] = published[j]]
      /\ published[j] \in Nat
  BY OfOne
<1>2. LifeStep(row[j], row[j], published[j], published[j])
  BY DEF LifeStep, Lives
<1> QED
  BY <1>1, <1>2, OneLives DEF Goes

\* The states of a runner that expects nothing of its row.
Idling == {"ending", "requeue", "gone"}

LEMMA RunnerRests ==
    ASSUME LifeInv, NEW j \in Job, NEW r, Goes(j, r), r.pc \in Idling,
           UNCHANGED <<row, published>>
    PROVE  Lived
BY RunnerMoves DEF StandsAt, Idling

\* The job fails, and its runner rests or, if a user cancels it, goes on.
LEMMA JobFails ==
    ASSUME LifeInv, NEW j \in Job, NEW r, NEW how,
           runner' = [runner EXCEPT ![j] = r],
           Ends(j, "failed", how), UNCHANGED published,
           r = runner[j] \/ r.pc \in Idling
    PROVE  Lived
<1> DEFINE v == FinishJob(row[j], "failed")
<1>1. /\ row' = [row EXCEPT ![j] = v]
      /\ published' = [published EXCEPT ![j] = published[j]]
  BY OfOne DEF Ends
<1>2. /\ v = IF IsLive(row[j]) THEN v ELSE row[j]
      /\ IsLive(row[j]) => v.status = "failed" /\ v.epoch = row[j].epoch
  BY OfOne DEF FinishJob, Row
<1> HIDE DEF v
<1>3. LifeStep(row[j], v, published[j], published[j])
  BY <1>2 DEF LifeStep, Lives, Moved, IsLive
<1>4. StandsAt(r, v, published[j])
  BY <1>2, OfOne DEF StandsAt, Idling, Holding
<1> QED
  BY <1>1, <1>3, <1>4, OfOne, OneLives

-----------------------------------------------------------------------------
\* The steps of a runner.

\* What Goes leaves of a runner's state.
LEMMA RunnerParts ==
    ASSUME LifeInv, NEW j \in Job
    PROVE  LET r == runner[j] IN
           /\ \A pc : [r EXCEPT !.pc = pc].pc = pc
           /\ ReadOn(j).pc = r.pc
           /\ \A close, after : Ending(r, close, after).pc = "ending"
           /\ \A close, after : Ending(ReadOn(j), close, after).pc = "ending"
           /\ \A close, counted, to :
                /\ Requeueing(r, close, counted, to).pc = "ending"
                /\ Requeueing(ReadOn(j), close, counted, to).pc = "ending"
BY OfOne DEF RunnerRec, ReadOn, Ending, Requeueing

\* An attempt begins: only a row that is not held is taken by a slot.
LEMMA StartLives ==
    ASSUME LifeInv, NEW j \in Job, Start(j)
    PROVE  Lived
<1> DEFINE v == BeginAttempt(row[j])
<1>1. /\ row' = [row EXCEPT ![j] = v]
      /\ published' = [published EXCEPT ![j] = published[j]]
      /\ runner[j].pc = "queued" /\ IsLive(row[j])
  BY OfOne DEF Start, At
<1>2. PICK r : Goes(j, r) /\ r.pc = "claiming"
  <2>1. PICK class : Goes(j, [Fresh EXCEPT !.pc = "claiming", !.class = class,
                                           !.epoch = v.epoch])
    BY DEF Start
  <2>2. [Fresh EXCEPT !.pc = "claiming", !.class = class,
                      !.epoch = v.epoch].pc = "claiming"
    BY DEF Fresh
  <2> QED
    BY <2>1, <2>2
<1>3. row[j].status = "queued"
  BY <1>1, OfOne DEF StandsAt, IsLive, Live, Holding
<1>4. v.status = "queued" /\ v.epoch = row[j].epoch + 1
  BY <1>3, OfOne DEF BeginAttempt, Row
<1> HIDE DEF v
<1>5. LifeStep(row[j], v, published[j], published[j])
  BY <1>1, <1>3, <1>4 DEF LifeStep, Lives, Moved
<1>6. StandsAt(r, v, published[j])
  BY <1>2, <1>4 DEF StandsAt, Holding
<1> QED
  BY <1>1, <1>2, <1>5, <1>6, OfOne, OneLives DEF Goes

\* It waits for an agent, and gets one or gives up.
LEMMA ClaimLives ==
    ASSUME LifeInv, NEW j \in Job, Claim(j) \/ GiveUp(j)
    PROVE  Lived
<1>1. CASE Claim(j)
  <2>1. /\ runner[j].pc = "claiming" /\ UNCHANGED <<row, published>>
        /\ Goes(j, [runner[j] EXCEPT !.pc = "leased"])
    BY <1>1 DEF Claim, At
  <2>2. [runner[j] EXCEPT !.pc = "leased"].pc = "leased"
    BY RunnerParts
  <2> QED
    BY <2>1, <2>2, OfOne, RunnerMoves DEF StandsAt
<1>2. CASE GiveUp(j)
  <2>1. /\ UNCHANGED <<row, published>>
        /\ Goes(j, [runner[j] EXCEPT !.pc = "gone"])
    BY <1>2 DEF GiveUp
  <2>2. [runner[j] EXCEPT !.pc = "gone"].pc = "gone"
    BY RunnerParts
  <2> QED
    BY <2>1, <2>2, RunnerRests DEF Idling
<1> QED
  BY <1>1, <1>2

\* A save by the attempt whose row it is: a row that has not ended gets the
\* state, and no other.
LEMMA SaveGives ==
    ASSUME LifeInv, NEW j \in Job, NEW status \in Live,
           NEW holder \in Agent \cup {NoAgent}, runner[j].pc \in Attempted
    PROVE  LET v == SaveJobState(row[j], runner[j].epoch, status, holder) IN
           /\ IsLive(row[j]) => v.status = status /\ v.epoch = row[j].epoch
           /\ ~IsLive(row[j]) => v = row[j]
BY OfOne DEF SaveJobState, Row

\* The lease is recorded.
LEMMA SaveLeasedLives ==
    ASSUME LifeInv, NEW j \in Job, SaveLeased(j)
    PROVE  Lived
<1> DEFINE v == SaveJobState(row[j], runner[j].epoch, "leased", lease[j].agent)
           r == [runner[j] EXCEPT !.pc = "running"]
<1>1. /\ row' = [row EXCEPT ![j] = v]
      /\ published' = [published EXCEPT ![j] = published[j]]
      /\ runner' = [runner EXCEPT ![j] = r]
      /\ runner[j].pc = "leased"
  BY OfOne DEF SaveLeased, At, Goes
<1>2. lease[j].agent \in Agent \cup {NoAgent}
  BY DEF LifeInv, FenceInv, TypeOK, LeaseRec
<1>3. "leased" \in Live /\ runner[j].pc \in Attempted
  BY <1>1 DEF Live, Attempted, Owning
<1>4. /\ IsLive(row[j]) => v.status = "leased" /\ v.epoch = row[j].epoch
      /\ ~IsLive(row[j]) => v = row[j]
  BY <1>2, <1>3, SaveGives
<1>5. IsLive(row[j]) => row[j].status = "queued"
  BY <1>1, OfOne DEF StandsAt, IsLive, Live, Holding
<1>6. row[j].epoch > 0
  BY <1>3, OfOne
<1>7. r.pc = "running"
  BY RunnerParts
<1> HIDE DEF v, r
<1>8. LifeStep(row[j], v, published[j], published[j])
  BY <1>4, <1>5, <1>6 DEF LifeStep, Lives, Moved
<1>9. StandsAt(r, v, published[j])
  BY <1>4, <1>7 DEF StandsAt, IsLive, Live
<1> QED
  BY <1>1, <1>8, <1>9, OfOne, OneLives

\* The job is reported running.
LEMMA OnFeaturesLives ==
    ASSUME LifeInv, NEW j \in Job, OnFeatures(j)
    PROVE  Lived
<1> DEFINE v == SaveJobState(row[j], runner[j].epoch, "running", NoAgent)
<1>1. /\ row' = [row EXCEPT ![j] = v]
      /\ published' = [published EXCEPT ![j] = published[j]]
      /\ runner[j].pc = "running"
  BY OfOne DEF OnFeatures, Received, At
<1>2. PICK r : runner' = [runner EXCEPT ![j] = r] /\ r.pc = "running"
  <2>1. ReadOn(j) \in RunnerRec /\ ReadOn(j).pc = "running"
    BY <1>1, ReadsOn DEF LifeInv, FenceInv
  <2>2. \A to : [ReadOn(j) EXCEPT !.to = to].pc = "running"
    BY <2>1 DEF RunnerRec
  <2> QED
    BY <2>1, <2>2 DEF OnFeatures, Goes
<1>3. "running" \in Live /\ runner[j].pc \in Attempted
  BY <1>1 DEF Live, Attempted, Owning
<1>4. /\ IsLive(row[j]) => v.status = "running" /\ v.epoch = row[j].epoch
      /\ ~IsLive(row[j]) => v = row[j]
  BY <1>3, SaveGives
<1>5. row[j].status # "queued"
  BY <1>1, OfOne DEF StandsAt
<1> HIDE DEF v
<1>6. LifeStep(row[j], v, published[j], published[j])
  BY <1>4, <1>5 DEF LifeStep, Lives, Moved, IsLive, Live
<1>7. StandsAt(r, v, published[j])
  BY <1>2, <1>4, <1>5 DEF StandsAt
<1> QED
  BY <1>1, <1>2, <1>6, <1>7, OfOne, OneLives

\* A runner that lets its lease go expects nothing more of its row.
LEMMA GoesIdle ==
    ASSUME LifeInv, NEW j \in Job
    PROVE  /\ \A close : Ending(runner[j], close, "gone").pc \in Idling
           /\ \A close : Ending(ReadOn(j), close, "gone").pc \in Idling
           /\ \A close, counted, to :
                /\ Requeueing(runner[j], close, counted, to).pc \in Idling
                /\ Requeueing(ReadOn(j), close, counted, to).pc \in Idling
           /\ [runner[j] EXCEPT !.pc = "gone"].pc \in Idling
<1>1. "ending" \in Idling /\ "gone" \in Idling
  BY DEF Idling
<1> QED
  BY <1>1, RunnerParts

LEMMA LetsRest ==
    ASSUME LifeInv, NEW j \in Job, UNCHANGED published,
           UNCHANGED row \/ \E how : Ends(j, "failed", how),
           \E r : Goes(j, r) /\ r.pc \in Idling
    PROVE  Lived
<1>1. PICK r : Goes(j, r) /\ r.pc \in Idling
  OBVIOUS
<1>2. CASE UNCHANGED row
  BY <1>1, <1>2, RunnerRests
<1>3. ASSUME NEW how, Ends(j, "failed", how)
      PROVE  Lived
  BY <1>1, <1>3, JobFails DEF Goes
<1> QED
  BY <1>2, <1>3

\* The result: on its way to be published, or refused.
LEMMA OnResultLives ==
    ASSUME LifeInv, NEW j \in Job, OnResult(j)
    PROVE  Lived
<1> DEFINE r == ReadOn(j)
<1>1. UNCHANGED published /\ runner[j].pc = "running"
  BY DEF OnResult, Received, At
<1>2. CASE UNCHANGED row /\ Goes(j, [r EXCEPT !.pc = "registering"])
  <2>1. [r EXCEPT !.pc = "registering"].pc = "registering"
    BY ReadsOn DEF LifeInv, FenceInv, RunnerRec
  <2> HIDE DEF r
  <2>2. PICK q : Goes(j, q) /\ q.pc = "registering"
    BY <1>2, <2>1
  <2>3. StandsAt(q, row[j], published[j])
    BY <1>1, <2>2, OfOne DEF StandsAt
  <2> QED
    BY <1>1, <1>2, <2>2, <2>3, RunnerMoves
<1>3. CASE \/ Goes(j, Ending(r, FALSE, "gone"))
           \/ Goes(j, Requeueing(r, FALSE, FALSE, NoClass))
  <2>1. UNCHANGED row \/ \E how : Ends(j, "failed", how)
    BY DEF OnResult
  <2>2. \E q : Goes(j, q) /\ q.pc \in Idling
    BY <1>3, GoesIdle
  <2> QED
    BY <1>1, <2>1, <2>2, LetsRest
<1> QED
  BY <1>2, <1>3 DEF OnResult, Registers

\* The map appears only for a row that is held.
LEMMA PublishLives ==
    ASSUME LifeInv, NEW j \in Job, Publish(j)
    PROVE  Lived
<1>1. CASE MayPublish(row[j], runner[j].epoch)
  <2> DEFINE r == [runner[j] EXCEPT !.pc = "registered"]
             q == published[j] + 1
  <2>1. /\ row' = [row EXCEPT ![j] = row[j]]
        /\ published' = [published EXCEPT ![j] = q]
        /\ runner' = [runner EXCEPT ![j] = r]
    BY <1>1, OfOne DEF Publish, Goes
  <2>2. r.pc = "registered" /\ q \in Nat /\ q > 0
    BY OfOne, RunnerParts
  <2>3. row[j].status \in Holding
    BY <1>1 DEF MayPublish, Holding
  <2> HIDE DEF r, q
  <2>4. LifeStep(row[j], row[j], published[j], q)
    BY <2>2, <2>3 DEF LifeStep, Lives, IsLive, Live, Holding
  <2>5. StandsAt(r, row[j], q)
    BY <2>2, <2>3 DEF StandsAt, Holding
  <2> QED
    BY <2>1, <2>2, <2>4, <2>5, OneLives
<1>2. CASE ~MayPublish(row[j], runner[j].epoch)
  <2>1. /\ Ends(j, "failed", "stale") /\ UNCHANGED published
        /\ Goes(j, Ending(runner[j], FALSE, "gone"))
    BY <1>2 DEF Publish
  <2>2. \E r : Goes(j, r) /\ r.pc \in Idling
    BY <2>1, GoesIdle
  <2> QED
    BY <2>1, <2>2, LetsRest
<1> QED
  BY <1>1, <1>2

\* The job is done: its runner has published.
LEMMA RegisteredLives ==
    ASSUME LifeInv, NEW j \in Job, Registered(j)
    PROVE  Lived
<1> DEFINE v == FinishJob(row[j], "done")
           r == Ending(runner[j], FALSE, "gone")
<1>1. /\ row' = [row EXCEPT ![j] = v]
      /\ published' = [published EXCEPT ![j] = published[j]]
      /\ runner' = [runner EXCEPT ![j] = r]
      /\ runner[j].pc = "registered"
  BY OfOne DEF Registered, Ends, At, Goes
<1>2. published[j] > 0 /\ row[j].status # "queued"
  BY <1>1, OfOne DEF StandsAt
<1>3. /\ v = IF IsLive(row[j]) THEN v ELSE row[j]
      /\ IsLive(row[j]) => v.status = "done" /\ v.epoch = row[j].epoch
  BY OfOne DEF FinishJob, Row
<1>4. r.pc \in Idling
  BY GoesIdle
<1> HIDE DEF v, r
<1>5. LifeStep(row[j], v, published[j], published[j])
  BY <1>2, <1>3 DEF LifeStep, Lives, Moved, IsLive, Live, Holding
<1>6. StandsAt(r, v, published[j])
  BY <1>4 DEF StandsAt, Idling
<1> QED
  BY <1>1, <1>5, <1>6, OfOne, OneLives

\* The steps that let a job go, and may fail it.
LEMMA LettingGoLives ==
    ASSUME LifeInv, NEW j \in Job,
           OnError(j) \/ OnRelease(j) \/ LetLeaseGo(j) \/ FindExpired(j)
    PROVE  Lived
<1>1. UNCHANGED published
  BY DEF OnError, OnRelease, LetLeaseGo, FindExpired
<1>2. UNCHANGED row \/ \E how : Ends(j, "failed", how)
  BY DEF OnError, OnRelease, LetLeaseGo, FindExpired
<1>3. \E q : Goes(j, q) /\ q.pc \in Idling
  <2>1. CASE OnError(j)
    BY <2>1, GoesIdle DEF OnError
  <2>2. CASE OnRelease(j)
    <3>1. \/ Goes(j, Ending(ReadOn(j), FALSE, "gone"))
          \/ \E to : Goes(j, Requeueing(ReadOn(j), FALSE, FALSE, to))
      BY <2>2 DEF OnRelease
    <3> QED
      BY <3>1, GoesIdle
  <2>3. CASE LetLeaseGo(j)
    BY <2>3, GoesIdle DEF LetLeaseGo
  <2>4. CASE FindExpired(j)
    <3>1. \/ Goes(j, Ending(runner[j], TRUE, "gone"))
          \/ \E to : Goes(j, Requeueing(runner[j], TRUE, ~runner[j].adopted, to))
      BY <2>4 DEF FindExpired
    <3> QED
      BY <3>1, GoesIdle
  <2> QED
    BY <2>1, <2>2, <2>3, <2>4
<1> QED
  BY <1>1, <1>2, <1>3, LetsRest

\* The cancel it passes on, and the lease it takes over from another process.
LEMMA NoticeCancelLives ==
    ASSUME LifeInv, NEW j \in Job, NoticeCancel(j)
    PROVE  Lived
<1> DEFINE r == [runner[j] EXCEPT !.cancelSent = TRUE]
<1>1. /\ runner[j].pc = "running" /\ UNCHANGED <<row, published>>
      /\ Goes(j, r)
  BY DEF NoticeCancel, At
<1>2. r.pc = "running"
  BY <1>1, OfOne DEF RunnerRec
<1> HIDE DEF r
<1>3. StandsAt(r, row[j], published[j])
  BY <1>1, <1>2, OfOne DEF StandsAt
<1> QED
  BY <1>1, <1>3, RunnerMoves

LEMMA RunOrphanLives ==
    ASSUME LifeInv, NEW j \in Job, RunOrphan(j)
    PROVE  Lived
<1>1. runner[j].pc = "orphan" /\ UNCHANGED <<row, published>>
  BY DEF RunOrphan, At
<1>2. CASE j \in cancelled
  <2>1. Goes(j, [runner[j] EXCEPT !.pc = "gone"])
    BY <1>2 DEF RunOrphan
  <2>2. \E q : Goes(j, q) /\ q.pc \in Idling
    BY <2>1, GoesIdle
  <2> QED
    BY <1>1, <2>2, LetsRest
<1>3. CASE j \notin cancelled
  <2>1. PICK class : Goes(j, [runner[j] EXCEPT !.pc = "running", !.class = class])
    BY <1>3 DEF RunOrphan
  <2>2. PICK q : Goes(j, q) /\ q.pc = "running"
    <3>1. [runner[j] EXCEPT !.pc = "running", !.class = class].pc = "running"
      BY OfOne DEF RunnerRec
    <3> QED
      BY <2>1, <3>1
  <2>3. StandsAt(q, row[j], published[j])
    BY <1>1, <2>2, OfOne DEF StandsAt
  <2> QED
    BY <1>1, <2>2, <2>3, RunnerMoves
<1> QED
  BY <1>2, <1>3

\* The lease ends.
LEMMA EndLeaseLives ==
    ASSUME LifeInv, NEW j \in Job, EndLease(j)
    PROVE  Lived
<1>1. UNCHANGED <<row, published>>
  BY DEF EndLease
<1>2. [runner[j] EXCEPT !.pc = runner[j].after].pc \in Idling
  BY OfOne DEF RunnerRec, Idling
<1>3. \E q : Goes(j, q) /\ q.pc \in Idling
  BY <1>2 DEF EndLease
<1> QED
  BY <1>1, <1>3, LetsRest

\* The job goes back to its queue or to another class's, or ends: only the
\* row of this attempt, and only while it has not ended.
LEMMA StoreRequeueLives ==
    ASSUME LifeInv, NEW j \in Job, StoreRequeue(j)
    PROVE  Lived
<1> DEFINE back == [Fresh EXCEPT !.pc = IF stopping THEN "gone" ELSE "queued"]
<1>1. UNCHANGED published
  BY DEF StoreRequeue
<1>2. CASE /\ UNCHANGED row \/ Ends(j, "failed", "lost")
           /\ Goes(j, [runner[j] EXCEPT !.pc = "gone"])
  <2>1. \E q : Goes(j, q) /\ q.pc \in Idling
    BY <1>2, GoesIdle
  <2> QED
    BY <1>1, <1>2, <2>1, LetsRest
<1>3. ASSUME NEW v, row' = [row EXCEPT ![j] = v], Goes(j, back),
             MayRequeue(row[j], runner[j].epoch),
             v.status = "queued", v.epoch = row[j].epoch
      PROVE  Lived
  <2>1. back.pc \in {"gone", "queued"}
    BY DEF Fresh
  <2> HIDE DEF back
  <2>2. /\ published' = [published EXCEPT ![j] = published[j]]
        /\ published[j] \in Nat
    BY <1>1, OfOne
  <2>3. LifeStep(row[j], v, published[j], published[j])
    BY <1>3 DEF LifeStep, Lives, Moved, MayRequeue, IsLive, Live, Holding
  <2>4. StandsAt(back, v, published[j])
    BY <1>3, <2>1 DEF StandsAt, Holding
  <2> QED
    BY <1>3, <2>2, <2>3, <2>4, OneLives DEF Goes
<1>4. ASSUME NEW to
      PROVE  /\ Rebind(row[j], to).status = "queued"
             /\ Rebind(row[j], to).epoch = row[j].epoch
             /\ Requeue(row[j], to).status = "queued"
             /\ Requeue(row[j], to).epoch = row[j].epoch
  BY OfOne DEF Rebind, Requeue, Row
<1>5. CASE /\ MayRequeue(row[j], runner[j].epoch) /\ Goes(j, back)
           /\ \/ row' = [row EXCEPT ![j] = Rebind(row[j], runner[j].to)]
              \/ row' = [row EXCEPT ![j] = Requeue(row[j], runner[j].counted)]
  <2> HIDE DEF back
  <2> QED
    BY <1>3, <1>4, <1>5
<1> QED
  BY <1>2, <1>5 DEF StoreRequeue

LEMMA RunnerPanicsLives ==
    ASSUME LifeInv, NEW j \in Job, RunnerPanics(j)
    PROVE  Lived
<1>1. /\ UNCHANGED published /\ Ends(j, "failed", "internal")
      /\ Goes(j, [runner[j] EXCEPT !.pc = "gone"])
  BY DEF RunnerPanics
<1>2. \E q : Goes(j, q) /\ q.pc \in Idling
  BY <1>1, GoesIdle
<1> QED
  BY <1>1, <1>2, LetsRest

-----------------------------------------------------------------------------
\* The user, the process, and the theorems.

LEMMA UserCancelLives ==
    ASSUME LifeInv, NEW j \in Job, UserCancel(j)
    PROVE  Lived
<1> DEFINE r == IF At(j, "queued") THEN [runner[j] EXCEPT !.pc = "gone"]
                ELSE runner[j]
<1>1. Ends(j, "failed", "cancelled") /\ UNCHANGED published
  BY DEF UserCancel
<1>2. runner' = [runner EXCEPT ![j] = r]
  BY OfOne DEF UserCancel
<1>3. r = runner[j] \/ r.pc \in Idling
  BY GoesIdle
<1> HIDE DEF r
<1> QED
  BY <1>1, <1>2, <1>3, JobFails

\* A restarted process keeps the rows, and has each taken up by a runner that
\* fits its state.
Orphan(w) == [Fresh EXCEPT !.pc = "orphan", !.adopted = TRUE,
                          !.epoch = w.epoch]
Unheld(w) == IF IsLive(w) THEN Fresh ELSE [Fresh EXCEPT !.pc = "gone"]

LEMMA RestartParts ==
    ASSUME Restart, NEW k \in Job
    PROVE  /\ row'[k] = row[k] /\ published'[k] = published[k]
           /\ row[k].status \in Holding
              => /\ runner'[k] = Orphan(row[k])
                 /\ lease'[k] = NewLease(NoConn, row[k].holder, row[k].epoch)
           /\ row[k].status \notin Holding
              => runner'[k] = Unheld(row[k]) /\ lease'[k] = NoLease
<1>1. UNCHANGED <<row, published>>
  BY DEF Restart
<1>2. /\ runner'[k] = IF k \in {j \in Job : row[j].status \in {"leased", "running"}}
                      THEN Orphan(row[k]) ELSE Unheld(row[k])
      /\ lease'[k] = IF k \in {j \in Job : row[j].status \in {"leased", "running"}}
                     THEN NewLease(NoConn, row[k].holder, row[k].epoch)
                     ELSE NoLease
  BY DEF Restart, Orphan, Unheld
<1> QED
  BY <1>1, <1>2 DEF Holding

LEMMA RestartLives ==
    ASSUME LifeInv, Restart
    PROVE  Lived
<1>1. UNCHANGED <<row, published>>
  BY DEF Restart
<1>2. ASSUME NEW k \in Job
      PROVE  StandsAt(runner'[k], row'[k], published'[k])
  <2>1. Orphan(row[k]).pc = "orphan" /\ Unheld(row[k]).pc \in {"queued", "gone"}
    BY DEF Fresh, Orphan, Unheld
  <2> QED
    BY <1>1, <2>1, RestartParts DEF StandsAt, Holding
<1>3. Stood' /\ Stays
  BY <1>1, <1>2 DEF Stood, Stays
<1>4. Follows
  BY <1>1 DEF Follows, Lifecycle!vars
<1> QED
  BY <1>3, <1>4 DEF Lived

\* No agent, channel, deadline or stop moves a job.
LEMMA JobsStay ==
    ASSUME \/ \E a \in Agent : AgentStep(a)
           \/ \E c \in Conn : ChannelStep(c)
           \/ \E j \in Job : Expire(j)
           \/ Stop
    PROVE  UNCHANGED jobs
<1>1. ASSUME NEW a \in Agent, AgentStep(a)
      PROVE  UNCHANGED jobs
  BY <1>1 DEF AgentStep, JobProgress, Upload, JobFinished, JobKilled,
     HoldExpires, Heartbeat, OnOrder, Disconnect, AgentCrash, Connect
<1>2. ASSUME NEW c \in Conn, ChannelStep(c)
      PROVE  UNCHANGED jobs
  BY <1>2 DEF ChannelStep, OnReady, OnHeartbeat, OnStaleEvent, OnNextEvent,
     OnReleased, RemoveConn
<1> QED
  BY <1>1, <1>2 DEF Expire, Stop

LEMMA ElsewhereLives ==
    ASSUME LifeInv, UNCHANGED jobs
    PROVE  Lived
BY NoneLives DEF jobs

LEMMA NextLives ==
    ASSUME LifeInv, [Next]_vars
    PROVE  Lived
<1>1. CASE UNCHANGED vars
  BY <1>1, NoneLives DEF vars, jobs
<1>2. ASSUME NEW j \in Job, RunnerStep(j)
      PROVE  Lived
  BY <1>2, StartLives, ClaimLives, SaveLeasedLives, RunOrphanLives,
     OnFeaturesLives, OnResultLives, PublishLives, RegisteredLives,
     LettingGoLives, NoticeCancelLives, EndLeaseLives, StoreRequeueLives,
     RunnerPanicsLives DEF RunnerStep
<1> QED
  BY <1>1, <1>2, UserCancelLives, RestartLives, JobsStay, ElsewhereLives
     DEF Next

\* LifeInv is inductive.
THEOREM LifeInvariant == Spec => []LifeInv
<1>1. Init => LifeInv
  <2> SUFFICES ASSUME Init PROVE LifeInv
    OBVIOUS
  <2>1. Init => FenceInv
    BY FenceBegins
  <2>2. ASSUME NEW j \in Job
        PROVE  StandsAt(runner[j], row[j], published[j])
    BY DEF Init, Fresh, NewRow, StandsAt, Holding
  <2> QED
    BY <2>1, <2>2 DEF LifeInv
<1>2. LifeInv /\ [Next]_vars => LifeInv'
  <2> SUFFICES ASSUME LifeInv, [Next]_vars PROVE LifeInv'
    OBVIOUS
  <2>1. FenceInv'
    BY NextTyped, NextFenced DEF LifeInv, FenceInv
  <2> QED
    BY <2>1, NextLives DEF LifeInv, Lived, Stood
<1> QED
  BY <1>1, <1>2, PTL DEF Spec

\* The jobs table and the published maps, through lost channels, resumes,
\* expiries, cancels and restarts, are those of a job that waits, is held and
\* ends (WORKER_TIER.md 2.2): no attempt begins while another holds the job,
\* only one that holds it publishes, and none is done without a map.
THEOREM FollowsTheLifecycle == Spec => FollowsLifecycle
<1>1. Init => Lifecycle!Init
  <2> SUFFICES ASSUME Init PROVE Lifecycle!Init
    OBVIOUS
  <2>1. \A j \in Job : /\ row[j].status = "queued" /\ row[j].epoch = 0
                       /\ (published[j] > 0) = FALSE
    BY DEF Init, NewRow
  <2> QED
    BY <2>1 DEF Lifecycle!Init
<1>2. LifeInv /\ [Next]_vars => [Lifecycle!Next]_(Lifecycle!vars)
  BY NextLives DEF Lived, Follows
<1> QED
  BY <1>1, <1>2, LifeInvariant, PTL DEF Spec, FollowsLifecycle, Lifecycle!Spec

\* What ended stays ended: no late result, re-queue, expiry or restart
\* changes a terminal row, and none publishes a map for it.
THEOREM EndsStand == Spec => EndStands
<1>1. LifeInv /\ [Next]_vars
      => [\A j \in Job : ~IsLive(row[j])
                        => row'[j] = row[j] /\ published'[j] = published[j]]_vars
  BY NextLives DEF Lived, Stays
<1> QED
  BY <1>1, LifeInvariant, PTL DEF Spec, EndStands

-----------------------------------------------------------------------------
\* Sequences of frames or orders, of which some are of one type.
None(q, type) == \A k \in DOMAIN q : q[k].type # type
AtMostOne(q, type) ==
    \A k, l \in DOMAIN q : q[k].type = type /\ q[l].type = type => k = l

LEMMA NoneIsFew ==
    ASSUME NEW q, NEW type, None(q, type)
    PROVE  AtMostOne(q, type)
BY DEF None, AtMostOne

LEMMA NoneOfNone == \A type : None(<<>>, type)
BY DEF None

LEMMA Appends ==
    ASSUME NEW S, NEW q \in Seq(S), NEW m \in S, NEW type
    PROVE  /\ None(q, type) /\ m.type # type => None(Append(q, m), type)
           /\ None(q, type) => AtMostOne(Append(q, m), type)
           /\ AtMostOne(q, type) /\ m.type # type
                => AtMostOne(Append(q, m), type)
<1>1. /\ DOMAIN Append(q, m) = 1 .. Len(q) + 1 /\ DOMAIN q = 1 .. Len(q)
      /\ Len(q) \in Nat
      /\ \A k \in 1 .. Len(q) + 1 :
           Append(q, m)[k] = IF k = Len(q) + 1 THEN m ELSE q[k]
  OBVIOUS
<1> QED
  BY <1>1 DEF None, AtMostOne

LEMMA Tails ==
    ASSUME NEW S, NEW q \in Seq(S), q # <<>>, NEW type
    PROVE  /\ None(q, type) => None(Tail(q), type)
           /\ AtMostOne(q, type) => AtMostOne(Tail(q), type)
           /\ AtMostOne(q, type) /\ Head(q).type = type => None(Tail(q), type)
           /\ Head(q).type = type => ~None(q, type)
<1>1. /\ DOMAIN Tail(q) = 1 .. Len(q) - 1 /\ DOMAIN q = 1 .. Len(q)
      /\ Len(q) \in Nat /\ Len(q) > 0 /\ Head(q) = q[1]
      /\ \A k \in 1 .. Len(q) - 1 : Tail(q)[k] = q[k + 1]
  OBVIOUS
<1> QED
  BY <1>1 DEF None, AtMostOne

LEMMA Joins ==
    ASSUME NEW S, NEW q \in Seq(S), NEW r \in Seq(S), NEW type
    PROVE  /\ None(q, type) /\ None(r, type) => None(q \o r, type)
           /\ None(q, type) /\ AtMostOne(r, type) => AtMostOne(q \o r, type)
           /\ AtMostOne(q, type) /\ None(r, type) => AtMostOne(q \o r, type)
<1>1. /\ DOMAIN (q \o r) = 1 .. Len(q) + Len(r)
      /\ DOMAIN q = 1 .. Len(q) /\ DOMAIN r = 1 .. Len(r)
      /\ Len(q) \in Nat /\ Len(r) \in Nat
      /\ \A k \in 1 .. Len(q) + Len(r) :
           (q \o r)[k] = IF k <= Len(q) THEN q[k] ELSE r[k - Len(q)]
  OBVIOUS
<1>2. ASSUME NEW k \in DOMAIN (q \o r)
      PROVE  \/ k \in DOMAIN q /\ (q \o r)[k] = q[k]
             \/ k - Len(q) \in DOMAIN r /\ (q \o r)[k] = r[k - Len(q)]
  BY <1>1
<1>3. DOMAIN (q \o r) \subseteq Int
  BY <1>1
<1> QED
  BY <1>1, <1>2, <1>3 DEF None, AtMostOne

LEMMA NoJobs == NoJob \notin Job
BY LeaseAssumption

-----------------------------------------------------------------------------
\* An agent that owes a `ready` has no job, and has not queued one.
Sound(s) == /\ s.ready => ~Holds(s)
            /\ None(s.pending, "ready")

\* It has its token: a job, or a `ready` it owes.
Occupied(s) == Holds(s) \/ s.ready

\* The job held in t, if any, is the one held in s.
SameJob(s, t) ==
    Holds(t) => t.cur.job = s.cur.job /\ t.cur.epoch = s.cur.epoch

\* A turn that takes s to t makes no token.
Turned(s, t) ==
    /\ t.link = s.link /\ Sound(t) /\ (Occupied(t) => Occupied(s))
    /\ SameJob(s, t)

LEMMA LetGoTurns ==
    ASSUME NEW s \in AgentRec, Sound(s), Holds(s), NEW why \in Reason \cup {"no"}
    PROVE  Turned(s, LetGo(s, why))
<1> DEFINE f == Frame("released", s.cur.job, s.cur.epoch, 0, why)
           p == IF why = "no" THEN s.pending ELSE Append(s.pending, f)
<1>1. f.type # "ready"
  BY DEF Frame
<1>2. why # "no" => f \in FrameRec
  <2>1. s.cur.job \in Job /\ s.cur.epoch \in Nat
    BY DEF Holds, AgentRec, CurrentRec
  <2> QED
    BY <2>1, FrameTyped
<1>3. s.pending \in Seq(FrameRec)
  BY DEF AgentRec
<1> HIDE DEF f
<1>4. None(p, "ready")
  BY <1>1, <1>2, <1>3, Appends DEF Sound
<1>5. LetGo(s, why) = [s EXCEPT !.cur = Idle, !.ready = TRUE, !.pending = p]
  BY DEF LetGo, f
<1> HIDE DEF p
<1>6. /\ LetGo(s, why).link = s.link /\ LetGo(s, why).pending = p
      /\ LetGo(s, why).cur = Idle
  BY <1>5 DEF AgentRec
<1> QED
  BY <1>4, <1>6 DEF Turned, SameJob, Sound, Occupied, Holds, Idle

LEMMA StoppedTurns ==
    ASSUME NEW s \in AgentRec, Sound(s), Holds(s), NEW why \in Reason
    PROVE  Turned(s, Stopped(s, why))
<1> DEFINE t == [s EXCEPT !.cur.released = why]
<1>1. /\ t.link = s.link /\ t.pending = s.pending /\ t.ready = s.ready
      /\ t.cur.job = s.cur.job /\ t.cur.epoch = s.cur.epoch
  BY DEF AgentRec, CurrentRec
<1> HIDE DEF t
<1>2. Turned(s, t)
  BY <1>1 DEF Turned, SameJob, Sound, Occupied, Holds
<1> QED
  BY <1>2, LetGoTurns DEF Stopped, t

LEMMA QueueTurns ==
    ASSUME NEW s \in AgentRec, Sound(s), NEW f \in FrameRec, f.type # "ready"
    PROVE  Turned(s, Queue(s, f))
<1>1. s.pending \in Seq(FrameRec)
  BY DEF AgentRec
<1>2. None(Append(s.pending, f), "ready")
  BY <1>1, Appends DEF Sound
<1>3. /\ Queue(s, f).link = s.link /\ Queue(s, f).cur = s.cur
      /\ Queue(s, f).pending = Append(s.pending, f)
      /\ Queue(s, f).ready = s.ready
  BY DEF Queue, AgentRec
<1> QED
  BY <1>2, <1>3 DEF Turned, SameJob, Sound, Occupied, Holds

\* The orders that are not `assign`, and the job's own steps.
LEMMA OrdersTurn ==
    ASSUME NEW s \in AgentRec, Sound(s), NEW m \in OrderRec
    PROVE  /\ m.type = "cancel" => Turned(s, Cancelled(s, m))
           /\ m.type = "verdict" => Turned(s, Answered(s, m))
           /\ m.type = "renewed" => Turned(s, Renewed(s, m))
<1>1. m.type # "close" => m.job \in Job /\ m.epoch \in Nat
  BY OrderKinds
<1>2. m.type # "close" /\ HoldsThat(s, m.job, m.epoch) => Holds(s)
  BY <1>1, NoJobs DEF HoldsThat, Holds
<1>3. ASSUME m.type = "cancel" PROVE Turned(s, Cancelled(s, m))
  <2>1. m.why \in Reason
    BY <1>3, OrderKinds
  <2>2. Frame("released", m.job, m.epoch, 0, m.why) \in FrameRec
    BY <1>1, <1>3, <2>1, FrameTyped
  <2>3. Frame("released", m.job, m.epoch, 0, m.why).type # "ready"
    BY DEF Frame
  <2> QED
    BY <1>2, <1>3, <2>1, <2>2, <2>3, StoppedTurns, QueueTurns DEF Cancelled
<1>4. Turned(s, s)
  BY DEF Turned, SameJob
<1>5. m.type = "verdict" => Turned(s, Answered(s, m))
  BY <1>2, <1>4, LetGoTurns DEF Answered
<1>6. ASSUME NEW o PROVE Turned(s, [s EXCEPT !.cur.out = o])
  <2> DEFINE t == [s EXCEPT !.cur.out = o]
  <2>1. /\ t.link = s.link /\ t.pending = s.pending /\ t.ready = s.ready
        /\ t.cur.job = s.cur.job /\ t.cur.epoch = s.cur.epoch
    BY DEF AgentRec, CurrentRec
  <2> HIDE DEF t
  <2> QED
    BY <2>1 DEF Turned, SameJob, Sound, Occupied, Holds, t
<1>7. m.type = "renewed" => Turned(s, Renewed(s, m))
  BY <1>4, <1>6 DEF Renewed
<1> QED
  BY <1>3, <1>5, <1>7

LEMMA ReportsTurn ==
    ASSUME NEW s \in AgentRec, Sound(s), NEW ev, NEW done
    PROVE  Turned(s, Reports(s, ev)) /\ Turned(s, EndsWith(s, ev, done))
<1>1. LET t == Reports(s, ev) IN
      /\ t.link = s.link /\ t.pending = s.pending /\ t.ready = s.ready
      /\ t.cur.job = s.cur.job /\ t.cur.epoch = s.cur.epoch
  BY DEF Reports, AgentRec, CurrentRec
<1>2. LET t == EndsWith(s, ev, done) IN
      /\ t.link = s.link /\ t.pending = s.pending /\ t.ready = s.ready
      /\ t.cur.job = s.cur.job /\ t.cur.epoch = s.cur.epoch
  BY DEF EndsWith, AgentRec, CurrentRec
<1> QED
  BY <1>1, <1>2 DEF Turned, SameJob, Sound, Occupied, Holds

\* A free agent takes the job it is assigned.
LEMMA AssignedTurns ==
    ASSUME NEW s \in AgentRec, Sound(s), ~Occupied(s),
           NEW m \in OrderRec, m.type = "assign"
    PROVE  LET t == Assigned(s, m) IN
           /\ t.link = s.link /\ Sound(t) /\ t.pending = s.pending
           /\ t.cur = [Idle EXCEPT !.job = m.job, !.epoch = m.epoch]
<1> DEFINE t == [s EXCEPT !.cur = [Idle EXCEPT !.job = m.job, !.epoch = m.epoch]]
<1>1. Assigned(s, m) = t
  BY DEF Assigned, Occupied
<1>2. /\ t.link = s.link /\ t.pending = s.pending /\ t.ready = s.ready
      /\ t.cur = [Idle EXCEPT !.job = m.job, !.epoch = m.epoch]
  BY DEF AgentRec
<1> HIDE DEF t
<1> QED
  BY <1>1, <1>2 DEF Sound, Occupied

\* What a flush leaves and writes: the token is written at most once, and
\* not kept then.
LEMMA FlushTurns ==
    ASSUME NEW t \in AgentRec, Sound(t)
    PROVE  LET u == AfterFlush(t) IN
           /\ u.link = t.link /\ u.pending = <<>> /\ u.ready = FALSE
           /\ Holds(u) => Holds(t) /\ u.cur.job = t.cur.job /\ u.cur.epoch = t.cur.epoch
           /\ AtMostOne(FramesOf(t), "ready")
           /\ Holds(u) \/ ~Occupied(t) => None(FramesOf(t), "ready")
<1> DEFINE v == AfterEvents(t)
           last == IF OwesReady(v) THEN <<Frame("ready", NoJob, 0, 0, "none")>>
                   ELSE <<>>
<1>1. /\ v.link = t.link
      /\ v.cur = Idle \/ (v.cur.job = t.cur.job /\ v.cur.epoch = t.cur.epoch)
      /\ v.ready = t.ready \/ (v.cur = Idle /\ Holds(t))
  BY DEF AfterEvents, Runs, AgentRec, CurrentRec
<1>2. v \in AgentRec
  BY AfterEventsTyped
<1>3. Idle.job = NoJob
  BY DEF Idle
<1> HIDE DEF v
<1>4. v.ready => ~Holds(v)
  BY <1>1, <1>3 DEF Holds, Sound
<1>5. Holds(v) => Holds(t) /\ v.cur.job = t.cur.job /\ v.cur.epoch = t.cur.epoch
  BY <1>1, <1>3 DEF Holds
<1>6. OwesReady(v) => Occupied(t) /\ ~Holds(v)
  BY <1>1 DEF OwesReady, Occupied
<1>7. AfterFlush(t) = [v EXCEPT !.pending = <<>>, !.ready = v.ready /\ Holds(v)]
  BY DEF AfterFlush, v
<1>8. LET u == AfterFlush(t) IN
      u.link = v.link /\ u.pending = <<>> /\ u.ready = FALSE /\ u.cur = v.cur
  BY <1>2, <1>4, <1>7 DEF AgentRec
<1>9. /\ t.pending \in Seq(FrameRec) /\ EventFrames(t) \in Seq(FrameRec)
      /\ None(EventFrames(t), "ready")
  <2>1. None(EventFrames(t), "ready")
    BY DEF EventFrames, None, Frame
  <2> QED
    BY <2>1, EventFramesTyped DEF AgentRec
<1>10. /\ last \in Seq(FrameRec) /\ AtMostOne(last, "ready")
       /\ ~OwesReady(v) => None(last, "ready")
  <2>1. Frame("ready", NoJob, 0, 0, "none") \in FrameRec
    BY DEF FrameRec
  <2> QED
    BY <2>1 DEF None, AtMostOne
<1> HIDE DEF last
<1>11. FramesOf(t) = (t.pending \o EventFrames(t)) \o last
  BY DEF FramesOf, last, v
<1>12. t.pending \o EventFrames(t) \in Seq(FrameRec)
       /\ None(t.pending \o EventFrames(t), "ready")
  BY <1>9, Joins DEF Sound
<1>13. /\ AtMostOne(FramesOf(t), "ready")
       /\ ~OwesReady(v) => None(FramesOf(t), "ready")
  BY <1>10, <1>11, <1>12, Joins
<1> QED
  BY <1>1, <1>5, <1>6, <1>8, <1>13 DEF Holds

-----------------------------------------------------------------------------
\* The token of an agent on a channel: `ready` frames in u, `assign`s in d,
\* readiness r noted by the hub, a job h held.
OneToken(r, u, d, h) ==
    /\ AtMostOne(u, "ready") /\ AtMostOne(d, "assign")
    /\ r => None(u, "ready") /\ None(d, "assign") /\ ~h
    /\ ~None(u, "ready") => None(d, "assign") /\ ~h
    /\ ~None(d, "assign") => ~h

LinkAt(a) ==
    LET s == agent[a]
        c == s.link
    IN  /\ Sound(s) /\ c < nextConn
        /\ c # NoConn => /\ s.pending = <<>> /\ s.ready = FALSE
                         /\ Open(c) => conn[c].agent = a
                         /\ OneToken(conn[c].ready, up[c], down[c], Holds(s))

LinksDiffer ==
    \A a, b \in Agent :
        agent[a].link # NoConn /\ agent[a].link = agent[b].link => a = b
Unopened == \A c \in Conn : c >= nextConn => ~Open(c) /\ down[c] = <<>>

LinkInv == /\ \A a \in Agent : LinkAt(a)
           /\ LinksDiffer
           /\ Unopened

\* What the hub and the runners do to channel c but for `ready` and `assign`.
UpQuiet(c) == \/ up'[c] \in {up[c], <<>>}
              \/ up[c] # <<>> /\ up'[c] = Tail(up[c])
ConnQuiet(c) ==
    \/ conn'[c] = NoChannel
    \/ conn'[c].agent = conn[c].agent /\ conn'[c].ready = conn[c].ready
DownQuiet(c) ==
    \/ down'[c] = down[c]
    \/ /\ Listening(c)
       /\ \E m \in OrderRec : m.type # "assign" /\ down'[c] = Append(down[c], m)
Quiet(c) == UpQuiet(c) /\ ConnQuiet(c) /\ DownQuiet(c)

\* No token is made by what is read, dropped or sent besides.
LEMMA UpStays ==
    ASSUME NEW u \in Seq(FrameRec), NEW v,
           v \in {u, <<>>} \/ (u # <<>> /\ v = Tail(u))
    PROVE  /\ AtMostOne(u, "ready") => AtMostOne(v, "ready")
           /\ None(u, "ready") => None(v, "ready")
<1>1. CASE v = u
  BY <1>1
<1>2. CASE v = <<>>
  BY <1>2, NoneOfNone, NoneIsFew
<1>3. CASE u # <<>> /\ v = Tail(u)
  BY <1>3, Tails
<1> QED
  BY <1>1, <1>2, <1>3

LEMMA DownStays ==
    ASSUME NEW d \in Seq(OrderRec), NEW e,
           e = d \/ \E m \in OrderRec : m.type # "assign" /\ e = Append(d, m)
    PROVE  /\ AtMostOne(d, "assign") => AtMostOne(e, "assign")
           /\ None(d, "assign") => None(e, "assign")
BY Appends

LEMMA QuietChannel ==
    ASSUME TypeOK, TypeOK', NEW c \in Conn, Quiet(c)
    PROVE  /\ conn[c] \in ChannelRec /\ conn'[c] \in ChannelRec
           /\ up[c] \in Seq(FrameRec) /\ up'[c] \in Seq(FrameRec)
           /\ down[c] \in Seq(OrderRec) /\ down'[c] \in Seq(OrderRec)
           /\ conn[c].ready \in BOOLEAN /\ conn'[c].ready \in BOOLEAN
           /\ Open(c)' => Open(c) /\ conn'[c].agent = conn[c].agent
           /\ conn'[c].ready => conn[c].ready
<1>1. /\ conn[c] \in ChannelRec /\ conn'[c] \in ChannelRec
      /\ up[c] \in Seq(FrameRec) /\ up'[c] \in Seq(FrameRec)
      /\ down[c] \in Seq(OrderRec) /\ down'[c] \in Seq(OrderRec)
  BY DEF TypeOK
<1>2. NoChannel.ready = FALSE /\ NoChannel.agent = NoAgent
  BY DEF NoChannel
<1>3. \A k \in ChannelRec : /\ k.ready \in BOOLEAN
                            /\ k # NoChannel => k.agent \in Agent
  BY <1>2 DEF ChannelRec
<1>4. NoAgent \notin Agent
  BY StoreAssumption
<1>5. conn'[c] # NoChannel => conn[c] # NoChannel
  BY <1>1, <1>2, <1>3, <1>4 DEF Quiet, ConnQuiet
<1>6. /\ conn[c].ready \in BOOLEAN /\ conn'[c].ready \in BOOLEAN
      /\ conn'[c].ready => conn[c].ready
  BY <1>1, <1>2, <1>3 DEF Quiet, ConnQuiet
<1>7. conn'[c] # NoChannel => conn'[c].agent = conn[c].agent
  BY DEF Quiet, ConnQuiet
<1> QED
  BY <1>1, <1>5, <1>6, <1>7 DEF Open

\* An agent that does nothing, on a channel that is quiet, or on none.
LEMMA QuietAt ==
    ASSUME TypeOK, TypeOK', NEW a \in Agent, LinkAt(a),
           agent'[a] = agent[a], nextConn' >= nextConn,
           agent[a].link # NoConn => Quiet(agent[a].link)
    PROVE  LinkAt(a)'
<1> DEFINE s == agent[a]
           c == s.link
<1>1. LinkAt(a) /\ s \in AgentRec /\ agent'[a] = s
      /\ nextConn \in Nat /\ nextConn' \in Nat /\ nextConn' >= nextConn
  BY DEF TypeOK
<1>2. CASE c = NoConn
  BY <1>1, <1>2 DEF LinkAt
<1>3. CASE c # NoConn
  <2>1. c \in Conn /\ Holds(s) \in BOOLEAN /\ Quiet(c) /\ c \in Nat
    BY <1>1, <1>3, LeaseAssumption DEF AgentRec, Holds
  <2> HIDE DEF c, s
  <2>2. OneToken(conn[c].ready, up[c], down[c], Holds(s))
    BY <1>1, <1>3 DEF LinkAt, c, s
  <2>3. OneToken(conn'[c].ready, up'[c], down'[c], Holds(s))
    <3>1. \/ up'[c] \in {up[c], <<>>}
          \/ up[c] # <<>> /\ up'[c] = Tail(up[c])
      BY <2>1 DEF Quiet, UpQuiet
    <3>2. \/ down'[c] = down[c]
          \/ \E m \in OrderRec : /\ m.type # "assign"
                                 /\ down'[c] = Append(down[c], m)
      BY <2>1 DEF Quiet, DownQuiet
    <3>3. /\ up[c] \in Seq(FrameRec) /\ down[c] \in Seq(OrderRec)
          /\ conn'[c].ready => conn[c].ready
      BY <2>1, QuietChannel
    <3>4. /\ AtMostOne(up[c], "ready") => AtMostOne(up'[c], "ready")
          /\ None(up[c], "ready") => None(up'[c], "ready")
      BY <3>1, <3>3, UpStays
    <3>5. /\ AtMostOne(down[c], "assign") => AtMostOne(down'[c], "assign")
          /\ None(down[c], "assign") => None(down'[c], "assign")
      BY <3>2, <3>3, DownStays
    <3> QED
      BY <2>2, <3>3, <3>4, <3>5 DEF OneToken
  <2>4. conn'[c] # NoChannel => conn'[c].agent = a
    <3>1. Open(c) => conn[c].agent = a
      BY <1>1, <1>3 DEF LinkAt, c, s
    <3>2. PICK d \in Conn : d = c
      BY <2>1
    <3>3. Open(d)' => Open(d) /\ conn'[d].agent = conn[d].agent
      BY <2>1, <3>2, QuietChannel
    <3> QED
      BY <3>1, <3>2, <3>3 DEF Open
  <2>5. /\ Sound(s) /\ c < nextConn /\ s.pending = <<>> /\ s.ready = FALSE
    BY <1>1, <1>3 DEF LinkAt, c, s
  <2>6. c < nextConn'
    BY <1>1, <2>1, <2>5
  <2> QED
    BY <1>1, <2>3, <2>4, <2>5, <2>6 DEF LinkAt, Open, c, s
<1> QED
  BY <1>2, <1>3

LEMMA QuietLinks ==
    ASSUME TypeOK, TypeOK', LinkInv, UNCHANGED <<agent, nextConn>>,
           \A c \in Conn : Quiet(c)
    PROVE  LinkInv'
<1>1. nextConn' >= nextConn /\ \A a \in Agent : agent[a].link \in Conn \cup {NoConn}
  BY DEF TypeOK, AgentRec
<1>2. ASSUME NEW a \in Agent
      PROVE  LinkAt(a)'
  BY <1>1, QuietAt DEF LinkInv
<1>3. LinksDiffer'
  BY DEF LinkInv, LinksDiffer
<1>4. Unopened'
  <2> SUFFICES ASSUME NEW c \in Conn, c >= nextConn
               PROVE  ~Open(c)' /\ down'[c] = <<>>
    BY DEF Unopened
  <2>1. ~Open(c) /\ down[c] = <<>>
    BY DEF LinkInv, Unopened
  <2> QED
    BY <2>1, QuietChannel DEF Quiet, DownQuiet, Listening
<1> QED
  BY <1>2, <1>3, <1>4 DEF LinkInv

\* An agent's turn.
LEMMA TurnLinks ==
    ASSUME TypeOK, LinkInv, UNCHANGED <<conn, nextConn>>,
           NEW a \in Agent, NEW t \in AgentRec, Turn(a, t),
           t.link = agent[a].link, Sound(t),
           \/ /\ UNCHANGED down
              /\ Occupied(t) => Occupied(agent[a])
           \/ /\ t.link # NoConn /\ down[t.link] # <<>>
              /\ down' = [down EXCEPT ![t.link] = Tail(@)]
              /\ Occupied(t) => \/ Occupied(agent[a])
                                \/ Head(down[t.link]).type = "assign"
    PROVE  LinkInv'
<1> DEFINE s == agent[a]
           c == t.link
           u == AfterFlush(t)
<1>1. LinkAt(a) /\ s \in AgentRec /\ c \in Conn \cup {NoConn}
  BY DEF LinkInv, TypeOK, AgentRec
<1>2. \A b \in Agent : agent'[b].link = agent[b].link
  BY <1>1, FlushTurns DEF Turn, TypeOK
<1>4. ASSUME NEW b \in Agent, b # a
      PROVE  LinkAt(b)'
  <2>1. LinkAt(b) /\ agent'[b] = agent[b]
    BY <1>4 DEF LinkInv, Turn, TypeOK
  <2>2. agent[b].link # NoConn => agent[b].link \in Conn /\ agent[b].link # c
    BY <1>4 DEF TypeOK, AgentRec, LinkInv, LinksDiffer
  <2>3. up \in [Conn -> Seq(FrameRec)] /\ down \in [Conn -> Seq(OrderRec)]
    BY DEF TypeOK
  <2> HIDE DEF c
  <2>4. \A d \in Conn : d # c => up'[d] = up[d] /\ down'[d] = down[d]
    BY <2>3 DEF Turn, c
  <2> QED
    BY <2>1, <2>2, <2>4 DEF LinkAt, Open
<1>5. CASE c = NoConn
  <2>1. agent'[a] = t /\ c < nextConn
    BY <1>1, <1>5 DEF Turn, TypeOK, LinkAt
  <2>2. LinkAt(a)'
    BY <1>5, <2>1 DEF LinkAt
  <2>3. UNCHANGED down
    BY <1>5
  <2> QED
    BY <1>2, <1>4, <2>2, <2>3 DEF LinkInv, LinksDiffer, Unopened, Open
<1>6. CASE c # NoConn
  <2>1. /\ c \in Conn /\ s.ready = FALSE /\ agent'[a] = u
        /\ OneToken(conn[c].ready, up[c], down[c], Holds(s))
        /\ Open(c) => conn[c].agent = a
        /\ c < nextConn
    BY <1>1, <1>6 DEF Turn, LinkAt, TypeOK
  <2>2. /\ u.link = c /\ u.pending = <<>> /\ u.ready = FALSE
        /\ Holds(u) => Occupied(t)
        /\ AtMostOne(FramesOf(t), "ready")
        /\ Holds(u) \/ ~Occupied(t) => None(FramesOf(t), "ready")
    BY FlushTurns DEF Occupied
  <2>3. /\ FramesOf(t) \in Seq(FrameRec) /\ up[c] \in Seq(FrameRec)
        /\ down[c] \in Seq(OrderRec)
    BY <2>1, FlushTyped DEF TypeOK
  <2>4. up'[c] = up[c] \o FramesOf(t) \/ up'[c] = up[c]
    BY <1>6, <2>1 DEF Turn, TypeOK
  <2>5. \/ down'[c] = down[c] /\ (Occupied(t) => Holds(s))
        \/ /\ down[c] # <<>> /\ down'[c] = Tail(down[c])
           /\ Occupied(t) => Holds(s) \/ Head(down[c]).type = "assign"
    BY <2>1 DEF TypeOK, Occupied
  <2> DEFINE x == up'[c]
             y == down'[c]
             frames == FramesOf(t)
  <2>11. /\ None(up[c], "ready") /\ None(frames, "ready")
              => None(up[c] \o frames, "ready")
         /\ None(up[c], "ready") /\ AtMostOne(frames, "ready")
              => AtMostOne(up[c] \o frames, "ready")
         /\ AtMostOne(up[c], "ready") /\ None(frames, "ready")
              => AtMostOne(up[c] \o frames, "ready")
    <3> HIDE DEF c, frames
    <3> QED
      BY <2>3, Joins DEF frames
  <2>12. x = up[c] \o frames \/ x = up[c]
    BY <2>4
  <2> HIDE DEF c, s, u, x, y, frames
  <2>6. None(up[c], "ready") /\ None(frames, "ready") => None(x, "ready")
    BY <2>11, <2>12
  <2>7. /\ None(down[c], "assign") => None(y, "assign")
        /\ AtMostOne(y, "assign")
        /\ y # down[c] /\ Occupied(t) /\ ~Holds(s) => None(y, "assign") /\ ~None(down[c], "assign")
    BY <2>1, <2>3, <2>5, Tails DEF OneToken, y
  <2>8. ~Occupied(t) => ~Holds(u) /\ None(frames, "ready")
    BY <2>2 DEF frames
  <2>9. CASE Occupied(t)
    <3>1. /\ None(up[c], "ready") /\ None(y, "assign") /\ ~conn[c].ready
      BY <2>1, <2>3, <2>5, <2>7, <2>9, Tails DEF OneToken, y
    <3>2. AtMostOne(x, "ready")
      BY <2>2, <2>11, <2>12, <3>1, NoneIsFew DEF frames
    <3>3. Holds(u) => None(x, "ready")
      BY <2>2, <2>6, <3>1 DEF frames
    <3> QED
      <4>1. OneToken(conn[c].ready, x, y, Holds(u))
        BY <2>7, <3>1, <3>2, <3>3 DEF OneToken
      <4>2. LinkAt(a)'
        BY <2>1, <2>2, <4>1 DEF LinkAt, Sound, None, Open, x, y
      <4>3. Unopened'
        BY <2>1 DEF LinkInv, Unopened, Open, TypeOK
      <4> QED
        BY <1>2, <1>4, <4>2, <4>3 DEF LinkInv, LinksDiffer
  <2>10. CASE ~Occupied(t)
    <3>1. AtMostOne(x, "ready")
      BY <2>1, <2>8, <2>10, <2>11, <2>12 DEF OneToken
    <3>2. OneToken(conn[c].ready, x, y, Holds(u))
      BY <2>1, <2>6, <2>7, <2>8, <2>10, <3>1 DEF OneToken
    <3>3. LinkAt(a)'
      BY <2>1, <2>2, <3>2 DEF LinkAt, Sound, None, Open, x, y
    <3>4. Unopened'
      BY <2>1 DEF LinkInv, Unopened, Open, TypeOK
    <3> QED
      BY <1>2, <1>4, <3>3, <3>4 DEF LinkInv, LinksDiffer
  <2> QED
    BY <2>9, <2>10
<1> QED
  BY <1>5, <1>6

-----------------------------------------------------------------------------
\* The quiet steps of the hub and the runners.
LEMMA SentQuiet ==
    ASSUME TypeOK, NEW c \in Conn \cup {NoConn}, NEW m \in OrderRec,
           m.type # "assign", down' = Sent(c, m)
    PROVE  \A k \in Conn : DownQuiet(k)
<1> SUFFICES ASSUME NEW k \in Conn PROVE DownQuiet(k)
  OBVIOUS
<1>1. down \in [Conn -> Seq(OrderRec)]
  BY DEF TypeOK
<1>2. CASE Listening(c)
  <2>1. down' = [down EXCEPT ![c] = Append(@, m)]
    BY <1>2 DEF Sent
  <2> QED
    BY <1>1, <1>2, <2>1 DEF DownQuiet
<1>3. CASE ~Listening(c)
  BY <1>3 DEF Sent, DownQuiet
<1> QED
  BY <1>2, <1>3

LEMMA FreedQuiet ==
    ASSUME TypeOK, NEW c, NEW j, conn' = Freed(c, j)
    PROVE  \A k \in Conn : ConnQuiet(k)
<1> SUFFICES ASSUME NEW k \in Conn PROVE ConnQuiet(k)
  OBVIOUS
<1>1. conn'[k] \in {conn[k], [conn[k] EXCEPT !.holding = NoJob]}
  BY DEF Freed
<1>2. conn[k] \in ChannelRec
  BY DEF TypeOK
<1>3. /\ [conn[k] EXCEPT !.holding = NoJob].agent = conn[k].agent
      /\ [conn[k] EXCEPT !.holding = NoJob].ready = conn[k].ready
  BY <1>2 DEF ChannelRec, NoChannel
<1> QED
  BY <1>1, <1>3 DEF ConnQuiet

LEMMA TookQuiet ==
    ASSUME TypeOK, NEW c \in Conn, NEW type, Gets(c, type), Took(c)
    PROVE  \A k \in Conn : UpQuiet(k)
BY DEF TypeOK, Gets, Took, UpQuiet

LEMMA StillQuiet ==
    ASSUME TypeOK
    PROVE  /\ UNCHANGED up => \A k \in Conn : UpQuiet(k)
           /\ UNCHANGED conn => \A k \in Conn : ConnQuiet(k)
           /\ UNCHANGED down => \A k \in Conn : DownQuiet(k)
BY DEF UpQuiet, ConnQuiet, DownQuiet

\* The orders that are not `assign`.
LEMMA OrdersQuiet ==
    ASSUME NEW j \in Job, NEW e \in Nat, NEW n \in Int
    PROVE  /\ CloseOrder \in OrderRec /\ CloseOrder.type = "close"
           /\ \A why \in Reason : /\ CancelOrder(j, e, why) \in OrderRec
                                 /\ CancelOrder(j, e, why).type = "cancel"
                                 /\ CancelOrder(j, e, why).job = j
                                 /\ CancelOrder(j, e, why).epoch = e
                                 /\ CancelOrder(j, e, why).why = why
           /\ \A accepted \in BOOLEAN :
                /\ VerdictOrder(j, e, accepted) \in OrderRec
                /\ VerdictOrder(j, e, accepted).type = "verdict"
           /\ LET m == Order("renewed", j, e, "none", n)
              IN  m \in OrderRec /\ m.type = "renewed"
           /\ LET m == Order("assign", j, e, "none", 0)
              IN  m \in OrderRec /\ m.type = "assign" /\ m.job = j /\ m.epoch = e
BY OrderTyped DEF CloseOrder, CancelOrder, VerdictOrder, Order

\* What a runner tells the channel of its lease.
LEMMA RunnerTells ==
    ASSUME TypeOK, NEW j \in Job
    PROVE  /\ \A why \in Reason :
                down' = Sent(lease[j].conn, CancelOrder(j, lease[j].epoch, why))
                => \A k \in Conn : DownQuiet(k)
           /\ \A accepted \in BOOLEAN :
                Verdict(j, accepted) => \A k \in Conn : DownQuiet(k)
           /\ down' = Sent(lease[j].conn, CloseOrder)
                => \A k \in Conn : DownQuiet(k)
<1>1. lease[j].conn \in Conn \cup {NoConn} /\ lease[j].epoch \in Nat
  BY DEF TypeOK, LeaseRec
<1>2. ASSUME NEW why \in Reason,
             down' = Sent(lease[j].conn, CancelOrder(j, lease[j].epoch, why))
      PROVE  \A k \in Conn : DownQuiet(k)
  <2>1. CancelOrder(j, lease[j].epoch, why).type # "assign"
    BY <1>1, OrdersQuiet
  <2>2. CancelOrder(j, lease[j].epoch, why) \in OrderRec
    BY <1>1, OrdersQuiet
  <2> QED
    BY <1>1, <1>2, <2>1, <2>2, SentQuiet
<1>3. ASSUME NEW accepted \in BOOLEAN, Verdict(j, accepted)
      PROVE  \A k \in Conn : DownQuiet(k)
  <2>1. VerdictOrder(j, lease[j].epoch, accepted).type # "assign"
    BY <1>1, OrdersQuiet
  <2>2. VerdictOrder(j, lease[j].epoch, accepted) \in OrderRec
    BY <1>1, OrdersQuiet
  <2>3. down' = Sent(lease[j].conn, VerdictOrder(j, lease[j].epoch, accepted))
    BY <1>3 DEF Verdict
  <2> QED
    BY <1>1, <2>1, <2>2, <2>3, SentQuiet
<1>4. ASSUME down' = Sent(lease[j].conn, CloseOrder)
      PROVE  \A k \in Conn : DownQuiet(k)
  <2>1. CloseOrder.type # "assign" /\ CloseOrder \in OrderRec
    BY OrdersQuiet DEF CloseOrder, Order, OrderRec
  <2> QED
    BY <1>1, <1>4, <2>1, SentQuiet
<1> QED
  BY <1>2, <1>3, <1>4

QuietStep == UNCHANGED <<agent, nextConn>> /\ \A c \in Conn : Quiet(c)

LEMMA RunnerQuiet ==
    ASSUME TypeOK, NEW j \in Job, RunnerStep(j), ~Claim(j)
    PROVE  QuietStep
<1>1. UNCHANGED <<agent, nextConn, up>>
  BY DEF RunnerStep, Start, GiveUp, SaveLeased, RunOrphan, OnFeatures,
     OnResult, Publish, Registered, OnError, OnRelease, NoticeCancel,
     LetLeaseGo, FindExpired, EndLease, StoreRequeue, RunnerPanics, hub
<1>2. UNCHANGED conn \/ conn' = Freed(lease[j].conn, j)
  BY DEF RunnerStep, Start, GiveUp, SaveLeased, RunOrphan, OnFeatures,
     OnResult, Publish, Registered, OnError, OnRelease, NoticeCancel,
     LetLeaseGo, FindExpired, EndLease, StoreRequeue, RunnerPanics, hub
<1>3. \/ UNCHANGED down
      \/ down' = Sent(lease[j].conn, CancelOrder(j, lease[j].epoch, "lease_lost"))
      \/ down' = Sent(lease[j].conn, CancelOrder(j, lease[j].epoch, "cancelled"))
      \/ down' = Sent(lease[j].conn, CancelOrder(j, lease[j].epoch, "reroute"))
      \/ Verdict(j, TRUE) \/ Verdict(j, FALSE)
      \/ down' = Sent(lease[j].conn, CloseOrder)
  <2>1. CASE OnResult(j)
    BY <2>1 DEF OnResult, Registers
  <2>2. CASE ~OnResult(j)
    BY <2>2 DEF RunnerStep, Start, GiveUp, SaveLeased, RunOrphan, OnFeatures,
       Publish, Registered, OnError, OnRelease, NoticeCancel,
       LetLeaseGo, FindExpired, EndLease, StoreRequeue, RunnerPanics
  <2> QED
    BY <2>1, <2>2
<1>4. \A k \in Conn : DownQuiet(k)
  <2>1. {"lease_lost", "cancelled", "reroute"} \subseteq Reason
    BY DEF Reason
  <2> QED
    BY <1>3, <2>1, RunnerTells, StillQuiet
<1>5. \A k \in Conn : ConnQuiet(k)
  BY <1>2, FreedQuiet, StillQuiet
<1> QED
  BY <1>1, <1>4, <1>5, StillQuiet DEF QuietStep, Quiet

LEMMA ChannelQuiet ==
    ASSUME TypeOK, NEW c \in Conn, ChannelStep(c), ~OnReady(c)
    PROVE  /\ QuietStep
           /\ \/ UNCHANGED down
              \/ \E m \in OrderRec : /\ m.type \notin {"assign", "cancel"}
                                     /\ down' = Sent(c, m)
<1> DEFINE f == Head(up[c])
<1>1. UNCHANGED <<agent, nextConn>>
  BY DEF ChannelStep, OnHeartbeat, OnStaleEvent, OnNextEvent, OnReleased,
     RemoveConn, hub
<1>2. CASE RemoveConn(c)
  <2>1. /\ conn' = [conn EXCEPT ![c] = NoChannel]
        /\ up' = [up EXCEPT ![c] = <<>>] /\ UNCHANGED down
    BY <1>2 DEF RemoveConn
  <2>2. \A k \in Conn : UpQuiet(k) /\ ConnQuiet(k)
    BY <2>1 DEF TypeOK, UpQuiet, ConnQuiet
  <2> QED
    BY <1>1, <2>1, <2>2, StillQuiet DEF QuietStep, Quiet
<1>3. CASE ~RemoveConn(c)
  <2>1. /\ \E type : Gets(c, type) /\ Took(c) /\ type # "ready"
        /\ UNCHANGED conn
    BY <1>3 DEF ChannelStep, OnHeartbeat, OnStaleEvent, OnNextEvent,
       OnReleased, hub
  <2>2. \A k \in Conn : UpQuiet(k) /\ ConnQuiet(k)
    BY <2>1, TookQuiet, StillQuiet
  <2>3. f \in FrameRec /\ f.job \in Job /\ f.epoch \in Nat
    BY <2>1, GetsTyped, FrameKinds
  <2>4. lease[f.job].next \in Nat /\ lease[f.job].result \in BOOLEAN
    BY <2>3 DEF TypeOK, LeaseRec
  <2>5. \/ UNCHANGED down
        \/ down' = Sent(c, Order("renewed", f.job, f.epoch, "none",
                                 lease[f.job].next - 1))
        \/ \E again \in BOOLEAN : down' = Again(c, f, again)
    <3>1. CASE OnStaleEvent(c)
      BY <3>1 DEF OnStaleEvent
    <3>2. CASE OnNextEvent(c)
      BY <2>4, <3>2 DEF OnNextEvent
    <3>3. CASE OnHeartbeat(c) \/ OnReleased(c)
      BY <3>3 DEF OnHeartbeat, OnReleased
    <3> QED
      BY <1>3, <3>1, <3>2, <3>3 DEF ChannelStep
  <2>6. \/ UNCHANGED down
        \/ \E m \in OrderRec : /\ m.type \notin {"assign", "cancel"}
                               /\ down' = Sent(c, m)
    <3>1. \A again \in BOOLEAN :
            LET m == VerdictOrder(f.job, f.epoch, again /\ settled[f.job].accepted)
            IN  m \in OrderRec /\ m.type \notin {"assign", "cancel"}
      <4> SUFFICES ASSUME NEW again \in BOOLEAN
                   PROVE  LET m == VerdictOrder(f.job, f.epoch,
                                       again /\ settled[f.job].accepted)
                          IN  /\ m \in OrderRec
                              /\ m.type \notin {"assign", "cancel"}
        OBVIOUS
      <4> DEFINE b == again /\ settled[f.job].accepted
      <4>1. b \in BOOLEAN
        OBVIOUS
      <4> HIDE DEF f, b
      <4>2. VerdictOrder(f.job, f.epoch, b) \in OrderRec
        BY <2>3, <4>1, OrdersQuiet
      <4>3. VerdictOrder(f.job, f.epoch, b).type = "verdict"
        BY <2>3, <4>1, OrdersQuiet
      <4> QED
        BY <4>2, <4>3 DEF b
    <3>2. LET m == Order("renewed", f.job, f.epoch, "none", lease[f.job].next - 1)
          IN  m \in OrderRec /\ m.type \notin {"assign", "cancel"}
      <4>1. lease[f.job].next - 1 \in Int
        BY <2>4
      <4> HIDE DEF f
      <4> QED
        BY <2>3, <4>1, OrdersQuiet
    <3> HIDE DEF f
    <3> QED
      BY <2>5, <3>1, <3>2 DEF Again
  <2>7. \A k \in Conn : DownQuiet(k)
    BY <2>6, SentQuiet, StillQuiet
  <2> QED
    BY <1>1, <2>2, <2>6, <2>7 DEF QuietStep, Quiet
<1> QED
  BY <1>2, <1>3

LEMMA SurroundingsQuiet ==
    ASSUME TypeOK, \/ \E j \in Job : Expire(j) \/ UserCancel(j)
                   \/ Stop
                   \/ Restart
    PROVE  QuietStep
<1>1. CASE \E j \in Job : Expire(j) \/ UserCancel(j)
  BY <1>1, StillQuiet DEF Expire, UserCancel, hub, QuietStep, Quiet
<1>2. CASE Stop
  <2>1. UNCHANGED <<agent, nextConn, conn, up>>
    BY <1>2 DEF Stop, hub
  <2>2. ASSUME NEW k \in Conn PROVE DownQuiet(k)
    <3>1. CloseOrder.type # "assign" /\ CloseOrder \in OrderRec
      BY DEF CloseOrder, Order, OrderRec
    <3> QED
      BY <1>2, <3>1 DEF Stop, DownQuiet
  <2> QED
    BY <2>1, <2>2, StillQuiet DEF QuietStep, Quiet
<1>3. CASE Restart
  <2>1. /\ UNCHANGED <<agent, nextConn, down>>
        /\ conn' = [c \in Conn |-> NoChannel] /\ up' = [c \in Conn |-> <<>>]
    BY <1>3 DEF Restart
  <2>2. \A k \in Conn : UpQuiet(k) /\ ConnQuiet(k)
    BY <2>1 DEF UpQuiet, ConnQuiet
  <2> QED
    BY <2>1, <2>2, StillQuiet DEF QuietStep, Quiet
<1> QED
  BY <1>1, <1>2, <1>3

-----------------------------------------------------------------------------
\* The steps in which the hub takes or gives a token, on one channel.
LEMMA OneChannelLinks ==
    ASSUME TypeOK, TypeOK', LinkInv, UNCHANGED <<agent, nextConn>>,
           NEW c \in Conn, Open(c), conn'[c].agent = conn[c].agent,
           \A d \in Conn \ {c} : /\ conn'[d] = conn[d]
                                 /\ up'[d] = up[d] /\ down'[d] = down[d],
           \A a \in Agent :
             /\ agent[a].link = c /\ conn[c].agent = a
             /\ OneToken(conn[c].ready, up[c], down[c], Holds(agent[a]))
             => OneToken(conn'[c].ready, up'[c], down'[c], Holds(agent[a]))
    PROVE  LinkInv'
<1>1. ASSUME NEW a \in Agent
      PROVE  LinkAt(a)'
  <2>1. LinkAt(a) /\ agent[a].link \in Conn \cup {NoConn}
    BY DEF LinkInv, TypeOK, AgentRec
  <2>2. CASE agent[a].link = c
    <3>1. conn[c].agent = a
      BY <2>1, <2>2 DEF LinkAt
    <3>2. OneToken(conn'[c].ready, up'[c], down'[c], Holds(agent[a]))
      BY <2>1, <2>2, <3>1 DEF LinkAt
    <3> QED
      BY <2>1, <2>2, <3>1, <3>2 DEF LinkAt
  <2>3. CASE agent[a].link # c
    BY <2>1, <2>3 DEF LinkAt, Open
  <2> QED
    BY <2>2, <2>3
<1>2. LinksDiffer'
  BY DEF LinkInv, LinksDiffer
<1>3. Unopened'
  BY DEF LinkInv, Unopened, Open
<1> QED
  BY <1>1, <1>2, <1>3 DEF LinkInv

LEMMA OnReadyLinks ==
    ASSUME TypeOK, TypeOK', LinkInv, NEW c \in Conn, OnReady(c)
    PROVE  LinkInv'
<1>1. /\ up[c] \in Seq(FrameRec) /\ up[c] # <<>> /\ Head(up[c]).type = "ready"
      /\ up' = [up EXCEPT ![c] = Tail(up[c])] /\ Open(c)
      /\ conn' = [conn EXCEPT ![c].ready = TRUE]
      /\ UNCHANGED <<agent, nextConn, down>>
  BY DEF OnReady, Gets, Took, TypeOK
<1>2. /\ conn[c] \in [agent : Agent, ready : BOOLEAN, holding : Job \cup {NoJob}]
      /\ conn \in [Conn -> ChannelRec] /\ up \in [Conn -> Seq(FrameRec)]
  BY <1>1 DEF TypeOK, ChannelRec, Open
<1>3. conn'[c].agent = conn[c].agent /\ conn'[c].ready = TRUE
  BY <1>1, <1>2
<1>4. /\ ~None(up[c], "ready")
      /\ AtMostOne(up[c], "ready") => None(Tail(up[c]), "ready")
  BY <1>1, Tails
<1>5. up'[c] = Tail(up[c]) /\ down'[c] = down[c]
  BY <1>1, <1>2
<1>6. \A h \in BOOLEAN : OneToken(conn[c].ready, up[c], down[c], h)
                        => OneToken(conn'[c].ready, up'[c], down'[c], h)
  BY <1>3, <1>4, <1>5, NoneIsFew DEF OneToken
<1>7. \A a \in Agent : Holds(agent[a]) \in BOOLEAN
  BY DEF Holds
<1>8. \A d \in Conn \ {c} : /\ conn'[d] = conn[d]
                            /\ up'[d] = up[d] /\ down'[d] = down[d]
  BY <1>1, <1>2
<1> QED
  BY <1>1, <1>3, <1>6, <1>7, <1>8, OneChannelLinks

LEMMA ClaimLinks ==
    ASSUME TypeOK, TypeOK', LinkInv, NEW j \in Job, Claim(j)
    PROVE  LinkInv'
<1> DEFINE m == Order("assign", j, runner[j].epoch, "none", 0)
<1>1. PICK c \in Conn :
        /\ Free(c, j)
        /\ conn' = [conn EXCEPT ![c].ready = FALSE, ![c].holding = j]
        /\ down' = Sent(c, m) /\ UNCHANGED <<nextConn, agent, up>>
  BY DEF Claim
<1>2. /\ conn[c] \in [agent : Agent, ready : BOOLEAN, holding : Job \cup {NoJob}]
      /\ conn \in [Conn -> ChannelRec] /\ down \in [Conn -> Seq(OrderRec)]
      /\ Open(c) /\ conn[c].ready
  BY <1>1 DEF TypeOK, ChannelRec, Open, Free
<1>3. conn'[c].agent = conn[c].agent /\ conn'[c].ready = FALSE
  BY <1>1, <1>2
<1>4. m \in OrderRec
  <2>1. runner[j].epoch \in Nat
    BY DEF TypeOK, RunnerRec
  <2> QED
    BY <2>1, OrderTyped
<1> HIDE DEF m
<1>5. \A d \in Conn \ {c} : /\ conn'[d] = conn[d]
                            /\ up'[d] = up[d] /\ down'[d] = down[d]
  BY <1>1, <1>2 DEF Sent
<1>6. down'[c] = down[c] \/ down'[c] = Append(down[c], m)
  BY <1>1, <1>2 DEF Sent
<1>7. down[c] \in Seq(OrderRec) /\ up'[c] = up[c]
  BY <1>1, <1>2
<1>8. None(down[c], "assign") => AtMostOne(down'[c], "assign")
  BY <1>4, <1>6, <1>7, Appends, NoneIsFew
<1>9. \A h \in BOOLEAN : OneToken(conn[c].ready, up[c], down[c], h)
                        => OneToken(conn'[c].ready, up'[c], down'[c], h)
  BY <1>2, <1>3, <1>7, <1>8, NoneIsFew DEF OneToken
<1>10. \A a \in Agent : Holds(agent[a]) \in BOOLEAN
  BY DEF Holds
<1> QED
  BY <1>1, <1>2, <1>3, <1>5, <1>9, <1>10, OneChannelLinks

LEMMA HeartbeatLinks ==
    ASSUME TypeOK, TypeOK', LinkInv, NEW a \in Agent, Heartbeat(a)
    PROVE  LinkInv'
<1> DEFINE c == agent[a].link
<1>1. PICK f : /\ up' = [up EXCEPT ![c] = Append(@, f)] /\ f.type = "heartbeat"
               /\ f \in FrameRec
  <2>1. /\ Holds(agent[a]) /\ agent[a].cur.job \in Job
        /\ agent[a].cur.epoch \in Nat
    BY DEF Heartbeat, TypeOK, AgentRec, CurrentRec, Holds
  <2>2. PICK memory \in {"hot", "calm"} :
          up' = [up EXCEPT ![c] = Append(@, Frame("heartbeat", agent[a].cur.job,
                                            agent[a].cur.epoch, 0, memory))]
    BY DEF Heartbeat
  <2>3. Frame("heartbeat", agent[a].cur.job, agent[a].cur.epoch, 0, memory)
          \in FrameRec
    BY <2>1, FrameTyped
  <2>4. Frame("heartbeat", agent[a].cur.job, agent[a].cur.epoch, 0, memory).type
          = "heartbeat"
    BY DEF Frame
  <2> QED
    BY <2>2, <2>3, <2>4
<1>2. Listening(c) /\ UNCHANGED <<agent, nextConn, conn, down>>
  BY DEF Heartbeat, hub
<1>3. c \in Conn /\ Open(c) /\ up \in [Conn -> Seq(FrameRec)]
  BY <1>2 DEF Listening, TypeOK, AgentRec
<1> HIDE DEF c
<1>4. /\ up'[c] = Append(up[c], f) /\ up[c] \in Seq(FrameRec)
      /\ \A d \in Conn \ {c} : up'[d] = up[d]
  BY <1>1, <1>3
<1>5. /\ None(up[c], "ready") => None(up'[c], "ready")
      /\ AtMostOne(up[c], "ready") => AtMostOne(up'[c], "ready")
  BY <1>1, <1>4, Appends
<1>6. \A h : OneToken(conn[c].ready, up[c], down[c], h)
            => OneToken(conn'[c].ready, up'[c], down'[c], h)
  BY <1>2, <1>5 DEF OneToken
<1> QED
  BY <1>2, <1>3, <1>4, <1>6, OneChannelLinks

LEMMA WelcomedTurns ==
    ASSUME NEW s \in AgentRec, Sound(s), NEW c \in Conn, NEW acked \in Int,
           NEW answer \in {"none", "continue", "lease_lost", "cancelled", "reroute"},
           answer = "none" => ~Runs(s)
    PROVE  LET t == Welcomed(s, c, answer, acked)
           IN  t \in AgentRec /\ t.link = c /\ Sound(t)
<1> DEFINE t == [s EXCEPT !.link = c]
           u == [t EXCEPT !.cur.out = EmptyOutbox]
           v == [t EXCEPT !.cur.out = Rewind(t.cur.out, acked)]
           w == [t EXCEPT !.ready = TRUE]
<1>1. /\ t \in AgentRec /\ t.link = c /\ t.cur = s.cur
      /\ t.pending = s.pending /\ t.ready = s.ready
  BY DEF AgentRec
<1>2. /\ w.link = c /\ w.cur = s.cur /\ w.pending = s.pending
  BY <1>1 DEF AgentRec
<1>3. /\ v.link = c /\ v.cur.job = s.cur.job /\ v.pending = s.pending
      /\ v.ready = s.ready
  BY <1>1 DEF AgentRec, CurrentRec
<1>4. /\ u.link = c /\ u.cur.job = s.cur.job /\ u.pending = s.pending
      /\ u.ready = s.ready
  BY <1>1 DEF AgentRec, CurrentRec
<1>5. u \in AgentRec
  <2>1. EmptyOutbox \in OutboxRec
    BY DEF EmptyOutbox, OutboxRec
  <2> QED
    BY <1>1, <2>1, OutTyped
<1>6. Welcomed(s, c, answer, acked) =
        IF ~Holds(s) THEN w
        ELSE IF ~Runs(s) THEN t
        ELSE IF answer = "continue" THEN v
        ELSE Stopped(u, answer)
  BY DEF Welcomed
<1> HIDE DEF t, u, v, w
<1>7. ~Holds(s) => Sound(w)
  BY <1>2 DEF Sound, Holds
<1>8. Sound(t) /\ Sound(v) /\ Sound(u) /\ (Holds(s) => Holds(u))
  BY <1>1, <1>3, <1>4 DEF Sound, Holds
<1>9. Runs(s) /\ answer # "continue" => answer \in Reason
  BY DEF Reason
<1>10. Holds(s) /\ answer \in Reason => Turned(u, Stopped(u, answer))
  BY <1>5, <1>8, StoppedTurns
<1> QED
  BY <1>1, <1>2, <1>3, <1>4, <1>6, <1>7, <1>8, <1>9, <1>10, WelcomedTyped DEF Turned

\* What the hub makes of a `hello`, and what is welcomed.
Resumed(a, t, acked, answer, old, told) ==
    LET s == agent[a]
        c == nextConn
        j == s.cur.job
        gone == Evicted(a)
        lease1 == Detached(gone)
    IN
    /\ t = Welcomed(s, c, told, acked)
    /\ answer = IF Runs(s)
                THEN ResumeAnswer(a, j, s.cur.epoch, lease1[j])
                ELSE "none"
    /\ told = IF answer \in {"settled", "moves"} THEN "continue"
              ELSE answer
    /\ answer = "moves" => acked = lease1[j].next - 1
    /\ answer = "settled" => acked = settled[j].last
    /\ told \in {"none", "continue", "lease_lost", "cancelled", "reroute"}
    /\ told = "none" <=> ~Runs(s)
    /\ answer = "none" <=> ~Runs(s)
    /\ answer \in {"none", "settled", "lease_lost", "cancelled",
                   "reroute", "moves"}
    /\ answer # "none" => j \in Job /\ s.cur.epoch \in Nat
    /\ s \in AgentRec /\ s.link = NoConn /\ c \in Conn
    /\ old = IF answer = "moves" THEN lease1[j].conn ELSE NoConn
    /\ nextConn' = c + 1
    /\ UNCHANGED <<row, runner, cancelled, outcome, published,
                   stopping, restarts, settled>>
    /\ lease' = IF answer = "none" THEN lease1
                ELSE [lease1 EXCEPT ![j] = AfterResume(@, answer, c)]
    /\ conn' = [k \in Conn |->
                  IF k \in gone THEN NoChannel
                  ELSE IF k = c
                       THEN [agent |-> a, ready |-> FALSE,
                             holding |-> IF answer = "moves"
                                         THEN j ELSE NoJob]
                  ELSE IF k = old /\ conn[k].holding = j
                       THEN [conn[k] EXCEPT !.holding = NoJob]
                  ELSE conn[k]]
    /\ \/ /\ agent' = [agent EXCEPT ![a] = AfterFlush(t)]
          /\ up' = [k \in Conn |-> IF k \in gone THEN <<>>
                                   ELSE IF k = c THEN FramesOf(t)
                                   ELSE up[k]]
          /\ down' = IF answer = "settled"
                     THEN [down EXCEPT ![c] = <<VerdictOrder(j,
                              s.cur.epoch, settled[j].accepted)>>]
                     ELSE down
       \/ /\ up' = [k \in Conn |-> IF k \in gone THEN <<>> ELSE up[k]]
          /\ UNCHANGED <<agent, down>>

LEMMA ConnectParts ==
    ASSUME TypeOK, NEW a \in Agent, Connect(a)
    PROVE  \E t \in AgentRec, acked \in Int : \E answer, old, told :
             Resumed(a, t, acked, answer, old, told)
<1> DEFINE s == agent[a]
           c == nextConn
           j == s.cur.job
           gone == Evicted(a)
           lease1 == Detached(gone)
           answer == IF Runs(s) THEN ResumeAnswer(a, j, s.cur.epoch, lease1[j])
                     ELSE "none"
           old == IF answer = "moves" THEN lease1[j].conn ELSE NoConn
           acked == IF answer = "settled" THEN settled[j].last
                    ELSE IF answer = "moves" THEN lease1[j].next - 1 ELSE 0
           told == IF answer \in {"settled", "moves"} THEN "continue" ELSE answer
           t == Welcomed(s, c, told, acked)
<1>1. /\ s \in AgentRec /\ s.link = NoConn /\ c \in Conn
      /\ (Runs(s) => j \in Job /\ s.cur.epoch \in Nat)
  BY DEF TypeOK, AgentRec, CurrentRec, Runs, Holds, Connect
<1>2. /\ answer \in {"none", "settled", "lease_lost", "cancelled", "reroute", "moves"}
      /\ told \in {"none", "continue", "lease_lost", "cancelled", "reroute"}
      /\ answer = "none" <=> ~Runs(s)
      /\ told = "none" <=> ~Runs(s)
  BY DEF ResumeAnswer
<1>3. lease1 \in [Job -> LeaseRec] /\ (j \in Job => settled[j] \in SettledRec)
  BY DetachedTyped DEF TypeOK
<1>4. acked \in Int
  <2> HIDE DEF lease1, answer, j, s
  <2>1. answer # "none" => lease1[j] \in LeaseRec /\ settled[j] \in SettledRec
    BY <1>1, <1>2, <1>3
  <2> QED
    BY <1>2, <2>1 DEF LeaseRec, SettledRec
<1>5. t \in AgentRec
  <2> HIDE DEF told, acked
  <2> QED
    BY <1>1, <1>2, <1>4, WelcomedTyped
<1>6. /\ nextConn' = c + 1
      /\ UNCHANGED <<row, runner, cancelled, outcome, published,
                     stopping, restarts, settled>>
  BY DEF Connect, jobs, process
<1>7. lease' = IF answer = "none" THEN lease1
               ELSE [lease1 EXCEPT ![j] = AfterResume(@, answer, c)]
  BY DEF Connect
<1>8. conn' = [k \in Conn |->
                 IF k \in gone THEN NoChannel
                 ELSE IF k = c THEN [agent |-> a, ready |-> FALSE,
                                     holding |-> IF answer = "moves"
                                                 THEN j ELSE NoJob]
                 ELSE IF k = old /\ conn[k].holding = j
                      THEN [conn[k] EXCEPT !.holding = NoJob]
                 ELSE conn[k]]
  BY DEF Connect
<1>9. \/ /\ agent' = [agent EXCEPT ![a] = AfterFlush(t)]
         /\ up' = [k \in Conn |-> IF k \in gone THEN <<>>
                                  ELSE IF k = c THEN FramesOf(t) ELSE up[k]]
         /\ down' = IF answer = "settled"
                    THEN [down EXCEPT ![c] = <<VerdictOrder(j,
                             s.cur.epoch, settled[j].accepted)>>]
                    ELSE down
      \/ /\ up' = [k \in Conn |-> IF k \in gone THEN <<>> ELSE up[k]]
         /\ UNCHANGED <<agent, down>>
  BY DEF Connect
<1>10. answer # "none" => j \in Job /\ s.cur.epoch \in Nat
  BY <1>1, <1>2
<1>11. Resumed(a, t, acked, answer, old, told)
  <2> HIDE DEF t, answer, old, acked, gone, lease1, s, c, j
  <2> QED
    BY <1>1, <1>2, <1>6, <1>7, <1>8, <1>9, <1>10
       DEF Resumed, t, answer, old, acked, gone, lease1, s, c, j
<1> HIDE DEF t, acked, answer, old, told
<1> QED
  BY <1>4, <1>5, <1>11

\* What it does to the channels there were.
LEMMA ConnectOthers ==
    ASSUME TypeOK, LinkInv, NEW a \in Agent, NEW t \in AgentRec,
           NEW acked \in Int, NEW answer, NEW old, NEW told,
           Resumed(a, t, acked, answer, old, told),
           NEW k \in Conn, k # nextConn
    PROVE  /\ Quiet(k)
           /\ k > nextConn => ~Open(k)' /\ down'[k] = <<>>
<1> DEFINE c == nextConn
           gone == Evicted(a)
<1>1. /\ conn'[k] = IF k \in gone THEN NoChannel
                    ELSE IF k = old /\ conn[k].holding = agent[a].cur.job
                         THEN [conn[k] EXCEPT !.holding = NoJob]
                    ELSE conn[k]
      /\ up'[k] \in {up[k], <<>>}
      /\ down'[k] = down[k]
      /\ old = IF answer = "moves" THEN Detached(gone)[agent[a].cur.job].conn
               ELSE NoConn
      /\ answer # "none" => agent[a].cur.job \in Job
  BY DEF Resumed, TypeOK
<1>2. conn[k] \in ChannelRec
  BY DEF TypeOK
<1>3. /\ [conn[k] EXCEPT !.holding = NoJob].agent = conn[k].agent
      /\ [conn[k] EXCEPT !.holding = NoJob].ready = conn[k].ready
  BY <1>2 DEF ChannelRec, NoChannel
<1>4. Quiet(k)
  <2> HIDE DEF gone
  <2> QED
    BY <1>1, <1>3 DEF Quiet, UpQuiet, ConnQuiet, DownQuiet
<1>5. ASSUME k > nextConn
      PROVE  ~Open(k)' /\ down'[k] = <<>>
  <2>1. ~Open(k) /\ down[k] = <<>>
    BY <1>5 DEF LinkInv, Unopened, TypeOK
  <2>2. k = old => answer = "moves"
    <3>1. k # NoConn
      BY LeaseAssumption
    <3> HIDE DEF gone
    <3> QED
      BY <1>1, <3>1
  <2>3. ~(k = old /\ conn[k].holding = agent[a].cur.job)
    BY <1>1, <2>1, <2>2, NoJobs DEF Open, NoChannel
  <2> HIDE DEF gone
  <2> QED
    BY <1>1, <2>1, <2>3 DEF Open
<1> QED
  BY <1>4, <1>5

LEMMA ConnectLinks ==
    ASSUME TypeOK, TypeOK', LinkInv, NEW a \in Agent, Connect(a)
    PROVE  LinkInv'
<1>1. PICK t \in AgentRec, acked \in Int : \E answer, old, told :
        Resumed(a, t, acked, answer, old, told)
  BY ConnectParts
<1>2. PICK answer, old, told : Resumed(a, t, acked, answer, old, told)
  BY <1>1
<1> DEFINE c == nextConn
           s == agent[a]
           u == AfterFlush(t)
<1>3. /\ c \in Conn /\ c \in Nat /\ nextConn' = c + 1 /\ s.link = NoConn
      /\ s \in AgentRec /\ Sound(s)
  BY <1>2 DEF Resumed, TypeOK, LinkInv, LinkAt
<1>4. ~Open(c) /\ down[c] = <<>> /\ c \notin Evicted(a)
  <2>1. ~Open(c) /\ down[c] = <<>>
    BY <1>3 DEF LinkInv, Unopened
  <2>2. conn[c].agent # a
    BY <2>1, StoreAssumption DEF Open, NoChannel
  <2> QED
    BY <2>1, <2>2 DEF Evicted
<1>5. t.link = c /\ Sound(t)
  <2>1. /\ t = Welcomed(s, c, told, acked)
        /\ told \in {"none", "continue", "lease_lost", "cancelled", "reroute"}
        /\ told = "none" => ~Runs(s)
    BY <1>2 DEF Resumed
  <2> HIDE DEF s, c
  <2> QED
    BY <1>3, <2>1, WelcomedTurns, ZenonT(30)
<1>6. conn'[c].agent = a /\ conn'[c].ready = FALSE
  BY <1>2, <1>3, <1>4 DEF Resumed
<1>7. \A k \in Conn \ {c} : Quiet(k)
  BY <1>2, ConnectOthers
<1>8. \A k \in Conn : k > c => ~Open(k)' /\ down'[k] = <<>>
  BY <1>2, <1>3, ConnectOthers
<1>9. \A b \in Agent : LinkAt(b) /\ agent[b].link \in Conn \cup {NoConn}
                       /\ agent[b].link < c
  BY <1>3 DEF LinkInv, LinkAt, TypeOK, AgentRec
<1>10. nextConn' >= nextConn
  BY <1>3
<1>11. CASE UNCHANGED agent
  <2>1. \A b \in Agent : LinkAt(b)'
    BY <1>7, <1>9, <1>10, <1>11, QuietAt
  <2>2. LinksDiffer'
    BY <1>11 DEF LinkInv, LinksDiffer
  <2>3. CASE down'[c] = down[c]
    <3>1. Unopened'
      BY <1>3, <1>8 DEF Unopened
    <3> QED
      BY <2>1, <2>2, <3>1 DEF LinkInv
  <2>4. \A k \in Conn : k >= nextConn' => k > c
    BY <1>3
  <2>5. Unopened'
    BY <1>8, <2>4 DEF Unopened
  <2> QED
    BY <2>1, <2>2, <2>5 DEF LinkInv
<1>12. CASE ~UNCHANGED agent
  <2>1. /\ agent' = [agent EXCEPT ![a] = u]
        /\ up'[c] = FramesOf(t)
        /\ down'[c] = down[c] \/ \E j, e, b : down'[c] = <<VerdictOrder(j, e, b)>>
    <3> HIDE DEF u
    <3>1. /\ agent' = [agent EXCEPT ![a] = u]
          /\ up' = [k \in Conn |-> IF k \in Evicted(a) THEN <<>>
                                   ELSE IF k = c THEN FramesOf(t)
                                   ELSE up[k]]
          /\ down' = IF answer = "settled"
                     THEN [down EXCEPT ![c] = <<VerdictOrder(s.cur.job,
                              s.cur.epoch, settled[s.cur.job].accepted)>>]
                     ELSE down
      BY <1>2, <1>12 DEF Resumed, u
    <3> QED
      BY <1>3, <1>4, <3>1 DEF TypeOK
  <2>2. None(down'[c], "assign")
    <3>1. \A j, e, b : VerdictOrder(j, e, b).type # "assign"
      BY DEF VerdictOrder, Order
    <3>2. \A m : m.type # "assign" => None(<<m>>, "assign")
      BY DEF None
    <3> QED
      BY <1>4, <2>1, <3>1, <3>2, NoneOfNone
  <2>3. /\ u.link = c /\ u.pending = <<>> /\ u.ready = FALSE
        /\ AtMostOne(FramesOf(t), "ready")
        /\ Holds(u) => None(FramesOf(t), "ready")
    BY <1>5, FlushTurns
  <2> HIDE DEF u
  <2>4. OneToken(conn'[c].ready, up'[c], down'[c], Holds(u))
    BY <1>6, <2>1, <2>2, <2>3, NoneIsFew DEF OneToken
  <2>5. agent'[a] = u /\ \A b \in Agent \ {a} : agent'[b] = agent[b]
    BY <2>1 DEF TypeOK
  <2>6. LinkAt(a)'
    <3>1. Sound(u)
      BY <2>3, NoneOfNone DEF Sound
    <3> QED
      BY <1>3, <1>6, <2>3, <2>4, <2>5, <3>1 DEF LinkAt
  <2>7. ASSUME NEW b \in Agent, b # a PROVE LinkAt(b)'
    <3>1. agent[b].link # NoConn => Quiet(agent[b].link)
      BY <1>3, <1>7, <1>9
    <3> QED
      BY <1>9, <1>10, <2>5, <2>7, <3>1, QuietAt
  <2>8. LinksDiffer'
    <3>1. ASSUME NEW b \in Agent, NEW d \in Agent,
                 agent'[b].link # NoConn, agent'[b].link = agent'[d].link
          PROVE  b = d
      BY <1>3, <1>9, <2>3, <2>5, <3>1 DEF LinkInv, LinksDiffer
    <3> QED
      BY <3>1 DEF LinksDiffer
  <2>9. \A k \in Conn : k >= nextConn' => k > c
    BY <1>3
  <2>10. Unopened'
    BY <1>8, <2>9 DEF Unopened
  <2> QED
    BY <2>6, <2>7, <2>8, <2>10 DEF LinkInv
<1> QED
  BY <1>11, <1>12

\* What a turn of agent a does: it makes no token, but for the `assign` it
\* reads, which finds it free.
TakesTurn(a, t) ==
    /\ Turn(a, t) /\ UNCHANGED <<jobs, process, hub, down>>
    /\ Turned(agent[a], t)
ReadsOrder(a, t) ==
    /\ Turn(a, t) /\ UNCHANGED <<jobs, process, hub>>
    /\ agent[a].link # NoConn /\ down[agent[a].link] # <<>>
    /\ down' = [down EXCEPT ![agent[a].link] = Tail(@)]
    /\ \/ Turned(agent[a], t)
       \/ LET m == Head(down[agent[a].link]) IN
          /\ m \in OrderRec /\ m.type = "assign" /\ ~Holds(agent[a])
          /\ t.link = agent[a].link /\ Sound(t)
          /\ t.cur.job = m.job /\ t.cur.epoch = m.epoch

LEMMA TurnsTaken ==
    ASSUME TypeOK, LinkInv, NEW a \in Agent,
           JobProgress(a) \/ JobFinished(a) \/ JobKilled(a) \/ HoldExpires(a)
    PROVE  \E t \in AgentRec : TakesTurn(a, t)
<1> DEFINE s == agent[a]
<1>1. s \in AgentRec /\ Sound(s)
  BY DEF TypeOK, LinkInv, LinkAt
<1> HIDE DEF s
<1>2. \A ev \in JobEvent, done \in {"no", "result", "failed"} :
        /\ Reports(s, ev) \in AgentRec /\ Turned(s, Reports(s, ev))
        /\ EndsWith(s, ev, done) \in AgentRec /\ Turned(s, EndsWith(s, ev, done))
  BY <1>1, ReportsTyped, ReportsTurn
<1>3. \A why \in Reason \cup {"no"} :
        Holds(s) => LetGo(s, why) \in AgentRec /\ Turned(s, LetGo(s, why))
  BY <1>1, LetGoTyped, LetGoTurns
<1>4. {"features", "result", "denied", "failed"} \subseteq JobEvent
  BY DEF JobEvent, Terminal
<1>5. CASE JobProgress(a)
  BY <1>2, <1>4, <1>5 DEF JobProgress, TakesTurn, s
<1>6. CASE JobFinished(a)
  <2>1. Holds(s)
    BY <1>6 DEF JobFinished, Working, Runs, s
  <2>2. "oom" \in Reason
    BY DEF Reason
  <2>3. UNCHANGED <<jobs, process, hub, down>>
    BY <1>6 DEF JobFinished
  <2>4. \/ Turn(a, EndsWith(s, "result", "result"))
        \/ Turn(a, EndsWith(s, "denied", "failed"))
        \/ Turn(a, EndsWith(s, "failed", "failed"))
        \/ Turn(a, LetGo(s, "oom"))
    BY <1>6 DEF JobFinished, s
  <2> QED
    BY <1>2, <1>3, <1>4, <2>1, <2>2, <2>3, <2>4 DEF TakesTurn, s
<1>7. CASE JobKilled(a)
  <2>1. Holds(s) /\ s.cur.released \in Reason
    BY <1>1, <1>7 DEF JobKilled, Runs, s, AgentRec, CurrentRec
  <2>2. Turn(a, LetGo(s, s.cur.released))
        /\ UNCHANGED <<jobs, process, hub, down>>
    BY <1>7 DEF JobKilled, s
  <2> QED
    BY <1>3, <2>1, <2>2 DEF TakesTurn, s
<1>8. CASE HoldExpires(a)
  <2>1. Holds(s) /\ Turn(a, LetGo(s, "no"))
        /\ UNCHANGED <<jobs, process, hub, down>>
    BY <1>8 DEF HoldExpires, s
  <2> QED
    BY <1>3, <2>1 DEF TakesTurn, s
<1> QED
  BY <1>5, <1>6, <1>7, <1>8

LEMMA OrdersRead ==
    ASSUME TypeOK, LinkInv, NEW a \in Agent, OnOrder(a)
    PROVE  \E t \in AgentRec : ReadsOrder(a, t)
<1> DEFINE s == agent[a]
           m == Next1(a)
<1>1. s \in AgentRec /\ Sound(s) /\ LinkAt(a)
  BY DEF TypeOK, LinkInv, LinkAt
<1>2. \A type : Reads(a, type) =>
         /\ s.link \in Conn /\ m \in OrderRec /\ m.type = type
  BY ReadTyped
<1>3. /\ UNCHANGED <<jobs, process, hub>>
      /\ s.link # NoConn /\ down[s.link] # <<>>
      /\ down' = [down EXCEPT ![s.link] = Tail(@)]
  BY DEF OnOrder, Reads
<1>4. m = Head(down[s.link])
  BY DEF Next1
<1>5. \/ Reads(a, "assign") /\ Turn(a, Assigned(s, m))
      \/ Reads(a, "cancel") /\ Turn(a, Cancelled(s, m))
      \/ Reads(a, "verdict") /\ Turn(a, Answered(s, m))
      \/ Reads(a, "renewed") /\ Turn(a, Renewed(s, m))
  BY DEF OnOrder
<1> HIDE DEF m, s
<1>6. CASE Reads(a, "assign") /\ Turn(a, Assigned(s, m))
  <2>1. m \in OrderRec /\ m.type = "assign"
    BY <1>2, <1>6
  <2>2. ~Holds(s) /\ ~Occupied(s)
    <3>1. down[s.link] \in Seq(OrderRec)
      BY <1>2, <1>6 DEF TypeOK
    <3>2. ~None(down[s.link], "assign")
      BY <1>3, <1>4, <2>1, <3>1, Tails
    <3>3. s.ready = FALSE /\ OneToken(conn[s.link].ready, up[s.link],
                                     down[s.link], Holds(s))
      BY <1>1, <1>3 DEF LinkAt, s
    <3> QED
      BY <3>2, <3>3 DEF OneToken, Occupied
  <2>3. /\ Assigned(s, m).link = s.link /\ Sound(Assigned(s, m))
        /\ Assigned(s, m).cur = [Idle EXCEPT !.job = m.job, !.epoch = m.epoch]
    BY <1>1, <2>1, <2>2, AssignedTurns
  <2>4. Assigned(s, m).cur.job = m.job /\ Assigned(s, m).cur.epoch = m.epoch
    BY <2>3 DEF Idle
  <2>5. Assigned(s, m) \in AgentRec
    BY <1>1, <2>1, AssignedTyped
  <2>6. ReadsOrder(a, Assigned(s, m))
    <3> DEFINE t == Assigned(s, m)
    <3>1. Turn(a, t)
      BY <1>6
    <3> HIDE DEF t
    <3> QED
      BY <1>3, <1>4, <2>1, <2>2, <2>3, <2>4, <3>1 DEF ReadsOrder, s, t
  <2> QED
    BY <2>5, <2>6
<1>7. ASSUME NEW t \in AgentRec, Turn(a, t), Turned(s, t)
      PROVE  ReadsOrder(a, t)
  BY <1>3, <1>7 DEF ReadsOrder, s
<1>8. CASE Reads(a, "cancel") /\ Turn(a, Cancelled(s, m))
  <2>1. Cancelled(s, m) \in AgentRec /\ Turned(s, Cancelled(s, m))
    BY <1>1, <1>2, <1>8, CancelledTyped, OrdersTurn
  <2> QED
    BY <1>7, <1>8, <2>1
<1>9. CASE Reads(a, "verdict") /\ Turn(a, Answered(s, m))
  <2>1. Answered(s, m) \in AgentRec /\ Turned(s, Answered(s, m))
    BY <1>1, <1>2, <1>9, AnsweredTyped, OrdersTurn
  <2> QED
    BY <1>7, <1>9, <2>1
<1>10. CASE Reads(a, "renewed") /\ Turn(a, Renewed(s, m))
  <2>1. Renewed(s, m) \in AgentRec /\ Turned(s, Renewed(s, m))
    BY <1>1, <1>2, <1>10, RenewedTyped, OrdersTurn
  <2> QED
    BY <1>7, <1>10, <2>1
<1> QED
  BY <1>5, <1>6, <1>8, <1>9, <1>10

LEMMA TurnsLink ==
    ASSUME TypeOK, LinkInv, NEW a \in Agent, NEW t \in AgentRec,
           TakesTurn(a, t) \/ ReadsOrder(a, t)
    PROVE  LinkInv'
<1>1. UNCHANGED <<conn, nextConn>> /\ Turn(a, t)
  BY DEF TakesTurn, ReadsOrder, hub
<1>2. t.link = agent[a].link /\ Sound(t)
  BY DEF TakesTurn, ReadsOrder, Turned
<1>3. CASE TakesTurn(a, t)
  BY <1>1, <1>2, <1>3, TurnLinks DEF TakesTurn, Turned
<1>4. CASE ReadsOrder(a, t)
  <2>1. /\ t.link # NoConn /\ down[t.link] # <<>>
        /\ down' = [down EXCEPT ![t.link] = Tail(@)]
        /\ Occupied(t) => \/ Occupied(agent[a])
                          \/ Head(down[t.link]).type = "assign"
    BY <1>2, <1>4 DEF ReadsOrder, Turned
  <2> QED
    BY <1>1, <1>2, <2>1, TurnLinks
<1> QED
  BY <1>3, <1>4

\* An agent that loses its channel, or only notes how its uploads went.
LEMMA LosesLink ==
    ASSUME TypeOK, LinkInv, UNCHANGED <<conn, nextConn, up>>,
           NEW a \in Agent, NEW t, agent' = [agent EXCEPT ![a] = t],
           Sound(t),
           \/ /\ t.link = NoConn
              /\ down' = [c \in Conn |-> IF c = agent[a].link THEN <<>>
                                         ELSE down[c]]
           \/ /\ t.link = agent[a].link /\ t.ready = agent[a].ready
              /\ t.pending = agent[a].pending /\ Holds(t) = Holds(agent[a])
              /\ UNCHANGED down
    PROVE  LinkInv'
<1>1. agent'[a] = t /\ \A b \in Agent \ {a} : agent'[b] = agent[b]
  BY DEF TypeOK
<1>2. \A b \in Agent : LinkAt(b) /\ agent[b].link \in Conn \cup {NoConn}
                       /\ down \in [Conn -> Seq(OrderRec)] /\ nextConn > 0
  BY DEF LinkInv, TypeOK, AgentRec
<1>3. LinkAt(a)'
  <2>1. CASE t.link = NoConn
    BY <1>1, <1>2, <2>1 DEF LinkAt, TypeOK
  <2>2. CASE t.link # NoConn
    BY <1>1, <1>2, <2>2 DEF LinkAt, Open
  <2> QED
    BY <2>1, <2>2
<1>4. ASSUME NEW b \in Agent, b # a
      PROVE  LinkAt(b)'
  <2>1. agent[b].link # NoConn => agent[b].link # agent[a].link
    BY <1>4 DEF LinkInv, LinksDiffer
  <2>2. agent[b].link # NoConn => down'[agent[b].link] = down[agent[b].link]
    BY <1>2, <2>1
  <2> QED
    BY <1>1, <1>2, <1>4, <2>2 DEF LinkAt, Open
<1>5. LinksDiffer'
  BY <1>1 DEF LinkInv, LinksDiffer
<1>6. Unopened'
  BY <1>2 DEF LinkInv, Unopened, Open
<1> QED
  BY <1>3, <1>4, <1>5, <1>6 DEF LinkInv

LEMMA UploadLinks ==
    ASSUME TypeOK, LinkInv, NEW a \in Agent, Upload(a)
    PROVE  /\ LinkInv'
           /\ \E how : agent' = [agent EXCEPT ![a] =
                                   [agent[a] EXCEPT !.cur.up = how]]
<1>1. UNCHANGED <<conn, nextConn, up, down>>
  BY DEF Upload
<1>2. PICK how : agent' = [agent EXCEPT ![a].cur.up = how]
  BY DEF Upload
<1> DEFINE t == [agent[a] EXCEPT !.cur.up = how]
<1>3. agent' = [agent EXCEPT ![a] = t]
  BY <1>2 DEF TypeOK
<1>4. /\ t.link = agent[a].link /\ t.ready = agent[a].ready
      /\ t.pending = agent[a].pending /\ t.cur.job = agent[a].cur.job
  BY ZenonT(30) DEF TypeOK, AgentRec, CurrentRec
<1>5. Sound(agent[a])
  BY DEF LinkInv, LinkAt
<1> HIDE DEF t
<1>6. Sound(t) /\ Holds(t) = Holds(agent[a])
  BY <1>4, <1>5 DEF Sound, Holds
<1>7. LinkInv'
  BY <1>1, <1>3, <1>4, <1>6, LosesLink
<1> QED
  BY <1>3, <1>7 DEF t

LEMMA DisconnectLinks ==
    ASSUME TypeOK, LinkInv, NEW a \in Agent, Disconnect(a) \/ AgentCrash(a)
    PROVE  /\ LinkInv'
           /\ \E t : /\ agent' = [agent EXCEPT ![a] = t] /\ t.link = NoConn
                     /\ SameJob(agent[a], t)
           /\ down' = [c \in Conn |-> IF c = agent[a].link THEN <<>> ELSE down[c]]
<1>1. UNCHANGED <<conn, nextConn, up>>
  BY DEF Disconnect, AgentCrash, hub
<1>2. Sound(agent[a]) /\ agent[a] \in AgentRec
  BY DEF LinkInv, LinkAt, TypeOK
<1>3. down' = [c \in Conn |-> IF c = agent[a].link THEN <<>> ELSE down[c]]
  <2>1. CASE AgentCrash(a)
    BY <2>1 DEF AgentCrash
  <2>2. CASE Disconnect(a)
    BY <2>2 DEF Disconnect, TypeOK
  <2> QED
    BY <2>1, <2>2
<1>4. PICK t : /\ agent' = [agent EXCEPT ![a] = t] /\ t.link = NoConn
               /\ Sound(t) /\ SameJob(agent[a], t)
  <2>1. CASE AgentCrash(a)
    <3>1. /\ agent' = [agent EXCEPT ![a] = NewAgent] /\ NewAgent.link = NoConn
          /\ Sound(NewAgent) /\ ~Holds(NewAgent)
      BY <2>1, NoneOfNone DEF AgentCrash, NewAgent, Sound, Holds, Idle
    <3> QED
      BY <3>1 DEF SameJob
  <2>2. CASE Disconnect(a)
    <3> DEFINE t == [agent[a] EXCEPT !.link = NoConn]
    <3>1. agent' = [agent EXCEPT ![a] = t]
      BY <2>2 DEF Disconnect, TypeOK
    <3>2. /\ t.link = NoConn /\ t.cur = agent[a].cur
          /\ t.ready = agent[a].ready /\ t.pending = agent[a].pending
      BY <1>2 DEF AgentRec
    <3> HIDE DEF t
    <3>3. Sound(t) /\ SameJob(agent[a], t)
      BY <1>2, <3>2 DEF Sound, Holds, SameJob
    <3> QED
      BY <3>1, <3>2, <3>3
  <2> QED
    BY <2>1, <2>2
<1>5. LinkInv'
  BY <1>1, <1>3, <1>4, LosesLink
<1> QED
  BY <1>3, <1>4, <1>5

LEMMA NextLinks ==
    ASSUME TypeOK, LinkInv, [Next]_vars
    PROVE  LinkInv'
<1>1. TypeOK'
  BY NextTyped
<1>2. CASE UNCHANGED vars
  BY <1>2 DEF vars, hub, LinkInv, LinkAt, LinksDiffer, Unopened, Open
<1>3. ASSUME QuietStep PROVE LinkInv'
  BY <1>1, <1>3, QuietLinks DEF QuietStep
<1>4. ASSUME NEW a \in Agent, AgentStep(a)
      PROVE  LinkInv'
  <2>1. CASE JobProgress(a) \/ JobFinished(a) \/ JobKilled(a) \/ HoldExpires(a)
    BY <2>1, TurnsTaken, TurnsLink
  <2>2. CASE OnOrder(a)
    BY <2>2, OrdersRead, TurnsLink
  <2>3. CASE Upload(a) \/ Disconnect(a) \/ AgentCrash(a)
    BY <2>3, UploadLinks, DisconnectLinks
  <2>4. CASE Heartbeat(a) \/ Connect(a)
    BY <1>1, <2>4, HeartbeatLinks, ConnectLinks
  <2> QED
    BY <1>4, <2>1, <2>2, <2>3, <2>4 DEF AgentStep
<1>5. ASSUME NEW c \in Conn, ChannelStep(c)
      PROVE  LinkInv'
  BY <1>1, <1>3, <1>5, OnReadyLinks, ChannelQuiet
<1>6. ASSUME NEW j \in Job, RunnerStep(j)
      PROVE  LinkInv'
  BY <1>1, <1>3, <1>6, ClaimLinks, RunnerQuiet
<1>7. ASSUME (\E j \in Job : Expire(j) \/ UserCancel(j)) \/ Stop \/ Restart
      PROVE  LinkInv'
  BY <1>3, <1>7, SurroundingsQuiet
<1> QED
  BY <1>2, <1>4, <1>5, <1>6, <1>7 DEF Next

\* The tokens of ready and assign are one per agent's slot, whatever channel
\* was lost, replaced or evicted on the way (agent.rs `on_message`,
\* workers.rs `serve_agent`, `claim`).
THEOREM LinkInvariant == Spec => [](TypeOK /\ LinkInv)
<1>1. Init => TypeOK /\ LinkInv
  <2> SUFFICES ASSUME Init PROVE LinkInv
    BY InitTyped
  <2>1. \A c \in Conn : ~Open(c) /\ down[c] = <<>>
    BY DEF Init, Open
  <2>2. \A a \in Agent : agent[a] = NewAgent /\ nextConn = 1
    BY DEF Init
  <2>3. NewAgent.link = NoConn /\ Sound(NewAgent)
    BY NoneOfNone DEF NewAgent, Sound, Holds, Idle
  <2> QED
    BY <2>1, <2>2, <2>3 DEF LinkInv, LinkAt, LinksDiffer, Unopened
<1>2. TypeOK /\ LinkInv /\ [Next]_vars => (TypeOK /\ LinkInv)'
  BY NextTyped, NextLinks
<1> QED
  BY <1>1, <1>2, PTL DEF Spec

\* on_message's refusal of an `assign` (agent.rs) is never taken.
THEOREM AssignsFindFree == Spec => []AssignFindsFree
<1>1. TypeOK /\ LinkInv => AssignFindsFree
  <2> SUFFICES ASSUME TypeOK, LinkInv, NEW a \in Agent,
                      agent[a].link # NoConn,
                      NEW k \in DOMAIN down[agent[a].link],
                      down[agent[a].link][k].type = "assign"
               PROVE  ~Holds(agent[a])
    BY DEF AssignFindsFree
  <2>1. LinkAt(a) /\ ~None(down[agent[a].link], "assign")
    BY DEF LinkInv, None
  <2> QED
    BY <2>1 DEF LinkAt, OneToken
<1> QED
  BY <1>1, LinkInvariant, PTL

-----------------------------------------------------------------------------
\* One step of a job: its lease l, runner r and row w become m, q and v.

\* A row names a holder while its job is leased or running.
RowHolds(w) == w.status \in Holding <=> w.holder # NoAgent

HolderInv == \A j \in Job : /\ RowHolds(row[j])
                            /\ Held(j) => lease[j].agent \in Agent

\* A lease that stays is one agent's, for one attempt; what it was told of
\* uploads, and that it is lost, is not forgotten.
LeaseOn(l, m) == /\ m.agent = l.agent /\ m.epoch = l.epoch
                 /\ l.uploads => m.uploads
                 /\ l.time = "lost" => m.time = "lost"

\* A runner that stays asks what it asked.
RunnerOn(r, q) ==
    /\ q.adopted = r.adopted
    /\ ~r.adopted => /\ r.cancelSent => q.cancelSent
                     /\ r.to # NoClass => q.to # NoClass

\* The lease an agent is given by a claim, and the one a restart adopts.
GivenOut(r, w, m) ==
    r.pc = "claiming" /\ m.epoch = w.epoch /\ m.agent \in Agent
Adopted(w, m, q) ==
    /\ q.adopted /\ w.status \in Holding
    /\ m.agent = w.holder /\ m.epoch = w.epoch

RowOn(l, w, v) ==
    /\ RowHolds(v) /\ v.epoch >= w.epoch
    /\ \/ v.holder = NoAgent
       \/ v.holder = w.holder /\ v.epoch = w.epoch
       \/ l # NoLease /\ v.holder = l.agent /\ v.epoch = l.epoch

On(l, r, w, m, q, v) ==
    /\ RowOn(l, w, v)
    /\ q.pc = "claiming" => v.epoch > w.epoch \/ r.pc = "claiming"
    /\ m # NoLease => \/ l # NoLease /\ LeaseOn(l, m) /\ RunnerOn(r, q)
                      \/ GivenOut(r, w, m)
                      \/ Adopted(w, m, q)

JobOn(j) == On(lease[j], runner[j], row[j], lease'[j], runner'[j], row'[j])
Elsewhere(j) == \A k \in Job \ {j} : /\ lease'[k] = lease[k]
                                     /\ runner'[k] = runner[k]
                                     /\ row'[k] = row[k]

LEMMA OnSame ==
    ASSUME NEW l, NEW r, NEW w, RowHolds(w), w.epoch \in Nat
    PROVE  On(l, r, w, l, r, w)
BY DEF On, RowOn, LeaseOn, RunnerOn

LEMMA JobsOn ==
    ASSUME TypeOK, HolderInv, NEW j \in Job, JobOn(j), Elsewhere(j)
    PROVE  \A k \in Job : JobOn(k)
<1>1. \A k \in Job : RowHolds(row[k]) /\ row[k].epoch \in Nat
  BY DEF HolderInv, TypeOK, Row
<1>2. ASSUME NEW k \in Job, k # j PROVE JobOn(k)
  <2>1. On(lease[k], runner[k], row[k], lease[k], runner[k], row[k])
    BY <1>1, OnSame
  <2> QED
    BY <1>2, <2>1 DEF JobOn, Elsewhere
<1> QED
  BY <1>2

\* What the runner makes of itself.
LEMMA RunnerForms ==
    ASSUME NEW r \in RunnerRec
    PROVE  /\ \A pc : LET q == [r EXCEPT !.pc = pc]
                      IN  RunnerOn(r, q) /\ q.pc = pc
           /\ RunnerOn(r, [r EXCEPT !.read = @ + 1])
           /\ \A close, after : LET q == Ending(r, close, after)
                                IN  RunnerOn(r, q) /\ q.pc = "ending"
           /\ \A close, counted, to :
                LET q == Requeueing(r, close, counted, to)
                IN  /\ q.pc = "ending"
                    /\ r.adopted \/ r.to = NoClass \/ to # NoClass
                       => RunnerOn(r, q)
           /\ LET q == [r EXCEPT !.cancelSent = TRUE]
              IN  RunnerOn(r, q) /\ q.pc = r.pc
           /\ \A class : LET q == [r EXCEPT !.pc = "running", !.class = class]
                         IN  RunnerOn(r, q) /\ q.pc = "running"
           /\ \A to : LET q == [r EXCEPT !.to = to]
                      IN  /\ q.pc = r.pc
                          /\ to # NoClass => RunnerOn(r, q)
BY DEF RunnerRec, RunnerOn, Ending, Requeueing

LEMMA RunnerOnOn ==
    ASSUME NEW r, NEW q, NEW s, RunnerOn(r, q), RunnerOn(q, s)
    PROVE  RunnerOn(r, s)
BY DEF RunnerOn

\* What the store makes of a row.
LEMMA RowForms ==
    ASSUME NEW w \in Row, RowHolds(w), NEW l
    PROVE  /\ RowOn(l, w, w)
           /\ \A status \in Ended : RowOn(l, w, FinishJob(w, status))
           /\ \A counted : RowOn(l, w, Requeue(w, counted))
           /\ \A class : RowOn(l, w, Rebind(w, class))
           /\ w.status = "queued" => /\ RowOn(l, w, BeginAttempt(w))
                                     /\ BeginAttempt(w).epoch > w.epoch
           /\ (l # NoLease /\ l.agent \in Agent)
              => RowOn(l, w, SaveJobState(w, l.epoch, "leased", l.agent))
           /\ \A e : w.status # "queued"
                     => RowOn(l, w, SaveJobState(w, e, "running", NoAgent))
<1>1. w.epoch \in Nat /\ NoAgent \notin Agent
  BY StoreAssumption DEF Row
<1>2. \A status \in Ended : RowOn(l, w, FinishJob(w, status))
  BY <1>1 DEF Row, RowOn, RowHolds, FinishJob, IsLive, Live, Ended, Holding
<1>3. \A counted : RowOn(l, w, Requeue(w, counted))
  BY <1>1 DEF Row, RowOn, RowHolds, Requeue, Holding
<1>4. \A class : RowOn(l, w, Rebind(w, class))
  BY <1>1 DEF Row, RowOn, RowHolds, Rebind, Holding
<1>5. w.status = "queued" => /\ RowOn(l, w, BeginAttempt(w))
                             /\ BeginAttempt(w).epoch > w.epoch
  BY <1>1 DEF Row, RowOn, RowHolds, BeginAttempt, Holding
<1>6. (l # NoLease /\ l.agent \in Agent)
      => RowOn(l, w, SaveJobState(w, l.epoch, "leased", l.agent))
  BY <1>1 DEF Row, RowOn, RowHolds, SaveJobState, Holding
<1>7. \A e : w.status # "queued"
             => RowOn(l, w, SaveJobState(w, e, "running", NoAgent))
  BY <1>1 DEF Row, RowOn, RowHolds, SaveJobState, IsLive, Live, Holding
<1>8. RowOn(l, w, w)
  BY <1>1 DEF RowOn
<1> QED
  BY <1>2, <1>3, <1>4, <1>5, <1>6, <1>7, <1>8

LEMMA OneOn ==
    ASSUME TypeOK, NEW j \in Job, NEW m, NEW q, NEW v,
           lease' = [lease EXCEPT ![j] = m], runner' = [runner EXCEPT ![j] = q],
           row' = [row EXCEPT ![j] = v],
           On(lease[j], runner[j], row[j], m, q, v)
    PROVE  JobOn(j) /\ Elsewhere(j)
<1>1. lease'[j] = m /\ runner'[j] = q /\ row'[j] = v
  BY DEF TypeOK
<1>2. Elsewhere(j)
  BY DEF Elsewhere, TypeOK
<1> QED
  BY <1>1, <1>2 DEF JobOn

\* What a runner's step makes of its row, and of its lease as it goes on
\* as q.
RowGoes(j) == \E v : /\ row' = [row EXCEPT ![j] = v]
                     /\ RowOn(lease[j], row[j], v)
LeaseGoes(j, q) ==
    \E m : /\ lease' = [lease EXCEPT ![j] = m]
           /\ m # NoLease => /\ lease[j] # NoLease /\ LeaseOn(lease[j], m)
                             /\ RunnerOn(runner[j], q)

LEMMA RunnerGoes ==
    ASSUME LifeInv, NEW j \in Job, NEW q, Goes(j, q), q.pc # "claiming",
           RowGoes(j), LeaseGoes(j, q)
    PROVE  JobOn(j) /\ Elsewhere(j)
<1>1. PICK v : /\ row' = [row EXCEPT ![j] = v]
               /\ RowOn(lease[j], row[j], v)
  BY DEF RowGoes
<1>2. PICK m : /\ lease' = [lease EXCEPT ![j] = m]
               /\ m # NoLease => /\ lease[j] # NoLease /\ LeaseOn(lease[j], m)
                                 /\ RunnerOn(runner[j], q)
  BY DEF LeaseGoes
<1>3. On(lease[j], runner[j], row[j], m, q, v)
  BY <1>1, <1>2 DEF On
<1> QED
  BY <1>1, <1>2, <1>3, OneOn DEF Goes, LifeInv, FenceInv

LEMMA Known ==
    ASSUME LifeInv, HolderInv, NEW j \in Job
    PROVE  /\ TypeOK /\ FenceInv
           /\ lease[j] \in LeaseRec /\ runner[j] \in RunnerRec /\ row[j] \in Row
           /\ ReadOn(j) \in RunnerRec /\ RunnerOn(runner[j], ReadOn(j))
           /\ RowHolds(row[j])
           /\ FencedAt(lease[j], runner[j], row[j])
           /\ StandsAt(runner[j], row[j], published[j])
           /\ lease[j] # NoLease => lease[j].agent \in Agent
<1>1. TypeOK /\ FenceInv
  BY DEF LifeInv, FenceInv
<1>2. runner[j] \in RunnerRec /\ ReadOn(j) \in RunnerRec
  BY <1>1, ReadOnTyped
<1>3. RunnerOn(runner[j], ReadOn(j))
  BY <1>2, RunnerForms DEF ReadOn
<1> QED
  BY <1>1, <1>2, <1>3, NotInCharge, OfOne DEF HolderInv, Held

LEMMA RowsGo ==
    ASSUME LifeInv, HolderInv, NEW j \in Job
    PROVE  /\ UNCHANGED row => RowGoes(j)
           /\ \A status \in Ended : \A how : Ends(j, status, how) => RowGoes(j)
<1>1. TypeOK /\ row[j] \in Row /\ RowHolds(row[j])
  BY Known
<1>2. UNCHANGED row => row' = [row EXCEPT ![j] = row[j]]
  BY <1>1, Same
<1>3. RowOn(lease[j], row[j], row[j])
  BY <1>1, RowForms
<1>4. ASSUME NEW status \in Ended, NEW how, Ends(j, status, how)
      PROVE  RowGoes(j)
  <2>1. row' = [row EXCEPT ![j] = FinishJob(row[j], status)]
    BY <1>4 DEF Ends
  <2>2. RowOn(lease[j], row[j], FinishJob(row[j], status))
    BY <1>1, RowForms
  <2> QED
    BY <2>1, <2>2 DEF RowGoes
<1> QED
  BY <1>2, <1>3, <1>4 DEF RowGoes

LEMMA LeasesGo ==
    ASSUME LifeInv, HolderInv, NEW j \in Job, NEW q
    PROVE  /\ UNCHANGED lease /\ runner[j].pc \in Owning
                /\ RunnerOn(runner[j], q) => LeaseGoes(j, q)
           /\ UNCHANGED lease /\ runner[j].pc \notin Owning => LeaseGoes(j, q)
           /\ lease' = [lease EXCEPT ![j] = NoLease] => LeaseGoes(j, q)
           /\ runner[j].pc \in Owning /\ RunnerOn(runner[j], q)
              => /\ lease' = [lease EXCEPT ![j].cancelled = TRUE] => LeaseGoes(j, q)
                 /\ lease' = [lease EXCEPT ![j].rerouting = TRUE] => LeaseGoes(j, q)
                 /\ lease' = [lease EXCEPT ![j].time = "lost"] => LeaseGoes(j, q)
<1> DEFINE l == lease[j]
<1>1. TypeOK /\ l \in LeaseRec /\ lease \in [Job -> LeaseRec]
      /\ (l # NoLease <=> runner[j].pc \in Owning)
  BY Known DEF TypeOK, FencedAt
<1>2. UNCHANGED lease => lease' = [lease EXCEPT ![j] = l]
  BY <1>1, Same
<1>3. LeaseOn(l, l)
  BY DEF LeaseOn
<1>4. /\ LeaseOn(l, [l EXCEPT !.cancelled = TRUE])
      /\ LeaseOn(l, [l EXCEPT !.rerouting = TRUE])
      /\ LeaseOn(l, [l EXCEPT !.time = "lost"])
  BY <1>1 DEF LeaseOn, LeaseRec
<1>5. /\ [lease EXCEPT ![j].cancelled = TRUE]
           = [lease EXCEPT ![j] = [l EXCEPT !.cancelled = TRUE]]
      /\ [lease EXCEPT ![j].rerouting = TRUE]
           = [lease EXCEPT ![j] = [l EXCEPT !.rerouting = TRUE]]
      /\ [lease EXCEPT ![j].time = "lost"]
           = [lease EXCEPT ![j] = [l EXCEPT !.time = "lost"]]
  BY <1>1
<1> HIDE DEF l
<1>6. UNCHANGED lease /\ runner[j].pc \in Owning
        /\ RunnerOn(runner[j], q) => LeaseGoes(j, q)
  BY <1>1, <1>2, <1>3 DEF LeaseGoes, l
<1>7. UNCHANGED lease /\ runner[j].pc \notin Owning => LeaseGoes(j, q)
  BY <1>1, <1>2 DEF LeaseGoes, l
<1>8. lease' = [lease EXCEPT ![j] = NoLease] => LeaseGoes(j, q)
  BY DEF LeaseGoes
<1>9. ASSUME runner[j].pc \in Owning, RunnerOn(runner[j], q), NEW m,
             lease' = [lease EXCEPT ![j] = m], LeaseOn(l, m)
      PROVE  LeaseGoes(j, q)
  BY <1>1, <1>9 DEF LeaseGoes, l
<1> QED
  BY <1>4, <1>5, <1>6, <1>7, <1>8, <1>9

\* The runner's own forms, as they are or once it has read an event.
LEMMA FormsGo ==
    ASSUME LifeInv, HolderInv, NEW j \in Job, NEW r,
           r = runner[j] \/ r = ReadOn(j)
    PROVE  /\ r \in RunnerRec /\ RunnerOn(runner[j], r) /\ r.pc = runner[j].pc
           /\ r.adopted = runner[j].adopted /\ r.to = runner[j].to
           /\ \A pc : LET q == [r EXCEPT !.pc = pc]
                      IN  RunnerOn(runner[j], q) /\ q.pc = pc
           /\ \A close, after : LET q == Ending(r, close, after)
                                IN  RunnerOn(runner[j], q) /\ q.pc # "claiming"
           /\ \A close, counted, to :
                LET q == Requeueing(r, close, counted, to)
                IN  /\ q.pc # "claiming"
                    /\ runner[j].adopted \/ runner[j].to = NoClass \/ to # NoClass
                       => RunnerOn(runner[j], q)
           /\ \A to : LET q == [r EXCEPT !.to = to]
                      IN  /\ q.pc = r.pc
                          /\ to # NoClass => RunnerOn(runner[j], q)
<1>1. /\ r \in RunnerRec /\ RunnerOn(runner[j], r)
  BY Known DEF RunnerOn
<1>2. r.pc = runner[j].pc /\ r.adopted = runner[j].adopted
      /\ r.to = runner[j].to
  BY Known DEF ReadOn, RunnerRec
<1> DEFINE s == runner[j]
<1> HIDE DEF s
<1>3. /\ \A pc : LET q == [r EXCEPT !.pc = pc]
                 IN  RunnerOn(s, q) /\ q.pc = pc
      /\ \A to : LET q == [r EXCEPT !.to = to]
                 IN  /\ q.pc = r.pc
                     /\ to # NoClass => RunnerOn(s, q)
  BY <1>1, <1>2 DEF RunnerRec, RunnerOn, s
<1>4. \A close, after : LET q == Ending(r, close, after)
                       IN  RunnerOn(s, q) /\ q.pc # "claiming"
  BY <1>1 DEF RunnerRec, RunnerOn, Ending, s
<1>5. \A close, counted, to :
        LET q == Requeueing(r, close, counted, to)
        IN  /\ q.pc # "claiming"
            /\ s.adopted \/ s.to = NoClass \/ to # NoClass
               => RunnerOn(s, q)
  BY <1>1, <1>2 DEF RunnerRec, RunnerOn, Ending, Requeueing, s
<1> QED
  BY <1>1, <1>2, <1>3, <1>4, <1>5 DEF s

LEMMA StartOn ==
    ASSUME LifeInv, HolderInv, NEW j \in Job, Start(j) \/ GiveUp(j) \/ Claim(j)
    PROVE  JobOn(j) /\ Elsewhere(j)
<1> DEFINE l == lease[j]
           r == runner[j]
           w == row[j]
<1>1. /\ TypeOK /\ l \in LeaseRec /\ r \in RunnerRec /\ w \in Row /\ RowHolds(w)
      /\ FencedAt(l, r, w) /\ StandsAt(r, w, published[j])
  BY Known
<1>2. CASE Start(j)
  <2> DEFINE v == BeginAttempt(w)
  <2>1. PICK class : Goes(j, [Fresh EXCEPT !.pc = "claiming", !.class = class,
                                           !.epoch = v.epoch])
    BY <1>2 DEF Start
  <2> DEFINE q == [Fresh EXCEPT !.pc = "claiming", !.class = class,
                                !.epoch = v.epoch]
  <2>2. /\ UNCHANGED lease /\ row' = [row EXCEPT ![j] = v]
        /\ r.pc = "queued" /\ IsLive(w)
    BY <1>2 DEF Start, At, hub
  <2>3. l = NoLease /\ w.status = "queued"
    BY <1>1, <2>2 DEF FencedAt, StandsAt, IsLive, Live, Holding, Owning
  <2>4. RowOn(l, w, v) /\ v.epoch > w.epoch
    BY <1>1, <2>3, RowForms
  <2>5. lease' = [lease EXCEPT ![j] = l]
    BY <1>1, <2>2, Same
  <2> HIDE DEF l, r, w, v, q
  <2>6. On(l, r, w, l, q, v)
    BY <2>3, <2>4 DEF On
  <2> QED
    BY <1>1, <2>1, <2>2, <2>5, <2>6, OneOn DEF Goes, q, l, r, w
<1>3. CASE GiveUp(j)
  <2>1. /\ Goes(j, [r EXCEPT !.pc = "gone"])
        /\ UNCHANGED <<row, lease>> /\ r.pc = "claiming"
    BY <1>3 DEF GiveUp, At, hub
  <2>2. [r EXCEPT !.pc = "gone"].pc # "claiming"
    BY <1>1, FormsGo
  <2>3. RowGoes(j) /\ LeaseGoes(j, [r EXCEPT !.pc = "gone"])
    BY <2>1, RowsGo, LeasesGo DEF Owning
  <2> QED
    BY <2>1, <2>2, <2>3, RunnerGoes
<1>4. CASE Claim(j)
  <2>1. PICK c \in Conn :
          /\ At(j, "claiming") /\ Free(c, j)
          /\ lease' = [lease EXCEPT ![j] = NewLease(c, conn[c].agent, r.epoch)]
          /\ Goes(j, [r EXCEPT !.pc = "leased"])
          /\ UNCHANGED row
    BY <1>4 DEF Claim
  <2> DEFINE q == [r EXCEPT !.pc = "leased"]
             m == NewLease(c, conn[c].agent, r.epoch)
  <2>2. m.agent = conn[c].agent /\ m.epoch = r.epoch
    BY DEF NewLease
  <2>3. conn[c].agent \in Agent
    BY <1>1, <2>1 DEF Free, Open, TypeOK, ChannelRec
  <2>4. r.epoch = w.epoch /\ r.pc = "claiming"
    BY <1>1, <2>1 DEF FencedAt, At, Attempted
  <2>5. q.pc # "claiming"
    BY <1>1 DEF RunnerRec, RunnerOn
  <2>6. RowOn(l, w, w) /\ row' = [row EXCEPT ![j] = w]
    BY <1>1, <2>1, RowForms, Same
  <2> HIDE DEF l, r, w, q, m
  <2>7. On(l, r, w, m, q, w)
    BY <2>2, <2>3, <2>4, <2>5, <2>6 DEF On, GivenOut
  <2> QED
    BY <1>1, <2>1, <2>6, <2>7, OneOn DEF Goes, q, m, l, r, w
<1> QED
  BY <1>2, <1>3, <1>4

LEMMA RunsOn ==
    ASSUME LifeInv, HolderInv, NEW j \in Job,
           SaveLeased(j) \/ RunOrphan(j) \/ OnFeatures(j)
    PROVE  JobOn(j) /\ Elsewhere(j)
<1> DEFINE l == lease[j]
           r == runner[j]
           w == row[j]
<1>1. /\ TypeOK /\ l \in LeaseRec /\ r \in RunnerRec /\ w \in Row /\ RowHolds(w)
      /\ FencedAt(l, r, w) /\ StandsAt(r, w, published[j])
      /\ l # NoLease => l.agent \in Agent
  BY Known
<1>2. CASE SaveLeased(j)
  <2> DEFINE v == SaveJobState(w, r.epoch, "leased", l.agent)
  <2>1. /\ row' = [row EXCEPT ![j] = v] /\ UNCHANGED lease
        /\ r.pc = "leased" /\ Goes(j, [r EXCEPT !.pc = "running"])
    BY <1>2 DEF SaveLeased, At, hub
  <2>2. l # NoLease /\ l.epoch = r.epoch
    BY <1>1, <2>1 DEF FencedAt, Owning
  <2>3. RowOn(l, w, v)
    BY <1>1, <2>2, RowForms
  <2>4. RowGoes(j)
    BY <2>1, <2>3 DEF RowGoes
  <2>5. /\ [r EXCEPT !.pc = "running"].pc # "claiming"
        /\ RunnerOn(r, [r EXCEPT !.pc = "running"])
    BY <1>1 DEF RunnerRec, RunnerOn
  <2>6. LeaseGoes(j, [r EXCEPT !.pc = "running"])
    BY <2>1, <2>5, LeasesGo DEF Owning
  <2> QED
    BY <2>1, <2>4, <2>5, <2>6, RunnerGoes
<1>3. CASE RunOrphan(j)
  <2>1. r.pc = "orphan" /\ r.pc \in Owning /\ UNCHANGED row /\ RowGoes(j)
    BY <1>3, RowsGo DEF RunOrphan, At, Owning
  <2>2. CASE j \in cancelled
    <3>1. /\ lease' = [lease EXCEPT ![j] = NoLease]
          /\ Goes(j, [r EXCEPT !.pc = "gone"])
      BY <1>3, <2>2 DEF RunOrphan
    <3>2. [r EXCEPT !.pc = "gone"].pc # "claiming"
      BY <1>1 DEF RunnerRec, RunnerOn
    <3>3. LeaseGoes(j, [r EXCEPT !.pc = "gone"])
      BY <3>1, LeasesGo
    <3> QED
      BY <2>1, <3>1, <3>2, <3>3, RunnerGoes
  <2>3. CASE j \notin cancelled
    <3>1. PICK class : Goes(j, [r EXCEPT !.pc = "running", !.class = class])
      BY <1>3, <2>3 DEF RunOrphan
    <3> DEFINE q == [r EXCEPT !.pc = "running", !.class = class]
    <3>2. q.pc = "running" /\ RunnerOn(r, q) /\ UNCHANGED lease
      BY <1>1, <1>3, <2>3 DEF RunOrphan, RunnerRec, RunnerOn
    <3> HIDE DEF q
    <3>3. LeaseGoes(j, q)
      BY <2>1, <3>2, LeasesGo
    <3> QED
      BY <2>1, <3>1, <3>2, <3>3, RunnerGoes DEF q
  <2> QED
    BY <2>2, <2>3
<1>4. CASE OnFeatures(j)
  <2> DEFINE v == SaveJobState(w, r.epoch, "running", NoAgent)
  <2>1. row' = [row EXCEPT ![j] = v] /\ r.pc = "running" /\ r.pc \in Owning
    BY <1>4 DEF OnFeatures, Received, At, Owning
  <2>2. RowOn(l, w, v)
    BY <1>1, <2>1, RowForms DEF StandsAt
  <2>3. RowGoes(j)
    BY <2>1, <2>2 DEF RowGoes
  <2>4. CASE Goes(j, ReadOn(j)) /\ UNCHANGED lease
    <3>1. ReadOn(j).pc # "claiming" /\ RunnerOn(r, ReadOn(j))
      BY <2>1, FormsGo
    <3>2. LeaseGoes(j, ReadOn(j))
      BY <2>1, <2>4, <3>1, LeasesGo
    <3> QED
      BY <2>3, <2>4, <3>1, <3>2, RunnerGoes
  <2>5. ASSUME NEW target \in r.class + 1 .. MaxClass,
               Goes(j, [ReadOn(j) EXCEPT !.to = target]),
               lease' = [lease EXCEPT ![j].rerouting = TRUE]
        PROVE  JobOn(j) /\ Elsewhere(j)
    <3> DEFINE q == [ReadOn(j) EXCEPT !.to = target]
    <3>1. target # NoClass
      BY <1>1, <2>5, StoreAssumption DEF RunnerRec, Class, NoClass
    <3>2. q.pc # "claiming" /\ RunnerOn(r, q)
      BY <2>1, <3>1, FormsGo
    <3> HIDE DEF q
    <3>3. LeaseGoes(j, q)
      BY <2>1, <2>5, <3>2, LeasesGo
    <3> QED
      BY <2>3, <2>5, <3>2, <3>3, RunnerGoes DEF q
  <2> QED
    BY <1>4, <2>4, <2>5 DEF OnFeatures
<1> QED
  BY <1>2, <1>3, <1>4

\* A runner that goes on, but not to claim.
GoesOn(j) == \E q : Goes(j, q) /\ q.pc # "claiming" /\ RunnerOn(runner[j], q)

LEMMA EndingGoes ==
    ASSUME LifeInv, HolderInv, NEW j \in Job, NEW r, NEW close, NEW after,
           r = runner[j] \/ r = ReadOn(j), Goes(j, Ending(r, close, after))
    PROVE  GoesOn(j)
<1> DEFINE q == Ending(r, close, after)
           s == runner[j]
<1>1. r \in RunnerRec /\ RunnerOn(s, r)
  BY FormsGo
<1> HIDE DEF s
<1>2. q.pc # "claiming" /\ RunnerOn(s, q)
  BY <1>1 DEF RunnerRec, RunnerOn, Ending
<1> QED
  BY <1>2 DEF GoesOn, s

LEMMA RequeueingGoes ==
    ASSUME LifeInv, HolderInv, NEW j \in Job, NEW r, NEW close, NEW counted,
           NEW to, r = runner[j] \/ r = ReadOn(j),
           Goes(j, Requeueing(r, close, counted, to)),
           r.adopted \/ r.to = NoClass \/ to # NoClass
    PROVE  GoesOn(j)
<1> DEFINE q == Requeueing(r, close, counted, to)
           s == runner[j]
<1>1. /\ r \in RunnerRec /\ RunnerOn(s, r)
      /\ r.adopted = s.adopted /\ r.to = s.to
  BY FormsGo
<1> HIDE DEF s
<1>2. q.pc # "claiming" /\ RunnerOn(s, q)
  BY <1>1 DEF RunnerRec, RunnerOn, Ending, Requeueing
<1> QED
  BY <1>2 DEF GoesOn, s

LEMMA PlaceGoes ==
    ASSUME LifeInv, HolderInv, NEW j \in Job, NEW r, NEW pc,
           r = runner[j] \/ r = ReadOn(j), Goes(j, [r EXCEPT !.pc = pc]),
           pc # "claiming"
    PROVE  GoesOn(j)
<1> DEFINE q == [r EXCEPT !.pc = pc]
           s == runner[j]
<1>1. r \in RunnerRec /\ RunnerOn(s, r)
  BY FormsGo
<1> HIDE DEF s
<1>2. q.pc # "claiming" /\ RunnerOn(s, q)
  BY <1>1 DEF RunnerRec, RunnerOn
<1> QED
  BY <1>2 DEF GoesOn, s

\* A runner in charge goes on, its lease as it was.
LEMMA HeldGoes ==
    ASSUME LifeInv, HolderInv, NEW j \in Job, GoesOn(j),
           runner[j].pc \in {"running", "registering", "registered"},
           UNCHANGED lease,
           UNCHANGED row \/ \E status \in Ended : \E how : Ends(j, status, how)
    PROVE  JobOn(j) /\ Elsewhere(j)
<1>1. PICK q : Goes(j, q) /\ q.pc # "claiming" /\ RunnerOn(runner[j], q)
  BY DEF GoesOn
<1>2. RowGoes(j)
  BY RowsGo
<1>3. LeaseGoes(j, q)
  BY <1>1, LeasesGo DEF Owning
<1> QED
  BY <1>1, <1>2, <1>3, RunnerGoes

LEMMA ResultOn ==
    ASSUME LifeInv, HolderInv, NEW j \in Job,
           OnResult(j) \/ Publish(j) \/ Registered(j) \/ OnError(j)
    PROVE  JobOn(j) /\ Elsewhere(j)
<1> DEFINE r == runner[j]
           Asked == UNCHANGED row
                    \/ \E status \in Ended : \E how : Ends(j, status, how)
<1>1. /\ r.pc \in {"running", "registering", "registered"}
      /\ UNCHANGED lease
  BY DEF OnResult, Publish, Registered, OnError, Received, At, hub
<1>2. Asked
  <2>1. {"done", "failed"} = Ended
    BY DEF Ended
  <2>2. \/ UNCHANGED row
        \/ \E how : Ends(j, "done", how) \/ Ends(j, "failed", how)
    BY DEF OnResult, Publish, Registered, OnError
  <2> QED
    BY <2>1, <2>2
<1>3. GoesOn(j)
  <2>1. \/ \E s \in {r, ReadOn(j)} : Goes(j, Ending(s, FALSE, "gone"))
        \/ Goes(j, [ReadOn(j) EXCEPT !.pc = "registering"])
        \/ Goes(j, [r EXCEPT !.pc = "registered"])
        \/ Goes(j, Requeueing(ReadOn(j), FALSE, FALSE, NoClass)) /\ r.adopted
    BY DEF OnResult, Registers, LacksUploads, Publish, Registered, OnError
  <2>2. ReadOn(j).adopted = r.adopted
    BY FormsGo
  <2> QED
    BY <2>1, <2>2, EndingGoes, RequeueingGoes, PlaceGoes
<1> QED
  BY <1>1, <1>2, <1>3, HeldGoes

LEMMA ReleaseOn ==
    ASSUME LifeInv, HolderInv, NEW j \in Job, OnRelease(j) \/ LetLeaseGo(j)
    PROVE  JobOn(j) /\ Elsewhere(j)
<1> DEFINE r == runner[j]
<1>1. r.pc = "running" /\ UNCHANGED lease
  BY DEF OnRelease, LetLeaseGo, Received, At, hub
<1>2. UNCHANGED row \/ \E status \in Ended : \E how : Ends(j, status, how)
  <2>1. "failed" \in Ended
    BY DEF Ended
  <2>2. UNCHANGED row \/ \E how : Ends(j, "failed", how)
    BY DEF OnRelease, LetLeaseGo
  <2> QED
    BY <2>1, <2>2
<1>3. GoesOn(j)
  <2>1. \/ \E s \in {r, ReadOn(j)} : Goes(j, Ending(s, FALSE, "gone"))
        \/ \E to : /\ Goes(j, Requeueing(ReadOn(j), FALSE, FALSE, to))
                   /\ to = ReadOn(j).to \/ to # NoClass
    BY DEF OnRelease, LetLeaseGo
  <2> QED
    BY <2>1, EndingGoes, RequeueingGoes
<1> QED
  BY <1>1, <1>2, <1>3, HeldGoes

LEMMA NoticeOn ==
    ASSUME LifeInv, HolderInv, NEW j \in Job, NoticeCancel(j) \/ FindExpired(j)
    PROVE  JobOn(j) /\ Elsewhere(j)
<1> DEFINE r == runner[j]
<1>1. r.pc = "running" /\ r.pc \in Owning /\ r \in RunnerRec /\ RowGoes(j)
  BY Known, RowsGo DEF NoticeCancel, FindExpired, At, Owning
<1>2. CASE NoticeCancel(j)
  <2> DEFINE q == [r EXCEPT !.cancelSent = TRUE]
  <2>1. Goes(j, q) /\ lease' = [lease EXCEPT ![j].cancelled = TRUE]
    BY <1>2 DEF NoticeCancel
  <2>2. RunnerOn(r, q) /\ q.pc # "claiming"
    BY <1>1 DEF RunnerRec, RunnerOn
  <2> HIDE DEF q
  <2>3. LeaseGoes(j, q)
    BY <1>1, <2>1, <2>2, LeasesGo
  <2> QED
    BY <1>1, <2>1, <2>2, <2>3, RunnerGoes
<1>3. CASE FindExpired(j)
  <2>1. GoesOn(j) /\ lease' = [lease EXCEPT ![j].time = "lost"]
    <3> DEFINE memory == IF ~r.adopted /\ lease[j].hot THEN Bigger(r.class)
                         ELSE NoClass
               to == IF memory > r.to THEN memory ELSE r.to
    <3>1. memory \in Class \cup {NoClass}
      BY <1>1, StoreAssumption DEF Bigger, RunnerRec, Class, NoClass
    <3>2. r.to # NoClass => to # NoClass
      BY <1>1, <3>1, StoreAssumption DEF RunnerRec, Class, NoClass
    <3>3. /\ lease' = [lease EXCEPT ![j].time = "lost"]
          /\ Goes(j, IF r.cancelSent \/ stopping THEN Ending(r, TRUE, "gone")
                     ELSE Requeueing(r, TRUE, ~r.adopted, to))
      BY <1>3 DEF FindExpired
    <3> HIDE DEF to, memory
    <3> QED
      BY <3>2, <3>3, EndingGoes, RequeueingGoes
  <2>2. PICK q : Goes(j, q) /\ q.pc # "claiming" /\ RunnerOn(r, q)
    BY <2>1 DEF GoesOn
  <2>3. LeaseGoes(j, q)
    BY <1>1, <2>1, <2>2, LeasesGo
  <2> QED
    BY <1>1, <2>1, <2>2, <2>3, RunnerGoes
<1> QED
  BY <1>2, <1>3

LEMMA EndOn ==
    ASSUME LifeInv, HolderInv, NEW j \in Job, EndLease(j) \/ RunnerPanics(j)
    PROVE  JobOn(j) /\ Elsewhere(j)
<1> DEFINE r == runner[j]
<1>1. r \in RunnerRec /\ lease' = [lease EXCEPT ![j] = NoLease]
  BY Known DEF EndLease, RunnerPanics
<1>2. RowGoes(j)
  <2>1. UNCHANGED row \/ Ends(j, "failed", "internal")
    BY DEF EndLease, RunnerPanics
  <2>2. "failed" \in Ended
    BY DEF Ended
  <2> QED
    BY <2>1, <2>2, RowsGo
<1>3. \E q : Goes(j, q) /\ q.pc # "claiming"
  <2>1. \E pc \in {"gone", "requeue"} : Goes(j, [r EXCEPT !.pc = pc])
    BY <1>1 DEF EndLease, RunnerPanics, RunnerRec
  <2>2. \A pc : [r EXCEPT !.pc = pc].pc = pc
    BY <1>1 DEF RunnerRec
  <2> QED
    BY <2>1, <2>2
<1>4. PICK q : Goes(j, q) /\ q.pc # "claiming"
  BY <1>3
<1>5. LeaseGoes(j, q)
  BY <1>1, LeasesGo
<1> QED
  BY <1>2, <1>4, <1>5, RunnerGoes

LEMMA RequeueOn ==
    ASSUME LifeInv, HolderInv, NEW j \in Job, StoreRequeue(j)
    PROVE  JobOn(j) /\ Elsewhere(j)
<1> DEFINE r == runner[j]
           w == row[j]
           back == [Fresh EXCEPT !.pc = IF stopping THEN "gone" ELSE "queued"]
<1>1. /\ r \in RunnerRec /\ w \in Row /\ RowHolds(w)
      /\ r.pc \notin Owning /\ UNCHANGED lease
  BY Known DEF StoreRequeue, At, Owning, hub
<1>2. RowGoes(j)
  <2>1. \/ UNCHANGED row \/ Ends(j, "failed", "lost")
        \/ row' = [row EXCEPT ![j] = Rebind(w, r.to)]
        \/ row' = [row EXCEPT ![j] = Requeue(w, r.counted)]
    BY DEF StoreRequeue
  <2>2. "failed" \in Ended
    BY DEF Ended
  <2>3. RowOn(lease[j], w, Rebind(w, r.to))
    BY <1>1, RowForms
  <2>4. RowOn(lease[j], w, Requeue(w, r.counted))
    BY <1>1, RowForms
  <2> QED
    BY <2>1, <2>2, <2>3, <2>4, RowsGo DEF RowGoes
<1>3. \E q : Goes(j, q) /\ q.pc # "claiming"
  <2>1. Goes(j, back) \/ Goes(j, [r EXCEPT !.pc = "gone"])
    BY DEF StoreRequeue
  <2>2. back.pc # "claiming" /\ [r EXCEPT !.pc = "gone"].pc # "claiming"
    BY <1>1 DEF RunnerRec, Fresh
  <2> HIDE DEF back
  <2> QED
    BY <2>1, <2>2
<1>4. PICK q : Goes(j, q) /\ q.pc # "claiming"
  BY <1>3
<1>5. LeaseGoes(j, q)
  BY <1>1, LeasesGo
<1> QED
  BY <1>2, <1>4, <1>5, RunnerGoes

LEMMA StepOn ==
    ASSUME LifeInv, HolderInv, NEW j \in Job, RunnerStep(j)
    PROVE  JobOn(j) /\ Elsewhere(j)
BY StartOn, RunsOn, ResultOn, ReleaseOn, NoticeOn, EndOn, RequeueOn
   DEF RunnerStep

LEMMA RunnerStepOn ==
    ASSUME LifeInv, HolderInv, NEW j \in Job, RunnerStep(j)
    PROVE  \A k \in Job : JobOn(k)
BY StepOn, JobsOn, Known

\* The steps that leave runners and rows alone keep the leases there are.
LeaseStands(k) == \/ lease'[k] = lease[k]
                  \/ Held(k) /\ LeaseOn(lease[k], lease'[k])

LEMMA LeasesStand ==
    ASSUME LifeInv, HolderInv, UNCHANGED <<runner, row>>,
           \A k \in Job : LeaseStands(k)
    PROVE  \A k \in Job : JobOn(k)
<1> SUFFICES ASSUME NEW k \in Job PROVE JobOn(k)
  OBVIOUS
<1>1. RowHolds(row[k]) /\ row[k].epoch \in Nat
  BY Known DEF Row
<1>2. CASE lease'[k] = lease[k]
  BY <1>1, <1>2, OnSame DEF JobOn
<1>3. CASE Held(k) /\ LeaseOn(lease[k], lease'[k])
  BY <1>1, <1>3 DEF JobOn, On, RowOn, RunnerOn, Held
<1> QED
  BY <1>2, <1>3 DEF LeaseStands

\* One lease changes.
LEMMA OneStands ==
    ASSUME TypeOK, NEW j \in Job, NEW m, lease' = [lease EXCEPT ![j] = m],
           Held(j), LeaseOn(lease[j], m)
    PROVE  \A k \in Job : LeaseStands(k)
<1>1. \A k \in Job : lease'[k] = IF k = j THEN m ELSE lease[k]
  BY DEF TypeOK
<1> QED
  BY <1>1 DEF LeaseStands

LEMMA UploadStands ==
    ASSUME TypeOK, NEW a \in Agent, Upload(a)
    PROVE  \A k \in Job : LeaseStands(k)
<1> DEFINE cur == agent[a].cur
           j == cur.job
<1>1. agent[a] \in AgentRec
  BY DEF TypeOK
<1>2. j \in Job
  BY <1>1 DEF Upload, Working, Runs, Holds, AgentRec, CurrentRec
<1>3. \/ UNCHANGED lease
      \/ Held(j) /\ lease' = [lease EXCEPT ![j].uploads = TRUE]
  BY DEF Upload, MayUpload
<1> HIDE DEF j
<1>4. lease[j] \in LeaseRec
  BY <1>2 DEF TypeOK
<1>5. LeaseOn(lease[j], [lease[j] EXCEPT !.uploads = TRUE])
  BY <1>4 DEF LeaseRec, LeaseOn
<1>6. [lease EXCEPT ![j].uploads = TRUE]
        = [lease EXCEPT ![j] = [lease[j] EXCEPT !.uploads = TRUE]]
  BY <1>2 DEF TypeOK
<1>7. CASE UNCHANGED lease
  BY <1>7 DEF LeaseStands
<1> QED
  BY <1>2, <1>3, <1>5, <1>6, <1>7, OneStands

\* A lease that loses its channel.
LEMMA DetachedOn ==
    ASSUME TypeOK, NEW closed \in SUBSET Conn, NEW k \in Job
    PROVE  /\ LeaseOn(lease[k], Detached(closed)[k])
           /\ \/ Detached(closed)[k] = lease[k]
              \/ Held(k)
<1>1. lease[k] \in LeaseRec
  BY DEF TypeOK
<1>2. Detached(closed)[k] = IF lease[k].conn \in closed
                            THEN [lease[k] EXCEPT !.conn = 0] ELSE lease[k]
  BY DEF Detached
<1>3. LeaseOn(lease[k], [lease[k] EXCEPT !.conn = 0])
  BY <1>1 DEF LeaseRec, LeaseOn
<1>4. LeaseOn(lease[k], lease[k])
  BY DEF LeaseOn
<1> QED
  BY <1>2, <1>3, <1>4, DetachedStays

LEMMA ConnectStands ==
    ASSUME TypeOK, NEW a \in Agent, Connect(a)
    PROVE  \A k \in Job : LeaseStands(k)
<1> DEFINE s == agent[a]
           c == nextConn
           j == s.cur.job
           gone == Evicted(a)
           lease1 == Detached(gone)
           answer == IF Runs(s) THEN ResumeAnswer(a, j, s.cur.epoch, lease1[j])
                     ELSE "none"
<1>1. lease' = IF answer = "none" THEN lease1
               ELSE [lease1 EXCEPT ![j] = AfterResume(@, answer, c)]
  BY DEF Connect
<1>2. gone \in SUBSET Conn
  BY DEF Evicted
<1>3. s \in AgentRec
  BY DEF TypeOK
<1>4. answer # "none" => j \in Job
  BY <1>3 DEF Runs, Holds, AgentRec, CurrentRec
<1>5. answer = "moves" => lease1[j].agent = a
  BY DEF ResumeAnswer
<1>6. lease1 \in [Job -> LeaseRec]
  BY <1>2, DetachedTyped
<1> HIDE DEF answer, gone, lease1, s, c, j
<1> SUFFICES ASSUME NEW k \in Job PROVE LeaseStands(k)
  OBVIOUS
<1>7. /\ lease1[k] = lease[k] \/ Held(k)
      /\ LeaseOn(lease[k], lease1[k])
      /\ lease1[k].agent = lease[k].agent /\ lease1[k].time = lease[k].time
  BY <1>2, DetachedStays, DetachedOn DEF lease1
<1>8. CASE answer = "none" \/ k # j
  BY <1>1, <1>4, <1>6, <1>7, <1>8 DEF LeaseStands
<1>9. CASE answer # "none" /\ k = j
  <2>1. lease'[k] = AfterResume(lease1[k], answer, c)
    BY <1>1, <1>4, <1>6, <1>9
  <2>2. answer = "moves" \/ lease1[k].time = "due" => Held(k)
    BY <1>5, <1>7, <1>9, NoLeaseIs, StoreAssumption DEF Held
  <2>3. lease1[k] \in LeaseRec
    BY <1>6
  <2>4. \/ AfterResume(lease1[k], answer, c) = lease1[k]
        \/ /\ Held(k)
           /\ LeaseOn(lease1[k], AfterResume(lease1[k], answer, c))
    BY <2>2, <2>3 DEF AfterResume, LeaseRec, LeaseOn
  <2> QED
    BY <1>7, <2>1, <2>4 DEF LeaseStands, LeaseOn
<1> QED
  BY <1>8, <1>9

LEMMA ChannelStands ==
    ASSUME FenceInv, NEW c \in Conn, ChannelStep(c)
    PROVE  \A k \in Job : LeaseStands(k)
<1> DEFINE f == Head(up[c])
           l == lease[f.job]
           heeded == l.agent = conn[c].agent /\ l.epoch = f.epoch /\ l.time # "lost"
<1>1. TypeOK
  BY DEF FenceInv
<1>2. ASSUME UNCHANGED lease PROVE \A k \in Job : LeaseStands(k)
  BY <1>2 DEF LeaseStands
<1>3. CASE RemoveConn(c)
  <2>1. lease' = Detached({c})
    BY <1>3 DEF RemoveConn
  <2> QED
    BY <1>1, <2>1, DetachedOn DEF LeaseStands
<1>4. CASE OnHeartbeat(c) /\ Current(c, f)
  <2>1. f.job \in Job /\ Held(f.job)
    BY <1>1, <1>4, GetsTyped, FrameKinds, FoundHeld DEF OnHeartbeat
  <2> DEFINE m == [l EXCEPT !.time = "live", !.hot = (f.ev = "hot")]
  <2>2. l \in LeaseRec /\ l.time # "lost"
    BY <1>1, <1>4, <2>1 DEF TypeOK, Current
  <2>3. LeaseOn(l, m)
    BY <2>2 DEF LeaseRec, LeaseOn
  <2>4. lease' = [lease EXCEPT ![f.job] = m]
    BY <1>1, <1>4, <2>1 DEF OnHeartbeat, TypeOK
  <2> HIDE DEF m, f
  <2> QED
    BY <1>1, <2>1, <2>3, <2>4, OneStands
<1>5. CASE OnNextEvent(c)
  <2> DEFINE ends == f.ev \in Terminal
             renewed == [l EXCEPT !.next = @ + 1, !.time = "live",
                                  !.finished = @ \/ ends]
  <2> HIDE DEF f, l, heeded, ends, renewed
  <2>1. f.job \in Job /\ Current(c, f) /\ Held(f.job)
    <3>1. Gets(c, "event") /\ Took(c) /\ Current(c, f)
      BY <1>5, Zenon DEF OnNextEvent, f
    <3>2. f.job \in Job
      BY <1>1, <3>1, GetsTyped, FrameKinds DEF f
    <3> QED
      BY <3>1, <3>2, FoundHeld
  <2> USE DEF f, l, heeded, ends, renewed
  <2>2. l \in LeaseRec /\ l.time # "lost"
    BY <1>1, <2>1 DEF TypeOK, Current
  <2>3. PICK m \in {[renewed EXCEPT !.finished = TRUE], renewed,
                    [renewed EXCEPT !.result = (f.ev = "result"),
                                    !.events = Append(@, f.ev)]} :
          lease' = [lease EXCEPT ![f.job] = m]
    BY <1>5 DEF OnNextEvent
  <2>4. LeaseOn(l, m)
    BY <2>2, <2>3 DEF LeaseRec, LeaseOn
  <2> HIDE DEF renewed, f
  <2> QED
    BY <1>1, <2>1, <2>3, <2>4, OneStands
<1>6. CASE OnReleased(c) /\ heeded
  <2>1. f.job \in Job
    BY <1>1, <1>6, GetsTyped, FrameKinds, SMTT(30) DEF OnReleased
  <2> DEFINE m == [l EXCEPT !.finished = TRUE, !.events = Append(@, f.ev)]
  <2>2. l \in LeaseRec
    BY <1>1, <2>1 DEF TypeOK
  <2>3. LeaseOn(l, m)
    BY <2>2 DEF LeaseRec, LeaseOn
  <2>4. lease' = [lease EXCEPT ![f.job] = m]
    BY <1>1, <1>6, <2>1 DEF OnReleased, TypeOK
  <2>5. Held(f.job)
    BY <1>6, <2>1, FoundHeld DEF OnReleased, Gets
  <2> HIDE DEF m, f
  <2> QED
    BY <1>1, <2>1, <2>3, <2>4, <2>5, OneStands
<1>7. CASE OnReady(c) \/ OnStaleEvent(c)
  BY <1>2, <1>7 DEF OnReady, OnStaleEvent, hub
<1>8. CASE OnHeartbeat(c) /\ ~Current(c, f)
  BY <1>2, <1>8 DEF OnHeartbeat
<1>9. CASE OnReleased(c) /\ ~heeded
  BY <1>2, <1>9 DEF OnReleased
<1> QED
  BY <1>3, <1>4, <1>5, <1>6, <1>7, <1>8, <1>9 DEF ChannelStep

LEMMA ExpireStands ==
    ASSUME TypeOK, NEW j \in Job, Expire(j)
    PROVE  \A k \in Job : LeaseStands(k)
<1> DEFINE m == [lease[j] EXCEPT !.time = "due"]
<1>1. lease[j] \in LeaseRec /\ lease' = [lease EXCEPT ![j] = m] /\ Held(j)
      /\ lease[j].time = "live"
  BY DEF Expire, TypeOK
<1>2. LeaseOn(lease[j], m)
  BY <1>1 DEF LeaseRec, LeaseOn
<1> HIDE DEF m
<1> QED
  BY <1>1, <1>2, OneStands

LEMMA UserCancelOn ==
    ASSUME LifeInv, HolderInv, NEW j \in Job, UserCancel(j)
    PROVE  \A k \in Job : JobOn(k)
<1> DEFINE r == runner[j]
           q == IF At(j, "queued") THEN [r EXCEPT !.pc = "gone"] ELSE r
           v == FinishJob(row[j], "failed")
<1>1. /\ TypeOK /\ r \in RunnerRec /\ row[j] \in Row /\ RowHolds(row[j])
  BY Known
<1>2. /\ runner' = [runner EXCEPT ![j] = q] /\ row' = [row EXCEPT ![j] = v]
      /\ lease' = [lease EXCEPT ![j] = lease[j]]
  <2>1. runner' = [runner EXCEPT ![j] = q]
    BY OfOne DEF UserCancel
  <2>2. row' = [row EXCEPT ![j] = v] /\ UNCHANGED lease
    BY DEF UserCancel, Ends, hub
  <2> QED
    BY <1>1, <2>1, <2>2, Same
<1>3. RunnerOn(r, q) /\ (q.pc = "claiming" => r.pc = "claiming")
  BY <1>1 DEF RunnerRec, RunnerOn
<1>4. RowOn(lease[j], row[j], v)
  BY <1>1, RowForms DEF Ended
<1>5. LeaseOn(lease[j], lease[j])
  BY DEF LeaseOn
<1> HIDE DEF r, q, v
<1>6. On(lease[j], r, row[j], lease[j], q, v)
  BY <1>3, <1>4, <1>5 DEF On
<1> QED
  BY <1>1, <1>2, <1>6, OneOn, JobsOn DEF r

LEMMA RestartOn ==
    ASSUME LifeInv, HolderInv, Restart
    PROVE  \A k \in Job : JobOn(k)
<1> SUFFICES ASSUME NEW k \in Job PROVE JobOn(k)
  OBVIOUS
<1>1. row'[k] = row[k] /\ RowOn(lease[k], row[k], row[k])
  BY Known, RowForms, RestartParts
<1>2. /\ Orphan(row[k]).pc # "claiming" /\ Unheld(row[k]).pc # "claiming"
      /\ Orphan(row[k]).adopted
  BY DEF Fresh, Orphan, Unheld
<1>3. CASE row[k].status \in Holding
  <2> DEFINE m == NewLease(NoConn, row[k].holder, row[k].epoch)
  <2>1. lease'[k] = m
    BY <1>3, RestartParts
  <2>2. m.agent = row[k].holder /\ m.epoch = row[k].epoch
    BY DEF NewLease
  <2> HIDE DEF m
  <2> QED
    BY <1>1, <1>2, <1>3, <2>1, <2>2, RestartParts DEF JobOn, On, Adopted
<1>4. CASE row[k].status \notin Holding
  BY <1>1, <1>2, <1>4, RestartParts DEF JobOn, On
<1> QED
  BY <1>3, <1>4

\* Every step leaves every job in one of these ways.
LEMMA NextOn ==
    ASSUME LifeInv, HolderInv, [Next]_vars
    PROVE  \A k \in Job : JobOn(k)
<1>1. TypeOK /\ FenceInv
  BY DEF LifeInv, FenceInv
<1>2. ASSUME UNCHANGED <<runner, row>>, \A k \in Job : LeaseStands(k)
      PROVE  \A k \in Job : JobOn(k)
  BY <1>2, LeasesStand
<1>3. ASSUME UNCHANGED lease PROVE \A k \in Job : LeaseStands(k)
  BY <1>3 DEF LeaseStands
<1>4. CASE UNCHANGED vars
  BY <1>2, <1>3, <1>4 DEF vars, jobs, hub
<1>5. ASSUME NEW a \in Agent, AgentStep(a)
      PROVE  \A k \in Job : LeaseStands(k)
  <2>1. CASE \/ JobProgress(a) \/ JobFinished(a) \/ JobKilled(a) \/ HoldExpires(a)
             \/ Heartbeat(a) \/ OnOrder(a) \/ Disconnect(a) \/ AgentCrash(a)
    BY <1>3, <2>1 DEF JobProgress, JobFinished, JobKilled, HoldExpires, Heartbeat,
                OnOrder, Disconnect, AgentCrash, hub
  <2> QED
    BY <1>1, <1>5, <2>1, UploadStands, ConnectStands DEF AgentStep
<1>6. CASE \/ \E a \in Agent : AgentStep(a)
           \/ \E c \in Conn : ChannelStep(c)
           \/ \E j \in Job : Expire(j)
           \/ Stop
  <2>1. UNCHANGED <<runner, row>>
    BY <1>6, JobsStay DEF jobs
  <2>2. \A k \in Job : LeaseStands(k)
    BY <1>1, <1>3, <1>5, <1>6, ChannelStands, ExpireStands DEF Stop, hub
  <2> QED
    BY <1>2, <2>1, <2>2
<1> QED
  BY <1>4, <1>6, RunnerStepOn, UserCancelOn, RestartOn DEF Next

LEMMA NextHolds ==
    ASSUME LifeInv, HolderInv, [Next]_vars
    PROVE  HolderInv'
<1> SUFFICES ASSUME NEW k \in Job
             PROVE  /\ RowHolds(row'[k])
                    /\ lease'[k] # NoLease => lease'[k].agent \in Agent
  BY DEF HolderInv, Held
<1>1. JobOn(k) /\ RowHolds(row[k]) /\ row[k] \in Row
      /\ (lease[k] # NoLease => lease[k].agent \in Agent)
  BY NextOn, Known
<1>2. row[k].status \in Holding => row[k].holder \in Agent
  BY <1>1 DEF RowHolds, Row
<1> QED
  BY <1>1, <1>2 DEF JobOn, On, RowOn, LeaseOn, GivenOut, Adopted

\* What is known of the jobs and of the agents' links.
ClaimBase == LifeInv /\ HolderInv /\ LinkInv

LEMMA BaseInvariant == Spec => []ClaimBase
<1>1. Init => HolderInv
  <2> SUFFICES ASSUME Init PROVE HolderInv
    OBVIOUS
  <2>1. ASSUME NEW j \in Job PROVE RowHolds(row[j]) /\ ~Held(j)
    BY DEF Init, NewRow, RowHolds, Holding, Held
  <2> QED
    BY <2>1 DEF HolderInv
<1>2. LifeInv /\ HolderInv /\ [Next]_vars => HolderInv'
  BY NextHolds
<1> QED
  BY <1>1, <1>2, LifeInvariant, LinkInvariant, PTL DEF Spec, ClaimBase

-----------------------------------------------------------------------------
\* Claims to attempt e of job j.

\* Orders d assign it; agent a works at it, or will once it reads its orders.
Assigns(d, j, e) ==
    \E k \in DOMAIN d : d[k].type = "assign" /\ d[k].job = j /\ d[k].epoch = e
Bears(a, j, e) ==
    \/ HoldsThat(agent[a], j, e)
    \/ agent[a].link # NoConn /\ Assigns(down[agent[a].link], j, e)

\* The hub leases it to agent a, or the row names a as its holder.
Names(a, j, e) == \/ lease[j].agent = a /\ lease[j].epoch = e
                  \/ row[j].holder = a /\ row[j].epoch = e

\* The attempt whose runner waits for an agent is given to a.
Handed(a, j, e) == /\ runner[j].pc = "claiming" /\ e = row[j].epoch
                   /\ lease'[j].agent = a

BearsOn == \A a \in Agent, j \in Job : \A e \in Nat :
             Bears(a, j, e)' => Bears(a, j, e) \/ Handed(a, j, e)

LEMMA AssignsOn ==
    ASSUME NEW d \in Seq(OrderRec), NEW j, NEW e
    PROVE  /\ d # <<>> /\ Assigns(Tail(d), j, e) => Assigns(d, j, e)
           /\ ~Assigns(<<>>, j, e)
           /\ None(d, "assign") => ~Assigns(d, j, e)
           /\ \A m \in OrderRec :
                Assigns(Append(d, m), j, e)
                => \/ Assigns(d, j, e)
                   \/ m.type = "assign" /\ m.job = j /\ m.epoch = e
           /\ d # <<>> /\ Head(d).type = "assign"
              => Assigns(d, Head(d).job, Head(d).epoch)
<1>1. /\ DOMAIN d = 1 .. Len(d) /\ Len(d) \in Nat
      /\ d # <<>> => /\ DOMAIN Tail(d) = 1 .. Len(d) - 1 /\ Len(d) > 0
                     /\ Head(d) = d[1]
                     /\ \A k \in 1 .. Len(d) - 1 : Tail(d)[k] = d[k + 1]
  OBVIOUS
<1>2. ASSUME NEW m \in OrderRec, Assigns(Append(d, m), j, e)
      PROVE  \/ Assigns(d, j, e)
             \/ m.type = "assign" /\ m.job = j /\ m.epoch = e
  <2>1. /\ DOMAIN Append(d, m) = 1 .. Len(d) + 1
        /\ \A k \in 1 .. Len(d) + 1 :
             Append(d, m)[k] = IF k = Len(d) + 1 THEN m ELSE d[k]
    OBVIOUS
  <2> QED
    BY <1>1, <1>2, <2>1 DEF Assigns
<1>3. d # <<>> /\ Assigns(Tail(d), j, e) => Assigns(d, j, e)
  BY <1>1 DEF Assigns
<1>4. ~Assigns(<<>>, j, e)
  BY DEF Assigns
<1>5. None(d, "assign") => ~Assigns(d, j, e)
  BY DEF Assigns, None
<1>6. d # <<>> /\ Head(d).type = "assign" => Assigns(d, Head(d).job, Head(d).epoch)
  BY <1>1 DEF Assigns
<1> QED
  BY <1>2, <1>3, <1>4, <1>5, <1>6

\* No agent changes, and no channel gets an `assign`.
LEMMA QuietBears ==
    ASSUME TypeOK, UNCHANGED agent, \A c \in Conn : DownQuiet(c)
    PROVE  BearsOn
<1> SUFFICES ASSUME NEW a \in Agent, NEW j \in Job, NEW e \in Nat,
                    agent[a].link # NoConn, Assigns(down'[agent[a].link], j, e)
             PROVE  Assigns(down[agent[a].link], j, e)
  BY DEF BearsOn, Bears
<1> DEFINE c == agent[a].link
<1>1. c \in Conn /\ down[c] \in Seq(OrderRec)
  BY DEF TypeOK, AgentRec
<1>2. DownQuiet(c)
  BY <1>1
<1> DEFINE d == down[c]
           f == down'[c]
<1>3. f = d \/ \E m \in OrderRec : m.type # "assign" /\ f = Append(d, m)
  BY <1>2 DEF DownQuiet
<1>4. d \in Seq(OrderRec)
  BY <1>1
<1> HIDE DEF c, d, f
<1>5. Assigns(f, j, e) => Assigns(d, j, e)
  <2>1. ASSUME NEW m \in OrderRec, m.type # "assign", f = Append(d, m),
               Assigns(f, j, e)
        PROVE  Assigns(d, j, e)
    <3>1. Assigns(Append(d, m), j, e)
      BY <2>1
    <3> QED
      BY <1>4, <2>1, <3>1, AssignsOn
  <2> QED
    BY <1>3, <2>1
<1> QED
  BY <1>5 DEF c, d, f

\* One agent changes, to one that works at the same job, and that reads or
\* loses its orders; the others' orders stay.
LEMMA OneBears ==
    ASSUME TypeOK, NEW a \in Agent, NEW t, agent' = [agent EXCEPT ![a] = t],
           \A j \in Job, e \in Nat : HoldsThat(t, j, e) => Bears(a, j, e),
           t.link # NoConn =>
             \A j \in Job, e \in Nat : Assigns(down'[t.link], j, e)
                                       => Bears(a, j, e),
           \A b \in Agent \ {a} : agent[b].link # NoConn
             => down'[agent[b].link] = down[agent[b].link]
    PROVE  BearsOn
<1> SUFFICES ASSUME NEW b \in Agent, NEW j \in Job, NEW e \in Nat, Bears(b, j, e)'
             PROVE  Bears(b, j, e)
  BY DEF BearsOn
<1>1. agent'[b] = IF b = a THEN t ELSE agent[b]
  BY DEF TypeOK
<1>2. CASE b = a
  <2>1. \/ HoldsThat(t, j, e)
        \/ t.link # NoConn /\ Assigns(down'[t.link], j, e)
    BY <1>1, <1>2 DEF Bears
  <2> QED
    BY <1>2, <2>1
<1>3. CASE b # a
  BY <1>1, <1>3 DEF Bears
<1> QED
  BY <1>2, <1>3

\* The channels of two agents are not one.
LEMMA OthersKeep ==
    ASSUME LinkInv, NEW a \in Agent, NEW b \in Agent \ {a}, agent[b].link # NoConn
    PROVE  agent[b].link # agent[a].link
BY DEF LinkInv, LinksDiffer

LEMMA TurnBears ==
    ASSUME TypeOK, LinkInv, NEW a \in Agent, NEW t \in AgentRec,
           TakesTurn(a, t) \/ ReadsOrder(a, t)
    PROVE  BearsOn
<1> DEFINE s == agent[a]
           u == IF t.link = NoConn THEN t ELSE AfterFlush(t)
<1>1. agent' = [agent EXCEPT ![a] = u] /\ t.link = s.link /\ Sound(t)
  <2>1. agent' = [agent EXCEPT ![a] = u]
    BY DEF TakesTurn, ReadsOrder, Turn
  <2> QED
    BY <2>1 DEF TakesTurn, ReadsOrder, Turned
<1>2. Holds(u) => Holds(t) /\ u.cur.job = t.cur.job /\ u.cur.epoch = t.cur.epoch
  BY <1>1, FlushTurns
<1>3. u.link = s.link
  BY <1>1, FlushTurns
<1>4. s.link # NoConn => s.link \in Conn /\ down[s.link] \in Seq(OrderRec)
  BY DEF TypeOK, AgentRec
<1> HIDE DEF u
<1>5. ASSUME NEW j \in Job, NEW e \in Nat, HoldsThat(u, j, e)
      PROVE  Bears(a, j, e)
  <2>1. Holds(t) /\ t.cur.job = j /\ t.cur.epoch = e
    BY <1>2, <1>5, NoJobs DEF HoldsThat, Holds
  <2>2. CASE Turned(s, t)
    BY <2>1, <2>2 DEF Turned, SameJob, Bears, HoldsThat
  <2>3. CASE ReadsOrder(a, t) /\ ~Turned(s, t)
    <3>1. /\ s.link # NoConn /\ down[s.link] # <<>>
          /\ Head(down[s.link]).type = "assign"
          /\ Head(down[s.link]).job = j /\ Head(down[s.link]).epoch = e
      BY <2>1, <2>3 DEF ReadsOrder
    <3> QED
      BY <1>4, <3>1, AssignsOn DEF Bears
  <2> QED
    BY <2>2, <2>3 DEF TakesTurn
<1>6. down' = down \/ (s.link # NoConn /\ down[s.link] # <<>>
                       /\ down' = [down EXCEPT ![s.link] = Tail(down[s.link])])
  BY DEF TakesTurn, ReadsOrder
<1>7. ASSUME u.link # NoConn, NEW j \in Job, NEW e \in Nat,
             Assigns(down'[u.link], j, e)
      PROVE  Bears(a, j, e)
  <2>1. s.link # NoConn /\ s.link \in Conn /\ down[s.link] \in Seq(OrderRec)
        /\ Assigns(down'[s.link], j, e) /\ down \in [Conn -> Seq(OrderRec)]
    BY <1>3, <1>4, <1>7 DEF TypeOK
  <2>2. Assigns(down[s.link], j, e)
    <3> HIDE DEF s
    <3>1. \/ down'[s.link] = down[s.link]
          \/ down[s.link] # <<>> /\ down'[s.link] = Tail(down[s.link])
      BY <1>6, <2>1
    <3> QED
      BY <2>1, <3>1, AssignsOn
  <2> QED
    BY <2>1, <2>2 DEF Bears
<1>8. ASSUME NEW b \in Agent \ {a}, agent[b].link # NoConn
      PROVE  down'[agent[b].link] = down[agent[b].link]
  <2>1. agent[b].link # s.link
    BY <1>8, OthersKeep
  <2>2. down \in [Conn -> Seq(OrderRec)] /\ agent[b].link \in Conn
    BY <1>8 DEF TypeOK, AgentRec
  <2> HIDE DEF s
  <2> QED
    BY <1>6, <2>1, <2>2
<1> QED
  BY <1>1, <1>5, <1>7, <1>8, OneBears

\* The agent's uploads, and the end of its channel or of its process.
LEMMA LosesBears ==
    ASSUME TypeOK, LinkInv, NEW a \in Agent,
           Upload(a) \/ Disconnect(a) \/ AgentCrash(a)
    PROVE  BearsOn
<1>1. PICK t : /\ agent' = [agent EXCEPT ![a] = t] /\ SameJob(agent[a], t)
               /\ \/ t.link = NoConn
                  \/ t.link = agent[a].link /\ UNCHANGED down
  <2>1. CASE Upload(a)
    <3>1. PICK how : agent' = [agent EXCEPT ![a] = [agent[a] EXCEPT !.cur.up = how]]
      BY <2>1, UploadLinks
    <3> DEFINE s == agent[a]
               t == [s EXCEPT !.cur.up = how]
    <3>2. s \in AgentRec
      BY DEF TypeOK
    <3>3. t.link = s.link /\ t.cur.job = s.cur.job /\ t.cur.epoch = s.cur.epoch
      BY <3>2 DEF AgentRec, CurrentRec
    <3>4. UNCHANGED down /\ agent' = [agent EXCEPT ![a] = t]
      BY <2>1, <3>1 DEF Upload
    <3> HIDE DEF t
    <3> QED
      BY <3>3, <3>4 DEF SameJob
  <2>2. CASE Disconnect(a) \/ AgentCrash(a)
    BY <2>2, DisconnectLinks
  <2> QED
    BY <2>1, <2>2
<1>2. \A j \in Job, e \in Nat : HoldsThat(t, j, e) => Bears(a, j, e)
  BY <1>1, NoJobs DEF SameJob, HoldsThat, Holds, Bears
<1>3. t.link # NoConn => \A j \in Job, e \in Nat :
        Assigns(down'[t.link], j, e) => Bears(a, j, e)
  BY <1>1 DEF Bears
<1>4. ASSUME NEW b \in Agent \ {a}, agent[b].link # NoConn
      PROVE  down'[agent[b].link] = down[agent[b].link]
  <2>1. agent[b].link # agent[a].link /\ agent[b].link \in Conn
    BY <1>4, OthersKeep DEF TypeOK, AgentRec
  <2>2. \/ UNCHANGED down
        \/ down' = [c \in Conn |-> IF c = agent[a].link THEN <<>> ELSE down[c]]
    <3>1. CASE Upload(a)
      BY <3>1 DEF Upload
    <3>2. CASE Disconnect(a) \/ AgentCrash(a)
      BY <3>2, DisconnectLinks
    <3> QED
      BY <3>1, <3>2
  <2> QED
    BY <2>1, <2>2
<1> QED
  BY <1>1, <1>2, <1>3, <1>4, OneBears

LEMMA WelcomedSame ==
    ASSUME NEW s \in AgentRec, NEW c \in Conn, NEW acked, NEW answer,
           NEW j, NEW e, Holds(Welcomed(s, c, answer, acked)),
           HoldsThat(Welcomed(s, c, answer, acked), j, e)
    PROVE  HoldsThat(s, j, e)
<1> DEFINE t == [s EXCEPT !.link = c]
           u == [t EXCEPT !.cur.out = EmptyOutbox]
           v == [t EXCEPT !.cur.out = Rewind(t.cur.out, acked)]
           w == [t EXCEPT !.ready = TRUE]
           x == [u EXCEPT !.cur.released = answer]
<1>1. t.cur = s.cur /\ w.cur = s.cur
  BY DEF AgentRec
<1>2. /\ u.cur.job = s.cur.job /\ u.cur.epoch = s.cur.epoch
      /\ v.cur.job = s.cur.job /\ v.cur.epoch = s.cur.epoch
      /\ x.cur.job = s.cur.job /\ x.cur.epoch = s.cur.epoch
  BY DEF AgentRec, CurrentRec
<1>3. \/ Welcomed(s, c, answer, acked) \in {t, v, w, x}
      \/ Welcomed(s, c, answer, acked) = LetGo(u, answer)
  BY DEF Welcomed, Stopped
<1>4. LetGo(u, answer).cur = Idle
  BY DEF LetGo, AgentRec
<1> HIDE DEF t, u, v, w, x
<1>5. ~Holds(LetGo(u, answer))
  BY <1>4 DEF Holds, Idle
<1> QED
  BY <1>1, <1>2, <1>3, <1>5 DEF HoldsThat

LEMMA ConnectBears ==
    ASSUME TypeOK, LinkInv, NEW a \in Agent, Connect(a)
    PROVE  BearsOn
<1>1. PICK t \in AgentRec, acked \in Int : \E answer, old, told :
        Resumed(a, t, acked, answer, old, told)
  BY ConnectParts
<1>2. PICK answer, old, told : Resumed(a, t, acked, answer, old, told)
  BY <1>1
<1> DEFINE c == nextConn
           s == agent[a]
           u == AfterFlush(t)
           v == VerdictOrder(s.cur.job, s.cur.epoch, settled[s.cur.job].accepted)
<1>3. /\ c \in Conn /\ s.link = NoConn /\ s \in AgentRec /\ Sound(s)
      /\ t = Welcomed(s, c, told, acked)
      /\ told \in {"none", "continue", "lease_lost", "cancelled", "reroute"}
      /\ told = "none" => ~Runs(s)
  BY <1>2 DEF Resumed, LinkInv, LinkAt
<1>4. ~Open(c) /\ down[c] = <<>>
  <2>1. c >= nextConn
    BY DEF TypeOK
  <2> QED
    BY <1>3, <2>1 DEF LinkInv, Unopened
<1>5. t.link = c /\ Sound(t)
  <2> HIDE DEF s, c
  <2>1. /\ Welcomed(s, c, told, acked).link = c
        /\ Sound(Welcomed(s, c, told, acked))
    BY <1>3, WelcomedTurns, Zenon
  <2> QED
    BY <1>3, <2>1, Zenon
<1>6. CASE UNCHANGED agent /\ UNCHANGED down
  BY <1>6 DEF BearsOn, Bears
<1>7. CASE /\ agent' = [agent EXCEPT ![a] = u]
           /\ down' = down \/ down' = [down EXCEPT ![c] = <<v>>]
  <2>1. /\ u.link = c
        /\ Holds(u) => Holds(t) /\ u.cur.job = t.cur.job /\ u.cur.epoch = t.cur.epoch
    BY <1>5, FlushTurns
  <2>2. ASSUME NEW j \in Job, NEW e \in Nat, HoldsThat(u, j, e)
        PROVE  Bears(a, j, e)
    <3>1. Holds(t) /\ HoldsThat(t, j, e)
      BY <2>1, <2>2, NoJobs DEF HoldsThat, Holds
    <3>2. HoldsThat(s, j, e)
      BY <1>3, <3>1, WelcomedSame
    <3> QED
      BY <3>2 DEF Bears
  <2>3. None(down'[c], "assign")
    <3>1. v.type # "assign"
      BY DEF VerdictOrder, Order
    <3> HIDE DEF v
    <3>2. None(<<v>>, "assign")
      BY <3>1 DEF None
    <3>3. down'[c] = <<>> \/ down'[c] = <<v>>
      BY <1>3, <1>4, <1>7 DEF TypeOK
    <3> QED
      BY <3>2, <3>3, NoneOfNone
  <2>4. \A j, e : ~Assigns(down'[c], j, e)
    BY <2>3 DEF Assigns, None
  <2>5. ASSUME NEW b \in Agent \ {a}, agent[b].link # NoConn
        PROVE  down'[agent[b].link] = down[agent[b].link]
    <3>1. agent[b].link \in Conn /\ agent[b].link # c
      BY <1>3, <2>5 DEF LinkInv, LinkAt, TypeOK, AgentRec
    <3>2. down \in [Conn -> Seq(OrderRec)]
      BY DEF TypeOK
    <3> HIDE DEF c, v
    <3> QED
      BY <1>7, <3>1, <3>2
  <2> HIDE DEF u, c, v
  <2> QED
    BY <1>7, <2>1, <2>2, <2>4, <2>5, OneBears
<1> QED
  <2> HIDE DEF u, v
  <2>1. \/ UNCHANGED agent /\ UNCHANGED down
        \/ /\ agent' = [agent EXCEPT ![a] = u]
           /\ down' = IF answer = "settled" THEN [down EXCEPT ![c] = <<v>>]
                      ELSE down
    BY <1>2 DEF Resumed, u, v
  <2> QED
    BY <1>6, <1>7, <2>1

LEMMA ClaimBears ==
    ASSUME LifeInv, LinkInv, NEW j \in Job, Claim(j)
    PROVE  BearsOn
<1> DEFINE m == Order("assign", j, runner[j].epoch, "none", 0)
<1>1. PICK c \in Conn :
        /\ Free(c, j) /\ runner[j].pc = "claiming"
        /\ lease' = [lease EXCEPT ![j] =
                       NewLease(c, conn[c].agent, runner[j].epoch)]
        /\ down' = Sent(c, m) /\ UNCHANGED agent
  BY DEF Claim, At
<1>2. TypeOK /\ runner[j].epoch = row[j].epoch
  BY <1>1 DEF LifeInv, FenceInv, EpochsGiven, Attempted
<1>3. m \in OrderRec
  BY <1>2, OrderTyped DEF TypeOK, RunnerRec
<1>4. /\ m.type = "assign" /\ m.job = j /\ m.epoch = row[j].epoch
  BY <1>2 DEF Order
<1>5. lease'[j].agent = conn[c].agent
  <2>1. lease'[j] = NewLease(c, conn[c].agent, runner[j].epoch)
    BY <1>1, <1>2 DEF TypeOK
  <2> QED
    BY <2>1 DEF NewLease
<1> HIDE DEF m
<1> SUFFICES ASSUME NEW a \in Agent, NEW k \in Job, NEW e \in Nat,
                    agent[a].link # NoConn, Assigns(down'[agent[a].link], k, e)
             PROVE  Bears(a, k, e) \/ Handed(a, k, e)
  BY <1>1 DEF BearsOn, Bears
<1> DEFINE b == agent[a].link
           d == down[b]
           f == down'[b]
<1>6. b \in Conn /\ d \in Seq(OrderRec) /\ down \in [Conn -> Seq(OrderRec)]
  BY <1>2 DEF TypeOK, AgentRec
<1>7. f = d \/ (b = c /\ Open(c) /\ f = Append(d, m))
  <2> HIDE DEF b
  <2> QED
    BY <1>1, <1>6 DEF Sent, Listening
<1>8. b = c /\ Open(c) => conn[c].agent = a
  BY <1>6 DEF LinkInv, LinkAt
<1>9. Assigns(f, k, e)
  OBVIOUS
<1>10. CASE f = d
  BY <1>9, <1>10 DEF Bears
<1>11. CASE b = c /\ Open(c) /\ f = Append(d, m)
  <2> HIDE DEF d, f
  <2>1. Assigns(Append(d, m), k, e)
    BY <1>9, <1>11
  <2>2. Assigns(d, k, e) \/ (k = j /\ e = row[j].epoch)
    BY <1>3, <1>4, <1>6, <2>1, AssignsOn
  <2>3. CASE Assigns(d, k, e)
    BY <2>3 DEF Bears, d
  <2>4. CASE k = j /\ e = row[j].epoch
    BY <1>1, <1>5, <1>8, <1>11, <2>4 DEF Handed
  <2> QED
    BY <2>2, <2>3, <2>4
<1> QED
  BY <1>7, <1>10, <1>11

\* An attempt comes to be worked at by no other agent than the one it is
\* given to.
LEMMA NextBears ==
    ASSUME ClaimBase, [Next]_vars
    PROVE  BearsOn
<1>1. TypeOK /\ LifeInv /\ LinkInv
  BY DEF ClaimBase, LifeInv, FenceInv
<1>2. ASSUME UNCHANGED <<agent, down>> PROVE BearsOn
  BY <1>2 DEF BearsOn, Bears
<1>3. ASSUME QuietStep PROVE BearsOn
  BY <1>1, <1>3, QuietBears DEF QuietStep, Quiet
<1>4. CASE UNCHANGED vars
  BY <1>2, <1>4 DEF vars
<1>5. ASSUME NEW a \in Agent, AgentStep(a)
      PROVE  BearsOn
  <2>1. CASE JobProgress(a) \/ JobFinished(a) \/ JobKilled(a) \/ HoldExpires(a)
    BY <1>1, <2>1, TurnsTaken, TurnBears
  <2>2. CASE OnOrder(a)
    BY <1>1, <2>2, OrdersRead, TurnBears
  <2>3. CASE Upload(a) \/ Disconnect(a) \/ AgentCrash(a)
    BY <1>1, <2>3, LosesBears
  <2>4. CASE Heartbeat(a)
    BY <1>2, <2>4 DEF Heartbeat
  <2>5. CASE Connect(a)
    BY <1>1, <2>5, ConnectBears
  <2> QED
    BY <1>5, <2>1, <2>2, <2>3, <2>4, <2>5 DEF AgentStep
<1>6. ASSUME NEW c \in Conn, ChannelStep(c)
      PROVE  BearsOn
  <2>1. CASE OnReady(c)
    BY <1>2, <2>1 DEF OnReady
  <2> QED
    BY <1>1, <1>3, <1>6, <2>1, ChannelQuiet
<1>7. ASSUME NEW j \in Job, RunnerStep(j)
      PROVE  BearsOn
  BY <1>1, <1>3, <1>7, ClaimBears, RunnerQuiet
<1>8. ASSUME (\E j \in Job : Expire(j) \/ UserCancel(j)) \/ Stop \/ Restart
      PROVE  BearsOn
  BY <1>1, <1>3, <1>8, SurroundingsQuiet
<1> QED
  BY <1>4, <1>5, <1>6, <1>7, <1>8 DEF Next

\* Agent a claims attempt e of job j.
Claims(a, j, e) == Bears(a, j, e) \/ Names(a, j, e)

\* The attempt's epoch has been given out, and its runner has found an agent.
Issued(j, e) == /\ e <= row[j].epoch
                /\ e = row[j].epoch => runner[j].pc # "claiming"

ClaimsInv == \A j \in Job, a \in Agent : \A e \in Nat :
               Claims(a, j, e) => /\ Issued(j, e)
                                  /\ \A b \in Agent : Claims(b, j, e) => a = b

LEMMA NamesOn ==
    ASSUME NEW j \in Job, JobOn(j), NEW a \in Agent, NEW e \in Nat, Names(a, j, e)'
    PROVE  Names(a, j, e) \/ Handed(a, j, e)
<1>1. a # NoAgent /\ NoLease.agent = NoAgent
  BY StoreAssumption DEF NoLease, NewLease
<1>2. CASE lease'[j].agent = a /\ lease'[j].epoch = e
  BY <1>1, <1>2 DEF JobOn, On, LeaseOn, GivenOut, Adopted, Names, Handed
<1>3. CASE row'[j].holder = a /\ row'[j].epoch = e
  BY <1>1, <1>3 DEF JobOn, On, RowOn, Names
<1> QED
  BY <1>2, <1>3 DEF Names

LEMMA NextClaims ==
    ASSUME ClaimBase, ClaimBase', ClaimsInv, [Next]_vars
    PROVE  ClaimsInv'
<1>1. ASSUME NEW j \in Job, NEW a \in Agent, NEW e \in Nat, Claims(a, j, e)'
      PROVE  Claims(a, j, e) \/ Handed(a, j, e)
  BY <1>1, NextBears, NextOn, NamesOn DEF Claims, BearsOn, ClaimBase
<1>2. ASSUME NEW j \in Job, NEW a \in Agent, NEW b \in Agent, NEW e \in Nat,
             Handed(a, j, e)
      PROVE  ~Claims(b, j, e)
  BY <1>2 DEF ClaimsInv, Issued, Handed
<1>3. ASSUME NEW j \in Job, NEW a \in Agent, NEW e \in Nat, Claims(a, j, e)'
      PROVE  Issued(j, e)'
  <2>1. /\ row'[j].epoch >= row[j].epoch
        /\ runner'[j].pc = "claiming" => \/ row'[j].epoch > row[j].epoch
                                         \/ runner[j].pc = "claiming"
        /\ row[j].epoch \in Nat /\ row'[j].epoch \in Nat
    BY NextOn DEF ClaimBase, JobOn, On, RowOn, LifeInv, FenceInv, TypeOK, Row
  <2>2. CASE Claims(a, j, e)
    <3>1. Issued(j, e)
      BY <2>2 DEF ClaimsInv
    <3> QED
      BY <2>1, <3>1 DEF Issued
  <2>3. CASE Handed(a, j, e)
    <3>1. lease'[j] # NoLease
      BY <2>3, StoreAssumption DEF Handed, NoLease, NewLease
    <3>2. runner'[j].pc \in Owning
      BY <3>1 DEF ClaimBase, LifeInv, FenceInv, Fence, Held
    <3> QED
      BY <2>1, <2>3, <3>2 DEF Handed, Issued, Owning
  <2> QED
    BY <1>1, <1>3, <2>2, <2>3
<1>4. ASSUME NEW j \in Job, NEW a \in Agent, NEW b \in Agent, NEW e \in Nat,
             Claims(a, j, e)', Claims(b, j, e)'
      PROVE  a = b
  <2>1. /\ Claims(a, j, e) \/ Handed(a, j, e)
        /\ Claims(b, j, e) \/ Handed(b, j, e)
    BY <1>1, <1>4
  <2> QED
    BY <1>2, <2>1 DEF ClaimsInv, Handed
<1> QED
  BY <1>3, <1>4 DEF ClaimsInv

\* Whoever claims an attempt, as its worker, by an `assign` under way, in the
\* hub's lease or in the durable row, is one agent, and none claims one that
\* the store has not given out (jobs.rs `begin_attempt`, workers.rs `claim`,
\* `resume`, `adopt`).
THEOREM ClaimsInvariant == Spec => [](ClaimBase /\ ClaimsInv)
<1>1. Init => ClaimsInv
  <2> SUFFICES ASSUME Init, NEW j \in Job, NEW a \in Agent, NEW e \in Nat
               PROVE  ~Claims(a, j, e)
    BY DEF ClaimsInv
  <2>1. agent[a] = NewAgent /\ NewAgent.link = NoConn /\ NewAgent.cur.job = NoJob
    BY DEF Init, NewAgent, Idle
  <2>2. row[j].holder = NoAgent /\ lease[j].agent = NoAgent /\ a # NoAgent
    BY StoreAssumption DEF Init, NewRow, NoLease, NewLease
  <2> QED
    BY <2>1, <2>2, NoJobs DEF Claims, Bears, Names, HoldsThat
<1>2. ClaimBase /\ ClaimBase' /\ ClaimsInv /\ [Next]_vars => ClaimsInv'
  BY NextClaims
<1> QED
  BY <1>1, <1>2, BaseInvariant, PTL DEF Spec

\* One attempt, one agent (workers.rs `resume`, agent.rs `on_message`).
THEOREM OneHolderPerEpoch == Spec => []EpochHasOneHolder
<1>1. ClaimBase /\ ClaimsInv => EpochHasOneHolder
  <2> SUFFICES ASSUME ClaimBase, ClaimsInv, NEW a \in Agent, Holds(agent[a])
               PROVE  LET cur == agent[a].cur IN
                      /\ cur.epoch <= row[cur.job].epoch
                      /\ (Held(cur.job) /\ lease[cur.job].epoch = cur.epoch
                          => lease[cur.job].agent = a)
                      /\ \A b \in Agent \ {a} :
                           ~HoldsThat(agent[b], cur.job, cur.epoch)
    BY DEF EpochHasOneHolder
  <2> DEFINE j == agent[a].cur.job
             e == agent[a].cur.epoch
  <2>1. j \in Job /\ e \in Nat
    BY DEF ClaimBase, LifeInv, FenceInv, TypeOK, AgentRec, CurrentRec, Holds
  <2>2. Claims(a, j, e)
    BY DEF Claims, Bears, HoldsThat
  <2>3. \A b \in Agent : HoldsThat(agent[b], j, e) => Claims(b, j, e)
    BY DEF Claims, Bears
  <2>4. Held(j) => lease[j].agent \in Agent
    BY <2>1 DEF ClaimBase, HolderInv
  <2> HIDE DEF j, e
  <2>5. Issued(j, e) /\ \A b \in Agent : Claims(b, j, e) => a = b
    BY <2>1, <2>2 DEF ClaimsInv
  <2>6. Held(j) /\ lease[j].epoch = e => lease[j].agent = a
    BY <2>4, <2>5 DEF Claims, Names
  <2> QED
    BY <2>3, <2>5, <2>6 DEF Issued, j, e
<1> QED
  BY <1>1, ClaimsInvariant, PTL

=============================================================================
