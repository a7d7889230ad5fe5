--------------------------- MODULE VerdictProofs ---------------------------
(***************************************************************************)
(* What an agent is told of its result, proved of WorkerLease for any      *)
(* jobs, agents, classes, bounds and surroundings.                         *)
(*                                                                         *)
(* A verdict is given by three: by the runner that settles the lease, by   *)
(* the hub that reads a result again of what is settled or of nobody's     *)
(* lease, and by a resume.  None of them waits for another, and a verdict  *)
(* may be under way while its attempt is still leased.  They agree for two *)
(* reasons.  A result is the last thing an agent writes of an attempt, and *)
(* is under way at most once on a channel from which the hub may take it   *)
(* (SealInv); so nothing comes after it of which a second verdict could    *)
(* speak.  And a verdict that an agent has yet to read is what is settled, *)
(* or a refusal of an attempt from which the hub will take no result any   *)
(* more (HonestInv).                                                       *)
(***************************************************************************)
EXTENDS EventProofs

USE DEF NoJob, NoConn, Conn

-----------------------------------------------------------------------------
\* What must hold for a verdict to be honest.

\* The agent runs the attempt.
Does(s, j, e) == Runs(s) /\ HoldsThat(s, j, e)
Leased(a, j, e) == lease[j].agent = a /\ lease[j].epoch = e
Decided(a, j, e) == settled[j].agent = a /\ settled[j].epoch = e

Results(j, e) == {f \in FrameRec : OfAttempt(f, j, e) /\ f.ev = "result"}
Verdicts(j, e, why) ==
    {m \in OrderRec : /\ m.type = "verdict"
                      /\ m.job = j /\ m.epoch = e /\ m.why = why}

\* A result is the last thing the job's thread reports, and what a linked
\* agent reports is written.
Closes(s) ==
    LET o == s.cur.out IN
    Runs(s) => \A k \in DOMAIN o.evs :
                 o.evs[k] = "result" => s.cur.done = "result" /\ k = Len(o.evs)
Tidy(s) == Closes(s) /\ (Runs(s) /\ s.link # NoConn => AllWritten(s.cur.out))

\* The agent has ended with a result, and written all up to n at most.
Sealed(s, n) == /\ s.cur.done = "result"
                /\ AllWritten(s.cur.out) /\ s.cur.out.last <= n

\* The hub took a result from the lease's attempt only if its log says so.
ResultAt(j) ==
    LET l == lease[j] IN
    /\ Has(l.events, {"result"}) => l.result
    /\ runner[j].pc \in {"registering", "registered"} => l.result
    /\ l.result => l.finished /\ l.next >= 2

\* The job is over: its map is published, and no runner goes on with it.
Concluded(j) ==
    /\ published[j] > 0 /\ ~IsLive(row[j])
    /\ \/ runner[j].pc = "gone"
       \/ runner[j].pc = "ending" /\ runner[j].after = "gone"
AcceptedAt(j) ==
    settled[j].accepted =>
      /\ Concluded(j)
      /\ Held(j) => Decided(lease[j].agent, j, lease[j].epoch)

\* An agent whose result was taken, or settled, has nothing more to write.
Rested(a, j, e) ==
    Does(agent[a], j, e) =>
      /\ lease[j].result => Sealed(agent[a], lease[j].next - 1)
      /\ Decided(a, j, e) => Sealed(agent[a], settled[j].last)

\* The result that is under way on the lease's channel is the only one, and
\* what its agent wrote last.
Single(a, j, e) ==
    LET l == lease[j]
        c == l.conn
    IN  c # NoConn /\ Has(up[c], Results(j, e)) =>
          /\ ~l.result
          /\ l.time # "lost" =>
               /\ Few(up[c], Results(j, e))
               /\ Does(agent[a], j, e) =>
                    \A f \in Results(j, e) :
                      Has(up[c], {f}) => Sealed(agent[a], f.seq)

\* The lease is on the channel on which its agent goes on with the attempt,
\* until it is settled.
Followed(a, j, e) ==
    LET c == agent[a].link IN
    c # NoConn /\ Open(c) =>
      /\ Takes(a, j, e) => lease[j].conn = c \/ Decided(a, j, e)
      /\ Has(up[c], Results(j, e)) => lease[j].conn = c

\* What is settled ends.
Parting(a, j, e) ==
    Decided(a, j, e) => /\ runner[j].pc = "ending" /\ lease[j].result
                          /\ settled[j].last < lease[j].next

SealAt(a, j, e) == Leased(a, j, e) => /\ Rested(a, j, e) /\ Single(a, j, e)
                                      /\ Followed(a, j, e) /\ Parting(a, j, e)

\* The hub will take no result of the lease.
Barred(j) ==
    LET l == lease[j] IN
    /\ ~l.result
    /\ l.finished \/ l.cancelled \/ l.time = "lost" \/ l.conn = NoConn

\* What a verdict that agent a has yet to read says is so.
Honest(a, j, e, why) ==
    /\ Issued(j, e)
    /\ Decided(a, j, e) => (settled[j].accepted <=> why = "accepted")
    /\ why = "accepted" => Concluded(j) /\ (Held(j) => Decided(a, j, e))
    /\ why = "rejected" /\ Leased(a, j, e) /\ ~Decided(a, j, e) => Barred(j)
Answer(a, j, e, why) == /\ agent[a].link # NoConn
                        /\ Has(down[agent[a].link], Verdicts(j, e, why))

TidyInv == \A a \in Agent : Tidy(agent[a])
JobInv == \A j \in Job : ResultAt(j) /\ AcceptedAt(j)
SealInv == \A a \in Agent, j \in Job : \A e \in Nat : SealAt(a, j, e)
HonestInv == \A a \in Agent, j \in Job : \A e \in Nat :
               \A why \in {"accepted", "rejected"} :
                 Answer(a, j, e, why) => Honest(a, j, e, why)
VerdictInv == TidyInv /\ JobInv /\ SealInv /\ HonestInv

-----------------------------------------------------------------------------
\* What an agent's turn makes of its outbox.

\* A step of the agent from s to t keeps its result the last thing it says.
SealsOn(s, t) ==
    Runs(t) =>
      /\ Closes(t)
      /\ \/ Runs(s) /\ \A n \in Int : Sealed(s, n) => Sealed(t, n)
         \/ ~Holds(s) /\ t.cur.out = EmptyOutbox

\* An acknowledgement drops events at the front and leaves the last one last.
LEMMA AckCloses ==
    ASSUME NEW o \in OutboxRec, o.written <= Len(o.evs), NEW acked \in Int
    PROVE  LET p == Ack(o, acked) IN
           /\ \A ev : (\A k \in DOMAIN o.evs : o.evs[k] = ev => k = Len(o.evs))
                => \A k \in DOMAIN p.evs : p.evs[k] = ev => k = Len(p.evs)
           /\ \A k \in DOMAIN p.evs : \E i \in DOMAIN o.evs : p.evs[k] = o.evs[i]
           /\ AllWritten(o) => AllWritten(p)
           /\ p.last = o.last
<1> DEFINE n == Covered(o, acked)
           p == Ack(o, acked)
<1>1. o.evs \in Seq(JobEvent) /\ o.written \in Nat /\ o.last \in Int
  BY DEF OutboxRec
<1>2. n \in 0 .. o.written
  BY <1>1 DEF Covered
<1>3. p.evs = SubSeq(o.evs, n + 1, Len(o.evs)) /\ p.written = o.written - n
      /\ p.last = o.last
  BY DEF Ack, OutboxRec
<1> HIDE DEF n, p
<1>4. /\ Len(p.evs) = Len(o.evs) - n
      /\ \A k \in DOMAIN p.evs : k + n \in DOMAIN o.evs /\ p.evs[k] = o.evs[k + n]
  BY <1>1, <1>2, <1>3
<1>5. DOMAIN p.evs = 1 .. Len(p.evs) /\ DOMAIN o.evs = 1 .. Len(o.evs)
  BY <1>1, <1>2, <1>3
<1>6. \A ev : (\A k \in DOMAIN o.evs : o.evs[k] = ev => k = Len(o.evs))
        => \A k \in DOMAIN p.evs : p.evs[k] = ev => k = Len(p.evs)
  <2> SUFFICES ASSUME NEW ev,
                      \A k \in DOMAIN o.evs : o.evs[k] = ev => k = Len(o.evs),
                      NEW k \in DOMAIN p.evs, p.evs[k] = ev
               PROVE  k = Len(p.evs)
    OBVIOUS
  <2>1. k + n = Len(o.evs)
    BY <1>4
  <2>2. k \in Int /\ n \in Int /\ Len(o.evs) \in Int
    BY <1>1, <1>2, <1>5
  <2> QED
    BY <1>4, <2>1, <2>2
<1>7. AllWritten(o) => AllWritten(p)
  BY <1>1, <1>2, <1>3, <1>4 DEF AllWritten
<1>8. \A k \in DOMAIN p.evs : \E i \in DOMAIN o.evs : p.evs[k] = o.evs[i]
  BY <1>4
<1> QED
  BY <1>3, <1>6, <1>7, <1>8 DEF p

\* What is reported before a result leaves the result last.
LEMMA PushCloses ==
    ASSUME NEW o \in OutboxRec, NEW ev \in JobEvent,
           \A k \in DOMAIN o.evs : o.evs[k] # "result"
    PROVE  \A k \in DOMAIN Push(o, ev).evs :
             Push(o, ev).evs[k] = "result" => ev = "result" /\ k = Len(Push(o, ev).evs)
<1>1. o.evs \in Seq(JobEvent) /\ Push(o, ev).evs = Append(o.evs, ev)
  BY DEF OutboxRec, Push
<1> HIDE DEF Push
<1>2. Len(Append(o.evs, ev)) = Len(o.evs) + 1
  BY <1>1
<1> QED
  BY <1>1, <1>2

\* An agent that keeps its job keeps its result last;
LEMMA SameSeals ==
    ASSUME NEW s, NEW t, t.cur = s.cur, Closes(s)
    PROVE  SealsOn(s, t)
BY DEF SealsOn, Closes, Sealed, Runs, Holds

\* one that runs none has none.
LEMMA NoneSeals ==
    ASSUME NEW s, NEW t, ~Runs(t)
    PROVE  SealsOn(s, t)
BY DEF SealsOn

\* Each order an agent reads keeps its result the last thing it says.
LEMMA OrdersSeal ==
    ASSUME NEW s \in AgentRec, Orderly(s), Closes(s), NEW m \in OrderRec
    PROVE  /\ m.type = "cancel" => SealsOn(s, Cancelled(s, m))
           /\ m.type = "verdict" => SealsOn(s, Answered(s, m))
           /\ m.type = "renewed" => SealsOn(s, Renewed(s, m))
           /\ ~Holds(s) => SealsOn(s, Assigned(s, m))
<1>1. \A why : ~Runs(LetGo(s, why))
  BY DEF LetGo, Runs, Holds, Idle, AgentRec
<1>2. \A f : SealsOn(s, Queue(s, f))
  <2> TAKE f
  <2>1. Queue(s, f).cur = s.cur
    BY DEF Queue, AgentRec
  <2> QED
    BY <2>1, SameSeals
<1>3. m.type = "cancel" => SealsOn(s, Cancelled(s, m))
  <2> SUFFICES ASSUME m.type = "cancel" PROVE SealsOn(s, Cancelled(s, m))
    OBVIOUS
  <2>1. m.why # "no"
    BY StoreAssumption DEF OrderRec, OrderOf, Reason, CloseOrder, Order
  <2>2. ~Runs(Stopped(s, m.why))
    BY <1>1, <2>1 DEF Stopped, Runs, AgentRec, CurrentRec
  <2> QED
    BY <1>2, <2>2, NoneSeals DEF Cancelled
<1>4. m.type = "verdict" => SealsOn(s, Answered(s, m))
  BY <1>1, NoneSeals, SameSeals DEF Answered
<1>5. SealsOn(s, Renewed(s, m)) \/ m.type # "renewed"
  <2> DEFINE o == s.cur.out
             p == Ack(o, m.acked)
             t == Renewed(s, m)
  <2>1. CASE ~HoldsThat(s, m.job, m.epoch)
    BY <2>1, SameSeals DEF Renewed
  <2>2. CASE HoldsThat(s, m.job, m.epoch) /\ m.type = "renewed"
    <3>1. /\ t.cur.out = p /\ t.cur.done = s.cur.done
          /\ t.cur.job = s.cur.job /\ t.cur.released = s.cur.released
      BY <2>2 DEF Renewed, AgentRec, CurrentRec
    <3>2. o \in OutboxRec /\ o.written <= Len(o.evs) /\ m.acked \in Int
      BY <2>2 DEF AgentRec, CurrentRec, Orderly, OrderRec, OrderOf, CloseOrder, Order
    <3>3. /\ \A ev : (\A k \in DOMAIN o.evs : o.evs[k] = ev => k = Len(o.evs))
               => \A k \in DOMAIN p.evs : p.evs[k] = ev => k = Len(p.evs)
          /\ \A k \in DOMAIN p.evs : \E i \in DOMAIN o.evs : p.evs[k] = o.evs[i]
          /\ AllWritten(o) => AllWritten(p)
          /\ p.last = o.last
      BY <3>2, AckCloses
    <3> HIDE DEF t, p
    <3> SUFFICES SealsOn(s, t)
      BY DEF t
    <3>4. Runs(t) <=> Runs(s)
      BY <3>1 DEF Runs, Holds
    <3>5. Runs(s) => \A k \in DOMAIN o.evs :
                       o.evs[k] = "result" => s.cur.done = "result" /\ k = Len(o.evs)
      BY DEF Closes
    <3>6. Closes(t)
      BY <3>1, <3>3, <3>4, <3>5 DEF Closes
    <3>7. \A n \in Int : Sealed(s, n) => Sealed(t, n)
      BY <3>1, <3>3 DEF Sealed
    <3> QED
      BY <3>4, <3>6, <3>7 DEF SealsOn
  <2> QED
    BY <2>1, <2>2
<1>6. ~Holds(s) => SealsOn(s, Assigned(s, m))
  <2> SUFFICES ASSUME ~Holds(s) PROVE SealsOn(s, Assigned(s, m))
    OBVIOUS
  <2>1. Assigned(s, m).cur = [Idle EXCEPT !.job = m.job, !.epoch = m.epoch]
    BY DEF Assigned, AgentRec
  <2>2. Assigned(s, m).cur.out = EmptyOutbox /\ DOMAIN EmptyOutbox.evs = {}
    BY <2>1 DEF Idle, EmptyOutbox
  <2> QED
    BY <2>2 DEF SealsOn, Closes
<1> QED
  BY <1>3, <1>4, <1>5, <1>6

\* So does each report of its job's thread.
LEMMA ReportsSeal ==
    ASSUME NEW s \in AgentRec, Orderly(s), Closes(s), Runs(s), s.cur.done = "no"
    PROVE  /\ SealsOn(s, Reports(s, "features"))
           /\ SealsOn(s, EndsWith(s, "result", "result"))
           /\ \A ev \in JobEvent \ {"result"} : \A done : SealsOn(s, EndsWith(s, ev, done))
<1> DEFINE o == s.cur.out
<1>1. o \in OutboxRec
  BY DEF AgentRec, CurrentRec
<1>2. \A k \in DOMAIN o.evs : o.evs[k] # "result"
  BY DEF Closes
<1>3. \A ev \in JobEvent : \A k \in DOMAIN Push(o, ev).evs :
        Push(o, ev).evs[k] = "result" => ev = "result" /\ k = Len(Push(o, ev).evs)
  BY <1>1, <1>2, PushCloses
<1>4. "features" \in JobEvent /\ "result" \in JobEvent /\ "features" # "result"
  BY DEF JobEvent, Terminal
<1>5. \A n : ~Sealed(s, n)
  BY DEF Sealed
<1>6. Reports(s, "features").cur.out = Push(o, "features")
  BY DEF Reports, AgentRec, CurrentRec
<1>7. \A ev, done : /\ EndsWith(s, ev, done).cur.out = Push(o, ev)
                    /\ EndsWith(s, ev, done).cur.done = done
  BY DEF EndsWith, AgentRec, CurrentRec
<1> HIDE DEF o
<1>8. SealsOn(s, Reports(s, "features"))
  BY <1>3, <1>4, <1>5, <1>6 DEF SealsOn, Closes
<1>9. SealsOn(s, EndsWith(s, "result", "result"))
  BY <1>3, <1>4, <1>5, <1>7 DEF SealsOn, Closes
<1>10. \A ev \in JobEvent \ {"result"} : \A done : SealsOn(s, EndsWith(s, ev, done))
  BY <1>3, <1>5, <1>7 DEF SealsOn, Closes
<1> QED
  BY <1>8, <1>9, <1>10

\* The result is the last event of a flush.
LEMMA EventResults ==
    ASSUME NEW s \in AgentRec, Orderly(s), Closes(s), NEW j, NEW e,
           NEW k \in DOMAIN EventFrames(s), EventFrames(s)[k] \in Results(j, e)
    PROVE  LET o == s.cur.out IN
           /\ Does(s, j, e) /\ s.cur.done = "result" /\ ~AllWritten(o)
           /\ k = Len(o.evs) - o.written
           /\ EventFrames(s)[k].seq = o.last + (Len(o.evs) - o.written)
<1> DEFINE o == s.cur.out
           n == Len(o.evs) - o.written
           q == EventFrames(s)
<1>1. o \in OutboxRec /\ o.last \in Int /\ n \in Nat /\ o.written \in Nat
  BY DEF AgentRec, CurrentRec, OutboxRec, Orderly
<1>2. Runs(s)
  BY DEF EventFrames
<1>3. /\ DOMAIN Unwritten(o) = 1 .. n
      /\ \A i \in 1 .. n : /\ Unwritten(o)[i].seq = o.last + i
                           /\ Unwritten(o)[i].ev = o.evs[o.written + i]
  BY DEF Unwritten
<1>4. DOMAIN q = 1 .. n
  BY <1>2, <1>3 DEF EventFrames
<1>5. \A i \in 1 .. n : /\ q[i].job = s.cur.job /\ q[i].epoch = s.cur.epoch
                        /\ q[i].seq = o.last + i /\ q[i].ev = o.evs[o.written + i]
  BY <1>2, <1>3 DEF EventFrames, Frame
<1>6. k \in 1 .. n /\ q[k].ev = "result" /\ OfAttempt(q[k], j, e)
  BY <1>4 DEF Results
<1>7. o.evs \in Seq(JobEvent) /\ o.written + k \in DOMAIN o.evs
  BY <1>1, <1>6 DEF OutboxRec
<1>8. s.cur.done = "result" /\ o.written + k = Len(o.evs)
  BY <1>2, <1>5, <1>6, <1>7 DEF Closes
<1>9. k = n /\ ~AllWritten(o)
  BY <1>1, <1>6, <1>7, <1>8 DEF AllWritten
<1>10. Does(s, j, e)
  BY <1>2, <1>5, <1>6 DEF Does, OfAttempt, HoldsThat
<1> QED
  BY <1>5, <1>6, <1>8, <1>9, <1>10

\* A flush writes everything, and a result once and last.
LEMMA FlushSeals ==
    ASSUME NEW s \in AgentRec, Orderly(s), Closes(s)
    PROVE  LET u == AfterFlush(s)
               q == FramesOf(s)
           IN  /\ Closes(u) /\ (Runs(u) => AllWritten(u.cur.out))
               /\ \A n \in Int : Runs(u) /\ Sealed(s, n) => Sealed(u, n)
               /\ \A j \in Job, e \in Nat :
                    /\ Does(u, j, e) => Does(s, j, e)
                    /\ Has(q, Results(j, e))
                       => Does(s, j, e) /\ ~AllWritten(s.cur.out)
                    /\ Few(q, Results(j, e))
                    /\ \A f \in Results(j, e) :
                         Has(q, {f}) /\ Runs(u) => Sealed(u, f.seq)
<1> DEFINE u == AfterFlush(s)
           v == AfterEvents(s)
           ready == <<Frame("ready", NoJob, 0, 0, "none")>>
           p == IF OwesReady(v) THEN ready ELSE <<>>
           q == EventFrames(s)
           o == s.cur.out
           hi == o.last + (Len(o.evs) - o.written)
<1>1. v \in AgentRec
  BY AfterEventsTyped
<1>2. o \in OutboxRec /\ o.last \in Int /\ hi \in Int /\ o.written <= Len(o.evs)
      /\ o.written \in Nat /\ Len(o.evs) \in Nat
  BY DEF AgentRec, CurrentRec, OutboxRec, Orderly
<1>3. Runs(v) => /\ Runs(s) /\ v.cur.out = Flushed(o) /\ v.cur.done = s.cur.done
                 /\ v.cur.job = s.cur.job /\ v.cur.epoch = s.cur.epoch
  BY DEF AfterEvents, AgentRec, CurrentRec, Runs, Holds, Idle
<1>4. Flushed(o).evs = o.evs /\ Flushed(o).written = Len(o.evs) /\ Flushed(o).last = hi
  BY <1>2 DEF Flushed, OutboxRec
<1> HIDE DEF v
<1>5. u.cur = v.cur
  <2>1. u = [v EXCEPT !.pending = <<>>, !.ready = @ /\ Holds(v)]
    BY DEF AfterFlush, v
  <2> QED
    BY <1>1, <2>1 DEF AgentRec
<1> HIDE DEF u, o, hi
<1>6. Runs(u) => /\ Runs(s) /\ u.cur.out.evs = o.evs /\ u.cur.out.written = Len(o.evs)
                 /\ u.cur.out.last = hi /\ u.cur.done = s.cur.done
                 /\ u.cur.job = s.cur.job /\ u.cur.epoch = s.cur.epoch
  BY <1>3, <1>4, <1>5 DEF Runs, Holds
<1>7. Closes(u) /\ (Runs(u) => AllWritten(u.cur.out))
  BY <1>6 DEF Closes, AllWritten, o
<1>8. ASSUME NEW n \in Int, Runs(u), Sealed(s, n) PROVE Sealed(u, n)
  <2>1. o.written = Len(o.evs) /\ o.last <= n /\ s.cur.done = "result"
    BY <1>8 DEF Sealed, AllWritten, o
  <2>2. hi = o.last
    BY <1>2, <2>1 DEF hi
  <2> QED
    BY <1>6, <1>7, <1>8, <2>1, <2>2 DEF Sealed
<1>9. /\ s.pending \in Seq(FrameRec) /\ q \in Seq(FrameRec) /\ p \in Seq(FrameRec)
      /\ \A k \in DOMAIN p : p[k].type = "ready"
      /\ \A k \in DOMAIN s.pending : s.pending[k].type # "event"
  <2>1. Frame("ready", NoJob, 0, 0, "none") \in FrameRec
    BY DEF FrameRec
  <2>2. ready \in Seq(FrameRec)
    BY <2>1
  <2>3. \A k \in DOMAIN p : p[k].type = "ready"
    BY DEF Frame
  <2> QED
    BY <2>2, <2>3, EventFramesTyped DEF AgentRec, Orderly, None
<1>10. FramesOf(s) = (s.pending \o q) \o p
  BY DEF FramesOf, v
<1> HIDE DEF p
<1>11. ASSUME NEW j \in Job, NEW e \in Nat
       PROVE  /\ Does(u, j, e) => Does(s, j, e)
              /\ Has(FramesOf(s), Results(j, e))
                 => Does(s, j, e) /\ ~AllWritten(s.cur.out)
              /\ Few(FramesOf(s), Results(j, e))
              /\ \A f \in Results(j, e) :
                   Has(FramesOf(s), {f}) /\ Runs(u) => Sealed(u, f.seq)
  <2> DEFINE S == Results(j, e)
             r == s.pending \o q
  <2>1. Does(u, j, e) => Does(s, j, e)
    BY <1>6 DEF Does, HoldsThat
  <2>2. ~Has(s.pending, S) /\ ~Has(p, S)
    BY <1>9 DEF Has, Results, OfAttempt
  <2>3. \A k \in DOMAIN q : q[k] \in S =>
          /\ Does(s, j, e) /\ s.cur.done = "result" /\ ~AllWritten(o)
          /\ k = Len(o.evs) - o.written /\ q[k].seq = hi
    BY EventResults DEF o, hi
  <2> HIDE DEF q
  <2>4. Few(q, S)
    BY <2>3 DEF Few
  <2> HIDE DEF S
  <2>5. r \in Seq(FrameRec)
    BY <1>9
  <2>6. Few(r, S) /\ \A T : Has(r, T) => Has(s.pending, T) \/ Has(q, T)
    BY <1>9, <2>2, <2>4, FewJoins
  <2> HIDE DEF r
  <2>7. /\ Few(r \o p, S)
        /\ \A T : Has(r \o p, T) => Has(r, T) \/ Has(p, T)
    BY <1>9, <2>2, <2>5, <2>6, FewJoins
  <2>8. \A T : Has(FramesOf(s), T) => Has(s.pending, T) \/ Has(q, T) \/ Has(p, T)
    BY <1>10, <2>6, <2>7 DEF r
  <2>9. Has(FramesOf(s), S) => Does(s, j, e) /\ ~AllWritten(s.cur.out)
    BY <2>2, <2>3, <2>8 DEF Has, o
  <2>10. ASSUME NEW f \in S, Has(FramesOf(s), {f}), Runs(u)
         PROVE  Sealed(u, f.seq)
    <3>1. \A r1 : Has(r1, {f}) => Has(r1, S)
      BY <2>10 DEF Has
    <3>2. Has(q, {f})
      BY <2>2, <2>8, <2>10, <3>1
    <3>3. PICK k \in DOMAIN q : q[k] = f
      BY <3>2 DEF Has
    <3>4. s.cur.done = "result" /\ f.seq = hi
      BY <2>3, <2>10, <3>3
    <3> QED
      BY <1>2, <1>6, <1>7, <2>10, <3>4 DEF Sealed
  <2> QED
    BY <1>10, <2>1, <2>7, <2>9, <2>10 DEF S, r
<1> QED
  BY <1>7, <1>8, <1>11 DEF u

\* Every turn of the agent's is such a step.
LEMMA TurnsSeal ==
    ASSUME TypeOK, LinkInv, NEW a \in Agent, AgentTurn(a), Orderly(agent[a]),
           Closes(agent[a])
    PROVE  \E t \in AgentRec : GoesOnTo(a, t) /\ SealsOn(agent[a], t)
<1> DEFINE s == agent[a]
           m == Next1(a)
<1>1. s \in AgentRec /\ Orderly(s) /\ Closes(s) /\ LinkAt(a)
  BY DEF TypeOK, LinkInv
<1>2. ASSUME NEW t \in AgentRec, Turn(a, t), Continues(s, t), UNCHANGED down,
             UNCHANGED <<jobs, process, hub>>
      PROVE  GoesOnTo(a, t)
  BY <1>2 DEF GoesOnTo, Continues
<1> HIDE DEF s
<1>3. \A ev \in JobEvent, done \in {"no", "result", "failed"} :
        /\ Reports(s, ev) \in AgentRec /\ Continues(s, Reports(s, ev))
        /\ EndsWith(s, ev, done) \in AgentRec /\ Continues(s, EndsWith(s, ev, done))
  BY <1>1, ReportsTyped, ReportsContinue
<1>4. \A why \in Reason \cup {"no"} :
        Holds(s) => LetGo(s, why) \in AgentRec /\ Continues(s, LetGo(s, why))
  BY <1>1, LetGoTyped, LetGoContinues
<1>5. \A why : SealsOn(s, LetGo(s, why))
  <2> TAKE why
  <2>1. ~Runs(LetGo(s, why))
    BY <1>1 DEF LetGo, Runs, Holds, Idle, AgentRec
  <2> QED
    BY <2>1, NoneSeals
<1>6. {"features", "result", "denied", "failed"} \subseteq JobEvent
  BY DEF JobEvent, Terminal
<1>7. CASE JobProgress(a)
  <2>1. Runs(s) /\ s.cur.done = "no" /\ Turn(a, Reports(s, "features"))
        /\ UNCHANGED <<jobs, process, hub, down>>
    BY <1>7 DEF JobProgress, Working, s
  <2>2. SealsOn(s, Reports(s, "features"))
    BY <1>1, <2>1, ReportsSeal
  <2> QED
    BY <1>2, <1>3, <1>6, <2>1, <2>2 DEF s
<1>8. CASE JobFinished(a)
  <2>1. Holds(s) /\ Runs(s) /\ s.cur.done = "no"
    BY <1>8 DEF JobFinished, Working, Runs, s
  <2>2. "oom" \in Reason
    BY DEF Reason
  <2>3. UNCHANGED <<jobs, process, hub, down>>
    BY <1>8 DEF JobFinished
  <2>4. \/ Turn(a, EndsWith(s, "result", "result"))
        \/ Turn(a, EndsWith(s, "denied", "failed"))
        \/ Turn(a, EndsWith(s, "failed", "failed"))
        \/ Turn(a, LetGo(s, "oom"))
    BY <1>8 DEF JobFinished, s
  <2>5. /\ SealsOn(s, EndsWith(s, "result", "result"))
        /\ SealsOn(s, EndsWith(s, "denied", "failed"))
        /\ SealsOn(s, EndsWith(s, "failed", "failed"))
    BY <1>1, <1>6, <2>1, ReportsSeal
  <2> QED
    BY <1>2, <1>3, <1>4, <1>5, <1>6, <2>1, <2>2, <2>3, <2>4, <2>5 DEF s
<1>9. CASE JobKilled(a)
  <2>1. Holds(s) /\ s.cur.released \in Reason
    BY <1>1, <1>9 DEF JobKilled, Runs, s, AgentRec, CurrentRec
  <2>2. Turn(a, LetGo(s, s.cur.released))
        /\ UNCHANGED <<jobs, process, hub, down>>
    BY <1>9 DEF JobKilled, s
  <2> QED
    BY <1>2, <1>4, <1>5, <2>1, <2>2 DEF s
<1>10. CASE HoldExpires(a)
  <2>1. Holds(s) /\ Turn(a, LetGo(s, "no"))
        /\ UNCHANGED <<jobs, process, hub, down>>
    BY <1>10 DEF HoldExpires, s
  <2> QED
    BY <1>2, <1>4, <1>5, <2>1 DEF s
<1>11. CASE OnOrder(a)
  <2>1. \A type : Reads(a, type) =>
           /\ s.link \in Conn /\ m \in OrderRec /\ m.type = type
    BY ReadTyped DEF s
  <2>2. /\ UNCHANGED <<jobs, process, hub>>
        /\ s.link # NoConn /\ down[s.link] # <<>>
        /\ down' = [down EXCEPT ![s.link] = Tail(@)]
    BY <1>11 DEF OnOrder, Reads, s
  <2>3. m = Head(down[s.link])
    BY DEF Next1, s
  <2>4. \/ Reads(a, "assign") /\ Turn(a, Assigned(s, m))
        \/ Reads(a, "cancel") /\ Turn(a, Cancelled(s, m))
        \/ Reads(a, "verdict") /\ Turn(a, Answered(s, m))
        \/ Reads(a, "renewed") /\ Turn(a, Renewed(s, m))
    BY <1>11 DEF OnOrder, s
  <2> HIDE DEF m
  <2>5. ASSUME NEW t \in AgentRec, Turn(a, t), Continues(s, t)
        PROVE  GoesOnTo(a, t)
    BY <2>2, <2>5 DEF GoesOnTo, Continues, s
  <2>6. CASE Reads(a, "assign") /\ Turn(a, Assigned(s, m))
    <3>1. m \in OrderRec /\ m.type = "assign"
      BY <2>1, <2>6
    <3>2. ~Holds(s)
      <4>1. down[s.link] \in Seq(OrderRec)
        BY <2>1, <2>6 DEF TypeOK
      <4>2. ~None(down[s.link], "assign")
        BY <2>2, <2>3, <3>1, <4>1, Tails
      <4>3. OneToken(conn[s.link].ready, up[s.link], down[s.link], Holds(s))
        BY <1>1, <2>2 DEF LinkAt, s
      <4> QED
        BY <4>2, <4>3 DEF OneToken
    <3>3. LET t == Assigned(s, m) IN
          /\ t.link = s.link /\ Orderly(t) /\ t.cur.out.last = 0
          /\ t.cur.job = m.job /\ t.cur.epoch = m.epoch
      BY <1>1, <3>2, AssignedBegins
    <3>4. Assigned(s, m) \in AgentRec /\ SealsOn(s, Assigned(s, m))
      BY <1>1, <3>1, <3>2, AssignedTyped, OrdersSeal
    <3> QED
      BY <2>2, <2>3, <2>6, <3>1, <3>2, <3>3, <3>4 DEF GoesOnTo, s
  <2>7. CASE Reads(a, "cancel") /\ Turn(a, Cancelled(s, m))
    <3>1. m \in OrderRec /\ m.type = "cancel"
      BY <2>1, <2>7
    <3> QED
      BY <1>1, <2>5, <2>7, <3>1, CancelledTyped, OrdersContinue, OrdersSeal DEF s
  <2>8. CASE Reads(a, "verdict") /\ Turn(a, Answered(s, m))
    <3>1. m \in OrderRec /\ m.type = "verdict"
      BY <2>1, <2>8
    <3> QED
      BY <1>1, <2>5, <2>8, <3>1, AnsweredTyped, OrdersContinue, OrdersSeal DEF s
  <2>9. CASE Reads(a, "renewed") /\ Turn(a, Renewed(s, m))
    <3>1. m \in OrderRec /\ m.type = "renewed"
      BY <2>1, <2>9
    <3> QED
      BY <1>1, <2>5, <2>9, <3>1, RenewedTyped, OrdersContinue, OrdersSeal DEF s
  <2> QED
    BY <2>4, <2>6, <2>7, <2>8, <2>9
<1> QED
  BY <1>7, <1>8, <1>9, <1>10, <1>11 DEF AgentTurn

\* A turn that writes q: what it leaves the agent with, and what q has.
Writes(a, q) ==
    LET s == agent[a]
        u == agent'[a]
    IN  /\ u.link = s.link /\ Tidy(u)
        /\ up' = IF s.link # NoConn /\ Open(s.link)
                 THEN [up EXCEPT ![s.link] = @ \o q] ELSE up
        /\ \A j \in Job, e \in Nat :
             /\ Does(u, j, e)
                => \/ Does(s, j, e) /\ \A n \in Int : Sealed(s, n) => Sealed(u, n)
                   \/ s.link # NoConn /\ Assigns(down[s.link], j, e)
             /\ Takes(a, j, e)' => Takes(a, j, e)
             /\ Has(q, Results(j, e))
                => Does(s, j, e) /\ \A n \in Int : ~Sealed(s, n)
             /\ Few(q, Results(j, e))
             /\ \A f \in Results(j, e) : Has(q, {f}) /\ Runs(u) => Sealed(u, f.seq)

\* The turn of an agent writes frames on its channel and reads one order at most.
LEMMA TurnsWrite ==
    ASSUME TypeOK, LinkInv, NEW a \in Agent, AgentTurn(a), Orderly(agent[a]),
           Tidy(agent[a])
    PROVE  /\ \E q \in Seq(FrameRec) : Writes(a, q)
           /\ UNCHANGED <<jobs, process, hub>>
           /\ \A b \in Agent \ {a} : agent'[b] = agent[b]
           /\ \/ UNCHANGED down
              \/ /\ agent[a].link # NoConn /\ down[agent[a].link] # <<>>
                 /\ down' = [down EXCEPT ![agent[a].link] = Tail(@)]
<1> DEFINE s == agent[a]
           u == agent'[a]
<1>1. s \in AgentRec /\ Closes(s) /\ (Runs(s) /\ s.link # NoConn => AllWritten(s.cur.out))
  BY DEF TypeOK, Tidy
<1>2. PICK t \in AgentRec : GoesOnTo(a, t) /\ SealsOn(s, t)
  BY <1>1, TurnsSeal
<1>3. /\ Turn(a, t) /\ UNCHANGED <<jobs, process, hub>>
      /\ t.link = s.link /\ Orderly(t)
  BY <1>2 DEF GoesOnTo
<1>4. /\ \A b \in Agent \ {a} : agent'[b] = agent[b]
      /\ \/ UNCHANGED down
         \/ /\ s.link # NoConn /\ down[s.link] # <<>>
            /\ down' = [down EXCEPT ![s.link] = Tail(@)]
  BY <1>2, <1>3 DEF GoesOnTo, Turn, TypeOK
<1>5. \/ Runs(t) => /\ Runs(s) /\ t.cur.job = s.cur.job /\ t.cur.epoch = s.cur.epoch
      \/ /\ s.link # NoConn /\ down[s.link] # <<>> /\ Head(down[s.link]).type = "assign"
         /\ down' = [down EXCEPT ![s.link] = Tail(@)]
         /\ t.cur.job = Head(down[s.link]).job
         /\ t.cur.epoch = Head(down[s.link]).epoch
         /\ ~Holds(s)
  BY <1>2 DEF GoesOnTo, Continues
<1>6. s.link \in Conn \cup {NoConn} /\ (s.link # NoConn => down[s.link] \in Seq(OrderRec))
  BY <1>1 DEF AgentRec, TypeOK
<1>7. ASSUME NEW j \in Job, NEW e \in Nat, Does(t, j, e)
      PROVE  \/ Does(s, j, e) /\ \A n \in Int : Sealed(s, n) => Sealed(t, n)
             \/ /\ s.link # NoConn /\ Assigns(down[s.link], j, e)
                /\ t.cur.out = EmptyOutbox
  <2>1. Runs(t) /\ t.cur.job = j /\ t.cur.epoch = e
    BY <1>7 DEF Does, HoldsThat
  <2>2. CASE Runs(s) /\ t.cur.job = s.cur.job /\ t.cur.epoch = s.cur.epoch
    BY <1>2, <2>1, <2>2 DEF SealsOn, Does, HoldsThat, Runs
  <2>3. CASE /\ s.link # NoConn /\ down[s.link] # <<>>
             /\ Head(down[s.link]).type = "assign"
             /\ t.cur.job = Head(down[s.link]).job
             /\ t.cur.epoch = Head(down[s.link]).epoch
             /\ ~Holds(s)
    <3>1. 1 \in DOMAIN down[s.link] /\ Head(down[s.link]) = down[s.link][1]
      BY <1>6, <2>3
    <3>2. Assigns(down[s.link], j, e)
      BY <2>1, <2>3, <3>1 DEF Assigns
    <3>3. t.cur.out = EmptyOutbox
      BY <1>2, <2>1, <2>3 DEF SealsOn, Runs
    <3> QED
      BY <2>3, <3>2, <3>3
  <2> QED
    BY <1>5, <2>1, <2>2, <2>3
<1>8. \A j \in Job, e \in Nat :
        s.link # NoConn /\ Assigns(down'[s.link], j, e) => Assigns(down[s.link], j, e)
  <2> SUFFICES ASSUME NEW j \in Job, NEW e \in Nat, s.link # NoConn,
                      Assigns(down'[s.link], j, e), down[s.link] # <<>>,
                      down' = [down EXCEPT ![s.link] = Tail(@)]
               PROVE  Assigns(down[s.link], j, e)
    BY <1>4
  <2> DEFINE d == down[s.link]
  <2>1. down'[s.link] = Tail(d) /\ d \in Seq(OrderRec) /\ d # <<>>
    BY <1>6 DEF TypeOK
  <2>2. \A k \in DOMAIN Tail(d) : k + 1 \in DOMAIN d /\ Tail(d)[k] = d[k + 1]
    BY <2>1
  <2> QED
    BY <2>1, <2>2 DEF Assigns
<1>9. CASE s.link = NoConn
  <2>1. u = t /\ UNCHANGED up
    BY <1>3, <1>9 DEF Turn, TypeOK
  <2>2. Tidy(t)
    BY <1>2, <1>3, <1>9 DEF Tidy, SealsOn, Closes
  <2>3. \A S : ~Has(<<>>, S) /\ Few(<<>>, S)
    BY FewIn
  <2>4. \A j \in Job, e \in Nat : Takes(a, j, e)' => Takes(a, j, e)
    BY <1>3, <1>7, <1>9, <2>1 DEF Takes, Does
  <2>5. <<>> \in Seq(FrameRec)
    OBVIOUS
  <2>6. Writes(a, <<>>)
    BY <1>3, <1>7, <1>9, <2>1, <2>2, <2>3, <2>4 DEF Writes
  <2> QED
    BY <1>3, <1>4, <2>5, <2>6
<1>10. CASE s.link # NoConn
  <2> DEFINE q == FramesOf(t)
             v == AfterFlush(t)
  <2>1. u = v /\ up' = IF Open(s.link) THEN [up EXCEPT ![s.link] = @ \o q] ELSE up
    BY <1>3, <1>10 DEF Turn, TypeOK
  <2>2. Closes(t) \/ ~Runs(t)
    BY <1>2 DEF SealsOn
  <2>3. Closes(t)
    BY <2>2 DEF Closes
  <2>4. /\ Closes(v) /\ (Runs(v) => AllWritten(v.cur.out))
        /\ \A n \in Int : Runs(v) /\ Sealed(t, n) => Sealed(v, n)
        /\ \A j \in Job, e \in Nat :
             /\ Does(v, j, e) => Does(t, j, e)
             /\ Has(q, Results(j, e)) => Does(t, j, e) /\ ~AllWritten(t.cur.out)
             /\ Few(q, Results(j, e))
             /\ \A f \in Results(j, e) : Has(q, {f}) /\ Runs(v) => Sealed(v, f.seq)
    BY <1>3, <2>3, FlushSeals
  <2>5. v.link = s.link /\ q \in Seq(FrameRec)
    BY <1>3, FlushNumbers, FlushTyped
  <2> HIDE DEF v, q
  <2>6. Tidy(v)
    BY <2>4 DEF Tidy
  <2>7. AllWritten(EmptyOutbox)
    BY DEF AllWritten, EmptyOutbox
  <2>8. ASSUME NEW j \in Job, NEW e \in Nat
        PROVE  /\ Does(v, j, e)
                  => \/ Does(s, j, e) /\ \A n \in Int : Sealed(s, n) => Sealed(v, n)
                     \/ Assigns(down[s.link], j, e)
               /\ Has(q, Results(j, e))
                  => Does(s, j, e) /\ \A n \in Int : ~Sealed(s, n)
    <3>1. Does(v, j, e) => Runs(v) /\ Does(t, j, e)
      BY <2>4 DEF Does
    <3>2. ASSUME Has(q, Results(j, e))
          PROVE  Does(s, j, e) /\ \A n \in Int : ~Sealed(s, n)
      <4>1. Does(t, j, e) /\ ~AllWritten(t.cur.out)
        BY <2>4, <3>2
      <4>2. Does(s, j, e) /\ \A n \in Int : Sealed(s, n) => Sealed(t, n)
        BY <1>7, <2>7, <4>1
      <4> QED
        BY <4>1, <4>2 DEF Sealed
    <3> QED
      BY <1>7, <2>4, <3>1, <3>2
  <2>9. \A j \in Job, e \in Nat : Takes(a, j, e)' => Takes(a, j, e)
    <3> SUFFICES ASSUME NEW j \in Job, NEW e \in Nat, Takes(a, j, e)'
                 PROVE  Takes(a, j, e)
      OBVIOUS
    <3>1. \/ Does(v, j, e)
          \/ v.link # NoConn /\ Assigns(down'[v.link], j, e)
      BY <2>1 DEF Takes, Does
    <3>2. Does(s, j, e) \/ (s.link # NoConn /\ Assigns(down[s.link], j, e))
      BY <1>8, <1>10, <2>5, <2>8, <3>1
    <3> QED
      BY <3>2 DEF Takes, Does
  <2>10. Writes(a, q)
    BY <1>10, <2>1, <2>4, <2>5, <2>6, <2>8, <2>9 DEF Writes
  <2> QED
    BY <1>3, <1>4, <2>5, <2>10
<1> QED
  BY <1>9, <1>10

-----------------------------------------------------------------------------
\* What the hub makes of a lease.

\* The lease goes on, and no result is taken.
KeepsOn(l, m) ==
    /\ m.agent = l.agent /\ m.epoch = l.epoch /\ m.result = l.result
    /\ m.next >= l.next
    /\ m.conn \in {l.conn, NoConn}
    /\ l.time = "lost" => m.time = "lost"
    /\ l.finished => m.finished
    /\ l.cancelled => m.cancelled
    /\ \/ m.events = l.events
       \/ \E x \in (JobEvent \cup Reason) \ {"result"} : m.events = Append(l.events, x)

\* What the hub makes of a lease that goes on.
LEMMA KeepsForms ==
    ASSUME NEW l \in LeaseRec
    PROVE  /\ KeepsOn(l, l)
           /\ KeepsOn(l, [l EXCEPT !.cancelled = TRUE])
           /\ KeepsOn(l, [l EXCEPT !.rerouting = TRUE])
           /\ KeepsOn(l, [l EXCEPT !.uploads = TRUE])
           /\ \A x \in Reason :
                KeepsOn(l, [l EXCEPT !.finished = TRUE, !.events = Append(@, x)])
           /\ KeepsOn(l, [l EXCEPT !.time = "lost"])
           /\ l.time # "lost" => /\ KeepsOn(l, [l EXCEPT !.time = "due"])
                                 /\ \A h : KeepsOn(l, [l EXCEPT !.time = "live", !.hot = h])
           /\ KeepsOn(l, [l EXCEPT !.conn = NoConn])
<1>0. l.next \in Nat /\ l.next >= l.next
  BY DEF LeaseRec
<1>1. /\ KeepsOn(l, l)
      /\ KeepsOn(l, [l EXCEPT !.cancelled = TRUE])
      /\ KeepsOn(l, [l EXCEPT !.rerouting = TRUE])
      /\ KeepsOn(l, [l EXCEPT !.uploads = TRUE])
  BY <1>0 DEF KeepsOn, LeaseRec
<1>2. \A x \in Reason :
        KeepsOn(l, [l EXCEPT !.finished = TRUE, !.events = Append(@, x)])
  <2> TAKE x \in Reason
  <2> DEFINE m == [l EXCEPT !.finished = TRUE, !.events = Append(@, x)]
  <2>1. /\ m.agent = l.agent /\ m.epoch = l.epoch /\ m.result = l.result
        /\ m.next = l.next /\ m.conn = l.conn /\ m.time = l.time
        /\ m.finished = TRUE /\ m.cancelled = l.cancelled
        /\ m.events = Append(l.events, x)
    BY DEF LeaseRec
  <2>2. x \in (JobEvent \cup Reason) \ {"result"}
    BY DEF Reason
  <2> HIDE DEF m
  <2> QED
    BY <1>0, <2>1, <2>2 DEF KeepsOn
<1>3. /\ KeepsOn(l, [l EXCEPT !.time = "lost"])
      /\ l.time # "lost" => /\ KeepsOn(l, [l EXCEPT !.time = "due"])
                            /\ \A h : KeepsOn(l, [l EXCEPT !.time = "live", !.hot = h])
      /\ KeepsOn(l, [l EXCEPT !.conn = NoConn])
  BY <1>0 DEF KeepsOn, LeaseRec
<1> QED
  BY <1>1, <1>2, <1>3

\* The runners' steps.
LEMMA RunnersKeep ==
    ASSUME TypeOK, NEW j \in Job, RunnerStep(j), ~Claim(j), NEW k \in Job
    PROVE  \/ KeepsOn(lease[k], lease'[k]) /\ lease'[k].conn = lease[k].conn
           \/ lease'[k] = NoLease
<1>1. lease \in [Job -> LeaseRec] /\ lease[k] \in LeaseRec /\ lease[j] \in LeaseRec
  BY DEF TypeOK
<1>2. KeepsOn(lease[k], lease[k])
  BY <1>1, KeepsForms
<1>3. CASE UNCHANGED lease
  BY <1>2, <1>3
<1>4. CASE \E m \in {NoLease, [lease[j] EXCEPT !.cancelled = TRUE],
                     [lease[j] EXCEPT !.rerouting = TRUE],
                     [lease[j] EXCEPT !.time = "lost"]} :
             lease' = [lease EXCEPT ![j] = m]
  <2>1. PICK m \in {NoLease, [lease[j] EXCEPT !.cancelled = TRUE],
                    [lease[j] EXCEPT !.rerouting = TRUE],
                    [lease[j] EXCEPT !.time = "lost"]} :
             lease' = [lease EXCEPT ![j] = m]
    BY <1>4
  <2>2. \/ KeepsOn(lease[j], m) /\ m.conn = lease[j].conn
        \/ m = NoLease
    BY <1>1, <2>1, KeepsForms DEF LeaseRec
  <2>3. lease'[k] = IF k = j THEN m ELSE lease[k]
    BY <1>1, <2>1
  <2> QED
    BY <1>2, <2>2, <2>3
<1> QED
  BY <1>3, <1>4, RunnersLeave DEF RunnerLeaves

\* On channel c, the hub takes the result of the lease's attempt.
Taken(c, k) ==
    LET l == lease[k]  m == lease'[k]  f == Head(up[c]) IN
    /\ OnNextEvent(c)
    /\ l.conn = c /\ l.time # "lost" /\ ~l.finished /\ ~l.cancelled
    /\ f \in Results(k, l.epoch) /\ f.seq = l.next
    /\ m.agent = l.agent /\ m.epoch = l.epoch /\ m.conn = c
    /\ m.next = l.next + 1 /\ m.result /\ m.finished

\* The hub reads a channel.
LEMMA ChannelKeeps ==
    ASSUME TypeOK, NEW c \in Conn, ChannelStep(c), NEW k \in Job,
           lease[k].result => lease[k].finished
    PROVE  \/ /\ KeepsOn(lease[k], lease'[k])
              /\ \/ lease'[k].conn = lease[k].conn
                 \/ RemoveConn(c) /\ lease[k].conn = c
           \/ Taken(c, k)
<1> DEFINE f == Head(up[c])
           l == lease[f.job]
<1>1. lease[k] \in LeaseRec /\ lease \in [Job -> LeaseRec]
  BY DEF TypeOK
<1>2. KeepsOn(lease[k], lease[k])
  BY <1>1, KeepsForms
<1>3. CASE UNCHANGED lease
  BY <1>2, <1>3
<1>4. CASE RemoveConn(c)
  <2>1. lease'[k] = IF lease[k].conn \in {c} THEN [lease[k] EXCEPT !.conn = NoConn]
                    ELSE lease[k]
    BY <1>4 DEF RemoveConn, Detached
  <2>2. KeepsOn(lease[k], [lease[k] EXCEPT !.conn = NoConn])
    BY <1>1, KeepsForms
  <2> QED
    BY <1>2, <1>4, <2>1, <2>2
<1>5. CASE OnHeartbeat(c) /\ Current(c, f)
  <2>1. f.job \in Job /\ l.time # "lost"
    BY <1>5, GetsTyped, FrameKinds DEF OnHeartbeat, Current
  <2> DEFINE m == [l EXCEPT !.time = "live", !.hot = (f.ev = "hot")]
  <2>2. lease' = [lease EXCEPT ![f.job] = m]
    BY <1>1, <1>5, <2>1 DEF OnHeartbeat
  <2>3. KeepsOn(l, m) /\ m.conn = l.conn
    BY <1>1, <2>1, KeepsForms DEF LeaseRec
  <2> HIDE DEF m, f
  <2> QED
    BY <1>1, <1>2, <2>1, <2>2, <2>3
<1>6. CASE OnReleased(c)
  <2>1. f.job \in Job /\ f.ev \in Reason
    BY <1>6, GetsTyped, FrameKinds DEF OnReleased
  <2> DEFINE m == [l EXCEPT !.finished = TRUE, !.events = Append(@, f.ev)]
  <2>2. UNCHANGED lease \/ lease' = [lease EXCEPT ![f.job] = m]
    BY <1>1, <1>6, <2>1 DEF OnReleased
  <2>3. KeepsOn(l, m) /\ m.conn = l.conn
    BY <1>1, <2>1, KeepsForms DEF LeaseRec
  <2> HIDE DEF m, f
  <2> QED
    BY <1>1, <1>2, <2>1, <2>2, <2>3
<1>7. CASE OnNextEvent(c)
  <2> DEFINE j == f.job
  <2>1. /\ f \in FrameRec /\ f.type = "event" /\ up[c] # <<>>
        /\ l.conn = c /\ l.epoch = f.epoch /\ l.time # "lost" /\ f.seq = l.next
    BY <1>7, GetsTyped DEF OnNextEvent, Gets, Current
  <2>2. j \in Job /\ l \in LeaseRec /\ f.ev \in JobEvent
    BY <1>1, <2>1, FrameKinds
  <2> DEFINE ends == f.ev \in Terminal
             r == [l EXCEPT !.next = @ + 1, !.time = "live",
                            !.finished = @ \/ ends]
             x1 == [r EXCEPT !.finished = TRUE]
             x2 == [r EXCEPT !.result = (f.ev = "result"),
                             !.events = Append(@, f.ev)]
  <2>3. \/ lease' = [lease EXCEPT ![j] = r]
        \/ lease' = [lease EXCEPT ![j] = x1]
        \/ ~l.finished /\ ~l.cancelled /\ lease' = [lease EXCEPT ![j] = x2]
    BY <1>7, Zenon DEF OnNextEvent
  <2>4. /\ r.agent = l.agent /\ r.epoch = l.epoch /\ r.next = l.next + 1
        /\ r.conn = l.conn /\ r.result = l.result /\ r.cancelled = l.cancelled
        /\ r.events = l.events /\ (l.finished => r.finished)
        /\ r.finished <=> l.finished \/ ends
    BY <2>2 DEF LeaseRec
  <2>5. /\ x1.agent = l.agent /\ x1.epoch = l.epoch /\ x1.next = l.next + 1
        /\ x1.conn = l.conn /\ x1.result = l.result /\ x1.cancelled = l.cancelled
        /\ x1.events = l.events /\ x1.finished
    BY <2>2 DEF LeaseRec
  <2>6. /\ x2.agent = l.agent /\ x2.epoch = l.epoch /\ x2.next = l.next + 1
        /\ x2.conn = l.conn /\ x2.cancelled = l.cancelled
        /\ x2.result <=> f.ev = "result"
        /\ x2.events = Append(l.events, f.ev)
        /\ x2.finished <=> l.finished \/ ends
    BY <2>2 DEF LeaseRec
  <2>7. OfAttempt(f, j, l.epoch)
    BY <2>1 DEF OfAttempt
  <2>8. k = j => l = lease[k]
    OBVIOUS
  <2>9. l.next \in Nat /\ l.next + 1 >= l.next /\ l.result \in BOOLEAN
    BY <2>2 DEF LeaseRec
  <2>10. x2.result \in BOOLEAN
    BY <2>2 DEF LeaseRec
  <2> HIDE DEF r, x1, x2, l
  <2>11. CASE k # j
    BY <1>1, <1>2, <2>3, <2>11
  <2>12. CASE k = j /\ (lease'[k] = r \/ lease'[k] = x1)
    <3>1. KeepsOn(l, r) /\ KeepsOn(l, x1)
      BY <2>1, <2>4, <2>5, <2>9 DEF KeepsOn
    <3> QED
      BY <2>4, <2>5, <2>8, <2>12, <3>1
  <2>13. CASE k = j /\ ~l.finished /\ ~l.cancelled /\ lease'[k] = x2 /\ f.ev # "result"
    <3>1. ~l.result /\ ~x2.result
      BY <2>6, <2>8, <2>13
    <3>2. x2.result = l.result
      BY <2>9, <2>10, <3>1
    <3>3. f.ev \in (JobEvent \cup Reason) \ {"result"}
      BY <2>2, <2>13
    <3>4. KeepsOn(l, x2)
      BY <2>1, <2>6, <2>9, <2>13, <3>2, <3>3 DEF KeepsOn
    <3> QED
      BY <2>6, <2>8, <2>13, <3>4
  <2>14. CASE k = j /\ ~l.finished /\ ~l.cancelled /\ lease'[k] = x2 /\ f.ev = "result"
    <3>1. ends
      BY <2>14 DEF Terminal
    <3>2. f \in Results(k, l.epoch)
      BY <2>1, <2>7, <2>14 DEF Results
    <3> HIDE DEF f
    <3> QED
      BY <1>7, <2>1, <2>6, <2>8, <2>14, <3>1, <3>2 DEF Taken, f
  <2>15. k = j => lease'[k] \in {r, x1} \/ (~l.finished /\ ~l.cancelled /\ lease'[k] = x2)
    BY <1>1, <2>2, <2>3
  <2> QED
    BY <2>11, <2>12, <2>13, <2>14, <2>15
<1>8. CASE \/ OnReady(c)
           \/ OnStaleEvent(c)
           \/ OnHeartbeat(c) /\ ~Current(c, f)
  BY <1>3, <1>8 DEF OnReady, OnStaleEvent, OnHeartbeat, hub
<1> QED
  BY <1>4, <1>5, <1>6, <1>7, <1>8 DEF ChannelStep

-----------------------------------------------------------------------------
\* The lease goes on.

\* No result of the attempt is put on channel c.
Lighter(c, j, e) ==
    /\ Has(up'[c], Results(j, e)) => Has(up[c], Results(j, e))
    /\ Few(up[c], Results(j, e)) => Few(up'[c], Results(j, e))
    /\ \A f \in Results(j, e) : Has(up'[c], {f}) => Has(up[c], {f})

\* Reading or dropping frames puts none there, and no more does a frame that
\* is no event.
LEMMA LighterForms ==
    ASSUME TypeOK, NEW c \in Conn, NEW j, NEW e
    PROVE  /\ UpQuiet(c) => Lighter(c, j, e)
           /\ \A g \in FrameRec : g.type # "event" /\ up'[c] = Append(up[c], g)
                => Lighter(c, j, e)
<1>1. up[c] \in Seq(FrameRec)
  BY DEF TypeOK
<1>2. \A f \in Results(j, e) : f.type = "event"
  BY DEF Results, OfAttempt
<1>3. CASE up'[c] = up[c]
  BY <1>3 DEF Lighter
<1>4. CASE up'[c] = <<>>
  BY <1>4, FewIn DEF Lighter
<1>5. CASE up[c] # <<>> /\ up'[c] = Tail(up[c])
  <2>1. \A S : /\ Has(Tail(up[c]), S) => Has(up[c], S)
               /\ Few(up[c], S) => Few(Tail(up[c]), S)
    BY <1>1, <1>5, FewTails
  <2> QED
    BY <1>5, <2>1 DEF Lighter
<1>6. ASSUME NEW g \in FrameRec, g.type # "event", up'[c] = Append(up[c], g)
      PROVE  Lighter(c, j, e)
  <2>1. \A S : /\ Has(Append(up[c], g), S) => Has(up[c], S) \/ g \in S
               /\ Few(up[c], S) /\ g \notin S => Few(Append(up[c], g), S)
    BY <1>1, <1>6, FewAppends
  <2>2. g \notin Results(j, e) /\ \A f \in Results(j, e) : g \notin {f}
    BY <1>2, <1>6
  <2> QED
    BY <1>6, <2>1, <2>2 DEF Lighter
<1> QED
  BY <1>3, <1>4, <1>5, <1>6 DEF UpQuiet

\* What a step that takes no result must be like.
SteadyFor(a, j, e) ==
    LET l == lease[j]  m == lease'[j]
        d == agent'[a].link
    IN
    /\ KeepsOn(l, m)
    /\ Decided(a, j, e)' =>
         /\ runner'[j].pc = "ending"
         /\ \/ Decided(a, j, e) /\ settled'[j].last = settled[j].last
            \/ l.result /\ settled'[j].last = l.next - 1
    /\ Decided(a, j, e) => Decided(a, j, e)'
    /\ Does(agent'[a], j, e)
         => /\ Does(agent[a], j, e)
            /\ \A n \in Int : Sealed(agent[a], n) => Sealed(agent'[a], n)
    /\ d \in {agent[a].link, NoConn}
    /\ Takes(a, j, e)' => Takes(a, j, e)
    /\ d # NoConn /\ conn'[d] # NoChannel
         => /\ Open(d) /\ Lighter(d, j, e)
            /\ m.conn = l.conn \/ l.conn # d
    /\ m.conn # NoConn => Lighter(m.conn, j, e)

\* Such a step leaves the attempt as it must be.
LEMMA SealKeeps ==
    ASSUME TypeOK, TypeOK', NEW a \in Agent, NEW j \in Job, NEW e \in Nat,
           SealAt(a, j, e), SteadyFor(a, j, e)
    PROVE  SealAt(a, j, e)'
<1> DEFINE l == lease[j]
           m == lease'[j]
<1>1. /\ l \in LeaseRec /\ m \in LeaseRec
      /\ settled[j].last \in Int /\ settled'[j].last \in Int
      /\ agent'[a].cur.out.last \in Int
  BY DEF TypeOK, AgentRec, CurrentRec, OutboxRec, SettledRec
<1>2. l.next \in Nat /\ m.next \in Nat /\ l.result \in BOOLEAN
  BY <1>1 DEF LeaseRec
<1>3. /\ m.agent = l.agent /\ m.epoch = l.epoch /\ m.result = l.result
      /\ m.next >= l.next /\ m.conn \in {l.conn, NoConn}
      /\ l.time = "lost" => m.time = "lost"
  BY DEF SteadyFor, KeepsOn
<1> SUFFICES ASSUME Leased(a, j, e)'
             PROVE  (Rested(a, j, e) /\ Single(a, j, e)
                      /\ Followed(a, j, e) /\ Parting(a, j, e))'
  BY DEF SealAt
<1>4. Rested(a, j, e) /\ Single(a, j, e) /\ Followed(a, j, e) /\ Parting(a, j, e)
  BY <1>3 DEF SealAt, Leased
<1>5. Rested(a, j, e)'
  <2> SUFFICES ASSUME Does(agent'[a], j, e)
               PROVE  /\ m.result => Sealed(agent'[a], m.next - 1)
                      /\ Decided(a, j, e)' => Sealed(agent'[a], settled'[j].last)
    BY DEF Rested
  <2>1. /\ l.result => Sealed(agent[a], l.next - 1)
        /\ Decided(a, j, e) => Sealed(agent[a], settled[j].last)
    BY <1>4 DEF Rested, SteadyFor
  <2>2. \A n \in Int : Sealed(agent[a], n) => Sealed(agent'[a], n)
    BY DEF SteadyFor
  <2>3. l.result => Sealed(agent'[a], l.next - 1)
    BY <1>2, <2>1, <2>2
  <2>4. m.result => Sealed(agent'[a], m.next - 1)
    BY <1>1, <1>2, <1>3, <2>3 DEF Sealed
  <2>5. Decided(a, j, e)' => Sealed(agent'[a], settled'[j].last)
    BY <1>1, <2>1, <2>2, <2>3 DEF SteadyFor
  <2> QED
    BY <2>4, <2>5
<1>6. Single(a, j, e)'
  <2> SUFFICES ASSUME m.conn # NoConn, Has(up'[m.conn], Results(j, e))
               PROVE  /\ ~m.result
                      /\ m.time # "lost" =>
                           /\ Few(up'[m.conn], Results(j, e))
                           /\ Does(agent'[a], j, e) =>
                                \A f \in Results(j, e) :
                                  Has(up'[m.conn], {f}) => Sealed(agent'[a], f.seq)
    BY DEF Single
  <2>1. m.conn = l.conn /\ Lighter(l.conn, j, e)
    BY <1>3 DEF SteadyFor
  <2>2. Has(up[l.conn], Results(j, e)) /\ l.conn # NoConn
    BY <2>1 DEF Lighter
  <2>3. /\ ~l.result
        /\ l.time # "lost" =>
             /\ Few(up[l.conn], Results(j, e))
             /\ Does(agent[a], j, e) =>
                  \A f \in Results(j, e) :
                    Has(up[l.conn], {f}) => Sealed(agent[a], f.seq)
    BY <1>4, <2>2 DEF Single
  <2>4. Does(agent'[a], j, e)
         => /\ Does(agent[a], j, e)
            /\ \A n \in Int : Sealed(agent[a], n) => Sealed(agent'[a], n)
    BY DEF SteadyFor
  <2>5. \A f \in Results(j, e) : f.seq \in Int
    BY DEF Results, FrameRec, FrameOf, Frame
  <2> QED
    BY <1>3, <2>1, <2>3, <2>4, <2>5 DEF Lighter
<1>7. Followed(a, j, e)'
  <2> DEFINE d == agent'[a].link
  <2> SUFFICES ASSUME d # NoConn, conn'[d] # NoChannel
               PROVE  /\ Takes(a, j, e)' => m.conn = d \/ Decided(a, j, e)'
                      /\ Has(up'[d], Results(j, e)) => m.conn = d
    BY DEF Followed, Open
  <2>1. /\ d = agent[a].link /\ Open(d) /\ Lighter(d, j, e)
        /\ m.conn = l.conn \/ l.conn # d
    BY DEF SteadyFor
  <2>2. /\ Takes(a, j, e) => l.conn = d \/ Decided(a, j, e)
        /\ Has(up[d], Results(j, e)) => l.conn = d
    BY <1>4, <2>1 DEF Followed
  <2>3. /\ Takes(a, j, e)' => Takes(a, j, e)
        /\ Decided(a, j, e) => Decided(a, j, e)'
    BY DEF SteadyFor
  <2> QED
    BY <2>1, <2>2, <2>3 DEF Lighter
<1>8. Parting(a, j, e)'
  <2> SUFFICES ASSUME Decided(a, j, e)'
               PROVE  /\ runner'[j].pc = "ending" /\ m.result
                      /\ settled'[j].last < m.next
    BY DEF Parting
  <2>1. /\ runner'[j].pc = "ending"
        /\ \/ Decided(a, j, e) /\ settled'[j].last = settled[j].last
           \/ l.result /\ settled'[j].last = l.next - 1
    BY DEF SteadyFor
  <2>2. Decided(a, j, e) => l.result /\ settled[j].last < l.next
    BY <1>4 DEF Parting
  <2> QED
    BY <1>1, <1>2, <1>3, <2>1, <2>2
<1> QED
  BY <1>5, <1>6, <1>7, <1>8

-----------------------------------------------------------------------------
\* The agents' turns.

\* An agent that has yet to begin an attempt has reported nothing of it.
LEMMA BlankSeals ==
    ASSUME TypeOK, BlankInv, NEW a \in Agent, NEW j \in Job, NEW e \in Nat,
           ResultAt(j), Leased(a, j, e),
           agent[a].link # NoConn, Assigns(down[agent[a].link], j, e)
    PROVE  /\ ~lease[j].result /\ ~Decided(a, j, e)
           /\ LET c == lease[j].conn IN
              c # NoConn /\ lease[j].time # "lost" => ~Has(up[c], Results(j, e))
<1>1. Unsettled(a, j, e) /\ Unheard(a, j, e)
  BY DEF BlankInv, Blank
<1>2. /\ lease[j].next = 1
      /\ lease[j].conn # NoConn /\ lease[j].time # "lost"
           => Silent(up[lease[j].conn], j, e)
  BY <1>1 DEF Unheard, Leased
<1>3. ~lease[j].result
  BY <1>2 DEF ResultAt
<1>4. ~Decided(a, j, e)
  BY <1>1 DEF Unsettled, Decided
<1> QED
  BY <1>2, <1>3, <1>4 DEF Silent, Has, Results

\* What the turn makes of the agent's own attempts.
LEMMA WriterSeals ==
    ASSUME TypeOK, TypeOK', LinkInv, BlankInv, NEW a \in Agent, NEW j \in Job,
           NEW e \in Nat, ResultAt(j), SealAt(a, j, e),
           NEW q \in Seq(FrameRec), Writes(a, q),
           UNCHANGED <<jobs, process, hub>>
    PROVE  SealAt(a, j, e)'
<1> DEFINE l == lease[j]
           s == agent[a]
           u == agent'[a]
           c == s.link
           R == Results(j, e)
<1>1. /\ lease' = lease /\ settled' = settled /\ conn' = conn /\ runner' = runner
  BY DEF hub, jobs
<1>2. /\ l \in LeaseRec /\ settled[j].last \in Int /\ c \in Conn \cup {NoConn}
      /\ up \in [Conn -> Seq(FrameRec)] /\ l.conn \in Conn \cup {NoConn}
  BY DEF TypeOK, AgentRec, LeaseRec, SettledRec
<1>3. l.next \in Nat /\ l.next - 1 \in Int
  BY <1>2 DEF LeaseRec
<1>4. \A f \in R : f.seq \in Int
  BY DEF Results, FrameRec, FrameOf, Frame
<1> SUFFICES ASSUME Leased(a, j, e)
             PROVE  (Rested(a, j, e) /\ Single(a, j, e)
                      /\ Followed(a, j, e) /\ Parting(a, j, e))'
  BY <1>1 DEF SealAt, Leased
<1>5. Rested(a, j, e) /\ Single(a, j, e) /\ Followed(a, j, e) /\ Parting(a, j, e)
  BY DEF SealAt
<1>6. /\ u.link = c
      /\ up' = IF c # NoConn /\ Open(c) THEN [up EXCEPT ![c] = @ \o q] ELSE up
      /\ Does(u, j, e)
           => \/ Does(s, j, e) /\ \A n \in Int : Sealed(s, n) => Sealed(u, n)
              \/ c # NoConn /\ Assigns(down[c], j, e)
      /\ Takes(a, j, e)' => Takes(a, j, e)
      /\ Has(q, R) => Does(s, j, e) /\ \A n \in Int : ~Sealed(s, n)
      /\ Few(q, R)
      /\ \A f \in R : Has(q, {f}) /\ Runs(u) => Sealed(u, f.seq)
  BY DEF Writes
<1>7. c # NoConn /\ Assigns(down[c], j, e)
        => /\ ~l.result /\ ~Decided(a, j, e)
           /\ l.conn # NoConn /\ l.time # "lost" => ~Has(up[l.conn], R)
  BY BlankSeals
<1>8. /\ c # NoConn /\ Open(c) => up'[c] = up[c] \o q
      /\ \A k \in Conn : k # c \/ ~Open(c) => up'[k] = up[k]
  BY <1>2, <1>6
<1>9. /\ Has(q, R) => ~l.result /\ ~Decided(a, j, e)
      /\ Has(q, R) => Does(s, j, e)
  BY <1>2, <1>3, <1>5, <1>6 DEF Rested
<1>10. Rested(a, j, e)'
  <2> SUFFICES ASSUME Does(u, j, e)
               PROVE  /\ l.result => Sealed(u, l.next - 1)
                      /\ Decided(a, j, e) => Sealed(u, settled[j].last)
    BY <1>1 DEF Rested, Decided
  <2> QED
    BY <1>2, <1>3, <1>5, <1>6, <1>7 DEF Rested
<1>11. Single(a, j, e)'
  <2> DEFINE k == l.conn
  <2> SUFFICES ASSUME k # NoConn, Has(up'[k], R)
               PROVE  /\ ~l.result
                      /\ l.time # "lost" =>
                           /\ Few(up'[k], R)
                           /\ Does(u, j, e) =>
                                \A f \in R : Has(up'[k], {f}) => Sealed(u, f.seq)
    BY <1>1 DEF Single
  <2>1. /\ up[k] \in Seq(FrameRec) /\ k \in Conn
    BY <1>2
  <2>2. Has(up[k], R) =>
          /\ ~l.result
          /\ l.time # "lost" =>
               /\ Few(up[k], R)
               /\ Does(s, j, e) =>
                    \A f \in R : Has(up[k], {f}) => Sealed(s, f.seq)
    BY <1>5 DEF Single
  <2>3. \A f \in R : Has(up[k], {f}) => Has(up[k], R)
    BY DEF Has
  <2>4. Has(up[k], R) => \E f \in R : Has(up[k], {f})
    BY DEF Has
  <2>5. CASE ~(k = c /\ Open(c))
    <3>1. up'[k] = up[k]
      BY <1>8, <2>1, <2>5
    <3> QED
      BY <1>4, <1>6, <1>7, <2>2, <3>1
  <2>6. CASE k = c /\ Open(c)
    <3>1. up'[k] = up[k] \o q
      BY <1>8, <2>1, <2>6
    <3>2. \A S : /\ Has(up[k] \o q, S) => Has(up[k], S) \/ Has(q, S)
                 /\ ~Has(q, S) /\ Few(up[k], S) => Few(up[k] \o q, S)
                 /\ ~Has(up[k], S) /\ Few(q, S) => Few(up[k] \o q, S)
      BY <2>1, FewJoins
    <3>3. CASE Has(q, R)
      <4>1. l.time # "lost" => ~Has(up[k], R)
        BY <1>4, <1>6, <2>2, <2>4, <3>3
      <4>2. l.time # "lost" => Few(up'[k], R)
        BY <1>6, <3>1, <3>2, <4>1
      <4>3. ASSUME l.time # "lost", Does(u, j, e), NEW f \in R, Has(up'[k], {f})
            PROVE  Sealed(u, f.seq)
        <5>1. ~Has(up[k], {f})
          BY <2>3, <4>1, <4>3
        <5>2. Has(q, {f})
          BY <3>1, <3>2, <4>3, <5>1
        <5> QED
          BY <1>6, <4>3, <5>2 DEF Does
      <4> QED
        BY <1>9, <3>3, <4>2, <4>3
    <3>4. CASE ~Has(q, R)
      <4>1. Has(up[k], R)
        BY <3>1, <3>2, <3>4
      <4>2. l.time # "lost" => Few(up'[k], R)
        BY <2>2, <3>1, <3>2, <3>4, <4>1
      <4>3. ASSUME l.time # "lost", Does(u, j, e), NEW f \in R, Has(up'[k], {f})
            PROVE  Sealed(u, f.seq)
        <5>1. ~Has(q, {f})
          BY <3>4 DEF Has
        <5>2. Has(up[k], {f})
          BY <3>1, <3>2, <4>3, <5>1
        <5>3. Does(s, j, e) /\ \A n \in Int : Sealed(s, n) => Sealed(u, n)
          BY <1>6, <1>7, <2>1, <4>1, <4>3
        <5> QED
          BY <1>4, <2>2, <4>1, <4>3, <5>2, <5>3
      <4> QED
        BY <2>2, <4>1, <4>2, <4>3
    <3> QED
      BY <3>3, <3>4
  <2> QED
    BY <2>5, <2>6
<1>12. Followed(a, j, e)'
  <2> SUFFICES ASSUME c # NoConn, Open(c)
               PROVE  /\ Takes(a, j, e)' => l.conn = c \/ Decided(a, j, e)
                      /\ Has(up'[c], R) => l.conn = c
    BY <1>1, <1>6 DEF Followed, Open, Decided
  <2>1. /\ Takes(a, j, e) => l.conn = c \/ Decided(a, j, e)
        /\ Has(up[c], R) => l.conn = c
    BY <1>5 DEF Followed
  <2>2. Has(up[c] \o q, R) => Has(up[c], R) \/ Has(q, R)
    BY <1>2, FewJoins
  <2>3. Does(s, j, e) => Takes(a, j, e)
    BY DEF Does, Takes
  <2> QED
    BY <1>6, <1>8, <1>9, <2>1, <2>2, <2>3
<1>13. Parting(a, j, e)'
  BY <1>1, <1>5 DEF Parting, Decided
<1> QED
  BY <1>10, <1>11, <1>12, <1>13

\* And of all others'.
LEMMA TurnSealed ==
    ASSUME TypeOK, TypeOK', LinkInv, ChannelInv, BlankInv, TidyInv, JobInv,
           SealInv, NEW a \in Agent, AgentTurn(a)
    PROVE  TidyInv' /\ SealInv'
<1>1. Orderly(agent[a]) /\ Tidy(agent[a])
  BY DEF ChannelInv, TidyInv
<1>2. /\ \E q \in Seq(FrameRec) : Writes(a, q)
      /\ UNCHANGED <<jobs, process, hub>>
      /\ \A b \in Agent \ {a} : agent'[b] = agent[b]
      /\ \/ UNCHANGED down
         \/ /\ agent[a].link # NoConn /\ down[agent[a].link] # <<>>
            /\ down' = [down EXCEPT ![agent[a].link] = Tail(@)]
  BY <1>1, TurnsWrite
<1>3. PICK q \in Seq(FrameRec) : Writes(a, q)
  BY <1>2
<1>4. TidyInv'
  <2>1. Tidy(agent'[a])
    BY <1>3 DEF Writes
  <2> QED
    BY <1>2, <2>1 DEF TidyInv
<1>5. ASSUME NEW b \in Agent, NEW j \in Job, NEW e \in Nat
      PROVE  SealAt(b, j, e)'
  <2>1. SealAt(b, j, e) /\ ResultAt(j)
    BY DEF SealInv, JobInv
  <2>2. CASE b = a
    BY <1>2, <1>3, <2>1, <2>2, WriterSeals
  <2>3. CASE b # a
    <3> SUFFICES ASSUME Leased(b, j, e)
                 PROVE  SealAt(b, j, e)'
      BY <1>2 DEF SealAt, Leased, hub
    <3> DEFINE c == agent[a].link
    <3>1. /\ lease' = lease /\ settled' = settled /\ conn' = conn
          /\ runner' = runner /\ agent'[b] = agent[b]
      BY <1>2, <2>3 DEF hub, jobs
    <3>2. /\ lease[j] \in LeaseRec /\ c \in Conn \cup {NoConn}
          /\ agent[b].link \in Conn \cup {NoConn}
          /\ lease[j].conn \in Conn \cup {NoConn}
          /\ up \in [Conn -> Seq(FrameRec)] /\ down \in [Conn -> Seq(OrderRec)]
      BY DEF TypeOK, AgentRec, LeaseRec
    <3>3. KeepsOn(lease[j], lease'[j])
      BY <3>1, <3>2, KeepsForms
    <3>4. \A k \in Conn : k # c \/ ~Open(c) => up'[k] = up[k]
      BY <1>3, <3>2 DEF Writes
    <3>5. \A k \in Conn : up'[k] = up[k] => Lighter(k, j, e)
      BY DEF Lighter
    <3>6. agent[b].link # NoConn => agent[b].link # c
      BY <2>3 DEF LinkInv, LinksDiffer
    <3>7. lease[j].conn # NoConn /\ Open(c) => lease[j].conn # c
      BY <2>3 DEF ChannelInv, Attached, LinkInv, LinkAt, Leased
    <3>8. Takes(b, j, e)' => Takes(b, j, e)
      <4>1. agent[b].link # NoConn => down'[agent[b].link] = down[agent[b].link]
        BY <1>2, <3>2, <3>6
      <4> QED
        BY <3>1, <4>1 DEF Takes
    <3>9. Decided(b, j, e) => runner[j].pc = "ending"
      BY <2>1 DEF SealAt, Parting
    <3>10. SteadyFor(b, j, e)
      BY <3>1, <3>2, <3>3, <3>4, <3>5, <3>6, <3>7, <3>8, <3>9
         DEF SteadyFor, Decided, Open
    <3> QED
      BY <2>1, <3>10, SealKeeps
  <2> QED
    BY <2>2, <2>3
<1> QED
  BY <1>4, <1>5 DEF SealInv

-----------------------------------------------------------------------------
\* The steps between.

\* The agent goes on with its attempt as it was, if at all.
AgentLoose(s, t) ==
    /\ t.link \in {s.link, NoConn}
    /\ Runs(t) => /\ Runs(s) /\ t.cur.job = s.cur.job
                  /\ t.cur.epoch = s.cur.epoch
                  /\ t.cur.done = s.cur.done /\ t.cur.out = s.cur.out

\* A step of which no attempt hears anything.
LEMMA LooseSeals ==
    ASSUME TypeOK, TypeOK', TidyInv, SealInv, UNCHANGED <<settled, conn>>,
           \A j \in Job : /\ KeepsOn(lease[j], lease'[j])
                          /\ lease'[j].conn = lease[j].conn
                          /\ runner[j].pc = "ending" => runner'[j].pc = "ending",
           \A c \in Conn, j \in Job, e \in Nat : Lighter(c, j, e),
           \A b \in Agent :
             /\ AgentLoose(agent[b], agent'[b])
             /\ agent'[b].link # NoConn
                  => \A j \in Job, e \in Nat :
                       Assigns(down'[agent'[b].link], j, e)
                         => Assigns(down[agent'[b].link], j, e)
    PROVE  TidyInv' /\ SealInv'
<1>1. TidyInv'
  <2> SUFFICES ASSUME NEW b \in Agent
               PROVE  Tidy(agent'[b])
    BY DEF TidyInv
  <2>1. Tidy(agent[b]) /\ AgentLoose(agent[b], agent'[b])
    BY DEF TidyInv
  <2> QED
    BY <2>1 DEF Tidy, Closes, AllWritten, AgentLoose
<1>2. ASSUME NEW b \in Agent, NEW j \in Job, NEW e \in Nat
      PROVE  SealAt(b, j, e)'
  <2> SUFFICES ASSUME Leased(b, j, e)'
               PROVE  SealAt(b, j, e)'
    BY DEF SealAt
  <2>1. SealAt(b, j, e) /\ AgentLoose(agent[b], agent'[b])
    BY DEF SealInv
  <2>2. /\ lease'[j].conn \in Conn \cup {NoConn}
        /\ agent'[b].link \in Conn \cup {NoConn}
    BY DEF TypeOK, LeaseRec, AgentRec
  <2>3. Leased(b, j, e)
    BY DEF Leased, KeepsOn
  <2>4. Decided(b, j, e)' =>
          /\ runner'[j].pc = "ending" /\ Decided(b, j, e)
          /\ settled'[j].last = settled[j].last
    BY <2>1, <2>3 DEF SealAt, Parting, Decided
  <2>5. Decided(b, j, e) => Decided(b, j, e)'
    BY DEF Decided
  <2>6. Does(agent'[b], j, e)
         => /\ Does(agent[b], j, e)
            /\ \A n \in Int : Sealed(agent[b], n) => Sealed(agent'[b], n)
    BY <2>1 DEF AgentLoose, Does, HoldsThat, Sealed
  <2>7. Takes(b, j, e)' => Takes(b, j, e)
    <3>1. Runs(agent'[b]) /\ HoldsThat(agent'[b], j, e)
           => Runs(agent[b]) /\ HoldsThat(agent[b], j, e)
      BY <2>6 DEF Does
    <3>2. agent'[b].link # NoConn
           => /\ agent[b].link = agent'[b].link
              /\ Assigns(down'[agent'[b].link], j, e) => Assigns(down[agent'[b].link], j, e)
      BY <2>1 DEF AgentLoose
    <3>3. Takes(b, j, e)' <=> \/ Runs(agent'[b]) /\ HoldsThat(agent'[b], j, e)
                              \/ /\ agent'[b].link # NoConn
                                 /\ Assigns(down'[agent'[b].link], j, e)
      BY DEF Takes
    <3> QED
      BY <3>1, <3>2, <3>3 DEF Takes
  <2>8. SteadyFor(b, j, e)
    BY <2>1, <2>2, <2>4, <2>5, <2>6, <2>7 DEF SteadyFor, AgentLoose, Open
  <2> QED
    BY <2>1, <2>8, SealKeeps
<1> QED
  BY <1>1, <1>2 DEF SealInv

\* An agent that does nothing goes on as it was.
LEMMA LooseForms ==
    ASSUME NEW s
    PROVE  AgentLoose(s, s)
BY DEF AgentLoose

\* A heartbeat carries no result.
LEMMA HeartbeatSealed ==
    ASSUME TypeOK, TypeOK', TidyInv, SealInv, NEW a \in Agent, Heartbeat(a)
    PROVE  TidyInv' /\ SealInv'
<1> DEFINE c == agent[a].link
           cur == agent[a].cur
<1>1. PICK memory \in {"hot", "calm"} :
        up' = [up EXCEPT ![c] =
                 Append(@, Frame("heartbeat", cur.job, cur.epoch, 0, memory))]
  BY DEF Heartbeat
<1>2. /\ UNCHANGED <<lease, settled, conn, runner, agent, down>>
      /\ cur.job \in Job /\ cur.epoch \in Nat
  BY DEF Heartbeat, hub, jobs, TypeOK, AgentRec, CurrentRec, Holds
<1> DEFINE f == Frame("heartbeat", cur.job, cur.epoch, 0, memory)
<1>3. f \in FrameRec /\ f.type = "heartbeat"
  BY <1>2 DEF Frame, FrameRec, FrameOf
<1> HIDE DEF f
<1>4. ASSUME NEW k \in Conn
      PROVE  up'[k] = up[k] \/ up'[k] = Append(up[k], f)
  BY <1>1 DEF TypeOK, f
<1>5. \A k \in Conn, j \in Job, e \in Nat : Lighter(k, j, e)
  BY <1>3, <1>4, LighterForms DEF UpQuiet
<1>6. \A j \in Job : KeepsOn(lease[j], lease'[j])
  BY <1>2, KeepsForms DEF TypeOK
<1>7. \A b \in Agent : AgentLoose(agent[b], agent'[b])
  BY <1>2, LooseForms
<1> HIDE DEF c, cur
<1>8. \A j \in Job : /\ lease'[j].conn = lease[j].conn
                    /\ runner[j].pc = "ending" => runner'[j].pc = "ending"
  BY <1>2
<1>9. \A b \in Agent, j \in Job, e \in Nat :
        Assigns(down'[agent'[b].link], j, e) => Assigns(down[agent'[b].link], j, e)
  BY <1>2
<1> QED
  BY <1>2, <1>5, <1>6, <1>7, <1>8, <1>9, LooseSeals

\* An upload is no frame.
LEMMA UploadSealed ==
    ASSUME TypeOK, TypeOK', LinkInv, TidyInv, SealInv, NEW a \in Agent, Upload(a)
    PROVE  TidyInv' /\ SealInv'
<1> DEFINE s == agent[a]
<1>1. PICK how : agent' = [agent EXCEPT ![a] = [agent[a] EXCEPT !.cur.up = how]]
  BY UploadLinks
<1> DEFINE t == [s EXCEPT !.cur.up = how]
<1>2. /\ t.link = s.link /\ t.cur.job = s.cur.job /\ t.cur.epoch = s.cur.epoch
      /\ t.cur.released = s.cur.released /\ t.cur.out = s.cur.out
      /\ t.cur.done = s.cur.done
  <2>1. s \in AgentRec
    BY DEF TypeOK
  <2>2. t.link = s.link /\ t.cur = [s.cur EXCEPT !.up = how]
    BY <2>1, Zenon DEF AgentRec
  <2>3. s.cur \in CurrentRec
    BY <2>1 DEF AgentRec
  <2>4. \A cur \in CurrentRec :
          LET d == [cur EXCEPT !.up = how] IN
          /\ d.job = cur.job /\ d.epoch = cur.epoch /\ d.released = cur.released
          /\ d.out = cur.out /\ d.done = cur.done
    BY Zenon DEF CurrentRec
  <2> QED
    BY <2>2, <2>3, <2>4
<1>3. agent'[a] = t /\ \A b \in Agent \ {a} : agent'[b] = agent[b]
  BY <1>1 DEF TypeOK
<1>4. /\ UNCHANGED <<settled, conn, runner, up, down>>
      /\ \/ UNCHANGED lease
         \/ lease' = [lease EXCEPT ![s.cur.job].uploads = TRUE]
  BY DEF Upload, jobs
<1> HIDE DEF t
<1>5. AgentLoose(s, t)
  BY <1>2 DEF AgentLoose, Runs, Holds
<1>6. ASSUME NEW k \in Job
      PROVE  KeepsOn(lease[k], lease'[k]) /\ lease'[k].conn = lease[k].conn
  <2>1. lease[k] \in LeaseRec
    BY DEF TypeOK
  <2>2. lease'[k] \in {lease[k], [lease[k] EXCEPT !.uploads = TRUE]}
    BY <1>4 DEF TypeOK
  <2>3. KeepsOn(lease[k], lease[k]) /\ KeepsOn(lease[k], [lease[k] EXCEPT !.uploads = TRUE])
    BY <2>1, KeepsForms
  <2>4. [lease[k] EXCEPT !.uploads = TRUE].conn = lease[k].conn
    BY <2>1 DEF LeaseRec
  <2> QED
    BY <2>2, <2>3, <2>4
<1>7. \A b \in Agent : AgentLoose(agent[b], agent'[b])
  BY <1>3, <1>5, LooseForms
<1>8. \A k \in Conn, j \in Job, e \in Nat : Lighter(k, j, e)
  BY <1>4 DEF Lighter
<1> QED
  BY <1>4, <1>6, <1>7, <1>8, LooseSeals

\* A channel lost takes what is under way on it, and an agent that dies its attempt.
LEMMA DisconnectSealed ==
    ASSUME TypeOK, TypeOK', LinkInv, TidyInv, SealInv, NEW a \in Agent,
           Disconnect(a) \/ AgentCrash(a)
    PROVE  TidyInv' /\ SealInv'
<1> DEFINE s == agent[a]
<1>1. /\ UNCHANGED <<settled, conn, runner, up, lease>>
      /\ down' = [c \in Conn |-> IF c = s.link THEN <<>> ELSE down[c]]
  BY DisconnectLinks DEF Disconnect, AgentCrash, hub, jobs
<1>2. \A k \in Job : KeepsOn(lease[k], lease'[k])
  BY <1>1, KeepsForms DEF TypeOK
<1>3. PICK t : /\ agent' = [agent EXCEPT ![a] = t] /\ t.link = NoConn
               /\ t = NewAgent \/ t.cur = s.cur
  <2>1. CASE AgentCrash(a)
    BY <2>1 DEF AgentCrash, NewAgent
  <2>2. CASE Disconnect(a)
    <3> DEFINE t == [s EXCEPT !.link = NoConn]
    <3>1. agent' = [agent EXCEPT ![a] = t]
      BY <2>2 DEF Disconnect, TypeOK
    <3>2. t.link = NoConn /\ t.cur = s.cur
      BY DEF TypeOK, AgentRec
    <3> HIDE DEF t
    <3> QED
      BY <3>1, <3>2
  <2> QED
    BY <2>1, <2>2
<1>4. agent'[a] = t /\ \A b \in Agent \ {a} : agent'[b] = agent[b]
  BY <1>3 DEF TypeOK
<1>5. Runs(t) => t.cur = s.cur
  BY <1>3 DEF Runs, Holds, NewAgent, Idle
<1>6. AgentLoose(s, t)
  BY <1>3, <1>5 DEF AgentLoose, Runs, Holds
<1>7. \A b \in Agent : AgentLoose(agent[b], agent'[b])
  BY <1>4, <1>6, LooseForms
<1>8. \A k \in Conn, j \in Job, e \in Nat : Lighter(k, j, e)
  BY <1>1 DEF Lighter
<1>9. ASSUME NEW b \in Agent, agent'[b].link # NoConn
      PROVE  down'[agent'[b].link] = down[agent'[b].link]
  <2>1. b # a /\ agent'[b].link = agent[b].link /\ agent[b].link \in Conn
    BY <1>3, <1>4, <1>9 DEF TypeOK, AgentRec
  <2>2. agent[b].link # s.link
    BY <1>9, <2>1 DEF LinkInv, LinksDiffer
  <2> QED
    BY <1>1, <2>1, <2>2
<1> QED
  BY <1>1, <1>2, <1>7, <1>8, <1>9, LooseSeals

\* A deadline passes, a user cancels, the master stops.
LEMMA AroundSealed ==
    ASSUME TypeOK, TypeOK', TidyInv, SealInv,
           (\E j \in Job : Expire(j) \/ UserCancel(j)) \/ Stop
    PROVE  TidyInv' /\ SealInv'
<1>1. /\ UNCHANGED <<settled, conn, up, agent>>
      /\ \A c \in Conn : DownQuiet(c)
  BY SurroundingsQuiet DEF QuietStep, Quiet, Expire, UserCancel, Stop, hub
<1>2. ASSUME NEW k \in Job
      PROVE  /\ KeepsOn(lease[k], lease'[k]) /\ lease'[k].conn = lease[k].conn
             /\ runner[k].pc = "ending" => runner'[k].pc = "ending"
  <2>1. lease \in [Job -> LeaseRec] /\ lease[k] \in LeaseRec /\ runner \in [Job -> RunnerRec]
    BY DEF TypeOK
  <2>2. KeepsOn(lease[k], lease[k])
    BY <2>1, KeepsForms
  <2>3. CASE \E j \in Job : Expire(j)
    <3>1. PICK j \in Job : Expire(j)
      BY <2>3
    <3>2. /\ lease' = [lease EXCEPT ![j] = [lease[j] EXCEPT !.time = "due"]]
          /\ lease[j].time = "live" /\ runner' = runner
      BY <2>1, <3>1 DEF Expire, jobs
    <3>3. KeepsOn(lease[j], [lease[j] EXCEPT !.time = "due"])
      BY <2>1, <3>2, KeepsForms
    <3>4. [lease[j] EXCEPT !.time = "due"].conn = lease[j].conn
      BY <2>1 DEF LeaseRec
    <3> QED
      BY <2>1, <2>2, <3>2, <3>3, <3>4
  <2>4. CASE \E j \in Job : UserCancel(j)
    <3>1. PICK j \in Job : UserCancel(j)
      BY <2>4
    <3>2. /\ lease' = lease
          /\ runner' = IF At(j, "queued")
                       THEN [runner EXCEPT ![j].pc = "gone"] ELSE runner
      BY <3>1 DEF UserCancel, hub
    <3> QED
      BY <2>1, <2>2, <3>2 DEF At
  <2>5. CASE Stop
    BY <2>2, <2>5 DEF Stop, hub, jobs
  <2> QED
    BY <2>3, <2>4, <2>5
<1>3. \A k \in Conn, j \in Job, e \in Nat : Lighter(k, j, e)
  BY <1>1 DEF Lighter
<1>4. \A b \in Agent : AgentLoose(agent[b], agent'[b])
  BY <1>1, LooseForms
<1>5. \A b \in Agent : agent'[b].link # NoConn => agent'[b].link \in Conn
  BY DEF TypeOK, AgentRec
<1>6. \A k \in Conn, j \in Job, e \in Nat : Assigns(down'[k], j, e) => Assigns(down[k], j, e)
  BY <1>1, QuietAssigns
<1> QED
  BY <1>1, <1>2, <1>3, <1>4, <1>5, <1>6, LooseSeals

-----------------------------------------------------------------------------
\* The hub reads a channel.

\* No channel is opened by it.
LEMMA ChannelOpens ==
    ASSUME TypeOK, TypeOK', NEW c \in Conn, ChannelStep(c), NEW k \in Conn,
           conn'[k] # NoChannel
    PROVE  Open(k) /\ (RemoveConn(c) => k # c)
<1>1. CASE OnReady(c)
  <2>1. Open(c) /\ \A d \in Conn \ {c} : conn'[d] = conn[d]
    BY <1>1 DEF OnReady, Gets, TypeOK
  <2>2. ~RemoveConn(c)
    <3>1. conn'[c] = [conn[c] EXCEPT !.ready = TRUE]
      BY <1>1 DEF OnReady, TypeOK
    <3>2. RemoveConn(c) => conn'[c] = NoChannel
      BY DEF RemoveConn, TypeOK
    <3>3. NoChannel.agent = NoAgent /\ conn[c].agent # NoAgent
      BY <2>1, StoreAssumption DEF TypeOK, ChannelRec, Open, NoChannel
    <3>4. [conn[c] EXCEPT !.ready = TRUE].agent = conn[c].agent
      BY <2>1 DEF TypeOK, ChannelRec, Open, NoChannel
    <3> QED
      BY <3>1, <3>2, <3>3, <3>4
  <2> QED
    BY <2>1, <2>2 DEF Open
<1>2. CASE ~OnReady(c)
  <2>1. Quiet(k)
    BY <1>2, ChannelQuiet DEF QuietStep
  <2>2. Open(k)' => Open(k)
    BY <2>1, QuietChannel
  <2>3. RemoveConn(c) => conn'[c] = NoChannel
    BY DEF RemoveConn, TypeOK
  <2> QED
    BY <2>2, <2>3 DEF Open
<1> QED
  BY <1>1, <1>2

\* The hub takes a result: its agent has nothing more to write.
LEMMA TakenSeals ==
    ASSUME TypeOK, TypeOK', NEW c \in Conn, UpQuiet(c),
           \A k \in Conn : DownQuiet(k) /\ UpQuiet(k),
           UNCHANGED <<agent, settled, runner>>,
           \A k \in Conn : conn'[k] # NoChannel => Open(k),
           NEW j \in Job, Taken(c, j), NEW a \in Agent, NEW e \in Nat,
           SealAt(a, j, e)
    PROVE  SealAt(a, j, e)'
<1> DEFINE l == lease[j]
           m == lease'[j]
           f == Head(up[c])
           R == Results(j, e)
           s == agent[a]
<1>1. /\ l.conn = c /\ l.time # "lost" /\ ~l.finished
      /\ f \in Results(j, l.epoch) /\ f.seq = l.next
      /\ m.agent = l.agent /\ m.epoch = l.epoch /\ m.conn = c
      /\ m.next = l.next + 1 /\ m.result /\ m.finished
      /\ OnNextEvent(c)
  BY DEF Taken
<1> SUFFICES ASSUME Leased(a, j, e)'
             PROVE  (Rested(a, j, e) /\ Single(a, j, e)
                      /\ Followed(a, j, e) /\ Parting(a, j, e))'
  BY DEF SealAt
<1>2. Rested(a, j, e) /\ Single(a, j, e) /\ Followed(a, j, e) /\ Parting(a, j, e)
  BY <1>1 DEF SealAt, Leased
<1>3. f \in R
  BY <1>1 DEF Leased
<1>4. /\ up[c] \in Seq(FrameRec) /\ up[c] # <<>> /\ up'[c] = Tail(up[c])
  BY <1>1 DEF OnNextEvent, Gets, Took, TypeOK
<1>5. Has(up[c], R) /\ Has(up[c], {f})
  BY <1>3, <1>4, FewTails
<1>6. c # NoConn /\ l.next \in Nat /\ s.link \in Conn \cup {NoConn}
  <2>1. c # NoConn
    BY LeaseAssumption
  <2>2. l \in LeaseRec /\ s \in AgentRec
    BY DEF TypeOK
  <2> QED
    BY <2>1, <2>2 DEF LeaseRec, AgentRec
<1>7. /\ ~l.result /\ Few(up[c], R)
      /\ Does(s, j, e) => Sealed(s, l.next)
  BY <1>1, <1>2, <1>3, <1>5, <1>6 DEF Single
<1>8. ~Decided(a, j, e)
  BY <1>2, <1>7 DEF Parting
<1>9. ~Decided(a, j, e)'
  BY <1>8 DEF Decided
<1>10. Rested(a, j, e)'
  <2>1. m.next - 1 = l.next
    BY <1>1, <1>6
  <2>2. Does(s, j, e) => Sealed(s, m.next - 1)
    BY <1>7, <2>1
  <2> QED
    BY <1>9, <2>2 DEF Rested
<1>11. Single(a, j, e)'
  <2>1. ~Has(up'[c], R)
    BY <1>3, <1>4, <1>7, FewTails
  <2> QED
    BY <1>1, <2>1 DEF Single
<1>12. Followed(a, j, e)'
  <2> SUFFICES ASSUME s.link # NoConn, conn'[s.link] # NoChannel
               PROVE  /\ Takes(a, j, e)' => m.conn = s.link \/ Decided(a, j, e)'
                      /\ Has(up'[s.link], R) => m.conn = s.link
    BY DEF Followed, Open
  <2>1. /\ Takes(a, j, e) => l.conn = s.link \/ Decided(a, j, e)
        /\ Has(up[s.link], R) => l.conn = s.link
    BY <1>2, <1>6 DEF Followed
  <2>2. Assigns(down'[s.link], j, e) => Assigns(down[s.link], j, e)
    BY <1>6, QuietAssigns
  <2>3. Takes(a, j, e)' => Takes(a, j, e)
    BY <2>2 DEF Takes
  <2>4. Has(up'[s.link], R) => Has(up[s.link], R)
    BY <1>6, LighterForms DEF Lighter
  <2> QED
    BY <1>1, <1>8, <2>1, <2>3, <2>4
<1>13. Parting(a, j, e)'
  BY <1>9 DEF Parting
<1> QED
  BY <1>10, <1>11, <1>12, <1>13

\* What the hub reads, it reads of a result under way once.
LEMMA ChannelSealed ==
    ASSUME TypeOK, TypeOK', TidyInv, JobInv, SealInv, NEW c \in Conn, ChannelStep(c)
    PROVE  TidyInv' /\ SealInv'
<1>1. UNCHANGED agent /\ \A k \in Conn : UpQuiet(k) /\ DownQuiet(k)
  BY ChannelSilent
<1>2. UNCHANGED <<settled, runner>>
  BY SettledStays, JobsStay DEF jobs
<1>3. \A k \in Conn : conn'[k] # NoChannel => Open(k) /\ (RemoveConn(c) => k # c)
  BY ChannelOpens
<1>4. TidyInv'
  BY <1>1 DEF TidyInv
<1>5. ASSUME NEW a \in Agent, NEW j \in Job, NEW e \in Nat
      PROVE  SealAt(a, j, e)'
  <2>1. SealAt(a, j, e) /\ (lease[j].result => lease[j].finished)
    BY DEF SealInv, JobInv, ResultAt
  <2>2. CASE Taken(c, j)
    BY <1>1, <1>2, <1>3, <2>1, <2>2, TakenSeals
  <2>3. CASE /\ KeepsOn(lease[j], lease'[j])
             /\ \/ lease'[j].conn = lease[j].conn
                \/ RemoveConn(c) /\ lease[j].conn = c
    <3> SUFFICES ASSUME Leased(a, j, e)'
                 PROVE  SealAt(a, j, e)'
      BY DEF SealAt
    <3>1. Leased(a, j, e)
      BY <2>3 DEF Leased, KeepsOn
    <3>2. Decided(a, j, e) => runner[j].pc = "ending"
      BY <2>1, <3>1 DEF SealAt, Parting
    <3>3. /\ agent[a].link \in Conn \cup {NoConn}
          /\ lease'[j].conn \in Conn \cup {NoConn}
      BY DEF TypeOK, TypeOK, LeaseRec, AgentRec
    <3>4. agent[a].link # NoConn =>
            (Assigns(down'[agent[a].link], j, e) => Assigns(down[agent[a].link], j, e))
      BY <1>1, <3>3, QuietAssigns
    <3>5. Takes(a, j, e)' => Takes(a, j, e)
      BY <1>1, <3>4 DEF Takes
    <3>6. \A k \in Conn : Lighter(k, j, e)
      BY <1>1, LighterForms
    <3>7. SteadyFor(a, j, e)
      BY <1>1, <1>2, <1>3, <2>3, <3>2, <3>3, <3>5, <3>6 DEF SteadyFor, Decided
    <3> QED
      BY <2>1, <3>7, SealKeeps
  <2> QED
    BY <2>1, <2>2, <2>3, ChannelKeeps
<1> QED
  BY <1>4, <1>5 DEF SealInv

-----------------------------------------------------------------------------
\* The runners' steps.

\* A runner settles a result the hub took, and goes on to its end.
LEMMA RunnerSettles ==
    ASSUME LifeInv, NEW i \in Job, ResultAt(i), RunnerStep(i)
    PROVE  \/ UNCHANGED settled
           \/ /\ lease[i].result /\ UNCHANGED lease
              /\ runner'[i].pc = "ending"
              /\ \E accepted \in BOOLEAN :
                   Verdict(i, accepted) /\ (accepted => Registered(i))
<1>1. TypeOK /\ runner \in [Job -> RunnerRec]
  BY DEF LifeInv, FenceInv, TypeOK
<1>2. \A q : Goes(i, q) => runner'[i] = q
  BY <1>1 DEF Goes
<1> DEFINE r == runner[i]
           u == ReadOn(i)
<1>3. /\ \A close, after : /\ Ending(r, close, after).pc = "ending"
                           /\ Ending(u, close, after).pc = "ending"
      /\ \A close, counted, to : Requeueing(u, close, counted, to).pc = "ending"
  BY RunnerParts
<1>4. \A q : Goes(i, q) /\ q.pc = "ending" => runner'[i].pc = "ending"
  BY <1>2
<1>5. CASE OnResult(i)
  <2>1. lease[i].result
    <3> DEFINE l == lease[i]
               n == runner[i].read + 1
    <3>1. l \in LeaseRec /\ runner[i].read \in Nat
      BY <1>1 DEF TypeOK, RunnerRec
    <3>2. n \in DOMAIN l.events /\ l.events[n] = "result"
      BY <1>5, <3>1 DEF OnResult, Received, Event, LeaseRec
    <3> QED
      BY <3>2 DEF ResultAt, Has
  <2>2. \/ UNCHANGED settled
        \/ /\ UNCHANGED lease /\ Verdict(i, FALSE)
           /\ \E q : Goes(i, q) /\ q.pc = "ending"
    BY <1>5, <1>3 DEF OnResult, Registers
  <2> QED
    BY <1>4, <2>1, <2>2
<1>6. CASE Publish(i)
  <2>1. lease[i].result
    BY <1>6 DEF Publish, At, ResultAt
  <2>2. \/ UNCHANGED settled
        \/ /\ UNCHANGED lease /\ Verdict(i, FALSE)
           /\ Goes(i, Ending(runner[i], FALSE, "gone"))
    BY <1>6 DEF Publish
  <2>3. Goes(i, Ending(r, FALSE, "gone")) => runner'[i].pc = "ending"
    BY <1>3, <1>4
  <2> QED
    BY <2>1, <2>2, <2>3
<1>7. CASE Registered(i)
  <2>1. lease[i].result
    BY <1>7 DEF Registered, At, ResultAt
  <2>2. /\ UNCHANGED lease /\ Verdict(i, TRUE)
        /\ Goes(i, Ending(runner[i], FALSE, "gone"))
    BY <1>7 DEF Registered
  <2>3. Goes(i, Ending(r, FALSE, "gone")) => runner'[i].pc = "ending"
    BY <1>3, <1>4
  <2> QED
    BY <1>7, <2>1, <2>2, <2>3
<1>8. CASE Start(i) \/ Claim(i) \/ GiveUp(i) \/ SaveLeased(i) \/ RunOrphan(i)
           \/ OnFeatures(i) \/ OnError(i) \/ OnRelease(i) \/ NoticeCancel(i)
           \/ LetLeaseGo(i) \/ FindExpired(i) \/ EndLease(i) \/ StoreRequeue(i)
           \/ RunnerPanics(i)
  BY <1>8 DEF Start, Claim, GiveUp, SaveLeased, RunOrphan, OnFeatures, OnError,
     OnRelease, NoticeCancel, LetLeaseGo, FindExpired, EndLease, StoreRequeue,
     RunnerPanics, hub
<1> QED
  BY <1>5, <1>6, <1>7, <1>8 DEF RunnerStep

\* A runner that has come to its end ends its lease next.
LEMMA EndingEnds ==
    ASSUME TypeOK, NEW i \in Job, RunnerStep(i), runner[i].pc = "ending"
    PROVE  EndLease(i)
BY DEF RunnerStep, Start, Claim, GiveUp, SaveLeased, RunOrphan, OnFeatures,
   OnResult, Publish, Registered, OnError, OnRelease, NoticeCancel, LetLeaseGo,
   FindExpired, EndLease, StoreRequeue, RunnerPanics, At, Received

\* A runner settles what the hub took, or lets the lease go.
LEMMA RunnerSealed ==
    ASSUME AttemptInv, TypeOK', TidyInv, JobInv, SealInv, NEW i \in Job,
           RunnerStep(i), ~Claim(i)
    PROVE  TidyInv' /\ SealInv'
<1>1. LifeInv /\ HolderInv /\ TypeOK
  BY DEF AttemptInv, ClaimBase, LifeInv, FenceInv
<1>2. /\ UNCHANGED <<agent, up>>
      /\ \A c \in Conn : /\ DownQuiet(c) /\ UpQuiet(c)
                         /\ conn'[c] # NoChannel => Open(c)
  <2>1. QuietStep /\ RunnerLeaves(i)
    BY <1>1, RunnerQuiet, RunnersLeave
  <2>2. \A c \in Conn : Open(c)' => Open(c)
    BY <1>1, <2>1, QuietChannel DEF QuietStep
  <2> QED
    BY <2>1, <2>2 DEF QuietStep, Quiet, RunnerLeaves, Open
<1>3. TidyInv'
  BY <1>2 DEF TidyInv
<1>4. ASSUME NEW b \in Agent, NEW j \in Job, NEW e \in Nat, Leased(b, j, e)'
      PROVE  SealAt(b, j, e)'
  <2>1. SealAt(b, j, e)
    BY DEF SealInv
  <2>2. lease'[j] # NoLease
    BY <1>4, NoLeaseIs, StoreAssumption DEF Leased
  <2>3. KeepsOn(lease[j], lease'[j]) /\ lease'[j].conn = lease[j].conn
    BY <1>1, <2>2, RunnersKeep
  <2>4. Leased(b, j, e)
    BY <1>4, <2>3 DEF Leased, KeepsOn
  <2>5. runner[j].pc = "ending" => runner'[j].pc = "ending"
    <3>1. CASE j = i
      <4>1. EndLease(i) => lease'[i] = NoLease
        BY <1>1 DEF EndLease, TypeOK
      <4> QED
        BY <1>1, <2>2, <3>1, <4>1, EndingEnds
    <3>2. CASE j # i
      BY <1>1, <3>2, StepsApart DEF Apart
    <3> QED
      BY <3>1, <3>2
  <2>6. Decided(b, j, e) => runner'[j].pc = "ending"
    BY <2>1, <2>4, <2>5 DEF SealAt, Parting
  <2>7. \/ settled'[j] = settled[j]
        \/ /\ lease[j].result /\ runner'[j].pc = "ending"
           /\ settled'[j].agent = lease[j].agent
           /\ settled'[j].epoch = lease[j].epoch
           /\ settled'[j].last = lease[j].next - 1
    <3>1. ResultAt(i) /\ settled \in [Job -> SettledRec]
      BY <1>1 DEF JobInv, TypeOK
    <3>2. CASE UNCHANGED settled
      BY <3>2
    <3>3. CASE /\ lease[i].result /\ UNCHANGED lease
               /\ runner'[i].pc = "ending"
               /\ \E accepted \in BOOLEAN :
                    Verdict(i, accepted) /\ (accepted => Registered(i))
      <4>1. PICK accepted \in BOOLEAN : Verdict(i, accepted)
        BY <3>3
      <4>2. settled' = [settled EXCEPT ![i] =
              [epoch |-> lease[i].epoch, agent |-> lease[i].agent,
               accepted |-> accepted, last |-> lease[i].next - 1]]
        BY <4>1 DEF Verdict
      <4> QED
        BY <3>1, <3>3, <4>2
    <3> QED
      BY <1>1, <3>1, <3>2, <3>3, RunnerSettles
  <2>8. Decided(b, j, e)' =>
          /\ runner'[j].pc = "ending"
          /\ \/ Decided(b, j, e) /\ settled'[j].last = settled[j].last
             \/ lease[j].result /\ settled'[j].last = lease[j].next - 1
    BY <2>6, <2>7 DEF Decided
  <2>9. Decided(b, j, e) => Decided(b, j, e)'
    BY <2>4, <2>7 DEF Decided, Leased
  <2>10. /\ agent'[b] = agent[b] /\ agent[b].link \in Conn \cup {NoConn}
         /\ lease'[j].conn \in Conn \cup {NoConn}
    BY <1>1, <1>2 DEF TypeOK, AgentRec, LeaseRec
  <2>11. \A c \in Conn : Lighter(c, j, e)
    BY <1>1, <1>2, LighterForms
  <2>12. Takes(b, j, e)' => Takes(b, j, e)
    <3>1. \A c \in Conn : Assigns(down'[c], j, e) => Assigns(down[c], j, e)
      BY <1>1, <1>2, QuietAssigns
    <3> QED
      BY <2>10, <3>1 DEF Takes
  <2>13. SteadyFor(b, j, e)
    BY <1>2, <2>3, <2>8, <2>9, <2>10, <2>11, <2>12 DEF SteadyFor
  <2> QED
    BY <1>1, <2>1, <2>13, SealKeeps
<1>5. ASSUME NEW b \in Agent, NEW j \in Job, NEW e \in Nat
      PROVE  SealAt(b, j, e)'
  BY <1>4 DEF SealAt
<1> QED
  BY <1>3, <1>5 DEF SealInv

-----------------------------------------------------------------------------
\* Leases begin anew.

\* A new lease is of an attempt of which nobody has heard.
LEMMA ClaimSealed ==
    ASSUME AttemptInv, TypeOK', BookInv, TidyInv, SealInv, NEW j \in Job, Claim(j)
    PROVE  TidyInv' /\ SealInv'
<1> DEFINE e == runner[j].epoch
           m == Order("assign", j, e, "none", 0)
<1>1. PICK c \in Conn :
        /\ Free(c, j) /\ runner[j].pc = "claiming"
        /\ lease' = [lease EXCEPT ![j] = NewLease(c, conn[c].agent, e)]
        /\ conn' = [conn EXCEPT ![c].ready = FALSE, ![c].holding = j]
        /\ down' = Sent(c, m) /\ UNCHANGED <<agent, up, settled>>
        /\ Goes(j, [runner[j] EXCEPT !.pc = "leased"])
  BY DEF Claim, At
<1>2. /\ TypeOK /\ e = row[j].epoch /\ e \in Nat /\ SpokenIn(Words) /\ ClaimsInv
      /\ LifeInv /\ HolderInv
  BY <1>1 DEF AttemptInv, ClaimBase, LifeInv, LinkInv, FenceInv, EpochsGiven,
     Attempted, TypeOK, Row, WordsInv
<1>3. m \in OrderRec /\ m.type = "assign" /\ m.job = j /\ m.epoch = e
  <2>1. m \in OrderRec
    BY <1>2, OrderTyped
  <2>2. m.type = "assign" /\ m.job = j /\ m.epoch = e
    BY DEF Order
  <2> QED
    BY <2>1, <2>2
<1>4. ~Issued(j, e)
  BY <1>1, <1>2 DEF Issued
<1>5. \A k \in Conn : ~Has(up[k], Results(j, e))
  <2>1. \A k \in Conn : Silent(up[k], j, e)
    BY <1>2, <1>4, UnissuedSilent
  <2> QED
    BY <2>1 DEF Silent, Has, Results
<1>6. /\ lease'[j] = NewLease(c, conn[c].agent, e)
      /\ \A i \in Job \ {j} : lease'[i] = lease[i] /\ runner'[i] = runner[i]
  BY <1>1, <1>2 DEF TypeOK, Goes
<1>7. /\ lease'[j].agent = conn[c].agent /\ lease'[j].epoch = e
      /\ ~lease'[j].result /\ lease'[j].conn = c
  BY <1>6 DEF NewLease
<1>8. \A a \in Agent : ~Decided(a, j, e) /\ ~HoldsThat(agent[a], j, e)
  <2>1. \A a \in Agent : ~Decided(a, j, e)
    BY <1>4 DEF BookInv, SettledAt, Decided
  <2>2. \A a \in Agent : ~Claims(a, j, e)
    BY <1>2, <1>4 DEF ClaimsInv
  <2> QED
    BY <2>1, <2>2 DEF Claims, Bears
<1>9. \A k \in Conn : conn'[k] # NoChannel => Open(k)
  BY <1>1, <1>2 DEF Free, Open, TypeOK
<1>10. /\ \A k \in Conn \ {c} : down'[k] = down[k]
       /\ \A k \in Conn : /\ down[k] \in Seq(OrderRec)
                          /\ down'[k] \in {down[k], Append(down[k], m)}
  BY <1>1, <1>2 DEF Sent, TypeOK
<1> HIDE DEF m, e
<1>11. \A k \in Conn : \A i, d : Assigns(down'[k], i, d)
         => Assigns(down[k], i, d) \/ (k = c /\ i = j /\ d = e)
  <2> SUFFICES ASSUME NEW k \in Conn, NEW i, NEW d, Assigns(down'[k], i, d)
               PROVE  Assigns(down[k], i, d) \/ (k = c /\ i = j /\ d = e)
    OBVIOUS
  <2>1. CASE down'[k] = down[k]
    BY <2>1
  <2>2. CASE down'[k] # down[k]
    <3>1. k = c /\ down[k] \in Seq(OrderRec) /\ down'[k] = Append(down[k], m)
      BY <1>10, <2>2
    <3>2. Assigns(Append(down[k], m), i, d)
           => Assigns(down[k], i, d) \/ (m.type = "assign" /\ m.job = i /\ m.epoch = d)
      BY <1>3, <3>1, AssignsOn
    <3> QED
      BY <1>3, <3>1, <3>2
  <2> QED
    BY <2>1, <2>2
<1>12. TidyInv'
  BY <1>1 DEF TidyInv
<1>13. ASSUME NEW a \in Agent, NEW i \in Job, NEW d \in Nat, Leased(a, i, d)'
       PROVE  SealAt(a, i, d)'
  <2>1. agent'[a] = agent[a] /\ agent[a].link \in Conn \cup {NoConn}
    BY <1>1, <1>2 DEF TypeOK, AgentRec
  <2>2. CASE i = j
    <3>1. a = conn[c].agent /\ d = e
      BY <1>7, <1>13, <2>2 DEF Leased
    <3>2. ~Decided(a, i, d)'
      BY <1>1, <1>8, <2>2, <3>1 DEF Decided
    <3>3. Takes(a, i, d)' => agent[a].link = c
      <4>1. ~Assigns(down[agent[a].link], j, e) \/ agent[a].link = NoConn
        <5>1. ~Claims(a, j, e)
          BY <1>2, <1>4 DEF ClaimsInv, e
        <5> QED
          BY <5>1 DEF Claims, Bears
      <4> QED
        BY <1>8, <1>11, <2>1, <2>2, <3>1, <4>1 DEF Takes
    <3>4. \A k \in Conn : ~Has(up'[k], Results(i, d))
      BY <1>1, <1>5, <2>2, <3>1
    <3>5. Rested(a, i, d)' /\ Parting(a, i, d)'
      BY <1>7, <2>2, <3>2 DEF Rested, Parting
    <3>6. Single(a, i, d)'
      BY <1>7, <2>2, <3>4 DEF Single
    <3>7. Followed(a, i, d)'
      BY <1>7, <2>1, <2>2, <3>3, <3>4 DEF Followed
    <3> QED
      BY <3>5, <3>6, <3>7 DEF SealAt
  <2>3. CASE i # j
    <3>1. lease'[i] = lease[i] /\ runner'[i] = runner[i] /\ settled' = settled
      BY <1>1, <1>6, <2>3
    <3>2. lease[i] \in LeaseRec /\ lease[i].conn \in Conn \cup {NoConn}
      BY <1>2 DEF TypeOK, LeaseRec
    <3>3. KeepsOn(lease[i], lease'[i])
      BY <3>1, <3>2, KeepsForms
    <3>4. SealAt(a, i, d) /\ Leased(a, i, d)
      BY <1>13, <3>1 DEF SealInv, Leased
    <3>5. Decided(a, i, d) => runner[i].pc = "ending"
      BY <3>4 DEF SealAt, Parting
    <3>6. Takes(a, i, d)' => Takes(a, i, d)
      BY <1>11, <2>1, <2>3 DEF Takes
    <3>7. \A k \in Conn : Lighter(k, i, d)
      BY <1>1 DEF Lighter
    <3>8. Decided(a, i, d)' <=> Decided(a, i, d)
      BY <3>1 DEF Decided
    <3>9. SteadyFor(a, i, d)
      BY <1>9, <2>1, <3>1, <3>2, <3>3, <3>5, <3>6, <3>7, <3>8 DEF SteadyFor
    <3> QED
      BY <1>2, <3>4, <3>9, SealKeeps
  <2> QED
    BY <2>2, <2>3
<1>14. ASSUME NEW a \in Agent, NEW i \in Job, NEW d \in Nat
       PROVE  SealAt(a, i, d)'
  BY <1>13 DEF SealAt
<1> QED
  BY <1>12, <1>14 DEF SealInv

\* A restarted master has heard of no result, and settled none.
LEMMA RestartSealed ==
    ASSUME TypeOK', TidyInv, Restart
    PROVE  TidyInv' /\ SealInv'
<1>1. /\ UNCHANGED agent
      /\ settled' = [j \in Job |-> NoSettled] /\ conn' = [c \in Conn |-> NoChannel]
  BY DEF Restart
<1>2. TidyInv'
  BY <1>1 DEF TidyInv
<1>3. ASSUME NEW a \in Agent, NEW j \in Job, NEW e \in Nat
      PROVE  SealAt(a, j, e)'
  <2>1. lease'[j].conn = NoConn /\ ~lease'[j].result
    <3>1. \/ lease'[j] = NewLease(NoConn, row[j].holder, row[j].epoch)
          \/ lease'[j] = NoLease
      BY RestartParts
    <3> QED
      BY <3>1 DEF NewLease, NoLease
  <2>2. ~Decided(a, j, e)'
    BY <1>1, StoreAssumption DEF Decided, NoSettled
  <2>3. agent'[a].link \in Conn \cup {NoConn}
    BY DEF TypeOK, AgentRec
  <2>4. agent'[a].link # NoConn => conn'[agent'[a].link] = NoChannel
    BY <1>1, <2>3
  <2>5. Rested(a, j, e)' /\ Parting(a, j, e)'
    BY <2>1, <2>2 DEF Rested, Parting
  <2>6. Single(a, j, e)' /\ Followed(a, j, e)'
    BY <2>1, <2>4 DEF Single, Followed, Open
  <2> QED
    BY <2>5, <2>6 DEF SealAt
<1> QED
  BY <1>2, <1>3 DEF SealInv

-----------------------------------------------------------------------------
\* An agent dials.

\* What the master acknowledged is left out of what is written again: an
\* agent that had nothing more to write still has not.
LEMMA RewindSeals ==
    ASSUME NEW o \in OutboxRec, o.written <= Len(o.evs), NEW acked \in Int
    PROVE  LET p == Rewind(o, acked) IN
           /\ \A ev : (\A k \in DOMAIN o.evs : o.evs[k] = ev => k = Len(o.evs))
                => \A k \in DOMAIN p.evs : p.evs[k] = ev => k = Len(p.evs)
           /\ \A k \in DOMAIN p.evs : \E i \in DOMAIN o.evs : p.evs[k] = o.evs[i]
           /\ AllWritten(o) /\ o.last <= acked => AllWritten(p) /\ p.last <= acked
<1> DEFINE r == Ack(o, acked)
           p == Rewind(o, acked)
           n == Covered(o, acked)
<1>1. o.evs \in Seq(JobEvent) /\ o.written \in Nat /\ o.last \in Int
  BY DEF OutboxRec
<1>2. r.evs = SubSeq(o.evs, n + 1, Len(o.evs)) /\ r \in OutboxRec
  <2>1. n \in 0 .. o.written
    BY <1>1 DEF Covered
  <2>2. SubSeq(o.evs, n + 1, Len(o.evs)) \in Seq(JobEvent) /\ o.written - n \in Nat
    BY <1>1, <2>1
  <2> HIDE DEF n
  <2> QED
    BY <1>1, <2>2 DEF Ack, OutboxRec, n
<1>3. p.evs = r.evs /\ p.written = 0 /\ p.last = acked
  BY <1>2 DEF Rewind, OutboxRec
<1>4. /\ \A ev : (\A k \in DOMAIN o.evs : o.evs[k] = ev => k = Len(o.evs))
           => \A k \in DOMAIN r.evs : r.evs[k] = ev => k = Len(r.evs)
      /\ \A k \in DOMAIN r.evs : \E i \in DOMAIN o.evs : r.evs[k] = o.evs[i]
  BY AckCloses
<1>5. ASSUME AllWritten(o), o.last <= acked
      PROVE  AllWritten(p) /\ p.last <= acked
  <2>1. n = o.written /\ o.written = Len(o.evs)
    BY <1>1, <1>5 DEF Covered, AllWritten
  <2>2. Len(r.evs) = 0
    BY <1>1, <1>2, <2>1
  <2> HIDE DEF p, r
  <2> QED
    BY <1>3, <2>2 DEF AllWritten
<1> HIDE DEF p, r
<1> QED
  BY <1>3, <1>4, <1>5 DEF p, r

\* A welcome has the agent go on with its attempt only when told to continue.
LEMMA WelcomedSeals ==
    ASSUME NEW s \in AgentRec, Orderly(s), Closes(s), NEW c \in Conn,
           NEW acked \in Int,
           NEW told \in {"none", "continue", "lease_lost", "cancelled", "reroute"},
           told = "none" => ~Runs(s)
    PROVE  LET t == Welcomed(s, c, told, acked) IN
           /\ Closes(t)
           /\ Runs(t) => /\ Runs(s) /\ told = "continue"
                         /\ Sealed(s, acked) => Sealed(t, acked)
<1> DEFINE t == [s EXCEPT !.link = c]
           u == [t EXCEPT !.cur.out = EmptyOutbox]
           o == Rewind(t.cur.out, acked)
           v == [t EXCEPT !.cur.out = o]
           w == [t EXCEPT !.ready = TRUE]
           y == Welcomed(s, c, told, acked)
<1>1. /\ t \in AgentRec /\ t.cur = s.cur /\ w.cur = s.cur
  BY DEF AgentRec
<1>2. /\ u \in AgentRec
      /\ u.cur.job = s.cur.job /\ u.cur.released = s.cur.released
  <2>1. EmptyOutbox \in OutboxRec
    BY DEF EmptyOutbox, OutboxRec
  <2>2. u \in AgentRec
    BY <1>1, <2>1, OutTyped
  <2> QED
    BY <1>1, <2>2 DEF AgentRec, CurrentRec
<1>3. /\ v.cur.out = Rewind(s.cur.out, acked) /\ v.cur.done = s.cur.done
      /\ v.cur.job = s.cur.job /\ v.cur.released = s.cur.released
  <2>1. o = Rewind(s.cur.out, acked)
    BY <1>1
  <2> HIDE DEF o
  <2> QED
    BY <1>1, <2>1 DEF AgentRec, CurrentRec
<1>4. y = IF ~Holds(s) THEN w
          ELSE IF ~Runs(s) THEN t
          ELSE IF told = "continue" THEN v
          ELSE Stopped(u, told)
  <2>1. Holds(s) = Holds(t) /\ Runs(s) = Runs(t)
    BY <1>1 DEF Holds, Runs
  <2> QED
    BY DEF Welcomed
<1> HIDE DEF t, u, v, w, y
<1>5. CASE ~Runs(s)
  <2>1. ~Runs(y)
    BY <1>1, <1>4, <1>5 DEF Runs, Holds
  <2> QED
    BY <2>1 DEF Closes, y
<1>6. CASE Runs(s) /\ told = "continue"
  <2> DEFINE x == s.cur.out
             p == Rewind(x, acked)
  <2>1. y = v
    BY <1>4, <1>6 DEF Runs
  <2>2. x \in OutboxRec /\ x.written <= Len(x.evs)
    BY DEF AgentRec, CurrentRec, Orderly
  <2>3. /\ \A ev : (\A k \in DOMAIN x.evs : x.evs[k] = ev => k = Len(x.evs))
             => \A k \in DOMAIN p.evs : p.evs[k] = ev => k = Len(p.evs)
        /\ \A k \in DOMAIN p.evs : \E i \in DOMAIN x.evs : p.evs[k] = x.evs[i]
        /\ AllWritten(x) /\ x.last <= acked => AllWritten(p) /\ p.last <= acked
    BY <2>2, RewindSeals
  <2>4. \A k \in DOMAIN x.evs :
          x.evs[k] = "result" => s.cur.done = "result" /\ k = Len(x.evs)
    BY <1>6 DEF Closes
  <2> HIDE DEF p
  <2>5. \A k \in DOMAIN p.evs :
          p.evs[k] = "result" => s.cur.done = "result" /\ k = Len(p.evs)
    BY <2>3, <2>4
  <2>6. Closes(v)
    BY <1>3, <2>5 DEF Closes, p
  <2>7. Sealed(s, acked) => Sealed(v, acked)
    BY <1>3, <2>3 DEF Sealed, p
  <2> QED
    BY <1>6, <2>1, <2>6, <2>7 DEF y
<1>7. CASE Runs(s) /\ told # "continue"
  <2>1. y = Stopped(u, told) /\ told # "no"
    BY <1>4, <1>7 DEF Runs
  <2> DEFINE z == [u EXCEPT !.cur.released = told]
  <2>2. z.cur.released = told
    BY <1>2 DEF AgentRec, CurrentRec
  <2> HIDE DEF z
  <2>3. LetGo(u, told).cur = Idle
    BY <1>2 DEF LetGo, AgentRec
  <2>4. Stopped(u, told) \in {z, LetGo(u, told)}
    BY DEF Stopped, z
  <2>5. ~Runs(y)
    BY <2>1, <2>2, <2>3, <2>4 DEF Runs, Holds, Idle
  <2> QED
    BY <2>5 DEF Closes, y
<1> QED
  BY <1>5, <1>6, <1>7

\* Its lease moves to the new channel, or goes on as it was.
LEMMA ConnectKeeps ==
    ASSUME TypeOK, NEW a \in Agent, NEW t \in AgentRec,
           NEW acked \in Int, NEW answer, NEW old, NEW told,
           Resumed(a, t, acked, answer, old, told), NEW k \in Job
    PROVE  \/ /\ KeepsOn(lease[k], lease'[k])
              /\ \/ lease'[k].conn = lease[k].conn
                 \/ lease[k].conn \in Evicted(a)
              /\ ~(answer = "moves" /\ k = agent[a].cur.job)
           \/ /\ answer = "moves" /\ k = agent[a].cur.job
              /\ Leased(a, k, agent[a].cur.epoch)
              /\ ~Decided(a, k, agent[a].cur.epoch)
              /\ lease'[k].conn = nextConn /\ acked = lease[k].next - 1
              /\ \E m \in LeaseRec :
                   lease[k] = m /\ lease'[k] = [m EXCEPT !.conn = nextConn]
<1> DEFINE s == agent[a]
           c == nextConn
           j == s.cur.job
           lease1 == Detached(Evicted(a))
           l == lease[k]
           m == [l EXCEPT !.conn = NoConn]
<1>1. /\ lease' = IF answer = "none" THEN lease1
                  ELSE [lease1 EXCEPT ![j] = AfterResume(@, answer, c)]
      /\ answer # "none" => j \in Job
      /\ c \in Conn
      /\ answer = "moves" => /\ Runs(s) /\ acked = lease1[j].next - 1
                             /\ answer = ResumeAnswer(a, j, s.cur.epoch, lease1[j])
  BY DEF Resumed
<1>2. lease1 \in [Job -> LeaseRec]
  BY DetachedTyped
<1>3. /\ l \in LeaseRec /\ m \in LeaseRec
      /\ lease1[k] = IF l.conn \in Evicted(a) THEN m ELSE l
  <2>1. l \in LeaseRec
    BY DEF TypeOK
  <2> QED
    BY <2>1 DEF Detached, LeaseRec
<1>4. /\ KeepsOn(l, l) /\ KeepsOn(l, m)
      /\ KeepsOn(l, [l EXCEPT !.time = "lost"])
      /\ KeepsOn(m, [m EXCEPT !.time = "lost"])
      /\ m.conn = NoConn
  BY <1>3, KeepsForms DEF LeaseRec
<1>5. KeepsOn(l, [m EXCEPT !.time = "lost"])
  <2>1. l.next \in Nat /\ l.next >= l.next
    BY <1>3 DEF LeaseRec
  <2> QED
    BY <1>3, <2>1 DEF KeepsOn, LeaseRec
<1>6. CASE ~(answer = "moves" /\ k = j)
  <2>1. \/ lease'[k] = lease1[k]
        \/ lease'[k] = [lease1[k] EXCEPT !.time = "lost"]
    <3> HIDE DEF lease1, j, c
    <3> QED
      BY <1>1, <1>2, <1>6 DEF AfterResume
  <2>2. [l EXCEPT !.time = "lost"].conn = l.conn
    BY <1>3 DEF LeaseRec
  <2> HIDE DEF lease1, l, m
  <2> QED
    BY <1>3, <1>4, <1>5, <1>6, <2>1, <2>2 DEF l
<1>7. CASE answer = "moves" /\ k = j
  <2> DEFINE n == [lease1[k] EXCEPT !.conn = c]
  <2>1. lease'[k] = n
    <3> HIDE DEF lease1, j, c
    <3> QED
      BY <1>1, <1>2, <1>7 DEF AfterResume
  <2>2. n = [l EXCEPT !.conn = c]
    <3> HIDE DEF lease1
    <3>1. [m EXCEPT !.conn = c] = [l EXCEPT !.conn = c]
      BY <1>3 DEF LeaseRec
    <3> QED
      BY <1>3, <3>1
  <2>3. /\ lease1[k].agent = l.agent /\ lease1[k].epoch = l.epoch
        /\ lease1[k].next = l.next
    <3> HIDE DEF lease1
    <3> QED
      BY <1>3 DEF LeaseRec
  <2>4. /\ lease1[k].agent = a /\ lease1[k].epoch = s.cur.epoch
        /\ ~Decided(a, k, s.cur.epoch)
    BY <1>1, <1>7 DEF ResumeAnswer, Decided
  <2>5. n.conn = c
    BY <1>2 DEF LeaseRec
  <2> HIDE DEF n, lease1
  <2> QED
    BY <1>1, <1>3, <1>7, <2>1, <2>2, <2>3, <2>4, <2>5 DEF Leased
<1> QED
  BY <1>6, <1>7

\* What it writes to the new channel.
LEMMA ConnectWrites ==
    ASSUME TypeOK, LinkInv, ChannelInv, CancelInv, OnceInv, LeanInv, FirstInv,
           TidyInv, NEW a \in Agent, NEW t \in AgentRec,
           NEW acked \in Int, NEW answer, NEW old, NEW told,
           Resumed(a, t, acked, answer, old, told)
    PROVE  LET s == agent[a]
               u == agent'[a]
               q == up'[nextConn]
           IN  /\ s.link = NoConn
               /\ \A i, d : ~Assigns(down'[nextConn], i, d)
               /\ \/ u = s /\ q = <<>>
                  \/ /\ u.link = nextConn /\ Tidy(u)
                     /\ \A j \in Job, e \in Nat :
                          /\ Does(u, j, e)
                             => /\ Does(s, j, e) /\ answer \in {"settled", "moves"}
                                /\ Sealed(s, acked) => Sealed(u, acked)
                          /\ Has(q, Results(j, e))
                             => /\ Does(s, j, e) /\ answer \in {"settled", "moves"}
                                /\ ~Sealed(s, acked)
                          /\ Few(q, Results(j, e))
                          /\ \A f \in Results(j, e) :
                               Has(q, {f}) /\ Runs(u) => Sealed(u, f.seq)
<1> DEFINE s == agent[a]
           c == nextConn
           u == AfterFlush(t)
           q == FramesOf(t)
<1>1. /\ c \in Conn /\ up[c] = <<>> /\ down[c] = <<>> /\ conn[c] = NoChannel
  BY ConnectOutside
<1>2. /\ s.link = NoConn /\ t = Welcomed(s, c, told, acked) /\ s \in AgentRec
      /\ told \in {"none", "continue", "lease_lost", "cancelled", "reroute"}
      /\ told = "none" => ~Runs(s)
      /\ told = "continue" => answer \in {"settled", "moves"}
      /\ Orderly(s) /\ Sound(s) /\ Closes(s)
  BY DEF Resumed, ChannelInv, LinkInv, LinkAt, TidyInv, Tidy
<1>3. c \notin Evicted(a)
  BY <1>1, StoreAssumption DEF Evicted, NoChannel
<1>4. \/ agent'[a] = u /\ up'[c] = q
      \/ agent'[a] = s /\ up'[c] = <<>>
  <2> HIDE DEF u, q
  <2>2. CASE /\ agent' = [agent EXCEPT ![a] = u]
             /\ up' = [k \in Conn |-> IF k \in Evicted(a) THEN <<>>
                                      ELSE IF k = c THEN q ELSE up[k]]
    BY <1>1, <1>3, <2>2 DEF TypeOK
  <2>3. CASE /\ UNCHANGED agent
             /\ up' = [k \in Conn |-> IF k \in Evicted(a) THEN <<>> ELSE up[k]]
    BY <1>1, <1>3, <2>3
  <2> QED
    BY <2>2, <2>3 DEF Resumed, u, q
<1>5. \A i, d : ~Assigns(down'[c], i, d)
  <2> DEFINE m == VerdictOrder(s.cur.job, s.cur.epoch, settled[s.cur.job].accepted)
  <2>1. m.type = "verdict"
    BY DEF VerdictOrder, Order
  <2>2. down' = [down EXCEPT ![c] = <<m>>] \/ UNCHANGED down
    BY DEF Resumed
  <2> HIDE DEF m
  <2>3. down'[c] = <<m>> \/ down'[c] = <<>>
    BY <1>1, <2>2 DEF TypeOK
  <2>4. \A k \in DOMAIN down'[c] : down'[c][k].type = "verdict"
    BY <2>1, <2>3
  <2> QED
    BY <2>4 DEF Assigns
<1>6. c # NoConn
  BY <1>1, LeaseAssumption
<1> HIDE DEF s, c
<1>7. t.link = c
  BY <1>1, <1>2, <1>6, WelcomedTurns, ZenonT(30)
<1>8. /\ Orderly(t)
      /\ Runs(t) => /\ Runs(s)
                    /\ t.cur.job = s.cur.job /\ t.cur.epoch = s.cur.epoch
  BY <1>1, <1>2, WelcomedNumbers
<1>9. /\ Closes(t)
      /\ Runs(t) => /\ Runs(s) /\ told = "continue"
                    /\ Sealed(s, acked) => Sealed(t, acked)
  BY <1>1, <1>2, WelcomedSeals
<1>10. u.link = c
  BY <1>7, <1>8, FlushNumbers
<1>11. /\ Closes(u) /\ (Runs(u) => AllWritten(u.cur.out))
       /\ \A n \in Int : Runs(u) /\ Sealed(t, n) => Sealed(u, n)
       /\ \A j \in Job, e \in Nat :
            /\ Does(u, j, e) => Does(t, j, e)
            /\ Has(q, Results(j, e)) => Does(t, j, e) /\ ~AllWritten(t.cur.out)
            /\ Few(q, Results(j, e))
            /\ \A f \in Results(j, e) : Has(q, {f}) /\ Runs(u) => Sealed(u, f.seq)
  BY <1>8, <1>9, FlushSeals
<1> HIDE DEF u, q
<1>12. Tidy(u)
  BY <1>11 DEF Tidy
<1>13. ASSUME NEW j \in Job, NEW e \in Nat, Does(t, j, e)
       PROVE  /\ Does(s, j, e) /\ answer \in {"settled", "moves"}
              /\ Sealed(s, acked) => Sealed(t, acked)
  BY <1>2, <1>8, <1>9, <1>13 DEF Does, HoldsThat
<1>14. ASSUME NEW j \in Job, NEW e \in Nat
       PROVE  /\ Does(u, j, e)
                 => /\ Does(s, j, e) /\ answer \in {"settled", "moves"}
                    /\ Sealed(s, acked) => Sealed(u, acked)
              /\ Has(q, Results(j, e))
                 => /\ Does(s, j, e) /\ answer \in {"settled", "moves"}
                    /\ ~Sealed(s, acked)
  <2>1. Does(u, j, e) => Runs(u)
    BY DEF Does
  <2>2. ~AllWritten(t.cur.out) => ~Sealed(t, acked)
    BY DEF Sealed
  <2> QED
    BY <1>11, <1>13, <2>1, <2>2
<1> QED
  BY <1>2, <1>4, <1>5, <1>10, <1>11, <1>12, <1>14 DEF s, c

\* The channels there were, and the other agents.
LEMMA ConnectSteady ==
    ASSUME TypeOK, TypeOK', LinkInv, ChannelInv, CancelInv, OnceInv, LeanInv, FirstInv,
           SealInv, NEW a \in Agent, NEW t \in AgentRec,
           NEW acked \in Int, NEW answer, NEW old, NEW told,
           Resumed(a, t, acked, answer, old, told)
    PROVE  /\ UNCHANGED <<settled, runner>>
           /\ \A k \in Conn \ {nextConn} :
                /\ \A i, d : Lighter(k, i, d)
                /\ down'[k] = down[k]
                /\ conn'[k] # NoChannel => Open(k) /\ k \notin Evicted(a)
           /\ \A j \in Job : lease[j].conn # nextConn
           /\ \A b \in Agent \ {a} : agent'[b] = agent[b] /\ agent[b].link # nextConn
<1> DEFINE c == nextConn
<1>1. /\ \A k \in Conn \ {c} : down'[k] = down[k]
      /\ c \in Conn /\ conn[c] = NoChannel
      /\ \A b \in Agent \ {a} : agent'[b] = agent[b]
  BY ConnectOutside
<1>2. UNCHANGED <<settled, runner>>
  BY DEF Resumed
<1>3. \A k \in Conn \ {c} : Quiet(k)
  BY ConnectOthers
<1>4. ASSUME NEW k \in Conn \ {c}
      PROVE  /\ \A i, d : Lighter(k, i, d)
             /\ conn'[k] # NoChannel => Open(k) /\ k \notin Evicted(a)
  <2>1. \A i, d : Lighter(k, i, d)
    BY <1>3, LighterForms DEF Quiet
  <2>2. Open(k)' => Open(k)
    BY <1>3, QuietChannel
  <2>3. k \in Evicted(a) => conn'[k] = NoChannel
    BY DEF Resumed
  <2> QED
    BY <2>1, <2>2, <2>3 DEF Open
<1>5. ASSUME NEW j \in Job
      PROVE  lease[j].conn # c
  <2>1. c # NoConn
    BY <1>1, LeaseAssumption
  <2> QED
    BY <1>1, <2>1 DEF ChannelInv, Attached, Open
<1>6. ASSUME NEW b \in Agent
      PROVE  agent[b].link # c
  BY <1>1 DEF LinkInv, LinkAt, TypeOK
<1> QED
  BY <1>1, <1>2, <1>4, <1>5, <1>6

\* A resume has a result written again only when the hub has not taken it.
LEMMA ConnectSealed ==
    ASSUME TypeOK, TypeOK', LinkInv, ChannelInv, CancelInv, OnceInv, LeanInv, FirstInv,
           TidyInv, SealInv, NEW a \in Agent, Connect(a)
    PROVE  TidyInv' /\ SealInv'
<1>1. PICK t \in AgentRec, acked \in Int : \E answer, old, told :
        Resumed(a, t, acked, answer, old, told)
  BY ConnectParts
<1>2. PICK answer, old, told : Resumed(a, t, acked, answer, old, told)
  BY <1>1
<1> DEFINE c == nextConn
           s == agent[a]
           u == agent'[a]
           q == up'[c]
<1>3. /\ UNCHANGED <<settled, runner>>
      /\ \A k \in Conn \ {c} :
           /\ \A i, d : Lighter(k, i, d)
           /\ down'[k] = down[k]
           /\ conn'[k] # NoChannel => Open(k) /\ k \notin Evicted(a)
      /\ \A j \in Job : lease[j].conn # c
      /\ \A b \in Agent \ {a} : agent'[b] = agent[b] /\ agent[b].link # c
  BY <1>2, ConnectSteady
<1>4. /\ s.link = NoConn
      /\ \A i, d : ~Assigns(down'[c], i, d)
      /\ \/ u = s /\ q = <<>>
         \/ /\ u.link = c /\ Tidy(u)
            /\ \A j \in Job, e \in Nat :
                 /\ Does(u, j, e)
                    => /\ Does(s, j, e) /\ answer \in {"settled", "moves"}
                       /\ Sealed(s, acked) => Sealed(u, acked)
                 /\ Has(q, Results(j, e))
                    => /\ Does(s, j, e) /\ answer \in {"settled", "moves"}
                       /\ ~Sealed(s, acked)
                 /\ Few(q, Results(j, e))
                 /\ \A f \in Results(j, e) :
                      Has(q, {f}) /\ Runs(u) => Sealed(u, f.seq)
  BY <1>2, ConnectWrites
<1>5. c \in Conn /\ c # NoConn /\ (answer = "settled" => acked = settled[s.cur.job].last)
      /\ (answer = "settled" => Decided(a, s.cur.job, s.cur.epoch))
  <2>1. c \in Conn /\ (answer = "settled" => acked = settled[s.cur.job].last)
    BY <1>2 DEF Resumed
  <2>2. answer = "settled" => Decided(a, s.cur.job, s.cur.epoch)
    BY <1>2 DEF Resumed, ResumeAnswer, Decided
  <2> QED
    BY <2>1, <2>2, LeaseAssumption
<1>6. \A k \in Job :
        \/ /\ KeepsOn(lease[k], lease'[k])
           /\ \/ lease'[k].conn = lease[k].conn
              \/ lease[k].conn \in Evicted(a)
           /\ ~(answer = "moves" /\ k = s.cur.job)
        \/ /\ answer = "moves" /\ k = s.cur.job
           /\ Leased(a, k, s.cur.epoch)
           /\ ~Decided(a, k, s.cur.epoch)
           /\ lease'[k].conn = c /\ acked = lease[k].next - 1
           /\ \E m \in LeaseRec :
                lease[k] = m /\ lease'[k] = [m EXCEPT !.conn = c]
  BY <1>2, ConnectKeeps
<1>7. TidyInv'
  <2> SUFFICES ASSUME NEW b \in Agent
               PROVE  Tidy(agent'[b])
    BY DEF TidyInv
  <2>1. Tidy(agent[b])
    BY DEF TidyInv
  <2> QED
    BY <1>3, <1>4, <2>1
<1>8. \A j \in Job, b \in Agent : /\ lease[j] \in LeaseRec /\ lease'[j] \in LeaseRec
                    /\ lease[j].conn \in Conn \cup {NoConn}
                    /\ lease'[j].conn \in Conn \cup {NoConn}
                    /\ agent[b].link \in Conn \cup {NoConn}
  BY DEF TypeOK, LeaseRec, AgentRec
<1> HIDE DEF c
\* The leases that do not move, as the other agents see them.
<1>9. ASSUME NEW b \in Agent \ {a}, NEW j \in Job, NEW e \in Nat, Leased(b, j, e)'
      PROVE  SealAt(b, j, e)'
  <2>1. /\ KeepsOn(lease[j], lease'[j])
        /\ \/ lease'[j].conn = lease[j].conn
           \/ lease[j].conn \in Evicted(a)
    <3>1. CASE Leased(a, j, s.cur.epoch) /\ \E m \in LeaseRec :
                 lease[j] = m /\ lease'[j] = [m EXCEPT !.conn = c]
      BY <1>9, <3>1 DEF Leased, LeaseRec
    <3> QED
      BY <1>6, <3>1
  <2>2. Leased(b, j, e) /\ SealAt(b, j, e)
    BY <1>9, <2>1 DEF Leased, KeepsOn, SealInv
  <2>3. /\ agent'[b] = agent[b] /\ agent[b].link # c
        /\ agent[b].link \in Conn \cup {NoConn}
    BY <1>3, <1>8
  <2>4. Decided(b, j, e) => runner[j].pc = "ending"
    BY <2>2 DEF SealAt, Parting
  <2>5. Takes(b, j, e)' => Takes(b, j, e)
    BY <1>3, <2>3 DEF Takes
  <2>6. lease'[j].conn # NoConn => Lighter(lease'[j].conn, j, e)
    <3>1. lease'[j].conn \in {lease[j].conn, NoConn}
      BY <2>1 DEF KeepsOn
    <3> QED
      BY <1>3, <1>8, <3>1
  <2>7. SteadyFor(b, j, e)
    <3>1. Decided(b, j, e)' <=> Decided(b, j, e)
      BY <1>3 DEF Decided
    <3>2. Decided(b, j, e) => runner'[j].pc = "ending" /\ settled'[j].last = settled[j].last
      BY <1>3, <2>4
    <3>3. agent'[b].link # NoConn /\ conn'[agent'[b].link] # NoChannel
            => /\ Open(agent'[b].link) /\ Lighter(agent'[b].link, j, e)
               /\ lease'[j].conn = lease[j].conn \/ lease[j].conn # agent'[b].link
      BY <1>3, <2>1, <2>3
    <3>4. agent'[b].link \in {agent[b].link, NoConn}
      BY <2>3
    <3>5. Does(agent'[b], j, e)
            => /\ Does(agent[b], j, e)
               /\ \A n \in Int : Sealed(agent[b], n) => Sealed(agent'[b], n)
      BY <2>3
    <3> QED
      BY <2>1, <2>5, <2>6, <3>1, <3>2, <3>3, <3>4, <3>5 DEF SteadyFor
  <2> QED
    BY <2>2, <2>7, SealKeeps
\* The lease that moves.
<1>10. ASSUME NEW j \in Job, NEW e \in Nat, Leased(a, j, e)',
              answer = "moves", j = s.cur.job,
              Leased(a, j, s.cur.epoch), ~Decided(a, j, s.cur.epoch),
              lease'[j].conn = c, acked = lease[j].next - 1,
              \E m \in LeaseRec : lease[j] = m /\ lease'[j] = [m EXCEPT !.conn = c]
       PROVE  SealAt(a, j, e)'
  <2>1. /\ lease'[j].agent = lease[j].agent /\ lease'[j].epoch = lease[j].epoch
        /\ lease'[j].next = lease[j].next /\ lease'[j].result = lease[j].result
        /\ lease'[j].time = lease[j].time
    BY <1>10 DEF LeaseRec
  <2>2. e = s.cur.epoch /\ ~Decided(a, j, e) /\ ~Decided(a, j, e)' /\ Leased(a, j, e)
    BY <1>3, <1>10, <2>1 DEF Leased, Decided
  <2>3. Rested(a, j, e)
    BY <2>2 DEF SealInv, SealAt
  <2>4. CASE u = s /\ q = <<>>
    <3>1. Rested(a, j, e)' /\ Parting(a, j, e)'
      BY <2>1, <2>2, <2>3, <2>4 DEF Rested, Parting
    <3>2. ~Has(q, Results(j, e))
      <4>1. ~Has(<<>>, Results(j, e))
        BY FewIn
      <4> QED
        BY <2>4, <4>1
    <3>3. Single(a, j, e)' /\ Followed(a, j, e)'
      BY <1>4, <1>10, <2>4, <3>2 DEF Single, Followed
    <3> QED
      BY <3>1, <3>3 DEF SealAt
  <2>5. CASE u.link = c /\ ~(u = s /\ q = <<>>)
    <3>1. /\ Does(u, j, e) => /\ Does(s, j, e)
                              /\ Sealed(s, acked) => Sealed(u, acked)
          /\ Has(q, Results(j, e)) => Does(s, j, e) /\ ~Sealed(s, acked)
          /\ Few(q, Results(j, e))
          /\ \A f \in Results(j, e) : Has(q, {f}) /\ Runs(u) => Sealed(u, f.seq)
      BY <1>4, <2>5
    <3>2. Does(s, j, e) /\ lease[j].result => Sealed(s, acked)
      BY <1>10, <2>3 DEF Rested
    <3>3. Rested(a, j, e)'
      <4>1. Does(u, j, e) /\ lease'[j].result => Sealed(u, lease'[j].next - 1)
        BY <1>10, <2>1, <3>1, <3>2
      <4> QED
        BY <2>2, <4>1 DEF Rested
    <3>4. Single(a, j, e)'
      <4>1. Does(u, j, e) => Runs(u)
        BY DEF Does
      <4>2. Has(q, Results(j, e)) => ~lease'[j].result
        BY <2>1, <3>1, <3>2
      <4> QED
        BY <1>10, <3>1, <4>1, <4>2 DEF Single
    <3>5. Followed(a, j, e)' /\ Parting(a, j, e)'
      BY <1>10, <2>2, <2>5 DEF Followed, Parting
    <3> QED
      BY <3>3, <3>4, <3>5 DEF SealAt
  <2> QED
    BY <1>4, <2>4, <2>5
\* The other leases of the agent that dials.
<1>11. ASSUME NEW j \in Job, NEW e \in Nat, Leased(a, j, e)',
              KeepsOn(lease[j], lease'[j]),
              lease'[j].conn = lease[j].conn \/ lease[j].conn \in Evicted(a),
              ~(answer = "moves" /\ j = s.cur.job)
       PROVE  SealAt(a, j, e)'
  <2>1. Leased(a, j, e) /\ SealAt(a, j, e)
    BY <1>11 DEF Leased, KeepsOn, SealInv
  <2>2. /\ Rested(a, j, e) /\ Single(a, j, e) /\ Parting(a, j, e)
        /\ lease'[j].result = lease[j].result /\ lease'[j].next >= lease[j].next
        /\ lease'[j].conn \in {lease[j].conn, NoConn}
        /\ lease[j].time = "lost" => lease'[j].time = "lost"
    BY <1>11, <2>1 DEF SealAt, KeepsOn
  <2>3. Decided(a, j, e)' <=> Decided(a, j, e)
    BY <1>3 DEF Decided
  <2>4. lease[j].next \in Int /\ lease'[j].next \in Int /\ settled[j].last \in Int
        /\ u.cur.out.last \in Int
    <3>1. settled[j] \in SettledRec /\ u \in AgentRec
      BY DEF TypeOK
    <3>2. settled[j].last \in Int
      BY <3>1 DEF SettledRec
    <3>3. u.cur.out.last \in Int
      BY <3>1 DEF AgentRec, CurrentRec, OutboxRec
    <3>4. lease[j] \in LeaseRec /\ lease'[j] \in LeaseRec
      BY <1>8
    <3> QED
      BY <3>2, <3>3, <3>4 DEF LeaseRec
  <2>5. Parting(a, j, e)'
    BY <1>3, <2>2, <2>3, <2>4 DEF Parting
  <2>6. lease'[j].conn # NoConn
          => lease'[j].conn = lease[j].conn /\ Lighter(lease[j].conn, j, e)
    BY <1>3, <1>8, <2>2
  \* What it still does of the attempt, the hub settled.
  <2>7. Does(s, j, e) /\ answer \in {"settled", "moves"}
          => Decided(a, j, e) /\ acked = settled[j].last
    <3>1. Does(s, j, e) => s.cur.job = j /\ s.cur.epoch = e
      BY DEF Does, HoldsThat
    <3> QED
      BY <1>5, <1>11, <3>1
  <2>8. Does(s, j, e) /\ answer \in {"settled", "moves"}
          => /\ Decided(a, j, e) /\ acked = settled[j].last
             /\ Sealed(s, acked)
    BY <2>2, <2>7 DEF Rested
  <2>9. Does(u, j, e) => /\ Does(s, j, e)
                         /\ u = s \/ (Decided(a, j, e) /\ Sealed(u, settled[j].last))
    BY <1>4, <2>8
  <2>10. ~Has(q, Results(j, e))
    <3>1. ~Has(<<>>, Results(j, e))
      BY FewIn
    <3> QED
      BY <1>4, <2>8, <3>1
  <2>11. Rested(a, j, e)'
    <3> SUFFICES ASSUME Does(u, j, e)
                 PROVE  /\ lease'[j].result => Sealed(u, lease'[j].next - 1)
                        /\ Decided(a, j, e)' => Sealed(u, settled'[j].last)
      BY DEF Rested
    <3>1. CASE u = s
      <4>1. /\ lease[j].result => Sealed(u, lease[j].next - 1)
            /\ Decided(a, j, e) => Sealed(u, settled[j].last)
        BY <2>2, <3>1 DEF Rested
      <4> QED
        BY <1>3, <2>2, <2>3, <2>4, <4>1 DEF Sealed
    <3>2. CASE Decided(a, j, e) /\ Sealed(u, settled[j].last)
      <4>1. settled[j].last < lease[j].next
        BY <2>2, <3>2 DEF Parting
      <4> QED
        BY <1>3, <2>2, <2>4, <3>2, <4>1 DEF Sealed
    <3> QED
      BY <2>9, <3>1, <3>2
  <2>12. Single(a, j, e)'
    <3> DEFINE k == lease[j].conn
               R == Results(j, e)
    <3> SUFFICES ASSUME lease'[j].conn # NoConn, Has(up'[lease'[j].conn], R)
                 PROVE  /\ ~lease'[j].result
                        /\ lease'[j].time # "lost" =>
                             /\ Few(up'[lease'[j].conn], R)
                             /\ Does(u, j, e) =>
                                  \A f \in R :
                                    Has(up'[lease'[j].conn], {f}) => Sealed(u, f.seq)
      BY DEF Single
    <3>1. lease'[j].conn = k /\ Lighter(k, j, e)
      BY <2>6
    <3>2. k # NoConn /\ Has(up[k], R)
      BY <3>1 DEF Lighter
    <3>3. /\ ~lease[j].result
          /\ lease[j].time # "lost" =>
               /\ Few(up[k], R)
               /\ Does(s, j, e) => \A f \in R : Has(up[k], {f}) => Sealed(s, f.seq)
      BY <2>2, <3>2 DEF Single
    <3>4. ~Decided(a, j, e)
      BY <2>2, <3>3 DEF Parting
    <3>5. Does(u, j, e) => u = s
      BY <2>9, <3>4
    <3>6. \A f \in R : Has(up'[k], {f}) => Has(up[k], {f})
      BY <3>1 DEF Lighter
    <3>7. Few(up[k], R) => Few(up'[k], R)
      BY <3>1 DEF Lighter
    <3> QED
      BY <2>2, <3>1, <3>3, <3>5, <3>6, <3>7
  <2>13. Followed(a, j, e)'
    <3>1. CASE u = s
      BY <1>4, <3>1 DEF Followed
    <3>2. CASE u.link = c /\ u # s
      <4>1. Takes(a, j, e)' => Decided(a, j, e)'
        BY <1>4, <2>3, <2>9, <3>2 DEF Takes, Does
      <4> QED
        BY <2>10, <3>2, <4>1 DEF Followed
    <3> QED
      BY <1>4, <3>1, <3>2
  <2> QED
    BY <2>5, <2>11, <2>12, <2>13 DEF SealAt
<1>12. ASSUME NEW b \in Agent, NEW j \in Job, NEW e \in Nat
       PROVE  SealAt(b, j, e)'
  <2>1. Leased(b, j, e)' => SealAt(b, j, e)'
    <3>1. CASE b = a
      BY <1>6, <1>10, <1>11, <3>1
    <3> QED
      BY <1>9, <3>1
  <2> QED
    BY <2>1 DEF SealAt
<1> QED
  BY <1>7, <1>12 DEF SealInv

-----------------------------------------------------------------------------
\* What becomes of a lease in any step.

\* The lease moves to the channel its agent has opened.
CarriesOn(l, m) ==
    /\ m.agent = l.agent /\ m.epoch = l.epoch /\ m.result = l.result
    /\ m.next = l.next /\ m.finished = l.finished /\ m.events = l.events

\* An agent's step leaves leases as they are, but for a resume of its own.
LEMMA AgentKeeps ==
    ASSUME TypeOK, NEW a \in Agent, AgentStep(a), NEW k \in Job
    PROVE  \/ KeepsOn(lease[k], lease'[k])
           \/ Connect(a) /\ lease[k].agent = a /\ CarriesOn(lease[k], lease'[k])
<1>1. lease[k] \in LeaseRec /\ KeepsOn(lease[k], lease[k])
  BY KeepsForms DEF TypeOK
<1>2. CASE UNCHANGED lease
  BY <1>1, <1>2
<1>3. CASE Upload(a)
  <2>1. lease'[k] \in {lease[k], [lease[k] EXCEPT !.uploads = TRUE]}
    BY <1>3 DEF Upload, TypeOK
  <2>2. KeepsOn(lease[k], [lease[k] EXCEPT !.uploads = TRUE])
    BY <1>1, KeepsForms
  <2> QED
    BY <1>1, <2>1, <2>2
<1>4. CASE Connect(a)
  <2>1. PICK t \in AgentRec, acked \in Int : \E answer, old, told :
          Resumed(a, t, acked, answer, old, told)
    BY <1>4, ConnectParts
  <2>2. PICK answer, old, told : Resumed(a, t, acked, answer, old, told)
    BY <2>1
  <2>3. \/ KeepsOn(lease[k], lease'[k])
        \/ /\ Leased(a, k, agent[a].cur.epoch)
           /\ \E m \in LeaseRec :
                lease[k] = m /\ lease'[k] = [m EXCEPT !.conn = nextConn]
    BY <2>2, ConnectKeeps
  <2>4. \A m \in LeaseRec : CarriesOn(m, [m EXCEPT !.conn = nextConn])
    BY DEF CarriesOn, LeaseRec
  <2> QED
    BY <1>4, <2>3, <2>4 DEF Leased
<1> QED
  BY <1>2, <1>3, <1>4 DEF AgentStep, JobProgress, JobFinished, JobKilled,
     HoldExpires, Heartbeat, OnOrder, Disconnect, AgentCrash, hub

\* A deadline passed takes no result.
LEMMA ExpireKeeps ==
    ASSUME TypeOK, NEW j \in Job, Expire(j), NEW k \in Job
    PROVE  KeepsOn(lease[k], lease'[k])
<1>1. lease \in [Job -> LeaseRec] /\ lease[k] \in LeaseRec /\ lease[j] \in LeaseRec
  BY DEF TypeOK
<1>2. /\ lease' = [lease EXCEPT ![j] = [lease[j] EXCEPT !.time = "due"]]
      /\ lease[j].time = "live"
  BY <1>1 DEF Expire
<1>3. KeepsOn(lease[j], [lease[j] EXCEPT !.time = "due"]) /\ KeepsOn(lease[k], lease[k])
  BY <1>1, <1>2, KeepsForms
<1> QED
  BY <1>1, <1>2, <1>3

\* What each step of the tier makes of a lease.
LEMMA NextKeeps ==
    ASSUME LifeInv, HolderInv, [Next]_vars, NEW k \in Job,
           lease[k].result => lease[k].finished
    PROVE  \/ KeepsOn(lease[k], lease'[k])
           \/ /\ Connect(lease[k].agent) /\ lease[k].agent \in Agent
              /\ CarriesOn(lease[k], lease'[k])
           \/ \E c \in Conn : Taken(c, k)
           \/ Claim(k) \/ Restart \/ lease'[k] = NoLease
<1>1. TypeOK /\ lease[k] \in LeaseRec
  BY DEF LifeInv, FenceInv, TypeOK
<1>2. KeepsOn(lease[k], lease[k])
  BY <1>1, KeepsForms
<1>3. CASE UNCHANGED lease
  BY <1>2, <1>3
<1>4. ASSUME NEW a \in Agent, AgentStep(a)
      PROVE  \/ KeepsOn(lease[k], lease'[k])
             \/ /\ Connect(lease[k].agent) /\ lease[k].agent \in Agent
                /\ CarriesOn(lease[k], lease'[k])
  BY <1>1, <1>4, AgentKeeps
<1>5. ASSUME NEW c \in Conn, ChannelStep(c)
      PROVE  KeepsOn(lease[k], lease'[k]) \/ Taken(c, k)
  BY <1>1, <1>5, ChannelKeeps
<1>6. ASSUME NEW j \in Job, RunnerStep(j)
      PROVE  \/ KeepsOn(lease[k], lease'[k])
             \/ Claim(k) \/ lease'[k] = NoLease
  <2>1. CASE ~Claim(j)
    BY <1>1, <1>6, <2>1, RunnersKeep
  <2>2. CASE Claim(j) /\ j # k
    BY <1>2, <1>6, <2>2, StepOn DEF Elsewhere
  <2> QED
    BY <2>1, <2>2
<1>7. ASSUME NEW j \in Job, Expire(j)
      PROVE  KeepsOn(lease[k], lease'[k])
  BY <1>1, <1>7, ExpireKeeps
<1>8. CASE (\E j \in Job : UserCancel(j)) \/ Stop \/ UNCHANGED vars
  BY <1>3, <1>8 DEF UserCancel, Stop, vars, hub
<1> QED
  BY <1>4, <1>5, <1>6, <1>7, <1>8 DEF Next

\* A lease that begins has heard of no result.
LEMMA FreshBegins ==
    ASSUME LifeInv, NEW k \in Job, Claim(k) \/ Restart \/ lease'[k] = NoLease
    PROVE  /\ lease'[k].events = <<>> /\ ~lease'[k].result
           /\ runner'[k].pc \in {"registering", "registered"}
                => ~Claim(k) /\ ~Restart
<1>1. lease \in [Job -> LeaseRec] /\ runner \in [Job -> RunnerRec]
  BY DEF LifeInv, FenceInv, TypeOK
<1>2. \A c, a, e : NewLease(c, a, e).events = <<>> /\ ~NewLease(c, a, e).result
  BY DEF NewLease
<1>3. CASE Claim(k)
  <2>1. PICK c \in Conn :
          /\ lease' = [lease EXCEPT ![k] = NewLease(c, conn[c].agent, runner[k].epoch)]
          /\ Goes(k, [runner[k] EXCEPT !.pc = "leased"])
    BY <1>3 DEF Claim
  <2>2. lease'[k] = NewLease(c, conn[c].agent, runner[k].epoch)
    BY <1>1, <2>1
  <2>3. runner'[k].pc = "leased"
    BY <1>1, <2>1 DEF Goes, RunnerRec
  <2> QED
    BY <1>2, <2>2, <2>3
<1>4. CASE Restart
  <2>1. runner'[k].pc \in {"orphan", "queued", "gone"}
    BY <1>4 DEF Restart, Fresh
  <2>2. \/ lease'[k] = NewLease(NoConn, row[k].holder, row[k].epoch)
        \/ lease'[k] = NoLease
    BY <1>4, RestartParts
  <2> QED
    BY <1>2, <2>1, <2>2 DEF NoLease
<1>5. CASE lease'[k] = NoLease /\ ~Claim(k) /\ ~Restart
  BY <1>2, <1>5 DEF NoLease
<1> QED
  BY <1>3, <1>4, <1>5

-----------------------------------------------------------------------------
\* What the hub took from a lease.

\* What a lease says of its result, it goes on saying.
LEMMA LogStands ==
    ASSUME NEW l \in LeaseRec, NEW m \in LeaseRec, KeepsOn(l, m) \/ CarriesOn(l, m),
           Has(l.events, {"result"}) => l.result,
           l.result => l.finished /\ l.next >= 2
    PROVE  /\ Has(m.events, {"result"}) => m.result
           /\ m.result => m.finished /\ m.next >= 2
           /\ m.result = l.result
<1>1. /\ m.result = l.result /\ m.next >= l.next
      /\ l.finished => m.finished
      /\ l.next \in Nat /\ m.next \in Nat
  BY DEF KeepsOn, CarriesOn, LeaseRec
<1>2. l.events \in Seq(JobEvent \cup Reason)
  BY DEF LeaseRec
<1>3. Has(m.events, {"result"}) => Has(l.events, {"result"})
  <2>1. CASE m.events = l.events
    BY <2>1
  <2>2. CASE \E x \in (JobEvent \cup Reason) \ {"result"} : m.events = Append(l.events, x)
    <3>1. PICK x \in (JobEvent \cup Reason) \ {"result"} : m.events = Append(l.events, x)
      BY <2>2
    <3> DEFINE g == l.events
    <3> HIDE DEF g
    <3>2. g \in Seq(JobEvent \cup Reason) /\ m.events = Append(g, x)
      BY <1>2, <3>1 DEF g
    <3>3. x \in JobEvent \cup Reason
      BY <3>1
    <3>4. \A S : Has(Append(g, x), S) => Has(g, S) \/ x \in S
      BY <3>2, <3>3, FewAppends
    <3> QED
      BY <3>1, <3>2, <3>4 DEF g
  <2> QED
    BY <2>1, <2>2 DEF KeepsOn, CarriesOn
<1> QED
  BY <1>1, <1>3

\* A runner that registers a result had it from the hub.
LEMMA RegistersResult ==
    ASSUME LifeInv, HolderInv, [Next]_vars, NEW k \in Job, ResultAt(k),
           runner'[k].pc \in {"registering", "registered"}, ~Restart
    PROVE  lease[k].result
<1>1. TypeOK /\ runner \in [Job -> RunnerRec]
  BY DEF LifeInv, FenceInv, TypeOK
<1>2. runner'[k].pc = runner[k].pc => lease[k].result
  BY DEF ResultAt
<1>3. ASSUME NEW j \in Job, RunnerStep(j)
      PROVE  lease[k].result
  <2>1. CASE j # k
    BY <1>2, <1>3, <2>1, StepOn DEF Elsewhere
  <2>2. CASE j = k /\ ~OnResult(k)
    BY <1>1, <1>3, <2>2, RunnerRegisters DEF ResultAt
  <2>3. CASE OnResult(k)
    <3> DEFINE l == lease[k]
               n == runner[k].read + 1
    <3>1. l \in LeaseRec /\ runner[k].read \in Nat
      BY <1>1 DEF TypeOK, RunnerRec
    <3>2. n \in DOMAIN l.events /\ l.events[n] = "result"
      BY <2>3, <3>1 DEF OnResult, Received, Event, LeaseRec
    <3> QED
      BY <3>2 DEF ResultAt, Has
  <2> QED
    BY <2>1, <2>2, <2>3
<1>4. ASSUME NEW j \in Job, UserCancel(j)
      PROVE  lease[k].result
  <2>1. runner'[k].pc = runner[k].pc \/ runner'[k].pc = "gone"
    BY <1>1, <1>4 DEF UserCancel, RunnerRec
  <2> QED
    BY <1>2, <2>1
<1>5. CASE \/ \E a \in Agent : AgentStep(a)
           \/ \E c \in Conn : ChannelStep(c)
           \/ \E j \in Job : Expire(j)
           \/ Stop
  <2>1. UNCHANGED runner
    BY <1>5, JobsStay DEF jobs
  <2> QED
    BY <1>2, <2>1
<1>6. CASE UNCHANGED vars
  BY <1>2, <1>6 DEF vars, jobs
<1> QED
  BY <1>3, <1>4, <1>5, <1>6 DEF Next

\* A result that is taken is in the log and ends the lease's events.
LEMMA NextResults ==
    ASSUME ClaimBase, ClaimBase', [Next]_vars, NEW k \in Job, ResultAt(k),
           Logged(lease[k])
    PROVE  ResultAt(k)'
<1>1. /\ LifeInv /\ HolderInv /\ lease[k] \in LeaseRec /\ lease'[k] \in LeaseRec
      /\ Held(k)' <=> runner'[k].pc \in Owning
  BY DEF ClaimBase, LifeInv, FenceInv, TypeOK, Fence
<1>2. runner'[k].pc \in {"registering", "registered"}
        => lease[k].result \/ Restart
  BY <1>1, RegistersResult
<1>3. runner'[k].pc \in {"registering", "registered"} => lease'[k] # NoLease
  BY <1>1 DEF Owning, Held
<1>4. CASE KeepsOn(lease[k], lease'[k]) \/ CarriesOn(lease[k], lease'[k])
  <2>1. /\ Has(lease[k].events, {"result"}) => lease[k].result
        /\ lease[k].result => lease[k].finished /\ lease[k].next >= 2
    BY DEF ResultAt
  <2>2. /\ Has(lease'[k].events, {"result"}) => lease'[k].result
        /\ lease'[k].result => lease'[k].finished /\ lease'[k].next >= 2
        /\ lease'[k].result = lease[k].result
    BY <1>1, <1>4, <2>1, LogStands
  <2>3. Restart => runner'[k].pc \notin {"registering", "registered"}
    BY <1>1, FreshBegins
  <2> QED
    BY <1>2, <2>2, <2>3 DEF ResultAt
<1>5. CASE \E c \in Conn : Taken(c, k)
  <2>1. lease[k].next >= 1 /\ lease[k].next \in Nat
    BY <1>1 DEF Logged, LeaseRec
  <2>2. lease'[k].result /\ lease'[k].finished /\ lease'[k].next = lease[k].next + 1
    BY <1>5 DEF Taken
  <2> QED
    BY <2>1, <2>2 DEF ResultAt
<1>6. CASE Claim(k) \/ Restart \/ lease'[k] = NoLease
  <2>1. /\ lease'[k].events = <<>> /\ ~lease'[k].result
        /\ runner'[k].pc \in {"registering", "registered"} => ~Claim(k) /\ ~Restart
    BY <1>1, <1>6, FreshBegins
  <2> QED
    BY <1>3, <1>6, <2>1 DEF ResultAt, Has
<1> QED
  BY <1>1, <1>4, <1>5, <1>6, NextKeeps DEF ResultAt

-----------------------------------------------------------------------------
\* What the hub settles.

\* A runner settles its lease with a result; a restart forgets all.
LEMMA NextSettles ==
    ASSUME LifeInv, HolderInv, [Next]_vars, NEW k \in Job, ResultAt(k)
    PROVE  \/ settled'[k] = settled[k]
           \/ Restart /\ settled'[k] = NoSettled
           \/ /\ RunnerStep(k) /\ lease[k].result /\ UNCHANGED lease
              /\ runner'[k].pc = "ending"
              /\ \E accepted \in BOOLEAN :
                   /\ Verdict(k, accepted) /\ (accepted => Registered(k))
                   /\ settled'[k] =
                        [epoch |-> lease[k].epoch, agent |-> lease[k].agent,
                         accepted |-> accepted, last |-> lease[k].next - 1]
<1>1. settled \in [Job -> SettledRec]
  BY DEF LifeInv, FenceInv, TypeOK
<1>2. ASSUME NEW j \in Job, RunnerStep(j), j # k
      PROVE  settled'[k] = settled[k]
  BY <1>2, StepsApart DEF Apart
<1>3. CASE RunnerStep(k)
  <2>1. CASE UNCHANGED settled
    BY <2>1
  <2>2. CASE /\ lease[k].result /\ UNCHANGED lease
             /\ runner'[k].pc = "ending"
             /\ \E accepted \in BOOLEAN :
                  Verdict(k, accepted) /\ (accepted => Registered(k))
    <3>1. PICK accepted \in BOOLEAN :
            Verdict(k, accepted) /\ (accepted => Registered(k))
      BY <2>2
    <3>2. settled' = [settled EXCEPT ![k] =
            [epoch |-> lease[k].epoch, agent |-> lease[k].agent,
             accepted |-> accepted, last |-> lease[k].next - 1]]
      BY <3>1 DEF Verdict
    <3>3. settled'[k] =
            [epoch |-> lease[k].epoch, agent |-> lease[k].agent,
             accepted |-> accepted, last |-> lease[k].next - 1]
      BY <1>1, <3>2
    <3> QED
      BY <1>3, <2>2, <3>1, <3>3
  <2> QED
    BY <1>3, <2>1, <2>2, RunnerSettles
<1>4. CASE Restart
  BY <1>4 DEF Restart
<1>5. CASE UNCHANGED vars \/ \E j \in Job : UserCancel(j)
  BY <1>5 DEF vars, hub, UserCancel
<1>6. CASE \/ \E a \in Agent : AgentStep(a)
           \/ \E c \in Conn : ChannelStep(c)
           \/ \E j \in Job : Expire(j)
           \/ Stop
  BY <1>6, SettledStays
<1> QED
  BY <1>2, <1>3, <1>4, <1>5, <1>6 DEF Next

\* A job that is over stays so.
LEMMA ConcludedStays ==
    ASSUME LifeInv, HolderInv, [Next]_vars, NEW k \in Job, Concluded(k)
    PROVE  Concluded(k)'
<1>1. TypeOK /\ runner \in [Job -> RunnerRec]
  BY DEF LifeInv, FenceInv, TypeOK
<1>2. row'[k] = row[k] /\ published'[k] = published[k]
  BY NextLives DEF Lived, Stays, Concluded
<1>3. ASSUME runner'[k] = runner[k] \/ runner'[k].pc = "gone"
      PROVE  Concluded(k)'
  BY <1>2, <1>3 DEF Concluded
<1>4. ASSUME NEW j \in Job, RunnerStep(j)
      PROVE  Concluded(k)'
  <2>1. CASE j # k
    BY <1>3, <1>4, <2>1, StepOn DEF Elsewhere
  <2>2. CASE j = k /\ runner[k].pc = "gone"
    <3>1. FALSE
      BY <1>4, <2>2 DEF RunnerStep, Start, Claim, GiveUp, SaveLeased, RunOrphan,
         OnFeatures, OnResult, Publish, Registered, OnError, OnRelease,
         NoticeCancel, LetLeaseGo, FindExpired, EndLease, StoreRequeue,
         RunnerPanics, At, Received
    <3> QED
      BY <3>1
  <2>3. CASE j = k /\ runner[k].pc = "ending" /\ runner[k].after = "gone"
    <3>1. EndLease(k)
      BY <1>1, <1>4, <2>3, EndingEnds
    <3>2. runner'[k].pc = "gone"
      BY <1>1, <2>3, <3>1 DEF EndLease, Goes, RunnerRec
    <3> QED
      BY <1>3, <3>2
  <2> QED
    BY <2>1, <2>2, <2>3 DEF Concluded
<1>5. ASSUME NEW j \in Job, UserCancel(j)
      PROVE  Concluded(k)'
  <2>1. runner'[k] = runner[k] \/ runner'[k].pc = "gone"
    BY <1>1, <1>5 DEF UserCancel, RunnerRec
  <2> QED
    BY <1>3, <2>1
<1>6. CASE \/ \E a \in Agent : AgentStep(a)
           \/ \E c \in Conn : ChannelStep(c)
           \/ \E j \in Job : Expire(j)
           \/ Stop
  <2>1. UNCHANGED runner
    BY <1>6, JobsStay DEF jobs
  <2> QED
    BY <1>3, <2>1
<1>7. CASE UNCHANGED vars
  BY <1>3, <1>7 DEF vars, jobs
<1>8. CASE Restart
  <2>1. row[k].status \notin Holding /\ ~IsLive(row[k])
    BY DEF Concluded, IsLive, Live, Holding
  <2>2. runner'[k] = Unheld(row[k])
    BY <1>8, <2>1, RestartParts
  <2>3. runner'[k].pc = "gone"
    BY <2>1, <2>2 DEF Unheld, Fresh
  <2> QED
    BY <1>3, <2>3
<1> QED
  BY <1>4, <1>5, <1>6, <1>7, <1>8 DEF Next

\* What is registered ends the job.
LEMMA RegisteredConcludes ==
    ASSUME LifeInv, NEW k \in Job, Registered(k)
    PROVE  Concluded(k)'
<1>1. TypeOK /\ runner[k] \in RunnerRec /\ row[k] \in Row /\ runner[k].pc = "registered"
  BY DEF LifeInv, FenceInv, TypeOK, Registered, At
<1>2. published'[k] = published[k] /\ published[k] > 0
  BY <1>1 DEF LifeInv, StandsAt, Registered
<1>3. row'[k] = FinishJob(row[k], "done")
  BY <1>1 DEF Registered, Ends, TypeOK
<1>4. ~IsLive(FinishJob(row[k], "done"))
  BY <1>1 DEF FinishJob, IsLive, Live, Row, Ended
<1>5. runner'[k] = Ending(runner[k], FALSE, "gone")
  BY <1>1 DEF Registered, Goes, TypeOK
<1>6. runner'[k].pc = "ending" /\ runner'[k].after = "gone"
  BY <1>1, <1>5 DEF Ending, RunnerRec
<1> QED
  BY <1>2, <1>3, <1>4, <1>6 DEF Concluded

\* A result accepted is of a job that is over, and stays so.
LEMMA NextAccepts ==
    ASSUME ClaimBase, ClaimBase', [Next]_vars, NEW k \in Job, ResultAt(k),
           AcceptedAt(k)
    PROVE  AcceptedAt(k)'
<1>1. LifeInv /\ HolderInv /\ TypeOK
  BY DEF ClaimBase, LifeInv, FenceInv
<1>2. CASE settled'[k] = settled[k] /\ ~Restart
  <2> SUFFICES ASSUME settled[k].accepted
               PROVE  AcceptedAt(k)'
    BY <1>2 DEF AcceptedAt
  <2>1. Concluded(k) /\ (Held(k) => Decided(lease[k].agent, k, lease[k].epoch))
    BY DEF AcceptedAt
  <2>2. Concluded(k)'
    BY <1>1, <2>1, ConcludedStays
  <2>3. ASSUME lease'[k] # NoLease
        PROVE  settled'[k].agent = lease'[k].agent /\ settled'[k].epoch = lease'[k].epoch
    <3>1. ~Claim(k)
      BY <2>1 DEF Claim, At, Concluded
    <3>2. Held(k)
      BY <1>2, <2>3, <3>1, ClaimedOnly
    <3>3. lease'[k].agent = lease[k].agent /\ lease'[k].epoch = lease[k].epoch
      BY <1>1, <1>2, <2>3, <3>1, NextKeeps DEF KeepsOn, CarriesOn, Taken, ResultAt
    <3> QED
      BY <1>2, <2>1, <3>2, <3>3 DEF Decided
  <2> QED
    BY <2>2, <2>3 DEF AcceptedAt, Held, Decided
<1>3. CASE settled'[k] = NoSettled
  BY <1>3 DEF NoSettled, AcceptedAt
<1>4. CASE /\ RunnerStep(k) /\ lease[k].result /\ UNCHANGED lease
           /\ runner'[k].pc = "ending"
           /\ \E accepted \in BOOLEAN :
                /\ Verdict(k, accepted) /\ (accepted => Registered(k))
                /\ settled'[k] =
                     [epoch |-> lease[k].epoch, agent |-> lease[k].agent,
                      accepted |-> accepted, last |-> lease[k].next - 1]
  <2>1. settled'[k].accepted => Concluded(k)'
    BY <1>1, <1>4, RegisteredConcludes
  <2>2. settled'[k].agent = lease'[k].agent /\ settled'[k].epoch = lease'[k].epoch
    BY <1>4 DEF Decided
  <2> QED
    BY <2>1, <2>2 DEF AcceptedAt, Decided
<1>5. Restart => settled'[k] = NoSettled
  BY DEF Restart
<1> QED
  BY <1>1, <1>2, <1>3, <1>4, <1>5, NextSettles

-----------------------------------------------------------------------------
\* What a verdict says stays so until it is read.

\* No runner goes on with a job that is over, or that is settled, but to end
\* its lease.
LEMMA EndingRests ==
    ASSUME LifeInv, NEW k \in Job, RunnerStep(k),
           Concluded(k) \/ runner[k].pc = "ending"
    PROVE  EndLease(k) /\ UNCHANGED settled
<1>1. TypeOK
  BY DEF LifeInv, FenceInv
<1>2. CASE runner[k].pc = "gone"
  BY <1>2 DEF RunnerStep, Start, Claim, GiveUp, SaveLeased, RunOrphan,
     OnFeatures, OnResult, Publish, Registered, OnError, OnRelease,
     NoticeCancel, LetLeaseGo, FindExpired, EndLease, StoreRequeue,
     RunnerPanics, At, Received
<1>3. CASE runner[k].pc = "ending"
  BY <1>1, <1>3, EndingEnds DEF EndLease
<1> QED
  BY <1>2, <1>3 DEF Concluded

\* The lease of an accepted result is that of its agent, as long as it is held.
LEMMA AcceptedStays ==
    ASSUME ClaimBase, [Next]_vars, NEW a \in Agent, NEW j \in Job, NEW e \in Nat,
           ResultAt(j), Concluded(j), Held(j) => Decided(a, j, e)
    PROVE  Held(j)' => Decided(a, j, e)'
<1>1. LifeInv /\ HolderInv /\ TypeOK
  BY DEF ClaimBase, LifeInv, FenceInv
<1>2. CASE Restart
  <2>1. row[j].status \notin Holding
    BY DEF Concluded, IsLive, Live, Holding
  <2>2. lease'[j] = NoLease
    BY <1>2, <2>1, RestartParts
  <2> QED
    BY <2>2 DEF Held
<1>3. CASE ~Restart
  <2>1. ~Claim(j)
    BY DEF Claim, At, Concluded
  <2>2. Held(j)' => Held(j)
    BY <1>3, <2>1, ClaimedOnly DEF Held
  <2>3. settled'[j] = settled[j]
    BY <1>1, <1>3, NextSettles, EndingRests
  <2> QED
    BY <2>2, <2>3 DEF Decided
<1> QED
  BY <1>2, <1>3

\* Nor does the hub take a result it has refused.
LEMMA BarredStays ==
    ASSUME ClaimBase, [Next]_vars, NEW a \in Agent, NEW j \in Job, NEW e \in Nat,
           ResultAt(j), SealAt(a, j, e), agent[a].link # NoConn, Issued(j, e),
           Leased(a, j, e) /\ ~Decided(a, j, e) => Barred(j),
           Leased(a, j, e)', ~Decided(a, j, e)'
    PROVE  Barred(j)'
<1>1. /\ LifeInv /\ HolderInv /\ TypeOK
      /\ lease \in [Job -> LeaseRec] /\ lease[j] \in LeaseRec
  BY DEF ClaimBase, LifeInv, FenceInv, TypeOK
<1>2. CASE Restart
  <2>1. \/ lease'[j] = NewLease(NoConn, row[j].holder, row[j].epoch)
        \/ lease'[j] = NoLease
    BY <1>2, RestartParts
  <2> QED
    BY <2>1 DEF NewLease, NoLease, Barred
<1>3. lease'[j] # NoLease
  BY NoLeaseIs, StoreAssumption DEF Leased
<1>4. ~Claim(j)
  <2> SUFFICES ASSUME Claim(j) PROVE FALSE
    OBVIOUS
  <2>1. PICK c \in Conn :
          lease' = [lease EXCEPT ![j] = NewLease(c, conn[c].agent, runner[j].epoch)]
    BY DEF Claim
  <2>2. lease'[j].epoch = runner[j].epoch
    BY <1>1, <2>1 DEF NewLease
  <2>3. runner[j].pc = "claiming" /\ runner[j].epoch = row[j].epoch
    BY <1>1 DEF Claim, At, LifeInv, FenceInv, EpochsGiven, Attempted
  <2> QED
    BY <2>2, <2>3 DEF Leased, Issued
<1>5. Leased(a, j, e) /\ ~Restart => Barred(j)
  <2>1. Leased(a, j, e) /\ ~Restart => ~Decided(a, j, e)
    <3> SUFFICES ASSUME Leased(a, j, e), ~Restart, Decided(a, j, e)
                 PROVE  FALSE
      OBVIOUS
    <3>1. runner[j].pc = "ending"
      BY DEF SealAt, Parting
    <3>2. settled'[j] = settled[j]
      BY <1>1, <3>1, NextSettles, EndingRests
    <3> QED
      BY <3>2 DEF Decided
  <2> QED
    BY <2>1
<1>6. CASE KeepsOn(lease[j], lease'[j]) /\ ~Restart
  BY <1>5, <1>6 DEF KeepsOn, Leased, Barred
<1>7. CASE Connect(lease[j].agent) /\ CarriesOn(lease[j], lease'[j])
  BY <1>7 DEF Connect, CarriesOn, Leased
<1>8. CASE \E c \in Conn : Taken(c, j) /\ ~Restart
  <2>1. PICK c \in Conn : Taken(c, j)
    BY <1>8
  <2>2. Leased(a, j, e) /\ c # NoConn
    BY <2>1 DEF Taken, Leased
  <2> QED
    BY <1>5, <1>8, <2>1, <2>2 DEF Taken, Barred
<1> QED
  BY <1>1, <1>2, <1>3, <1>4, <1>6, <1>7, <1>8, NextKeeps DEF ResultAt

\* A verdict that is true stays true while its agent has yet to read it.
LEMMA HonestStays ==
    ASSUME ClaimBase, ClaimBase', [Next]_vars, NEW a \in Agent, NEW j \in Job,
           NEW e \in Nat, NEW why \in {"accepted", "rejected"},
           ResultAt(j), SealAt(a, j, e), agent[a].link # NoConn,
           Honest(a, j, e, why)
    PROVE  Honest(a, j, e, why)'
<1>1. LifeInv /\ HolderInv
  BY DEF ClaimBase
<1>2. Issued(j, e) /\ Issued(j, e)'
  BY IssuedOn DEF Honest
<1>3. ASSUME why = "accepted"
      PROVE  Concluded(j)' /\ (Held(j)' => Decided(a, j, e)')
  BY <1>1, <1>3, ConcludedStays, AcceptedStays DEF Honest
<1>4. ASSUME why = "rejected", Leased(a, j, e)', ~Decided(a, j, e)'
      PROVE  Barred(j)'
  BY <1>2, <1>4, BarredStays DEF Honest
<1>5. ASSUME Decided(a, j, e)'
      PROVE  settled'[j].accepted <=> why = "accepted"
  <2>1. CASE settled'[j] = settled[j]
    BY <1>5, <2>1 DEF Honest, Decided
  <2>2. CASE settled'[j] = NoSettled
    BY <1>5, <2>2, StoreAssumption DEF NoSettled, Decided
  <2>3. CASE /\ settled'[j] # settled[j]
             /\ RunnerStep(j) /\ lease[j].result /\ UNCHANGED lease
             /\ \E accepted \in BOOLEAN :
                  settled'[j] =
                    [epoch |-> lease[j].epoch, agent |-> lease[j].agent,
                     accepted |-> accepted, last |-> lease[j].next - 1]
    <3>1. ~Concluded(j) /\ runner[j].pc # "ending"
      BY <1>1, <2>3, EndingRests
    <3>2. Leased(a, j, e)
      BY <1>5, <2>3 DEF Decided, Leased
    <3>3. ~Decided(a, j, e)
      BY <3>1, <3>2 DEF SealAt, Parting
    <3>4. ~Barred(j)
      BY <2>3 DEF Barred
    <3> QED
      BY <3>1, <3>2, <3>3, <3>4 DEF Honest
  <2> QED
    BY <1>1, <2>1, <2>2, <2>3, NextSettles
<1> QED
  BY <1>2, <1>3, <1>4, <1>5 DEF Honest

-----------------------------------------------------------------------------
\* Who tells an agent a verdict.

\* What agent a may read of verdicts, it might read before.
Untold(a) ==
    LET c == agent[a].link
        d == agent'[a].link
    IN  d # NoConn =>
          /\ c # NoConn
          /\ \A j, e, why : Has(down'[d], Verdicts(j, e, why))
                            => Has(down[c], Verdicts(j, e, why))

\* What is not sent is not new.
LEMMA UntoldAnswers ==
    ASSUME NEW a \in Agent, Untold(a), NEW j, NEW e, NEW why, Answer(a, j, e, why)'
    PROVE  Answer(a, j, e, why)
BY DEF Untold, Answer

\* An agent's own steps but for its dialling.
LEMMA AgentsUntold ==
    ASSUME TypeOK, LinkInv, TidyInv, \A b \in Agent : Orderly(agent[b]),
           NEW b \in Agent, AgentStep(b), ~Connect(b), NEW a \in Agent
    PROVE  Untold(a)
<1>1. /\ agent[a] \in AgentRec /\ agent[b] \in AgentRec
      /\ agent[a].link \in Conn \cup {NoConn} /\ agent[b].link \in Conn \cup {NoConn}
      /\ \A c \in Conn : down[c] \in Seq(OrderRec)
      /\ agent[a].link # NoConn /\ agent[a].link = agent[b].link => a = b
  BY DEF TypeOK, AgentRec, LinkInv, LinksDiffer
<1>2. ASSUME agent'[a].link = agent[a].link, UNCHANGED down
      PROVE  Untold(a)
  BY <1>2 DEF Untold
<1>3. CASE AgentTurn(b)
  <2>1. /\ \E q \in Seq(FrameRec) : Writes(b, q)
        /\ \A d \in Agent \ {b} : agent'[d] = agent[d]
        /\ \/ UNCHANGED down
           \/ /\ agent[b].link # NoConn /\ down[agent[b].link] # <<>>
              /\ down' = [down EXCEPT ![agent[b].link] = Tail(@)]
    BY <1>3, TurnsWrite DEF TidyInv
  <2>2. agent'[a].link = agent[a].link
    BY <2>1 DEF Writes
  <2>3. CASE UNCHANGED down
    BY <1>2, <2>2, <2>3
  <2>4. CASE /\ agent[b].link # NoConn /\ down[agent[b].link] # <<>>
             /\ down' = [down EXCEPT ![agent[b].link] = Tail(@)]
    <3> DEFINE c == agent[a].link
    <3> HIDE DEF c
    <3>1. SUFFICES ASSUME c # NoConn, NEW S
                   PROVE  Has(down'[c], S) => Has(down[c], S)
      BY <2>2 DEF Untold, c
    <3>2. c \in Conn /\ down[c] \in Seq(OrderRec)
      BY <1>1, <3>1 DEF c
    <3>3. down'[c] = down[c] \/ (down[c] # <<>> /\ down'[c] = Tail(down[c]))
      BY <1>1, <2>4, <3>2 DEF TypeOK
    <3>4. down[c] # <<>> => (Has(Tail(down[c]), S) => Has(down[c], S))
      BY <3>2, FewTails
    <3> QED
      BY <3>3, <3>4
  <2> QED
    BY <2>1, <2>3, <2>4
<1>4. CASE Upload(b)
  <2>1. PICK how : agent' = [agent EXCEPT ![b] = [agent[b] EXCEPT !.cur.up = how]]
    BY <1>4, UploadLinks
  <2>2. [agent[b] EXCEPT !.cur.up = how].link = agent[b].link
    BY <1>1, Zenon DEF AgentRec
  <2>3. agent'[a].link = agent[a].link
    BY <2>1, <2>2 DEF TypeOK
  <2> QED
    BY <1>2, <1>4, <2>3 DEF Upload
<1>5. CASE Heartbeat(b)
  BY <1>2, <1>5 DEF Heartbeat
<1>6. CASE Disconnect(b) \/ AgentCrash(b)
  <2>1. PICK t : agent' = [agent EXCEPT ![b] = t] /\ t.link = NoConn
    BY <1>6, DisconnectLinks
  <2>2. down' = [c \in Conn |-> IF c = agent[b].link THEN <<>> ELSE down[c]]
    BY <1>6, DisconnectLinks
  <2>3. agent'[a] = IF a = b THEN t ELSE agent[a]
    BY <2>1 DEF TypeOK
  <2> DEFINE c == agent[a].link
  <2> HIDE DEF c
  <2>4. agent'[a].link # NoConn => a # b /\ agent'[a].link = c /\ c \in Conn
    BY <1>1, <2>1, <2>3 DEF c
  <2>5. agent'[a].link # NoConn => down'[c] = down[c]
    BY <1>1, <2>2, <2>4 DEF c
  <2> QED
    BY <2>4, <2>5 DEF Untold, c
<1> QED
  BY <1>3, <1>4, <1>5, <1>6 DEF AgentStep, AgentTurn

\* What the hub sends on one channel.
LEMMA SentTells ==
    ASSUME TypeOK, LinkInv, UNCHANGED agent, NEW c, NEW m, down' = Sent(c, m),
           NEW a \in Agent, NEW j, NEW e, NEW why,
           Answer(a, j, e, why)', ~Answer(a, j, e, why)
    PROVE  /\ m \in Verdicts(j, e, why) /\ agent[a].link = c
           /\ c \in Conn /\ Open(c) /\ conn[c].agent = a
<1> DEFINE k == agent[a].link
           S == Verdicts(j, e, why)
<1>1. k # NoConn /\ k \in Conn /\ down[k] \in Seq(OrderRec) /\ LinkAt(a)
  BY DEF TypeOK, AgentRec, Answer, LinkInv
<1>2. Has(down'[k], S) /\ ~Has(down[k], S)
  BY DEF Answer
<1> HIDE DEF k, S
<1>3. down'[k] # down[k]
  BY <1>2
<1>4. c = k /\ Listening(c) /\ down'[k] = Append(down[k], m)
  BY <1>1, <1>3 DEF Sent, TypeOK
<1>5. m \in S
  <2> DEFINE T == OrderRec \cup {m}
             q == down[k]
  <2>1. q \in Seq(T) /\ m \in T
    BY <1>1, SeqGrows
  <2> HIDE DEF T, q
  <2>2. Has(Append(q, m), S) => Has(q, S) \/ m \in S
    BY <2>1, FewAppends
  <2> QED
    BY <1>2, <1>4, <2>2 DEF q
<1>6. Open(c) /\ c \in Conn
  BY <1>1, <1>4 DEF Listening
<1>7. conn[c].agent = a
  BY <1>1, <1>4, <1>6 DEF LinkAt, k
<1> QED
  BY <1>4, <1>5, <1>6, <1>7 DEF S, k

\* A verdict is of its attempt and says what it was given.
LEMMA VerdictsSay ==
    ASSUME NEW i, NEW d, NEW accepted \in BOOLEAN, NEW j, NEW e, NEW why,
           VerdictOrder(i, d, accepted) \in Verdicts(j, e, why)
    PROVE  i = j /\ d = e /\ (accepted <=> why = "accepted")
BY DEF Verdicts, VerdictOrder, Order

\* The runners' orders.
OrdersOf(i) ==
    /\ UNCHANGED agent
    /\ \/ UNCHANGED down
       \/ \E c, m : m.type # "verdict" /\ down' = Sent(c, m)
       \/ \E accepted \in BOOLEAN :
            Verdict(i, accepted) /\ (accepted => Registered(i))

\* What each step of a runner sends.
LEMMA RunnersOrder ==
    ASSUME NEW i \in Job, RunnerStep(i)
    PROVE  OrdersOf(i)
<1>1. /\ \A j, e, why : CancelOrder(j, e, why).type # "verdict"
      /\ \A j, e : Order("assign", j, e, "none", 0).type # "verdict"
      /\ CloseOrder.type # "verdict"
  BY DEF CancelOrder, CloseOrder, Order
<1>2. CASE Claim(i)
  BY <1>1, <1>2 DEF OrdersOf, Claim
<1>3. CASE RunOrphan(i)
  BY <1>1, <1>3 DEF OrdersOf, RunOrphan
<1>4. CASE OnFeatures(i)
  BY <1>1, <1>4 DEF OrdersOf, OnFeatures, hub
<1>5. CASE OnResult(i)
  BY <1>5 DEF OrdersOf, OnResult, Registers
<1>6. CASE Publish(i)
  BY <1>6 DEF OrdersOf, Publish
<1>7. CASE Registered(i)
  BY <1>7 DEF OrdersOf, Registered
<1>8. CASE NoticeCancel(i)
  BY <1>1, <1>8 DEF OrdersOf, NoticeCancel
<1>9. CASE EndLease(i)
  BY <1>1, <1>9 DEF OrdersOf, EndLease
<1>10. CASE RunnerPanics(i)
  BY <1>1, <1>10 DEF OrdersOf, RunnerPanics
<1>11. CASE Start(i) \/ GiveUp(i) \/ SaveLeased(i) \/ OnError(i) \/ OnRelease(i)
            \/ LetLeaseGo(i) \/ FindExpired(i) \/ StoreRequeue(i)
  BY <1>11 DEF OrdersOf, Start, GiveUp, SaveLeased, OnError, OnRelease, LetLeaseGo,
     FindExpired, StoreRequeue
<1> QED
  BY <1>2, <1>3, <1>4, <1>5, <1>6, <1>7, <1>8, <1>9, <1>10, <1>11 DEF RunnerStep

\* What is said around: nothing but that the master stops.
LEMMA AroundUntold ==
    ASSUME TypeOK, UNCHANGED vars \/ Stop \/ Restart
                   \/ \E j \in Job : Expire(j) \/ UserCancel(j),
           NEW a \in Agent
    PROVE  Untold(a)
<1>1. UNCHANGED agent
  BY DEF vars, Stop, Restart, Expire, UserCancel
<1>2. CASE UNCHANGED down
  BY <1>1, <1>2 DEF Untold
<1>3. CASE Stop
  <2> DEFINE c == agent[a].link
  <2> HIDE DEF c
  <2>1. SUFFICES ASSUME c # NoConn, NEW j, NEW e, NEW why
                 PROVE  Has(down'[c], Verdicts(j, e, why))
                        => Has(down[c], Verdicts(j, e, why))
    BY <1>1 DEF Untold, c
  <2>2. c \in Conn /\ down[c] \in Seq(OrderRec)
    BY <2>1 DEF TypeOK, AgentRec, c
  <2>3. down'[c] = down[c] \/ down'[c] = Append(down[c], CloseOrder)
    BY <1>3, <2>2 DEF Stop
  <2>4. CloseOrder \in OrderRec /\ CloseOrder \notin Verdicts(j, e, why)
    BY DEF OrderRec, CloseOrder, Order, Verdicts
  <2> DEFINE S == Verdicts(j, e, why)
             q == down[c]
             m == CloseOrder
  <2> HIDE DEF S, q, m
  <2>5. Has(Append(q, m), S) => Has(q, S) \/ m \in S
    BY <2>2, <2>4, FewAppends DEF q, m
  <2> QED
    BY <2>3, <2>4, <2>5 DEF q, m, S
<1> QED
  BY <1>2, <1>3 DEF vars, Restart, Expire, UserCancel

-----------------------------------------------------------------------------
\* What is told anew is so.

\* The runner tells what it has settled.
LEMMA RunnerHonest ==
    ASSUME AttemptInv, ClaimBase', ChannelInv, NEW i \in Job, RunnerStep(i),
           NEW a \in Agent, NEW j \in Job, NEW e \in Nat,
           NEW why \in {"accepted", "rejected"},
           Answer(a, j, e, why)', ~Answer(a, j, e, why)
    PROVE  Honest(a, j, e, why)'
<1>1. ClaimBase /\ LifeInv /\ TypeOK /\ LinkInv /\ ClaimsInv /\ [Next]_vars
  BY DEF AttemptInv, ClaimBase, LifeInv, FenceInv, Next
<1>2. OrdersOf(i)
  BY RunnersOrder
<1>3. UNCHANGED agent
  BY <1>2 DEF OrdersOf
<1>4. CASE UNCHANGED down
  BY <1>3, <1>4 DEF Answer
<1>5. CASE \E c, m : m.type # "verdict" /\ down' = Sent(c, m)
  <2>1. PICK c, m : m.type # "verdict" /\ down' = Sent(c, m)
    BY <1>5
  <2>2. m \in Verdicts(j, e, why)
    BY <1>1, <1>3, <2>1, SentTells
  <2> QED
    BY <2>1, <2>2 DEF Verdicts
<1>6. CASE \E accepted \in BOOLEAN : Verdict(i, accepted) /\ (accepted => Registered(i))
  <2>1. PICK accepted \in BOOLEAN : Verdict(i, accepted) /\ (accepted => Registered(i))
    BY <1>6
  <2> DEFINE c == lease[i].conn
             m == VerdictOrder(i, lease[i].epoch, accepted)
  <2>2. /\ m \in Verdicts(j, e, why) /\ c \in Conn /\ Open(c) /\ conn[c].agent = a
    <3>1. down' = Sent(c, m)
      BY <2>1 DEF Verdict
    <3> HIDE DEF c, m
    <3> QED
      BY <1>1, <1>3, <3>1, SentTells
  <2>3. i = j /\ lease[i].epoch = e /\ (accepted <=> why = "accepted")
    BY <2>2, VerdictsSay
  <2>4. lease[j].agent = a
    <3>1. c # NoConn
      BY <2>2, LeaseAssumption
    <3> QED
      BY <2>2, <2>3, <3>1 DEF ChannelInv, Attached
  <2>5. settled'[j] = [epoch |-> e, agent |-> a, accepted |-> accepted,
                       last |-> lease[j].next - 1]
    BY <1>1, <2>1, <2>3, <2>4 DEF Verdict, TypeOK
  <2>6. Decided(a, j, e)' /\ (settled'[j].accepted <=> why = "accepted")
    BY <2>3, <2>5 DEF Decided
  <2>7. Issued(j, e)'
    <3>1. Claims(a, j, e)
      BY <2>3, <2>4 DEF Claims, Names
    <3> QED
      BY <1>1, <3>1, IssuedOn DEF ClaimsInv
  <2>8. why = "accepted" => Concluded(j)'
    BY <1>1, <2>1, <2>3, RegisteredConcludes
  <2> QED
    BY <2>6, <2>7, <2>8 DEF Honest
<1> QED
  BY <1>2, <1>4, <1>5, <1>6 DEF OrdersOf

\* A result that is not the lease's is answered as its attempt was settled,
\* or refused.
LEMMA StaleHonest ==
    ASSUME AttemptInv, ClaimBase', JobInv, SealInv, NEW c \in Conn, OnStaleEvent(c),
           NEW a \in Agent, NEW j \in Job, NEW e \in Nat,
           NEW why \in {"accepted", "rejected"},
           Answer(a, j, e, why)', ~Answer(a, j, e, why)
    PROVE  Honest(a, j, e, why)'
<1> DEFINE f == Head(up[c])
           b == ~Held(f.job) /\ SettledTo(c, f)
           m == VerdictOrder(f.job, f.epoch, b /\ settled[f.job].accepted)
<1>1. /\ ClaimBase /\ TypeOK /\ LinkInv /\ SpokenIn(Words) /\ [Next]_vars
      /\ ResultAt(j) /\ AcceptedAt(j) /\ SealAt(a, j, e)
  BY DEF AttemptInv, ClaimBase, LifeInv, FenceInv, Next, ChannelStep, WordsInv,
     JobInv, SealInv
<1>2. /\ UNCHANGED <<row, runner, published, lease, settled, agent>>
      /\ f \in FrameRec /\ f.type = "event" /\ ~Current(c, f)
      /\ up[c] \in Seq(FrameRec) /\ up[c] # <<>>
  BY <1>1, GetsTyped DEF OnStaleEvent, jobs, hub, Gets, TypeOK
<1>3. f.job \in Job /\ f.epoch \in Nat
  BY <1>2, FrameKinds
<1>4. f.ev = "result" /\ down' = Sent(c, m)
  BY <1>2 DEF OnStaleEvent, Again, Answer
<1>5. (b /\ settled[f.job].accepted) \in BOOLEAN
  BY <1>1, <1>3 DEF TypeOK, SettledRec
<1> HIDE DEF f
<1>6. /\ m \in Verdicts(j, e, why) /\ agent[a].link = c /\ Open(c)
      /\ conn[c].agent = a
  <2> HIDE DEF m
  <2> QED
    BY <1>1, <1>2, <1>4, SentTells
<1>7. /\ f.job = j /\ f.epoch = e
      /\ b /\ settled[j].accepted <=> why = "accepted"
  <2> HIDE DEF b
  <2>1. /\ f.job = j /\ f.epoch = e
        /\ b /\ settled[f.job].accepted <=> why = "accepted"
    BY <1>5, <1>6, VerdictsSay
  <2> QED
    BY <2>1
<1>8. Has(up[c], Results(j, e)) /\ c # NoConn
  <2>1. f \in Results(j, e)
    BY <1>2, <1>4, <1>7 DEF Results, OfAttempt
  <2> DEFINE q == up[c]
  <2>2. q \in Seq(FrameRec) /\ q # <<>> /\ Head(q) \in Results(j, e)
    BY <1>2, <2>1 DEF f
  <2> HIDE DEF q
  <2>3. Has(q, Results(j, e))
    BY <2>2, FewTails
  <2> QED
    BY <2>3, LeaseAssumption DEF q
<1>9. Issued(j, e) /\ Issued(j, e)'
  <2>1. ~Silent(up[c], j, e)
    BY <1>8 DEF Has, Silent, Results
  <2>2. Issued(j, e)
    BY <1>1, <2>1, UnissuedSilent
  <2> QED
    BY <1>1, <2>2, IssuedOn
\* Still the lease's attempt, it was found expired.
<1>10. Leased(a, j, e) => /\ lease[j].time = "lost" /\ ~lease[j].result
                          /\ ~Decided(a, j, e)
  <2> SUFFICES ASSUME Leased(a, j, e)
               PROVE  /\ lease[j].time = "lost" /\ ~lease[j].result
                      /\ ~Decided(a, j, e)
    OBVIOUS
  <2>1. lease[j].conn = c
    BY <1>1, <1>6, <1>8 DEF SealAt, Followed
  <2>2. ~lease[j].result
    BY <1>1, <1>8, <2>1 DEF SealAt, Single
  <2>3. lease[j].time = "lost"
    BY <1>2, <1>7, <2>1 DEF Current, Leased
  <2> QED
    BY <1>1, <2>2, <2>3 DEF SealAt, Parting
<1>11. ASSUME Decided(a, j, e)
       PROVE  settled[j].accepted <=> why = "accepted"
  <2>1. b <=> ~Held(j)
    BY <1>6, <1>7, <1>11 DEF SettledTo, Decided
  <2>2. Held(j) => ~settled[j].accepted
    <3> SUFFICES ASSUME Held(j), settled[j].accepted PROVE FALSE
      OBVIOUS
    <3>1. Decided(lease[j].agent, j, lease[j].epoch)
      BY <1>1 DEF AcceptedAt
    <3>2. Leased(a, j, e)
      BY <1>11, <3>1 DEF Decided, Leased
    <3> QED
      BY <1>10, <1>11, <3>2
  <2> HIDE DEF b
  <2> QED
    BY <1>7, <2>1, <2>2
<1>12. ASSUME why = "accepted"
       PROVE  Concluded(j) /\ ~Held(j)
  BY <1>1, <1>7, <1>12 DEF AcceptedAt
<1>13. Honest(a, j, e, why)
  BY <1>9, <1>10, <1>11, <1>12 DEF Honest, Barred
<1>14. agent[a].link # NoConn
  BY <1>6, <1>8
<1> QED
  BY <1>1, <1>13, <1>14, HonestStays

-----------------------------------------------------------------------------

\* A result the lease takes no more, it refuses.
LEMMA EventHonest ==
    ASSUME AttemptInv, ClaimBase', ChannelInv, JobInv, SealInv,
           NEW c \in Conn, OnNextEvent(c),
           NEW a \in Agent, NEW j \in Job, NEW e \in Nat,
           NEW why \in {"accepted", "rejected"},
           Answer(a, j, e, why)', ~Answer(a, j, e, why)
    PROVE  Honest(a, j, e, why)'
<1> DEFINE f == Head(up[c])
           l == lease[f.job]
           ends == f.ev \in Terminal
           r == [l EXCEPT !.next = @ + 1, !.time = "live",
                          !.finished = @ \/ ends]
           x == [r EXCEPT !.finished = TRUE]
<1>1. /\ ClaimBase /\ TypeOK /\ LinkInv /\ ClaimsInv /\ [Next]_vars
      /\ SealAt(a, j, e)
  BY DEF AttemptInv, ClaimBase, LifeInv, FenceInv, Next, ChannelStep, SealInv
<1>2. /\ UNCHANGED <<settled, agent>>
      /\ f \in FrameRec /\ f.type = "event" /\ Current(c, f)
      /\ up[c] \in Seq(FrameRec) /\ up[c] # <<>>
  BY <1>1, GetsTyped DEF OnNextEvent, Gets, TypeOK
<1>3. f.job \in Job /\ f.epoch \in Nat /\ l \in LeaseRec
  BY <1>1, <1>2, FrameKinds DEF TypeOK
<1>4. ~UNCHANGED down
  BY <1>2 DEF Answer
<1>5. /\ r.result = l.result /\ r.cancelled = l.cancelled
      /\ x.result = l.result /\ x.finished
  BY <1>3 DEF LeaseRec
<1>6. PICK b \in BOOLEAN :
        /\ f.ev = "result"
        /\ down' = Sent(c, VerdictOrder(f.job, f.epoch, b))
        /\ ~l.result => b = FALSE
        /\ \/ lease' = [lease EXCEPT ![f.job] = x]
           \/ l.cancelled /\ lease' = [lease EXCEPT ![f.job] = r]
  <2>1. settled[f.job].accepted \in BOOLEAN /\ l.result \in BOOLEAN
    BY <1>1, <1>3 DEF TypeOK, SettledRec, LeaseRec
  <2>2. \/ /\ lease' = [lease EXCEPT ![f.job] = x]
           /\ down' = Again(c, f, l.result)
        \/ /\ l.cancelled /\ lease' = [lease EXCEPT ![f.job] = r]
           /\ down' = Again(c, f, FALSE)
    <3> HIDE DEF f
    <3> QED
      BY <1>4 DEF OnNextEvent, f
  <2> HIDE DEF f, l, r, x
  <2>3. CASE /\ lease' = [lease EXCEPT ![f.job] = x]
             /\ down' = Again(c, f, l.result)
    <3> DEFINE b == l.result /\ settled[f.job].accepted
    <3>1. f.ev = "result" /\ down' = Sent(c, VerdictOrder(f.job, f.epoch, b))
      BY <1>4, <2>3 DEF Again
    <3>2. b \in BOOLEAN /\ (~l.result => b = FALSE)
      BY <2>1
    <3> HIDE DEF b
    <3> QED
      BY <2>3, <3>1, <3>2
  <2>4. CASE /\ l.cancelled /\ lease' = [lease EXCEPT ![f.job] = r]
             /\ down' = Again(c, f, FALSE)
    <3>1. (FALSE /\ settled[f.job].accepted) = FALSE
      OBVIOUS
    <3>2. f.ev = "result" /\ down' = Sent(c, VerdictOrder(f.job, f.epoch, FALSE))
      BY <1>4, <2>4, <3>1 DEF Again
    <3> QED
      BY <2>4, <3>2
  <2> QED
    BY <2>2, <2>3, <2>4
<1> HIDE DEF f, r, x
<1> DEFINE m == VerdictOrder(f.job, f.epoch, b)
<1>7. /\ m \in Verdicts(j, e, why) /\ agent[a].link = c /\ Open(c)
      /\ conn[c].agent = a
  <2>1. down' = Sent(c, m)
    BY <1>6
  <2> HIDE DEF m
  <2> QED
    BY <1>1, <1>2, <2>1, SentTells
<1>8. /\ f.job = j /\ f.epoch = e /\ (b <=> why = "accepted")
  BY <1>6, <1>7, VerdictsSay
<1>9. Has(up[c], Results(j, e)) /\ c # NoConn
  <2>1. f \in Results(j, e)
    BY <1>2, <1>6, <1>8 DEF Results, OfAttempt
  <2> DEFINE q == up[c]
  <2>2. q \in Seq(FrameRec) /\ q # <<>> /\ Head(q) \in Results(j, e)
    BY <1>2, <2>1 DEF f
  <2> HIDE DEF q
  <2>3. Has(q, Results(j, e))
    BY <2>2, FewTails
  <2> QED
    BY <2>3, LeaseAssumption DEF q
<1>10. l.conn = c /\ Leased(a, j, e)
  BY <1>2, <1>7, <1>8, <1>9 DEF Current, ChannelInv, Attached, Leased
<1>11. ~l.result /\ ~Decided(a, j, e)
  BY <1>1, <1>8, <1>9, <1>10 DEF SealAt, Single, Parting
<1>12. why = "rejected"
  BY <1>6, <1>8, <1>11
<1>13. Barred(j)'
  <2>1. lease'[j] = x \/ (l.cancelled /\ lease'[j] = r)
    BY <1>1, <1>3, <1>6, <1>8 DEF TypeOK
  <2> HIDE DEF l
  <2> QED
    BY <1>5, <1>11, <2>1 DEF Barred
<1>14. Issued(j, e)'
  <2>1. Claims(a, j, e)
    BY <1>10 DEF Claims, Names, Leased
  <2> QED
    BY <1>1, <2>1, IssuedOn DEF ClaimsInv
<1>15. ~Decided(a, j, e)'
  BY <1>2, <1>11 DEF Decided
<1> QED
  BY <1>12, <1>13, <1>14, <1>15 DEF Honest

\* An agent that dials with an attempt that was settled is told how.
LEMMA ConnectHonest ==
    ASSUME AttemptInv, ClaimBase', ChannelInv, EventInv, JobInv,
           NEW b \in Agent, Connect(b),
           NEW a \in Agent, NEW j \in Job, NEW e \in Nat,
           NEW why \in {"accepted", "rejected"},
           Answer(a, j, e, why)', ~Answer(a, j, e, why)
    PROVE  Honest(a, j, e, why)'
<1>1. /\ ClaimBase /\ LifeInv /\ HolderInv /\ TypeOK /\ LinkInv /\ [Next]_vars
      /\ CancelInv /\ OnceInv /\ LeanInv /\ FirstInv /\ BookInv
      /\ ResultAt(j) /\ AcceptedAt(j) /\ AcceptedAt(j)'
  <2>1. ClaimBase /\ [Next]_vars /\ ResultAt(j) /\ AcceptedAt(j)
    BY DEF AttemptInv, Next, AgentStep, JobInv
  <2>2. AcceptedAt(j)'
    BY <2>1, NextAccepts
  <2> QED
    BY <2>1, <2>2 DEF ClaimBase, LifeInv, FenceInv, EventInv
<1>2. PICK t \in AgentRec, acked \in Int : \E answer, old, told :
        Resumed(b, t, acked, answer, old, told)
  BY <1>1, ConnectParts
<1>3. PICK answer, old, told : Resumed(b, t, acked, answer, old, told)
  BY <1>2
<1> DEFINE s == agent[b]
           i == s.cur.job
           c == nextConn
           m == VerdictOrder(i, s.cur.epoch, settled[i].accepted)
<1>4. /\ \A k \in Conn \ {c} : down'[k] = down[k]
      /\ c \in Conn /\ down[c] = <<>>
      /\ \A d \in Agent \ {b} : agent'[d] = agent[d]
  BY <1>1, <1>3, ConnectOutside
<1>5. /\ s.link = NoConn /\ UNCHANGED settled
      /\ \/ UNCHANGED <<agent, down>>
         \/ answer = "settled" /\ down' = [down EXCEPT ![c] = <<m>>]
         \/ answer # "settled" /\ down' = down
      /\ answer = "settled" =>
           /\ Runs(s) /\ i \in Job /\ s.cur.epoch \in Nat
           /\ answer = ResumeAnswer(b, i, s.cur.epoch, Detached(Evicted(b))[i])
  BY <1>3 DEF Resumed
<1>6. agent[a].link # NoConn => agent[a].link \in Conn \ {c}
  <2>1. LinkAt(a) /\ agent[a].link \in Conn \cup {NoConn} /\ nextConn \in Nat
    BY <1>1 DEF LinkInv, TypeOK, AgentRec
  <2> QED
    BY <2>1 DEF LinkAt
<1>7. a = b
  <2> SUFFICES ASSUME a # b PROVE FALSE
    OBVIOUS
  <2>1. agent'[a] = agent[a]
    BY <1>4
  <2> DEFINE k == agent[a].link
  <2> HIDE DEF k, c
  <2>2. k # NoConn => down'[k] = down[k]
    BY <1>4, <1>6 DEF k
  <2>3. agent'[a].link = k
    BY <2>1 DEF k
  <2> QED
    BY <2>2, <2>3 DEF Answer, k
<1>8. agent'[a].link \in Conn /\ Has(down'[agent'[a].link], Verdicts(j, e, why))
  <2>1. agent'[a].link \in Conn \cup {NoConn}
    BY DEF ClaimBase, LifeInv, FenceInv, TypeOK, AgentRec
  <2> QED
    BY <2>1 DEF Answer
<1>9. agent'[a].link = c
  <2> DEFINE u == AfterFlush(t)
  <2>1. agent' = [agent EXCEPT ![b] = u] \/ UNCHANGED agent
    BY <1>3 DEF Resumed
  <2>2. u.link = c
    <3>1. /\ t = Welcomed(s, c, told, acked) /\ s \in AgentRec /\ Orderly(s) /\ Sound(s)
          /\ told \in {"none", "continue", "lease_lost", "cancelled", "reroute"}
          /\ told = "none" => ~Runs(s)
      BY <1>1, <1>3 DEF Resumed, ChannelInv, LinkInv, LinkAt
    <3>2. c # NoConn
      BY <1>4, LeaseAssumption
    <3> HIDE DEF s, c
    <3>3. t.link = c
      BY <1>4, <3>1, <3>2, WelcomedTurns, ZenonT(30)
    <3>4. Orderly(t)
      BY <1>4, <3>1, WelcomedNumbers
    <3> QED
      BY <3>3, <3>4, FlushNumbers
  <2> HIDE DEF u
  <2>3. agent'[b] \in {u, agent[b]}
    BY <1>1, <2>1 DEF TypeOK
  <2>4. agent'[b].link # NoConn
    BY <1>7 DEF Answer
  <2> QED
    BY <1>5, <1>7, <2>2, <2>3, <2>4
<1>10. answer = "settled" /\ m \in Verdicts(j, e, why)
  <2> HIDE DEF c, m
  <2>1. down'[c] = <<>> \/ (answer = "settled" /\ down'[c] = <<m>>)
    BY <1>1, <1>4, <1>5 DEF TypeOK
  <2> QED
    BY <1>8, <1>9, <2>1 DEF Has
<1>11. i \in Job /\ s.cur.epoch \in Nat /\ settled[i].accepted \in BOOLEAN
  BY <1>1, <1>5, <1>10 DEF TypeOK, SettledRec
<1>12. i = j /\ s.cur.epoch = e /\ (settled[i].accepted <=> why = "accepted")
  BY <1>10, <1>11, VerdictsSay
<1>13. Decided(a, j, e)
  BY <1>5, <1>7, <1>10, <1>12 DEF ResumeAnswer, Decided
<1>14. Decided(a, j, e)' /\ settled'[j] = settled[j]
  BY <1>5, <1>13 DEF Decided
<1>15. Issued(j, e)'
  <2>1. Issued(j, e)
    BY <1>1, <1>13 DEF BookInv, SettledAt, Decided
  <2> QED
    BY <1>1, <2>1, IssuedOn
<1>16. why = "accepted" => Concluded(j)'
  BY <1>1, <1>12, <1>14 DEF AcceptedAt
<1> HIDE DEF m, i, s
<1> QED
  BY <1>12, <1>14, <1>15, <1>16 DEF Honest

-----------------------------------------------------------------------------
\* Every step.

\* The verdicts that `handle` gives on reading a frame are true.
LEMMA ChannelHonest ==
    ASSUME AttemptInv, ClaimBase', ChannelInv, JobInv, SealInv,
           NEW c \in Conn, ChannelStep(c),
           NEW a \in Agent, NEW j \in Job, NEW e \in Nat,
           NEW why \in {"accepted", "rejected"},
           Answer(a, j, e, why)', ~Answer(a, j, e, why)
    PROVE  Honest(a, j, e, why)'
<1>1. TypeOK /\ LinkInv
  BY DEF AttemptInv, ClaimBase, LifeInv, FenceInv
<1>2. CASE OnStaleEvent(c)
  BY <1>2, StaleHonest
<1>3. CASE OnNextEvent(c)
  BY <1>3, EventHonest
<1>4. CASE UNCHANGED <<agent, down>>
  BY <1>4 DEF Answer
<1>5. CASE OnHeartbeat(c)
  <2> DEFINE f == Head(up[c])
             m == Order("renewed", f.job, f.epoch, "none", lease[f.job].next - 1)
  <2>1. UNCHANGED agent /\ (UNCHANGED down \/ down' = Sent(c, m))
    BY <1>5 DEF OnHeartbeat
  <2>2. m.type = "renewed"
    BY DEF Order
  <2> HIDE DEF m
  <2>3. m \notin Verdicts(j, e, why)
    BY <2>2 DEF Verdicts
  <2> QED
    BY <1>1, <1>4, <2>1, <2>3, SentTells
<1> QED
  BY <1>2, <1>3, <1>4, <1>5 DEF ChannelStep, OnReady, OnReleased, RemoveConn

\* Every verdict under way is true after each step.
LEMMA NextHonest ==
    ASSUME AttemptInv, AttemptInv', ChannelInv, EventInv, VerdictInv, [Next]_vars
    PROVE  HonestInv'
<1>1. /\ ClaimBase /\ ClaimBase' /\ TypeOK /\ LinkInv /\ TidyInv /\ JobInv /\ SealInv
      /\ \A b \in Agent : Orderly(agent[b])
  BY DEF AttemptInv, ClaimBase, LifeInv, FenceInv, VerdictInv, ChannelInv
<1> SUFFICES ASSUME NEW a \in Agent, NEW j \in Job, NEW e \in Nat,
                    NEW why \in {"accepted", "rejected"},
                    Answer(a, j, e, why)'
             PROVE  Honest(a, j, e, why)'
  BY DEF HonestInv
<1>2. CASE Answer(a, j, e, why)
  <2>1. Honest(a, j, e, why) /\ agent[a].link # NoConn
    BY <1>2 DEF VerdictInv, HonestInv, Answer
  <2> QED
    BY <1>1, <2>1, HonestStays DEF JobInv, SealInv
<1>3. CASE ~Answer(a, j, e, why)
  <2>1. ~Untold(a)
    BY <1>3, UntoldAnswers
  <2>2. ASSUME NEW b \in Agent, AgentStep(b)
        PROVE  Honest(a, j, e, why)'
    <3>1. Connect(b)
      BY <1>1, <2>1, <2>2, AgentsUntold
    <3> QED
      BY <1>1, <1>3, <3>1, ConnectHonest
  <2>3. ASSUME NEW c \in Conn, ChannelStep(c)
        PROVE  Honest(a, j, e, why)'
    BY <1>1, <1>3, <2>3, ChannelHonest
  <2>4. ASSUME NEW i \in Job, RunnerStep(i)
        PROVE  Honest(a, j, e, why)'
    BY <1>1, <1>3, <2>4, RunnerHonest
  <2>5. ~(UNCHANGED vars \/ Stop \/ Restart
          \/ \E i \in Job : Expire(i) \/ UserCancel(i))
    BY <1>1, <2>1, AroundUntold
  <2> QED
    BY <2>2, <2>3, <2>4, <2>5 DEF Next
<1> QED
  BY <1>2, <1>3

\* No step.
LEMMA StutterSealed ==
    ASSUME TypeOK, TidyInv, SealInv, UNCHANGED vars
    PROVE  TidyInv' /\ SealInv'
<1>1. UNCHANGED <<runner, lease, settled, conn, agent, up, down>>
  BY DEF vars, hub, jobs
<1>2. TidyInv'
  BY <1>1 DEF TidyInv
<1>3. ASSUME NEW a \in Agent, NEW j \in Job, NEW e \in Nat
      PROVE  SealAt(a, j, e)'
  <2>1. SealAt(a, j, e)
    BY DEF SealInv
  <2> QED
    BY <1>1, <2>1 DEF SealAt, Leased, Rested, Single, Followed, Parting, Decided,
       Open, Takes
<1> QED
  BY <1>2, <1>3 DEF SealInv

\* Every step keeps results last and taken once.
LEMMA NextSealed ==
    ASSUME AttemptInv, AttemptInv', ChannelInv, EventInv, VerdictInv, [Next]_vars
    PROVE  TidyInv' /\ SealInv'
<1>1. /\ TypeOK /\ TypeOK' /\ LinkInv /\ TidyInv /\ JobInv /\ SealInv
      /\ FirstInv /\ LeanInv /\ OnceInv /\ CancelInv /\ BlankInv /\ BookInv
      /\ \A b \in Agent : Orderly(agent[b])
      /\ \A j \in Job : Logged(lease[j])
  BY DEF AttemptInv, ClaimBase, LifeInv, FenceInv, VerdictInv, ChannelInv, EventInv
<1>2. ASSUME NEW a \in Agent, AgentStep(a)
      PROVE  TidyInv' /\ SealInv'
  BY <1>1, <1>2, TurnSealed, UploadSealed, HeartbeatSealed, DisconnectSealed,
     ConnectSealed DEF AgentStep, AgentTurn
<1>3. ASSUME NEW c \in Conn, ChannelStep(c)
      PROVE  TidyInv' /\ SealInv'
  BY <1>1, <1>3, ChannelSealed
<1>4. ASSUME NEW j \in Job, RunnerStep(j)
      PROVE  TidyInv' /\ SealInv'
  BY <1>1, <1>4, RunnerSealed, ClaimSealed
<1>5. CASE (\E j \in Job : Expire(j) \/ UserCancel(j)) \/ Stop
  BY <1>1, <1>5, AroundSealed
<1> QED
  BY <1>1, <1>2, <1>3, <1>4, <1>5, RestartSealed, StutterSealed DEF Next

\* The invariant of the verdicts is inductive.
LEMMA NextVerdicts ==
    ASSUME AttemptInv, AttemptInv', ChannelInv, EventInv, VerdictInv, [Next]_vars
    PROVE  VerdictInv'
<1>1. ClaimBase /\ ClaimBase' /\ JobInv /\ \A j \in Job : Logged(lease[j])
  BY DEF AttemptInv, VerdictInv, EventInv
<1>2. \A j \in Job : ResultAt(j)' /\ AcceptedAt(j)'
  BY <1>1, NextResults, NextAccepts DEF JobInv
<1>3. JobInv'
  BY <1>2 DEF JobInv
<1> QED
  BY <1>3, NextSealed, NextHonest DEF VerdictInv

\* It holds at the start.
LEMMA InitVerdicts ==
    ASSUME Init
    PROVE  VerdictInv
<1>1. /\ \A j \in Job : /\ lease[j] = NoLease /\ settled[j] = NoSettled
                        /\ runner[j].pc = "queued"
      /\ \A a \in Agent : agent[a] = NewAgent
  BY DEF Init, Fresh
<1>2. /\ NoLease.events = <<>> /\ ~NoLease.result /\ NoLease.agent = NoAgent
      /\ NewAgent.link = NoConn /\ NewAgent.cur.job = NoJob
      /\ ~NoSettled.accepted /\ NoAgent \notin Agent
  BY StoreAssumption DEF NoLease, NewLease, NewAgent, Idle, NoSettled
<1>3. TidyInv
  BY <1>1, <1>2 DEF TidyInv, Tidy, Closes, Runs, Holds
<1>4. JobInv
  BY <1>1, <1>2 DEF JobInv, ResultAt, AcceptedAt, Has
<1>5. SealInv
  BY <1>1, <1>2 DEF SealInv, SealAt, Leased
<1>6. HonestInv
  BY <1>1, <1>2 DEF HonestInv, Answer
<1> QED
  BY <1>3, <1>4, <1>5, <1>6 DEF VerdictInv

-----------------------------------------------------------------------------
\* The theorems.

\* An agent's result is the last thing it writes of an attempt, the hub takes
\* it at most once, and no verdict the agent has yet to read says of it what
\* will not stand (workers.rs `handle`, `resume`, `verdict`, jobs.rs
\* `run_remote`).
THEOREM VerdictInvariant == Spec => [](AttemptInv /\ ChannelInv /\ EventInv /\ VerdictInv)
<1>1. Init => VerdictInv
  BY InitVerdicts
<1>2. AttemptInv /\ AttemptInv' /\ ChannelInv /\ EventInv /\ VerdictInv /\ [Next]_vars
      => VerdictInv'
  BY NextVerdicts
<1> QED
  BY <1>1, <1>2, EventInvariant, PTL DEF Spec

\* Whatever channel a verdict reaches its agent on, and however often, it is
\* the one the runner gave, and an accepted result is published (workers.rs
\* `verdict`, `handle`, `resume`).
THEOREM VerdictsStayHonest == Spec => []VerdictHonest
<1>1. AttemptInv /\ VerdictInv => VerdictHonest
  <2> SUFFICES ASSUME AttemptInv, VerdictInv, NEW a \in Agent, NEW m \in Unread(a),
                      m.type = "verdict"
               PROVE  /\ m.why = "accepted" => published[m.job] > 0
                      /\ (settled[m.job].epoch = m.epoch /\ settled[m.job].agent = a)
                         => (settled[m.job].accepted <=> m.why = "accepted")
    BY DEF VerdictHonest
  <2> DEFINE c == agent[a].link
             j == m.job
             e == m.epoch
             why == m.why
  <2>1. TypeOK
    BY DEF AttemptInv, ClaimBase, LifeInv, FenceInv
  <2>2. PICK k \in DOMAIN down[c] : c # NoConn /\ m = down[c][k]
    BY DEF Unread
  <2>3. m \in OrderRec
    BY <2>1, <2>2 DEF TypeOK, AgentRec
  <2>4. j \in Job /\ e \in Nat /\ why \in {"accepted", "rejected"}
    BY <2>3 DEF OrderRec, OrderOf, CloseOrder, Order
  <2>5. m \in Verdicts(j, e, why)
    BY <2>3 DEF Verdicts
  <2>6. Answer(a, j, e, why)
    BY <2>2, <2>5 DEF Answer, Has
  <2> HIDE DEF j, e, why
  <2>7. Honest(a, j, e, why)
    BY <2>4, <2>6 DEF VerdictInv, HonestInv
  <2> QED
    BY <2>7 DEF Honest, Concluded, Decided, j, e, why
<1> QED
  BY <1>1, VerdictInvariant, PTL

=============================================================================
