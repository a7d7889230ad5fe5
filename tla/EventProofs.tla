---------------------------- MODULE EventProofs ----------------------------
(***************************************************************************)
(* What reaches a runner from its lease, proved of WorkerLease for any     *)
(* jobs, agents, classes, bounds and surroundings: a job's features first, *)
(* then one terminal event at most, then the word that its agent let it    *)
(* go, once.                                                               *)
(*                                                                         *)
(* In this order: the log of a lease (Logged); the word that an attempt is *)
(* let go, which is in one place at most, whatever channels and agents     *)
(* come between (Once); what a runner knows of what its agent was told     *)
(* (KnowsInv); and that the hub heard nothing of an attempt whose agent    *)
(* wrote nothing of it, so that a resume has no features sent twice        *)
(* (BlankInv).                                                             *)
(***************************************************************************)
EXTENDS AttemptProofs

USE DEF NoJob, NoConn, Conn


-----------------------------------------------------------------------------
\* What the hub has of a lease's events.

\* The log of a lease: its features first and once, then one terminal event at
\* most, then releases; and nothing but releases before the first event has
\* been taken.
Logged(l) ==
    /\ l.next >= 1
    /\ \A m, n \in DOMAIN l.events : m < n =>
         /\ l.events[n] # "features"
         /\ l.events[m] # "features" => l.events[n] \in Reason
    /\ ~l.finished => \A n \in DOMAIN l.events : l.events[n] = "features"
    /\ l.next = 1 => \A n \in DOMAIN l.events : l.events[n] \in Reason

\* A job's features are its first event.
FirstIn(q) == \A k \in DOMAIN q :
                q[k].type = "event" /\ q[k].ev = "features" => q[k].seq = 1
FirstInv == \A c \in Conn : FirstIn(up[c])

\* A step begins the log, leaves it, takes an event or puts one into it.
LogGoes(l, m) ==
    \/ m.next = 1 /\ m.events = <<>> /\ ~m.finished
    \/ /\ m.next \in {l.next, l.next + 1} /\ m.events = l.events
       /\ l.finished => m.finished
    \/ /\ ~l.finished /\ m.next = l.next + 1
       /\ \E ev \in JobEvent : /\ m.events = Append(l.events, ev)
                               /\ m.finished <=> ev \in Terminal
                               /\ ev = "features" => l.next = 1
    \/ /\ m.next = l.next /\ m.finished
       /\ \E x \in Reason : m.events = Append(l.events, x)

\* A step that keeps to the log's rules leaves a log.
LEMMA LogStays ==
    ASSUME NEW l \in LeaseRec, NEW m \in LeaseRec, Logged(l), LogGoes(l, m)
    PROVE  Logged(m)
<1>1. /\ l.events \in Seq(JobEvent \cup Reason) /\ l.next \in Nat /\ l.next >= 1
      /\ DOMAIN l.events = 1 .. Len(l.events) /\ Len(l.events) \in Nat
  BY DEF LeaseRec, Logged
<1>2. "features" \notin Reason /\ Reason \cap Terminal = {}
      /\ JobEvent = Terminal \cup {"features"}
  BY DEF Reason, Terminal, JobEvent
<1>3. ASSUME NEW x \in JobEvent \cup Reason, m.events = Append(l.events, x)
      PROVE  /\ DOMAIN m.events = 1 .. Len(l.events) + 1
             /\ \A n \in 1 .. Len(l.events) : m.events[n] = l.events[n]
             /\ m.events[Len(l.events) + 1] = x
  BY <1>1, <1>3
<1>4. CASE m.next = 1 /\ m.events = <<>> /\ ~m.finished
  BY <1>4 DEF Logged
<1>5. CASE /\ m.next \in {l.next, l.next + 1} /\ m.events = l.events
           /\ l.finished => m.finished
  <2>1. m.next = 1 => l.next = 1
    BY <1>1, <1>5
  <2> QED
    BY <1>1, <1>5, <2>1 DEF Logged
<1>6. ASSUME ~l.finished, m.next = l.next + 1, NEW ev \in JobEvent,
             m.events = Append(l.events, ev), m.finished <=> ev \in Terminal,
             ev = "features" => l.next = 1
      PROVE  Logged(m)
  <2> DEFINE n == Len(l.events)
  <2>1. /\ DOMAIN m.events = 1 .. n + 1 /\ m.events[n + 1] = ev
        /\ \A i \in 1 .. n : m.events[i] = l.events[i]
    BY <1>3, <1>6
  <2>2. \A i \in 1 .. n : l.events[i] = "features"
    BY <1>1, <1>6 DEF Logged
  <2>3. ev = "features" => n = 0
    <3>1. ASSUME ev = "features", n # 0 PROVE FALSE
      <4>1. 1 \in 1 .. n
        BY <1>1, <3>1
      <4>2. l.events[1] \in Reason
        BY <1>1, <1>6, <3>1, <4>1 DEF Logged
      <4> QED
        BY <1>2, <2>2, <4>1, <4>2
    <3> QED
      BY <3>1
  <2> HIDE DEF n
  <2>4. n \in Nat
    BY <1>1 DEF n
  <2>5. ASSUME NEW i \in 1 .. n + 1, NEW k \in 1 .. n + 1, i < k
        PROVE  /\ m.events[k] # "features"
               /\ m.events[i] # "features" => m.events[k] \in Reason
    <3>1. i \in 1 .. n /\ n # 0
      BY <2>4, <2>5
    <3>2. m.events[i] = "features"
      BY <2>1, <2>2, <3>1
    <3>3. CASE k = n + 1
      BY <2>1, <2>3, <3>1, <3>2, <3>3
    <3>4. CASE k # n + 1
      <4>1. k \in 1 .. n
        BY <2>4, <3>4
      <4>2. l.events[k] # "features"
        BY <1>1, <2>5, <3>1, <4>1 DEF Logged, n
      <4> QED
        BY <2>2, <4>1, <4>2
    <3> QED
      BY <3>3, <3>4
  <2>6. ~m.finished => \A i \in 1 .. n + 1 : m.events[i] = "features"
    <3>1. ~m.finished => ev = "features"
      BY <1>2, <1>6
    <3>2. ~m.finished => n + 1 = 1
      BY <2>3, <2>4, <3>1
    <3> QED
      BY <2>1, <2>4, <3>1, <3>2
  <2>7. m.next >= 1 /\ m.next # 1
    BY <1>1, <1>6
  <2> QED
    BY <2>1, <2>5, <2>6, <2>7 DEF Logged
<1>7. ASSUME m.next = l.next, m.finished, NEW x \in Reason,
             m.events = Append(l.events, x)
      PROVE  Logged(m)
  <2> DEFINE n == Len(l.events)
  <2>1. /\ DOMAIN m.events = 1 .. n + 1 /\ m.events[n + 1] = x
        /\ \A i \in 1 .. n : m.events[i] = l.events[i]
    BY <1>3, <1>7
  <2>2. n \in Nat /\ DOMAIN l.events = 1 .. n
    BY <1>1
  <2> HIDE DEF n
  <2>3. ASSUME NEW i \in 1 .. n + 1, NEW k \in 1 .. n + 1, i < k
        PROVE  /\ m.events[k] # "features"
               /\ m.events[i] # "features" => m.events[k] \in Reason
    <3>1. CASE k = n + 1
      BY <1>2, <2>1, <3>1
    <3>2. CASE k # n + 1
      <4>1. k \in 1 .. n /\ i \in 1 .. n
        BY <2>2, <2>3, <3>2
      <4> QED
        BY <2>1, <2>2, <2>3, <4>1 DEF Logged
    <3> QED
      BY <3>1, <3>2
  <2>4. m.next = 1 => \A i \in 1 .. n + 1 : m.events[i] \in Reason
    <3> SUFFICES ASSUME m.next = 1, NEW i \in 1 .. n + 1
                 PROVE  m.events[i] \in Reason
      OBVIOUS
    <3>1. i = n + 1 \/ i \in 1 .. n
      BY <2>2
    <3> QED
      BY <1>7, <2>1, <2>2, <3>1 DEF Logged
  <2> QED
    BY <1>1, <1>7, <2>1, <2>3, <2>4 DEF Logged
<1> QED
  BY <1>4, <1>5, <1>6, <1>7 DEF LogGoes

SameLog(l, m) == m.next = l.next /\ m.events = l.events /\ m.finished = l.finished

\* What marks, renews or detaches a lease leaves its log.
LEMMA LogForms ==
    ASSUME NEW l \in LeaseRec
    PROVE  /\ SameLog(l, l)
           /\ \A c : SameLog(l, [l EXCEPT !.conn = c])
           /\ \A time : SameLog(l, [l EXCEPT !.time = time])
           /\ \A time, hot : SameLog(l, [l EXCEPT !.time = time, !.hot = hot])
           /\ SameLog(l, [l EXCEPT !.uploads = TRUE])
           /\ SameLog(l, [l EXCEPT !.cancelled = TRUE])
           /\ SameLog(l, [l EXCEPT !.rerouting = TRUE])
           /\ \A m : SameLog(l, m) => LogGoes(l, m)
BY DEF LeaseRec, SameLog, LogGoes

\* A new lease and none begin an empty log.
LEMMA NewLogs ==
    ASSUME NEW l, NEW c, NEW a, NEW e
    PROVE  LogGoes(l, NewLease(c, a, e)) /\ LogGoes(l, NoLease)
BY DEF LogGoes, NewLease, NoLease

\* A step that touches one lease.
LEMMA OneLogs ==
    ASSUME TypeOK, NEW j \in Job, NEW m, lease' = [lease EXCEPT ![j] = m],
           LogGoes(lease[j], m)
    PROVE  \A k \in Job : LogGoes(lease[k], lease'[k])
<1>1. \A k \in Job : /\ lease'[k] = IF k = j THEN m ELSE lease[k]
                     /\ lease[k] \in LeaseRec
  BY DEF TypeOK
<1>2. ASSUME NEW k \in Job PROVE LogGoes(lease[k], lease'[k])
  <2>1. LogGoes(lease[k], lease[k])
    BY <1>1, LogForms
  <2> QED
    BY <1>1, <2>1
<1> QED
  BY <1>2

\* A step that touches none.
LEMMA LogsStay ==
    ASSUME TypeOK, UNCHANGED lease
    PROVE  \A k \in Job : LogGoes(lease[k], lease'[k])
<1>1. ASSUME NEW k \in Job PROVE LogGoes(lease[k], lease'[k])
  <2>1. lease'[k] = lease[k] /\ lease[k] \in LeaseRec
    BY DEF TypeOK
  <2>2. LogGoes(lease[k], lease[k])
    BY <2>1, LogForms
  <2> QED
    BY <2>1, <2>2
<1> QED
  BY <1>1

\* An agent writes nothing into a log itself.
LEMMA AgentLogs ==
    ASSUME TypeOK, NEW a \in Agent, AgentStep(a)
    PROVE  \A k \in Job : SameLog(lease[k], lease'[k])
<1>1. ASSUME UNCHANGED lease PROVE \A k \in Job : SameLog(lease[k], lease'[k])
  BY <1>1, LogForms DEF TypeOK
<1>2. CASE \/ JobProgress(a) \/ JobFinished(a) \/ JobKilled(a) \/ HoldExpires(a)
           \/ Heartbeat(a) \/ OnOrder(a) \/ Disconnect(a) \/ AgentCrash(a)
  <2>1. UNCHANGED lease
    BY <1>2 DEF JobProgress, JobFinished, JobKilled, HoldExpires, Heartbeat,
                OnOrder, Disconnect, AgentCrash, hub
  <2> QED
    BY <1>1, <2>1
<1>3. CASE Upload(a)
  <2>1. \/ UNCHANGED lease
        \/ lease' = [lease EXCEPT ![agent[a].cur.job].uploads = TRUE]
    BY <1>3 DEF Upload
  <2>2. lease' = [lease EXCEPT ![agent[a].cur.job].uploads = TRUE]
        => \A k \in Job : \/ lease'[k] = lease[k]
                          \/ lease'[k] = [lease[k] EXCEPT !.uploads = TRUE]
    BY DEF TypeOK
  <2>3. ASSUME NEW k \in Job PROVE SameLog(lease[k], lease'[k])
    <3>1. lease[k] \in LeaseRec
      BY DEF TypeOK
    <3>2. /\ SameLog(lease[k], lease[k])
          /\ SameLog(lease[k], [lease[k] EXCEPT !.uploads = TRUE])
      BY <3>1, LogForms
    <3> QED
      BY <2>1, <2>2, <3>2
  <2> QED
    BY <2>3
<1>4. CASE Connect(a)
  <2> DEFINE s == agent[a]
             c == nextConn
             j == s.cur.job
             lease1 == Detached(Evicted(a))
             answer == IF Runs(s)
                       THEN ResumeAnswer(a, j, s.cur.epoch, lease1[j])
                       ELSE "none"
  <2>1. lease' = IF answer = "none" THEN lease1
                 ELSE [lease1 EXCEPT ![j] = AfterResume(@, answer, c)]
    BY <1>4 DEF Connect
  <2>2. lease1 \in [Job -> LeaseRec] /\ Evicted(a) \in SUBSET Conn
    BY DetachedTyped DEF Evicted
  <2>3. \A k \in Job : SameLog(lease[k], lease1[k])
    BY LogForms DEF Detached, TypeOK
  <2>4. \A k \in Job : SameLog(lease1[k], AfterResume(lease1[k], answer, c))
    BY <2>2, LogForms DEF AfterResume
  <2> HIDE DEF lease1, answer, c, j
  <2>5. \A k \in Job : \/ lease'[k] = lease1[k]
                       \/ lease'[k] = AfterResume(lease1[k], answer, c)
    BY <2>1, <2>2
  <2>6. \A k \in Job : SameLog(lease[k], lease'[k])
    BY <2>3, <2>4, <2>5 DEF SameLog
  <2> QED
    BY <2>6
<1> QED
  BY <1>2, <1>3, <1>4 DEF AgentStep

\* A frame the hub handles: `handle` counts and forwards it, or neither.
LEMMA ChannelLogs ==
    ASSUME ClaimBase, FirstInv, NEW c \in Conn, ChannelStep(c)
    PROVE  \A k \in Job : LogGoes(lease[k], lease'[k])
<1> DEFINE f == Head(up[c])
           l == lease[f.job]
           heeded == l.agent = conn[c].agent /\ l.epoch = f.epoch /\ l.time # "lost"
<1>1. TypeOK
  BY DEF ClaimBase, LifeInv, FenceInv
<1>2. ASSUME NEW type \in {"event", "released"}, Gets(c, type)
      PROVE  /\ f \in FrameRec /\ f.type = type /\ f.job \in Job
             /\ l \in LeaseRec /\ up[c] # <<>> /\ f = up[c][1] /\ 1 \in DOMAIN up[c]
  <2>1. f \in FrameRec /\ f.type = type /\ up[c] # <<>> /\ up[c] \in Seq(FrameRec)
    <3>1. up[c] \in Seq(FrameRec) /\ up[c] # <<>>
      BY <1>1, <1>2 DEF Gets, TypeOK
    <3>2. f \in FrameRec
      BY <3>1
    <3> QED
      BY <1>2, <3>1, <3>2 DEF Gets
  <2>2. f.job \in Job
    BY <2>1, FrameKinds
  <2>3. f = up[c][1] /\ 1 \in DOMAIN up[c]
    BY <2>1
  <2> QED
    BY <1>1, <2>1, <2>2, <2>3 DEF TypeOK
<1>3. CASE RemoveConn(c)
  <2>1. lease' = [j \in Job |-> IF lease[j].conn \in {c}
                                THEN [lease[j] EXCEPT !.conn = NoConn]
                                ELSE lease[j]]
    BY <1>3 DEF RemoveConn, Detached
  <2>2. ASSUME NEW k \in Job PROVE LogGoes(lease[k], lease'[k])
    BY <1>1, <2>1, LogForms DEF TypeOK
  <2> QED
    BY <2>2
<1>4. CASE OnHeartbeat(c) /\ Current(c, f)
  <2>1. f.job \in Job
    BY <1>1, <1>4, GetsTyped, FrameKinds DEF OnHeartbeat
  <2> DEFINE m == [l EXCEPT !.time = "live", !.hot = (f.ev = "hot")]
  <2>2. l \in LeaseRec
    BY <1>1, <2>1 DEF TypeOK
  <2>3. LogGoes(l, m)
    BY <2>2, LogForms
  <2>4. lease' = [lease EXCEPT ![f.job] = m]
    BY <1>1, <1>4, <2>1 DEF OnHeartbeat, TypeOK
  <2> HIDE DEF m, f
  <2> QED
    BY <1>1, <2>1, <2>3, <2>4, OneLogs
<1>5. CASE OnNextEvent(c)
  <2> DEFINE ends == f.ev \in Terminal
             renewed == [l EXCEPT !.next = @ + 1, !.time = "live",
                                  !.finished = @ \/ ends]
             told == [renewed EXCEPT !.result = (f.ev = "result"),
                                     !.events = Append(@, f.ev)]
  <2>1. /\ f.job \in Job /\ l \in LeaseRec /\ f.ev \in JobEvent
        /\ f.ev = "features" => l.next = 1
    <3>1. Gets(c, "event") /\ f.seq = l.next
      BY <1>5, Zenon DEF OnNextEvent
    <3>2. /\ f \in FrameRec /\ f.type = "event" /\ f.job \in Job
          /\ l \in LeaseRec /\ f = up[c][1] /\ 1 \in DOMAIN up[c]
      BY <1>2, <3>1
    <3>3. f.ev \in JobEvent
      BY <3>2, FrameKinds
    <3>4. f.ev = "features" => f.seq = 1
      BY <3>2 DEF FirstInv, FirstIn
    <3> QED
      BY <3>1, <3>2, <3>3, <3>4
  <2>2. \/ /\ l.finished
           /\ lease' = [lease EXCEPT ![f.job] = [renewed EXCEPT !.finished = TRUE]]
        \/ /\ ~l.finished
           /\ \E m \in {renewed, told} : lease' = [lease EXCEPT ![f.job] = m]
    BY <1>5 DEF OnNextEvent
  <2>3. \E m : LogGoes(l, m) /\ lease' = [lease EXCEPT ![f.job] = m]
    <3> DEFINE ev == f.ev
    <3> HIDE DEF f
    <3>1. ASSUME l.finished
          PROVE  LogGoes(l, [renewed EXCEPT !.finished = TRUE])
      BY <2>1, <3>1 DEF LeaseRec, LogGoes
    <3>2. LogGoes(l, renewed)
      BY <2>1 DEF LeaseRec, LogGoes
    <3>3. ASSUME ~l.finished PROVE LogGoes(l, told)
      <4>1. /\ told.next = l.next + 1 /\ told.events = Append(l.events, ev)
            /\ told.finished <=> ev \in Terminal
        BY <2>1, <3>3 DEF LeaseRec
      <4> HIDE DEF told
      <4> QED
        BY <2>1, <3>3, <4>1 DEF LogGoes
    <3> HIDE DEF renewed, told
    <3> QED
      BY <2>2, <3>1, <3>2, <3>3
  <2> HIDE DEF f
  <2> QED
    BY <1>1, <2>1, <2>3, OneLogs
<1>6. CASE OnReleased(c) /\ heeded
  <2> DEFINE m == [l EXCEPT !.finished = TRUE, !.events = Append(@, f.ev)]
  <2>1. /\ f.job \in Job /\ l \in LeaseRec /\ f.ev \in Reason
    <3>1. Gets(c, "released")
      BY <1>6, Zenon DEF OnReleased
    <3>2. f \in FrameRec /\ f.type = "released"
      BY <1>2, <3>1
    <3> QED
      BY <1>2, <3>1, <3>2, FrameKinds
  <2>2. lease' = [lease EXCEPT ![f.job] = m]
    BY <1>1, <1>6, <2>1 DEF OnReleased, TypeOK
  <2> HIDE DEF f
  <2>3. LogGoes(l, m)
    <3>1. m.next = l.next /\ m.finished /\ m.events = Append(l.events, f.ev)
      BY <2>1 DEF LeaseRec
    <3> QED
      BY <2>1, <3>1 DEF LogGoes
  <2> HIDE DEF m
  <2> QED
    BY <1>1, <2>1, <2>2, <2>3, OneLogs
<1>7. CASE UNCHANGED lease
  BY <1>1, <1>7, LogsStay
<1>8. CASE \/ OnReady(c) \/ OnStaleEvent(c)
           \/ OnHeartbeat(c) /\ ~Current(c, f)
           \/ OnReleased(c) /\ ~heeded
  BY <1>7, <1>8 DEF OnReady, OnStaleEvent, OnHeartbeat, OnReleased, hub
<1> QED
  BY <1>3, <1>4, <1>5, <1>6, <1>8 DEF ChannelStep

\* What the runners do to the logs.
LEMMA RunnerLogs ==
    ASSUME TypeOK, NEW j \in Job, RunnerStep(j)
    PROVE  \A k \in Job : LogGoes(lease[k], lease'[k])
<1>1. CASE Claim(j)
  <2>1. PICK c \in Conn :
          lease' = [lease EXCEPT ![j] = NewLease(c, conn[c].agent, runner[j].epoch)]
    BY <1>1 DEF Claim
  <2> DEFINE m == NewLease(c, conn[c].agent, runner[j].epoch)
  <2>2. LogGoes(lease[j], m)
    BY NewLogs
  <2> HIDE DEF m
  <2> QED
    BY <2>1, <2>2, OneLogs DEF m
<1>2. CASE ~Claim(j)
  <2>1. RunnerLeaves(j) /\ lease[j] \in LeaseRec
    BY <1>2, RunnersLeave DEF TypeOK
  <2>2. /\ LogGoes(lease[j], NoLease)
        /\ LogGoes(lease[j], [lease[j] EXCEPT !.cancelled = TRUE])
        /\ LogGoes(lease[j], [lease[j] EXCEPT !.rerouting = TRUE])
        /\ LogGoes(lease[j], [lease[j] EXCEPT !.time = "lost"])
    BY <2>1, LogForms, NewLogs
  <2>3. CASE UNCHANGED lease
    BY <2>3, LogsStay
  <2>4. ASSUME NEW m, LogGoes(lease[j], m), lease' = [lease EXCEPT ![j] = m]
        PROVE  \A k \in Job : LogGoes(lease[k], lease'[k])
    BY <2>4, OneLogs
  <2> QED
    BY <2>1, <2>2, <2>3, <2>4 DEF RunnerLeaves
<1> QED
  BY <1>1, <1>2

\* Every step keeps to the rules of the log.
LEMMA NextLogs ==
    ASSUME ClaimBase, FirstInv, [Next]_vars, NEW k \in Job
    PROVE  LogGoes(lease[k], lease'[k])
<1>1. TypeOK
  BY DEF ClaimBase, LifeInv, FenceInv
<1>2. CASE UNCHANGED lease
  BY <1>1, <1>2, LogsStay
<1>3. CASE \E j \in Job : Expire(j)
  <2>1. PICK j \in Job : Expire(j)
    BY <1>3
  <2> DEFINE m == [lease[j] EXCEPT !.time = "due"]
  <2>2. lease' = [lease EXCEPT ![j] = m]
    BY <1>1, <2>1 DEF Expire, TypeOK
  <2>3. LogGoes(lease[j], m)
    BY <1>1, LogForms DEF TypeOK
  <2> HIDE DEF m
  <2> QED
    BY <1>1, <2>2, <2>3, OneLogs
<1>4. CASE Restart
  BY <1>4, RestartParts, NewLogs
<1>5. CASE (\E j \in Job : UserCancel(j)) \/ Stop \/ UNCHANGED vars
  BY <1>2, <1>5 DEF UserCancel, Stop, vars, hub
<1>6. CASE \E a \in Agent : AgentStep(a)
  BY <1>1, <1>6, AgentLogs, LogForms DEF TypeOK
<1> QED
  BY <1>1, <1>3, <1>4, <1>5, <1>6, ChannelLogs, RunnerLogs DEF Next

-----------------------------------------------------------------------------
\* What an agent tells of its job: the features first, and with the first
\* number.

\* The outbox of a job; `fresh`, the job has yet to report its features.
BeginsWith(o, fresh) ==
    /\ o.last >= 0
    /\ \A k \in DOMAIN o.evs :
         o.evs[k] = "features" => k = 1 /\ o.last = o.written
    /\ fresh => o.evs = <<>> /\ o.last = 0

Begins(s) == Runs(s) => BeginsWith(s.cur.out, s.cur.done = "no" /\ ~s.cur.begun)

\* What the outbox operations leave of how a job begins.
LEMMA OutboxBegins ==
    ASSUME NEW o \in OutboxRec, o.written <= Len(o.evs), NEW fresh \in BOOLEAN,
           BeginsWith(o, fresh)
    PROVE  /\ \A acked \in Int :
                /\ BeginsWith(Ack(o, acked), fresh)
                /\ acked >= 0 /\ (o.last = 0 => acked = 0)
                     => BeginsWith(Rewind(o, acked), fresh)
           /\ BeginsWith(Flushed(o), fresh)
           /\ \A ev \in JobEvent :
                fresh \/ ev # "features" => BeginsWith(Push(o, ev), FALSE)
<1>1. /\ o.evs \in Seq(JobEvent) /\ o.written \in Nat /\ o.last \in Int
      /\ Len(o.evs) \in Nat /\ DOMAIN o.evs = 1 .. Len(o.evs)
      /\ o.evs = <<>> => Len(o.evs) = 0
  BY DEF OutboxRec
<1>2. ASSUME NEW acked \in Int
      PROVE  /\ BeginsWith(Ack(o, acked), fresh)
             /\ acked >= 0 /\ (o.last = 0 => acked = 0)
                => BeginsWith(Rewind(o, acked), fresh)
  <2> DEFINE n == Covered(o, acked)
             q == SubSeq(o.evs, n + 1, Len(o.evs))
  <2>1. /\ n \in 0 .. o.written
        /\ o.last = o.written /\ acked >= 0
           => n = IF acked <= o.written THEN acked ELSE o.written
    BY <1>1 DEF Covered
  <2> HIDE DEF n
  <2>2. /\ DOMAIN q = 1 .. Len(o.evs) - n
        /\ \A k \in DOMAIN q : n + k \in DOMAIN o.evs /\ q[k] = o.evs[n + k]
        /\ Len(o.evs) = 0 => q = <<>>
    BY <1>1, <2>1
  <2> HIDE DEF q
  <2>3. /\ Ack(o, acked).evs = q /\ Ack(o, acked).written = o.written - n
        /\ Ack(o, acked).last = o.last
        /\ Rewind(o, acked).evs = q /\ Rewind(o, acked).written = 0
        /\ Rewind(o, acked).last = acked
    BY DEF Rewind, Ack, n, q, OutboxRec
  <2>4. ASSUME NEW k \in DOMAIN q, q[k] = "features"
        PROVE  k = 1 /\ n = 0 /\ o.last = o.written
    BY <1>1, <2>1, <2>2, <2>4 DEF BeginsWith
  <2>5. BeginsWith(Ack(o, acked), fresh)
    BY <1>1, <2>2, <2>3, <2>4 DEF BeginsWith
  <2>6. ASSUME acked >= 0, o.last = 0 => acked = 0
        PROVE  BeginsWith(Rewind(o, acked), fresh)
    <3>1. ASSUME NEW k \in DOMAIN q, q[k] = "features" PROVE k = 1 /\ acked = 0
      <4>1. k = 1 /\ n = 0 /\ o.last = o.written
        BY <2>4, <3>1
      <4>2. o.written = 0 \/ acked = 0
        BY <1>1, <2>1, <2>6, <4>1
      <4> QED
        BY <1>1, <2>6, <4>1, <4>2
    <3> QED
      BY <1>1, <2>2, <2>3, <2>6, <3>1 DEF BeginsWith
  <2> QED
    BY <2>5, <2>6
<1>3. BeginsWith(Flushed(o), fresh)
  <2>1. /\ Flushed(o).evs = o.evs /\ Flushed(o).written = Len(o.evs)
        /\ Flushed(o).last = o.last + (Len(o.evs) - o.written)
    BY DEF Flushed, OutboxRec
  <2> QED
    BY <1>1, <2>1 DEF BeginsWith
<1>4. ASSUME NEW ev \in JobEvent, fresh \/ ev # "features"
      PROVE  BeginsWith(Push(o, ev), FALSE)
  <2> DEFINE p == Push(o, ev)
  <2>1. /\ p.evs = Append(o.evs, ev) /\ p.written = o.written /\ p.last = o.last
    BY DEF Push, OutboxRec
  <2>2. /\ DOMAIN p.evs = 1 .. Len(o.evs) + 1
        /\ \A k \in 1 .. Len(o.evs) : p.evs[k] = o.evs[k]
        /\ p.evs[Len(o.evs) + 1] = ev
    BY <1>1, <2>1
  <2> HIDE DEF p
  <2>3. ASSUME NEW k \in DOMAIN p.evs, p.evs[k] = "features"
        PROVE  k = 1 /\ p.last = p.written
    <3>1. CASE k \in 1 .. Len(o.evs)
      BY <1>1, <2>1, <2>2, <2>3, <3>1 DEF BeginsWith
    <3>2. CASE k = Len(o.evs) + 1
      <4>1. fresh
        BY <1>4, <2>2, <2>3, <3>2
      <4> QED
        BY <1>1, <2>1, <3>2, <4>1 DEF BeginsWith
    <3> QED
      BY <1>1, <2>2, <3>1, <3>2
  <2> QED
    BY <2>1, <2>3 DEF BeginsWith, p
<1> QED
  BY <1>2, <1>3, <1>4

\* Frames in which features come first stay so when joined,
LEMMA FirstJoins ==
    ASSUME NEW S, NEW q \in Seq(S), NEW r \in Seq(S), FirstIn(q), FirstIn(r)
    PROVE  FirstIn(q \o r)
<1>1. /\ DOMAIN (q \o r) = 1 .. Len(q) + Len(r)
      /\ DOMAIN q = 1 .. Len(q) /\ DOMAIN r = 1 .. Len(r)
      /\ Len(q) \in Nat /\ Len(r) \in Nat
      /\ \A k \in 1 .. Len(q) + Len(r) :
           (q \o r)[k] = IF k <= Len(q) THEN q[k] ELSE r[k - Len(q)]
  OBVIOUS
<1>2. ASSUME NEW k \in DOMAIN (q \o r)
      PROVE  \/ k \in DOMAIN q /\ (q \o r)[k] = q[k]
             \/ k - Len(q) \in DOMAIN r /\ (q \o r)[k] = r[k - Len(q)]
  BY <1>1
<1> QED
  BY <1>2 DEF FirstIn

\* and when the first is read.
LEMMA FirstTails ==
    ASSUME NEW S, NEW q \in Seq(S), q # <<>>, FirstIn(q)
    PROVE  FirstIn(Tail(q))
<1>1. \A k \in DOMAIN Tail(q) : k + 1 \in DOMAIN q /\ Tail(q)[k] = q[k + 1]
  OBVIOUS
<1> QED
  BY <1>1 DEF FirstIn

\* What is flushed, and what is left.
LEMMA FlushBegins ==
    ASSUME NEW s \in AgentRec, Orderly(s), Begins(s)
    PROVE  FirstIn(FramesOf(s)) /\ Begins(AfterFlush(s))
<1> DEFINE u == AfterFlush(s)
           o == s.cur.out
           v == AfterEvents(s)
           ready == <<Frame("ready", NoJob, 0, 0, "none")>>
           p == IF OwesReady(v) THEN ready ELSE <<>>
           q == EventFrames(s)
           fresh == s.cur.done = "no" /\ ~s.cur.begun
<1>1. /\ o \in OutboxRec /\ o.last \in Int /\ o.written <= Len(o.evs)
      /\ o.written \in Nat /\ Len(o.evs) \in Nat /\ DOMAIN o.evs = 1 .. Len(o.evs)
  BY DEF AgentRec, CurrentRec, OutboxRec, Orderly
<1>2. v \in AgentRec
  BY AfterEventsTyped
<1>3. \/ v.cur = Idle
      \/ ~Runs(s) /\ v.cur = s.cur
      \/ /\ Runs(s) /\ v.cur.out = Flushed(o) /\ v.cur.released = s.cur.released
         /\ v.cur.done = s.cur.done /\ v.cur.begun = s.cur.begun
  BY DEF AfterEvents, AgentRec, CurrentRec
<1> HIDE DEF v
<1>4. u.cur = v.cur
  <2>1. u = [v EXCEPT !.pending = <<>>, !.ready = @ /\ Holds(v)]
    BY DEF AfterFlush, v
  <2> QED
    BY <1>2, <2>1 DEF AgentRec
<1> HIDE DEF u
<1>5. Begins(u)
  <2>1. Runs(s) => BeginsWith(Flushed(o), fresh)
    BY <1>1, OutboxBegins DEF Begins
  <2>2. Idle.job = NoJob
    BY DEF Idle
  <2> HIDE DEF o
  <2> QED
    BY <1>3, <1>4, <2>1, <2>2 DEF Begins, Runs, Holds
<1>6. FirstIn(q)
  <2>1. CASE Runs(s)
    <3> DEFINE n == Len(o.evs) - o.written
    <3>1. DOMAIN Unwritten(o) = 1 .. n /\ n \in Nat
          /\ \A k \in 1 .. n : /\ Unwritten(o)[k].seq = o.last + k
                               /\ Unwritten(o)[k].ev = o.evs[o.written + k]
      BY <1>1 DEF Unwritten
    <3>2. DOMAIN q = 1 .. n
      BY <2>1, <3>1 DEF EventFrames
    <3>3. \A k \in 1 .. n : /\ q[k].seq = o.last + k
                            /\ q[k].ev = o.evs[o.written + k]
      BY <2>1, <3>1 DEF EventFrames, Frame
    <3>4. BeginsWith(o, fresh)
      BY <2>1 DEF Begins
    <3> HIDE DEF q, fresh, o
    <3>5. ASSUME NEW k \in 1 .. n, q[k].ev = "features" PROVE q[k].seq = 1
      <4>1. o.written + k \in DOMAIN o.evs
        BY <1>1, <3>1
      <4>2. o.written + k = 1 /\ o.last = o.written
        BY <3>3, <3>4, <3>5, <4>1 DEF BeginsWith
      <4> QED
        BY <1>1, <3>1, <3>3, <4>2
    <3> QED
      BY <3>2, <3>5 DEF FirstIn
  <2>2. CASE ~Runs(s)
    BY <2>2 DEF EventFrames, FirstIn
  <2> QED
    BY <2>1, <2>2
<1>7. /\ s.pending \in Seq(FrameRec) /\ q \in Seq(FrameRec) /\ p \in Seq(FrameRec)
  <2>1. Frame("ready", NoJob, 0, 0, "none") \in FrameRec
    BY DEF FrameRec
  <2>2. ready \in Seq(FrameRec)
    BY <2>1
  <2> QED
    BY <2>2, EventFramesTyped DEF AgentRec
<1>8. FirstIn(s.pending) /\ FirstIn(p)
  <2>1. None(p, "event")
    BY DEF None, Frame
  <2> QED
    BY <2>1 DEF Orderly, None, FirstIn
<1>9. FramesOf(s) = (s.pending \o q) \o p
  BY DEF FramesOf, v
<1> HIDE DEF p, q
<1>10. s.pending \o q \in Seq(FrameRec) /\ FirstIn(s.pending \o q)
  BY <1>6, <1>7, <1>8, FirstJoins
<1>11. FirstIn((s.pending \o q) \o p)
  BY <1>7, <1>8, <1>10, FirstJoins
<1> QED
  BY <1>5, <1>9, <1>11 DEF u

-----------------------------------------------------------------------------
\* Why an agent lets a job go is one thing that wanders: an order to do so,
\* then what the agent owes, then a frame, then an entry of the lease's log.

\* Some element of q is in S, and two at most.
Has(q, S) == \E k \in DOMAIN q : q[k] \in S
Few(q, S) == \A k, l \in DOMAIN q : q[k] \in S /\ q[l] \in S => k = l

\* What is few, and what is there, with one more at the end,
LEMMA FewAppends ==
    ASSUME NEW T, NEW q \in Seq(T), NEW m \in T, NEW S
    PROVE  /\ Has(Append(q, m), S) => Has(q, S) \/ m \in S
           /\ Few(q, S) /\ m \notin S => Few(Append(q, m), S)
           /\ ~Has(q, S) => Few(Append(q, m), S)
<1>1. /\ DOMAIN Append(q, m) = 1 .. Len(q) + 1 /\ DOMAIN q = 1 .. Len(q)
      /\ Len(q) \in Nat
      /\ \A k \in 1 .. Len(q) + 1 :
           Append(q, m)[k] = IF k = Len(q) + 1 THEN m ELSE q[k]
  OBVIOUS
<1> QED
  BY <1>1 DEF Has, Few

\* with the first one read,
LEMMA FewTails ==
    ASSUME NEW T, NEW q \in Seq(T), q # <<>>, NEW S
    PROVE  /\ Has(Tail(q), S) => Has(q, S)
           /\ Few(q, S) => Few(Tail(q), S)
           /\ Few(q, S) /\ Head(q) \in S => ~Has(Tail(q), S)
           /\ Head(q) \in S => Has(q, S)
<1>1. /\ DOMAIN Tail(q) = 1 .. Len(q) - 1 /\ DOMAIN q = 1 .. Len(q)
      /\ Len(q) \in Nat /\ Len(q) > 0 /\ Head(q) = q[1]
      /\ \A k \in 1 .. Len(q) - 1 : Tail(q)[k] = q[k + 1]
  OBVIOUS
<1> QED
  BY <1>1 DEF Has, Few

\* and with frames joined to it.
LEMMA FewJoins ==
    ASSUME NEW T, NEW q \in Seq(T), NEW r \in Seq(T), NEW S
    PROVE  /\ Has(q \o r, S) => Has(q, S) \/ Has(r, S)
           /\ ~Has(r, S) /\ Few(q, S) => Few(q \o r, S)
           /\ ~Has(q, S) /\ Few(r, S) => Few(q \o r, S)
<1>1. /\ DOMAIN (q \o r) = 1 .. Len(q) + Len(r)
      /\ DOMAIN q = 1 .. Len(q) /\ DOMAIN r = 1 .. Len(r)
      /\ Len(q) \in Nat /\ Len(r) \in Nat
      /\ \A k \in 1 .. Len(q) + Len(r) :
           (q \o r)[k] = IF k <= Len(q) THEN q[k] ELSE r[k - Len(q)]
  OBVIOUS
<1>2. ASSUME NEW k \in DOMAIN (q \o r)
      PROVE  \/ k \in DOMAIN q /\ (q \o r)[k] = q[k]
             \/ k - Len(q) \in DOMAIN r /\ (q \o r)[k] = r[k - Len(q)]
  BY <1>1
<1>3. DOMAIN (q \o r) \subseteq Int
  BY <1>1
<1> QED
  BY <1>1, <1>2, <1>3 DEF Has, Few

\* What is not there is few.
LEMMA FewIn ==
    ASSUME NEW q, NEW S
    PROVE  /\ ~Has(q, S) => Few(q, S)
           /\ ~Has(<<>>, S) /\ Few(<<>>, S)
BY DEF Has, Few

\* The frames and the orders that let attempt e of job j go for x.
Rel(j, e, x) == {f \in FrameRec : /\ f.type = "released"
                                  /\ f.job = j /\ f.epoch = e /\ f.ev = x}
Can(j, e, x) == {m \in OrderRec : /\ m.type = "cancel"
                                  /\ m.job = j /\ m.epoch = e /\ m.why = x}

\* The agent is to tell so.
Owes(s, j, e, x) == \/ HoldsThat(s, j, e) /\ s.cur.released = x
                    \/ Has(s.pending, Rel(j, e, x))

\* One frame waits at most, and for a channel only if there is no job.
Lean(s) == /\ Len(s.pending) <= 1
           /\ s.pending # <<>> => ~Holds(s) /\ s.link = NoConn

\* A turn from s to t owes nothing new but S.
OwesOn(s, t, S) ==
    /\ Begins(t) /\ Len(t.pending) <= 1
    /\ s.link = NoConn /\ t.pending # <<>> => ~Holds(t)
    /\ \A j \in Job, e \in Nat, x \in Reason :
         /\ Owes(t, j, e, x) => Owes(s, j, e, x) \/ <<j, e, x>> \in S
         /\ Has(t.pending, Rel(j, e, x)) => ~HoldsThat(t, j, e)

\* The agent keeps its job, or takes one, and waits to say what it waited to.
LEMMA SameOwes ==
    ASSUME NEW s \in AgentRec, Lean(s), NEW t, Begins(t), t.pending = s.pending,
           \/ t.cur.job = s.cur.job /\ t.cur.epoch = s.cur.epoch
           \/ s.link # NoConn,
           t.cur.released # "no" =>
             /\ t.cur.job = s.cur.job /\ t.cur.epoch = s.cur.epoch
             /\ t.cur.released = s.cur.released
    PROVE  OwesOn(s, t, {})
<1>1. "no" \notin Reason
  BY DEF Reason
<1>2. s.pending # <<>> => ~Holds(s) /\ s.link = NoConn
  BY DEF Lean
<1>3. ASSUME NEW j \in Job, NEW e \in Nat, NEW x \in Reason,
             Has(t.pending, Rel(j, e, x))
      PROVE  ~HoldsThat(t, j, e)
  <2>1. s.pending # <<>>
    BY <1>3, FewIn
  <2> QED
    BY <1>2, <2>1, NoJobs DEF HoldsThat, Holds
<1>4. ASSUME NEW j \in Job, NEW e \in Nat, NEW x \in Reason, Owes(t, j, e, x)
      PROVE  Owes(s, j, e, x)
  BY <1>1, <1>4 DEF Owes, HoldsThat
<1>5. Len(t.pending) <= 1 /\ (s.link = NoConn /\ t.pending # <<>> => ~Holds(t))
  BY <1>2 DEF Lean, Holds
<1> QED
  BY <1>3, <1>4, <1>5 DEF OwesOn

\* One frame is written down.
LEMMA OneOwes ==
    ASSUME NEW f \in FrameRec
    PROVE  LET q == Append(<<>>, f) IN
           /\ Len(q) = 1
           /\ \A j, e, x : Has(q, Rel(j, e, x))
                => f.type = "released" /\ f.job = j /\ f.epoch = e /\ f.ev = x
<1>1. Append(<<>>, f) = <<f>>
  OBVIOUS
<1> QED
  BY <1>1 DEF Has, Rel

\* An agent that lets its job go owes the word for it.
LEMMA LetGoOwes ==
    ASSUME NEW s \in AgentRec, Lean(s), Holds(s), NEW why \in Reason \cup {"no"}
    PROVE  OwesOn(s, LetGo(s, why), {<<s.cur.job, s.cur.epoch, why>>})
<1> DEFINE f == Frame("released", s.cur.job, s.cur.epoch, 0, why)
           t == LetGo(s, why)
<1>1. s.pending = <<>>
  BY DEF Lean
<1>2. /\ t.cur = Idle
      /\ t.pending = IF why = "no" THEN <<>> ELSE Append(<<>>, f)
  BY <1>1 DEF LetGo, AgentRec
<1>3. Idle.job = NoJob
  BY DEF Idle
<1>4. why # "no" => f \in FrameRec
  <2>1. s.cur.job \in Job /\ s.cur.epoch \in Nat
    BY DEF Holds, AgentRec, CurrentRec
  <2> QED
    BY <2>1, FrameTyped
<1>5. f.job = s.cur.job /\ f.epoch = s.cur.epoch /\ f.ev = why
  BY DEF Frame
<1> HIDE DEF f, t
<1>6. /\ Len(t.pending) <= 1
      /\ \A j, e, x : Has(t.pending, Rel(j, e, x))
           => s.cur.job = j /\ s.cur.epoch = e /\ why = x
  BY <1>2, <1>4, <1>5, OneOwes, FewIn
<1>7. ~Holds(t) /\ \A j \in Job : \A e : ~HoldsThat(t, j, e)
  BY <1>2, <1>3, NoJobs DEF Holds, HoldsThat
<1>8. Begins(t)
  BY <1>7 DEF Begins, Runs
<1> QED
  BY <1>6, <1>7, <1>8 DEF OwesOn, Owes, t

\* One that is to stop owes it now or later.
LEMMA StoppedOwes ==
    ASSUME NEW s \in AgentRec, Lean(s), Holds(s), NEW why \in Reason
    PROVE  OwesOn(s, Stopped(s, why), {<<s.cur.job, s.cur.epoch, why>>})
<1> DEFINE t == [s EXCEPT !.cur.released = why]
<1>1. /\ t.pending = s.pending /\ t.cur.job = s.cur.job
      /\ t.cur.epoch = s.cur.epoch /\ t.cur.released = why
  BY DEF AgentRec, CurrentRec
<1> HIDE DEF t
<1>2. s.pending = <<>> /\ Len(<<>>) <= 1
  BY DEF Lean
<1>3. why # "no"
  BY DEF Reason
<1>4. Begins(t)
  BY <1>1, <1>3 DEF Begins, Runs
<1>5. \A j, e, x : Owes(t, j, e, x) => s.cur.job = j /\ s.cur.epoch = e /\ why = x
  BY <1>1, <1>2, FewIn DEF Owes, HoldsThat
<1>6. \A j, e, x : ~Has(t.pending, Rel(j, e, x))
  BY <1>1, <1>2, FewIn
<1>7. OwesOn(s, t, {<<s.cur.job, s.cur.epoch, why>>})
  BY <1>1, <1>2, <1>4, <1>5, <1>6 DEF OwesOn
<1> QED
  BY <1>7, LetGoOwes DEF Stopped, t

\* One told to let go of what it does not hold owes it at once.
LEMMA QueueOwes ==
    ASSUME NEW s \in AgentRec, Lean(s), Begins(s), s.link # NoConn,
           NEW j \in Job, NEW e \in Nat, NEW why \in Reason, ~HoldsThat(s, j, e)
    PROVE  OwesOn(s, Queue(s, Frame("released", j, e, 0, why)), {<<j, e, why>>})
<1> DEFINE f == Frame("released", j, e, 0, why)
           t == Queue(s, f)
<1>1. s.pending = <<>>
  BY DEF Lean
<1>2. t.cur = s.cur /\ t.pending = Append(<<>>, f)
  BY <1>1 DEF Queue, AgentRec
<1>3. f \in FrameRec
  BY FrameTyped
<1>4. f.job = j /\ f.epoch = e /\ f.ev = why
  BY DEF Frame
<1> HIDE DEF f, t
<1>5. /\ Len(t.pending) <= 1
      /\ \A k, n, x : Has(t.pending, Rel(k, n, x)) => k = j /\ n = e /\ x = why
  BY <1>2, <1>3, <1>4, OneOwes
<1>6. Begins(t)
  BY <1>2 DEF Begins, Runs, Holds
<1> QED
  BY <1>2, <1>5, <1>6 DEF OwesOn, Owes, HoldsThat, t, f

\* What an order has an agent owe.
LEMMA OrdersOwe ==
    ASSUME NEW s \in AgentRec, Orderly(s), Lean(s), Begins(s), s.link # NoConn,
           NEW m \in OrderRec
    PROVE  /\ m.type = "cancel"
              => OwesOn(s, Cancelled(s, m), {<<m.job, m.epoch, m.why>>})
           /\ m.type = "verdict" => OwesOn(s, Answered(s, m), {})
           /\ m.type = "renewed" => OwesOn(s, Renewed(s, m), {})
           /\ ~Holds(s) => OwesOn(s, Assigned(s, m), {})
<1>1. m.type # "close" => m.job \in Job /\ m.epoch \in Nat /\ m.acked \in Int
  BY OrderKinds
<1>2. m.type # "close" /\ HoldsThat(s, m.job, m.epoch) => Holds(s)
  BY <1>1, NoJobs DEF HoldsThat, Holds
<1>3. ASSUME m.type = "cancel"
      PROVE  OwesOn(s, Cancelled(s, m), {<<m.job, m.epoch, m.why>>})
  <2>1. m.why \in Reason
    BY <1>3, OrderKinds
  <2>2. CASE HoldsThat(s, m.job, m.epoch)
    BY <1>2, <1>3, <2>1, <2>2, StoppedOwes DEF Cancelled, HoldsThat
  <2>3. CASE ~HoldsThat(s, m.job, m.epoch)
    BY <1>1, <1>3, <2>1, <2>3, QueueOwes DEF Cancelled
  <2> QED
    BY <2>2, <2>3
<1>4. OwesOn(s, s, {})
  BY SameOwes
<1>5. ASSUME m.type = "verdict" PROVE OwesOn(s, Answered(s, m), {})
  <2>1. ASSUME Holds(s) PROVE OwesOn(s, LetGo(s, "no"), {})
    <3>1. OwesOn(s, LetGo(s, "no"), {<<s.cur.job, s.cur.epoch, "no">>})
      BY <2>1, LetGoOwes
    <3>2. "no" \notin Reason
      BY DEF Reason
    <3> QED
      BY <3>1, <3>2 DEF OwesOn
  <2> QED
    BY <1>2, <1>4, <1>5, <2>1 DEF Answered
<1>6. ASSUME m.type = "renewed" PROVE OwesOn(s, Renewed(s, m), {})
  <2> DEFINE o == Ack(s.cur.out, m.acked)
             t == [s EXCEPT !.cur.out = o]
             fresh == s.cur.done = "no" /\ ~s.cur.begun
  <2>1. s.cur.out \in OutboxRec /\ s.cur.out.written <= Len(s.cur.out.evs)
        /\ fresh \in BOOLEAN
    BY DEF AgentRec, CurrentRec, Orderly
  <2>2. Runs(s) => BeginsWith(o, fresh)
    BY <1>1, <1>6, <2>1, OutboxBegins DEF Begins
  <2> HIDE DEF o
  <2>3. /\ t.pending = s.pending /\ t.cur.out = o
        /\ t.cur.job = s.cur.job /\ t.cur.epoch = s.cur.epoch
        /\ t.cur.released = s.cur.released
        /\ t.cur.done = s.cur.done /\ t.cur.begun = s.cur.begun
    BY DEF AgentRec, CurrentRec
  <2> HIDE DEF t
  <2>4. Begins(t)
    BY <2>2, <2>3 DEF Begins, Runs, Holds
  <2>5. OwesOn(s, t, {})
    BY <2>3, <2>4, SameOwes
  <2>6. Renewed(s, m) \in {s, t}
    BY DEF Renewed, t, o
  <2> QED
    BY <1>4, <2>5, <2>6
<1>7. ASSUME ~Holds(s) PROVE OwesOn(s, Assigned(s, m), {})
  <2> DEFINE cur == [Idle EXCEPT !.job = m.job, !.epoch = m.epoch]
             t == Assigned(s, m)
  <2>1. cur.released = "no" /\ cur.out.last = 0 /\ cur.out.evs = <<>>
    BY DEF Idle, EmptyOutbox
  <2> HIDE DEF cur
  <2>2. t.pending = s.pending /\ t.cur = cur
    BY <1>7 DEF Assigned, AgentRec, cur
  <2> HIDE DEF t
  <2>3. Begins(t)
    BY <2>1, <2>2 DEF Begins, BeginsWith
  <2>4. OwesOn(s, t, {})
    BY <2>1, <2>2, <2>3, SameOwes
  <2> QED
    BY <2>4 DEF t
<1> QED
  BY <1>3, <1>5, <1>6, <1>7

\* A job reports its features once, and first.
LEMMA ReportsOwe ==
    ASSUME NEW s \in AgentRec, Orderly(s), Lean(s), Begins(s), Runs(s)
    PROVE  /\ s.cur.done = "no" /\ ~s.cur.begun
              => OwesOn(s, Reports(s, "features"), {})
           /\ \A ev \in JobEvent \ {"features"}, done \in {"result", "failed"} :
                OwesOn(s, EndsWith(s, ev, done), {})
<1> DEFINE fresh == s.cur.done = "no" /\ ~s.cur.begun
<1>1. s.cur.out \in OutboxRec /\ s.cur.out.written <= Len(s.cur.out.evs)
      /\ fresh \in BOOLEAN /\ BeginsWith(s.cur.out, fresh)
  BY DEF AgentRec, CurrentRec, Orderly, Begins
<1>2. ASSUME NEW ev \in JobEvent, fresh \/ ev # "features", NEW t,
             t.cur.out = Push(s.cur.out, ev), t.pending = s.pending,
             t.cur.job = s.cur.job, t.cur.epoch = s.cur.epoch,
             t.cur.released = s.cur.released, t.cur.done # "no" \/ t.cur.begun
      PROVE  OwesOn(s, t, {})
  <2>1. BeginsWith(Push(s.cur.out, ev), FALSE)
    BY <1>1, <1>2, OutboxBegins
  <2>2. Begins(t)
    BY <1>2, <2>1 DEF Begins, BeginsWith
  <2> QED
    BY <1>2, <2>2, SameOwes
<1>3. "features" \in JobEvent
  BY DEF JobEvent
<1>4. ASSUME fresh PROVE OwesOn(s, Reports(s, "features"), {})
  <2> DEFINE t == Reports(s, "features")
             o == Push(s.cur.out, "features")
  <2>1. /\ t.cur.out = o /\ t.pending = s.pending
        /\ t.cur.job = s.cur.job /\ t.cur.epoch = s.cur.epoch
        /\ t.cur.released = s.cur.released /\ t.cur.begun
    BY DEF Reports, AgentRec, CurrentRec
  <2> HIDE DEF t, fresh
  <2> QED
    BY <1>2, <1>3, <1>4, <2>1 DEF t
<1>5. ASSUME NEW ev \in JobEvent \ {"features"}, NEW done \in {"result", "failed"}
      PROVE  OwesOn(s, EndsWith(s, ev, done), {})
  <2> DEFINE t == EndsWith(s, ev, done)
             o == Push(s.cur.out, ev)
  <2>1. /\ t.cur.out = o /\ t.pending = s.pending
        /\ t.cur.job = s.cur.job /\ t.cur.epoch = s.cur.epoch
        /\ t.cur.released = s.cur.released /\ t.cur.done # "no"
    BY DEF EndsWith, AgentRec, CurrentRec
  <2> HIDE DEF t, fresh
  <2> QED
    BY <1>2, <2>1 DEF t
<1> QED
  BY <1>4, <1>5

\* In a turn the agent goes on, and owes nothing new but what it is told or
\* what its job died of.
OwesTurn(a, t) ==
    LET s == agent[a]
        d == down[s.link]
        m == Head(d)
    IN  /\ GoesOnTo(a, t)
        /\ \/ OwesOn(s, t, {})
           \/ Runs(s) /\ OwesOn(s, t, {<<s.cur.job, s.cur.epoch, "oom">>})
           \/ /\ s.link # NoConn /\ d # <<>>
              /\ down' = [down EXCEPT ![s.link] = Tail(@)]
              /\ m \in OrderRec /\ m.type = "cancel"
              /\ OwesOn(s, t, {<<m.job, m.epoch, m.why>>})

\* What each turn of an agent has it owe.
LEMMA TurnsOwe ==
    ASSUME TypeOK, LinkInv, NEW a \in Agent, AgentTurn(a), Orderly(agent[a]),
           Lean(agent[a]), Begins(agent[a])
    PROVE  \E t \in AgentRec : OwesTurn(a, t)
<1> DEFINE s == agent[a]
           m == Next1(a)
<1>1. s \in AgentRec /\ Orderly(s) /\ Lean(s) /\ Begins(s) /\ LinkAt(a)
  BY DEF TypeOK, LinkInv
<1>2. ASSUME NEW t \in AgentRec, Turn(a, t), Continues(s, t), UNCHANGED down,
             UNCHANGED <<jobs, process, hub>>,
             \/ OwesOn(s, t, {})
             \/ Runs(s) /\ OwesOn(s, t, {<<s.cur.job, s.cur.epoch, "oom">>})
      PROVE  OwesTurn(a, t)
  BY <1>2 DEF OwesTurn, GoesOnTo, Continues
<1> HIDE DEF s
<1>3. \A ev \in JobEvent, done \in {"no", "result", "failed"} :
        /\ Reports(s, ev) \in AgentRec /\ Continues(s, Reports(s, ev))
        /\ EndsWith(s, ev, done) \in AgentRec /\ Continues(s, EndsWith(s, ev, done))
  BY <1>1, ReportsTyped, ReportsContinue
<1>4. \A why \in Reason \cup {"no"} :
        Holds(s) => LetGo(s, why) \in AgentRec /\ Continues(s, LetGo(s, why))
  BY <1>1, LetGoTyped, LetGoContinues
<1>5. {"features", "result", "denied", "failed"} \subseteq JobEvent
  BY DEF JobEvent, Terminal
<1>6. CASE JobProgress(a)
  <2>1. Runs(s) /\ s.cur.done = "no" /\ ~s.cur.begun
    BY <1>6 DEF JobProgress, Working, s
  <2>2. OwesOn(s, Reports(s, "features"), {})
    BY <1>1, <2>1, ReportsOwe
  <2> QED
    BY <1>2, <1>3, <1>5, <1>6, <2>2 DEF JobProgress, s
<1>7. CASE JobFinished(a)
  <2>1. Holds(s) /\ Runs(s)
    BY <1>7 DEF JobFinished, Working, Runs, s
  <2>2. "oom" \in Reason
    BY DEF Reason
  <2>3. UNCHANGED <<jobs, process, hub, down>>
    BY <1>7 DEF JobFinished
  <2>4. \/ Turn(a, EndsWith(s, "result", "result"))
        \/ Turn(a, EndsWith(s, "denied", "failed"))
        \/ Turn(a, EndsWith(s, "failed", "failed"))
        \/ Turn(a, LetGo(s, "oom"))
    BY <1>7 DEF JobFinished, s
  <2>5. \A ev \in {"result", "denied", "failed"}, done \in {"result", "failed"} :
          OwesOn(s, EndsWith(s, ev, done), {})
    BY <1>1, <1>5, <2>1, ReportsOwe
  <2>6. OwesOn(s, LetGo(s, "oom"), {<<s.cur.job, s.cur.epoch, "oom">>})
    BY <1>1, <2>1, <2>2, LetGoOwes
  <2> QED
    BY <1>2, <1>3, <1>4, <1>5, <2>1, <2>2, <2>3, <2>4, <2>5, <2>6
<1>8. CASE JobKilled(a)
  <2>1. Holds(s) /\ s.cur.released \in Reason
    BY <1>1, <1>8 DEF JobKilled, Runs, s, AgentRec, CurrentRec
  <2>2. Turn(a, LetGo(s, s.cur.released))
        /\ UNCHANGED <<jobs, process, hub, down>>
    BY <1>8 DEF JobKilled, s
  <2> DEFINE t == LetGo(s, s.cur.released)
  <2>3. OwesOn(s, t, {<<s.cur.job, s.cur.epoch, s.cur.released>>})
    BY <1>1, <2>1, LetGoOwes
  <2> HIDE DEF t
  <2>4. OwesOn(s, t, {})
    BY <2>3 DEF OwesOn, Owes, HoldsThat
  <2> QED
    BY <1>2, <1>4, <2>1, <2>2, <2>4 DEF t
<1>9. CASE HoldExpires(a)
  <2>1. Holds(s) /\ Turn(a, LetGo(s, "no"))
        /\ UNCHANGED <<jobs, process, hub, down>>
    BY <1>9 DEF HoldExpires, s
  <2>2. "no" \notin Reason
    BY DEF Reason
  <2> DEFINE t == LetGo(s, "no")
  <2>3. OwesOn(s, t, {<<s.cur.job, s.cur.epoch, "no">>})
    BY <1>1, <2>1, LetGoOwes
  <2> HIDE DEF t
  <2>4. OwesOn(s, t, {})
    BY <2>2, <2>3 DEF OwesOn
  <2> QED
    BY <1>2, <1>4, <2>1, <2>4 DEF t
<1>10. CASE OnOrder(a)
  <2>1. \A type : Reads(a, type) =>
           /\ s.link \in Conn /\ m \in OrderRec /\ m.type = type
    BY ReadTyped DEF s
  <2>2. /\ UNCHANGED <<jobs, process, hub>>
        /\ s.link # NoConn /\ down[s.link] # <<>>
        /\ down' = [down EXCEPT ![s.link] = Tail(@)]
    BY <1>10 DEF OnOrder, Reads, s
  <2>3. m = Head(down[s.link])
    BY DEF Next1, s
  <2>4. \/ Reads(a, "assign") /\ Turn(a, Assigned(s, m))
        \/ Reads(a, "cancel") /\ Turn(a, Cancelled(s, m))
        \/ Reads(a, "verdict") /\ Turn(a, Answered(s, m))
        \/ Reads(a, "renewed") /\ Turn(a, Renewed(s, m))
    BY <1>10 DEF OnOrder, s
  <2> HIDE DEF m
  <2>5. ASSUME NEW t \in AgentRec, Turn(a, t), Continues(s, t),
               \/ OwesOn(s, t, {})
               \/ /\ m \in OrderRec /\ m.type = "cancel"
                  /\ OwesOn(s, t, {<<m.job, m.epoch, m.why>>})
        PROVE  OwesTurn(a, t)
    BY <2>2, <2>3, <2>5 DEF OwesTurn, GoesOnTo, Continues, s
  <2>6. CASE Reads(a, "assign") /\ Turn(a, Assigned(s, m))
    <3>1. m \in OrderRec /\ m.type = "assign"
      BY <2>1, <2>6
    <3>2. ~Holds(s)
      <4>1. down[s.link] \in Seq(OrderRec)
        BY <2>1, <2>6 DEF TypeOK
      <4>2. ~None(down[s.link], "assign")
        BY <2>2, <2>3, <3>1, <4>1, Tails
      <4>3. OneToken(conn[s.link].ready, up[s.link], down[s.link], Holds(s))
        BY <1>1, <2>2 DEF LinkAt, s
      <4> QED
        BY <4>2, <4>3 DEF OneToken
    <3>3. LET t == Assigned(s, m) IN
          /\ t.link = s.link /\ Orderly(t) /\ t.cur.out.last = 0
          /\ t.cur.job = m.job /\ t.cur.epoch = m.epoch
      BY <1>1, <3>2, AssignedBegins
    <3>4. Assigned(s, m) \in AgentRec
      BY <1>1, <3>1, AssignedTyped
    <3>5. OwesOn(s, Assigned(s, m), {})
      BY <1>1, <2>2, <3>1, <3>2, OrdersOwe
    <3> QED
      BY <2>2, <2>3, <2>6, <3>1, <3>2, <3>3, <3>4, <3>5 DEF OwesTurn, GoesOnTo, s
  <2>7. CASE Reads(a, "cancel") /\ Turn(a, Cancelled(s, m))
    <3>1. m \in OrderRec /\ m.type = "cancel"
      BY <2>1, <2>7
    <3> QED
      BY <1>1, <2>2, <2>5, <2>7, <3>1, CancelledTyped, OrdersContinue, OrdersOwe
  <2>8. CASE Reads(a, "verdict") /\ Turn(a, Answered(s, m))
    <3>1. m \in OrderRec /\ m.type = "verdict"
      BY <2>1, <2>8
    <3> QED
      BY <1>1, <2>2, <2>5, <2>8, <3>1, AnsweredTyped, OrdersContinue, OrdersOwe
  <2>9. CASE Reads(a, "renewed") /\ Turn(a, Renewed(s, m))
    <3>1. m \in OrderRec /\ m.type = "renewed"
      BY <2>1, <2>9
    <3> QED
      BY <1>1, <2>2, <2>5, <2>9, <3>1, RenewedTyped, OrdersContinue, OrdersOwe
  <2> QED
    BY <2>4, <2>6, <2>7, <2>8, <2>9
<1> QED
  BY <1>6, <1>7, <1>8, <1>9, <1>10 DEF AgentTurn

\* The flush that ends a turn writes down all that waited.
LEMMA FlushOwes ==
    ASSUME NEW s \in AgentRec, Orderly(s), Begins(s), Len(s.pending) <= 1
    PROVE  LET u == AfterFlush(s)
               q == FramesOf(s)
           IN  /\ Lean(u) /\ Begins(u) /\ FirstIn(q)
               /\ \A j \in Job, e \in Nat, x \in Reason :
                    /\ Owes(u, j, e, x)
                       => HoldsThat(s, j, e) /\ s.cur.released = x
                    /\ Has(q, Rel(j, e, x)) => Has(s.pending, Rel(j, e, x))
                    /\ Few(q, Rel(j, e, x))
               /\ u.pending = <<>>
<1> DEFINE u == AfterFlush(s)
           v == AfterEvents(s)
           ready == <<Frame("ready", NoJob, 0, 0, "none")>>
           p == IF OwesReady(v) THEN ready ELSE <<>>
           q == EventFrames(s)
<1>1. v \in AgentRec
  BY AfterEventsTyped
<1>2. \/ v.cur = Idle
      \/ /\ v.cur.job = s.cur.job /\ v.cur.epoch = s.cur.epoch
         /\ v.cur.released = s.cur.released
  BY DEF AfterEvents, AgentRec, CurrentRec
<1> HIDE DEF v
<1>3. u.cur = v.cur /\ u.pending = <<>>
  <2>1. u = [v EXCEPT !.pending = <<>>, !.ready = @ /\ Holds(v)]
    BY DEF AfterFlush, v
  <2> QED
    BY <1>1, <2>1 DEF AgentRec
<1> HIDE DEF u
<1>4. Lean(u)
  <2>1. Len(<<>>) <= 1
    OBVIOUS
  <2> QED
    BY <1>3, <2>1 DEF Lean
<1>5. ASSUME NEW j \in Job, NEW e \in Nat, NEW x \in Reason, Owes(u, j, e, x)
      PROVE  HoldsThat(s, j, e) /\ s.cur.released = x
  <2>1. HoldsThat(u, j, e) /\ u.cur.released = x
    BY <1>3, <1>5, FewIn DEF Owes
  <2>2. Idle.job = NoJob
    BY DEF Idle
  <2> QED
    BY <1>2, <1>3, <2>1, <2>2, NoJobs DEF HoldsThat
<1>6. FirstIn(FramesOf(s)) /\ Begins(u)
  BY FlushBegins DEF u
<1>7. /\ s.pending \in Seq(FrameRec) /\ q \in Seq(FrameRec) /\ p \in Seq(FrameRec)
      /\ \A k \in DOMAIN q : q[k].type = "event"
      /\ \A k \in DOMAIN p : p[k].type = "ready"
  <2>1. Frame("ready", NoJob, 0, 0, "none") \in FrameRec
    BY DEF FrameRec
  <2>2. ready \in Seq(FrameRec)
    BY <2>1
  <2>3. \A k \in DOMAIN q : q[k].type = "event"
    BY DEF EventFrames, Frame
  <2>4. \A k \in DOMAIN p : p[k].type = "ready"
    BY DEF Frame
  <2> QED
    BY <2>2, <2>3, <2>4, EventFramesTyped DEF AgentRec
<1>8. FramesOf(s) = (s.pending \o q) \o p
  BY DEF FramesOf, v
<1> HIDE DEF p, q
<1>9. ASSUME NEW j \in Job, NEW e \in Nat, NEW x \in Reason
      PROVE  /\ Has(FramesOf(s), Rel(j, e, x)) => Has(s.pending, Rel(j, e, x))
             /\ Few(FramesOf(s), Rel(j, e, x))
  <2> DEFINE S == Rel(j, e, x)
  <2>1. ~Has(q, S) /\ ~Has(p, S)
    BY <1>7 DEF Rel, Has
  <2>2. Few(s.pending, S)
    <3>1. \A k \in DOMAIN s.pending : k = 1
      BY <1>7
    <3> QED
      BY <3>1 DEF Few
  <2> HIDE DEF S
  <2> DEFINE r == s.pending \o q
  <2>3. r \in Seq(FrameRec)
    BY <1>7
  <2>4. Few(r, S) /\ (Has(r, S) => Has(s.pending, S))
    BY <1>7, <2>1, <2>2, FewJoins
  <2> HIDE DEF r
  <2>5. /\ Few(r \o p, S)
        /\ Has(r \o p, S) => Has(s.pending, S)
    BY <1>7, <2>1, <2>3, <2>4, FewJoins
  <2> QED
    BY <1>8, <2>5 DEF S, r
<1> QED
  BY <1>3, <1>4, <1>5, <1>6, <1>9 DEF u

-----------------------------------------------------------------------------
\* Where the reason x to let attempt e of job j go may be, a being its agent:
\* in the lease's log, on a channel of the agent, in an order to it, or with it.
Log(a, j, e, x) == /\ lease[j].agent = a /\ lease[j].epoch = e
                   /\ Has(lease[j].events, {x})
Out(a, c, j, e, x) == conn[c].agent = a /\ Has(up[c], Rel(j, e, x))
Due(a, j, e, x) == /\ agent[a].link # NoConn
                   /\ Has(down[agent[a].link], Can(j, e, x))
Owed(a, j, e, x) == Owes(agent[a], j, e, x)

Unsaid(a, j, e, x) == /\ ~Log(a, j, e, x)
                      /\ \A c \in Conn : ~Out(a, c, j, e, x)
Clear(a, j, e, x) == /\ Unsaid(a, j, e, x)
                     /\ ~Due(a, j, e, x) /\ ~Owed(a, j, e, x)

\* The agent runs the attempt, or is to.
Takes(a, j, e) == \/ Runs(agent[a]) /\ HoldsThat(agent[a], j, e)
                  \/ /\ agent[a].link # NoConn
                     /\ Assigns(down[agent[a].link], j, e)

\* What the hub has told the agent of lease l, or may hear of it unasked.
Told(l, x) == \/ x = "oom"
              \/ x = "cancelled" /\ l.cancelled
              \/ x = "reroute" /\ l.rerouting

\* The agent is on its lease's channel, and x is not what it was told.
Attends(a, j, e, x) ==
    LET l == lease[j] IN
    /\ l.agent = a /\ l.epoch = e
    /\ l.conn # NoConn /\ l.conn = agent[a].link
    /\ ~Told(l, x)

\* It is in one place at most, in none while the agent has the job to run,
\* and in none before the hub has told the agent.
Once(a, j, e, x) ==
    /\ lease[j].agent = a /\ lease[j].epoch = e => Few(lease[j].events, {x})
    /\ \A c \in Conn : conn[c].agent = a => Few(up[c], Rel(j, e, x))
    /\ agent[a].link # NoConn => Few(down[agent[a].link], Can(j, e, x))
    /\ \A c, d \in Conn : Out(a, c, j, e, x) /\ Out(a, d, j, e, x) => c = d
    /\ \A c \in Conn : Out(a, c, j, e, x) => ~Log(a, j, e, x)
    /\ Due(a, j, e, x) \/ Owed(a, j, e, x) => Unsaid(a, j, e, x)
    /\ ~(Due(a, j, e, x) /\ Owed(a, j, e, x))
    /\ Takes(a, j, e) => Unsaid(a, j, e, x)
    /\ Attends(a, j, e, x) => Clear(a, j, e, x)

\* A step puts it nowhere.
LogLess(a, j, e, x) ==
    /\ Log(a, j, e, x)' => Log(a, j, e, x)
    /\ lease'[j].agent = a /\ lease'[j].epoch = e => Few(lease'[j].events, {x})
OutLess(a, c, j, e, x) ==
    /\ Out(a, c, j, e, x)' => Out(a, c, j, e, x)
    /\ conn'[c].agent = a => Few(up'[c], Rel(j, e, x))
DueLess(a, j, e, x) ==
    /\ Due(a, j, e, x)' => Due(a, j, e, x)
    /\ agent'[a].link # NoConn => Few(down'[agent'[a].link], Can(j, e, x))

\* A step that puts the word nowhere keeps it in one place.
LEMMA LessOnce ==
    ASSUME NEW a, NEW j, NEW e, NEW x, Once(a, j, e, x), LogLess(a, j, e, x),
           \A c \in Conn : OutLess(a, c, j, e, x), DueLess(a, j, e, x),
           Owed(a, j, e, x)' => Owed(a, j, e, x),
           Takes(a, j, e)' => Takes(a, j, e),
           Attends(a, j, e, x)' => Attends(a, j, e, x) \/ Clear(a, j, e, x)
    PROVE  Once(a, j, e, x)'
<1>1. Unsaid(a, j, e, x) => Unsaid(a, j, e, x)'
  BY DEF LogLess, OutLess, Unsaid
<1>2. Clear(a, j, e, x) => Clear(a, j, e, x)'
  BY <1>1 DEF DueLess, Clear
<1>3. Attends(a, j, e, x)' => Clear(a, j, e, x)'
  BY <1>2 DEF Once
<1>4. Takes(a, j, e)' => Unsaid(a, j, e, x)'
  BY <1>1 DEF Once
<1>5. /\ Due(a, j, e, x)' \/ Owed(a, j, e, x)' => Unsaid(a, j, e, x)'
      /\ ~(Due(a, j, e, x)' /\ Owed(a, j, e, x)')
  BY <1>1 DEF Once, DueLess
<1>6. /\ \A c, d \in Conn : Out(a, c, j, e, x)' /\ Out(a, d, j, e, x)' => c = d
      /\ \A c \in Conn : Out(a, c, j, e, x)' => ~Log(a, j, e, x)'
  BY DEF Once, OutLess, LogLess
<1> QED
  BY <1>3, <1>4, <1>5, <1>6 DEF Once, LogLess, OutLess, DueLess

\* A lease goes on, perhaps without its channel, or is gone or new.
Fades(l, m) ==
    \/ m.events = <<>> /\ m.conn = NoConn
    \/ /\ m.agent = l.agent /\ m.epoch = l.epoch /\ m.conn \in {l.conn, NoConn}
       /\ l.cancelled => m.cancelled
       /\ l.rerouting => m.rerouting
       /\ \/ m.events = l.events
          \/ \E ev \in JobEvent : m.events = Append(l.events, ev)

\* A lease that fades takes no word.
LEMMA FadesLess ==
    ASSUME TypeOK, NEW j \in Job, Fades(lease[j], lease'[j]),
           NEW a, NEW e, NEW x \in Reason, Once(a, j, e, x)
    PROVE  /\ LogLess(a, j, e, x)
           /\ agent'[a].link \in {agent[a].link, NoConn}
              => (Attends(a, j, e, x)' => Attends(a, j, e, x))
<1> DEFINE l == lease[j]
           m == lease'[j]
<1>1. l.events \in Seq(JobEvent \cup Reason)
  BY DEF TypeOK, LeaseRec
<1>2. x \notin JobEvent
  BY DEF JobEvent, Terminal, Reason
<1>3. \/ m.events = <<>> \/ m.events = l.events
      \/ \E ev \in JobEvent : m.events = Append(l.events, ev)
      => (Has(m.events, {x}) => Has(l.events, {x}))
         /\ (Few(l.events, {x}) => Few(m.events, {x}))
  <2>1. ASSUME NEW ev \in JobEvent
        PROVE  /\ Has(Append(l.events, ev), {x}) => Has(l.events, {x})
               /\ Few(l.events, {x}) => Few(Append(l.events, ev), {x})
    <3>1. ev \notin {x} /\ ev \in JobEvent \cup Reason
      BY <1>2
    <3> QED
      BY <1>1, <3>1, FewAppends
  <2> HIDE DEF l, m
  <2> QED
    BY <2>1, FewIn
<1>4. LogLess(a, j, e, x)
  <2>1. Log(a, j, e, x)' <=> m.agent = a /\ m.epoch = e /\ Has(m.events, {x})
    BY DEF Log
  <2>2. m.events = <<>> => ~Has(m.events, {x}) /\ Few(m.events, {x})
    BY FewIn
  <2> QED
    BY <1>3, <2>1, <2>2 DEF LogLess, Log, Once, Fades
<1>5. agent'[a].link \in {agent[a].link, NoConn}
      => (Attends(a, j, e, x)' => Attends(a, j, e, x))
  BY DEF Attends, Told, Fades
<1> QED
  BY <1>4, <1>5

-----------------------------------------------------------------------------
\* Steps that let nobody's job go.

\* An order that neither gives a job nor takes it is sent, or none.
Calm(d, e) == \/ e = d
              \/ \E m \in OrderRec : /\ m.type \notin {"assign", "cancel"}
                                     /\ e = Append(d, m)

\* Cancels come after their job's `assign`, and for no death of memory.
CancelsAfter(d) ==
    /\ \A k \in DOMAIN d : d[k].type = "cancel" => d[k].why # "oom"
    /\ \A k, n \in DOMAIN d :
         /\ d[k].type = "cancel" /\ d[n].type = "assign"
         /\ d[k].job = d[n].job /\ d[k].epoch = d[n].epoch
         => n < k

\* Another order, and one read, keep cancels behind their `assign`.
LEMMA AppendCancels ==
    ASSUME NEW d \in Seq(OrderRec), NEW m \in OrderRec, CancelsAfter(d),
           m.type = "cancel" => m.why # "oom",
           m.type = "assign" => \A x : ~Has(d, Can(m.job, m.epoch, x))
    PROVE  CancelsAfter(Append(d, m))
<1> DEFINE e == Append(d, m)
           n == Len(d)
<1>1. /\ DOMAIN e = 1 .. n + 1 /\ DOMAIN d = 1 .. n /\ n \in Nat
      /\ \A k \in 1 .. n : e[k] = d[k] /\ d[k] \in OrderRec
      /\ e[n + 1] = m
  OBVIOUS
<1> HIDE DEF e, n
<1>2. \A k \in DOMAIN e : \/ k \in DOMAIN d /\ e[k] = d[k]
                          \/ k = n + 1 /\ e[k] = m
  BY <1>1
<1>3. \A k \in DOMAIN d : k < n + 1 /\ e[k] = d[k] /\ d[k] \in OrderRec
  BY <1>1
<1>4. \A k \in DOMAIN e : e[k].type = "cancel" => e[k].why # "oom"
  BY <1>2 DEF CancelsAfter
<1>5. ASSUME NEW k \in DOMAIN e, NEW l \in DOMAIN e,
             e[k].type = "cancel", e[l].type = "assign",
             e[k].job = e[l].job, e[k].epoch = e[l].epoch
      PROVE  l < k
  <2>1. CASE k = n + 1
    <3>1. l # n + 1
      BY <1>1, <1>5, <2>1
    <3> QED
      BY <1>2, <1>3, <2>1, <3>1
  <2>2. CASE l = n + 1 /\ k # n + 1
    <3>1. k \in DOMAIN d /\ e[k] = d[k] /\ d[k] \in OrderRec /\ e[l] = m
      BY <1>1, <1>2, <1>3, <2>2
    <3>2. d[k] \in Can(m.job, m.epoch, d[k].why)
      BY <1>5, <3>1 DEF Can
    <3> QED
      BY <1>5, <3>1, <3>2 DEF Has
  <2>3. CASE k # n + 1 /\ l # n + 1
    BY <1>2, <1>5, <2>3 DEF CancelsAfter
  <2> QED
    BY <2>1, <2>2, <2>3
<1> QED
  BY <1>4, <1>5 DEF CancelsAfter, e

\* And what is left is not assigned by what comes after a cancel.
LEMMA TailCancels ==
    ASSUME NEW d \in Seq(OrderRec), d # <<>>, CancelsAfter(d)
    PROVE  /\ CancelsAfter(Tail(d))
           /\ Head(d).type = "cancel"
              => /\ Head(d).why # "oom"
                 /\ ~Assigns(Tail(d), Head(d).job, Head(d).epoch)
<1> DEFINE e == Tail(d)
           n == Len(d)
<1>1. /\ DOMAIN e = 1 .. n - 1 /\ DOMAIN d = 1 .. n /\ n \in Nat /\ n > 0
      /\ \A k \in 1 .. n - 1 : e[k] = d[k + 1]
      /\ Head(d) = d[1]
  OBVIOUS
<1> HIDE DEF e, n
<1>2. \A k \in DOMAIN e : /\ k + 1 \in DOMAIN d /\ e[k] = d[k + 1]
                          /\ k \in Int /\ k + 1 > 1
  BY <1>1
<1>3. 1 \in DOMAIN d
  BY <1>1
<1>4. \A k \in DOMAIN e : e[k].type = "cancel" => e[k].why # "oom"
  BY <1>2 DEF CancelsAfter
<1>5. ASSUME NEW k \in DOMAIN e, NEW l \in DOMAIN e,
             e[k].type = "cancel", e[l].type = "assign",
             e[k].job = e[l].job, e[k].epoch = e[l].epoch
      PROVE  l < k
  <2>1. l + 1 < k + 1
    BY <1>2, <1>5 DEF CancelsAfter
  <2> QED
    BY <1>2, <2>1
<1>6. ASSUME Head(d).type = "cancel"
      PROVE  Head(d).why # "oom" /\ ~Assigns(e, Head(d).job, Head(d).epoch)
  <2>1. Head(d).why # "oom"
    BY <1>1, <1>3, <1>6 DEF CancelsAfter
  <2>2. ASSUME NEW k \in DOMAIN e, e[k].type = "assign",
               e[k].job = Head(d).job, e[k].epoch = Head(d).epoch
        PROVE  FALSE
    <3>1. k + 1 < 1
      BY <1>1, <1>2, <1>3, <1>6, <2>2 DEF CancelsAfter
    <3> QED
      BY <1>2, <3>1
  <2> QED
    BY <2>1, <2>2 DEF Assigns
<1> QED
  BY <1>4, <1>5, <1>6 DEF CancelsAfter, e

\* Orders d become f, and none is new that gives the job or lets it go for x.
Spares(d, f, j, e, x) ==
    /\ Has(f, Can(j, e, x)) => Has(d, Can(j, e, x))
    /\ Few(d, Can(j, e, x)) => Few(f, Can(j, e, x))
    /\ Assigns(f, j, e) => Assigns(d, j, e)

\* An order that is not the cancel in question spares it.
LEMMA AppendSpares ==
    ASSUME NEW d \in Seq(OrderRec), NEW m \in OrderRec, m.type # "assign",
           NEW j, NEW e, NEW x, m \notin Can(j, e, x)
    PROVE  Spares(d, Append(d, m), j, e, x)
BY FewAppends, AssignsOn DEF Spares

\* Orders that are neither an `assign` nor a cancel spare every cancel.
LEMMA CalmOrders ==
    ASSUME NEW d \in Seq(OrderRec), NEW f, Calm(d, f)
    PROVE  /\ CancelsAfter(d) => CancelsAfter(f)
           /\ \A j, e, x : Spares(d, f, j, e, x)
<1>1. CASE f = d
  BY <1>1 DEF Spares
<1>2. ASSUME NEW m \in OrderRec, m.type \notin {"assign", "cancel"},
             f = Append(d, m)
      PROVE  /\ CancelsAfter(d) => CancelsAfter(f)
             /\ \A j, e, x : Spares(d, f, j, e, x)
  <2>1. \A j, e, x : m \notin Can(j, e, x)
    BY <1>2 DEF Can
  <2> QED
    BY <1>2, <2>1, AppendSpares, AppendCancels
<1> QED
  BY <1>1, <1>2 DEF Calm

\* A channel is read, or given a frame that lets no job go, or closed.
UpCalm(c) ==
    /\ conn'[c] = NoChannel \/ conn'[c].agent = conn[c].agent
    /\ \/ UpQuiet(c)
       \/ \E f \in FrameRec : f.type # "released" /\ up'[c] = Append(up[c], f)

\* Frames that release nothing leave what is out as it was.
LEMMA CalmFrames ==
    ASSUME TypeOK, NEW c \in Conn, UpCalm(c), NEW a \in Agent, NEW j, NEW e,
           NEW x, Once(a, j, e, x)
    PROVE  OutLess(a, c, j, e, x)
<1> DEFINE S == Rel(j, e, x)
           q == up[c]
           r == up'[c]
<1>1. NoChannel.agent # a
  BY StoreAssumption DEF NoChannel
<1>2. q \in Seq(FrameRec)
  BY DEF TypeOK
<1>3. (Has(r, S) => Has(q, S)) /\ (Few(q, S) => Few(r, S))
  <2>1. \A f \in FrameRec : f.type # "released" => f \notin S
    BY DEF Rel
  <2>2. \/ r = q
        \/ r = <<>>
        \/ q # <<>> /\ r = Tail(q)
        \/ \E f \in FrameRec : f \notin S /\ r = Append(q, f)
    BY <2>1 DEF UpCalm, UpQuiet
  <2> HIDE DEF S, q, r
  <2>3. r = <<>> => ~Has(r, S) /\ Few(r, S)
    BY FewIn
  <2> QED
    BY <1>2, <2>2, <2>3, FewTails, FewAppends
<1> QED
  BY <1>1, <1>3 DEF OutLess, Out, Once, UpCalm

\* What the agent is goes on, perhaps without its channel.
AgentFades(s, t) ==
    /\ t.link \in {s.link, NoConn}
    /\ \A j \in Job, e \in Nat, x \in Reason : Owes(t, j, e, x) => Owes(s, j, e, x)
    /\ \A j \in Job, e \in Nat :
         Runs(t) /\ HoldsThat(t, j, e) => Runs(s) /\ HoldsThat(s, j, e)

\* A step in which an agent, a lease and a channel fade or rest.
LEMMA CalmOnce ==
    ASSUME TypeOK, NEW a \in Agent, AgentFades(agent[a], agent'[a]),
           \A c \in Conn : UpCalm(c),
           NEW j \in Job, Fades(lease[j], lease'[j]),
           NEW e \in Nat, NEW x \in Reason, Once(a, j, e, x),
           agent'[a].link # NoConn
             => Spares(down[agent[a].link], down'[agent[a].link], j, e, x)
    PROVE  Once(a, j, e, x)'
<1> DEFINE s == agent[a]
           t == agent'[a]
<1>1. s.link \in Conn \cup {NoConn}
      /\ \A c \in Conn : down[c] \in Seq(OrderRec)
  BY DEF TypeOK, AgentRec
<1>2. t.link # NoConn
      => /\ t.link = s.link /\ s.link \in Conn
         /\ Has(down'[s.link], Can(j, e, x)) => Has(down[s.link], Can(j, e, x))
         /\ Few(down[s.link], Can(j, e, x)) => Few(down'[s.link], Can(j, e, x))
         /\ Assigns(down'[s.link], j, e) => Assigns(down[s.link], j, e)
  BY <1>1 DEF AgentFades, Spares
<1>3. DueLess(a, j, e, x)
  BY <1>2 DEF DueLess, Due, Once
<1>4. Takes(a, j, e)' => Takes(a, j, e)
  BY <1>2 DEF Takes, AgentFades
<1>5. Owed(a, j, e, x)' => Owed(a, j, e, x)
  BY DEF Owed, AgentFades
<1>6. /\ LogLess(a, j, e, x)
      /\ Attends(a, j, e, x)' => Attends(a, j, e, x)
  BY FadesLess DEF AgentFades
<1>7. \A c \in Conn : OutLess(a, c, j, e, x)
  BY CalmFrames
<1> QED
  BY <1>3, <1>4, <1>5, <1>6, <1>7, LessOnce

-----------------------------------------------------------------------------
\* The runners.

\* What a runner knows of what its agent was told.
KnowsAt(j) ==
    LET l == lease[j]  r == runner[j] IN
    /\ r.pc = "running" => /\ l.rerouting => r.to # NoClass
                           /\ l.cancelled => r.cancelSent
    /\ r.pc \in {"leased", "orphan"} => ~l.rerouting /\ ~l.cancelled

\* The step has the agent let its job go for x, which it was not told before.
Tells(j, x) ==
    /\ down' = Sent(lease[j].conn, CancelOrder(j, lease[j].epoch, x))
    /\ ~Told(lease[j], x)
    /\ lease'[j].conn = NoConn \/ Told(lease'[j], x)

\* What has a lease fade.
LEMMA FadesForms ==
    ASSUME NEW l \in LeaseRec
    PROVE  /\ Fades(l, l) /\ Fades(l, NoLease)
           /\ Fades(l, [l EXCEPT !.cancelled = TRUE])
           /\ Fades(l, [l EXCEPT !.rerouting = TRUE])
           /\ Fades(l, [l EXCEPT !.uploads = TRUE])
           /\ \A time : Fades(l, [l EXCEPT !.time = time])
           /\ \A time, hot : Fades(l, [l EXCEPT !.time = time, !.hot = hot])
           /\ Fades(l, [l EXCEPT !.conn = NoConn])
           /\ \A a, e : Fades(l, NewLease(NoConn, a, e))
BY DEF Fades, LeaseRec, NoLease, NewLease

\* The runners have leases fade, but for a claim.
LEMMA RunnersFade ==
    ASSUME TypeOK, NEW j \in Job, RunnerStep(j), ~Claim(j), NEW k \in Job
    PROVE  Fades(lease[k], lease'[k])
<1>1. RunnerLeaves(j) /\ lease[k] \in LeaseRec
  BY RunnersLeave DEF TypeOK
<1>2. lease'[k] \in {lease[k], NoLease, [lease[k] EXCEPT !.cancelled = TRUE],
                     [lease[k] EXCEPT !.rerouting = TRUE],
                     [lease[k] EXCEPT !.time = "lost"]}
  BY <1>1 DEF RunnerLeaves, TypeOK
<1>3. /\ Fades(lease[k], lease[k]) /\ Fades(lease[k], NoLease)
      /\ Fades(lease[k], [lease[k] EXCEPT !.cancelled = TRUE])
      /\ Fades(lease[k], [lease[k] EXCEPT !.rerouting = TRUE])
      /\ Fades(lease[k], [lease[k] EXCEPT !.time = "lost"])
  BY <1>1, FadesForms
<1> QED
  BY <1>2, <1>3

\* An order sent that is neither an `assign` nor a cancel.
LEMMA SentCalm ==
    ASSUME TypeOK, NEW c, NEW m \in OrderRec, m.type \notin {"assign", "cancel"},
           down' = Sent(c, m) \/ UNCHANGED down
    PROVE  \A k \in Conn : Calm(down[k], down'[k])
<1>1. ASSUME NEW k \in Conn
      PROVE  down'[k] \in {down[k], Append(down[k], m)}
  BY DEF Sent, TypeOK
<1> QED
  BY <1>1 DEF Calm

\* A runner tells an agent to stop once, or tells it nothing of the kind.
LEMMA RunnersTell ==
    ASSUME TypeOK, NEW j \in Job, KnowsAt(j), RunnerStep(j), ~Claim(j)
    PROVE  \/ \A k \in Conn : Calm(down[k], down'[k])
           \/ \E x \in Reason \ {"oom"} : Tells(j, x)
<1>1. lease \in [Job -> LeaseRec] /\ runner[j] \in RunnerRec
      /\ lease[j] \in LeaseRec
  BY DEF TypeOK
<1>2. {"cancelled", "reroute", "lease_lost"} \subseteq Reason \ {"oom"}
  BY DEF Reason
<1>3. CASE UNCHANGED down
  BY <1>3 DEF Calm
<1>4. CASE RunOrphan(j)
  <2>1. \/ UNCHANGED down
        \/ /\ down' = Sent(lease[j].conn,
                           CancelOrder(j, lease[j].epoch, "cancelled"))
           /\ lease' = [lease EXCEPT ![j] = NoLease] /\ runner[j].pc = "orphan"
    BY <1>4 DEF RunOrphan, At
  <2>2. ASSUME lease' = [lease EXCEPT ![j] = NoLease] PROVE lease'[j].conn = NoConn
    BY <1>1, <2>2 DEF NoLease, NewLease
  <2>3. runner[j].pc = "orphan" => ~Told(lease[j], "cancelled")
    BY DEF KnowsAt, Told
  <2> QED
    BY <1>2, <1>3, <2>1, <2>2, <2>3 DEF Tells
<1>5. CASE OnFeatures(j)
  <2>1. \/ UNCHANGED down
        \/ /\ runner[j].to = NoClass /\ runner[j].pc = "running"
           /\ lease' = [lease EXCEPT ![j].rerouting = TRUE]
           /\ down' = Sent(lease[j].conn,
                           CancelOrder(j, lease[j].epoch, "reroute"))
    BY <1>5 DEF OnFeatures, Received, At
  <2>2. lease' = [lease EXCEPT ![j].rerouting = TRUE] => lease'[j].rerouting
    BY <1>1 DEF LeaseRec
  <2>3. runner[j].to = NoClass /\ runner[j].pc = "running"
        => ~Told(lease[j], "reroute")
    BY DEF KnowsAt, Told
  <2> QED
    BY <1>2, <1>3, <2>1, <2>2, <2>3 DEF Tells, Told
<1>6. CASE NoticeCancel(j)
  <2>1. /\ ~runner[j].cancelSent /\ runner[j].pc = "running"
        /\ lease' = [lease EXCEPT ![j].cancelled = TRUE]
        /\ down' = Sent(lease[j].conn,
                        CancelOrder(j, lease[j].epoch, "cancelled"))
    BY <1>6 DEF NoticeCancel, At
  <2>2. lease'[j].cancelled
    BY <1>1, <2>1 DEF LeaseRec
  <2>3. ~Told(lease[j], "cancelled")
    BY <2>1 DEF KnowsAt, Told
  <2> QED
    BY <1>2, <2>1, <2>2, <2>3 DEF Tells, Told
<1>7. CASE RunnerPanics(j)
  <2>1. /\ \/ UNCHANGED down
           \/ down' = Sent(lease[j].conn,
                           CancelOrder(j, lease[j].epoch, "lease_lost"))
        /\ lease' = [lease EXCEPT ![j] = NoLease]
    BY <1>7 DEF RunnerPanics
  <2>2. lease'[j].conn = NoConn
    BY <1>1, <2>1 DEF NoLease, NewLease
  <2>3. ~Told(lease[j], "lease_lost")
    BY DEF Told
  <2> QED
    BY <1>2, <1>3, <2>1, <2>2, <2>3 DEF Tells
<1>8. CASE ~(\/ RunOrphan(j) \/ OnFeatures(j) \/ NoticeCancel(j)
             \/ RunnerPanics(j))
  <2>1. \/ UNCHANGED down
        \/ Verdict(j, TRUE) \/ Verdict(j, FALSE)
        \/ down' = Sent(lease[j].conn, CloseOrder)
    <3>1. CASE OnResult(j)
      BY <3>1 DEF OnResult, Registers
    <3>2. CASE ~OnResult(j)
      BY <1>8, <3>2 DEF RunnerStep, Start, GiveUp, SaveLeased, Publish,
         Registered, OnError, OnRelease, LetLeaseGo, FindExpired, EndLease,
         StoreRequeue
    <3> QED
      BY <3>1, <3>2
  <2>2. ASSUME NEW accepted \in BOOLEAN, Verdict(j, accepted)
        PROVE  \A k \in Conn : Calm(down[k], down'[k])
    <3> DEFINE m == VerdictOrder(j, lease[j].epoch, accepted)
    <3>1. down' = Sent(lease[j].conn, m)
      BY <2>2 DEF Verdict
    <3>2. m \in OrderRec /\ m.type = "verdict"
      BY <1>1, OrdersQuiet DEF LeaseRec
    <3> HIDE DEF m
    <3> QED
      BY <3>1, <3>2, SentCalm
  <2>3. CloseOrder \in OrderRec /\ CloseOrder.type = "close"
    BY DEF CloseOrder, Order, OrderRec
  <2> QED
    BY <1>3, <2>1, <2>2, <2>3, SentCalm
<1> QED
  BY <1>4, <1>5, <1>6, <1>7, <1>8

OnceInv == \A a \in Agent, j \in Job : \A e \in Nat : \A x \in Reason :
             Once(a, j, e, x)
CancelInv == \A c \in Conn : CancelsAfter(down[c])

\* The step of a lease that is told to end.
LEMMA TellsOnce ==
    ASSUME TypeOK, LinkInv, ChannelInv, CancelInv, OnceInv, UNCHANGED agent,
           \A c \in Conn : UpCalm(c),
           \A k \in Job : Fades(lease[k], lease'[k]),
           NEW j \in Job, NEW why \in Reason \ {"oom"}, Tells(j, why)
    PROVE  OnceInv' /\ CancelInv'
<1> DEFINE l == lease[j]
           c == l.conn
           m == CancelOrder(j, l.epoch, why)
<1>1. l \in LeaseRec /\ l.epoch \in Nat /\ c \in Conn \cup {NoConn}
  BY DEF TypeOK, LeaseRec
<1>2. /\ m \in OrderRec /\ m.type = "cancel" /\ m.job = j /\ m.epoch = l.epoch
      /\ m.why = why
  BY <1>1, OrdersQuiet
<1>3. \A k \in Conn : down[k] \in Seq(OrderRec)
  BY DEF TypeOK
<1>4. down' = IF Listening(c) THEN [down EXCEPT ![c] = Append(@, m)] ELSE down
  BY DEF Tells, Sent
<1>5. \A k \in Conn : \/ down'[k] = down[k]
                      \/ k = c /\ Listening(c) /\ down'[k] = Append(down[k], m)
  BY <1>1, <1>4 DEF TypeOK
<1> HIDE DEF m
<1>6. CancelInv'
  <2>1. ASSUME NEW k \in Conn PROVE CancelsAfter(down'[k])
    BY <1>2, <1>3, <1>5, AppendCancels DEF CancelInv
  <2> QED
    BY <2>1 DEF CancelInv
<1>7. ASSUME NEW a \in Agent, NEW k \in Job, NEW e \in Nat, NEW x \in Reason
      PROVE  Once(a, k, e, x)'
  <2> DEFINE d == agent[a].link
  <2>1. d \in Conn \cup {NoConn} /\ agent'[a] = agent[a] /\ Once(a, k, e, x)
    BY DEF TypeOK, AgentRec, OnceInv
  <2>2. AgentFades(agent[a], agent'[a])
    BY <2>1 DEF AgentFades
  <2>3. CASE d # NoConn => Spares(down[d], down'[d], k, e, x)
    BY <2>1, <2>2, <2>3, CalmOnce
  <2>4. CASE ~(d # NoConn => Spares(down[d], down'[d], k, e, x))
    <3>1. d \in Conn /\ d = c /\ Listening(c) /\ down'[d] = Append(down[d], m)
          /\ m \in Can(k, e, x)
      <4>1. d \in Conn /\ ~Spares(down[d], down'[d], k, e, x)
        BY <2>1, <2>4
      <4>2. down'[d] # down[d]
        BY <4>1 DEF Spares
      <4>3. d = c /\ Listening(c) /\ down'[d] = Append(down[d], m)
        BY <1>5, <4>1, <4>2
      <4>4. m \notin Can(k, e, x) => Spares(down[d], down'[d], k, e, x)
        BY <1>2, <1>3, <4>1, <4>3, AppendSpares
      <4> QED
        BY <4>1, <4>3, <4>4
    <3>2. k = j /\ e = l.epoch /\ x = why
      BY <1>2, <3>1 DEF Can
    <3>3. conn[c].agent = a /\ l.agent = a
      <4>1. LinkAt(a)
        BY DEF LinkInv
      <4>2. Open(c) /\ c # NoConn
        BY <3>1 DEF Listening
      <4> QED
        BY <3>1, <4>1, <4>2 DEF LinkAt, ChannelInv, Attached
    <3>4. Attends(a, k, e, x)
      BY <3>1, <3>2, <3>3 DEF Attends, Tells
    <3>5. Clear(a, k, e, x)
      BY <2>1, <3>4 DEF Once
    <3>6. ~Attends(a, k, e, x)'
      BY <3>2 DEF Attends, Tells
    <3>7. /\ LogLess(a, k, e, x) /\ \A i \in Conn : OutLess(a, i, k, e, x)
      BY <2>1, CalmFrames, FadesLess
    <3>8. Unsaid(a, k, e, x)' /\ ~Owed(a, k, e, x)'
      BY <2>1, <3>5, <3>7 DEF Clear, Unsaid, LogLess, OutLess, Owed
    <3>9. Few(down'[d], Can(k, e, x))
      BY <1>2, <1>3, <2>1, <3>1, <3>5, FewAppends DEF Clear, Due
    <3> QED
      BY <2>1, <3>6, <3>7, <3>8, <3>9 DEF Once, LogLess, OutLess, Unsaid
  <2> QED
    BY <2>3, <2>4
<1> QED
  BY <1>6, <1>7 DEF OnceInv

\* A calm step of the master.
LEMMA CalmAll ==
    ASSUME TypeOK, CancelInv, OnceInv, UNCHANGED agent,
           \A c \in Conn : UpCalm(c) /\ Calm(down[c], down'[c]),
           \A k \in Job : Fades(lease[k], lease'[k])
    PROVE  OnceInv' /\ CancelInv'
<1>1. \A c \in Conn : down[c] \in Seq(OrderRec)
  BY DEF TypeOK
<1>2. CancelInv'
  BY <1>1, CalmOrders DEF CancelInv
<1>3. ASSUME NEW a \in Agent, NEW j \in Job, NEW e \in Nat, NEW x \in Reason
      PROVE  Once(a, j, e, x)'
  <2> DEFINE d == agent[a].link
  <2>1. d \in Conn \cup {NoConn} /\ agent'[a] = agent[a] /\ Once(a, j, e, x)
    BY DEF TypeOK, AgentRec, OnceInv
  <2>2. AgentFades(agent[a], agent'[a])
    BY <2>1 DEF AgentFades
  <2>3. d # NoConn => Spares(down[d], down'[d], j, e, x)
    BY <1>1, <2>1, CalmOrders
  <2> QED
    BY <2>1, <2>2, <2>3, CalmOnce
<1> QED
  BY <1>2, <1>3 DEF OnceInv

\* The steps of a runner but a claim keep words in one place.
LEMMA RunnerOnce ==
    ASSUME TypeOK, LinkInv, ChannelInv, CancelInv, OnceInv, NEW j \in Job,
           KnowsAt(j), RunnerStep(j), ~Claim(j)
    PROVE  OnceInv' /\ CancelInv'
<1>1. /\ UNCHANGED <<agent, up>>
      /\ UNCHANGED conn \/ \E c : conn' = Freed(c, j)
  BY RunnersLeave DEF RunnerLeaves
<1>2. \A c \in Conn : UpCalm(c)
  <2>1. \A c \in Conn : conn'[c].agent = conn[c].agent
    BY <1>1, FreedAgent
  <2> QED
    BY <1>1, <2>1 DEF UpCalm, UpQuiet
<1>3. \A k \in Job : Fades(lease[k], lease'[k])
  BY RunnersFade
<1> QED
  BY <1>1, <1>2, <1>3, RunnersTell, TellsOnce, CalmAll

\* So do the user, time, a stop and a restart.
LEMMA SurroundingsOnce ==
    ASSUME TypeOK, LinkInv, CancelInv, OnceInv,
           \/ \E j \in Job : Expire(j) \/ UserCancel(j)
           \/ Stop
           \/ Restart
    PROVE  OnceInv' /\ CancelInv'
<1>1. /\ UNCHANGED agent
      /\ \A c \in Conn : UpCalm(c)
  BY SurroundingsQuiet DEF QuietStep, Quiet, ConnQuiet, UpCalm
<1>2. \A c \in Conn : Calm(down[c], down'[c])
  <2>1. CloseOrder \in OrderRec /\ CloseOrder.type = "close"
    BY DEF CloseOrder, Order, OrderRec
  <2> QED
    BY <2>1 DEF Calm, Expire, UserCancel, Stop, Restart
<1>3. ASSUME NEW k \in Job PROVE Fades(lease[k], lease'[k])
  <2>1. lease[k] \in LeaseRec
    BY DEF TypeOK
  <2>2. CASE Restart
    <3>1. lease'[k] \in {NoLease, NewLease(NoConn, row[k].holder, row[k].epoch)}
      BY <2>2, RestartParts
    <3>2. /\ Fades(lease[k], NoLease)
          /\ Fades(lease[k], NewLease(NoConn, row[k].holder, row[k].epoch))
      BY <2>1, FadesForms
    <3> QED
      BY <3>1, <3>2
  <2>3. ASSUME NEW j \in Job, Expire(j) PROVE Fades(lease[k], lease'[k])
    <3>1. lease'[k] \in {lease[k], [lease[k] EXCEPT !.time = "due"]}
      BY <2>3 DEF Expire, TypeOK
    <3>2. Fades(lease[k], lease[k]) /\ Fades(lease[k], [lease[k] EXCEPT !.time = "due"])
      BY <2>1, FadesForms
    <3> QED
      BY <3>1, <3>2
  <2>4. CASE UNCHANGED lease
    BY <2>1, <2>4, FadesForms
  <2>5. CASE Stop \/ \E j \in Job : UserCancel(j)
    BY <2>4, <2>5 DEF Stop, UserCancel, hub
  <2> QED
    BY <2>2, <2>3, <2>5
<1> QED
  BY <1>1, <1>2, <1>3, CalmAll

-----------------------------------------------------------------------------
\* The hub's frames.

\* A frame but `released` has the leases fade.
LEMMA ChannelsFade ==
    ASSUME TypeOK, NEW c \in Conn, ChannelStep(c), ~OnReleased(c), NEW k \in Job
    PROVE  Fades(lease[k], lease'[k])
<1> DEFINE f == Head(up[c])
           l == lease[f.job]
<1>1. lease[k] \in LeaseRec /\ lease \in [Job -> LeaseRec]
  BY DEF TypeOK
<1>2. CASE UNCHANGED lease
  BY <1>1, <1>2, FadesForms
<1>3. CASE RemoveConn(c)
  <2>1. lease'[k] \in {lease[k], [lease[k] EXCEPT !.conn = NoConn]}
    BY <1>3 DEF RemoveConn, Detached
  <2>2. Fades(lease[k], lease[k]) /\ Fades(lease[k], [lease[k] EXCEPT !.conn = NoConn])
    BY <1>1, FadesForms
  <2> QED
    BY <2>1, <2>2
<1>4. CASE OnHeartbeat(c) /\ Current(c, f)
  <2>1. f.job \in Job
    BY <1>4, GetsTyped, FrameKinds DEF OnHeartbeat
  <2> DEFINE m == [l EXCEPT !.time = "live", !.hot = (f.ev = "hot")]
  <2>2. lease' = [lease EXCEPT ![f.job] = m]
    BY <1>1, <1>4, <2>1 DEF OnHeartbeat
  <2>3. Fades(l, m)
    BY <1>1, <2>1, FadesForms
  <2>4. Fades(lease[k], lease[k])
    BY <1>1, FadesForms
  <2> HIDE DEF m, f
  <2> QED
    BY <1>1, <2>1, <2>2, <2>3, <2>4
<1>5. CASE OnNextEvent(c)
  <2> DEFINE ends == f.ev \in Terminal
             renewed == [l EXCEPT !.next = @ + 1, !.time = "live",
                                  !.finished = @ \/ ends]
             told == [renewed EXCEPT !.result = (f.ev = "result"),
                                     !.events = Append(@, f.ev)]
  <2>1. f.job \in Job /\ l \in LeaseRec /\ f.ev \in JobEvent
    <3>1. Gets(c, "event") /\ Took(c)
      BY <1>5, Zenon DEF OnNextEvent
    <3>2. f \in FrameRec /\ f.type = "event"
      BY <3>1, GetsTyped
    <3> QED
      BY <1>1, <3>2, FrameKinds
  <2>2. \/ lease' = [lease EXCEPT ![f.job] = [renewed EXCEPT !.finished = TRUE]]
        \/ \E m \in {renewed, told} : lease' = [lease EXCEPT ![f.job] = m]
    BY <1>5 DEF OnNextEvent
  <2>3. \E m : Fades(l, m) /\ lease' = [lease EXCEPT ![f.job] = m]
    <3> DEFINE ev == f.ev
    <3> HIDE DEF f
    <3>1. Fades(l, [renewed EXCEPT !.finished = TRUE])
      BY <2>1 DEF LeaseRec, Fades
    <3>2. Fades(l, renewed)
      BY <2>1 DEF LeaseRec, Fades
    <3>3. Fades(l, told)
      <4>1. /\ told.events = Append(l.events, ev) /\ told.agent = l.agent
            /\ told.epoch = l.epoch /\ told.conn = l.conn
            /\ told.cancelled = l.cancelled /\ told.rerouting = l.rerouting
        BY <2>1 DEF LeaseRec
      <4> HIDE DEF told
      <4> QED
        BY <2>1, <4>1 DEF Fades
    <3> HIDE DEF renewed, told
    <3> QED
      BY <2>2, <3>1, <3>2, <3>3
  <2>4. Fades(lease[k], lease[k])
    BY <1>1, FadesForms
  <2> HIDE DEF f
  <2> QED
    BY <1>1, <2>1, <2>3, <2>4
<1>6. CASE \/ OnReady(c) \/ OnStaleEvent(c)
           \/ OnHeartbeat(c) /\ ~Current(c, f)
  BY <1>2, <1>6 DEF OnReady, OnStaleEvent, OnHeartbeat, hub
<1> QED
  BY <1>3, <1>4, <1>5, <1>6 DEF ChannelStep

\* A channel's steps leave agents alone and release nothing.
LEMMA ChannelsCalm ==
    ASSUME TypeOK, NEW c \in Conn, ChannelStep(c)
    PROVE  /\ UNCHANGED agent
           /\ \A k \in Conn : UpCalm(k) /\ Calm(down[k], down'[k])
<1>1. CASE OnReady(c)
  <2>1. UNCHANGED <<agent, down>> /\ Took(c) /\ up[c] # <<>>
        /\ conn' = [conn EXCEPT ![c].ready = TRUE] /\ Open(c)
    BY <1>1 DEF OnReady, Gets
  <2>2. \A k \in Conn : conn'[k].agent = conn[k].agent
    <3>1. conn[c] \in [agent : Agent, ready : BOOLEAN, holding : Job \cup {NoJob}]
          /\ conn \in [Conn -> ChannelRec]
      BY <2>1 DEF TypeOK, ChannelRec, Open
    <3> QED
      BY <2>1, <3>1
  <2>3. \A k \in Conn : UpQuiet(k)
    BY <2>1 DEF Took, UpQuiet, TypeOK
  <2> QED
    BY <2>1, <2>2, <2>3 DEF UpCalm, Calm
<1>2. CASE ~OnReady(c)
  <2>1. /\ QuietStep
        /\ \/ UNCHANGED down
           \/ \E m \in OrderRec : /\ m.type \notin {"assign", "cancel"}
                                  /\ down' = Sent(c, m)
    BY <1>2, ChannelQuiet
  <2>2. \A k \in Conn : Calm(down[k], down'[k])
    BY <2>1, SentCalm DEF Calm
  <2> QED
    BY <2>1, <2>2 DEF QuietStep, Quiet, ConnQuiet, UpCalm
<1> QED
  BY <1>1, <1>2

\* A `released` that is heeded goes from the channel into the log.
LEMMA ReleasedOnce ==
    ASSUME TypeOK, CancelInv, OnceInv, NEW c \in Conn, OnReleased(c)
    PROVE  OnceInv' /\ CancelInv'
<1> DEFINE f == Head(up[c])
           i == f.job
           l == lease[i]
           m == [l EXCEPT !.finished = TRUE, !.events = Append(@, f.ev)]
           heeded == l.agent = conn[c].agent /\ l.epoch = f.epoch /\ l.time # "lost"
<1>1. /\ UNCHANGED <<agent, down, conn>> /\ Took(c)
      /\ lease' = IF heeded
                  THEN [lease EXCEPT ![i].finished = TRUE,
                                     ![i].events = Append(@, f.ev)]
                  ELSE lease
      /\ Gets(c, "released")
  BY DEF OnReleased
<1>2. f \in FrameRec /\ f.type = "released" /\ conn[c].agent \in Agent
      /\ up[c] \in Seq(FrameRec) /\ up[c] # <<>>
  BY <1>1, GetsTyped DEF Gets, TypeOK
<1>3. i \in Job /\ f.epoch \in Nat /\ f.ev \in Reason /\ l \in LeaseRec
  BY <1>2, FrameKinds DEF TypeOK
<1>4. heeded => lease' = [lease EXCEPT ![i] = m]
  BY <1>1, <1>3 DEF TypeOK
<1>5. /\ m.agent = l.agent /\ m.epoch = l.epoch /\ m.conn = l.conn
      /\ m.cancelled = l.cancelled /\ m.rerouting = l.rerouting
      /\ m.events = Append(l.events, f.ev)
      /\ l.events \in Seq(JobEvent \cup Reason)
  BY <1>3 DEF LeaseRec
<1>6. \A k \in Conn : UpCalm(k) /\ Calm(down[k], down'[k])
  BY ChannelsCalm DEF ChannelStep
<1>7. up'[c] = Tail(up[c])
  BY <1>1 DEF Took, TypeOK
<1> HIDE DEF m, f
<1>8. ASSUME heeded, NEW a \in Agent, NEW j \in Job, NEW e \in Nat, NEW x \in Reason
      PROVE  Once(a, j, e, x)'
  <2>1. Once(a, j, e, x)
    BY DEF OnceInv
  <2>2. \A k \in Conn : OutLess(a, k, j, e, x)
    BY <1>6, <2>1, CalmFrames
  <2>3. lease'[j] = IF j = i THEN m ELSE lease[j]
    BY <1>3, <1>4, <1>8 DEF TypeOK
  <2>4. /\ DueLess(a, j, e, x)
        /\ Due(a, j, e, x)' <=> Due(a, j, e, x)
        /\ Owed(a, j, e, x)' <=> Owed(a, j, e, x)
        /\ Takes(a, j, e)' <=> Takes(a, j, e)
    BY <1>1, <2>1 DEF DueLess, Due, Owed, Takes, Once
  <2>5. Attends(a, j, e, x)' => Attends(a, j, e, x)
    BY <1>1, <1>5, <2>3 DEF Attends, Told
  <2>6. CASE j = i /\ l.agent = a /\ l.epoch = e /\ x = f.ev
    <3>1. f \in Rel(j, e, x) /\ conn[c].agent = a
      BY <1>2, <1>8, <2>6 DEF Rel
    <3>2. Out(a, c, j, e, x) /\ Few(up[c], Rel(j, e, x))
      BY <1>2, <2>1, <3>1, FewTails DEF Out, Once, f
    <3>3. ~Out(a, c, j, e, x)'
      BY <1>2, <1>7, <3>1, <3>2, FewTails DEF Out, f
    <3>4. /\ ~Log(a, j, e, x) /\ ~Due(a, j, e, x) /\ ~Owed(a, j, e, x)
          /\ ~Takes(a, j, e) /\ ~Attends(a, j, e, x)
      BY <2>1, <3>2 DEF Once, Unsaid, Clear
    <3>5. \A k \in Conn : ~Out(a, k, j, e, x)'
      BY <2>1, <2>2, <3>2, <3>3 DEF Once, OutLess
    <3>6. Few(lease'[j].events, {x})
      <4>1. ~Has(l.events, {x})
        BY <2>6, <3>4 DEF Log
      <4>2. lease'[j].events = Append(l.events, x)
        BY <1>5, <2>3, <2>6
      <4>3. Few(Append(l.events, x), {x})
        BY <1>5, <4>1, FewAppends
      <4> QED
        BY <4>2, <4>3
    <3> QED
      BY <2>2, <2>4, <2>5, <3>4, <3>5, <3>6 DEF Once, OutLess, DueLess
  <2>7. CASE ~(j = i /\ l.agent = a /\ l.epoch = e /\ x = f.ev)
    <3>1. LogLess(a, j, e, x)
      <4>1. CASE j # i
        BY <2>1, <2>3, <4>1 DEF LogLess, Log, Once
      <4>2. CASE j = i /\ ~(l.agent = a /\ l.epoch = e)
        BY <1>5, <2>3, <4>2 DEF LogLess, Log
      <4>3. CASE j = i /\ l.agent = a /\ l.epoch = e /\ x # f.ev
        <5>1. f.ev \notin {x} /\ f.ev \in JobEvent \cup Reason
          BY <1>3, <4>3
        <5>2. /\ Has(m.events, {x}) => Has(l.events, {x})
              /\ Few(l.events, {x}) => Few(m.events, {x})
          BY <1>5, <5>1, FewAppends
        <5> QED
          BY <1>5, <2>1, <2>3, <4>3, <5>2 DEF LogLess, Log, Once
      <4> QED
        BY <2>7, <4>1, <4>2, <4>3
    <3> QED
      BY <2>1, <2>2, <2>4, <2>5, <3>1, LessOnce
  <2> QED
    BY <2>6, <2>7
<1>9. CASE heeded
  BY <1>1, <1>8, <1>9 DEF OnceInv, CancelInv
<1>10. CASE ~heeded
  <2>1. \A k \in Job : Fades(lease[k], lease'[k])
    BY <1>1, <1>10, FadesForms DEF TypeOK
  <2> QED
    BY <1>1, <1>6, <2>1, CalmAll
<1> QED
  BY <1>9, <1>10

\* The steps of a channel keep words in one place.
LEMMA ChannelOnce ==
    ASSUME TypeOK, CancelInv, OnceInv, NEW c \in Conn, ChannelStep(c)
    PROVE  OnceInv' /\ CancelInv'
<1>1. CASE OnReleased(c)
  BY <1>1, ReleasedOnce
<1>2. CASE ~OnReleased(c)
  BY <1>2, ChannelsFade, ChannelsCalm, CalmAll
<1> QED
  BY <1>1, <1>2

-----------------------------------------------------------------------------
\* The turns of the agents.

LeanInv == \A a \in Agent : Lean(agent[a]) /\ Begins(agent[a])

\* What a step does to nobody but agent a.
LEMMA OtherOnce ==
    ASSUME NEW b, agent'[b] = agent[b], UNCHANGED lease,
           agent[b].link # NoConn => down'[agent[b].link] = down[agent[b].link],
           \A c \in Conn : \/ conn'[c].agent # b
                           \/ up'[c] = up[c] /\ conn'[c].agent = conn[c].agent,
           NEW j, NEW e, NEW x, Once(b, j, e, x)
    PROVE  Once(b, j, e, x)'
<1>1. LogLess(b, j, e, x)
  BY DEF LogLess, Log, Once
<1>2. \A c \in Conn : OutLess(b, c, j, e, x)
  BY DEF OutLess, Out, Once
<1>3. /\ DueLess(b, j, e, x)
      /\ Owed(b, j, e, x)' => Owed(b, j, e, x)
      /\ Takes(b, j, e)' => Takes(b, j, e)
      /\ Attends(b, j, e, x)' => Attends(b, j, e, x)
  BY DEF DueLess, Due, Owed, Takes, Attends, Told, Once
<1> QED
  BY <1>1, <1>2, <1>3, LessOnce

\* What the turn has the agent owe was owed, or told, or its job just died of
\* it; nothing was said of it, and nobody tells it again.
LEMMA TurnTells ==
    ASSUME TypeOK, LinkInv, CancelInv, OnceInv, NEW a \in Agent, Lean(agent[a]),
           NEW t \in AgentRec, OwesTurn(a, t),
           NEW j \in Job, NEW e \in Nat, NEW x \in Reason, Owes(t, j, e, x)
    PROVE  /\ Unsaid(a, j, e, x)
           /\ agent[a].link # NoConn
              => /\ ~Has(down'[agent[a].link], Can(j, e, x))
                 /\ ~Assigns(down'[agent[a].link], j, e)
           /\ ~Attends(a, j, e, x)
<1> DEFINE s == agent[a]
           c == s.link
           d == down[c]
           m == Head(d)
<1>1. /\ Once(a, j, e, x) /\ LinkAt(a) /\ s \in AgentRec
      /\ c \in Conn \cup {NoConn}
      /\ c # NoConn => d \in Seq(OrderRec) /\ CancelsAfter(d)
      /\ down \in [Conn -> Seq(OrderRec)]
  BY DEF OnceInv, LinkInv, TypeOK, AgentRec, CancelInv
<1>2. ASSUME c # NoConn PROVE down'[c] = d \/ (d # <<>> /\ down'[c] = Tail(d))
  <2>1. UNCHANGED down \/ (d # <<>> /\ down' = [down EXCEPT ![c] = Tail(@)])
    BY DEF OwesTurn, GoesOnTo
  <2> HIDE DEF c
  <2> QED
    BY <1>1, <1>2, <2>1
<1>3. ASSUME c # NoConn, ~Has(d, Can(j, e, x)) PROVE ~Has(down'[c], Can(j, e, x))
  <2> DEFINE f == down'[c]
  <2>1. d \in Seq(OrderRec) /\ (f = d \/ (d # <<>> /\ f = Tail(d)))
    BY <1>1, <1>2, <1>3
  <2> HIDE DEF d, f, c
  <2>2. ~Has(f, Can(j, e, x))
    <3> DEFINE S == Can(j, e, x)
    <3> HIDE DEF S
    <3>1. d # <<>> => (Has(Tail(d), S) => Has(d, S))
      BY <2>1, FewTails
    <3>2. ~Has(d, S)
      BY <1>3 DEF S
    <3>3. ~Has(f, S)
      BY <2>1, <3>1, <3>2
    <3> QED
      BY <3>3 DEF S
  <2> QED
    BY <2>2 DEF f
<1>4. ASSUME c # NoConn, Assigns(down'[c], j, e) PROVE Assigns(d, j, e)
  <2> DEFINE f == down'[c]
  <2>1. d \in Seq(OrderRec) /\ (f = d \/ (d # <<>> /\ f = Tail(d)))
        /\ Assigns(f, j, e)
    BY <1>1, <1>2, <1>4
  <2> HIDE DEF d, f, c
  <2> QED
    BY <2>1, AssignsOn
<1>5. ASSUME c # NoConn, Holds(s) PROVE ~Assigns(d, j, e)
  <2>1. OneToken(conn[c].ready, up[c], d, Holds(s))
    BY <1>1, <1>5 DEF LinkAt
  <2> QED
    BY <1>1, <1>5, <2>1, AssignsOn DEF OneToken
<1>6. CASE Owed(a, j, e, x)
  <2>1. Unsaid(a, j, e, x) /\ ~Due(a, j, e, x) /\ ~Attends(a, j, e, x)
    BY <1>1, <1>6 DEF Once, Clear
  <2>2. c # NoConn => Holds(s)
    <3>1. c # NoConn => s.pending = <<>>
      BY DEF Lean
    <3> QED
      BY <1>6, <3>1, FewIn, NoJobs DEF Owed, Owes, HoldsThat, Holds
  <2> QED
    BY <1>3, <1>4, <1>5, <2>1, <2>2 DEF Due
<1>7. CASE Runs(s) /\ s.cur.job = j /\ s.cur.epoch = e /\ x = "oom"
  <2>1. Takes(a, j, e) /\ Holds(s)
    BY <1>7 DEF Takes, Runs, HoldsThat
  <2>2. Unsaid(a, j, e, x) /\ ~Attends(a, j, e, x)
    BY <1>1, <1>7, <2>1 DEF Once, Attends, Told
  <2>3. c # NoConn => ~Has(d, Can(j, e, x))
    BY <1>1, <1>7 DEF CancelsAfter, Has, Can
  <2> QED
    BY <1>3, <1>4, <1>5, <2>1, <2>2, <2>3
<1>8. CASE /\ c # NoConn /\ d # <<>> /\ m \in OrderRec /\ m.type = "cancel"
           /\ down' = [down EXCEPT ![c] = Tail(@)]
           /\ j = m.job /\ e = m.epoch /\ x = m.why
  <2>1. m \in Can(j, e, x)
    BY <1>8 DEF Can
  <2>2. Due(a, j, e, x) /\ Few(d, Can(j, e, x))
    <3> HIDE DEF d
    <3>1. Has(d, Can(j, e, x))
      BY <1>1, <1>8, <2>1, FewTails
    <3> QED
      BY <1>1, <1>8, <3>1 DEF Due, Once, d
  <2>3. Unsaid(a, j, e, x) /\ ~Attends(a, j, e, x)
    BY <1>1, <2>2 DEF Once, Clear
  <2>4. down'[c] = Tail(d)
    <3> HIDE DEF c
    <3> QED
      BY <1>1, <1>8
  <2> HIDE DEF d
  <2>5. ~Has(Tail(d), Can(j, e, x)) /\ ~Assigns(Tail(d), j, e)
    BY <1>1, <1>8, <2>1, <2>2, FewTails, TailCancels
  <2> QED
    BY <2>3, <2>4, <2>5
<1> HIDE DEF s, d, m
<1> QED
  BY <1>6, <1>7, <1>8 DEF OwesTurn, OwesOn, Owed, s, d, m

\* The turns of an agent keep words in one place.
LEMMA TurnOnce ==
    ASSUME TypeOK, LinkInv, ChannelInv, CancelInv, OnceInv, LeanInv, FirstInv,
           NEW a \in Agent, AgentTurn(a)
    PROVE  OnceInv' /\ CancelInv' /\ LeanInv' /\ FirstInv'
<1> DEFINE s == agent[a]
           c == s.link
           d == down[c]
<1>1. /\ Orderly(s) /\ Lean(s) /\ Begins(s) /\ LinkAt(a)
      /\ c \in Conn \cup {NoConn} /\ NoConn \notin Conn
      /\ agent \in [Agent -> AgentRec] /\ up \in [Conn -> Seq(FrameRec)]
      /\ down \in [Conn -> Seq(OrderRec)]
  BY DEF ChannelInv, LeanInv, LinkInv, TypeOK, AgentRec
<1>2. PICK t \in AgentRec : OwesTurn(a, t)
  BY <1>1, TurnsOwe
<1>3. /\ UNCHANGED <<lease, conn>> /\ Turn(a, t) /\ t.link = c /\ Orderly(t)
      /\ Begins(t) /\ Len(t.pending) <= 1
      /\ c = NoConn /\ t.pending # <<>> => ~Holds(t)
      /\ UNCHANGED down \/ (/\ c # NoConn /\ d # <<>>
                            /\ down' = [down EXCEPT ![c] = Tail(@)])
      /\ \A j \in Job, e \in Nat, x \in Reason :
           Has(t.pending, Rel(j, e, x)) => ~HoldsThat(t, j, e)
  BY <1>2 DEF OwesTurn, GoesOnTo, OwesOn, hub
<1>4. \A j \in Job, e \in Nat, x \in Reason : Owes(t, j, e, x) =>
        /\ Unsaid(a, j, e, x)
        /\ c # NoConn => /\ ~Has(down'[c], Can(j, e, x))
                         /\ ~Assigns(down'[c], j, e)
        /\ ~Attends(a, j, e, x)
  BY <1>1, <1>2, TurnTells
<1>5. /\ \A b \in Agent \ {a} : agent'[b] = agent[b]
      /\ agent'[a] = IF c = NoConn THEN t ELSE AfterFlush(t)
      /\ \A k \in Conn : up'[k] = IF k = c /\ Open(c) THEN up[c] \o FramesOf(t)
                                  ELSE up[k]
  <2>1. CASE c = NoConn
    BY <1>1, <1>3, <2>1 DEF Turn
  <2>2. CASE c # NoConn
    <3> DEFINE u == AfterFlush(t)
               q == FramesOf(t)
    <3>1. agent' = [agent EXCEPT ![a] = u]
          /\ up' = IF Open(c) THEN [up EXCEPT ![c] = @ \o q] ELSE up
      BY <1>3, <2>2 DEF Turn
    <3> HIDE DEF u, q, c
    <3> QED
      BY <1>1, <2>2, <3>1 DEF u, q
  <2> QED
    BY <2>1, <2>2
<1>6. \A k \in Conn : \/ down'[k] = down[k]
                      \/ k = c /\ d # <<>> /\ down'[k] = Tail(d)
  <2> HIDE DEF c
  <2> QED
    BY <1>1, <1>3
<1>7. CancelInv'
  <2>1. ASSUME NEW k \in Conn PROVE CancelsAfter(down'[k])
    BY <1>1, <1>6, TailCancels DEF CancelInv
  <2> QED
    BY <2>1 DEF CancelInv
<1>8. /\ Lean(AfterFlush(t)) /\ Begins(AfterFlush(t)) /\ FirstIn(FramesOf(t))
      /\ \A j \in Job, e \in Nat, x \in Reason :
           /\ Owes(AfterFlush(t), j, e, x)
              => HoldsThat(t, j, e) /\ t.cur.released = x
           /\ Has(FramesOf(t), Rel(j, e, x)) => Has(t.pending, Rel(j, e, x))
           /\ Few(FramesOf(t), Rel(j, e, x))
      /\ AfterFlush(t).link = c /\ FramesOf(t) \in Seq(FrameRec)
      /\ Runs(AfterFlush(t)) => /\ Runs(t)
                                /\ AfterFlush(t).cur.job = t.cur.job
                                /\ AfterFlush(t).cur.epoch = t.cur.epoch
  BY <1>3, FlushOwes, FlushNumbers, FlushTyped
<1>9. FirstInv'
  <2>1. ASSUME NEW k \in Conn PROVE FirstIn(up'[k])
    <3>1. FirstIn(up[k]) /\ up[k] \in Seq(FrameRec)
      BY <1>1 DEF FirstInv
    <3>2. FirstIn(up[k] \o FramesOf(t))
      BY <1>8, <3>1, FirstJoins
    <3> QED
      BY <1>5, <3>1, <3>2
  <2> QED
    BY <2>1 DEF FirstInv
<1>10. LeanInv'
  <2>1. c = NoConn => Lean(t)
    BY <1>3 DEF Lean
  <2>2. Lean(agent'[a]) /\ Begins(agent'[a])
    BY <1>3, <1>5, <1>8, <2>1
  <2> QED
    BY <1>5, <2>2 DEF LeanInv
<1>11. ASSUME NEW j \in Job, NEW e \in Nat, NEW x \in Reason
       PROVE  Once(a, j, e, x)'
  <2> DEFINE R == Rel(j, e, x)
             C == Can(j, e, x)
             v == agent'[a]
  <2>1. Once(a, j, e, x) /\ Log(a, j, e, x)' = Log(a, j, e, x)
        /\ v.link = c /\ lease'[j] = lease[j]
    BY <1>3, <1>5, <1>8 DEF OnceInv, Log
  <2>2. Owed(a, j, e, x)' => /\ Owes(t, j, e, x)
                             /\ c # NoConn => ~Has(t.pending, R)
    BY <1>3, <1>5, <1>8 DEF Owed, Owes
  <2>3. c # NoConn => /\ Has(down'[c], C) => Has(d, C)
                      /\ Few(d, C) => Few(down'[c], C)
                      /\ Assigns(down'[c], j, e) => Assigns(d, j, e)
    <3> DEFINE f == down'[c]
    <3>1. c # NoConn => /\ d \in Seq(OrderRec)
                        /\ f = d \/ (d # <<>> /\ f = Tail(d))
      BY <1>1, <1>6
    <3> HIDE DEF d, f, C, c
    <3>2. c # NoConn /\ d # <<>> => /\ Has(Tail(d), C) => Has(d, C)
                                    /\ Few(d, C) => Few(Tail(d), C)
                                    /\ Assigns(Tail(d), j, e) => Assigns(d, j, e)
      BY <3>1, FewTails, AssignsOn
    <3>3. c # NoConn => /\ Has(f, C) => Has(d, C)
                        /\ Few(d, C) => Few(f, C)
                        /\ Assigns(f, j, e) => Assigns(d, j, e)
      BY <3>1, <3>2
    <3> QED
      BY <3>3 DEF f
  <2>4. DueLess(a, j, e, x)
    BY <2>1, <2>3 DEF DueLess, Due, Once
  <2>5. Runs(v) /\ HoldsThat(v, j, e)
        => \/ c # NoConn /\ Assigns(d, j, e)
           \/ Runs(s) /\ HoldsThat(s, j, e)
    <3>1. Runs(v) /\ HoldsThat(v, j, e) => Runs(t) /\ HoldsThat(t, j, e)
      BY <1>5, <1>8 DEF HoldsThat
    <3>2. \/ Continues(s, t)
          \/ /\ c # NoConn /\ d # <<>> /\ Head(d).type = "assign"
             /\ t.cur.job = Head(d).job /\ t.cur.epoch = Head(d).epoch
      BY <1>2 DEF OwesTurn, GoesOnTo
    <3>3. Continues(s, t) /\ Runs(t) /\ HoldsThat(t, j, e)
          => Runs(s) /\ HoldsThat(s, j, e)
      BY DEF Continues, HoldsThat
    <3>4. ASSUME c # NoConn, d # <<>>, Head(d).type = "assign",
                 t.cur.job = Head(d).job, t.cur.epoch = Head(d).epoch,
                 HoldsThat(t, j, e)
          PROVE  Assigns(d, j, e)
      <4>1. d \in Seq(OrderRec)
        BY <1>1, <3>4
      <4> HIDE DEF d
      <4>2. Head(d).job = j /\ Head(d).epoch = e
        BY <3>4 DEF HoldsThat
      <4> QED
        BY <3>4, <4>1, <4>2, AssignsOn
    <3> QED
      BY <3>1, <3>2, <3>3, <3>4
  <2>6. Takes(a, j, e)' => Takes(a, j, e)
    BY <2>1, <2>3, <2>5 DEF Takes
  <2>7. Attends(a, j, e, x)' => Attends(a, j, e, x)
    BY <2>1 DEF Attends
  <2>8. \A k \in Conn : conn'[k] = conn[k]
    BY <1>3
  <2>9. CASE c = NoConn \/ ~Has(t.pending, R)
    <3>1. \A k \in Conn : OutLess(a, k, j, e, x)
      <4>1. ASSUME NEW k \in Conn, k = c, ~Has(t.pending, R)
            PROVE  OutLess(a, k, j, e, x)
        <5> DEFINE q == up[c]
                   r == FramesOf(t)
        <5>1. q \in Seq(FrameRec) /\ r \in Seq(FrameRec) /\ ~Has(r, R)
          BY <1>1, <1>8, <4>1
        <5>2. up'[c] = q \o r \/ up'[c] = q
          BY <1>5, <4>1
        <5> HIDE DEF q, r, R
        <5>3. (Has(q \o r, R) => Has(q, R)) /\ (Few(q, R) => Few(q \o r, R))
          BY <5>1, FewJoins
        <5>4. (Has(up'[c], R) => Has(q, R)) /\ (Few(q, R) => Few(up'[c], R))
          BY <5>2, <5>3
        <5> QED
          BY <2>1, <2>8, <4>1, <5>4 DEF OutLess, Out, Once, q, R
      <4>2. ASSUME NEW k \in Conn, up'[k] = up[k]
            PROVE  OutLess(a, k, j, e, x)
        BY <2>1, <2>8, <4>2 DEF OutLess, Out, Once
      <4> QED
        BY <1>1, <1>5, <2>9, <4>1, <4>2
    <3>2. LogLess(a, j, e, x)
      BY <2>1 DEF LogLess, Once
    <3>3. Unsaid(a, j, e, x) => Unsaid(a, j, e, x)'
      BY <2>1, <3>1 DEF Unsaid, OutLess
    <3>4. Owed(a, j, e, x)' => /\ Unsaid(a, j, e, x) /\ ~Due(a, j, e, x)'
                               /\ ~Attends(a, j, e, x)
      BY <1>4, <2>1, <2>2 DEF Due
    <3> QED
      BY <2>1, <2>4, <2>6, <2>7, <3>1, <3>2, <3>3, <3>4
         DEF Once, LogLess, OutLess, DueLess, Clear
  <2>10. CASE c # NoConn /\ Has(t.pending, R)
    <3>1. /\ Unsaid(a, j, e, x) /\ ~Has(down'[c], C) /\ ~Assigns(down'[c], j, e)
          /\ ~Attends(a, j, e, x)
      BY <1>4, <2>10 DEF Owes
    <3>2. ~HoldsThat(t, j, e) /\ ~Owed(a, j, e, x)' /\ ~Due(a, j, e, x)'
      BY <1>3, <2>1, <2>2, <2>10, <3>1 DEF Due
    <3>3. ~Takes(a, j, e)'
      <4>1. Runs(v) /\ HoldsThat(v, j, e) => HoldsThat(t, j, e)
        BY <1>5, <1>8 DEF HoldsThat
      <4> QED
        BY <2>1, <3>1, <3>2, <4>1 DEF Takes
    <3>4. \A k \in Conn \ {c} : ~Out(a, k, j, e, x)' /\ up'[k] = up[k]
      BY <1>5, <2>8, <3>1 DEF Unsaid, Out
    <3>5. conn[c].agent = a => Few(up'[c], R)
      <4> SUFFICES ASSUME conn[c].agent = a PROVE Few(up'[c], R)
        OBVIOUS
      <4> DEFINE q == up[c]
                 r == FramesOf(t)
      <4>1. /\ q \in Seq(FrameRec) /\ r \in Seq(FrameRec) /\ Few(r, R) /\ Few(q, R)
            /\ ~Has(q, R)
        BY <1>1, <1>8, <2>1, <2>10, <3>1 DEF Unsaid, Out, Once
      <4>2. up'[c] = q \o r \/ up'[c] = q
        BY <1>1, <1>5, <2>10
      <4> HIDE DEF q, r, R
      <4>3. Few(q \o r, R)
        BY <4>1, FewJoins
      <4> QED
        BY <4>1, <4>2, <4>3
    <3>6. \A k \in Conn : conn'[k].agent = a => Few(up'[k], R)
      BY <2>1, <2>8, <3>4, <3>5 DEF Once
    <3>7. ~Log(a, j, e, x)'
      BY <2>1, <3>1 DEF Unsaid
    <3>8. /\ lease'[j].agent = a /\ lease'[j].epoch = e
             => Few(lease'[j].events, {x})
          /\ v.link # NoConn => Few(down'[v.link], C)
      BY <2>1, <2>3 DEF Once
    <3> QED
      BY <2>7, <3>1, <3>2, <3>3, <3>4, <3>6, <3>7, <3>8 DEF Once
  <2> QED
    BY <2>9, <2>10
<1>12. ASSUME NEW b \in Agent \ {a}, NEW j \in Job, NEW e \in Nat, NEW x \in Reason
       PROVE  Once(b, j, e, x)'
  <2>1. agent'[b] = agent[b] /\ Once(b, j, e, x) /\ UNCHANGED <<lease, conn>>
    BY <1>3, <1>5 DEF OnceInv
  <2>2. agent[b].link # NoConn => down'[agent[b].link] = down[agent[b].link]
    <3>1. agent[b].link # NoConn => agent[b].link # c
      BY DEF LinkInv, LinksDiffer
    <3>2. agent[b].link \in Conn \cup {NoConn}
      BY DEF TypeOK, AgentRec
    <3> QED
      BY <1>6, <3>1, <3>2
  <2>3. \A k \in Conn : conn'[k].agent # b \/ up'[k] = up[k]
    <3>1. c # NoConn /\ Open(c) => conn[c].agent = a
      BY <1>1 DEF LinkAt
    <3> QED
      BY <1>1, <1>5, <2>1, <3>1
  <2> QED
    BY <2>1, <2>2, <2>3, OtherOnce
<1> QED
  BY <1>7, <1>9, <1>10, <1>11, <1>12 DEF OnceInv

\* A heartbeat says nothing of how an attempt ends.
LEMMA HeartbeatOnce ==
    ASSUME TypeOK, CancelInv, OnceInv, LeanInv, FirstInv, NEW a \in Agent, Heartbeat(a)
    PROVE  OnceInv' /\ CancelInv' /\ LeanInv' /\ FirstInv'
<1> DEFINE c == agent[a].link
           cur == agent[a].cur
<1>1. PICK memory \in {"hot", "calm"} :
        up' = [up EXCEPT ![c] =
                 Append(@, Frame("heartbeat", cur.job, cur.epoch, 0, memory))]
  BY DEF Heartbeat
<1>2. /\ UNCHANGED <<lease, conn, agent, down>> /\ cur.job \in Job /\ cur.epoch \in Nat
  BY DEF Heartbeat, hub, TypeOK, AgentRec, CurrentRec, Holds
<1> DEFINE f == Frame("heartbeat", cur.job, cur.epoch, 0, memory)
<1>3. f \in FrameRec /\ f.type = "heartbeat"
  BY <1>2 DEF Frame, FrameRec, FrameOf
<1> HIDE DEF f
<1>4. ASSUME NEW k \in Conn
      PROVE  up'[k] = up[k] \/ up'[k] = Append(up[k], f)
  BY <1>1 DEF TypeOK, f
<1>5. \A k \in Conn : UpCalm(k) /\ Calm(down[k], down'[k])
  BY <1>2, <1>3, <1>4 DEF UpCalm, UpQuiet, Calm
<1>6. ASSUME NEW k \in Conn PROVE FirstIn(up'[k])
  <2>1. up[k] \in Seq(FrameRec) /\ FirstIn(up[k])
    BY DEF TypeOK, FirstInv
  <2>2. <<f>> \in Seq(FrameRec) /\ FirstIn(<<f>>) /\ Append(up[k], f) = up[k] \o <<f>>
    BY <1>3, <2>1 DEF FirstIn
  <2>3. FirstIn(up[k] \o <<f>>)
    BY <2>1, <2>2, FirstJoins
  <2> QED
    BY <1>4, <2>1, <2>2, <2>3
<1>7. \A k \in Job : Fades(lease[k], lease'[k])
  BY <1>2, FadesForms DEF TypeOK
<1>8. OnceInv' /\ CancelInv'
  BY <1>2, <1>5, <1>7, CalmAll
<1> QED
  BY <1>2, <1>6, <1>8 DEF LeanInv, FirstInv

\* An agent that does no more than lose its channel, or its job.
LEMMA LosesOnce ==
    ASSUME TypeOK, LinkInv, CancelInv, OnceInv, LeanInv, FirstInv,
           UNCHANGED <<conn, up>>, \A k \in Job : Fades(lease[k], lease'[k]),
           NEW a \in Agent, AgentFades(agent[a], agent'[a]),
           Lean(agent'[a]), Begins(agent'[a]),
           \A b \in Agent \ {a} : agent'[b] = agent[b],
           \A k \in Conn : \/ down'[k] = down[k]
                           \/ /\ down'[k] = <<>> /\ k = agent[a].link
                              /\ agent'[a].link = NoConn
    PROVE  OnceInv' /\ CancelInv' /\ LeanInv' /\ FirstInv'
<1>1. CancelInv' /\ LeanInv' /\ FirstInv'
  <2>1. CancelsAfter(<<>>)
    BY DEF CancelsAfter
  <2> QED
    BY <2>1 DEF CancelInv, LeanInv, FirstInv
<1>2. \A c \in Conn : UpCalm(c)
  BY DEF UpCalm, UpQuiet
<1>3. ASSUME NEW b \in Agent, NEW j \in Job, NEW e \in Nat, NEW x \in Reason
      PROVE  Once(b, j, e, x)'
  <2>1. Once(b, j, e, x) /\ agent[b].link \in Conn \cup {NoConn}
    BY DEF OnceInv, TypeOK, AgentRec
  <2>2. AgentFades(agent[b], agent'[b])
    BY DEF AgentFades
  <2>3. agent'[b].link # NoConn
        => Spares(down[agent[b].link], down'[agent[b].link], j, e, x)
    <3> SUFFICES ASSUME agent'[b].link # NoConn
                 PROVE  Spares(down[agent[b].link], down'[agent[b].link], j, e, x)
      OBVIOUS
    <3>1. agent[b].link \in Conn /\ agent[b].link # NoConn
      BY <2>1, <2>2 DEF AgentFades
    <3>2. down'[agent[b].link] = down[agent[b].link]
      BY <3>1 DEF LinkInv, LinksDiffer
    <3> QED
      BY <3>2 DEF Spares
  <2> QED
    BY <1>2, <2>1, <2>2, <2>3, CalmOnce
<1> QED
  BY <1>1, <1>3 DEF OnceInv

\* Nor do uploads,
LEMMA UploadOnce ==
    ASSUME TypeOK, LinkInv, CancelInv, OnceInv, LeanInv, FirstInv,
           NEW a \in Agent, Upload(a)
    PROVE  OnceInv' /\ CancelInv' /\ LeanInv' /\ FirstInv'
<1> DEFINE s == agent[a]
<1>1. PICK how : agent' = [agent EXCEPT ![a] = [agent[a] EXCEPT !.cur.up = how]]
  BY UploadLinks
<1> DEFINE t == [s EXCEPT !.cur.up = how]
<1>2. /\ t.link = s.link /\ t.pending = s.pending
      /\ t.cur.job = s.cur.job /\ t.cur.epoch = s.cur.epoch
      /\ t.cur.released = s.cur.released /\ t.cur.done = s.cur.done
      /\ t.cur.begun = s.cur.begun /\ t.cur.out = s.cur.out
  BY ZenonT(30) DEF TypeOK, AgentRec, CurrentRec
<1>3. agent'[a] = t /\ \A b \in Agent \ {a} : agent'[b] = agent[b]
  BY <1>1 DEF TypeOK
<1>4. /\ UNCHANGED <<conn, up, down>>
      /\ \/ UNCHANGED lease
         \/ lease' = [lease EXCEPT ![s.cur.job].uploads = TRUE]
  BY DEF Upload
<1> HIDE DEF t
<1>5. AgentFades(s, t)
  BY <1>2 DEF AgentFades, Owes, HoldsThat, Runs, Holds
<1>6. Lean(s) /\ Begins(s)
  BY DEF LeanInv
<1>7. Lean(t) /\ Begins(t)
  BY <1>2, <1>6 DEF Lean, Begins, Runs, Holds
<1>8. ASSUME NEW k \in Job PROVE Fades(lease[k], lease'[k])
  <2>1. lease[k] \in LeaseRec
    BY DEF TypeOK
  <2>2. lease'[k] \in {lease[k], [lease[k] EXCEPT !.uploads = TRUE]}
    BY <1>4 DEF TypeOK
  <2>3. Fades(lease[k], lease[k]) /\ Fades(lease[k], [lease[k] EXCEPT !.uploads = TRUE])
    BY <2>1, FadesForms
  <2> QED
    BY <2>2, <2>3
<1> QED
  BY <1>3, <1>4, <1>5, <1>7, <1>8, LosesOnce

\* a channel lost, or an agent that dies.
LEMMA DisconnectOnce ==
    ASSUME TypeOK, LinkInv, CancelInv, OnceInv, LeanInv, FirstInv,
           NEW a \in Agent, Disconnect(a) \/ AgentCrash(a)
    PROVE  OnceInv' /\ CancelInv' /\ LeanInv' /\ FirstInv'
<1> DEFINE s == agent[a]
<1>1. /\ UNCHANGED <<conn, up, lease>>
      /\ down' = [c \in Conn |-> IF c = s.link THEN <<>> ELSE down[c]]
  BY DisconnectLinks DEF Disconnect, AgentCrash, hub
<1>2. \A k \in Job : Fades(lease[k], lease'[k])
  BY <1>1, FadesForms DEF TypeOK
<1>3. s \in AgentRec /\ Lean(s) /\ Begins(s)
  BY DEF TypeOK, LeanInv
<1>4. PICK t : /\ agent' = [agent EXCEPT ![a] = t] /\ t.link = NoConn
               /\ \/ t = NewAgent
                  \/ s.link # NoConn /\ t.cur = s.cur /\ t.pending = s.pending
  <2>1. CASE AgentCrash(a)
    BY <2>1 DEF AgentCrash, NewAgent
  <2>2. CASE Disconnect(a)
    <3> DEFINE t == [s EXCEPT !.link = NoConn]
    <3>1. agent' = [agent EXCEPT ![a] = t] /\ s.link # NoConn
      BY <2>2 DEF Disconnect, TypeOK
    <3>2. t.link = NoConn /\ t.cur = s.cur /\ t.pending = s.pending
      BY <1>3 DEF AgentRec
    <3> HIDE DEF t
    <3> QED
      BY <3>1, <3>2
  <2> QED
    BY <2>1, <2>2
<1>5. AgentFades(s, t) /\ Lean(t) /\ Begins(t)
  <2>1. CASE t = NewAgent
    <3>1. ~Holds(t) /\ t.pending = <<>> /\ Len(<<>>) <= 1
      BY <2>1 DEF NewAgent, Holds, Idle
    <3>2. \A j \in Job : \A e : ~HoldsThat(t, j, e)
      BY <3>1, NoJobs DEF Holds, HoldsThat
    <3> QED
      BY <1>4, <3>1, <3>2, FewIn DEF AgentFades, Lean, Begins, Owes, Runs
  <2>2. CASE s.link # NoConn /\ t.cur = s.cur /\ t.pending = s.pending
    BY <1>3, <1>4, <2>2 DEF AgentFades, Lean, Begins, Owes, Runs, Holds, HoldsThat
  <2> QED
    BY <1>4, <2>1, <2>2
<1>6. agent'[a] = t /\ \A b \in Agent \ {a} : agent'[b] = agent[b]
  BY <1>4 DEF TypeOK
<1> QED
  BY <1>1, <1>2, <1>4, <1>5, <1>6, LosesOnce

-----------------------------------------------------------------------------
\* An agent dials.

\* What the welcome has the agent owe was owed, or it is told to let its job go.
LEMMA WelcomedOwes ==
    ASSUME NEW s \in AgentRec, Lean(s), Orderly(s), Begins(s), s.link = NoConn,
           NEW c \in Conn, NEW acked \in Int,
           NEW told \in {"none", "continue", "lease_lost", "cancelled", "reroute"},
           told = "none" => ~Runs(s),
           Runs(s) /\ told = "continue"
             => acked >= 0 /\ (s.cur.out.last = 0 => acked = 0)
    PROVE  LET t == Welcomed(s, c, told, acked) IN
           /\ Begins(t) /\ Len(t.pending) <= 1
           /\ \A j \in Job, e \in Nat, x \in Reason :
                /\ Owes(t, j, e, x)
                   => \/ Owes(s, j, e, x)
                      \/ Runs(s) /\ HoldsThat(s, j, e) /\ told = x
                /\ Has(t.pending, Rel(j, e, x)) => ~HoldsThat(t, j, e)
           /\ Runs(t) => Runs(s) /\ told = "continue"
<1> DEFINE t == [s EXCEPT !.link = c]
           u == [t EXCEPT !.cur.out = EmptyOutbox]
           o == Rewind(t.cur.out, acked)
           v == [t EXCEPT !.cur.out = o]
           w == [t EXCEPT !.ready = TRUE]
           y == Welcomed(s, c, told, acked)
<1>1. /\ t \in AgentRec /\ t.cur = s.cur /\ t.pending = s.pending
      /\ w.cur = s.cur /\ w.pending = s.pending
  BY DEF AgentRec
<1>2. /\ u \in AgentRec /\ u.pending = s.pending
      /\ u.cur.job = s.cur.job /\ u.cur.epoch = s.cur.epoch
      /\ u.cur.released = s.cur.released
  <2>1. EmptyOutbox \in OutboxRec
    BY DEF EmptyOutbox, OutboxRec
  <2>2. u \in AgentRec
    BY <1>1, <2>1, OutTyped
  <2> QED
    BY <1>1, <2>2 DEF AgentRec, CurrentRec
<1>3. /\ v.pending = s.pending /\ v.cur.out = Rewind(s.cur.out, acked)
      /\ v.cur.job = s.cur.job /\ v.cur.epoch = s.cur.epoch
      /\ v.cur.released = s.cur.released
      /\ v.cur.done = s.cur.done /\ v.cur.begun = s.cur.begun
  <2>1. o = Rewind(s.cur.out, acked)
    BY <1>1
  <2> HIDE DEF o
  <2> QED
    BY <1>1, <2>1 DEF AgentRec, CurrentRec
<1>4. y = IF ~Holds(s) THEN w
          ELSE IF ~Runs(s) THEN t
          ELSE IF told = "continue" THEN v
          ELSE Stopped(u, told)
  <2>1. Holds(s) = Holds(t) /\ Runs(s) = Runs(t)
    BY <1>1 DEF Holds, Runs
  <2> QED
    BY DEF Welcomed
<1> HIDE DEF t, u, v, w, y
<1>5. "no" \notin Reason /\ Len(<<>>) = 0
  BY DEF Reason
<1>6. /\ Len(s.pending) <= 1
      /\ \A j \in Job, e \in Nat, x \in Reason :
           Has(s.pending, Rel(j, e, x)) => ~HoldsThat(s, j, e)
  <2>1. \A q : Has(<<>>, q) => FALSE
    BY FewIn
  <2> QED
    BY <2>1, NoJobs DEF Lean, HoldsThat, Holds
<1>7. CASE ~Runs(s)
  <2>1. y.cur = s.cur /\ y.pending = s.pending
    BY <1>1, <1>4, <1>7 DEF Runs
  <2> QED
    BY <1>6, <1>7, <2>1 DEF y, Owes, HoldsThat, Runs, Holds, Begins
<1>8. CASE Runs(s) /\ told = "continue"
  <2>1. y = v
    BY <1>4, <1>8 DEF Runs
  <2>2. Begins(v)
    <3> DEFINE fresh == s.cur.done = "no" /\ ~s.cur.begun
    <3>1. s.cur.out \in OutboxRec /\ s.cur.out.written <= Len(s.cur.out.evs)
          /\ fresh \in BOOLEAN
      BY DEF AgentRec, CurrentRec, Orderly
    <3>4. BeginsWith(s.cur.out, fresh)
      BY <1>8 DEF Begins
    <3> HIDE DEF fresh
    <3>2. BeginsWith(Rewind(s.cur.out, acked), fresh)
      BY <1>8, <3>1, <3>4, OutboxBegins
    <3> QED
      BY <1>3, <3>2 DEF Begins, fresh
  <2>3. \A j \in Job, e \in Nat : HoldsThat(v, j, e) <=> HoldsThat(s, j, e)
    BY <1>3 DEF HoldsThat
  <2> QED
    BY <1>3, <1>6, <1>8, <2>1, <2>2, <2>3 DEF y, Owes
<1>9. CASE Runs(s) /\ told # "continue"
  <2>1. told \in Reason /\ Holds(u) /\ s.pending = <<>>
    BY <1>2, <1>9 DEF Reason, Runs, Holds, Lean
  <2>2. Lean(u)
    BY <1>2, <1>5, <2>1 DEF Lean
  <2>3. OwesOn(u, Stopped(u, told), {<<u.cur.job, u.cur.epoch, told>>})
    BY <1>2, <2>1, <2>2, StoppedOwes
  <2>4. y = Stopped(u, told)
    BY <1>4, <1>9 DEF Runs
  <2>5. ~Runs(y)
    <3> DEFINE z == [u EXCEPT !.cur.released = told]
    <3>1. z.cur.released = told
      BY <1>2 DEF AgentRec, CurrentRec
    <3> HIDE DEF z
    <3>2. LetGo(u, told).cur = Idle
      BY <1>2 DEF LetGo, AgentRec
    <3>3. Stopped(u, told) \in {z, LetGo(u, told)}
      BY DEF Stopped, z
    <3> QED
      BY <1>5, <2>1, <2>4, <3>1, <3>2, <3>3 DEF Runs, Holds, Idle
  <2>6. \A j \in Job, e \in Nat, x \in Reason : ~Owes(u, j, e, x)
    BY <1>2, <1>5, <1>9, <2>1, FewIn DEF Owes, Runs
  <2>7. \A j \in Job, e \in Nat, x \in Reason :
          Owes(y, j, e, x) => HoldsThat(s, j, e) /\ told = x
    BY <1>2, <2>3, <2>4, <2>6 DEF OwesOn, HoldsThat
  <2>8. /\ Begins(y) /\ Len(y.pending) <= 1
        /\ \A j \in Job, e \in Nat, x \in Reason :
             Has(y.pending, Rel(j, e, x)) => ~HoldsThat(y, j, e)
    BY <2>3, <2>4 DEF OwesOn
  <2> QED
    BY <1>9, <2>5, <2>7, <2>8 DEF y
<1> QED
  BY <1>7, <1>8, <1>9

\* What becomes of the leases: one moves to the new channel, perhaps.
LEMMA ConnectLeases ==
    ASSUME TypeOK, LinkInv, ChannelInv, NEW a \in Agent, NEW t \in AgentRec,
           NEW acked \in Int, NEW answer, NEW old, NEW told,
           Resumed(a, t, acked, answer, old, told), NEW k \in Job
    PROVE  \/ Fades(lease[k], lease'[k]) /\ lease'[k].conn # nextConn
           \/ /\ answer = "moves" /\ Runs(agent[a])
              /\ HoldsThat(agent[a], k, lease[k].epoch) /\ lease[k].agent = a
              /\ lease'[k] = [lease[k] EXCEPT !.conn = nextConn]
<1> DEFINE s == agent[a]
           c == nextConn
           j == s.cur.job
           gone == Evicted(a)
           lease1 == Detached(gone)
           l == lease[k]
           m == [l EXCEPT !.conn = NoConn]
<1>1. /\ lease' = IF answer = "none" THEN lease1
                  ELSE [lease1 EXCEPT ![j] = AfterResume(@, answer, c)]
      /\ c \in Conn /\ l \in LeaseRec /\ lease1 \in [Job -> LeaseRec]
      /\ answer # "none" => j \in Job
  BY DetachedTyped DEF Resumed, TypeOK
<1>2. lease1[k] = IF l.conn \in gone THEN m ELSE l
  BY DEF Detached
<1>3. m \in LeaseRec /\ m.conn = NoConn /\ m.agent = l.agent /\ m.epoch = l.epoch
  BY <1>1 DEF LeaseRec
<1>4. l.conn # c /\ c # NoConn
  <2>1. ~Open(c)
    BY <1>1 DEF LinkInv, Unopened, TypeOK
  <2>2. c # NoConn
    BY <1>1, LeaseAssumption
  <2> QED
    BY <2>1, <2>2 DEF ChannelInv, Attached
<1> HIDE DEF m, gone
<1>5. ASSUME NEW x \in LeaseRec, x \in {l, m}
      PROVE  /\ Fades(l, x) /\ x.conn # c
             /\ Fades(l, [x EXCEPT !.time = "lost"])
             /\ [x EXCEPT !.time = "lost"].conn # c
  <2>1. Fades(l, m) /\ Fades(l, l) /\ Fades(l, [l EXCEPT !.time = "lost"])
    BY <1>1, FadesForms DEF m
  <2>2. /\ [x EXCEPT !.time = "lost"].conn = x.conn
        /\ [x EXCEPT !.time = "lost"].agent = x.agent
        /\ [x EXCEPT !.time = "lost"].epoch = x.epoch
        /\ [x EXCEPT !.time = "lost"].events = x.events
        /\ [x EXCEPT !.time = "lost"].cancelled = x.cancelled
        /\ [x EXCEPT !.time = "lost"].rerouting = x.rerouting
    BY DEF LeaseRec
  <2> QED
    BY <1>3, <1>4, <1>5, <2>1, <2>2 DEF Fades
<1>6. CASE ~(answer = "moves" /\ k = j)
  <2>1. lease'[k] \in {lease1[k], [lease1[k] EXCEPT !.time = "lost"]}
    <3> HIDE DEF lease1, j, c
    <3> QED
      BY <1>1, <1>6 DEF AfterResume
  <2>2. lease1[k] \in LeaseRec /\ lease1[k] \in {l, m}
    BY <1>1, <1>2
  <2> HIDE DEF lease1
  <2>3. /\ Fades(l, lease1[k]) /\ lease1[k].conn # c
        /\ Fades(l, [lease1[k] EXCEPT !.time = "lost"])
        /\ [lease1[k] EXCEPT !.time = "lost"].conn # c
    BY <1>5, <2>2
  <2> QED
    BY <2>1, <2>3
<1>7. CASE answer = "moves" /\ k = j
  <2>1. lease'[k] = [lease1[k] EXCEPT !.conn = c]
    <3> HIDE DEF lease1, j, c
    <3> QED
      BY <1>1, <1>7 DEF AfterResume
  <2>2. /\ lease1[k].agent = a /\ lease1[k].epoch = s.cur.epoch /\ Runs(s)
    BY <1>7 DEF Resumed, ResumeAnswer, gone
  <2>3. [m EXCEPT !.conn = c] = [l EXCEPT !.conn = c]
    BY <1>1 DEF m, LeaseRec
  <2> QED
    BY <1>2, <1>3, <1>7, <2>1, <2>2, <2>3 DEF HoldsThat
<1> QED
  BY <1>6, <1>7

\* The channels but the new one, and the agents but the one that dials.
LEMMA ConnectOutside ==
    ASSUME TypeOK, LinkInv, ChannelInv, CancelInv, OnceInv, LeanInv, FirstInv,
           NEW a \in Agent, NEW t \in AgentRec,
           NEW acked \in Int, NEW answer, NEW old, NEW told,
           Resumed(a, t, acked, answer, old, told)
    PROVE  /\ \A k \in Conn \ {nextConn} : UpCalm(k) /\ down'[k] = down[k]
           /\ nextConn \in Conn /\ up[nextConn] = <<>> /\ down[nextConn] = <<>>
           /\ conn'[nextConn].agent = a /\ conn[nextConn] = NoChannel
           /\ \A b \in Agent \ {a} : agent'[b] = agent[b]
           /\ CancelInv'
           /\ \A b \in Agent \ {a}, j \in Job : \A e \in Nat : \A x \in Reason :
                Once(b, j, e, x)'
<1> DEFINE c == nextConn
<1>1. c \in Conn /\ ~Open(c) /\ down[c] = <<>> /\ up[c] = <<>>
  <2>1. c \in Conn
    BY DEF Resumed
  <2>2. ~Open(c) /\ down[c] = <<>>
    BY <2>1 DEF LinkInv, Unopened, TypeOK
  <2> QED
    BY <2>1, <2>2 DEF ChannelInv
<1>2. conn'[c].agent = a
  <2>1. c \notin Evicted(a)
    BY <1>1, StoreAssumption DEF Evicted, Open, NoChannel
  <2> QED
    BY <1>1, <2>1 DEF Resumed
<1>3. \A k \in Conn \ {c} : down'[k] = down[k]
  BY DEF Resumed, TypeOK
<1>4. \A k \in Conn \ {c} : UpCalm(k)
  BY ConnectOthers DEF Quiet, ConnQuiet, UpCalm
<1>5. \A b \in Agent \ {a} : agent'[b] = agent[b]
  BY DEF Resumed, TypeOK
<1>6. CancelInv'
  <2>1. \/ down'[c] = <<>>
        \/ \E m : m.type = "verdict" /\ down'[c] = <<m>>
    <3> DEFINE m == VerdictOrder(agent[a].cur.job, agent[a].cur.epoch,
                                 settled[agent[a].cur.job].accepted)
    <3>1. m.type = "verdict"
      BY DEF VerdictOrder, Order
    <3>2. down' = [down EXCEPT ![c] = <<m>>] \/ UNCHANGED down
      BY DEF Resumed
    <3> HIDE DEF m
    <3>3. down'[c] = <<m>> \/ down'[c] = down[c]
      BY <1>1, <3>2 DEF TypeOK
    <3> QED
      BY <1>1, <3>1, <3>3
  <2>2. CancelsAfter(down'[c])
    <3>1. CASE down'[c] = <<>>
      <4> DEFINE f == down'[c]
      <4>1. f = <<>>
        BY <3>1
      <4> HIDE DEF f
      <4>2. CancelsAfter(f)
        BY <4>1 DEF CancelsAfter
      <4> QED
        BY <4>2 DEF f
    <3>2. ASSUME NEW m, m.type = "verdict", down'[c] = <<m>>
          PROVE  CancelsAfter(down'[c])
      <4> DEFINE f == down'[c]
      <4>1. f = <<m>>
        BY <3>2
      <4> HIDE DEF f
      <4>2. \A k \in DOMAIN f : f[k].type = "verdict"
        BY <3>2, <4>1
      <4>3. CancelsAfter(f)
        BY <4>2 DEF CancelsAfter
      <4> QED
        BY <4>3 DEF f
    <3> QED
      BY <2>1, <3>1, <3>2
  <2> QED
    BY <1>3, <2>2 DEF CancelInv
<1> HIDE DEF c
<1>7. ASSUME NEW b \in Agent \ {a}, NEW j \in Job, NEW e \in Nat, NEW x \in Reason
      PROVE  Once(b, j, e, x)'
  <2>1. Once(b, j, e, x) /\ agent'[b] = agent[b] /\ a # b
    BY <1>5 DEF OnceInv
  <2>2. agent[b].link # NoConn => agent[b].link \in Conn \ {c}
    <3>1. LinkAt(b) /\ agent[b].link \in Conn \cup {NoConn} /\ nextConn \in Nat
      BY DEF LinkInv, TypeOK, AgentRec
    <3> QED
      BY <3>1 DEF LinkAt, c
  <2>3. /\ DueLess(b, j, e, x)
        /\ Takes(b, j, e)' => Takes(b, j, e)
        /\ Owed(b, j, e, x)' => Owed(b, j, e, x)
    BY <1>3, <2>1, <2>2 DEF DueLess, Due, Takes, Owed, Once
  <2>4. \A k \in Conn : OutLess(b, k, j, e, x)
    <3>1. ASSUME NEW k \in Conn, k = c PROVE OutLess(b, k, j, e, x)
      BY <1>2, <2>1, <3>1 DEF OutLess, Out
    <3> QED
      BY <1>4, <2>1, <3>1, CalmFrames
  <2>5. /\ LogLess(b, j, e, x)
        /\ Attends(b, j, e, x)' => Attends(b, j, e, x)
    <3>1. CASE Fades(lease[j], lease'[j])
      BY <2>1, <3>1, FadesLess
    <3>2. CASE lease[j].agent = a /\ lease'[j] = [lease[j] EXCEPT !.conn = nextConn]
      <4>1. lease'[j].agent = a
        BY <3>2 DEF TypeOK, LeaseRec
      <4> QED
        BY <2>1, <4>1 DEF LogLess, Log, Attends
    <3> QED
      BY <3>1, <3>2, ConnectLeases
  <2> QED
    BY <2>1, <2>3, <2>4, <2>5, LessOnce
<1> QED
  BY <1>1, <1>2, <1>3, <1>4, <1>5, <1>6, <1>7 DEF c, Open

\* A resume keeps words in one place: what it tells the agent the hub forgets.
LEMMA ConnectOnce ==
    ASSUME TypeOK, LinkInv, ChannelInv, CancelInv, OnceInv, LeanInv, FirstInv,
           NEW a \in Agent, NEW t \in AgentRec,
           NEW acked \in Int, NEW answer, NEW old, NEW told,
           Resumed(a, t, acked, answer, old, told),
           Runs(agent[a]) /\ told = "continue"
             => acked >= 0 /\ (agent[a].cur.out.last = 0 => acked = 0)
    PROVE  OnceInv' /\ CancelInv' /\ LeanInv' /\ FirstInv'
<1> DEFINE s == agent[a]
           c == nextConn
           u == AfterFlush(t)
           q == FramesOf(t)
<1>1. /\ s \in AgentRec /\ Lean(s) /\ Orderly(s) /\ Begins(s) /\ s.link = NoConn
      /\ c \in Conn /\ c # NoConn /\ t = Welcomed(s, c, told, acked)
      /\ told \in {"none", "continue", "lease_lost", "cancelled", "reroute"}
      /\ told = "none" => ~Runs(s)
      /\ Sound(s)
  <2>2. Lean(s) /\ Orderly(s) /\ Begins(s) /\ Sound(s)
    BY DEF LeanInv, ChannelInv, LinkInv, LinkAt
  <2>3. /\ s \in AgentRec /\ s.link = NoConn /\ c \in Conn
        /\ t = Welcomed(s, c, told, acked)
        /\ told \in {"none", "continue", "lease_lost", "cancelled", "reroute"}
        /\ told = "none" => ~Runs(s)
    BY DEF Resumed
  <2> HIDE DEF c
  <2>1. c # NoConn
    BY <2>3, LeaseAssumption
  <2> QED
    BY <2>1, <2>2, <2>3
<1>2. /\ Begins(t) /\ Len(t.pending) <= 1 /\ Orderly(t) /\ t.link = c
      /\ \A j \in Job, e \in Nat, x \in Reason :
           /\ Owes(t, j, e, x)
              => \/ Owes(s, j, e, x)
                 \/ Runs(s) /\ HoldsThat(s, j, e) /\ told = x
           /\ Has(t.pending, Rel(j, e, x)) => ~HoldsThat(t, j, e)
      /\ Runs(t) => /\ Runs(s) /\ told = "continue"
                    /\ t.cur.job = s.cur.job /\ t.cur.epoch = s.cur.epoch
  <2> HIDE DEF s, c
  <2>1. t.link = c
    BY <1>1, WelcomedTurns, ZenonT(30)
  <2>2. Runs(s) /\ told = "continue"
        => acked >= 0 /\ (s.cur.out.last = 0 => acked = 0)
    BY DEF s
  <2> QED
    BY <1>1, <2>1, <2>2, WelcomedOwes, WelcomedNumbers
<1>3. /\ Lean(u) /\ Begins(u) /\ FirstIn(q) /\ q \in Seq(FrameRec)
      /\ \A j \in Job, e \in Nat, x \in Reason :
           /\ Owes(u, j, e, x) => HoldsThat(t, j, e) /\ t.cur.released = x
           /\ Has(q, Rel(j, e, x)) => Has(t.pending, Rel(j, e, x))
           /\ Few(q, Rel(j, e, x))
      /\ u.link = c
      /\ Runs(u) => Runs(t) /\ u.cur.job = t.cur.job /\ u.cur.epoch = t.cur.epoch
  BY <1>2, FlushOwes, FlushNumbers, FlushTyped
<1>4. /\ \A k \in Conn \ {c} : UpCalm(k) /\ down'[k] = down[k]
      /\ up[c] = <<>> /\ down[c] = <<>>
      /\ conn'[c].agent = a /\ conn[c] = NoChannel
      /\ \A b \in Agent \ {a} : agent'[b] = agent[b]
      /\ CancelInv'
      /\ \A b \in Agent \ {a}, j \in Job : \A e \in Nat : \A x \in Reason :
           Once(b, j, e, x)'
  BY ConnectOutside
<1>5. \/ agent'[a] = u /\ up'[c] = q
      \/ agent'[a] = s /\ up'[c] = <<>>
  <2>1. c \notin Evicted(a)
    BY <1>4, StoreAssumption DEF Evicted, NoChannel
  <2> HIDE DEF u, q
  <2>2. CASE /\ agent' = [agent EXCEPT ![a] = u]
             /\ up' = [k \in Conn |-> IF k \in Evicted(a) THEN <<>>
                                      ELSE IF k = c THEN q ELSE up[k]]
    BY <1>1, <2>1, <2>2 DEF TypeOK
  <2>3. CASE /\ UNCHANGED agent
             /\ up' = [k \in Conn |-> IF k \in Evicted(a) THEN <<>> ELSE up[k]]
    BY <1>1, <1>4, <2>1, <2>3
  <2> QED
    BY <2>2, <2>3 DEF Resumed, u, q
<1>6. \A j \in Job : \A e, x : ~Has(down'[c], Can(j, e, x)) /\ ~Assigns(down'[c], j, e)
  <2> DEFINE m == VerdictOrder(s.cur.job, s.cur.epoch, settled[s.cur.job].accepted)
  <2>1. m.type = "verdict"
    BY DEF VerdictOrder, Order
  <2>2. down' = [down EXCEPT ![c] = <<m>>] \/ UNCHANGED down
    BY DEF Resumed
  <2> HIDE DEF m
  <2>3. down'[c] = <<m>> \/ down'[c] = <<>>
    BY <1>1, <1>4, <2>2 DEF TypeOK
  <2>4. \A k \in DOMAIN down'[c] : down'[c][k].type = "verdict"
    BY <2>1, <2>3
  <2> QED
    BY <2>4 DEF Has, Can, Assigns
<1>7. FirstInv'
  <2>1. ASSUME NEW k \in Conn \ {c} PROVE FirstIn(up'[k])
    <3>1. up[k] \in Seq(FrameRec) /\ FirstIn(up[k])
      BY DEF TypeOK, FirstInv
    <3>2. up'[k] \in {up[k], <<>>}
      BY DEF Resumed
    <3> QED
      BY <3>1, <3>2 DEF FirstIn
  <2>2. FirstIn(<<>>)
    BY DEF FirstIn
  <2>3. FirstIn(up'[c])
    <3> DEFINE r == up'[c]
    <3>1. FirstIn(r)
      <4> HIDE DEF q
      <4>1. r = q \/ r = <<>>
        BY <1>5
      <4> HIDE DEF r
      <4> QED
        BY <1>3, <2>2, <4>1
    <3> QED
      BY <3>1
  <2> QED
    BY <2>1, <2>3 DEF FirstInv
<1>8. LeanInv'
  BY <1>1, <1>3, <1>4, <1>5 DEF LeanInv
<1> HIDE DEF c, u, q
<1>9. ASSUME NEW j \in Job, NEW e \in Nat, NEW x \in Reason
      PROVE  Once(a, j, e, x)'
  <2> DEFINE R == Rel(j, e, x)
  <2>1. Once(a, j, e, x) /\ ~Due(a, j, e, x)
    BY <1>1 DEF OnceInv, Due
  <2>2. /\ LogLess(a, j, e, x)
        /\ Attends(a, j, e, x)'
           => /\ agent'[a] = u /\ told = "continue" /\ Runs(s) /\ HoldsThat(s, j, e)
    <3>1. CASE Fades(lease[j], lease'[j]) /\ lease'[j].conn # c
      <4>1. LogLess(a, j, e, x)
        BY <2>1, <3>1, FadesLess
      <4>2. agent'[a].link \in {c, NoConn}
        BY <1>1, <1>3, <1>5
      <4> QED
        BY <3>1, <4>1, <4>2 DEF Attends
    <3>2. CASE /\ answer = "moves" /\ Runs(s)
               /\ HoldsThat(s, j, lease[j].epoch) /\ lease[j].agent = a
               /\ lease'[j] = [lease[j] EXCEPT !.conn = nextConn]
      <4>1. /\ lease'[j].agent = lease[j].agent /\ lease'[j].epoch = lease[j].epoch
            /\ lease'[j].events = lease[j].events /\ lease'[j].conn = nextConn
        BY <3>2 DEF TypeOK, LeaseRec
      <4>2. LogLess(a, j, e, x)
        BY <2>1, <4>1 DEF LogLess, Log, Once
      <4>3. told = "continue"
        BY <3>2 DEF Resumed
      <4>4. Attends(a, j, e, x)' => agent'[a] = u /\ lease[j].epoch = e
        BY <1>1, <1>5, <4>1 DEF Attends
      <4> QED
        BY <3>2, <4>2, <4>3, <4>4
    <3> QED
      BY <3>1, <3>2, ConnectLeases DEF c
  <2>3. Runs(s) /\ HoldsThat(s, j, e) => /\ Unsaid(a, j, e, x)
                                         /\ ~Owed(a, j, e, x)
    <3>1. Runs(s) /\ HoldsThat(s, j, e) => Takes(a, j, e)
      BY DEF Takes
    <3>2. Runs(s) => s.pending = <<>> /\ s.cur.released = "no" /\ x # "no"
      BY <1>1 DEF Runs, Lean, Reason
    <3> QED
      BY <2>1, <3>1, <3>2, FewIn DEF Once, Owed, Owes
  <2>4. Attends(a, j, e, x)'
        => /\ Clear(a, j, e, x) /\ agent'[a] = u /\ ~Owes(t, j, e, x)
    <3>1. "continue" # x
      BY DEF Reason
    <3> QED
      BY <1>2, <2>1, <2>2, <2>3, <3>1 DEF Clear, Owed
  <2>5. Owes(t, j, e, x) => Unsaid(a, j, e, x)
    BY <1>2, <2>1, <2>3 DEF Once, Owed
  <2>6. ~Due(a, j, e, x)' /\ DueLess(a, j, e, x)
    <3>1. agent'[a].link \in {c, NoConn}
      BY <1>1, <1>3, <1>5
    <3> QED
      BY <1>6, <3>1, FewIn DEF Due, DueLess
  <2>7. Takes(a, j, e)' => Runs(s) /\ HoldsThat(s, j, e)
    <3>1. agent'[a].link \in {c, NoConn}
      BY <1>1, <1>3, <1>5
    <3>2. Runs(agent'[a]) /\ HoldsThat(agent'[a], j, e) => Runs(s) /\ HoldsThat(s, j, e)
      BY <1>2, <1>3, <1>5 DEF HoldsThat
    <3> QED
      BY <1>6, <3>1, <3>2 DEF Takes
  <2>8. Takes(a, j, e)' => Takes(a, j, e)
    BY <2>7 DEF Takes
  <2>9. \A k \in Conn \ {c} : OutLess(a, k, j, e, x)
    BY <1>4, <2>1, CalmFrames
  <2>10. CASE agent'[a] = s /\ up'[c] = <<>>
    <3>1. \A k \in Conn : k = c => OutLess(a, k, j, e, x)
      <4>1. ~Has(up'[c], R) /\ Few(up'[c], R)
        <5> DEFINE r == up'[c]
        <5>1. r = <<>>
          BY <2>10
        <5> HIDE DEF r, R
        <5>2. ~Has(r, R) /\ Few(r, R)
          BY <5>1, FewIn
        <5> QED
          BY <5>2 DEF r
      <4> QED
        BY <4>1 DEF OutLess, Out
    <3>2. ~Attends(a, j, e, x)'
      BY <1>1, <2>10 DEF Attends
    <3>3. Owed(a, j, e, x)' => Owed(a, j, e, x)
      BY <2>10 DEF Owed
    <3> QED
      BY <2>1, <2>2, <2>6, <2>8, <2>9, <3>1, <3>2, <3>3, LessOnce
  <2>11. CASE agent'[a] = u /\ up'[c] = q /\ ~Has(t.pending, R)
    <3>1. ~Has(q, R) /\ Few(q, R)
      BY <1>3, <2>11
    <3>2. \A k \in Conn : k = c => OutLess(a, k, j, e, x)
      BY <2>11, <3>1 DEF OutLess, Out
    <3>3. Owed(a, j, e, x)' => Owes(t, j, e, x)
      BY <1>3, <2>11 DEF Owed, Owes
    <3>4. \A k \in Conn : OutLess(a, k, j, e, x)
      BY <2>9, <3>2
    <3>5. Unsaid(a, j, e, x) => Unsaid(a, j, e, x)'
      BY <2>2, <3>4 DEF LogLess, OutLess, Unsaid
    <3>6. Takes(a, j, e)' => Unsaid(a, j, e, x)
      BY <2>3, <2>7
    <3>7. Attends(a, j, e, x)' => Clear(a, j, e, x)'
      BY <2>4, <2>6, <3>3, <3>5 DEF Clear
    <3> QED
      BY <2>1, <2>2, <2>5, <2>6, <3>3, <3>4, <3>5, <3>6, <3>7
         DEF Once, LogLess, OutLess, DueLess
  <2>12. CASE agent'[a] = u /\ up'[c] = q /\ Has(t.pending, R)
    <3>1. /\ Owes(t, j, e, x) /\ Unsaid(a, j, e, x) /\ ~HoldsThat(t, j, e)
          /\ ~Attends(a, j, e, x)'
      BY <1>2, <2>4, <2>5, <2>12 DEF Owes
    <3>2. ~Owed(a, j, e, x)' /\ ~Takes(a, j, e)'
      <4>1. agent'[a].link \in {c, NoConn}
        BY <1>1, <1>3, <1>5
      <4> QED
        BY <1>3, <1>6, <2>12, <3>1, <4>1 DEF Owed, Takes, HoldsThat
    <3>3. \A k \in Conn \ {c} : ~Out(a, k, j, e, x)'
      BY <2>9, <3>1 DEF Unsaid, OutLess
    <3>4. ~Log(a, j, e, x)'
      BY <2>2, <3>1 DEF Unsaid, LogLess
    <3>5. \A k \in Conn : conn'[k].agent = a => Few(up'[k], R)
      BY <1>3, <2>9, <2>12 DEF OutLess
    <3> QED
      BY <2>2, <2>6, <3>1, <3>2, <3>3, <3>4, <3>5 DEF Once, LogLess, DueLess
  <2> QED
    BY <1>5, <2>10, <2>11, <2>12
<1> QED
  BY <1>4, <1>7, <1>8, <1>9 DEF OnceInv

-----------------------------------------------------------------------------
\* A runner claims a channel.

\* Nobody is told to let an attempt go that is not yet given out.
LEMMA UnissuedUnsaid ==
    ASSUME TypeOK, SpokenIn(Words), NEW j \in Job, NEW e \in Nat, ~Issued(j, e), NEW x
    PROVE  /\ \A c \in Conn : /\ ~Has(up[c], Rel(j, e, x))
                              /\ ~Has(down[c], Can(j, e, x))
           /\ \A a \in Agent : x \in Reason => ~Owed(a, j, e, x)
<1>1. \A y : <<j, e, y>> \notin Words
  BY DEF Words, Stands
<1>2. ASSUME NEW q \in Seq(FrameIn(Words)) PROVE ~Has(q, Rel(j, e, x))
  <2>1. \A k \in DOMAIN q : q[k] \in FrameIn(Words)
    BY <1>2
  <2> QED
    BY <1>1, <2>1 DEF Has, Rel, FrameIn
<1>3. ASSUME NEW q \in Seq(OrderIn(Words)) PROVE ~Has(q, Can(j, e, x))
  <2>1. \A k \in DOMAIN q : q[k] \in OrderIn(Words)
    BY <1>3
  <2> QED
    BY <1>1, <2>1 DEF Has, Can, OrderIn
<1>4. ASSUME NEW a \in Agent, x \in Reason PROVE ~Owed(a, j, e, x)
  <2>1. AgentIn(agent[a], Words)
    BY DEF SpokenIn
  <2>2. ~Has(agent[a].pending, Rel(j, e, x))
    BY <1>2, <2>1 DEF AgentIn
  <2>3. ~(HoldsThat(agent[a], j, e) /\ agent[a].cur.released = x)
    <3>1. x # "no"
      BY <1>4 DEF Reason
    <3> QED
      BY <1>1, <2>1, <3>1, NoJobs DEF AgentIn, CurIn, Said, HoldsThat, Holds
  <2> QED
    BY <2>2, <2>3 DEF Owed, Owes
<1> QED
  BY <1>2, <1>3, <1>4 DEF SpokenIn

\* A claim begins an attempt of which nothing was said.
LEMMA ClaimOnce ==
    ASSUME AttemptInv, ChannelInv, CancelInv, OnceInv, NEW j \in Job, Claim(j)
    PROVE  OnceInv' /\ CancelInv'
<1> DEFINE e == runner[j].epoch
           m == Order("assign", j, e, "none", 0)
<1>1. PICK c \in Conn :
        /\ Free(c, j) /\ runner[j].pc = "claiming"
        /\ conn' = [conn EXCEPT ![c].ready = FALSE, ![c].holding = j]
        /\ lease' = [lease EXCEPT ![j] = NewLease(c, conn[c].agent, e)]
        /\ down' = Sent(c, m) /\ UNCHANGED <<agent, up>>
  BY DEF Claim, At
<1>2. /\ TypeOK /\ e = row[j].epoch /\ e \in Nat /\ SpokenIn(Words)
  BY <1>1 DEF AttemptInv, ClaimBase, LifeInv, LinkInv, FenceInv, EpochsGiven,
     Attempted, TypeOK, Row, WordsInv
<1>3. m \in OrderRec /\ m.type = "assign" /\ m.job = j /\ m.epoch = e
  <2>1. m \in OrderRec
    BY <1>2, OrderTyped
  <2>2. m.type = "assign" /\ m.job = j /\ m.epoch = e
    BY DEF Order
  <2> QED
    BY <2>1, <2>2
<1>4. \A k \in Conn : conn'[k].agent = conn[k].agent
  <2> DEFINE n == [conn[c] EXCEPT !.ready = FALSE, !.holding = j]
  <2>1. conn' = [conn EXCEPT ![c] = n] /\ conn[c] \in ChannelRec
    BY <1>1, <1>2 DEF TypeOK
  <2>2. n.agent = conn[c].agent
    BY <2>1 DEF ChannelRec, NoChannel
  <2> HIDE DEF n
  <2> QED
    BY <1>2, <2>1, <2>2 DEF TypeOK
<1>5. \A x : /\ \A k \in Conn : /\ ~Has(up[k], Rel(j, e, x))
                                /\ ~Has(down[k], Can(j, e, x))
             /\ \A a \in Agent : x \in Reason => ~Owed(a, j, e, x)
  BY <1>1, <1>2, UnissuedUnsaid DEF Issued
<1> HIDE DEF m, e
<1>6. \A k \in Conn : \/ down'[k] = down[k]
                      \/ down'[k] = Append(down[k], m)
  BY <1>1, <1>2 DEF Sent, TypeOK
<1>7. \A k \in Conn : down[k] \in Seq(OrderRec) /\ up'[k] = up[k]
  BY <1>1, <1>2 DEF TypeOK
<1>8. \A i, d, x : m \notin Can(i, d, x)
  BY <1>3 DEF Can
<1>9. CancelInv'
  <2>1. ASSUME NEW k \in Conn PROVE CancelsAfter(down'[k])
    <3>1. CancelsAfter(down[k])
      BY DEF CancelInv
    <3>2. \A x : ~Has(down[k], Can(m.job, m.epoch, x))
      BY <1>3, <1>5
    <3>3. CancelsAfter(Append(down[k], m))
      BY <1>3, <1>7, <3>1, <3>2, AppendCancels
    <3> QED
      BY <1>6, <3>1, <3>3
  <2> QED
    BY <2>1 DEF CancelInv
<1>10. ASSUME NEW a \in Agent, NEW i \in Job, NEW d \in Nat, NEW x \in Reason
       PROVE  Once(a, i, d, x)'
  <2> DEFINE k == agent[a].link
  <2>1. Once(a, i, d, x) /\ agent'[a] = agent[a] /\ k \in Conn \cup {NoConn}
    BY <1>1, <1>2 DEF OnceInv, TypeOK, AgentRec
  <2>2. \A n \in Conn : OutLess(a, n, i, d, x)
    BY <1>4, <1>7, <2>1 DEF OutLess, Out, Once
  <2>3. k # NoConn => /\ Has(down'[k], Can(i, d, x)) => Has(down[k], Can(i, d, x))
                      /\ Few(down[k], Can(i, d, x)) => Few(down'[k], Can(i, d, x))
                      /\ Assigns(down'[k], i, d)
                         => Assigns(down[k], i, d) \/ (i = j /\ d = e)
    <3> SUFFICES ASSUME k # NoConn
                 PROVE  /\ Has(down'[k], Can(i, d, x)) => Has(down[k], Can(i, d, x))
                        /\ Few(down[k], Can(i, d, x)) => Few(down'[k], Can(i, d, x))
                        /\ Assigns(down'[k], i, d)
                           => Assigns(down[k], i, d) \/ (i = j /\ d = e)
      OBVIOUS
    <3> DEFINE f == down'[k]
               g == down[k]
               S == Can(i, d, x)
    <3>1. g \in Seq(OrderRec) /\ (f = g \/ f = Append(g, m)) /\ m \notin S
      BY <1>6, <1>7, <1>8, <2>1
    <3> HIDE DEF f, g, S, k
    <3>2. /\ Has(Append(g, m), S) => Has(g, S)
          /\ Few(g, S) => Few(Append(g, m), S)
      BY <1>3, <3>1, FewAppends
    <3>3. Assigns(Append(g, m), i, d) => Assigns(g, i, d) \/ (i = j /\ d = e)
      BY <1>3, <3>1, AssignsOn
    <3>4. /\ Has(f, S) => Has(g, S)
          /\ Few(g, S) => Few(f, S)
          /\ Assigns(f, i, d) => Assigns(g, i, d) \/ (i = j /\ d = e)
      BY <3>1, <3>2, <3>3
    <3> QED
      BY <3>4 DEF f, g, S
  <2>4. DueLess(a, i, d, x) /\ (Owed(a, i, d, x)' => Owed(a, i, d, x))
    BY <2>1, <2>3 DEF DueLess, Due, Once, Owed
  <2>5. ASSUME ~(i = j /\ d = e) PROVE Once(a, i, d, x)'
    <3>1. LogLess(a, i, d, x) /\ (Attends(a, i, d, x)' => Attends(a, i, d, x))
      <4>1. CASE i = j
        <5>1. lease'[i] = NewLease(c, conn[c].agent, e)
          BY <1>1, <1>2, <4>1 DEF TypeOK
        <5>2. lease'[i].epoch # d
          BY <2>5, <4>1, <5>1 DEF NewLease
        <5> QED
          BY <5>2 DEF LogLess, Log, Attends
      <4>2. CASE i # j
        <5>1. lease'[i] = lease[i]
          BY <1>1, <1>2, <4>2 DEF TypeOK
        <5> QED
          BY <2>1, <5>1 DEF LogLess, Log, Attends, Told, Once
      <4> QED
        BY <4>1, <4>2
    <3>2. Takes(a, i, d)' => Takes(a, i, d)
      BY <2>1, <2>3, <2>5 DEF Takes
    <3> QED
      BY <2>1, <2>2, <2>4, <3>1, <3>2, LessOnce
  <2>6. ASSUME i = j, d = e PROVE Once(a, i, d, x)'
    <3>1. lease'[i] = NewLease(c, conn[c].agent, e)
      BY <1>1, <1>2, <2>6 DEF TypeOK
    <3>2. lease'[i].events = <<>>
      BY <3>1 DEF NewLease
    <3>3. ~Has(lease'[i].events, {x}) /\ Few(lease'[i].events, {x})
      <4> DEFINE f == lease'[i].events
      <4>1. f = <<>>
        BY <3>2
      <4> HIDE DEF f
      <4>2. ~Has(f, {x}) /\ Few(f, {x})
        BY <4>1, FewIn
      <4> QED
        BY <4>2 DEF f
    <3>4. /\ ~Log(a, i, d, x)' /\ ~Due(a, i, d, x)' /\ ~Owed(a, i, d, x)'
          /\ \A n \in Conn : ~Out(a, n, i, d, x)'
      BY <1>5, <1>7, <2>1, <2>4, <2>6, <3>3 DEF Log, Due, DueLess, Out
    <3>5. /\ \A n \in Conn : conn'[n].agent = a => Few(up'[n], Rel(i, d, x))
          /\ agent'[a].link # NoConn => Few(down'[agent'[a].link], Can(i, d, x))
      BY <2>2, <2>4 DEF OutLess, DueLess
    <3> QED
      BY <3>3, <3>4, <3>5 DEF Once, Unsaid, Clear
  <2> QED
    BY <2>5, <2>6
<1> QED
  BY <1>9, <1>10 DEF OnceInv

-----------------------------------------------------------------------------
\* What the runner knows its agent was told.

\* A runner that has yet to run asked nothing of its agent.
AsksAt(j) == LET r == runner[j] IN
             r.pc \in {"claiming", "leased", "orphan"}
               => ~r.cancelSent /\ r.to = NoClass
KnowsInv == \A j \in Job : KnowsAt(j) /\ AsksAt(j)

\* A runner r goes on as q, or begins an attempt.
AsksOn(r, q) ==
    \/ q.pc \notin {"claiming", "leased", "orphan", "running"}
    \/ q.pc = "claiming" /\ ~q.cancelSent /\ q.to = NoClass
    \/ /\ r.pc \in {"claiming", "leased", "orphan", "running"}
       /\ r.pc = "claiming" => q.pc \in {"claiming", "leased"}
       /\ r.cancelSent => q.cancelSent
       /\ r.to # NoClass => q.to # NoClass
       /\ q.pc # "running" => q.cancelSent = r.cancelSent /\ q.to = r.to
       /\ r.pc = "running" => q.pc = "running"

\* What a runner makes of itself.
LEMMA AsksForms ==
    ASSUME NEW r \in RunnerRec
    PROVE  /\ AsksOn(r, r)
           /\ \A class, e : AsksOn(r, [Fresh EXCEPT !.pc = "claiming", !.class = class,
                                                    !.epoch = e])
           /\ \A pc : pc \notin {"claiming", "leased", "orphan", "running"}
                      => AsksOn(r, [r EXCEPT !.pc = pc])
           /\ r.pc = "claiming" => AsksOn(r, [r EXCEPT !.pc = "leased"])
           /\ r.pc \in {"leased", "orphan"} => AsksOn(r, [r EXCEPT !.pc = "running"])
           /\ \A class : r.pc \in {"leased", "orphan"}
                => AsksOn(r, [r EXCEPT !.pc = "running", !.class = class])
           /\ r.pc = "running" =>
                /\ AsksOn(r, [r EXCEPT !.read = @ + 1])
                /\ \A to : to # NoClass
                     => AsksOn(r, [[r EXCEPT !.read = @ + 1] EXCEPT !.to = to])
                /\ AsksOn(r, [r EXCEPT !.cancelSent = TRUE])
           /\ \A close, after : AsksOn(r, Ending(r, close, after))
           /\ \A close, counted, to : AsksOn(r, Requeueing(r, close, counted, to))
           /\ \A close, after : AsksOn(r, Ending([r EXCEPT !.read = @ + 1], close, after))
           /\ \A close, counted, to :
                AsksOn(r, Requeueing([r EXCEPT !.read = @ + 1], close, counted, to))
           /\ AsksOn(r, [[r EXCEPT !.read = @ + 1] EXCEPT !.pc = "registering"])
           /\ \A pc \in {"gone", "queued"} : AsksOn(r, [Fresh EXCEPT !.pc = pc])
<1>1. /\ AsksOn(r, r)
      /\ \A class, e : AsksOn(r, [Fresh EXCEPT !.pc = "claiming", !.class = class,
                                               !.epoch = e])
      /\ \A pc : pc \notin {"claiming", "leased", "orphan", "running"}
                 => AsksOn(r, [r EXCEPT !.pc = pc])
      /\ r.pc = "claiming" => AsksOn(r, [r EXCEPT !.pc = "leased"])
  BY DEF AsksOn, RunnerRec, Fresh
<1>2. /\ r.pc \in {"leased", "orphan"} => AsksOn(r, [r EXCEPT !.pc = "running"])
      /\ \A class : r.pc \in {"leased", "orphan"}
           => AsksOn(r, [r EXCEPT !.pc = "running", !.class = class])
  BY DEF AsksOn, RunnerRec
<1>3. r.pc = "running" =>
        /\ AsksOn(r, [r EXCEPT !.read = @ + 1])
        /\ \A to : to # NoClass
             => AsksOn(r, [[r EXCEPT !.read = @ + 1] EXCEPT !.to = to])
        /\ AsksOn(r, [r EXCEPT !.cancelSent = TRUE])
  BY DEF AsksOn, RunnerRec
<1>4. /\ \A close, after : AsksOn(r, Ending(r, close, after))
      /\ \A close, counted, to : AsksOn(r, Requeueing(r, close, counted, to))
  BY DEF AsksOn, RunnerRec, Ending, Requeueing
<1>5. /\ \A close, after : AsksOn(r, Ending([r EXCEPT !.read = @ + 1], close, after))
      /\ \A close, counted, to :
           AsksOn(r, Requeueing([r EXCEPT !.read = @ + 1], close, counted, to))
      /\ AsksOn(r, [[r EXCEPT !.read = @ + 1] EXCEPT !.pc = "registering"])
  BY DEF AsksOn, RunnerRec, Ending, Requeueing
<1>6. \A pc \in {"gone", "queued"} : AsksOn(r, [Fresh EXCEPT !.pc = pc])
  BY DEF AsksOn, Fresh
<1> QED
  BY <1>1, <1>2, <1>3, <1>4, <1>5, <1>6

\* Each step of a runner goes on so.
LEMMA RunnerAsks ==
    ASSUME TypeOK, NEW j \in Job, RunnerStep(j)
    PROVE  \A k \in Job : AsksOn(runner[k], runner'[k])
<1> DEFINE r == runner[j]
<1>1. r \in RunnerRec
  BY DEF TypeOK
<1>2. ASSUME NEW q, Goes(j, q), AsksOn(r, q)
      PROVE  \A k \in Job : AsksOn(runner[k], runner'[k])
  <2>1. \A k \in Job : runner'[k] = IF k = j THEN q ELSE runner[k]
    BY <1>2 DEF Goes, TypeOK
  <2>2. ASSUME NEW k \in Job PROVE AsksOn(runner[k], runner[k])
    BY AsksForms DEF TypeOK
  <2> QED
    BY <1>2, <2>1, <2>2
<1>3. CASE Start(j)
  <2>1. PICK class \in row[j].class .. MaxClass :
          Goes(j, [Fresh EXCEPT !.pc = "claiming", !.class = class,
                                !.epoch = BeginAttempt(row[j]).epoch])
    BY <1>3 DEF Start
  <2>2. PICK e : e = BeginAttempt(row[j]).epoch
    OBVIOUS
  <2>3. Goes(j, [Fresh EXCEPT !.pc = "claiming", !.class = class, !.epoch = e])
    BY <2>1, <2>2
  <2>4. AsksOn(r, [Fresh EXCEPT !.pc = "claiming", !.class = class, !.epoch = e])
    BY <1>1, AsksForms
  <2> QED
    BY <1>2, <2>3, <2>4
<1>4. CASE Claim(j)
  BY <1>1, <1>2, <1>4, AsksForms DEF Claim, At
<1>5. CASE GiveUp(j) \/ RunnerPanics(j)
  BY <1>1, <1>2, <1>5, AsksForms DEF GiveUp, RunnerPanics
<1>6. CASE SaveLeased(j)
  BY <1>1, <1>2, <1>6, AsksForms DEF SaveLeased, At
<1>7. CASE RunOrphan(j)
  <2>1. r.pc = "orphan"
    BY <1>7 DEF RunOrphan, At
  <2>2. \/ Goes(j, [runner[j] EXCEPT !.pc = "gone"])
        \/ \E class : Goes(j, [runner[j] EXCEPT !.pc = "running", !.class = class])
    BY <1>7 DEF RunOrphan
  <2>3. AsksOn(r, [r EXCEPT !.pc = "gone"])
    BY <1>1, AsksForms
  <2>4. ASSUME NEW class PROVE AsksOn(r, [r EXCEPT !.pc = "running", !.class = class])
    BY <1>1, <2>1 DEF AsksOn, RunnerRec
  <2> QED
    BY <1>2, <2>2, <2>3, <2>4
<1>8. CASE OnFeatures(j)
  <2>1. r.pc = "running"
    BY <1>8 DEF OnFeatures, Received, At
  <2>2. \/ Goes(j, ReadOn(j))
        \/ \E target \in r.class + 1 .. MaxClass : Goes(j, [ReadOn(j) EXCEPT !.to = target])
    BY <1>8 DEF OnFeatures
  <2>3. \A target \in r.class + 1 .. MaxClass : target # NoClass
    BY <1>1, StoreAssumption DEF RunnerRec, Class, NoClass
  <2>4. ReadOn(j) = [r EXCEPT !.read = @ + 1]
    BY DEF ReadOn
  <2> QED
    BY <1>1, <1>2, <2>1, <2>2, <2>3, <2>4, AsksForms
<1>9. CASE OnResult(j)
  <2>1. PICK q : /\ Goes(j, q)
                 /\ \/ \E close, after : q = Ending([r EXCEPT !.read = @ + 1], close, after)
                    \/ \E close, counted, to :
                         q = Requeueing([r EXCEPT !.read = @ + 1], close, counted, to)
                    \/ q = [[r EXCEPT !.read = @ + 1] EXCEPT !.pc = "registering"]
    BY <1>9 DEF OnResult, Registers, ReadOn
  <2> QED
    BY <1>1, <1>2, <2>1, AsksForms
<1>10. CASE Publish(j) \/ Registered(j) \/ LetLeaseGo(j)
  <2>1. PICK q : /\ Goes(j, q)
                 /\ \/ \E close, after : q = Ending(r, close, after)
                    \/ q = [r EXCEPT !.pc = "registered"]
    BY <1>10 DEF Publish, Registered, LetLeaseGo
  <2> QED
    BY <1>1, <1>2, <2>1, AsksForms
<1>11. CASE OnError(j) \/ OnRelease(j)
  <2>1. PICK q : /\ Goes(j, q)
                 /\ \/ \E close, after : q = Ending([r EXCEPT !.read = @ + 1], close, after)
                    \/ \E close, counted, to :
                         q = Requeueing([r EXCEPT !.read = @ + 1], close, counted, to)
    BY <1>11 DEF OnError, OnRelease, ReadOn
  <2> QED
    BY <1>1, <1>2, <2>1, AsksForms
<1>12. CASE NoticeCancel(j)
  BY <1>1, <1>2, <1>12, AsksForms DEF NoticeCancel, At
<1>13. CASE FindExpired(j)
  <2>1. PICK q : /\ Goes(j, q)
                 /\ \/ \E close, after : q = Ending(r, close, after)
                    \/ \E close, counted, to : q = Requeueing(r, close, counted, to)
    BY <1>13 DEF FindExpired
  <2> QED
    BY <1>1, <1>2, <2>1, AsksForms
<1>14. CASE EndLease(j)
  <2>1. Goes(j, [r EXCEPT !.pc = r.after]) /\ r.after \in {"gone", "requeue"}
    BY <1>1, <1>14 DEF EndLease, RunnerRec
  <2> QED
    BY <1>1, <1>2, <2>1, AsksForms
<1>15. CASE StoreRequeue(j)
  <2>1. PICK q : /\ Goes(j, q)
                 /\ \/ q = [r EXCEPT !.pc = "gone"]
                    \/ q \in {[Fresh EXCEPT !.pc = "gone"], [Fresh EXCEPT !.pc = "queued"]}
    BY <1>15 DEF StoreRequeue
  <2> QED
    BY <1>1, <1>2, <2>1, AsksForms
<1> QED
  BY <1>3, <1>4, <1>5, <1>6, <1>7, <1>8, <1>9, <1>10, <1>11, <1>12, <1>13, <1>14,
     <1>15 DEF RunnerStep

\* What the leases remember of each other's words, after any step.
LEMMA NextRemembers ==
    ASSUME ClaimBase, WordsInv, [Next]_vars
    PROVE  \A k \in Job : RemembersAt(k, Words)
<1>1. TypeOK /\ SpokenIn(Words)
  BY DEF ClaimBase, LifeInv, FenceInv, WordsInv
<1>2. PICK V : V = Words
  OBVIOUS
<1>3. CASE UNCHANGED lease
  BY <1>1, <1>3, LeasesRemember
<1>4. CASE \E j \in Job : Expire(j)
  <2>1. PICK j \in Job : Expire(j)
    BY <1>4
  <2> DEFINE m == [lease[j] EXCEPT !.time = "due"]
  <2>2. lease' = [lease EXCEPT ![j] = m]
    BY <1>1, <2>1 DEF Expire, TypeOK
  <2>3. \A q, S : Remembers(lease[j], m, q, S)
    BY <1>1, AlikeForms DEF TypeOK
  <2> HIDE DEF m
  <2> QED
    BY <1>1, <2>2, <2>3, OneRemembers
<1>5. ASSUME Restart, NEW k \in Job PROVE RemembersAt(k, Words)
  <2>1. PICK c, a, e : lease'[k] = NoLease \/ lease'[k] = NewLease(c, a, e)
    BY <1>5, RestartParts
  <2>2. \A l, q, S : Remembers(l, NewLease(c, a, e), q, S) /\ Remembers(l, NoLease, q, S)
    BY NewRemembers
  <2> QED
    BY <2>1, <2>2 DEF RemembersAt
<1>6. CASE (\E j \in Job : UserCancel(j)) \/ Stop \/ UNCHANGED vars
  BY <1>3, <1>6 DEF UserCancel, Stop, vars, hub
<1>7. CASE \E c \in Conn : ChannelStep(c)
  <2>1. PICK c \in Conn : ChannelStep(c)
    BY <1>7
  <2>2. Words \subseteq V
    BY <1>2
  <2>3. \A k \in Job : RemembersAt(k, V)
    BY <1>1, <2>1, <2>2, ChannelRemembers
  <2> QED
    BY <1>2, <2>3
<1> QED
  BY <1>1, <1>4, <1>5, <1>6, <1>7, AgentRemembers, RunnerRemembers DEF Next

\* So does every step but a restart.
LEMMA NextAsks ==
    ASSUME TypeOK, [Next]_vars, ~Restart, NEW k \in Job
    PROVE  AsksOn(runner[k], runner'[k])
<1>1. runner[k] \in RunnerRec
  BY DEF TypeOK
<1>2. CASE runner'[k] = runner[k]
  BY <1>1, <1>2, AsksForms
<1>3. CASE \E j \in Job : RunnerStep(j)
  BY <1>3, RunnerAsks
<1>4. CASE \E j \in Job : UserCancel(j)
  <2>1. PICK j \in Job : UserCancel(j)
    BY <1>4
  <2>2. runner'[k] \in {runner[k], [runner[k] EXCEPT !.pc = "gone"]}
    BY <2>1 DEF UserCancel, TypeOK
  <2>3. AsksOn(runner[k], runner[k]) /\ AsksOn(runner[k], [runner[k] EXCEPT !.pc = "gone"])
    BY <1>1, AsksForms
  <2> QED
    BY <2>2, <2>3
<1>5. CASE UNCHANGED jobs
  BY <1>2, <1>5 DEF jobs
<1>6. CASE \E a \in Agent : AgentStep(a)
  BY <1>5, <1>6 DEF AgentStep, JobProgress, Upload, JobFinished, JobKilled,
     HoldExpires, Heartbeat, OnOrder, Disconnect, AgentCrash, Connect
<1>7. CASE \E c \in Conn : ChannelStep(c)
  BY <1>5, <1>7 DEF ChannelStep, OnReady, OnHeartbeat, OnStaleEvent,
     OnNextEvent, OnReleased, RemoveConn
<1>8. CASE (\E j \in Job : Expire(j)) \/ Stop \/ UNCHANGED vars
  BY <1>5, <1>8 DEF Expire, Stop, vars
<1> QED
  BY <1>3, <1>4, <1>6, <1>7, <1>8 DEF Next

\* A runner that runs knows what the hub told its agent.
LEMMA NextKnows ==
    ASSUME ClaimBase, WordsInv, KnowsInv, [Next]_vars
    PROVE  KnowsInv'
<1>1. TypeOK /\ Fence
  BY DEF ClaimBase, LifeInv, FenceInv
<1>2. CASE Restart
  <2>1. ASSUME NEW k \in Job PROVE KnowsAt(k)' /\ AsksAt(k)'
    <3>1. /\ runner'[k] \in {Orphan(row[k]), Unheld(row[k])}
          /\ lease'[k] = NoLease \/ \E a, e : lease'[k] = NewLease(NoConn, a, e)
      BY <1>2, RestartParts
    <3>2. ~runner'[k].cancelSent /\ runner'[k].to = NoClass
      <4>1. \A w : /\ ~Orphan(w).cancelSent /\ Orphan(w).to = NoClass
                  /\ ~Unheld(w).cancelSent /\ Unheld(w).to = NoClass
        BY DEF Orphan, Unheld, Fresh
      <4> QED
        BY <3>1, <4>1
    <3>3. ~lease'[k].cancelled /\ ~lease'[k].rerouting
      <4>1. /\ ~NoLease.cancelled /\ ~NoLease.rerouting
            /\ \A a, e : /\ ~NewLease(NoConn, a, e).cancelled
                        /\ ~NewLease(NoConn, a, e).rerouting
        BY DEF NoLease, NewLease
      <4> QED
        BY <3>1, <4>1
    <3> QED
      BY <3>2, <3>3 DEF KnowsAt, AsksAt
  <2> QED
    BY <2>1 DEF KnowsInv
<1>3. ASSUME ~Restart, NEW k \in Job
      PROVE  KnowsAt(k)' /\ AsksAt(k)'
  <2> DEFINE l == lease[k]
             m == lease'[k]
             r == runner[k]
             q == runner'[k]
  <2>1. AsksOn(r, q)
    BY <1>1, <1>3, NextAsks
  <2>2. KnowsAt(k) /\ AsksAt(k)
    BY DEF KnowsInv
  <2>3. /\ m.cancelled => l.cancelled \/ q.cancelSent
        /\ m.rerouting => l.rerouting \/ q.to # NoClass
    BY NextRemembers DEF RemembersAt, Remembers
  <2>4. r.pc = "claiming" => ~l.cancelled /\ ~l.rerouting
    BY <1>1 DEF Fence, Held, Owning, NoLease, NewLease
  <2> HIDE DEF l, m, r, q
  <2>5. AsksAt(k)'
    BY <2>1, <2>2 DEF AsksOn, AsksAt, r, q
  <2>6. KnowsAt(k)'
    <3>1. /\ r.pc = "running" => (l.rerouting => r.to # NoClass)
                                 /\ (l.cancelled => r.cancelSent)
          /\ r.pc \in {"leased", "orphan"} => ~l.rerouting /\ ~l.cancelled
      BY <2>2 DEF KnowsAt, l, r
    <3>2. r.pc \in {"claiming", "leased", "orphan"} => ~r.cancelSent /\ r.to = NoClass
      BY <2>2 DEF AsksAt, r
    <3>3. q.pc = "running" => /\ m.rerouting => q.to # NoClass
                              /\ m.cancelled => q.cancelSent
      BY <2>1, <2>3, <2>4, <3>1, <3>2 DEF AsksOn
    <3>4. q.pc \in {"leased", "orphan"} => ~m.rerouting /\ ~m.cancelled
      BY <2>1, <2>3, <2>4, <3>1, <3>2 DEF AsksOn
    <3> QED
      BY <3>3, <3>4 DEF KnowsAt, m, q
  <2> QED
    BY <2>5, <2>6
<1> QED
  BY <1>2, <1>3 DEF KnowsInv

-----------------------------------------------------------------------------
\* The hub heard nothing of an attempt whose agent wrote nothing of it.

\* Agent a has the attempt to run, and wrote none of its events; or is to have it.
Blank(a, j, e) ==
    \/ Runs(agent[a]) /\ HoldsThat(agent[a], j, e) /\ agent[a].cur.out.last = 0
    \/ agent[a].link # NoConn /\ Assigns(down[agent[a].link], j, e)

Unsettled(a, j, e) == ~(settled[j].epoch = e /\ settled[j].agent = a)
Unheard(a, j, e) ==
    LET l == lease[j] IN
    l.agent = a /\ l.epoch = e
    => /\ l.next = 1
       /\ l.conn # NoConn /\ l.time # "lost" => Silent(up[l.conn], j, e)
BlankInv == \A a \in Agent, j \in Job : \A e \in Nat :
              Blank(a, j, e) => Unsettled(a, j, e) /\ Unheard(a, j, e)

\* What is settled is issued, and was settled on an event.
SettledAt(j) == settled[j].agent \in Agent
                  => settled[j].last >= 1 /\ Issued(j, settled[j].epoch)
\* A runner registers a result that the hub read.
RegAt(j) == runner[j].pc \in {"registering", "registered"} => lease[j].next >= 2
BookInv == \A j \in Job : SettledAt(j) /\ RegAt(j)

\* The hub heard nothing of the lease's attempt.
Rests(l, m) ==
    /\ m.agent = l.agent /\ m.epoch = l.epoch /\ m.next = l.next
    /\ m.conn \in {l.conn, NoConn}
    /\ l.time = "lost" => m.time = "lost"
Clean(m) == m.next = 1 /\ m.conn = NoConn

\* Leases that rest, and clean ones.
LEMMA RestsForms ==
    ASSUME NEW l \in LeaseRec
    PROVE  /\ Rests(l, l)
           /\ Rests(l, [l EXCEPT !.cancelled = TRUE])
           /\ Rests(l, [l EXCEPT !.rerouting = TRUE])
           /\ Rests(l, [l EXCEPT !.uploads = TRUE])
           /\ \A x : Rests(l, [l EXCEPT !.finished = TRUE, !.events = x])
           /\ Rests(l, [l EXCEPT !.time = "lost"])
           /\ l.time # "lost" => /\ Rests(l, [l EXCEPT !.time = "due"])
                                 /\ \A h : Rests(l, [l EXCEPT !.time = "live", !.hot = h])
           /\ Rests(l, [l EXCEPT !.conn = NoConn])
           /\ Clean(NoLease)
           /\ \A a, e : Clean(NewLease(NoConn, a, e))
<1>1. /\ Rests(l, l)
      /\ Rests(l, [l EXCEPT !.cancelled = TRUE])
      /\ Rests(l, [l EXCEPT !.rerouting = TRUE])
      /\ Rests(l, [l EXCEPT !.uploads = TRUE])
      /\ \A x : Rests(l, [l EXCEPT !.finished = TRUE, !.events = x])
  BY DEF Rests, LeaseRec
<1>2. /\ Rests(l, [l EXCEPT !.time = "lost"])
      /\ l.time # "lost" => /\ Rests(l, [l EXCEPT !.time = "due"])
                            /\ \A h : Rests(l, [l EXCEPT !.time = "live", !.hot = h])
      /\ Rests(l, [l EXCEPT !.conn = NoConn])
  BY DEF Rests, LeaseRec
<1>3. Clean(NoLease) /\ \A a, e : Clean(NewLease(NoConn, a, e))
  BY DEF Clean, NoLease, NewLease
<1> QED
  BY <1>1, <1>2, <1>3

\* A lease that rests or is clean has heard nothing new.
LEMMA RestsUnheard ==
    ASSUME NEW a, NEW j \in Job, NEW e,
           Rests(lease[j], lease'[j]) \/ Clean(lease'[j]),
           Unheard(a, j, e),
           LET c == lease[j].conn IN
           c # NoConn /\ lease[j].agent = a /\ Silent(up[c], j, e)
             => Silent(up'[c], j, e)
    PROVE  Unheard(a, j, e)'
<1>1. CASE Clean(lease'[j])
  BY <1>1 DEF Unheard, Clean
<1>2. CASE Rests(lease[j], lease'[j])
  <2> DEFINE l == lease[j]
             m == lease'[j]
             d == l.conn
  <2>1. /\ m.agent = l.agent /\ m.epoch = l.epoch /\ m.next = l.next
        /\ m.conn = d \/ m.conn = NoConn
        /\ l.time = "lost" => m.time = "lost"
    BY <1>2 DEF Rests
  <2>2. l.agent = a /\ l.epoch = e
        => /\ l.next = 1
           /\ d # NoConn /\ l.time # "lost" => Silent(up[d], j, e)
    BY DEF Unheard
  <2>3. d # NoConn /\ l.agent = a /\ Silent(up[d], j, e) => Silent(up'[d], j, e)
    OBVIOUS
  <2>4. m.conn = d => up'[m.conn] = up'[d]
    OBVIOUS
  <2> HIDE DEF l, m, d
  <2>5. m.agent = a /\ m.epoch = e
        => /\ m.next = 1
           /\ m.conn # NoConn /\ m.time # "lost" => Silent(up'[m.conn], j, e)
    BY <2>1, <2>2, <2>3, <2>4
  <2> QED
    BY <2>5 DEF Unheard, m
<1> QED
  BY <1>1, <1>2

\* A quiet channel stays silent,
LEMMA QuietSilent ==
    ASSUME TypeOK, NEW c \in Conn, UpQuiet(c), NEW j, NEW e, Silent(up[c], j, e)
    PROVE  Silent(up'[c], j, e)
<1>1. up[c] \in Seq(FrameRec) /\ Silent(<<>>, j, e)
  BY DEF TypeOK, Silent
<1>2. CASE up'[c] \in {up[c], <<>>}
  BY <1>1, <1>2 DEF Silent
<1>3. CASE up[c] # <<>> /\ up'[c] = Tail(up[c])
  BY <1>1, <1>3, TailSilent
<1> QED
  BY <1>2, <1>3 DEF UpQuiet

\* and brings nobody an attempt.
LEMMA QuietBlank ==
    ASSUME TypeOK, UNCHANGED agent, \A c \in Conn : DownQuiet(c),
           NEW a \in Agent, NEW j, NEW e, Blank(a, j, e)'
    PROVE  Blank(a, j, e)
<1>1. agent[a].link \in Conn \cup {NoConn}
  BY DEF TypeOK, AgentRec
<1> QED
  BY <1>1, QuietAssigns DEF Blank

\* A step that lets the agents and the leases be.
LEMMA QuietBlanks ==
    ASSUME TypeOK, BlankInv, UNCHANGED agent,
           \A c \in Conn : DownQuiet(c) /\ UpQuiet(c),
           \A j \in Job : Rests(lease[j], lease'[j]) \/ Clean(lease'[j]),
           \A j \in Job : settled'[j] = settled[j] \/ settled'[j] = NoSettled
    PROVE  BlankInv'
<1> SUFFICES ASSUME NEW a \in Agent, NEW j \in Job, NEW e \in Nat, Blank(a, j, e)'
             PROVE  Unsettled(a, j, e)' /\ Unheard(a, j, e)'
  BY DEF BlankInv
<1>1. Unsettled(a, j, e) /\ Unheard(a, j, e)
  BY QuietBlank DEF BlankInv
<1>2. lease[j].conn \in Conn \cup {NoConn}
  BY DEF TypeOK, LeaseRec
<1>3. Unheard(a, j, e)'
  BY <1>1, <1>2, QuietSilent, RestsUnheard
<1>4. NoSettled.agent = NoAgent /\ a # NoAgent
  BY StoreAssumption DEF NoSettled
<1> QED
  BY <1>1, <1>3, <1>4 DEF Unsettled

-----------------------------------------------------------------------------
\* What a runner registers and settles.

\* Only `OnResult` has a runner begin to register.
LEMMA RunnerRegisters ==
    ASSUME TypeOK, NEW j \in Job, RunnerStep(j), ~OnResult(j),
           runner'[j].pc \in {"registering", "registered"}
    PROVE  runner[j].pc \in {"registering", "registered"}
<1> DEFINE r == runner[j]
           R == {"registering", "registered"}
<1>1. r \in RunnerRec /\ runner \in [Job -> RunnerRec]
  BY DEF TypeOK
<1>2. ASSUME NEW q, Goes(j, q) PROVE runner'[j] = q
  BY <1>1, <1>2 DEF Goes
<1>3. CASE Start(j) \/ Claim(j) \/ GiveUp(j) \/ SaveLeased(j) \/ RunOrphan(j)
  <2>1. \A pc : [r EXCEPT !.pc = pc].pc = pc
    BY <1>1 DEF RunnerRec
  <2>2. \/ \E pc \in {"leased", "gone", "running"} : Goes(j, [r EXCEPT !.pc = pc])
        \/ \E class : Goes(j, [r EXCEPT !.pc = "running", !.class = class])
        \/ \E class, e : Goes(j, [Fresh EXCEPT !.pc = "claiming", !.class = class,
                                               !.epoch = e])
    BY <1>3 DEF Start, Claim, GiveUp, SaveLeased, RunOrphan
  <2> HIDE DEF r
  <2>3. CASE \E pc \in {"leased", "gone", "running"} : Goes(j, [r EXCEPT !.pc = pc])
    <3>1. PICK pc \in {"leased", "gone", "running"} : Goes(j, [r EXCEPT !.pc = pc])
      BY <2>3
    <3> QED
      BY <1>2, <2>1, <3>1
  <2>4. CASE \E class : Goes(j, [r EXCEPT !.pc = "running", !.class = class])
    <3>1. PICK class : Goes(j, [r EXCEPT !.pc = "running", !.class = class])
      BY <2>4
    <3> DEFINE q == [r EXCEPT !.pc = "running", !.class = class]
    <3>2. Goes(j, q) /\ q.pc = "running"
      BY <1>1, <3>1 DEF RunnerRec, r
    <3> HIDE DEF q
    <3> QED
      BY <1>2, <3>2
  <2>5. CASE \E class, e : Goes(j, [Fresh EXCEPT !.pc = "claiming", !.class = class,
                                                !.epoch = e])
    <3>1. PICK class, e : Goes(j, [Fresh EXCEPT !.pc = "claiming", !.class = class,
                                                !.epoch = e])
      BY <2>5
    <3> DEFINE q == [Fresh EXCEPT !.pc = "claiming", !.class = class, !.epoch = e]
    <3>2. Goes(j, q) /\ q.pc = "claiming"
      BY <3>1 DEF Fresh
    <3> HIDE DEF q
    <3> QED
      BY <1>2, <3>2
  <2> QED
    BY <2>2, <2>3, <2>4, <2>5
<1>4. CASE OnFeatures(j)
  <2> DEFINE x == [r EXCEPT !.read = @ + 1]
  <2>1. x.pc = r.pc /\ \A to : [x EXCEPT !.to = to].pc = x.pc
    BY <1>1 DEF RunnerRec
  <2>2. ReadOn(j) = x
    BY DEF ReadOn
  <2>3. Goes(j, x) \/ \E to : Goes(j, [x EXCEPT !.to = to])
    BY <1>4, <2>2 DEF OnFeatures
  <2> HIDE DEF x
  <2>4. PICK q : Goes(j, q) /\ q.pc = r.pc
    BY <2>1, <2>3
  <2> QED
    BY <1>2, <2>4
<1>5. CASE Publish(j) \/ Registered(j)
  BY <1>5 DEF Publish, Registered, At
<1>6. CASE OnError(j) \/ OnRelease(j) \/ LetLeaseGo(j) \/ FindExpired(j)
  <2>1. PICK q : Goes(j, q) /\ q.pc = "ending"
    <3>1. \A x \in {r, ReadOn(j)} :
            /\ \A close, after : Ending(x, close, after).pc = "ending"
            /\ \A close, counted, to : Requeueing(x, close, counted, to).pc = "ending"
      BY <1>1, ReadOnTyped DEF RunnerRec, Ending, Requeueing
    <3>2. \/ \E x \in {r, ReadOn(j)} : \E close, after : Goes(j, Ending(x, close, after))
          \/ \E x \in {r, ReadOn(j)} : \E close, counted, to :
               Goes(j, Requeueing(x, close, counted, to))
      BY <1>6 DEF OnError, OnRelease, LetLeaseGo, FindExpired
    <3> QED
      BY <3>1, <3>2
  <2> QED
    BY <1>2, <2>1
<1>7. CASE NoticeCancel(j)
  <2>1. PICK q : Goes(j, q) /\ q.pc = r.pc
    BY <1>1, <1>7 DEF NoticeCancel, RunnerRec
  <2> QED
    BY <1>2, <2>1
<1>8. CASE EndLease(j) \/ StoreRequeue(j) \/ RunnerPanics(j)
  <2>1. PICK q : Goes(j, q) /\ q.pc \in {"gone", "requeue", "queued"}
    BY <1>1, <1>8 DEF EndLease, StoreRequeue, RunnerPanics, RunnerRec, Fresh
  <2> QED
    BY <1>2, <2>1
<1> QED
  BY <1>3, <1>4, <1>5, <1>6, <1>7, <1>8 DEF RunnerStep

\* A result that a runner gets, the hub counted.
LEMMA ResultCounted ==
    ASSUME TypeOK, NEW j \in Job, Logged(lease[j]), Received(j), Event(j) = "result"
    PROVE  lease[j].next >= 2
<1> DEFINE l == lease[j]
           n == runner[j].read + 1
<1>1. l \in LeaseRec /\ runner[j].read \in Nat
  BY DEF TypeOK, RunnerRec
<1>2. l.next \in Nat /\ l.events \in Seq(JobEvent \cup Reason)
  BY <1>1 DEF LeaseRec
<1>3. n \in DOMAIN l.events /\ l.events[n] = "result"
  BY <1>1, <1>2 DEF Received, Event
<1>4. "result" \notin Reason
  BY DEF Reason
<1> HIDE DEF l, n
<1>5. Logged(l)
  BY DEF l
<1>6. l.next >= 1 /\ (l.next = 1 => \A k \in DOMAIN l.events : l.events[k] \in Reason)
  BY <1>5 DEF Logged
<1>7. l.next # 1
  BY <1>3, <1>4, <1>6
<1>8. l.next >= 2
  BY <1>2, <1>6, <1>7
<1> QED
  BY <1>8 DEF l

\* What a runner settles, the hub has counted an event of.
LEMMA RunnersSettle ==
    ASSUME TypeOK, NEW j \in Job, Logged(lease[j]), RegAt(j), RunnerStep(j)
    PROVE  \/ UNCHANGED settled
           \/ /\ lease[j].next >= 2
              /\ \E accepted : Verdict(j, accepted)
<1>1. CASE OnResult(j)
  <2>1. UNCHANGED settled \/ \E accepted : Verdict(j, accepted)
    BY <1>1 DEF OnResult, Registers
  <2>2. Received(j) /\ Event(j) = "result"
    BY <1>1 DEF OnResult
  <2> QED
    BY <2>1, <2>2, ResultCounted
<1>2. CASE Publish(j) \/ Registered(j)
  <2>1. UNCHANGED settled \/ \E accepted : Verdict(j, accepted)
    BY <1>2 DEF Publish, Registered
  <2>2. runner[j].pc \in {"registering", "registered"}
    BY <1>2 DEF Publish, Registered, At
  <2> QED
    BY <2>1, <2>2 DEF RegAt
<1>3. CASE Start(j) \/ Claim(j) \/ GiveUp(j) \/ SaveLeased(j) \/ RunOrphan(j)
           \/ OnFeatures(j) \/ OnError(j) \/ OnRelease(j) \/ NoticeCancel(j)
           \/ LetLeaseGo(j) \/ FindExpired(j) \/ EndLease(j) \/ StoreRequeue(j)
           \/ RunnerPanics(j)
  BY <1>3 DEF Start, Claim, GiveUp, SaveLeased, RunOrphan, OnFeatures, OnError,
     OnRelease, NoticeCancel, LetLeaseGo, FindExpired, EndLease, StoreRequeue,
     RunnerPanics, hub
<1> QED
  BY <1>1, <1>2, <1>3 DEF RunnerStep

\* What is issued stays so.
LEMMA IssuedOn ==
    ASSUME ClaimBase, ClaimBase', [Next]_vars, NEW j \in Job, NEW e \in Nat,
           Issued(j, e)
    PROVE  Issued(j, e)'
<1>1. /\ row'[j].epoch >= row[j].epoch
      /\ runner'[j].pc = "claiming" => \/ row'[j].epoch > row[j].epoch
                                       \/ runner[j].pc = "claiming"
      /\ row[j].epoch \in Nat /\ row'[j].epoch \in Nat
  BY NextOn DEF ClaimBase, JobOn, On, RowOn, LifeInv, FenceInv, TypeOK, Row
<1> QED
  BY <1>1 DEF Issued

\* The steps of a runner but a claim.
LEMMA RunnersRest ==
    ASSUME TypeOK, NEW j \in Job, RunnerStep(j), ~Claim(j), NEW k \in Job
    PROVE  Rests(lease[k], lease'[k]) \/ Clean(lease'[k])
<1>1. lease \in [Job -> LeaseRec] /\ lease[k] \in LeaseRec /\ lease[j] \in LeaseRec
  BY DEF TypeOK
<1>2. Rests(lease[k], lease[k])
  BY <1>1, RestsForms
<1>3. CASE UNCHANGED lease
  BY <1>2, <1>3
<1>4. CASE \E m \in {NoLease, [lease[j] EXCEPT !.cancelled = TRUE],
                     [lease[j] EXCEPT !.rerouting = TRUE],
                     [lease[j] EXCEPT !.time = "lost"]} :
             lease' = [lease EXCEPT ![j] = m]
  <2>1. PICK m \in {NoLease, [lease[j] EXCEPT !.cancelled = TRUE],
                    [lease[j] EXCEPT !.rerouting = TRUE],
                    [lease[j] EXCEPT !.time = "lost"]} :
             lease' = [lease EXCEPT ![j] = m]
    BY <1>4
  <2>2. Rests(lease[j], m) \/ Clean(m)
    BY <1>1, <2>1, RestsForms
  <2>3. lease'[k] = IF k = j THEN m ELSE lease[k]
    BY <1>1, <2>1
  <2> QED
    BY <1>2, <2>2, <2>3
<1> QED
  BY <1>3, <1>4, RunnersLeave DEF RunnerLeaves

-----------------------------------------------------------------------------
\* The hub reads a channel.

\* On channel c, the hub reads an event of the lease's attempt.
Hears(c, k) ==
    LET l == lease[k]  m == lease'[k] IN
    /\ l.conn = c /\ l.time # "lost"
    /\ up[c] # <<>> /\ OfAttempt(Head(up[c]), k, l.epoch)
    /\ m.agent = l.agent /\ m.epoch = l.epoch /\ m.next = l.next + 1

\* A channel's step has a lease rest, or hear one event of its attempt.
LEMMA ChannelHears ==
    ASSUME TypeOK, NEW c \in Conn, ChannelStep(c), NEW k \in Job
    PROVE  Rests(lease[k], lease'[k]) \/ Hears(c, k)
<1> DEFINE f == Head(up[c])
           l == lease[f.job]
<1>1. lease[k] \in LeaseRec /\ lease \in [Job -> LeaseRec]
  BY DEF TypeOK
<1>2. Rests(lease[k], lease[k])
  BY <1>1, RestsForms
<1>3. CASE UNCHANGED lease
  BY <1>2, <1>3
<1>4. CASE RemoveConn(c)
  <2>1. lease'[k] \in {lease[k], [lease[k] EXCEPT !.conn = NoConn]}
    BY <1>4 DEF RemoveConn, Detached
  <2>2. Rests(lease[k], [lease[k] EXCEPT !.conn = NoConn])
    BY <1>1, RestsForms
  <2> QED
    BY <1>2, <2>1, <2>2
<1>5. CASE OnHeartbeat(c) /\ Current(c, f)
  <2>1. f.job \in Job /\ l.time # "lost"
    BY <1>5, GetsTyped, FrameKinds DEF OnHeartbeat, Current
  <2> DEFINE m == [l EXCEPT !.time = "live", !.hot = (f.ev = "hot")]
  <2>2. lease' = [lease EXCEPT ![f.job] = m]
    BY <1>1, <1>5, <2>1 DEF OnHeartbeat
  <2>3. Rests(l, m)
    BY <1>1, <2>1 DEF Rests, LeaseRec
  <2> HIDE DEF m, f
  <2> QED
    BY <1>1, <1>2, <2>1, <2>2, <2>3
<1>6. CASE OnReleased(c)
  <2>1. f.job \in Job
    BY <1>6, GetsTyped, FrameKinds DEF OnReleased
  <2> DEFINE m == [l EXCEPT !.finished = TRUE, !.events = Append(@, f.ev)]
  <2>2. UNCHANGED lease \/ lease' = [lease EXCEPT ![f.job] = m]
    BY <1>1, <1>6, <2>1 DEF OnReleased
  <2>3. Rests(l, m)
    BY <1>1, <2>1 DEF Rests, LeaseRec
  <2> HIDE DEF m, f
  <2> QED
    BY <1>1, <1>2, <2>1, <2>2, <2>3
<1>7. CASE OnNextEvent(c)
  <2> DEFINE j == f.job
  <2>1. /\ f \in FrameRec /\ f.type = "event" /\ up[c] # <<>>
        /\ l.conn = c /\ l.epoch = f.epoch /\ l.time # "lost"
    BY <1>7, GetsTyped DEF OnNextEvent, Gets, Current
  <2>2. j \in Job /\ l \in LeaseRec
    BY <1>1, <2>1, FrameKinds
  <2> DEFINE ends == f.ev \in Terminal
             r == [l EXCEPT !.next = @ + 1, !.time = "live",
                            !.finished = @ \/ ends]
             x1 == [r EXCEPT !.finished = TRUE]
             x2 == [r EXCEPT !.result = (f.ev = "result"),
                             !.events = Append(@, f.ev)]
  <2>3. lease' \in {[lease EXCEPT ![j] = r], [lease EXCEPT ![j] = x1],
                    [lease EXCEPT ![j] = x2]}
    BY <1>7, Zenon DEF OnNextEvent
  <2>4. /\ r.agent = l.agent /\ r.epoch = l.epoch /\ r.next = l.next + 1
        /\ x1.agent = l.agent /\ x1.epoch = l.epoch /\ x1.next = l.next + 1
        /\ x2.agent = l.agent /\ x2.epoch = l.epoch /\ x2.next = l.next + 1
    BY <2>2 DEF LeaseRec
  <2>5. OfAttempt(f, j, l.epoch)
    BY <2>1 DEF OfAttempt
  <2>6. k = j => l = lease[k]
    OBVIOUS
  <2> HIDE DEF r, x1, x2, l
  <2>7. CASE k = j
    <3>1. lease'[k] \in {r, x1, x2}
      BY <1>1, <2>2, <2>3, <2>7
    <3> QED
      BY <2>1, <2>4, <2>5, <2>6, <2>7, <3>1 DEF Hears
  <2>8. CASE k # j
    BY <1>1, <1>2, <2>3, <2>8
  <2> QED
    BY <2>7, <2>8
<1>8. CASE \/ OnReady(c)
           \/ OnStaleEvent(c)
           \/ OnHeartbeat(c) /\ ~Current(c, f)
  BY <1>3, <1>8 DEF OnReady, OnStaleEvent, OnHeartbeat, hub
<1> QED
  BY <1>4, <1>5, <1>6, <1>7, <1>8 DEF ChannelStep

\* It leaves agents alone and channels quiet.
LEMMA ChannelSilent ==
    ASSUME TypeOK, NEW c \in Conn, ChannelStep(c)
    PROVE  UNCHANGED agent /\ \A k \in Conn : UpQuiet(k) /\ DownQuiet(k)
<1>1. CASE OnReady(c)
  BY <1>1, TookQuiet, StillQuiet DEF OnReady
<1>2. CASE ~OnReady(c)
  BY <1>2, ChannelQuiet DEF QuietStep, Quiet
<1> QED
  BY <1>1, <1>2

\* The hub hears an event of no attempt that is blank.
LEMMA ChannelBlank ==
    ASSUME TypeOK, BlankInv, NEW c \in Conn, ChannelStep(c)
    PROVE  BlankInv'
<1> SUFFICES ASSUME NEW a \in Agent, NEW j \in Job, NEW e \in Nat, Blank(a, j, e)'
             PROVE  Unsettled(a, j, e)' /\ Unheard(a, j, e)'
  BY DEF BlankInv
<1>1. Unsettled(a, j, e) /\ Unheard(a, j, e)
  BY ChannelSilent, QuietBlank DEF BlankInv
<1>2. Unsettled(a, j, e)'
  BY <1>1, SettledStays DEF Unsettled
<1>3. CASE Rests(lease[j], lease'[j])
  <2>1. lease[j].conn \in Conn \cup {NoConn}
    BY DEF TypeOK, LeaseRec
  <2>2. Unheard(a, j, e)'
    BY <1>1, <1>3, <2>1, ChannelSilent, QuietSilent, RestsUnheard
  <2> QED
    BY <1>2, <2>2
<1>4. CASE Hears(c, j)
  <2> DEFINE l == lease[j]
             q == up[c]
  <2>1. q \in Seq(FrameRec) /\ c # NoConn
    BY LeaseAssumption DEF TypeOK
  <2>2. /\ l.conn = c /\ l.time # "lost"
        /\ q # <<>> /\ OfAttempt(Head(q), j, l.epoch)
        /\ lease'[j].agent = l.agent /\ lease'[j].epoch = l.epoch
    BY <1>4 DEF Hears
  <2> HIDE DEF q
  <2>3. ~Silent(q, j, l.epoch)
    <3>1. Head(q) = q[1] /\ 1 \in DOMAIN q
      BY <2>1, <2>2
    <3> QED
      BY <2>2, <3>1 DEF Silent
  <2>4. ~(l.agent = a /\ l.epoch = e)
    BY <1>1, <2>1, <2>2, <2>3 DEF Unheard, q
  <2> QED
    BY <1>2, <2>2, <2>4 DEF Unheard
<1> QED
  BY <1>3, <1>4, ChannelHears

\* The steps of the jobs and of the surroundings.
LEMMA RunnerBlank ==
    ASSUME TypeOK, BlankInv, NEW j \in Job, Logged(lease[j]), RegAt(j),
           RunnerStep(j), ~Claim(j)
    PROVE  BlankInv'
<1> SUFFICES ASSUME NEW a \in Agent, NEW k \in Job, NEW e \in Nat, Blank(a, k, e)'
             PROVE  Unsettled(a, k, e)' /\ Unheard(a, k, e)'
  BY DEF BlankInv
<1>1. Unsettled(a, k, e) /\ Unheard(a, k, e)
  BY RunnerQuiet, QuietBlank DEF QuietStep, Quiet, BlankInv
<1>2. Unheard(a, k, e)'
  <2>1. lease[k].conn \in Conn \cup {NoConn}
    BY DEF TypeOK, LeaseRec
  <2> QED
    BY <1>1, <2>1, RunnersRest, RunnerQuiet, QuietSilent, RestsUnheard
       DEF QuietStep, Quiet
<1>3. Unsettled(a, k, e)'
  <2>1. CASE UNCHANGED settled
    BY <1>1, <2>1 DEF Unsettled
  <2>2. CASE lease[j].next >= 2 /\ \E accepted : Verdict(j, accepted)
    <3>1. PICK accepted : Verdict(j, accepted)
      BY <2>2
    <3>2. settled'[k] = IF k = j THEN [epoch |-> lease[j].epoch, agent |-> lease[j].agent,
                                       accepted |-> accepted, last |-> lease[j].next - 1]
                        ELSE settled[k]
      BY <3>1 DEF Verdict, TypeOK
    <3>3. k = j => ~(lease[j].agent = a /\ lease[j].epoch = e)
      BY <1>1, <2>2 DEF Unheard
    <3> QED
      BY <1>1, <3>2, <3>3 DEF Unsettled
  <2> QED
    BY <2>1, <2>2, RunnersSettle
<1> QED
  BY <1>2, <1>3

\* The user, time, a stop and a restart.
LEMMA SurroundingsBlank ==
    ASSUME TypeOK, BlankInv, \/ \E j \in Job : Expire(j) \/ UserCancel(j)
                             \/ Stop
                             \/ Restart
    PROVE  BlankInv'
<1>1. UNCHANGED agent /\ \A c \in Conn : DownQuiet(c) /\ UpQuiet(c)
  BY SurroundingsQuiet DEF QuietStep, Quiet
<1>2. ASSUME NEW k \in Job
      PROVE  /\ Rests(lease[k], lease'[k]) \/ Clean(lease'[k])
             /\ settled'[k] = settled[k] \/ settled'[k] = NoSettled
  <2>1. lease[k] \in LeaseRec /\ lease \in [Job -> LeaseRec]
    BY DEF TypeOK
  <2>2. CASE \E j \in Job : Expire(j)
    <3>1. PICK j \in Job : Expire(j)
      BY <2>2
    <3> DEFINE m == [lease[j] EXCEPT !.time = "due"]
    <3>2. lease' = [lease EXCEPT ![j] = m] /\ lease[j].time # "lost" /\ UNCHANGED settled
      BY <2>1, <3>1 DEF Expire
    <3>3. Rests(lease[j], m)
      BY <2>1, <3>2 DEF Rests, LeaseRec
    <3>4. Rests(lease[k], lease[k])
      BY <2>1, RestsForms
    <3> HIDE DEF m
    <3> QED
      BY <2>1, <3>2, <3>3, <3>4
  <2>3. CASE Restart
    <3>1. settled'[k] = NoSettled
      BY <2>3 DEF Restart
    <3>2. Clean(lease'[k])
      <4>1. Clean(NoLease) /\ \A a, e : Clean(NewLease(NoConn, a, e))
        BY <2>1, RestsForms
      <4> QED
        BY <2>3, <4>1, RestartParts
    <3> QED
      BY <3>1, <3>2
  <2>4. CASE (\E j \in Job : UserCancel(j)) \/ Stop
    <3>1. UNCHANGED <<lease, settled>>
      BY <2>4 DEF UserCancel, Stop, hub
    <3> QED
      BY <2>1, <3>1, RestsForms
  <2> QED
    BY <2>2, <2>3, <2>4
<1> QED
  BY <1>1, <1>2, QuietBlanks

-----------------------------------------------------------------------------
\* The agents' steps.

\* A frame that is no event keeps a channel silent.
LEMMA AppendSilent ==
    ASSUME NEW q \in Seq(FrameRec), NEW f \in FrameRec, f.type # "event",
           NEW j, NEW e, Silent(q, j, e)
    PROVE  Silent(Append(q, f), j, e)
BY DEF Silent, OfAttempt

\* An agent that gets nothing to run, and writes no event.
LEMMA MuteBlank ==
    ASSUME TypeOK, BlankInv, UNCHANGED settled,
           \A a \in Agent, j \in Job : \A e \in Nat : Blank(a, j, e)' => Blank(a, j, e),
           \A c \in Conn : \/ UpQuiet(c)
                           \/ \E f \in FrameRec : /\ f.type # "event"
                                                  /\ up'[c] = Append(up[c], f),
           \A j \in Job : Rests(lease[j], lease'[j])
    PROVE  BlankInv'
<1> SUFFICES ASSUME NEW a \in Agent, NEW j \in Job, NEW e \in Nat, Blank(a, j, e)'
             PROVE  Unsettled(a, j, e)' /\ Unheard(a, j, e)'
  BY DEF BlankInv
<1>1. Unsettled(a, j, e) /\ Unheard(a, j, e)
  BY DEF BlankInv
<1>2. lease[j].conn \in Conn \cup {NoConn}
  BY DEF TypeOK, LeaseRec
<1>3. ASSUME NEW c \in Conn, Silent(up[c], j, e) PROVE Silent(up'[c], j, e)
  <2>1. up[c] \in Seq(FrameRec)
    BY DEF TypeOK
  <2> QED
    BY <1>3, <2>1, QuietSilent, AppendSilent
<1>4. Unheard(a, j, e)'
  BY <1>1, <1>2, <1>3, RestsUnheard
<1> QED
  BY <1>1, <1>4 DEF Unsettled

\* A heartbeat is no event.
LEMMA HeartbeatBlank ==
    ASSUME TypeOK, BlankInv, NEW a \in Agent, Heartbeat(a)
    PROVE  BlankInv'
<1> DEFINE c == agent[a].link
           cur == agent[a].cur
<1>1. PICK memory \in {"hot", "calm"} :
        up' = [up EXCEPT ![c] =
                 Append(@, Frame("heartbeat", cur.job, cur.epoch, 0, memory))]
  BY DEF Heartbeat
<1>2. /\ UNCHANGED <<lease, settled, agent, down>> /\ cur.job \in Job /\ cur.epoch \in Nat
  BY DEF Heartbeat, hub, TypeOK, AgentRec, CurrentRec, Holds
<1> DEFINE f == Frame("heartbeat", cur.job, cur.epoch, 0, memory)
<1>3. f \in FrameRec /\ f.type = "heartbeat"
  BY <1>2 DEF Frame, FrameRec, FrameOf
<1> HIDE DEF f
<1>4. ASSUME NEW k \in Conn
      PROVE  up'[k] = up[k] \/ up'[k] = Append(up[k], f)
  BY <1>1 DEF TypeOK, f
<1>5. \A b, j, e : Blank(b, j, e)' => Blank(b, j, e)
  BY <1>2 DEF Blank
<1>6. \A j \in Job : Rests(lease[j], lease'[j])
  BY <1>2, RestsForms DEF TypeOK
<1> QED
  BY <1>2, <1>3, <1>4, <1>5, <1>6, MuteBlank DEF UpQuiet

\* An agent that keeps or loses its link or its job.
LEMMA LosesBlank ==
    ASSUME TypeOK, LinkInv, BlankInv, UNCHANGED <<settled, up>>,
           \A k \in Job : Rests(lease[k], lease'[k]),
           NEW a \in Agent, agent'[a].link \in {agent[a].link, NoConn},
           Runs(agent'[a]) =>
             /\ Runs(agent[a]) /\ agent'[a].cur.job = agent[a].cur.job
             /\ agent'[a].cur.epoch = agent[a].cur.epoch
             /\ agent'[a].cur.out.last = agent[a].cur.out.last,
           \A b \in Agent \ {a} : agent'[b] = agent[b],
           \A k \in Conn : \/ down'[k] = down[k]
                           \/ /\ down'[k] = <<>> /\ k = agent[a].link
                              /\ agent'[a].link = NoConn
    PROVE  BlankInv'
<1>1. ASSUME NEW b \in Agent, NEW j \in Job, NEW e \in Nat, Blank(b, j, e)'
      PROVE  Blank(b, j, e)
  <2> DEFINE d == agent'[b].link
  <2>1. d \in {agent[b].link, NoConn} /\ agent[b].link \in Conn \cup {NoConn}
    BY DEF TypeOK, AgentRec
  <2>2. d # NoConn => down'[d] = down[d]
    <3> SUFFICES ASSUME d # NoConn PROVE down'[d] = down[d]
      OBVIOUS
    <3>1. d \in Conn /\ d = agent[b].link
      BY <2>1
    <3>2. ASSUME d = agent[a].link, agent'[a].link = NoConn PROVE FALSE
      BY <3>1, <3>2 DEF LinkInv, LinksDiffer
    <3> HIDE DEF d
    <3> QED
      BY <3>1, <3>2
  <2>3. Runs(agent'[b]) /\ HoldsThat(agent'[b], j, e) /\ agent'[b].cur.out.last = 0
        => Runs(agent[b]) /\ HoldsThat(agent[b], j, e) /\ agent[b].cur.out.last = 0
    BY DEF HoldsThat
  <2>4. ASSUME d # NoConn, Assigns(down'[d], j, e) PROVE Blank(b, j, e)
    <3>1. d = agent[b].link /\ down'[d] = down[d]
      BY <2>1, <2>2, <2>4
    <3> HIDE DEF d
    <3> QED
      BY <2>4, <3>1 DEF Blank
  <2> QED
    BY <1>1, <2>3, <2>4 DEF Blank
<1> QED
  BY <1>1, MuteBlank DEF UpQuiet

\* Uploads are heard of by HTTP, not as events.
LEMMA UploadBlank ==
    ASSUME TypeOK, LinkInv, BlankInv, NEW a \in Agent, Upload(a)
    PROVE  BlankInv'
<1> DEFINE s == agent[a]
<1>1. PICK how : agent' = [agent EXCEPT ![a] = [agent[a] EXCEPT !.cur.up = how]]
  BY UploadLinks
<1> DEFINE t == [s EXCEPT !.cur.up = how]
<1>2. /\ t.link = s.link /\ t.cur.job = s.cur.job /\ t.cur.epoch = s.cur.epoch
      /\ t.cur.released = s.cur.released /\ t.cur.out = s.cur.out
  BY ZenonT(30) DEF TypeOK, AgentRec, CurrentRec
<1>3. agent'[a] = t /\ \A b \in Agent \ {a} : agent'[b] = agent[b]
  BY <1>1 DEF TypeOK
<1>4. /\ UNCHANGED <<settled, up, down>>
      /\ \/ UNCHANGED lease
         \/ lease' = [lease EXCEPT ![s.cur.job].uploads = TRUE]
  BY DEF Upload
<1> HIDE DEF t
<1>5. /\ agent'[a].link = s.link
      /\ Runs(agent'[a]) => /\ Runs(s) /\ agent'[a].cur.job = s.cur.job
                            /\ agent'[a].cur.epoch = s.cur.epoch
                            /\ agent'[a].cur.out.last = s.cur.out.last
  BY <1>2, <1>3 DEF Runs, Holds
<1>6. ASSUME NEW k \in Job PROVE Rests(lease[k], lease'[k])
  <2>1. lease[k] \in LeaseRec
    BY DEF TypeOK
  <2>2. lease'[k] \in {lease[k], [lease[k] EXCEPT !.uploads = TRUE]}
    BY <1>4 DEF TypeOK
  <2>3. Rests(lease[k], lease[k]) /\ Rests(lease[k], [lease[k] EXCEPT !.uploads = TRUE])
    BY <2>1, RestsForms
  <2> QED
    BY <2>2, <2>3
<1> QED
  BY <1>3, <1>4, <1>5, <1>6, LosesBlank

\* A channel lost, or an agent that dies.
LEMMA DisconnectBlank ==
    ASSUME TypeOK, LinkInv, BlankInv, NEW a \in Agent, Disconnect(a) \/ AgentCrash(a)
    PROVE  BlankInv'
<1> DEFINE s == agent[a]
<1>1. /\ UNCHANGED <<settled, up, lease>>
      /\ down' = [c \in Conn |-> IF c = s.link THEN <<>> ELSE down[c]]
  BY DisconnectLinks DEF Disconnect, AgentCrash, hub
<1>2. \A k \in Job : Rests(lease[k], lease'[k])
  BY <1>1, RestsForms DEF TypeOK
<1>3. PICK t : /\ agent' = [agent EXCEPT ![a] = t] /\ t.link = NoConn
               /\ t = NewAgent \/ t.cur = s.cur
  <2>1. CASE AgentCrash(a)
    BY <2>1 DEF AgentCrash, NewAgent
  <2>2. CASE Disconnect(a)
    <3> DEFINE t == [s EXCEPT !.link = NoConn]
    <3>1. agent' = [agent EXCEPT ![a] = t]
      BY <2>2 DEF Disconnect, TypeOK
    <3>2. t.link = NoConn /\ t.cur = s.cur
      BY DEF TypeOK, AgentRec
    <3> HIDE DEF t
    <3> QED
      BY <3>1, <3>2
  <2> QED
    BY <2>1, <2>2
<1>4. agent'[a] = t /\ \A b \in Agent \ {a} : agent'[b] = agent[b]
  BY <1>3 DEF TypeOK
<1>5. Runs(t) => t.cur = s.cur
  BY <1>3 DEF Runs, Holds, NewAgent, Idle
<1>6. Runs(t) => Runs(s)
  BY <1>5 DEF Runs, Holds
<1> QED
  BY <1>1, <1>2, <1>3, <1>4, <1>5, <1>6, LosesBlank

\* An agent's turn writes no event of an attempt it has still to begin.
LEMMA TurnMute ==
    ASSUME TypeOK, LinkInv, ChannelInv, LeanInv, NEW a \in Agent,
           NEW t \in AgentRec, OwesTurn(a, t),
           NEW j \in Job, NEW e \in Nat, Blank(a, j, e)'
    PROVE  /\ Blank(a, j, e)
           /\ agent[a].link # NoConn => Silent(FramesOf(t), j, e)
<1> DEFINE s == agent[a]
           c == s.link
           d == down[c]
           u == AfterFlush(t)
           o == t.cur.out
<1>1. /\ LinkAt(a) /\ c \in Conn \cup {NoConn}
      /\ down \in [Conn -> Seq(OrderRec)] /\ agent \in [Agent -> AgentRec]
  BY DEF LinkInv, TypeOK, AgentRec
<1>2. /\ Turn(a, t) /\ t.link = c /\ Orderly(t) /\ Begins(t)
  BY DEF OwesTurn, GoesOnTo, OwesOn
<1>3. \/ Continues(s, t)
      \/ /\ c # NoConn /\ d # <<>> /\ Head(d).type = "assign"
         /\ down' = [down EXCEPT ![c] = Tail(@)]
         /\ t.cur.job = Head(d).job /\ t.cur.epoch = Head(d).epoch
  BY DEF OwesTurn, GoesOnTo
<1>4. UNCHANGED down \/ (/\ c # NoConn /\ d # <<>>
                         /\ down' = [down EXCEPT ![c] = Tail(@)])
  BY DEF OwesTurn, GoesOnTo
<1>5. agent'[a] = IF c = NoConn THEN t ELSE u
  <2>1. CASE c = NoConn
    BY <1>1, <1>2, <2>1 DEF Turn
  <2>2. CASE c # NoConn
    <3>1. agent' = [agent EXCEPT ![a] = u]
      BY <1>2, <2>2 DEF Turn
    <3> HIDE DEF u, c
    <3> QED
      BY <1>1, <2>2, <3>1
  <2> QED
    BY <2>1, <2>2
<1>6. c # NoConn => /\ d \in Seq(OrderRec)
                    /\ down'[c] = d \/ (d # <<>> /\ down'[c] = Tail(d))
                    /\ OneToken(conn[c].ready, up[c], d, Holds(s))
  <2> HIDE DEF c
  <2>1. c # NoConn => OneToken(conn[c].ready, up[c], d, Holds(s))
    BY <1>1 DEF LinkAt, c
  <2> QED
    BY <1>1, <1>4, <2>1
<1>7. /\ u.link = c
      /\ Runs(u) => /\ Runs(t) /\ u.cur.out.last = o.last + (Len(o.evs) - o.written)
                    /\ u.cur.job = t.cur.job /\ u.cur.epoch = t.cur.epoch
      /\ Runs(t) => Numbered(FramesOf(t), t.cur.job, t.cur.epoch, o.last + 1,
                             o.last + (Len(o.evs) - o.written))
      /\ ~(Runs(t) /\ HoldsThat(t, j, e)) => Silent(FramesOf(t), j, e)
  BY <1>2, FlushNumbers
<1>8. Runs(t) => o.last >= 0
  BY <1>2 DEF Begins, BeginsWith
<1>9. /\ o.last \in Int /\ o.written \in Nat /\ Len(o.evs) \in Nat
      /\ o.written <= Len(o.evs)
  BY <1>2 DEF AgentRec, CurrentRec, OutboxRec, Orderly
<1> HIDE DEF u
\* What t runs, and began before, s ran.
<1>10. ASSUME Runs(t), HoldsThat(t, j, e), o.last = 0
       PROVE  Blank(a, j, e)
  <2>1. CASE Continues(s, t)
    BY <1>10, <2>1 DEF Continues, HoldsThat, Blank
  <2>2. CASE /\ c # NoConn /\ d # <<>> /\ Head(d).type = "assign"
             /\ t.cur.job = Head(d).job /\ t.cur.epoch = Head(d).epoch
    <3>1. d \in Seq(OrderRec)
      BY <1>6, <2>2
    <3>2. Assigns(d, j, e)
      <4> HIDE DEF d
      <4> QED
        BY <1>10, <2>2, <3>1, AssignsOn DEF HoldsThat
    <3> QED
      BY <2>2, <3>2 DEF Blank
  <2> QED
    BY <1>3, <2>1, <2>2
<1>11. CASE Runs(agent'[a]) /\ HoldsThat(agent'[a], j, e) /\ agent'[a].cur.out.last = 0
  <2>1. CASE c = NoConn
    BY <1>5, <1>10, <1>11, <2>1
  <2>2. CASE c # NoConn
    <3>1. /\ Runs(t) /\ HoldsThat(t, j, e)
          /\ o.last + (Len(o.evs) - o.written) = 0
      BY <1>5, <1>7, <1>11, <2>2 DEF HoldsThat
    <3> HIDE DEF o
    <3>2. o.last = 0
      BY <1>8, <1>9, <3>1
    <3>3. Numbered(FramesOf(t), j, e, 1, 0)
      <4>1. Numbered(FramesOf(t), t.cur.job, t.cur.epoch, o.last + 1,
                     o.last + (Len(o.evs) - o.written))
        BY <1>7, <3>1
      <4> QED
        BY <3>1, <3>2, <4>1 DEF HoldsThat
    <3>4. Silent(FramesOf(t), j, e)
      BY <3>3 DEF Numbered, Silent
    <3> QED
      BY <1>10, <3>1, <3>2, <3>4 DEF o
  <2> QED
    BY <2>1, <2>2
<1>12. CASE c # NoConn /\ Assigns(down'[c], j, e)
  <2> DEFINE f == down'[c]
  <2>1. /\ d \in Seq(OrderRec) /\ (f = d \/ (d # <<>> /\ f = Tail(d)))
        /\ Assigns(f, j, e)
    BY <1>6, <1>12
  <2>2. Assigns(d, j, e)
    <3> HIDE DEF d, f
    <3> QED
      BY <2>1, AssignsOn
  <2>3. ~None(d, "assign") /\ AtMostOne(d, "assign") /\ ~Holds(s)
    <3> HIDE DEF d
    <3> QED
      BY <1>6, <1>12, <2>1, <2>2, AssignsOn DEF OneToken, d
  <2>4. CASE Continues(s, t)
    <3>1. ~Runs(t)
      BY <2>3, <2>4 DEF Continues, Runs
    <3> QED
      BY <1>7, <1>12, <2>2, <3>1 DEF Blank
  <2>5. CASE /\ d # <<>> /\ Head(d).type = "assign"
             /\ down' = [down EXCEPT ![c] = Tail(@)]
    <3>1. f = Tail(d)
      <4> HIDE DEF c
      <4> QED
        BY <1>1, <1>12, <2>5
    <3> HIDE DEF d, f
    <3>2. Tail(d) \in Seq(OrderRec) /\ None(Tail(d), "assign")
      BY <2>1, <2>3, <2>5, Tails
    <3> QED
      BY <2>1, <3>1, <3>2, AssignsOn
  <2> QED
    BY <1>3, <2>4, <2>5
<1>13. agent'[a].link = c
  BY <1>2, <1>5, <1>7
<1> QED
  BY <1>11, <1>12, <1>13 DEF Blank

\* The turns of an agent.
LEMMA TurnBlank ==
    ASSUME TypeOK, LinkInv, ChannelInv, LeanInv, BlankInv, NEW a \in Agent, AgentTurn(a)
    PROVE  BlankInv'
<1> DEFINE s == agent[a]
           c == s.link
           d == down[c]
<1>1. /\ Orderly(s) /\ Lean(s) /\ Begins(s) /\ LinkAt(a)
      /\ c \in Conn \cup {NoConn} /\ NoConn \notin Conn
      /\ agent \in [Agent -> AgentRec] /\ up \in [Conn -> Seq(FrameRec)]
      /\ down \in [Conn -> Seq(OrderRec)]
  BY DEF ChannelInv, LeanInv, LinkInv, TypeOK, AgentRec
<1>2. PICK t \in AgentRec : OwesTurn(a, t)
  BY <1>1, TurnsOwe
<1>3. /\ UNCHANGED <<lease, conn, settled>> /\ Turn(a, t) /\ t.link = c /\ Orderly(t)
      /\ UNCHANGED down \/ (/\ c # NoConn /\ d # <<>>
                            /\ down' = [down EXCEPT ![c] = Tail(@)])
  BY <1>2 DEF OwesTurn, GoesOnTo, hub
<1>4. /\ \A b \in Agent \ {a} : agent'[b] = agent[b]
      /\ \A k \in Conn : up'[k] = IF k = c /\ Open(c) THEN up[c] \o FramesOf(t)
                                  ELSE up[k]
  <2>1. CASE c = NoConn
    BY <1>1, <1>3, <2>1 DEF Turn
  <2>2. CASE c # NoConn
    <3> DEFINE u == AfterFlush(t)
               q == FramesOf(t)
    <3>1. agent' = [agent EXCEPT ![a] = u]
          /\ up' = IF Open(c) THEN [up EXCEPT ![c] = @ \o q] ELSE up
      BY <1>3, <2>2 DEF Turn
    <3> HIDE DEF u, q, c
    <3> QED
      BY <1>1, <2>2, <3>1 DEF u, q
  <2> QED
    BY <2>1, <2>2
<1>5. \A k \in Conn \ {c} : down'[k] = down[k]
  <2> HIDE DEF c
  <2> QED
    BY <1>1, <1>3
<1>6. FramesOf(t) \in Seq(FrameRec)
  BY FlushTyped
<1> SUFFICES ASSUME NEW b \in Agent, NEW j \in Job, NEW e \in Nat, Blank(b, j, e)'
             PROVE  Unsettled(b, j, e)' /\ Unheard(b, j, e)'
  BY DEF BlankInv
<1>7. Blank(b, j, e)
  <2>1. CASE b = a
    BY <1>2, <2>1, TurnMute
  <2>2. CASE b # a
    <3>1. agent[b].link # NoConn => agent[b].link \in Conn \ {c}
      BY <1>1, <2>2 DEF LinkInv, LinksDiffer, TypeOK, AgentRec
    <3> QED
      BY <1>4, <1>5, <2>2, <3>1 DEF Blank
  <2> QED
    BY <2>1, <2>2
<1>8. Unsettled(b, j, e) /\ Unheard(b, j, e)
  BY <1>7 DEF BlankInv
<1>9. ASSUME NEW k \in Conn, lease[j].conn = k, lease[j].agent = b, Silent(up[k], j, e)
      PROVE  Silent(up'[k], j, e)
  <2>1. Open(k) /\ conn[k].agent = b
    BY <1>1, <1>9 DEF ChannelInv, Attached
  <2>2. CASE k = c /\ Open(c)
    <3>1. b = a
      BY <1>1, <2>1, <2>2 DEF LinkAt
    <3>2. Silent(FramesOf(t), j, e)
      BY <1>1, <1>2, <2>2, <3>1, TurnMute
    <3> DEFINE q == up[k]
               r == FramesOf(t)
    <3>3. up'[k] = q \o r /\ q \in Seq(FrameRec) /\ Silent(q, j, e)
      BY <1>1, <1>4, <1>9, <2>2
    <3> HIDE DEF q, r
    <3>4. Silent(q \o r, j, e)
      BY <1>6, <3>2, <3>3, JoinsSilent DEF r
    <3> QED
      BY <3>3, <3>4
  <2>3. CASE ~(k = c /\ Open(c))
    BY <1>4, <1>9, <2>3
  <2> QED
    BY <2>2, <2>3
<1>10. Unheard(b, j, e)'
  <2>1. lease[j] \in LeaseRec /\ lease[j].conn \in Conn \cup {NoConn}
    BY DEF TypeOK, LeaseRec
  <2>2. Rests(lease[j], lease'[j])
    BY <1>3, <2>1, RestsForms
  <2> QED
    BY <1>8, <1>9, <2>1, <2>2, RestsUnheard
<1> QED
  BY <1>3, <1>8, <1>10 DEF Unsettled

-----------------------------------------------------------------------------
\* A runner claims a channel.

\* Nothing was written or settled of an attempt that is not yet given out.
LEMMA ClaimBlank ==
    ASSUME AttemptInv, ChannelInv, BlankInv, BookInv, NEW j \in Job, Claim(j)
    PROVE  BlankInv'
<1> DEFINE e == runner[j].epoch
           m == Order("assign", j, e, "none", 0)
<1>1. PICK c \in Conn :
        /\ Free(c, j) /\ runner[j].pc = "claiming"
        /\ lease' = [lease EXCEPT ![j] = NewLease(c, conn[c].agent, e)]
        /\ down' = Sent(c, m) /\ UNCHANGED <<agent, up, settled>>
  BY DEF Claim, At
<1>2. /\ TypeOK /\ e = row[j].epoch /\ e \in Nat /\ SpokenIn(Words)
  BY <1>1 DEF AttemptInv, ClaimBase, LifeInv, LinkInv, FenceInv, EpochsGiven,
     Attempted, TypeOK, Row, WordsInv
<1>3. m \in OrderRec /\ m.type = "assign" /\ m.job = j /\ m.epoch = e
  <2>1. m \in OrderRec
    BY <1>2, OrderTyped
  <2>2. m.type = "assign" /\ m.job = j /\ m.epoch = e
    BY DEF Order
  <2> QED
    BY <2>1, <2>2
<1>4. ~Issued(j, e)
  BY <1>1, <1>2 DEF Issued
<1>5. \A k \in Conn : Silent(up[k], j, e)
  BY <1>2, <1>4, UnissuedSilent
<1>6. lease'[j] = NewLease(c, conn[c].agent, e)
      /\ \A i \in Job \ {j} : lease'[i] = lease[i]
  BY <1>1, <1>2 DEF TypeOK
<1>7. /\ lease'[j].agent = conn[c].agent /\ lease'[j].epoch = e
      /\ lease'[j].next = 1 /\ lease'[j].conn = c
  BY <1>6 DEF NewLease
<1>8. \A a \in Agent : Unsettled(a, j, e)
  BY <1>4 DEF BookInv, SettledAt, Unsettled
<1> HIDE DEF m, e
<1>9. \A k \in Conn : down[k] \in Seq(OrderRec) /\ down'[k] \in {down[k], Append(down[k], m)}
  BY <1>1, <1>2 DEF Sent, TypeOK
<1>10. ASSUME NEW a \in Agent, NEW i \in Job, NEW d \in Nat, Blank(a, i, d)'
       PROVE  Unsettled(a, i, d)' /\ Unheard(a, i, d)'
  <2>1. CASE i = j /\ d = e
    <3>1. lease'[i].next = 1 /\ \A k \in Conn : Silent(up'[k], i, d)
      BY <1>1, <1>5, <1>7, <2>1
    <3>2. lease'[i].conn = c /\ c \in Conn
      BY <1>7, <2>1
    <3>3. Unheard(a, i, d)'
      BY <3>1, <3>2 DEF Unheard
    <3>4. Unsettled(a, i, d)
      BY <1>8, <2>1
    <3> QED
      BY <1>1, <3>3, <3>4 DEF Unsettled
  <2>2. CASE ~(i = j /\ d = e)
    <3> DEFINE k == agent[a].link
    <3>1. k # NoConn /\ Assigns(down'[k], i, d) => Assigns(down[k], i, d)
      <4> DEFINE f == down'[k]
                 g == down[k]
      <4> SUFFICES ASSUME k # NoConn, Assigns(f, i, d) PROVE Assigns(g, i, d)
        OBVIOUS
      <4>1. k \in Conn
        BY <1>2 DEF TypeOK, AgentRec
      <4>2. g \in Seq(OrderRec) /\ (f = g \/ f = Append(g, m)) /\ Assigns(f, i, d)
        BY <1>9, <4>1
      <4> HIDE DEF f, g, k
      <4>3. Assigns(Append(g, m), i, d)
            => Assigns(g, i, d) \/ (m.type = "assign" /\ m.job = i /\ m.epoch = d)
        BY <1>3, <4>2, AssignsOn
      <4> QED
        BY <1>3, <2>2, <4>2, <4>3
    <3>2. Blank(a, i, d)
      BY <1>1, <1>10, <3>1 DEF Blank
    <3>3. Unsettled(a, i, d) /\ Unheard(a, i, d)
      BY <3>2 DEF BlankInv
    <3>4. Unheard(a, i, d)'
      <4>1. CASE i = j
        BY <1>7, <2>2, <4>1 DEF Unheard
      <4>2. CASE i # j
        <5>1. lease'[i] = lease[i]
          BY <1>6, <4>2
        <5> QED
          BY <1>1, <3>3, <5>1 DEF Unheard
      <4> QED
        BY <4>1, <4>2
    <3> QED
      BY <1>1, <3>3, <3>4 DEF Unsettled
  <2> QED
    BY <2>1, <2>2
<1> QED
  BY <1>10 DEF BlankInv

-----------------------------------------------------------------------------
\* An agent dials.

\* What the hub acknowledges to the agent of a job that goes on.
LEMMA ConnectAcks ==
    ASSUME TypeOK, BlankInv, BookInv, \A k \in Job : Logged(lease[k]),
           NEW a \in Agent, NEW t \in AgentRec,
           NEW acked \in Int, NEW answer, NEW old, NEW told,
           Resumed(a, t, acked, answer, old, told),
           Runs(agent[a]), told = "continue"
    PROVE  LET j == agent[a].cur.job
               e == agent[a].cur.epoch
           IN  /\ acked >= 0
               /\ agent[a].cur.out.last = 0 => acked = 0
               /\ acked = 0 => /\ Unsettled(a, j, e) /\ answer = "moves"
                               /\ lease[j].next = 1
<1> DEFINE s == agent[a]
           j == s.cur.job
           e == s.cur.epoch
           lease1 == Detached(Evicted(a))
<1>1. j \in Job /\ e \in Nat /\ HoldsThat(s, j, e)
  BY DEF Resumed, HoldsThat
<1>2. /\ answer = ResumeAnswer(a, j, e, lease1[j]) /\ answer \in {"settled", "moves"}
      /\ answer = "moves" => acked = lease1[j].next - 1
      /\ answer = "settled" => acked = settled[j].last
  BY DEF Resumed
<1>3. /\ lease1[j].next = lease[j].next /\ lease1[j].agent = lease[j].agent
      /\ lease1[j].epoch = lease[j].epoch /\ lease[j].next \in Nat
  <2>1. lease[j] \in LeaseRec
    BY <1>1 DEF TypeOK
  <2>2. lease1[j] = IF lease[j].conn \in Evicted(a)
                    THEN [lease[j] EXCEPT !.conn = NoConn] ELSE lease[j]
    BY <1>1 DEF Detached
  <2> QED
    BY <2>1, <2>2 DEF LeaseRec
<1> HIDE DEF lease1
<1>4. /\ answer = "settled" => settled[j].epoch = e /\ settled[j].agent = a
      /\ answer = "moves" => /\ ~(settled[j].epoch = e /\ settled[j].agent = a)
                             /\ lease1[j].agent = a /\ lease1[j].epoch = e
  BY <1>2 DEF ResumeAnswer
<1>5. s.cur.out.last = 0 => Unsettled(a, j, e) /\ Unheard(a, j, e)
  BY <1>1 DEF Blank, BlankInv
<1> HIDE DEF s, j, e
<1>6. CASE answer = "settled"
  <2>1. settled[j].last >= 1 /\ settled[j].last \in Int
    BY <1>1, <1>4, <1>6 DEF BookInv, SettledAt, TypeOK, SettledRec
  <2>2. s.cur.out.last # 0
    BY <1>4, <1>5, <1>6 DEF Unsettled
  <2> QED
    BY <1>2, <1>6, <2>1, <2>2 DEF s, j, e
<1>7. CASE answer = "moves"
  <2>1. lease[j].next >= 1 /\ acked = lease[j].next - 1
    BY <1>1, <1>2, <1>3, <1>7 DEF Logged
  <2>2. s.cur.out.last = 0 => lease[j].next = 1
    BY <1>3, <1>4, <1>5, <1>7 DEF Unheard
  <2>3. Unsettled(a, j, e)
    BY <1>4, <1>7 DEF Unsettled
  <2> QED
    BY <1>3, <1>7, <2>1, <2>2, <2>3 DEF s, j, e
<1> QED
  BY <1>2, <1>6, <1>7

\* Its lease moves to the new channel, or what the hub heard of it stands.
LEMMA ConnectRests ==
    ASSUME TypeOK, NEW a \in Agent, NEW t \in AgentRec,
           NEW acked \in Int, NEW answer, NEW old, NEW told,
           Resumed(a, t, acked, answer, old, told), NEW k \in Job
    PROVE  \/ Rests(lease[k], lease'[k])
           \/ /\ answer = "moves" /\ k = agent[a].cur.job /\ Runs(agent[a])
              /\ lease[k].agent = a /\ lease'[k].agent = a
              /\ lease[k].epoch = lease'[k].epoch
              /\ lease'[k].epoch = agent[a].cur.epoch
              /\ lease'[k].next = lease[k].next /\ lease'[k].conn = nextConn
<1> DEFINE s == agent[a]
           c == nextConn
           j == s.cur.job
           lease1 == Detached(Evicted(a))
           l == lease[k]
           m == [l EXCEPT !.conn = NoConn]
<1>1. /\ lease' = IF answer = "none" THEN lease1
                  ELSE [lease1 EXCEPT ![j] = AfterResume(@, answer, c)]
      /\ answer # "none" => j \in Job
      /\ c \in Conn
      /\ answer = "moves" => Runs(s)
  BY DEF Resumed
<1>2. lease1 \in [Job -> LeaseRec]
  BY DetachedTyped
<1>3. l \in LeaseRec /\ m \in LeaseRec /\ (lease1[k] = l \/ lease1[k] = m)
  <2>1. l \in LeaseRec
    BY DEF TypeOK
  <2> QED
    BY <2>1 DEF Detached, LeaseRec
<1>4. Rests(l, l) /\ Rests(l, m) /\ Rests(l, [l EXCEPT !.time = "lost"])
  BY <1>3, RestsForms
<1>5. Rests(l, [m EXCEPT !.time = "lost"])
  BY <1>3 DEF Rests, LeaseRec
<1>6. CASE ~(answer = "moves" /\ k = j)
  <2>1. \/ lease'[k] = lease1[k]
        \/ lease'[k] = [lease1[k] EXCEPT !.time = "lost"]
    <3> HIDE DEF lease1, j, c
    <3> QED
      BY <1>1, <1>2, <1>6 DEF AfterResume
  <2> HIDE DEF lease1, l, m
  <2> QED
    BY <1>3, <1>4, <1>5, <2>1 DEF l
<1>7. CASE answer = "moves" /\ k = j
  <2> DEFINE n == [lease1[k] EXCEPT !.conn = c]
  <2>1. lease'[k] = n
    <3> HIDE DEF lease1, j, c
    <3> QED
      BY <1>1, <1>2, <1>7 DEF AfterResume
  <2>2. /\ n.conn = c /\ n.agent = lease1[k].agent /\ n.epoch = lease1[k].epoch
        /\ n.next = lease1[k].next
    BY <1>2 DEF LeaseRec
  <2>3. /\ lease1[k].agent = l.agent /\ lease1[k].epoch = l.epoch
        /\ lease1[k].next = l.next
    <3> HIDE DEF lease1
    <3> QED
      BY <1>3 DEF LeaseRec
  <2>4. lease1[k].agent = a /\ lease1[k].epoch = s.cur.epoch
    BY <1>7 DEF Resumed, ResumeAnswer
  <2> HIDE DEF n, lease1
  <2> QED
    BY <1>1, <1>7, <2>1, <2>2, <2>3, <2>4
<1> QED
  BY <1>6, <1>7

\* What the dialling agent has begun, the hub has not heard of.
LEMMA ConnectMute ==
    ASSUME TypeOK, LinkInv, ChannelInv, LeanInv, BlankInv, BookInv,
           \A k \in Job : Logged(lease[k]),
           NEW a \in Agent, NEW t \in AgentRec,
           NEW acked \in Int, NEW answer, NEW old, NEW told,
           Resumed(a, t, acked, answer, old, told),
           NEW j \in Job, NEW e \in Nat, Runs(AfterFlush(t)),
           HoldsThat(AfterFlush(t), j, e), AfterFlush(t).cur.out.last = 0
    PROVE  /\ Unsettled(a, j, e) /\ answer = "moves"
           /\ Runs(agent[a]) /\ HoldsThat(agent[a], j, e)
           /\ lease[j].next = 1 /\ Silent(FramesOf(t), j, e)
<1> DEFINE s == agent[a]
           c == nextConn
           u == AfterFlush(t)
           o == t.cur.out
           hi == o.last + (Len(o.evs) - o.written)
<1>1. /\ t = Welcomed(s, c, told, acked) /\ c \in Conn /\ s \in AgentRec
      /\ told \in {"none", "continue", "lease_lost", "cancelled", "reroute"}
      /\ told = "none" => ~Runs(s)
      /\ Orderly(s)
  BY DEF Resumed, ChannelInv
<1>2. /\ Orderly(t)
      /\ Runs(t) => /\ Runs(s) /\ o.last = acked
                    /\ t.cur.job = s.cur.job /\ t.cur.epoch = s.cur.epoch
  <2> HIDE DEF s, c
  <2> QED
    BY <1>1, WelcomedNumbers
<1>3. /\ Runs(t) /\ hi = 0 /\ t.cur.job = j /\ t.cur.epoch = e
      /\ Numbered(FramesOf(t), j, e, o.last + 1, hi)
  BY <1>2, FlushNumbers DEF HoldsThat
<1>4. Runs(s) /\ o.last = acked /\ HoldsThat(s, j, e)
  BY <1>2, <1>3 DEF HoldsThat
<1>5. told = "continue"
  <2>1. Lean(s) /\ Begins(s) /\ s.link = NoConn
    BY DEF LeanInv, Resumed
  <2>2. told = "continue" => acked >= 0 /\ (s.cur.out.last = 0 => acked = 0)
    BY <1>4, ConnectAcks
  <2> HIDE DEF s, c
  <2> QED
    BY <1>1, <1>3, <2>1, <2>2, WelcomedOwes
<1>6. o.written \in Nat /\ Len(o.evs) \in Nat /\ o.written <= Len(o.evs)
  BY <1>2 DEF AgentRec, CurrentRec, OutboxRec, Orderly
<1>7. /\ acked >= 0
      /\ acked = 0 => /\ Unsettled(a, j, e) /\ answer = "moves"
                      /\ lease[j].next = 1
  <2>1. s.cur.job = j /\ s.cur.epoch = e
    BY <1>4 DEF HoldsThat
  <2> QED
    BY <1>4, <1>5, <2>1, ConnectAcks
<1> HIDE DEF o
<1>8. acked = 0
  BY <1>3, <1>4, <1>6, <1>7
<1>9. Silent(FramesOf(t), j, e)
  <2>1. Numbered(FramesOf(t), j, e, 1, 0)
    BY <1>3, <1>4, <1>8
  <2> QED
    BY <2>1 DEF Numbered, Silent
<1> QED
  BY <1>4, <1>7, <1>8, <1>9

\* A resume renumbers from what the hub counted, which is nothing for a blank one.
LEMMA ConnectBlank ==
    ASSUME TypeOK, LinkInv, ChannelInv, CancelInv, OnceInv, LeanInv, FirstInv,
           BlankInv, BookInv, \A k \in Job : Logged(lease[k]),
           NEW a \in Agent, NEW t \in AgentRec,
           NEW acked \in Int, NEW answer, NEW old, NEW told,
           Resumed(a, t, acked, answer, old, told)
    PROVE  BlankInv'
<1> DEFINE s == agent[a]
           c == nextConn
           u == AfterFlush(t)
           q == FramesOf(t)
<1>1. /\ \A k \in Conn \ {c} : down'[k] = down[k]
      /\ c \in Conn /\ up[c] = <<>> /\ down[c] = <<>> /\ conn[c] = NoChannel
      /\ \A b \in Agent \ {a} : agent'[b] = agent[b]
  BY ConnectOutside
<1>2. /\ s.link = NoConn /\ UNCHANGED settled
      /\ \A k \in Conn \ {c} : up'[k] \in {up[k], <<>>}
  BY DEF Resumed
<1>3. c \notin Evicted(a)
  BY <1>1, StoreAssumption DEF Evicted, NoChannel
<1>4. \/ agent'[a] = u /\ up'[c] = q
      \/ agent'[a] = s /\ up'[c] = <<>>
  <2> HIDE DEF u, q
  <2>2. CASE /\ agent' = [agent EXCEPT ![a] = u]
             /\ up' = [k \in Conn |-> IF k \in Evicted(a) THEN <<>>
                                      ELSE IF k = c THEN q ELSE up[k]]
    BY <1>1, <1>3, <2>2 DEF TypeOK
  <2>3. CASE /\ UNCHANGED agent
             /\ up' = [k \in Conn |-> IF k \in Evicted(a) THEN <<>> ELSE up[k]]
    BY <1>1, <1>3, <2>3
  <2> QED
    BY <2>2, <2>3 DEF Resumed, u, q
<1>5. \A i, d : ~Assigns(down'[c], i, d)
  <2> DEFINE m == VerdictOrder(s.cur.job, s.cur.epoch, settled[s.cur.job].accepted)
  <2>1. m.type = "verdict"
    BY DEF VerdictOrder, Order
  <2>2. down' = [down EXCEPT ![c] = <<m>>] \/ UNCHANGED down
    BY DEF Resumed
  <2> HIDE DEF m
  <2>3. down'[c] = <<m>> \/ down'[c] = <<>>
    BY <1>1, <2>2 DEF TypeOK
  <2>4. \A k \in DOMAIN down'[c] : down'[c][k].type = "verdict"
    BY <2>1, <2>3
  <2> QED
    BY <2>4 DEF Assigns
<1>6. agent'[a].link \in {c, NoConn}
  <2>1. Orderly(t) /\ t.link = c
    <3>1. /\ t = Welcomed(s, c, told, acked) /\ s \in AgentRec /\ Orderly(s) /\ Sound(s)
          /\ told \in {"none", "continue", "lease_lost", "cancelled", "reroute"}
          /\ told = "none" => ~Runs(s)
      BY DEF Resumed, ChannelInv, LinkInv, LinkAt
    <3>2. c # NoConn
      BY <1>1, LeaseAssumption
    <3> HIDE DEF s, c
    <3>3. t.link = c
      BY <1>1, <3>1, <3>2, WelcomedTurns, ZenonT(30)
    <3>4. Orderly(t)
      BY <1>1, <3>1, WelcomedNumbers
    <3> QED
      BY <3>3, <3>4
  <2>2. u.link = t.link
    BY <2>1, FlushNumbers
  <2> QED
    BY <1>2, <1>4, <2>1, <2>2
<1> HIDE DEF c, u, q
<1>7. ASSUME NEW b \in Agent, NEW j \in Job, NEW e \in Nat, Blank(b, j, e)
      PROVE  Unsettled(b, j, e)' /\ (Rests(lease[j], lease'[j]) => Unheard(b, j, e)')
  <2>1. Unsettled(b, j, e) /\ Unheard(b, j, e)
    BY <1>7 DEF BlankInv
  <2>2. Unsettled(b, j, e)'
    BY <1>2, <2>1 DEF Unsettled
  <2>3. ASSUME Rests(lease[j], lease'[j])
        PROVE  Unheard(b, j, e)'
    <3> DEFINE k == lease[j].conn
    <3>1. ASSUME k # NoConn, Silent(up[k], j, e)
          PROVE  Silent(up'[k], j, e)
      <4>1. k \in Conn /\ conn[k] # NoChannel
        BY <3>1 DEF ChannelInv, Attached, Open, TypeOK, LeaseRec
      <4>2. up'[k] = up[k] \/ up'[k] = <<>>
        BY <1>1, <1>2, <4>1
      <4>3. Silent(<<>>, j, e)
        BY DEF Silent
      <4> QED
        BY <3>1, <4>2, <4>3
    <3> QED
      BY <2>1, <2>3, <3>1, RestsUnheard
  <2> QED
    BY <2>2, <2>3
<1>8. ASSUME NEW b \in Agent \ {a}, NEW j \in Job, NEW e \in Nat, Blank(b, j, e)'
      PROVE  Unsettled(b, j, e)' /\ Unheard(b, j, e)'
  <2>1. Blank(b, j, e)
    <3>1. agent[b].link # NoConn => agent[b].link \in Conn \ {c}
      <4>1. LinkAt(b) /\ agent[b].link \in Conn \cup {NoConn} /\ nextConn \in Nat
        BY DEF LinkInv, TypeOK, AgentRec
      <4> QED
        BY <4>1 DEF LinkAt, c
    <3> QED
      BY <1>1, <1>8, <3>1 DEF Blank
  <2>2. CASE Rests(lease[j], lease'[j])
    BY <1>7, <2>1, <2>2
  <2>3. CASE lease'[j].agent = a
    <3>1. Unheard(b, j, e)'
      BY <2>3 DEF Unheard
    <3> QED
      BY <1>7, <2>1, <3>1
  <2> QED
    BY <2>2, <2>3, ConnectRests
<1>9. ASSUME NEW j \in Job, NEW e \in Nat, Blank(a, j, e)'
      PROVE  Unsettled(a, j, e)' /\ Unheard(a, j, e)'
  <2>1. Runs(agent'[a]) /\ HoldsThat(agent'[a], j, e) /\ agent'[a].cur.out.last = 0
    BY <1>5, <1>6, <1>9 DEF Blank
  <2>2. CASE agent'[a] = s /\ up'[c] = <<>>
    <3>1. Blank(a, j, e)
      BY <2>1, <2>2 DEF Blank
    <3>2. CASE Rests(lease[j], lease'[j])
      BY <1>7, <3>1, <3>2
    <3>3. CASE /\ lease[j].agent = a /\ lease[j].epoch = lease'[j].epoch
               /\ lease'[j].next = lease[j].next /\ lease'[j].conn = nextConn
      <4>1. Unheard(a, j, e)
        BY <3>1 DEF BlankInv
      <4>2. Silent(<<>>, j, e)
        BY DEF Silent
      <4>3. Unheard(a, j, e)'
        BY <2>2, <3>3, <4>1, <4>2 DEF Unheard, c
      <4> QED
        BY <1>7, <3>1, <4>3
    <3> QED
      BY <3>2, <3>3, ConnectRests
  <2>3. CASE agent'[a] = u /\ up'[c] = q
    <3>1. /\ Unsettled(a, j, e) /\ answer = "moves"
          /\ Runs(s) /\ HoldsThat(s, j, e)
          /\ lease[j].next = 1 /\ Silent(q, j, e)
      BY <2>1, <2>3, ConnectMute DEF u, q
    <3>2. Unsettled(a, j, e)'
      BY <1>2, <3>1 DEF Unsettled
    <3>3. /\ lease'[j].next = 1
          /\ lease'[j].conn = c
      <4>1. /\ lease' = [Detached(Evicted(a)) EXCEPT ![s.cur.job] = AfterResume(@, answer, c)]
            /\ s.cur.job = j
        BY <3>1 DEF Resumed, HoldsThat, c
      <4>2. Detached(Evicted(a)) \in [Job -> LeaseRec]
        BY DetachedTyped
      <4> DEFINE l == Detached(Evicted(a))[j]
                 m == [l EXCEPT !.conn = c]
      <4>3. lease'[j] = m
        BY <3>1, <4>1, <4>2 DEF AfterResume
      <4>4. l \in LeaseRec /\ l.next = lease[j].next
        <5>1. lease[j] \in LeaseRec
          BY DEF TypeOK
        <5> QED
          BY <4>2, <5>1 DEF Detached, LeaseRec
      <4> HIDE DEF l
      <4>5. m.next = l.next /\ m.conn = c
        BY <4>4 DEF LeaseRec
      <4> QED
        BY <3>1, <4>3, <4>4, <4>5
    <3>4. Unheard(a, j, e)'
      BY <2>3, <3>1, <3>3 DEF Unheard
    <3> QED
      BY <3>2, <3>4
  <2> QED
    BY <1>4, <2>2, <2>3
<1> QED
  BY <1>8, <1>9 DEF BlankInv

-----------------------------------------------------------------------------
\* What is settled, and what a runner registers.

\* A verdict is on an attempt that was issued and heard of; it stays so.
LEMMA NextSettled ==
    ASSUME AttemptInv, AttemptInv', BookInv, \A j \in Job : Logged(lease[j]),
           [Next]_vars, NEW k \in Job
    PROVE  SettledAt(k)'
<1>1. /\ TypeOK /\ ClaimBase /\ ClaimBase' /\ ClaimsInv
      /\ settled \in [Job -> SettledRec] /\ lease \in [Job -> LeaseRec]
  BY DEF AttemptInv, ClaimBase, LifeInv, FenceInv, TypeOK
<1>2. ASSUME settled'[k] = settled[k]
      PROVE  SettledAt(k)'
  <2> SUFFICES ASSUME settled[k].agent \in Agent
               PROVE  SettledAt(k)'
    BY <1>2 DEF SettledAt
  <2>1. PICK e \in Nat : e = settled[k].epoch
    BY <1>1 DEF SettledRec
  <2>2. settled[k].last >= 1 /\ Issued(k, e)
    BY <2>1 DEF BookInv, SettledAt
  <2>3. Issued(k, e)'
    BY <1>1, <2>2, IssuedOn
  <2>4. settled'[k].epoch = e
    BY <1>2, <2>1
  <2> QED
    BY <1>2, <2>2, <2>3, <2>4 DEF SettledAt, Issued
<1>3. ASSUME NEW j \in Job, lease[j].next >= 2, NEW accepted, Verdict(j, accepted)
      PROVE  SettledAt(k)'
  <2>1. CASE k # j
    <3>1. settled'[k] = settled[k]
      BY <1>1, <1>3, <2>1 DEF Verdict
    <3> QED
      BY <1>2, <3>1
  <2>2. CASE k = j
    <3>1. settled'[k] = [epoch |-> lease[k].epoch, agent |-> lease[k].agent,
                         accepted |-> accepted, last |-> lease[k].next - 1]
      BY <1>1, <1>3, <2>2 DEF Verdict
    <3>2. /\ settled'[k].agent = lease[k].agent /\ settled'[k].epoch = lease[k].epoch
          /\ settled'[k].last = lease[k].next - 1 /\ lease[k].next \in Nat
      BY <1>1, <3>1 DEF LeaseRec
    <3>3. settled'[k].last >= 1
      BY <1>3, <2>2, <3>2
    <3> SUFFICES ASSUME lease[k].agent \in Agent
                 PROVE  SettledAt(k)'
      BY <3>2 DEF SettledAt
    <3>4. PICK e \in Nat : e = lease[k].epoch
      BY <1>1 DEF LeaseRec
    <3>5. Issued(k, e)
      BY <1>1, <3>4 DEF ClaimsInv, Claims, Names
    <3>6. Issued(k, e)'
      BY <1>1, <3>5, IssuedOn
    <3>7. settled'[k].epoch = e
      BY <3>2, <3>4
    <3> QED
      BY <3>3, <3>6, <3>7 DEF SettledAt, Issued
  <2> QED
    BY <2>1, <2>2
<1>4. CASE UNCHANGED settled
  BY <1>2, <1>4
<1>5. ASSUME NEW j \in Job, RunnerStep(j)
      PROVE  SettledAt(k)'
  <2>1. Logged(lease[j]) /\ RegAt(j)
    BY DEF BookInv
  <2> QED
    BY <1>1, <1>3, <1>4, <1>5, <2>1, RunnersSettle
<1>6. CASE Restart
  <2>1. settled'[k] = NoSettled
    BY <1>6 DEF Restart
  <2> QED
    BY <2>1, StoreAssumption DEF SettledAt, NoSettled
<1>7. CASE UNCHANGED vars \/ \E j \in Job : UserCancel(j)
  BY <1>4, <1>7 DEF vars, hub, UserCancel
<1>8. CASE \/ \E a \in Agent : AgentStep(a)
           \/ \E c \in Conn : ChannelStep(c)
           \/ \E j \in Job : Expire(j)
           \/ Stop
  BY <1>4, <1>8, SettledStays
<1> QED
  BY <1>5, <1>6, <1>7, <1>8 DEF Next

\* A runner that registers holds a lease that counted an event,
LEMMA RunnersRegister ==
    ASSUME ClaimBase, ClaimBase', BookInv, \A i \in Job : Logged(lease[i]),
           NEW j \in Job, RunnerStep(j)
    PROVE  RegAt(j)'
<1> DEFINE l == lease[j]
           R == {"registering", "registered"}
<1> SUFFICES ASSUME runner'[j].pc \in R PROVE lease'[j].next >= 2
  BY DEF RegAt
<1>1. /\ TypeOK /\ lease \in [Job -> LeaseRec] /\ l \in LeaseRec
      /\ runner \in [Job -> RunnerRec]
  BY DEF ClaimBase, LifeInv, FenceInv, TypeOK
<1>2. CASE OnResult(j)
  <2>1. Received(j) /\ Event(j) = "result" /\ UNCHANGED lease
    BY <1>2 DEF OnResult
  <2>2. l.next >= 2
    BY <1>1, <2>1, ResultCounted
  <2> QED
    BY <2>1, <2>2
<1>3. CASE ~OnResult(j)
  <2>1. runner[j].pc \in R
    BY <1>1, <1>3, RunnerRegisters
  <2>2. l.next >= 2
    BY <2>1 DEF BookInv, RegAt
  <2>3. ~Claim(j)
    BY <2>1 DEF Claim, At
  <2>4. lease'[j] # NoLease
    BY DEF ClaimBase, LifeInv, FenceInv, Fence, Held, Owning
  <2>5. \/ UNCHANGED lease
        \/ \E m \in {NoLease, [l EXCEPT !.cancelled = TRUE],
                     [l EXCEPT !.rerouting = TRUE], [l EXCEPT !.time = "lost"]} :
             lease' = [lease EXCEPT ![j] = m]
    BY <2>3, RunnersLeave DEF RunnerLeaves
  <2>6. CASE UNCHANGED lease
    BY <2>2, <2>6
  <2>7. CASE \E m \in {NoLease, [l EXCEPT !.cancelled = TRUE],
                       [l EXCEPT !.rerouting = TRUE], [l EXCEPT !.time = "lost"]} :
               lease' = [lease EXCEPT ![j] = m]
    <3>1. PICK m \in {NoLease, [l EXCEPT !.cancelled = TRUE],
                      [l EXCEPT !.rerouting = TRUE], [l EXCEPT !.time = "lost"]} :
               lease' = [lease EXCEPT ![j] = m]
      BY <2>7
    <3>2. lease'[j] = m
      BY <1>1, <3>1
    <3>3. m = NoLease \/ m.next = l.next
      BY <1>1 DEF LeaseRec
    <3> HIDE DEF l
    <3> QED
      BY <2>2, <2>4, <3>2, <3>3
  <2> QED
    BY <2>5, <2>6, <2>7
<1> QED
  BY <1>2, <1>3

\* and keeps it.
LEMMA NextRegisters ==
    ASSUME ClaimBase, ClaimBase', BookInv, \A j \in Job : Logged(lease[j]),
           [Next]_vars, NEW k \in Job
    PROVE  RegAt(k)'
<1>1. /\ TypeOK /\ LifeInv /\ HolderInv /\ lease[k] \in LeaseRec /\ RegAt(k)
      /\ runner \in [Job -> RunnerRec]
  BY DEF ClaimBase, LifeInv, FenceInv, TypeOK, BookInv
<1>2. ASSUME runner'[k] = runner[k], lease'[k].next \in {lease[k].next, lease[k].next + 1}
      PROVE  RegAt(k)'
  BY <1>1, <1>2 DEF RegAt, LeaseRec
<1>3. ASSUME NEW a \in Agent, AgentStep(a)
      PROVE  RegAt(k)'
  <2>1. UNCHANGED runner
    BY <1>3, JobsStay DEF jobs
  <2>2. SameLog(lease[k], lease'[k])
    BY <1>1, <1>3, AgentLogs
  <2> QED
    BY <1>2, <2>1, <2>2 DEF SameLog
<1>4. ASSUME NEW c \in Conn, ChannelStep(c)
      PROVE  RegAt(k)'
  <2>1. UNCHANGED runner
    BY <1>4, JobsStay DEF jobs
  <2>2. Rests(lease[k], lease'[k]) \/ Hears(c, k)
    BY <1>1, <1>4, ChannelHears
  <2> QED
    BY <1>2, <2>1, <2>2 DEF Rests, Hears
<1>5. ASSUME NEW j \in Job, RunnerStep(j)
      PROVE  RegAt(k)'
  <2>1. CASE k = j
    BY <1>5, <2>1, RunnersRegister
  <2>2. CASE k # j
    <3>1. lease'[k] = lease[k] /\ runner'[k] = runner[k]
      BY <1>1, <1>5, <2>2, StepOn DEF Elsewhere
    <3> QED
      BY <1>2, <3>1
  <2> QED
    BY <2>1, <2>2
<1>6. ASSUME NEW j \in Job, Expire(j)
      PROVE  RegAt(k)'
  <2>1. UNCHANGED runner
    BY <1>6, JobsStay DEF jobs
  <2>2. lease' = [lease EXCEPT ![j].time = "due"] /\ lease \in [Job -> LeaseRec]
    BY <1>1, <1>6 DEF Expire, TypeOK
  <2>3. lease'[k].next = lease[k].next
    BY <2>2 DEF LeaseRec
  <2> QED
    BY <1>2, <2>1, <2>3
<1>7. ASSUME NEW j \in Job, UserCancel(j)
      PROVE  RegAt(k)'
  <2>1. UNCHANGED lease
    BY <1>7 DEF UserCancel, hub
  <2>2. runner'[k] = runner[k] \/ runner'[k].pc = "gone"
    BY <1>1, <1>7 DEF UserCancel, RunnerRec
  <2> QED
    BY <1>2, <2>1, <2>2 DEF RegAt
<1>8. CASE Stop \/ UNCHANGED vars
  <2>1. UNCHANGED <<lease, runner>>
    BY <1>8 DEF Stop, vars, jobs, hub
  <2> QED
    BY <1>2, <2>1
<1>9. CASE Restart
  <2>1. runner'[k].pc \in {"orphan", "queued", "gone"}
    BY <1>9 DEF Restart, Fresh
  <2> QED
    BY <2>1 DEF RegAt
<1> QED
  BY <1>3, <1>4, <1>5, <1>6, <1>7, <1>8, <1>9 DEF Next

-----------------------------------------------------------------------------
\* The theorems.

\* All that keeps the events of a lease in order.
EventInv ==
    /\ \A j \in Job : Logged(lease[j])
    /\ FirstInv /\ LeanInv /\ OnceInv /\ CancelInv /\ KnowsInv
    /\ BlankInv /\ BookInv

\* Quiet channels keep features first.
LEMMA FirstQuiet ==
    ASSUME TypeOK, FirstInv, \A c \in Conn : UpQuiet(c)
    PROVE  FirstInv'
<1> SUFFICES ASSUME NEW c \in Conn PROVE FirstIn(up'[c])
  BY DEF FirstInv
<1> DEFINE q == up[c]
           r == up'[c]
<1>1. q \in Seq(FrameRec) /\ FirstIn(q) /\ (r \in {q, <<>>} \/ (q # <<>> /\ r = Tail(q)))
  BY DEF TypeOK, FirstInv, UpQuiet
<1> HIDE DEF q, r
<1>2. FirstIn(<<>>)
  BY DEF FirstIn
<1>3. q # <<>> => FirstIn(Tail(q))
  BY <1>1, FirstTails
<1>4. FirstIn(r)
  BY <1>1, <1>2, <1>3
<1> QED
  BY <1>4 DEF r

\* Where the agents do nothing.
LEMMA StillEvents ==
    ASSUME TypeOK, FirstInv, LeanInv, UNCHANGED agent, \A c \in Conn : UpQuiet(c)
    PROVE  FirstInv' /\ LeanInv'
<1>1. FirstInv'
  BY FirstQuiet
<1>2. LeanInv'
  BY DEF LeanInv
<1> QED
  BY <1>1, <1>2

\* No step.
LEMMA StutterEvents ==
    ASSUME TypeOK, EventInv, UNCHANGED vars
    PROVE  FirstInv' /\ LeanInv' /\ OnceInv' /\ CancelInv' /\ BlankInv'
<1>1. UNCHANGED <<agent, lease, settled, conn, up, down>>
  BY DEF vars, hub
<1>2. \A c \in Conn : UpQuiet(c) /\ DownQuiet(c) /\ UpCalm(c) /\ Calm(down[c], down'[c])
  BY <1>1 DEF UpQuiet, DownQuiet, UpCalm, Calm
<1>3. \A k \in Job : Fades(lease[k], lease'[k]) /\ Rests(lease[k], lease'[k])
  <2>1. \A k \in Job : lease[k] \in LeaseRec
    BY DEF TypeOK
  <2> QED
    BY <1>1, <2>1, FadesForms, RestsForms
<1>4. OnceInv' /\ CancelInv'
  BY <1>1, <1>2, <1>3, CalmAll DEF EventInv
<1>5. BlankInv'
  BY <1>1, <1>2, <1>3, QuietBlanks DEF EventInv
<1> QED
  BY <1>1, <1>2, <1>4, <1>5, StillEvents DEF EventInv

\* The steps of the agents.
LEMMA AgentEvents ==
    ASSUME TypeOK, LinkInv, ChannelInv, EventInv, NEW a \in Agent, AgentStep(a)
    PROVE  FirstInv' /\ LeanInv' /\ OnceInv' /\ CancelInv' /\ BlankInv'
<1>1. /\ FirstInv /\ LeanInv /\ OnceInv /\ CancelInv /\ BlankInv /\ BookInv
      /\ \A j \in Job : Logged(lease[j])
  BY DEF EventInv
<1>2. CASE AgentTurn(a)
  BY <1>1, <1>2, TurnOnce, TurnBlank
<1>3. CASE Upload(a)
  BY <1>1, <1>3, UploadOnce, UploadBlank
<1>4. CASE Heartbeat(a)
  BY <1>1, <1>4, HeartbeatOnce, HeartbeatBlank
<1>5. CASE Disconnect(a) \/ AgentCrash(a)
  BY <1>1, <1>5, DisconnectOnce, DisconnectBlank
<1>6. CASE Connect(a)
  <2>1. PICK t \in AgentRec, acked \in Int : \E answer, old, told :
          Resumed(a, t, acked, answer, old, told)
    BY <1>6, ConnectParts
  <2>2. PICK answer, old, told : Resumed(a, t, acked, answer, old, told)
    BY <2>1
  <2>3. Runs(agent[a]) /\ told = "continue"
        => acked >= 0 /\ (agent[a].cur.out.last = 0 => acked = 0)
    BY <1>1, <2>2, ConnectAcks
  <2>4. OnceInv' /\ CancelInv' /\ LeanInv' /\ FirstInv'
    BY <1>1, <2>2, <2>3, ConnectOnce
  <2>5. BlankInv'
    BY <1>1, <2>2, ConnectBlank
  <2> QED
    BY <2>4, <2>5
<1> QED
  BY <1>2, <1>3, <1>4, <1>5, <1>6 DEF AgentStep, AgentTurn

\* The steps of the hub, the runners and what is around them.
LEMMA MasterEvents ==
    ASSUME AttemptInv, ChannelInv, EventInv,
           \/ \E c \in Conn : ChannelStep(c)
           \/ \E j \in Job : RunnerStep(j) \/ Expire(j) \/ UserCancel(j)
           \/ Stop
           \/ Restart
    PROVE  FirstInv' /\ LeanInv' /\ OnceInv' /\ CancelInv' /\ BlankInv'
<1>1. /\ FirstInv /\ LeanInv /\ OnceInv /\ CancelInv /\ BlankInv /\ BookInv
      /\ KnowsInv /\ \A j \in Job : Logged(lease[j]) /\ RegAt(j) /\ KnowsAt(j)
      /\ TypeOK /\ LinkInv
  BY DEF EventInv, BookInv, KnowsInv, AttemptInv, ClaimBase, LifeInv, FenceInv
<1>2. ASSUME NEW c \in Conn, ChannelStep(c)
      PROVE  FirstInv' /\ LeanInv' /\ OnceInv' /\ CancelInv' /\ BlankInv'
  BY <1>1, <1>2, ChannelSilent, StillEvents, ChannelOnce, ChannelBlank
<1>3. ASSUME UNCHANGED agent, \A c \in Conn : up'[c] \in {up[c], <<>>}
      PROVE  FirstInv' /\ LeanInv'
  BY <1>1, <1>3, StillEvents DEF UpQuiet
<1>4. ASSUME NEW j \in Job, RunnerStep(j), ~Claim(j)
      PROVE  FirstInv' /\ LeanInv' /\ OnceInv' /\ CancelInv' /\ BlankInv'
  <2>1. UNCHANGED <<agent, up>>
    BY <1>4, RunnersLeave DEF RunnerLeaves
  <2> QED
    BY <1>1, <1>3, <1>4, <2>1, RunnerOnce, RunnerBlank
<1>5. ASSUME NEW j \in Job, Claim(j)
      PROVE  FirstInv' /\ LeanInv' /\ OnceInv' /\ CancelInv' /\ BlankInv'
  <2>1. UNCHANGED <<agent, up>>
    BY <1>5 DEF Claim
  <2> QED
    BY <1>1, <1>3, <1>5, <2>1, ClaimOnce, ClaimBlank
<1>6. ASSUME (\E j \in Job : Expire(j) \/ UserCancel(j)) \/ Stop \/ Restart
      PROVE  FirstInv' /\ LeanInv' /\ OnceInv' /\ CancelInv' /\ BlankInv'
  <2>1. UNCHANGED agent /\ \A c \in Conn : up'[c] \in {up[c], <<>>}
    BY <1>6 DEF Expire, UserCancel, Stop, Restart
  <2> QED
    BY <1>1, <1>3, <1>6, <2>1, SurroundingsOnce, SurroundingsBlank
<1> QED
  BY <1>2, <1>4, <1>5, <1>6

\* The invariant of the events is inductive.
LEMMA NextEvents ==
    ASSUME AttemptInv, AttemptInv', ChannelInv, EventInv, [Next]_vars
    PROVE  EventInv'
<1>1. /\ TypeOK /\ TypeOK' /\ LinkInv /\ ClaimBase /\ ClaimBase' /\ WordsInv
      /\ FirstInv /\ BookInv /\ KnowsInv /\ \A j \in Job : Logged(lease[j])
  BY DEF EventInv, AttemptInv, ClaimBase, LifeInv, FenceInv
<1>2. ASSUME NEW j \in Job PROVE Logged(lease'[j])
  <2>1. lease[j] \in LeaseRec /\ lease'[j] \in LeaseRec
    BY <1>1 DEF TypeOK
  <2>2. Logged(lease[j]) /\ LogGoes(lease[j], lease'[j])
    BY <1>1, NextLogs
  <2> QED
    BY <2>1, <2>2, LogStays
<1>3. KnowsInv'
  BY <1>1, NextKnows
<1>4. BookInv'
  BY <1>1, NextSettled, NextRegisters DEF BookInv
<1>5. FirstInv' /\ LeanInv' /\ OnceInv' /\ CancelInv' /\ BlankInv'
  BY <1>1, StutterEvents, AgentEvents, MasterEvents DEF Next
<1> QED
  BY <1>2, <1>3, <1>4, <1>5 DEF EventInv

\* It holds at the start.
LEMMA InitEvents ==
    ASSUME Init
    PROVE  EventInv
<1>1. /\ \A j \in Job : /\ lease[j] = NoLease /\ settled[j] = NoSettled
                        /\ runner[j].pc = "queued"
      /\ \A a \in Agent : agent[a] = NewAgent
      /\ \A c \in Conn : up[c] = <<>> /\ down[c] = <<>>
  BY DEF Init, Fresh
<1>2. /\ NoLease.next = 1 /\ NoLease.events = <<>> /\ NoLease.conn = NoConn
      /\ NoLease.agent = NoAgent
      /\ NewAgent.link = NoConn /\ NewAgent.pending = <<>>
      /\ NewAgent.cur.job = NoJob /\ NoSettled.agent = NoAgent
      /\ NoAgent \notin Agent
  BY StoreAssumption DEF NoLease, NewLease, NewAgent, Idle, NoSettled
<1>3. Logged(NoLease)
  BY <1>2 DEF Logged
<1>4. FirstInv /\ CancelInv
  BY <1>1 DEF FirstInv, FirstIn, CancelInv, CancelsAfter
<1>5. Lean(NewAgent) /\ Begins(NewAgent) /\ ~Runs(NewAgent)
  BY <1>2 DEF Lean, Begins, Runs, Holds
<1>6. KnowsInv /\ BookInv
  BY <1>1, <1>2 DEF KnowsInv, KnowsAt, AsksAt, BookInv, SettledAt, RegAt
<1>7. BlankInv
  BY <1>1, <1>2, <1>5 DEF BlankInv, Blank
<1>8. ASSUME NEW a \in Agent, NEW j \in Job, NEW e \in Nat, NEW x \in Reason
      PROVE  Once(a, j, e, x)
  <2>1. \A S : ~Has(<<>>, S) /\ Few(<<>>, S)
    BY FewIn
  <2>2. ~Log(a, j, e, x) /\ Few(lease[j].events, {x})
    BY <1>1, <1>2, <2>1 DEF Log
  <2>3. \A c \in Conn : ~Out(a, c, j, e, x) /\ Few(up[c], Rel(j, e, x))
    BY <1>1, <2>1 DEF Out
  <2>4. agent[a].link = NoConn /\ ~Due(a, j, e, x)
    BY <1>1, <1>2 DEF Due
  <2>5. ~Owed(a, j, e, x)
    BY <1>1, <1>2, <2>1, NoJobs DEF Owed, Owes, HoldsThat
  <2>6. ~Takes(a, j, e) /\ ~Attends(a, j, e, x)
    BY <1>1, <1>2, <1>5, <2>4 DEF Takes, Attends
  <2> QED
    BY <2>2, <2>3, <2>4, <2>5, <2>6 DEF Once
<1> QED
  BY <1>1, <1>3, <1>4, <1>5, <1>6, <1>7, <1>8 DEF EventInv, LeanInv, OnceInv

\* Whatever the channels lost, the word that an agent lets an attempt go is in
\* one place: with the agent, on one channel, or forwarded once by the hub
\* (agent.rs `let_go`, workers.rs `handle`, `resume`); and what the hub counts
\* of an attempt, its agent wrote.
THEOREM EventInvariant == Spec => [](AttemptInv /\ ChannelInv /\ EventInv)
<1>1. Init => EventInv
  BY InitEvents
<1>2. AttemptInv /\ AttemptInv' /\ ChannelInv /\ EventInv /\ [Next]_vars => EventInv'
  BY NextEvents
<1> QED
  BY <1>1, <1>2, ChannelInvariant, PTL DEF Spec

\* What a lease forwards to its runner is what the job reported, once and in
\* order, however often the channel was replaced under it (workers.rs
\* `handle`, jobs.rs `run_remote`).
THEOREM EventsStayInOrder == Spec => []EventsInOrder
<1>1. AttemptInv /\ EventInv => EventsInOrder
  <2> SUFFICES ASSUME AttemptInv, EventInv, NEW j \in Job,
                      NEW m \in DOMAIN lease[j].events,
                      NEW n \in DOMAIN lease[j].events, m < n
               PROVE  /\ lease[j].events[m] # lease[j].events[n]
                      /\ lease[j].events[n] # "features"
                      /\ lease[j].events[m] \in Terminal
                         => lease[j].events[n] \notin Terminal
    BY DEF EventsInOrder
  <2> DEFINE l == lease[j]
             a == l.agent
             x == l.events[n]
  <2>1. l \in LeaseRec /\ TypeOK /\ HolderInv /\ Logged(l)
    BY DEF AttemptInv, ClaimBase, LifeInv, FenceInv, TypeOK, EventInv
  <2>2. x # "features" /\ (l.events[m] # "features" => x \in Reason)
    BY <2>1 DEF Logged
  <2>3. a \in Agent /\ l.epoch \in Nat
    <3>1. l # NoLease
      BY DEF NoLease, NewLease
    <3> QED
      BY <2>1, <3>1 DEF HolderInv, Held, LeaseRec
  <2>4. ASSUME l.events[m] = x PROVE FALSE
    <3>1. x \in Reason
      BY <2>2, <2>4
    <3>2. Once(a, j, l.epoch, x)
      BY <2>3, <3>1 DEF EventInv, OnceInv
    <3>3. Few(l.events, {x})
      BY <3>2 DEF Once
    <3>4. m = n
      BY <2>4, <3>3 DEF Few
    <3> QED
      BY <2>1, <3>4 DEF LeaseRec
  <2>5. l.events[m] \in Terminal => x \notin Terminal
    <3>1. "features" \notin Terminal /\ Reason \cap Terminal = {}
      BY DEF Terminal, Reason
    <3> HIDE DEF x, l
    <3> QED
      BY <2>2, <3>1
  <2> QED
    BY <2>2, <2>4, <2>5
<1> QED
  BY <1>1, EventInvariant, PTL

=============================================================================
