----------------------------- MODULE AgentState -----------------------------
(***************************************************************************)
(* What one agent process holds, and what its socket thread makes of each  *)
(* thing that happens to it (src/src/service/agent.rs): operators on the   *)
(* agent's state.  WorkerLease has the actions that apply them.            *)
(*                                                                         *)
(* An agent runs one job at a time.  Left out: the job child itself, its   *)
(* files, `draining` (no master of this code sends `shutdown drain`) and   *)
(* the times, which the actions replace by what may happen.                *)
(***************************************************************************)
EXTENDS Outbox

NoJob == 0
NoConn == 0

\* What an agent holds (`Current`): `released` is why it lets go, `done` how
\* its job thread ended, `up` how its uploads went, `begun` whether the job
\* has reported its features.
Idle == [job |-> NoJob, epoch |-> 0, released |-> "no", done |-> "no",
         up |-> "no", begun |-> FALSE, out |-> EmptyOutbox]

\* `link` is its channel, `pending` the frames that wait for one, `ready`
\* whether it owes the master a `ready`.
NewAgent == [link |-> NoConn, cur |-> Idle, pending |-> <<>>, ready |-> FALSE]

\* Frames to the master, and the master's orders.
Frame(type, j, e, seq, ev) ==
    [type |-> type, job |-> j, epoch |-> e, seq |-> seq, ev |-> ev]
Order(type, j, e, why, acked) ==
    [type |-> type, job |-> j, epoch |-> e, why |-> why, acked |-> acked]

Holds(s) == s.cur.job # NoJob
HoldsThat(s, j, e) == s.cur.job = j /\ s.cur.epoch = e

\* A job not being let go: the one `hello.resume` names.
Runs(s) == Holds(s) /\ s.cur.released = "no"
\* Its job thread has not ended.
Working(s) == Runs(s) /\ s.cur.done = "no"

Queue(s, frame) == [s EXCEPT !.pending = Append(@, frame)]

-----------------------------------------------------------------------------

\* let_go: the slot is free again, `released` queued when there is a reason.
LetGo(s, why) ==
    [s EXCEPT !.cur = Idle, !.ready = TRUE,
              !.pending = IF why = "no" THEN @
                          ELSE Append(@, Frame("released", s.cur.job,
                                               s.cur.epoch, 0, why))]

\* The job is to stop: released once its thread is done, at once if it is.
Stopped(s, why) ==
    IF s.cur.done # "no" THEN LetGo(s, why) ELSE [s EXCEPT !.cur.released = why]

\* `assign`: an agent that is not free says so at once.
Assigned(s, m) ==
    IF Holds(s) THEN Queue(s, Frame("event", m.job, m.epoch, 1, "refused"))
    ELSE [s EXCEPT !.cur = [Idle EXCEPT !.job = m.job, !.epoch = m.epoch]]

\* `cancel`: a job it does not hold is released at once.
Cancelled(s, m) ==
    IF HoldsThat(s, m.job, m.epoch) THEN Stopped(s, m.why)
    ELSE Queue(s, Frame("released", m.job, m.epoch, 0, m.why))

\* result_accepted, result_rejected: either way the job is over here.
Answered(s, m) ==
    IF HoldsThat(s, m.job, m.epoch) /\ s.cur.done = "result"
    THEN LetGo(s, "no") ELSE s

\* `lease_renewed` acknowledges a prefix of the events.
Renewed(s, m) ==
    IF HoldsThat(s, m.job, m.epoch)
    THEN [s EXCEPT !.cur.out = Ack(@, m.acked)] ELSE s

\* on_welcome: replay from the master's acknowledgement, or let the job go.
\* `answer` is "continue" or the reason of a cancel.
Welcomed(s, c, answer, acked) ==
    LET t == [s EXCEPT !.link = c] IN
    IF ~Holds(s) THEN [t EXCEPT !.ready = TRUE]
    ELSE IF ~Runs(s) THEN t
    ELSE IF answer = "continue" THEN [t EXCEPT !.cur.out = Rewind(@, acked)]
    ELSE Stopped([t EXCEPT !.cur.out = EmptyOutbox], answer)

\* The job's thread reports an event, or ends with one.
Reports(s, ev) == [s EXCEPT !.cur.out = Push(@, ev), !.cur.begun = TRUE]
EndsWith(s, ev, done) ==
    [s EXCEPT !.cur.out = Push(@, ev), !.cur.done = done]

-----------------------------------------------------------------------------
\* flush, which ends every turn of the socket thread.

\* The held job's unwritten events, unless it is being let go.
EventFrames(s) ==
    IF Runs(s)
    THEN [k \in DOMAIN Unwritten(s.cur.out) |->
             LET w == Unwritten(s.cur.out)[k]
             IN  Frame("event", s.cur.job, s.cur.epoch, w.seq, w.ev)]
    ELSE <<>>

\* A terminal error is written and the job forgotten.
AfterEvents(s) ==
    IF ~Runs(s) THEN s
    ELSE IF s.cur.done = "failed" THEN [s EXCEPT !.cur = Idle, !.ready = TRUE]
    ELSE [s EXCEPT !.cur.out = Flushed(@)]

OwesReady(s) == s.ready /\ ~Holds(s)

\* The queued frames, the events, then the `ready` it owes.
FramesOf(s) ==
    s.pending \o EventFrames(s)
      \o (IF OwesReady(AfterEvents(s))
          THEN <<Frame("ready", NoJob, 0, 0, "none")>> ELSE <<>>)

AfterFlush(s) ==
    LET t == AfterEvents(s)
    IN  [t EXCEPT !.pending = <<>>, !.ready = @ /\ Holds(t)]

=============================================================================
