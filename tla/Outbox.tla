------------------------------- MODULE Outbox -------------------------------
(***************************************************************************)
(* The agent's outbox of one held job (src/src/service/agent.rs): its      *)
(* events in order, a prefix of which was written to the channel with      *)
(* consecutive seqs ending at `last`.  A resume renumbers whatever the     *)
(* master has not applied.                                                 *)
(***************************************************************************)
EXTENDS Sequences, Integers

EmptyOutbox == [evs |-> <<>>, written |-> 0, last |-> 0]

\* The seq the k-th written entry carries.
SeqOf(o, k) == o.last - o.written + k

Push(o, ev) == [o EXCEPT !.evs = Append(@, ev)]

\* How many entries the master's acknowledgement covers.
Covered(o, acked) ==
    LET n == acked - (o.last - o.written)
    IN  IF n <= 0 THEN 0 ELSE IF n <= o.written THEN n ELSE o.written

\* ack: drops the written prefix up to `acked`.
Ack(o, acked) ==
    LET n == Covered(o, acked)
    IN  [o EXCEPT !.evs = SubSeq(@, n + 1, Len(@)), !.written = @ - n]

\* Mutants: what was applied is sent again; the old numbering goes on.
RewindUnacked(o, acked) == [o EXCEPT !.written = 0, !.last = acked]
RewindNumbered(o, acked) == [Ack(o, acked) EXCEPT !.written = 0]

\* rewind: everything not applied is unwritten again, from acked + 1.
Rewind(o, acked) == [Ack(o, acked) EXCEPT !.written = 0, !.last = acked]

\* What flush writes, as (seq, event) pairs, and the outbox after it.
Unwritten(o) ==
    [k \in 1 .. (Len(o.evs) - o.written) |->
        [seq |-> o.last + k, ev |-> o.evs[o.written + k]]]

Flushed(o) == [o EXCEPT !.written = Len(o.evs),
                        !.last = @ + (Len(o.evs) - o.written)]

AllWritten(o) == o.written = Len(o.evs)

=============================================================================
