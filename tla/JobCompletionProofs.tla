------------------------ MODULE JobCompletionProofs ------------------------
(***************************************************************************)
(* What is proved of JobCompletion, for any number of clients, runs and    *)
(* restarts and whatever the surroundings may do: the two records of a job *)
(* end once and in the right order, and no accepted job is left in flight. *)
(*                                                                         *)
(* None of the four properties is inductive by itself: which record has    *)
(* ended depends on how far the slot and each client are with their own    *)
(* two writes.  CompletionInv says so.                                     *)
(***************************************************************************)
EXTENDS JobCompletion, TLAPS

\* The row backs an ending, or the store refused it.
Sealed == Terminal(row) \/ gaveUp

\* Whoever is about to tell memory has been to the store.
Backing ==
    /\ Terminal(snap) => Sealed
    /\ snap = "gone" => Terminal(row) /\ place = "none"
    /\ loop \in {"writing", "applying"} =>
         pending \in Ended /\ next \in {"returned", "recording"}
    /\ loop = "applying" => Sealed
    /\ \A c \in Client : /\ client[c] = "cancelling" => Sealed
                         /\ client[c] = "recording" => answer[c] \in Ended

\* Where the job is, and what its marks say of where it goes.
Placed ==
    /\ place = "slot" <=> loop # "idle"
    /\ requeue => loop # "idle"
    /\ place = "queue" \/ requeue \/ loop = "marking" => runs < MaxRuns
    /\ cancelled => Terminal(snap)
    /\ place = "none" => snap # "live" \/ stopping
    /\ place = "queue" => snap = "live"
    /\ loop = "checking" /\ held => stopping \/ requeue
    /\ loop \in {"recording", "leaving"} =>
         snap # "live" \/ stopping \/ requeue

CompletionInv == TypeOK /\ Backing /\ Placed

-----------------------------------------------------------------------------
\* The two ways of writing an ending keep what has ended.
LEMMA EndingsKept ==
    ASSUME NEW s, NEW how \in Ended
    PROVE  /\ FinishRow(s, how) \in Ended /\ FinishSnap(s, how) \in Ended
           /\ Terminal(s) => FinishRow(s, how) = s /\ FinishSnap(s, how) = s
  BY DEF FinishRow, FinishSnap, Terminal

\* A runner's step keeps the invariant: it leads to a write, or back.
LEMMA RunnerKeeps ==
    ASSUME CompletionInv, Runner
    PROVE  CompletionInv'
<1> USE DEF records, slot, clients, process, Ended
<1>1. place = "slot" /\ loop # "idle"
  BY DEF CompletionInv, Placed, Runner, RunLeaves, RunFails, RunHasResult,
         RunRequeues, RunPanics
<1>2. /\ loop' \in {"returned", "writing", "registering", "marking"}
      /\ loop' = "marking" => runs < MaxRuns
      /\ loop' = "writing" => pending' = "failed" /\ next' = "returned"
      /\ loop' # "writing" => pending' = pending /\ next' = next
      /\ UNCHANGED <<records, place, held, requeue, cancelled, published,
                     clients, process, gaveUp, runs>>
  BY DEF Runner, RunLeaves, RunFails, RunHasResult, RunRequeues, RunPanics,
         Goes, Finish
<1>3. TypeOK'
  BY <1>2 DEF CompletionInv, TypeOK, Steps
<1>4. Backing'
  BY <1>2 DEF CompletionInv, Backing, Sealed, Terminal
<1>5. Placed'
  BY <1>1, <1>2 DEF CompletionInv, Placed, Terminal
<1> QED
  BY <1>3, <1>4, <1>5 DEF CompletionInv

\* So does each step of the loop around it.
LEMMA LoopKeeps ==
    ASSUME CompletionInv, Loop
    PROVE  CompletionInv'
<1> USE DEF records, slot, clients, process, Ended
<1>1. CASE Publish \/ Registered \/ MarkRequeue \/ ReadHeld
  <2>1. TypeOK'
    BY <1>1 DEF CompletionInv, TypeOK, Steps, Publish, Registered,
                MarkRequeue, ReadHeld, Goes, Finish
  <2>2. Backing'
    BY <1>1 DEF CompletionInv, Backing, Sealed, Terminal, Publish, Registered,
                MarkRequeue, ReadHeld, Goes, Finish
  <2>3. Placed'
    <3>1. CASE ReadHeld
      BY <3>1 DEF CompletionInv, Placed, Terminal, ReadHeld
    <3>2. CASE MarkRequeue
      BY <3>2 DEF CompletionInv, Placed, Terminal, MarkRequeue, Goes
    <3>3. CASE Publish \/ Registered
      BY <3>3 DEF CompletionInv, Placed, Terminal, Publish, Registered, Goes,
                  Finish
    <3> QED
      BY <1>1, <3>1, <3>2, <3>3
  <2> QED
    BY <2>1, <2>2, <2>3 DEF CompletionInv
<1>2. CASE WriteEnd
  <2>1. pending \in Ended /\ (row' = FinishRow(row, pending) \/ row' = row)
        /\ Sealed'
    BY <1>2, EndingsKept DEF WriteEnd, CompletionInv, Backing, Sealed, Terminal
  <2>2. row' \in Ended \cup {"live"} /\ (Terminal(row) => row' = row)
    BY <2>1, EndingsKept DEF CompletionInv, TypeOK
  <2>3. TypeOK'
    BY <1>2, <2>2 DEF CompletionInv, TypeOK, Steps, WriteEnd, Goes
  <2>4. Backing'
    BY <1>2, <2>1, <2>2 DEF CompletionInv, Backing, Sealed, WriteEnd, Goes
  <2>5. Placed'
    BY <1>2 DEF CompletionInv, Placed, WriteEnd, Goes
  <2> QED
    BY <2>3, <2>4, <2>5 DEF CompletionInv
<1>3. CASE ApplyEnd
  <2>1. /\ snap' \in Ended /\ Sealed
        /\ next \in {"returned", "recording"} /\ place = "slot"
    BY <1>3, EndingsKept DEF ApplyEnd, CompletionInv, Backing, Placed
  <2>2. TypeOK'
    BY <1>3, <2>1 DEF CompletionInv, TypeOK, Steps, ApplyEnd
  <2>3. Backing'
    BY <1>3, <2>1 DEF CompletionInv, Backing, Sealed, ApplyEnd, Terminal
  <2>4. Placed'
    BY <1>3, <2>1 DEF CompletionInv, Placed, ApplyEnd, Terminal
  <2> QED
    BY <2>2, <2>3, <2>4 DEF CompletionInv
<1>4. CASE CheckEnd
  <2>1. TypeOK'
    BY <1>4 DEF CompletionInv, TypeOK, Steps, CheckEnd, Goes, Finish
  <2>2. Backing'
    BY <1>4 DEF CompletionInv, Backing, Sealed, Terminal, CheckEnd, Goes,
                Finish
  <2>3. Placed'
    BY <1>4 DEF CompletionInv, Placed, Terminal, CheckEnd, Goes, Finish
  <2> QED
    BY <2>1, <2>2, <2>3 DEF CompletionInv
<1>5. CASE Record
  <2>1. row' \in Ended \cup {"live"} /\ (Terminal(row) => row' = row)
    BY <1>5, EndingsKept DEF Record, CompletionInv, TypeOK, Terminal
  <2>2. TypeOK'
    BY <1>5, <2>1 DEF CompletionInv, TypeOK, Steps, Record, Goes
  <2>3. Backing'
    BY <1>5, <2>1 DEF CompletionInv, Backing, Sealed, Record, Goes
  <2>4. Placed'
    BY <1>5 DEF CompletionInv, Placed, Record, Goes
  <2> QED
    BY <2>2, <2>3, <2>4 DEF CompletionInv
<1>6. CASE Leave
  <2>1. TypeOK'
    BY <1>6 DEF CompletionInv, TypeOK, Steps, Leave, Terminal
  <2>2. Backing'
    BY <1>6 DEF CompletionInv, Backing, Placed, Sealed, Leave, Terminal
  <2>3. Placed'
    <3>1. snap \in Ended \cup {"live"}
      BY <1>6 DEF CompletionInv, TypeOK, Backing, Placed, Leave
    <3> QED
      BY <1>6, <3>1 DEF CompletionInv, Placed, Leave, Terminal
  <2> QED
    BY <2>1, <2>2, <2>3 DEF CompletionInv
<1> QED
  BY <1>1, <1>2, <1>3, <1>4, <1>5, <1>6 DEF Loop

\* And each step of a client's cancel.
LEMMA CancelKeeps ==
    ASSUME CompletionInv, NEW c \in Client, CancelJob(c)
    PROVE  CompletionInv'
<1> USE DEF records, slot, clients, process, Ended
<1>1. CASE CancelPeeks(c)
  <2>1. TypeOK'
    BY <1>1 DEF CompletionInv, TypeOK, CancelPeeks
  <2>2. Backing'
    BY <1>1 DEF CompletionInv, TypeOK, Backing, Sealed, Terminal, CancelPeeks
  <2>3. Placed'
    BY <1>1 DEF CompletionInv, Placed, CancelPeeks
  <2> QED
    BY <2>1, <2>2, <2>3 DEF CompletionInv
<1>2. CASE CancelWrites(c)
  <2>1. /\ row' \in Ended \cup {"live"} /\ (Terminal(row) => row' = row)
        /\ Sealed'
    BY <1>2, EndingsKept DEF CancelWrites, CompletionInv, TypeOK, Sealed,
                             Terminal
  <2>2. TypeOK'
    BY <1>2, <2>1 DEF CompletionInv, TypeOK, CancelWrites
  <2>3. Backing'
    BY <1>2, <2>1 DEF CompletionInv, TypeOK, Backing, Sealed, CancelWrites
  <2>4. Placed'
    BY <1>2 DEF CompletionInv, Placed, CancelWrites
  <2> QED
    BY <2>2, <2>3, <2>4 DEF CompletionInv
<1>3. CASE Cancel(c)
  <2>1. Sealed /\ snap' # "live" /\ (snap = "gone" => Terminal(row))
    BY <1>3 DEF CompletionInv, Backing, Cancel
  <2>2. /\ snap' \in Ended \cup {"gone"}
        /\ (IF snap = "gone" THEN row ELSE snap') \in Ended
    BY <1>3, <2>1 DEF CompletionInv, TypeOK, Cancel, Terminal
  <2>3. TypeOK'
    BY <1>3, <2>2 DEF CompletionInv, TypeOK, Cancel
  <2>4. Backing'
    BY <1>3, <2>1, <2>2 DEF CompletionInv, TypeOK, Backing, Sealed, Cancel
  <2>5. Placed'
    BY <1>3, <2>1, <2>2 DEF CompletionInv, TypeOK, Placed, Cancel, Terminal
  <2> QED
    BY <2>3, <2>4, <2>5 DEF CompletionInv
<1>4. CASE CancelRecords(c)
  <2>1. row' \in Ended \cup {"live"} /\ (Terminal(row) => row' = row)
    BY <1>4, EndingsKept DEF CancelRecords, CompletionInv, TypeOK, Backing
  <2>2. TypeOK'
    BY <1>4, <2>1 DEF CompletionInv, TypeOK, CancelRecords
  <2>3. Backing'
    BY <1>4, <2>1 DEF CompletionInv, TypeOK, Backing, Sealed, CancelRecords
  <2>4. Placed'
    BY <1>4 DEF CompletionInv, Placed, CancelRecords
  <2> QED
    BY <2>2, <2>3, <2>4 DEF CompletionInv
<1> QED
  BY <1>1, <1>2, <1>3, <1>4 DEF CancelJob

-----------------------------------------------------------------------------
\* A dispatch, a stop or a restart keeps it too.
LEMMA ProcessKeeps ==
    ASSUME CompletionInv, Dispatch \/ Stop \/ Restart
    PROVE  CompletionInv'
<1> USE CompletionAssumption DEF records, slot, clients, process, Ended
<1>1. CASE Dispatch
  <2>1. TypeOK'
    BY <1>1 DEF CompletionInv, TypeOK, Steps, Placed, Dispatch
  <2> QED
    BY <1>1, <2>1 DEF CompletionInv, Backing, Placed, Sealed, Terminal,
                      Dispatch
<1>2. CASE Stop
  <2>1. TypeOK'
    BY <1>2 DEF CompletionInv, TypeOK, Stop
  <2> QED
    BY <1>2, <2>1 DEF CompletionInv, Backing, Placed, Sealed, Terminal, Stop
<1>3. CASE Restart
  <2>1. TypeOK'
    <3>1. runs' \in 0 .. MaxRuns /\ restarts' \in 0 .. MaxRestarts
      BY <1>3 DEF Restart, CompletionInv, TypeOK
    <3>2. {held, requeue, cancelled, published, stopping, gaveUp}'
            \subseteq BOOLEAN
      BY <1>3 DEF Restart, CompletionInv, TypeOK
    <3>3. /\ client' \in [Client -> {"idle", "answered"}]
          /\ answer' \in [Client -> Ended \cup {"none"}]
      BY <1>3 DEF Restart, CompletionInv, TypeOK
    <3> QED
      BY <1>3, <3>1, <3>2, <3>3
         DEF Restart, CompletionInv, TypeOK, Steps, Terminal
  <2>2. Backing'
    BY <1>3 DEF CompletionInv, TypeOK, Backing, Sealed, Restart, Terminal
  <2>3. Placed'
    BY <1>3 DEF CompletionInv, Placed, Restart, Terminal
  <2> QED
    BY <2>1, <2>2, <2>3 DEF CompletionInv
<1> QED
  BY <1>1, <1>2, <1>3

\* The inductive invariant of a job's two records and its place.
THEOREM CompletionInvariant == Spec => []CompletionInv
<1>1. Init => CompletionInv
  <2> SUFFICES ASSUME Init PROVE CompletionInv
    OBVIOUS
  <2>1. TypeOK
    <3>1. runs \in 0 .. MaxRuns /\ restarts \in 0 .. MaxRestarts
      BY CompletionAssumption DEF Init
    <3>2. {held, requeue, cancelled, published, stopping, gaveUp}
            \subseteq BOOLEAN
      BY DEF Init
    <3> QED
      BY <3>1, <3>2 DEF Init, TypeOK, Steps
  <2>2. Backing /\ Placed
    BY CompletionAssumption
       DEF Init, Backing, Placed, Sealed, Terminal, Ended
  <2> QED
    BY <2>1, <2>2 DEF CompletionInv
<1>2. CompletionInv /\ [Next]_vars => CompletionInv'
  <2> SUFFICES ASSUME CompletionInv, [Next]_vars
               PROVE  CompletionInv'
    OBVIOUS
  <2>1. CASE Next
    BY <2>1, RunnerKeeps, LoopKeeps, CancelKeeps, ProcessKeeps DEF Next
  <2>2. CASE UNCHANGED vars
    BY <2>2 DEF vars, records, slot, clients, process, CompletionInv, TypeOK,
                Backing, Placed, Sealed
  <2> QED
    BY <2>1, <2>2
<1> QED
  BY <1>1, <1>2, PTL DEF Spec

\* The runner, the clients and worker_loop only ever leave what JobCompletion
\* says of their steps and of the job's two records.
THEOREM TypesKept == Spec => []TypeOK
<1>1. CompletionInv => TypeOK
  BY DEF CompletionInv
<1> QED
  BY <1>1, CompletionInvariant, PTL

\* An ending is never in memory alone, unless the store refused every retry:
\* finish_terminal_durable and cancel_job are durable-first.
THEOREM EndsBacked == Spec => []TerminalBacked
<1>1. CompletionInv => TerminalBacked
  BY DEF CompletionInv, Backing, Sealed, TerminalBacked, Terminal, Ended
<1> QED
  BY <1>1, CompletionInvariant, PTL

\* worker_loop leaves no accepted job in flight: one that is not over is in a
\* slot or in a queue, but for what a stop leaves to the next process.
THEOREM NoneInFlight == Spec => []NeverInFlight
<1>1. CompletionInv => NeverInFlight
  BY DEF CompletionInv, Placed, NeverInFlight, Terminal, Ended
<1> QED
  BY <1>1, CompletionInvariant, PTL

\* worker_loop puts a job back in its queue without a mark of the run before
\* it: neither the `requeue` nor the `cancelled` of one run is read in the next.
THEOREM RequeuedFresh == Spec => []QueuedIsFresh
<1>1. CompletionInv => QueuedIsFresh
  BY DEF CompletionInv, Placed, QueuedIsFresh, Terminal, Ended
<1> QED
  BY <1>1, CompletionInvariant, PTL

\* No ending is changed, by whichever of the runner, the clients and
\* worker_loop writes after it.
THEOREM EndsAreFinal == Spec => EndsOnce
<1> DEFINE Once == /\ Terminal(snap) => \/ snap' \in {snap, "gone"}
                                        \/ gaveUp /\ restarts' # restarts
                   /\ Terminal(row) => row' = row
<1>1. CompletionInv /\ [Next]_vars => [Once]_vars
  <2> SUFFICES ASSUME CompletionInv, Next
               PROVE  Once
    OBVIOUS
  <2> USE DEF records, slot, clients, process
  <2>1. CASE Dispatch \/ Runner \/ Stop
    BY <2>1 DEF Dispatch, Runner, RunLeaves, RunFails, RunHasResult,
                RunRequeues, RunPanics, Stop
  <2>2. CASE Loop
    BY <2>2 DEF Loop, Publish, Registered, MarkRequeue, WriteEnd, ApplyEnd,
                ReadHeld, CheckEnd, Record, Leave, FinishRow, FinishSnap
  <2>3. CASE Restart
    BY <2>3, CompletionAssumption
       DEF Restart, CompletionInv, TypeOK, Backing, Sealed
  <2>4. ASSUME NEW c \in Client, CancelJob(c)
        PROVE  Once
    BY <2>4 DEF CancelJob, CancelPeeks, CancelWrites, Cancel, CancelRecords,
                FinishRow, Terminal, Ended
  <2> QED
    BY <2>1, <2>2, <2>3, <2>4 DEF Next
<1> QED
  BY <1>1, CompletionInvariant, PTL DEF Spec, EndsOnce

\* A run publishes nothing once a client sees the job ended.
THEOREM PublishesLive == Spec => NothingAfterEnd
<1> DEFINE Live == published' /\ ~published => snap = "live" \/ gaveUp
<1>1. CompletionInv /\ [Next]_vars => [Live]_vars
  <2> SUFFICES ASSUME CompletionInv, Next, published', ~published
               PROVE  snap = "live" \/ gaveUp
    OBVIOUS
  <2> USE DEF records, slot, clients, process
  <2>1. CASE Publish
    BY <2>1 DEF Publish, CompletionInv, TypeOK, Backing, Sealed, Terminal
  <2>2. CASE ~Publish
    BY <2>2 DEF Next, Dispatch, Runner, RunLeaves, RunFails, RunHasResult,
                RunRequeues, RunPanics, Loop, Registered, MarkRequeue,
                WriteEnd, ApplyEnd, ReadHeld, CheckEnd, Record, Leave, Stop,
                Restart, CancelJob, CancelPeeks, CancelWrites, Cancel,
                CancelRecords
  <2> QED
    BY <2>1, <2>2
<1> QED
  BY <1>1, CompletionInvariant, PTL DEF Spec, NothingAfterEnd

=============================================================================
