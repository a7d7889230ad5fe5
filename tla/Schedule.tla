------------------------------ MODULE Schedule ------------------------------
(***************************************************************************)
(* The rules by which slots take jobs from the class queues, and the       *)
(* estimate that replays them (src/src/service/schedule.rs, pure).         *)
(* Classes are 0..MaxClass, smallest first; a queue is a sequence of jobs. *)
(***************************************************************************)
EXTENDS Integers, SequencesExt

CONSTANTS MaxClass,  \* the largest worker class
          Slots      \* the slots of each class

Class == 0 .. MaxClass

ASSUME ScheduleAssumption == /\ MaxClass \in Nat
                             /\ Slots \in [Class -> Nat \ {0}]

NoClass == -1

\* The classes, smallest first.
ClassSeq == [i \in 1 .. MaxClass + 1 |-> i - 1]

\* worker_classes: slots are numbered smallest class first.
SlotClass ==
    FoldLeft(LAMBDA all, c : all \o [i \in 1 .. Slots[c] |-> c], <<>>, ClassSeq)

\* bind: the smallest class whose memory holds the predicted peak, or the
\* largest (no prediction is a peak that none holds).
Bind(peak, usable) ==
    LET holds == {c \in Class : usable[c] >= peak}
    IN  IF holds = {} THEN MaxClass ELSE Min(holds)

\* next_for: the queue of the slot's own class, else the largest smaller one
\* that is not empty.
NextFor(c, queue) ==
    LET waiting == {d \in 0 .. c : queue[d] # <<>>}
    IN  IF waiting = {} THEN NoClass ELSE Max(waiting)

\* The first among the workers of S to be free, ties by id.
FirstFree(S, free) ==
    CHOOSE w \in S : \A v \in S : free[w] < free[v] \/ (free[w] = free[v] /\ w <= v)

\* Worker w, free at free[w], takes job j, which runs for cost[j].
Takes(s, w, j, cost) ==
    [free |-> [s.free EXCEPT ![w] = @ + cost[j]],
     start |-> [s.start EXCEPT ![j] = s.free[w]]]

NoStart == -1

\* Mutant: the jobs of the smallest class are placed first.
PlacingOrderSmallest(queue) ==
    FoldLeft(LAMBDA all, c : all \o [i \in DOMAIN queue[c] |-> <<c, queue[c][i]>>],
             <<>>, ClassSeq)

\* The jobs in the order they are placed: largest class first.
PlacingOrder(queue) ==
    FoldLeft(LAMBDA all, c : [i \in DOMAIN queue[c] |-> <<c, queue[c][i]>>] \o all,
             <<>>, ClassSeq)

\* simulate: each job goes to the worker of its class or larger that is free
\* first.  `class` and `free` are functions on the workers, `cost` on jobs;
\* the result gives each job its start.
Simulate(class, free, queue, cost) ==
    FoldLeft(LAMBDA s, cj :
               LET able == {w \in DOMAIN class : class[w] >= cj[1]}
               IN  IF able = {} THEN s
                   ELSE Takes(s, FirstFree(able, s.free), cj[2], cost),
             [free |-> free, start |-> [j \in DOMAIN cost |-> NoStart]],
             PlacingOrder(queue)).start

-----------------------------------------------------------------------------
\* What the estimate is measured against.

\* The dispatch rule played forward: as often as there are jobs, the worker
\* free first among those that may take something takes it.
Playing(class, free, queue, cost) ==
    LET able(q) == {w \in DOMAIN class : NextFor(class[w], q) # NoClass}
        Play(s, n) ==
            IF able(s.queue) = {} THEN s
            ELSE LET w == FirstFree(able(s.queue), s.free)
                     d == NextFor(class[w], s.queue)
                     t == Takes(s, w, Head(s.queue[d]), cost)
                 IN  [free |-> t.free, start |-> t.start,
                      queue |-> [s.queue EXCEPT ![d] = Tail(@)]]
    IN  FoldLeft(Play, [free |-> free, queue |-> queue,
                        start |-> [j \in DOMAIN cost |-> NoStart]],
                 [j \in DOMAIN cost |-> j]).start

\* The jobs 1..n queued in that order, each in the class it is bound to.
Queued(n, bound) ==
    [c \in Class |-> SelectSeq([j \in 1 .. n |-> j], LAMBDA j : bound[j] = c)]

\* "Largest first is what makes this the same rule as next_for" (schedule.rs):
\* whatever the jobs cost and whenever the slots are free, a job's estimated
\* start is the one the dispatch rule gives it.
SimulateIsDispatch ==
    LET class == [s \in DOMAIN SlotClass |-> SlotClass[s]]
        n == 4
    IN  \A free \in [DOMAIN SlotClass -> 0 .. 2] :
        \A cost \in [1 .. n -> 1 .. 2] : \A bound \in [1 .. n -> Class] :
            Simulate(class, free, Queued(n, bound), cost)
              = Playing(class, free, Queued(n, bound), cost)

=============================================================================
