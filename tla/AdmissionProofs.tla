--------------------------- MODULE AdmissionProofs ---------------------------
(***************************************************************************)
(* The job registry, proved of AdmissionQueue for any repositories,        *)
(* requests, classes, slots and bounds: its dedup keys (KeyIsJob), its     *)
(* queues and slots (InOnePlace, NoOvertaking), and that no slot is idle   *)
(* beside a job it may take (StartedUnlessStalled).                        *)
(*                                                                         *)
(* Queues and slots change by RemoveFirst, InsertAt and Tail, and by two   *)
(* folds: dispatch_idle, a turn of every slot, and restore, a row after    *)
(* another.  SequenceProofs gives each fold as a run of its steps, and the *)
(* lemmas here say of one turn, or of one row, what it keeps; what the     *)
(* whole fold keeps follows by the least step that does not.               *)
(***************************************************************************)
EXTENDS AdmissionQueue, SequenceProofs

-----------------------------------------------------------------------------
\* The classes.

\* bind gives a class.
LEMMA BindTyped ==
    ASSUME NEW peak, NEW usable
    PROVE  Bind(peak, usable) \in Class
<1> DEFINE holds == {c \in Class : usable[c] >= peak}
<1>1. CASE holds = {}
  BY <1>1, ScheduleAssumption DEF Bind, Class
<1>2. CASE holds # {}
  <2>1. holds \subseteq Nat
    BY DEF Class
  <2>2. Min(holds) \in holds
    BY <1>2, <2>1, LeastOf
  <2> QED
    BY <1>2, <2>2 DEF Bind
<1> QED
  BY <1>1, <1>2

-----------------------------------------------------------------------------
\* The inductive invariant.

\* The records of the registry are of their kind.
Kept ==
    /\ job \in [Id -> JobRec] /\ row \in [Id -> RowRec]
    /\ active \in [Key -> Id \cup {None}]
    /\ client \in [Client -> ClientRec]
    /\ admitted \in 0 .. MaxJobs

\* No job and no live row has a number that was not given out: an admission
\* takes a number nothing is known of.
Fresh ==
    /\ \A j \in Id : j > admitted => ~Unended(j) /\ ~IsLive(row[j])
    /\ \A c \in Client : client[c].pc # "idle" => client[c].id \in 1 .. admitted

\* A request records the end only of a job that no key names.
Ending ==
    \A c \in Client : \A k \in Key :
        client[c].pc = "recording" => active[k] # client[c].id

KeyInv == Kept /\ Fresh /\ Ending /\ KeyIsJob

USE AdmissionAssumption DEF Id, None

-----------------------------------------------------------------------------
\* The steps.

\* What a step writes of a job.
LEMMA JobKinds ==
    ASSUME NEW x \in JobRec
    PROVE  /\ [x EXCEPT !.ended = TRUE] \in JobRec
           /\ [x EXCEPT !.ended = TRUE].ended
           /\ [x EXCEPT !.persisted = TRUE] \in JobRec
           /\ [x EXCEPT !.persisted = TRUE].key = x.key
           /\ [x EXCEPT !.persisted = TRUE].ended = x.ended
           /\ [x EXCEPT !.persisted = TRUE] # NoJob
<1>1. /\ [x EXCEPT !.ended = TRUE] \in JobRec
      /\ [x EXCEPT !.persisted = TRUE] \in JobRec
  BY DEF JobRec
<1>2. [x EXCEPT !.ended = TRUE].ended
  BY DEF JobRec
<1>3. /\ [x EXCEPT !.persisted = TRUE].key = x.key
      /\ [x EXCEPT !.persisted = TRUE].ended = x.ended
  BY DEF JobRec
<1>4. [x EXCEPT !.persisted = TRUE] # NoJob
  BY DEF JobRec, NoJob
<1> QED
  BY <1>1, <1>2, <1>3, <1>4

LEMMA EndedRowKind == EndedRow \in RowRec /\ ~IsLive(EndedRow)
  BY ScheduleAssumption DEF RowRec, EndedRow, NoRow, Class, IsLive

LEMMA MovedKinds ==
    ASSUME NEW x \in JobRec, NEW r \in RowRec, NEW class \in Class
    PROVE  /\ [x EXCEPT !.class = class, !.again = TRUE] \in JobRec
           /\ [x EXCEPT !.class = class, !.again = TRUE].key = x.key
           /\ [x EXCEPT !.class = class, !.again = TRUE].ended = x.ended
           /\ [x EXCEPT !.class = class, !.again = TRUE] # NoJob
           /\ [r EXCEPT !.status = "queued", !.class = class] \in RowRec
<1>1. [x EXCEPT !.class = class, !.again = TRUE] \in JobRec
  BY DEF JobRec
<1>2. /\ [x EXCEPT !.class = class, !.again = TRUE].key = x.key
      /\ [x EXCEPT !.class = class, !.again = TRUE].ended = x.ended
      /\ [x EXCEPT !.class = class, !.again = TRUE].again = TRUE
  BY DEF JobRec
<1>3. [r EXCEPT !.status = "queued", !.class = class] \in RowRec
  BY DEF RowRec
<1> QED
  BY <1>1, <1>2, <1>3 DEF NoJob

LEMMA NoJobKind == NoJob \in JobRec
  BY ScheduleAssumption DEF JobRec, NoJob, Class

\* A job's end, as a cancel or its slot writes it, frees its key and no other.
LEMMA KeyGivenUp ==
    ASSUME KeyInv, NEW j \in Id, active' = KeyFreed(j),
           job' = [job EXCEPT ![j] = NoJob]
           \/ job' = [job EXCEPT ![j] = [@ EXCEPT !.ended = TRUE]]
    PROVE  /\ KeyIsJob'
           /\ job' \in [Id -> JobRec]
           /\ active' \in [Key -> Id \cup {None}]
           /\ \A i \in Id \ {j} : job'[i] = job[i]
           /\ ~Unended(j)'
<1> USE DEF KeyInv, Kept
<1>1. active' \in [Key -> Id \cup {None}]
  BY DEF KeyFreed
<1>2. /\ job' \in [Id -> JobRec]
      /\ \A i \in Id \ {j} : job'[i] = job[i]
      /\ job'[j] = NoJob \/ job'[j].ended
  <2>1. job[j] \in JobRec
    OBVIOUS
  <2>2. CASE job' = [job EXCEPT ![j] = NoJob]
    BY <2>2, NoJobKind
  <2>3. CASE job' = [job EXCEPT ![j] = [@ EXCEPT !.ended = TRUE]]
    BY <2>1, <2>3, JobKinds, ZenonT(30)
  <2> QED
    BY <2>2, <2>3
<1>3. ASSUME NEW k \in Key
      PROVE  active'[k] = IF active[k] = j THEN None ELSE active[k]
  <2>1. CASE active[k] = j
    <3>1. job[j].key = k
      BY <2>1 DEF KeyIsJob
    <3> QED
      BY <2>1, <3>1 DEF KeyFreed
  <2>2. CASE active[k] # j
    BY <2>2 DEF KeyFreed
  <2> QED
    BY <2>1, <2>2
<1>4. KeyIsJob'
  <2> SUFFICES ASSUME NEW k \in Key, NEW i \in Id
               PROVE  (Unended(i) /\ job[i].key = k)' <=> active'[k] = i
    BY DEF KeyIsJob
  <2>1. Unended(i) /\ job[i].key = k <=> active[k] = i
    BY DEF KeyIsJob
  <2>2. CASE i = j
    BY <1>2, <1>3, <2>2 DEF Unended
  <2>3. CASE i # j
    BY <1>2, <1>3, <2>1, <2>3 DEF Unended
  <2> QED
    BY <2>2, <2>3
<1> QED
  BY <1>1, <1>2, <1>4 DEF Unended

\* An admission takes a free key and a number nothing is known of.
LEMMA AdmitKeeps ==
    ASSUME KeyInv, NEW c \in Client, NEW k \in Key, Admit(c, k)
    PROVE  KeyInv'
<1> DEFINE j == admitted + 1
<1> USE DEF KeyInv, Kept
<1>1. PICK class \in Class :
        /\ active[k] = None /\ j \in Id /\ admitted' = j
        /\ job' = [job EXCEPT ![j] = [NoJob EXCEPT !.key = k, !.class = class,
                                                   !.persisted = ~durable]]
        /\ active' = [active EXCEPT ![k] = j]
        /\ client' = IF durable
                     THEN [client EXCEPT ![c] = [pc |-> "inserting", id |-> j]]
                     ELSE client
        /\ UNCHANGED row
  BY BindTyped, Zenon DEF Admit
<1> DEFINE new == [NoJob EXCEPT !.key = k, !.class = class,
                                !.persisted = ~durable]
<1>2. new \in JobRec /\ new # NoJob /\ ~new.ended /\ new.key = k
  BY DEF NoJob, JobRec
<1>3. ~Unended(j)
  BY <1>1 DEF Fresh
<1> HIDE DEF new
<1>4. /\ job' \in [Id -> JobRec] /\ job'[j] = new
      /\ \A i \in Id \ {j} : job'[i] = job[i]
  BY <1>1, <1>2 DEF new
<1>5. /\ client' \in [Client -> ClientRec]
      /\ \A d \in Client : \/ client'[d] = client[d]
                           \/ client'[d].id = j /\ client'[d].pc = "inserting"
  BY <1>1 DEF ClientRec
<1>6. active' \in [Key -> Id \cup {None}]
  BY <1>1
<1>7. Kept'
  BY <1>1, <1>4, <1>5, <1>6
<1>8. Fresh'
  <2>1. \A i \in Id : i > admitted' =>
          (~Unended(i) /\ ~IsLive(row[i])) /\ i # j
    BY <1>1 DEF Fresh
  <2>2. ASSUME NEW d \in Client, client'[d].pc # "idle"
        PROVE  client'[d].id \in 1 .. admitted'
    BY <1>1, <1>5, <2>2 DEF Fresh
  <2> QED
    BY <1>1, <1>4, <2>1, <2>2 DEF Fresh, Unended
<1>9. Ending'
  <2> SUFFICES ASSUME NEW d \in Client, NEW l \in Key,
                      client'[d].pc = "recording"
               PROVE  active'[l] # client'[d].id
    BY DEF Ending
  <2>1. client'[d] = client[d] /\ client[d].id # j
    BY <1>1, <1>5, SMTT(30) DEF Fresh
  <2>2. active'[l] \in {active[l], j}
    BY <1>1
  <2> QED
    BY <2>1, <2>2 DEF Ending
<1>10. KeyIsJob'
  <2> SUFFICES ASSUME NEW l \in Key, NEW i \in Id
               PROVE  (Unended(i) /\ job[i].key = l)' <=> active'[l] = i
    BY DEF KeyIsJob
  <2>1. Unended(i) /\ job[i].key = l <=> active[l] = i
    BY DEF KeyIsJob
  <2>2. CASE i = j
    BY <1>1, <1>2, <1>3, <1>4, <2>1, <2>2 DEF Unended
  <2>3. CASE i # j
    BY <1>1, <1>4, <2>1, <2>3 DEF Unended
  <2> QED
    BY <2>2, <2>3
<1> QED
  BY <1>7, <1>8, <1>9, <1>10

\* A request's own place, and its job's number, which it keeps.
Goes(c) ==
    /\ client' \in [Client -> ClientRec]
    /\ \A d \in Client \ {c} : client'[d] = client[d]
    /\ client'[c].pc = "idle" \/ client'[c].id = client[c].id

LEMMA GoesTyped ==
    ASSUME KeyInv, NEW c \in Client,
           client' = [client EXCEPT ![c] = Idle]
           \/ \E pc \in {"admitting", "abandoning", "recording"} :
                client' = [client EXCEPT ![c].pc = pc]
    PROVE  Goes(c)
<1> USE DEF KeyInv, Kept
<1>1. CASE client' = [client EXCEPT ![c] = Idle]
  <2>1. Idle \in ClientRec /\ Idle.pc = "idle"
    BY DEF Idle, ClientRec
  <2> QED
    BY <1>1, <2>1 DEF Goes
<1>2. ASSUME NEW pc \in {"admitting", "abandoning", "recording"},
             client' = [client EXCEPT ![c].pc = pc]
      PROVE  Goes(c)
  <2>1. /\ [client[c] EXCEPT !.pc = pc] \in ClientRec
        /\ [client[c] EXCEPT !.pc = pc].id = client[c].id
    BY DEF ClientRec
  <2> QED
    BY <1>2, <2>1 DEF Goes
<1> QED
  BY <1>1, <1>2

\* What is kept of a request's number while it moves on, and jobs only end.
LEMMA FreshStays ==
    ASSUME KeyInv, NEW c \in Client, client[c].pc # "idle", Goes(c),
           admitted' = admitted,
           \A j \in Id : j > admitted => job'[j] = job[j] /\ row'[j] = row[j]
    PROVE  Fresh'
<1> USE DEF KeyInv
<1>1. \A j \in Id : j > admitted' => ~Unended(j)' /\ ~IsLive(row'[j])
  BY DEF Fresh, Unended
<1>2. ASSUME NEW d \in Client, client'[d].pc # "idle"
      PROVE  client'[d].id \in 1 .. admitted'
  <2>1. client'[d].id = client[d].id /\ client[d].pc # "idle"
    BY <1>2 DEF Goes
  <2> QED
    BY <2>1 DEF Fresh
<1> QED
  BY <1>1, <1>2 DEF Fresh, IsLive

\* What is recorded stays ended while keys are only given up.
LEMMA EndingStays ==
    ASSUME KeyInv, NEW c \in Client, client[c].pc # "idle", Goes(c),
           client'[c].pc # "recording",
           \A k \in Key : active'[k] = active[k] \/ active'[k] = None
    PROVE  Ending'
<1> SUFFICES ASSUME NEW d \in Client, NEW k \in Key,
                    client'[d].pc = "recording"
             PROVE  active'[k] # client'[d].id
  BY DEF Ending
<1>1. client'[d] = client[d]
  BY DEF Goes
<1>2. client[d].id # None /\ active[k] # client[d].id
  BY <1>1 DEF KeyInv, Fresh, Ending
<1> QED
  BY <1>1, <1>2

\* The row is written from the snapshot.
LEMMA InsertKeeps ==
    ASSUME KeyInv, NEW c \in Client, InsertJob(c)
    PROVE  KeyInv'
<1> DEFINE j == client[c].id
<1> USE DEF KeyInv
<1>1. /\ UNCHANGED <<job, active, admitted>> /\ client[c].pc = "inserting"
      /\ \/ UNCHANGED row
         \/ row' = [row EXCEPT ![j] = [key |-> job[j].key, class |-> job[j].class,
                                       status |-> "queued"]]
      /\ \/ client' = [client EXCEPT ![c].pc = "admitting"]
         \/ client' = [client EXCEPT ![c].pc = "abandoning"]
  BY DEF InsertJob, registry, ClientGoes, ClientAt
<1>2. j \in 1 .. admitted /\ j \in Id
  BY <1>1 DEF Fresh, Kept
<1>3. Goes(c)
  BY <1>1, GoesTyped
<1>4. /\ row' \in [Id -> RowRec]
      /\ \A i \in Id \ {j} : row'[i] = row[i]
  BY <1>1, <1>2, SMTT(30) DEF Kept, RowRec, JobRec
<1>5. Kept'
  BY <1>1, <1>3, <1>4 DEF Kept, Goes
<1>6. Fresh'
  <2>1. \A i \in Id : i > admitted => job'[i] = job[i] /\ row'[i] = row[i]
    BY <1>1, <1>2, <1>4 DEF Kept
  <2> QED
    BY <1>1, <1>3, <2>1, FreshStays
<1>7. Ending'
  <2> SUFFICES ASSUME NEW d \in Client, client'[d].pc = "recording"
               PROVE  client'[d] = client[d]
    BY <1>1 DEF Ending
  <2>1. client'[c].pc # "recording"
    BY <1>1 DEF Kept, ClientRec
  <2> QED
    BY <1>3, <2>1 DEF Goes
<1>8. KeyIsJob'
  BY <1>1 DEF KeyIsJob, Unended
<1> QED
  BY <1>5, <1>6, <1>7, <1>8

\* A job that may be started now, or has ended before.
LEMMA AdmittedKeeps ==
    ASSUME KeyInv, NEW c \in Client, Admitted(c)
    PROVE  KeyInv'
<1> DEFINE j == client[c].id
<1> USE DEF KeyInv
<1>1. /\ UNCHANGED <<row, active, admitted>> /\ client[c].pc = "admitting"
      /\ UNCHANGED job \/ job' = [job EXCEPT ![j].persisted = TRUE]
      /\ \/ client' = [client EXCEPT ![c] = Idle]
         \/ client' = [client EXCEPT ![c].pc = "recording"] /\ ~Unended(j)
  <2>1. /\ UNCHANGED <<durable, active, admitted, row, agents, stopping, restarts>>
        /\ client[c].pc = "admitting"
    BY Zenon DEF Admitted, ClientAt
  <2>2. UNCHANGED job \/ job' = [job EXCEPT ![j].persisted = TRUE]
    BY Zenon DEF Admitted
  <2>3. \/ client' = [client EXCEPT ![c] = Idle]
        \/ client' = [client EXCEPT ![c].pc = "recording"] /\ ~Unended(j)
    <3>1. Answered(c)
      BY DEF Admitted
    <3> QED
      BY <3>1, Zenon DEF Answered, ClientGoes
  <2> QED
    BY <2>1, <2>2, <2>3
<1>2. j \in 1 .. admitted /\ j \in Id
  BY <1>1 DEF Fresh, Kept
<1>3. Goes(c)
  BY <1>1, GoesTyped
<1>4. /\ job' \in [Id -> JobRec]
      /\ \A i \in Id \ {j} : job'[i] = job[i]
      /\ \/ job'[j] = job[j]
         \/ /\ job'[j].key = job[j].key /\ job'[j].ended = job[j].ended
            /\ job'[j] # NoJob
  <2> DEFINE x == [job[j] EXCEPT !.persisted = TRUE]
  <2>1. job[j] \in JobRec
    BY <1>2 DEF Kept
  <2>2. /\ x \in JobRec /\ x.key = job[j].key /\ x.ended = job[j].ended
        /\ x # NoJob
    BY <2>1, JobKinds
  <2>3. UNCHANGED job \/ job' = [job EXCEPT ![j] = x]
    BY <1>1
  <2> HIDE DEF x
  <2> QED
    BY <1>2, <2>2, <2>3 DEF Kept
<1>5. Kept'
  BY <1>1, <1>3, <1>4 DEF Kept, Goes
<1>6. Fresh'
  <2>1. \A i \in Id : i > admitted => job'[i] = job[i] /\ row'[i] = row[i]
    BY <1>1, <1>2, <1>4 DEF Kept
  <2> QED
    BY <1>1, <1>3, <2>1, FreshStays
<1>7. \A k \in Key : active[k] = j => Unended(j)
  BY <1>2 DEF KeyIsJob
<1>8. Ending'
  <2> SUFFICES ASSUME NEW d \in Client, NEW k \in Key,
                      client'[d].pc = "recording"
               PROVE  active[k] # client'[d].id
    BY <1>1 DEF Ending
  <2>1. CASE d = c
    BY <1>1, <1>3, <1>7, <2>1 DEF Goes, Kept, ClientRec, Idle
  <2>2. CASE d # c
    BY <1>3, <2>2 DEF Goes, Ending
  <2> QED
    BY <2>1, <2>2
<1>9. KeyIsJob'
  <2> SUFFICES ASSUME NEW k \in Key, NEW i \in Id
               PROVE  (Unended(i) /\ job[i].key = k)' <=> active[k] = i
    BY <1>1 DEF KeyIsJob
  <2>1. Unended(i) /\ job[i].key = k <=> active[k] = i
    BY DEF KeyIsJob
  <2>2. job[i] = NoJob => job[i].key # k
    BY DEF NoJob
  <2> QED
    BY <1>4, <2>1, <2>2 DEF Unended
<1> QED
  BY <1>5, <1>6, <1>8, <1>9

\* A job that is withdrawn, and one whose end its request records: whatever
\* key named it, none does now, and no other's is touched.
LEMMA WithdrawnKeeps ==
    ASSUME KeyInv, NEW c \in Client, Abandon(c) \/ RecordEnd(c)
    PROVE  KeyInv'
<1> DEFINE j == client[c].id
<1> USE DEF KeyInv
<1>1. /\ UNCHANGED admitted /\ client[c].pc # "idle"
      /\ job' = [job EXCEPT ![j] = NoJob]
      /\ client' = [client EXCEPT ![c] = Idle]
      /\ \/ UNCHANGED row
         \/ row' = [row EXCEPT ![j] = FinishRow(@)]
      /\ \/ active' = [k \in Key |-> IF active[k] = j THEN None ELSE active[k]]
         \/ UNCHANGED active /\ client[c].pc = "recording"
  BY DEF Abandon, RecordEnd, ClientAt, Recorded
<1>2. j \in 1 .. admitted /\ j \in Id
  BY <1>1 DEF Fresh, Kept
<1>3. Goes(c)
  BY <1>1, GoesTyped
<1>4. /\ job' \in [Id -> JobRec] /\ job'[j] = NoJob
      /\ \A i \in Id \ {j} : job'[i] = job[i]
  BY <1>1, <1>2, NoJobKind DEF Kept
<1>5. /\ row' \in [Id -> RowRec]
      /\ \A i \in Id \ {j} : row'[i] = row[i]
  <2>1. FinishRow(row[j]) \in RowRec
    BY <1>2, EndedRowKind DEF Kept, FinishRow
  <2> QED
    BY <1>1, <1>2, <2>1 DEF Kept
<1>6. ASSUME NEW k \in Key
      PROVE  active'[k] = IF active[k] = j THEN None ELSE active[k]
  BY <1>1 DEF Ending
<1>7. active' \in [Key -> Id \cup {None}]
  BY <1>1 DEF Kept
<1>8. Kept'
  BY <1>1, <1>3, <1>4, <1>5, <1>7 DEF Kept, Goes
<1>9. Fresh'
  <2>1. \A i \in Id : i > admitted => job'[i] = job[i] /\ row'[i] = row[i]
    BY <1>2, <1>4, <1>5 DEF Kept
  <2> QED
    BY <1>1, <1>3, <2>1, FreshStays
<1>10. Ending'
  <2>1. client'[c].pc # "recording"
    BY <1>1 DEF Kept, Idle
  <2> QED
    BY <1>1, <1>3, <1>6, <2>1, EndingStays
<1>11. KeyIsJob'
  <2> SUFFICES ASSUME NEW k \in Key, NEW i \in Id
               PROVE  (Unended(i) /\ job[i].key = k)' <=> active'[k] = i
    BY DEF KeyIsJob
  <2>1. Unended(i) /\ job[i].key = k <=> active[k] = i
    BY DEF KeyIsJob
  <2> QED
    BY <1>4, <1>6, <2>1 DEF Unended
<1> QED
  BY <1>8, <1>9, <1>10, <1>11

\* While no request moves, keys are only given up, and jobs stay as unknown
\* as they are, numbers and recorded ends stay.
LEMMA RequestsStay ==
    ASSUME KeyInv, UNCHANGED <<client, admitted>>,
           \A j \in Id : ~Unended(j) => ~Unended(j)',
           \A j \in Id : ~IsLive(row[j]) => ~IsLive(row'[j]),
           \A k \in Key : active'[k] = active[k] \/ active'[k] = None
    PROVE  Fresh' /\ Ending'
<1> USE DEF KeyInv
<1>1. Fresh'
  BY DEF Fresh, IsLive
<1>2. Ending'
  <2> SUFFICES ASSUME NEW d \in Client, NEW k \in Key,
                      client[d].pc = "recording"
               PROVE  active'[k] # client[d].id
    BY DEF Ending
  <2>1. client[d].id # None /\ active[k] # client[d].id
    BY DEF Fresh, Ending
  <2> QED
    BY <2>1
<1> QED
  BY <1>1, <1>2

\* Two writings of one rule.
LEMMA FreedIs ==
    ASSUME KeyInv, NEW j \in Id, active' = KeyFreed(j)
    PROVE  \A k \in Key : active'[k] = active[k] \/ active'[k] = None
  BY DEF KeyFreed, KeyInv, Kept

LEMMA RecordedIs ==
    ASSUME KeyInv, NEW j \in Id, Recorded(j)
    PROVE  /\ row' \in [Id -> RowRec]
           /\ \A i \in Id : ~IsLive(row[i]) => ~IsLive(row'[i])
<1>1. FinishRow(row[j]) \in RowRec /\ ~IsLive(FinishRow(row[j]))
  BY EndedRowKind DEF KeyInv, Kept, FinishRow
<1>2. row' = [row EXCEPT ![j] = FinishRow(row[j])]
  BY DEF Recorded
<1> HIDE DEF FinishRow
<1>3. ASSUME NEW i \in Id
      PROVE  row'[i] = row[i] \/ row'[i] = FinishRow(row[j])
  BY <1>2 DEF KeyInv, Kept
<1> QED
  BY <1>1, <1>2, <1>3 DEF KeyInv, Kept, IsLive

\* A function is what it was when nothing of its domain is changed.
LEMMA OutsideStays ==
    ASSUME NEW S, NEW T, NEW f \in [S -> T], NEW j, j \notin S
    PROVE  \A x : [f EXCEPT ![j] = x] = f
  OBVIOUS

\* The steps of a slot.
LEMMA SlotKeeps ==
    ASSUME KeyInv, NEW s \in Slot,
           Leased(s) \/ RunEnds(s) \/ RunRequeued(s) \/ RunLeft(s)
    PROVE  KeyInv'
<1> DEFINE j == running[s]
<1> USE DEF KeyInv
<1>0. CASE j \notin Id
  <2>1. j # None /\ UNCHANGED <<admitted, client>>
    BY DEF Leased, RunEnds, RunRequeued, RunLeft, registry
  <2>2. UNCHANGED row
    <3>1. row \in [Id -> RowRec]
      BY DEF Kept
    <3>2. \A x : [row EXCEPT ![j] = x] = row
      BY <1>0, <3>1, OutsideStays
    <3>3. UNCHANGED row \/ \E x : row' = [row EXCEPT ![j] = x]
      BY DEF Leased, RunEnds, RunRequeued, RunLeft, Recorded
    <3> QED
      BY <3>2, <3>3
  <2>3. UNCHANGED job
    <3>1. job \in [Id -> JobRec]
      BY DEF Kept
    <3>2. \A x : [job EXCEPT ![j] = x] = job
      BY <1>0, <3>1, OutsideStays
    <3>3. UNCHANGED job \/ \E x : job' = [job EXCEPT ![j] = x]
      BY DEF Leased, RunEnds, RunRequeued, RunLeft, registry
    <3> QED
      BY <3>2, <3>3
  <2>4. UNCHANGED active
    <3>1. KeyFreed(j) = active
      BY <1>0, <2>1 DEF KeyFreed, Kept
    <3> QED
      BY <3>1 DEF Leased, RunEnds, RunRequeued, RunLeft, registry
  <2> QED
    BY <2>1, <2>2, <2>3, <2>4
       DEF Kept, Fresh, Ending, KeyIsJob, Unended, IsLive
<1> SUFFICES ASSUME j \in Id
             PROVE  KeyInv'
  BY <1>0
<1>1. CASE Leased(s)
  <2>1. /\ row' = [row EXCEPT ![j].status = "leased"] /\ IsLive(row[j])
        /\ UNCHANGED <<job, active, admitted, client>>
    BY <1>1 DEF Leased, registry, IsLive
  <2>2. /\ row' \in [Id -> RowRec]
        /\ \A i \in Id : ~IsLive(row[i]) => ~IsLive(row'[i])
    BY <2>1 DEF Kept, RowRec
  <2>3. Kept' /\ KeyIsJob'
    BY <2>1, <2>2 DEF Kept, KeyIsJob, Unended
  <2> QED
    BY <2>1, <2>2, <2>3, RequestsStay DEF Unended
<1>2. CASE RunEnds(s)
  <2>1. /\ job' = [job EXCEPT ![j] = NoJob] /\ active' = KeyFreed(j)
        /\ Recorded(j) /\ UNCHANGED <<admitted, client>>
    BY <1>2, Zenon DEF RunEnds
  <2>2. KeyIsJob' /\ job' \in [Id -> JobRec] /\ active' \in [Key -> Id \cup {None}]
    BY <2>1, KeyGivenUp
  <2>3. \A i \in Id : ~Unended(i) => ~Unended(i)'
    BY <2>1 DEF Kept, Unended
  <2>4. Fresh' /\ Ending'
    BY <2>1, <2>3, FreedIs, RecordedIs, RequestsStay
  <2>5. Kept'
    BY <2>1, <2>2, RecordedIs DEF Kept
  <2> QED
    BY <2>2, <2>4, <2>5
<1>3. CASE RunRequeued(s)
  <2>1. PICK class \in job[j].class .. MaxClass :
          /\ row' = [row EXCEPT ![j].status = "queued", ![j].class = class]
          /\ job' = [job EXCEPT ![j].class = class, ![j].again = TRUE]
    BY <1>3, Zenon DEF RunRequeued
  <2>2. /\ Unended(j) /\ IsLive(row[j])
        /\ UNCHANGED <<active, admitted, client>>
    BY <1>3, Zenon DEF RunRequeued
  <2>3. class \in Class
    BY <2>1 DEF Kept, JobRec, Class
  <2>4. PICK x, r : /\ x = [job[j] EXCEPT !.class = class, !.again = TRUE]
                    /\ r = [row[j] EXCEPT !.status = "queued", !.class = class]
    OBVIOUS
  <2>5. /\ x \in JobRec /\ x.key = job[j].key /\ x.ended = job[j].ended
        /\ x # NoJob /\ r \in RowRec
    <3>1. job[j] \in JobRec /\ row[j] \in RowRec
      BY DEF Kept
    <3> QED
      BY <2>3, <2>4, <3>1, MovedKinds
  <2>7. job' = [job EXCEPT ![j] = x] /\ row' = [row EXCEPT ![j] = r]
    BY <2>1, <2>4 DEF Kept
  <2>8. Fresh' /\ Ending'
    BY <2>2, <2>7, RequestsStay DEF Kept, Unended
  <2>9. Kept'
    BY <2>2, <2>5, <2>7 DEF Kept
  <2>10. KeyIsJob'
    BY <2>2, <2>5, <2>7 DEF Kept, KeyIsJob, Unended
  <2> QED
    BY <2>8, <2>9, <2>10
<1>4. CASE RunLeft(s)
  <2>1. UNCHANGED <<job, active, admitted, row, client>>
    BY <1>4, Zenon DEF RunLeft
  <2> QED
    BY <2>1 DEF Kept, Fresh, Ending, KeyIsJob, Unended, IsLive
<1> QED
  BY <1>1, <1>2, <1>3, <1>4

\* The steps of the users and of the process, but for its restart.
LEMMA OthersKeep ==
    ASSUME KeyInv,
           \/ \E j \in Id : CancelJob(j)
           \/ \E c \in Class : AgentsMove(c)
           \/ AgentsChanged \/ Shutdown
    PROVE  KeyInv'
<1> USE DEF KeyInv
<1>1. ASSUME NEW j \in Id, CancelJob(j)
      PROVE  KeyInv'
  <2>1. /\ active' = KeyFreed(j) /\ Recorded(j) /\ UNCHANGED <<admitted, client>>
        /\ Unended(j)
    BY <1>1, Zenon DEF CancelJob
  <2>2. \/ job' = [job EXCEPT ![j] = NoJob]
        \/ job' = [job EXCEPT ![j] = [@ EXCEPT !.ended = TRUE]]
    BY <1>1 DEF CancelJob, Over
  <2>3. KeyIsJob' /\ job' \in [Id -> JobRec] /\ active' \in [Key -> Id \cup {None}]
    BY <2>1, <2>2, KeyGivenUp
  <2>4. \A i \in Id : ~Unended(i) => ~Unended(i)'
    BY <2>1, <2>2 DEF Kept, Unended
  <2>5. Fresh' /\ Ending'
    BY <2>1, <2>4, FreedIs, RecordedIs, RequestsStay
  <2>6. Kept'
    BY <2>1, <2>3, RecordedIs DEF Kept
  <2> QED
    BY <2>3, <2>5, <2>6
<1>2. CASE AgentsChanged \/ \E c \in Class : AgentsMove(c)
  <2>1. UNCHANGED <<job, active, admitted, row, client>>
    BY <1>2 DEF AgentsChanged, AgentsMove, registry
  <2> QED
    BY <2>1 DEF Kept, Fresh, Ending, KeyIsJob, Unended, IsLive
<1>3. CASE Shutdown
  <2>1. /\ UNCHANGED <<admitted, row, client>>
        /\ \/ UNCHANGED <<job, active, queue>>
           \/ /\ job' = [j \in Id |-> IF InSlot(j) THEN [job[j] EXCEPT !.ended = TRUE]
                                      ELSE NoJob]
              /\ active' = [k \in Key |-> None]
    BY <1>3, Zenon DEF Shutdown
  <2>2. CASE UNCHANGED <<job, active, queue>>
    BY <2>1, <2>2 DEF Kept, Fresh, Ending, KeyIsJob, Unended, IsLive
  <2>3. ASSUME job' = [j \in Id |-> IF InSlot(j) THEN [job[j] EXCEPT !.ended = TRUE]
                                    ELSE NoJob],
               active' = [k \in Key |-> None]
        PROVE  KeyInv'
    <3>1. ASSUME NEW j \in Id
          PROVE  job'[j] \in JobRec /\ (job'[j] = NoJob \/ job'[j].ended)
      BY <2>3, JobKinds, NoJobKind DEF Kept
    <3>2. Kept'
      BY <2>1, <2>3, <3>1 DEF Kept
    <3>3. \A j \in Id : ~Unended(j)'
      BY <3>1 DEF Unended
    <3>4. Fresh' /\ Ending'
      BY <2>1, <2>3, <3>3, RequestsStay
    <3>5. KeyIsJob'
      BY <2>3, <3>3 DEF KeyIsJob
    <3> QED
      BY <3>2, <3>4, <3>5
  <2> QED
    BY <2>1, <2>2, <2>3
<1> QED
  BY <1>1, <1>2, <1>3

\* The next process takes the live rows for its jobs, one of each key.
LEMMA RestartKeeps ==
    ASSUME KeyInv, Restart
    PROVE  KeyInv'
<1> USE DEF KeyInv
<1>1. /\ UNCHANGED <<durable, admitted>>
      /\ client' = [c \in Client |-> Idle]
      /\ job' = [j \in Id |->
                   IF j \in Reloaded
                   THEN [NoJob EXCEPT !.key = row[j].key,
                                      !.class = row[j].class,
                                      !.persisted = TRUE,
                                      !.again = job[j].again]
                   ELSE NoJob]
      /\ active' = [k \in Key |->
                      LET of == {j \in Reloaded : row[j].key = k}
                      IN  IF of = {} THEN None ELSE Min(of)]
  BY Zenon DEF Restart
<1>2. PICK back : row' = [j \in Id |->
                 IF ~IsLive(row[j]) THEN row[j]
                 ELSE IF j \notin Reloaded THEN EndedRow
                 ELSE IF \E c \in Class : j \in ToSet(back.queue[c])
                 THEN [row[j] EXCEPT !.status = "queued"] ELSE row[j]]
  BY Zenon DEF Restart
<1>3. \A j \in Reloaded : j \in Id /\ IsLive(row[j])
  BY DEF Reloaded
<1>4. ASSUME NEW j \in Id
      PROVE  /\ job'[j] \in JobRec
             /\ Unended(j)' <=> j \in Reloaded
             /\ j \in Reloaded => job'[j].key = row[j].key
  <2>1. job[j] \in JobRec /\ row[j] \in RowRec
    BY DEF Kept
  <2>2. CASE j \in Reloaded
    <3>1. job'[j] = [NoJob EXCEPT !.key = row[j].key, !.class = row[j].class,
                                  !.persisted = TRUE, !.again = job[j].again]
      BY <1>1, <2>2
    <3>2. /\ row[j].key \in Key \cup {"none"} /\ row[j].class \in Class
          /\ job[j].again \in BOOLEAN
      BY <2>1 DEF JobRec, RowRec
    <3>3. job'[j] = [key |-> row[j].key, class |-> row[j].class,
                     persisted |-> TRUE, again |-> job[j].again,
                     ended |-> FALSE]
      BY <3>1 DEF NoJob
    <3>4. job'[j] \in JobRec /\ job'[j] # NoJob
      BY <3>2, <3>3 DEF JobRec, NoJob
    <3> QED
      BY <2>2, <3>3, <3>4 DEF Unended
  <2>3. CASE j \notin Reloaded
    BY <1>1, <2>3, NoJobKind DEF Unended
  <2> QED
    BY <2>2, <2>3
<1>5. ASSUME NEW j \in Id
      PROVE  row'[j] \in RowRec /\ (IsLive(row'[j]) => IsLive(row[j]))
  <2>1. row[j] \in RowRec
    BY DEF Kept
  <2>2. [row[j] EXCEPT !.status = "queued"] \in RowRec
    BY <2>1 DEF RowRec
  <2>3. row'[j] \in {row[j], EndedRow, [row[j] EXCEPT !.status = "queued"]}
        /\ (~IsLive(row[j]) => row'[j] = row[j])
    BY <1>2
  <2> QED
    BY <2>1, <2>2, <2>3, EndedRowKind
<1>6. ASSUME NEW i \in Reloaded, NEW j \in Reloaded, row[i].key = row[j].key
      PROVE  i = j
  BY <1>6 DEF Reloaded
<1>7. ASSUME NEW k \in Key
      PROVE  /\ active'[k] \in Id \cup {None}
             /\ \A j \in Id : active'[k] = j <=> j \in Reloaded /\ row[j].key = k
  <2> DEFINE of == {j \in Reloaded : row[j].key = k}
  <2>1. active'[k] = IF of = {} THEN None ELSE Min(of)
    BY <1>1
  <2>2. CASE of = {}
    BY <2>1, <2>2
  <2>3. ASSUME NEW i \in of
        PROVE  active'[k] = i
    <3>1. of = {i}
      BY <1>6, <2>3
    <3>2. Min({i}) = i
      BY <1>3, <2>3, LeastOf
    <3> QED
      BY <2>1, <3>1, <3>2
  <2> QED
    BY <1>3, <2>2, <2>3
<1>8. Kept'
  <2>1. /\ job' \in [Id -> JobRec] /\ row' \in [Id -> RowRec]
        /\ active' \in [Key -> Id \cup {None}]
    BY <1>1, <1>2, <1>4, <1>5, <1>7
  <2>2. client' \in [Client -> ClientRec]
    BY <1>1 DEF Idle, ClientRec
  <2> QED
    BY <1>1, <2>1, <2>2 DEF Kept
<1>9. Fresh' /\ Ending'
  <2>1. \A c \in Client : client'[c].pc = "idle"
    BY <1>1 DEF Idle
  <2>2. \A j \in Id : j > admitted => ~Unended(j)' /\ ~IsLive(row'[j])
    BY <1>3, <1>4, <1>5 DEF Fresh
  <2> QED
    BY <1>1, <2>1, <2>2 DEF Fresh, Ending, IsLive
<1>10. KeyIsJob'
  <2> SUFFICES ASSUME NEW k \in Key, NEW j \in Id
               PROVE  (Unended(j) /\ job[j].key = k)' <=> active'[k] = j
    BY DEF KeyIsJob
  <2> QED
    BY <1>4, <1>7
<1> QED
  BY <1>8, <1>9, <1>10

-----------------------------------------------------------------------------

LEMMA KeyStep == KeyInv /\ [Next]_vars => KeyInv'
<1> SUFFICES ASSUME KeyInv, [Next]_vars PROVE KeyInv'
  OBVIOUS
<1>1. CASE UNCHANGED vars
  BY <1>1 DEF vars, registry, KeyInv, Kept, Fresh, Ending, KeyIsJob, Unended,
              IsLive
<1>2. ASSUME NEW c \in Client, Persist(c) \/ \E k \in Key : Admit(c, k)
      PROVE  KeyInv'
  BY <1>2, AdmitKeeps, InsertKeeps, AdmittedKeeps, WithdrawnKeeps DEF Persist
<1>3. ASSUME NEW s \in Slot,
             Leased(s) \/ RunEnds(s) \/ RunRequeued(s) \/ RunLeft(s)
      PROVE  KeyInv'
  BY <1>3, SlotKeeps
<1> QED
  BY <1>1, <1>2, <1>3, OthersKeep, RestartKeeps DEF Next

LEMMA KeyInit == Init => KeyInv
<1> SUFFICES ASSUME Init PROVE KeyInv
  OBVIOUS
<1>1. Kept
  <2>1. NoRow \in RowRec /\ Idle \in ClientRec
    BY ScheduleAssumption DEF NoRow, RowRec, Idle, ClientRec, Class
  <2> QED
    BY <2>1, NoJobKind DEF Init, Kept
<1>2. Fresh /\ Ending
  BY DEF Init, Fresh, Ending, Unended, IsLive, NoRow, Idle
<1>3. KeyIsJob
  BY DEF Init, KeyIsJob, Unended
<1> QED
  BY <1>1, <1>2, <1>3 DEF KeyInv

\* The inductive invariant of the dedup keys.
THEOREM KeyInvariant == Spec => []KeyInv
  BY KeyInit, KeyStep, PTL DEF Spec

\* admit, cancel_job, abandon, worker_loop and restore: whoever ends, withdraws,
\* re-queues or restores a job, in whatever order, a repository's key names the
\* one job of it that has not ended.  Two jobs of a repository are never live at
\* once, and none is refused for one that is over.
THEOREM KeysAreJobs == Spec => []KeyIsJob
<1>1. KeyInv => KeyIsJob
  BY DEF KeyInv
<1> QED
  BY <1>1, KeyInvariant, PTL

-----------------------------------------------------------------------------
\* The slots, and the folds over them.

\* worker_classes as a run: the slots of the classes below k, class by class.
LEMMA SlotRun ==
    \E h \in [0 .. MaxClass + 1 -> Seq(Class)] :
      /\ h[0] = <<>> /\ h[MaxClass + 1] = SlotClass
      /\ \A k \in 1 .. MaxClass + 1 :
           h[k] = h[k - 1] \o [i \in 1 .. Slots[k - 1] |-> k - 1]
<1> DEFINE n == MaxClass + 1
           D == DOMAIN ClassSeq
           of(c) == [i \in 1 .. Slots[c] |-> c]
           T == Seq(Class)
           op == [k \in 1 .. n |-> [all \in T |-> all \o of(k - 1)]]
           iter[S \in SUBSET D] ==
             IF S = {} THEN <<>>
             ELSE LET x == Max(S) IN iter[S \ {x}] \o of(ClassSeq[x])
<1>1. SlotClass = iter[D]
  BY Zenon DEF SlotClass, FoldLeft, MapThenFoldSet
<1>2. n \in Nat /\ D = 1 .. n /\ \A k \in 1 .. n : ClassSeq[k] = k - 1
  BY ScheduleAssumption DEF ClassSeq
<1>3. ASSUME NEW k \in 1 .. n
      PROVE  of(k - 1) \in T
  <2>1. k - 1 \in Class /\ Slots[k - 1] \in Nat
    BY <1>2, ScheduleAssumption DEF Class
  <2> QED
    BY <2>1
<1>4. op \in [1 .. n -> [T -> T]] /\ <<>> \in T
  <2>1. ASSUME NEW k \in 1 .. n, NEW all \in T
        PROVE  all \o of(k - 1) \in T
    <3>1. of(k - 1) \in T
      BY <1>3
    <3> HIDE DEF of
    <3> QED
      BY <3>1, ConcatIs
  <2> HIDE DEF of
  <2> QED
    BY <2>1
<1>5. PICK g \in [SUBSET (1 .. n) -> T] : FoldOf(g, n, <<>>, op)
  <2>1. n \in Nat
    BY <1>2
  <2> HIDE DEF op, T, n, of, iter, D
  <2> QED
    BY <1>4, <2>1, FoldsExist
<1>6. ASSUME NEW S \in SUBSET (1 .. n), S # {}
      PROVE  Max(S) \in 1 .. n
  <2>1. S \subseteq 0 .. n
    BY <1>2
  <2> HIDE DEF n
  <2> QED
    BY <1>2, <1>6, <2>1, GreatestOf
<1>7. g = [S \in SUBSET D |->
             IF S = {} THEN <<>>
             ELSE LET x == Max(S) IN g[S \ {x}] \o of(ClassSeq[x])]
  <2>1. ASSUME NEW S \in SUBSET (1 .. n), S # {}
        PROVE  g[S] = g[S \ {Max(S)}] \o of(ClassSeq[Max(S)])
    <3>1. Max(S) \in 1 .. n /\ g[S \ {Max(S)}] \in T
      BY <1>6, <2>1
    <3>2. op[Max(S)][g[S \ {Max(S)}]] = g[S \ {Max(S)}] \o of(Max(S) - 1)
      <4> HIDE DEF of, T, n
      <4> QED
        BY <3>1
    <3> HIDE DEF of, T, n, op
    <3> QED
      BY <1>2, <1>5, <2>1, <3>1, <3>2 DEF FoldOf
  <2>2. g[{}] = <<>>
    BY <1>5 DEF FoldOf
  <2> HIDE DEF of, T, n, op, D
  <2> QED
    BY <1>2, <2>1, <2>2
<1>8. iter = [S \in SUBSET D |->
                IF S = {} THEN <<>>
                ELSE LET x == Max(S) IN iter[S \ {x}] \o of(ClassSeq[x])]
  <2> HIDE DEF of, T, n, op, D
  <2> QED
    BY <1>7
<1>9. StepsOf(iter, n, T, op)
  <2> SUFFICES ASSUME NEW S \in SUBSET (1 .. n), S # {}, iter[S \ {Max(S)}] \in T
               PROVE  iter[S] = op[Max(S)][iter[S \ {Max(S)}]]
    BY DEF StepsOf
  <2>1. Max(S) \in 1 .. n
    BY <1>6
  <2> HIDE DEF iter, of, T, n, D
  <2> QED
    BY <1>2, <1>8, <2>1
<1>10. PICK h \in [0 .. n -> T] : h[n] = iter[1 .. n] /\ RunOf(h, n, <<>>, op)
  <2> HIDE DEF of, T, n, D, op
  <2>1. DOMAIN iter = SUBSET (1 .. n) /\ iter[{}] = <<>>
    BY <1>2, <1>8
  <2> HIDE DEF iter
  <2> QED
    BY <1>2, <1>4, <1>9, <2>1, FoldRuns
<1>11. ASSUME NEW k \in 1 .. n
       PROVE  h[k] = h[k - 1] \o of(k - 1)
  <2>1. k - 1 \in 0 .. n
    BY <1>2
  <2> HIDE DEF of, n, T, iter
  <2> QED
    BY <1>10, <2>1 DEF RunOf
<1> HIDE DEF iter, op
<1> QED
  BY <1>1, <1>2, <1>10, <1>11 DEF RunOf

\* The slots are numbered from 1, smallest class first.
LEMMA SlotsAre ==
    \E n \in Nat : /\ Slot = 1 .. n /\ SlotClass \in [1 .. n -> Class]
                   /\ \A s, t \in 1 .. n : s < t => SlotClass[s] <= SlotClass[t]
<1> DEFINE m == MaxClass + 1
<1>1. PICK h \in [0 .. m -> Seq(Class)] :
        /\ h[0] = <<>> /\ h[m] = SlotClass
        /\ \A k \in 1 .. m : h[k] = h[k - 1] \o [i \in 1 .. Slots[k - 1] |-> k - 1]
  BY SlotRun
<1>2. m \in Nat
  BY ScheduleAssumption
<1> DEFINE Ascends(k) ==
             /\ \A s \in 1 .. Len(h[k]) : h[k][s] < k
             /\ \A s, t \in 1 .. Len(h[k]) : s < t => h[k][s] <= h[k][t]
           Good == {k \in 0 .. m : Ascends(k)}
<1> HIDE DEF m
<1>3. 0 \in Good
  <2>1. Len(h[0]) = 0 /\ 0 \in 0 .. m
    BY <1>1, <1>2
  <2> QED
    BY <2>1
<1>4. ASSUME NEW k \in 0 .. m - 1, k \in Good
      PROVE  k + 1 \in Good
  <2> DEFINE p == h[k]
             of == [i \in 1 .. Slots[k] |-> k]
             q == p \o of
  <2>1. k \in Class /\ Slots[k] \in Nat
    BY <1>2, ScheduleAssumption DEF Class, m
  <2>2. of \in Seq(Class) /\ Len(of) = Slots[k]
        /\ \A s \in 1 .. Len(of) : of[s] = k
    BY <2>1
  <2>3. k + 1 \in 1 .. m /\ (k + 1) - 1 = k /\ k \in 0 .. m
    BY <1>2
  <2>4. h[k + 1] = q /\ p \in Seq(Class)
    BY <1>1, <2>3
  <2>5. Ascends(k)
    BY <1>4
  <2>6. /\ \A s \in 1 .. Len(p) : p[s] < k /\ p[s] \in Nat
        /\ \A s, t \in 1 .. Len(p) : s < t => p[s] <= p[t]
    <3>1. \A s \in 1 .. Len(p) : p[s] \in Class
      BY <2>4
    <3> QED
      BY <2>5, <3>1 DEF Class
  <2> HIDE DEF p, of
  <2>7. /\ q \in Seq(Class) /\ Len(q) = Len(p) + Len(of)
        /\ \A n \in 1 .. Len(p) : q[n] = p[n]
        /\ \A n \in 1 .. Len(of) : q[Len(p) + n] = of[n]
    <3> HIDE DEF Good, Ascends
    <3>1. p \in Seq(Class) /\ of \in Seq(Class)
      BY <2>2, <2>4
    <3> QED
      BY <3>1, ConcatIs
  <2>8. ASSUME NEW s \in 1 .. Len(q)
        PROVE  \/ s <= Len(p) /\ q[s] = p[s]
               \/ s > Len(p) /\ q[s] = k
    <3>1. Len(p) \in Nat /\ Len(of) \in Nat
      BY <2>2, <2>4
    <3>2. CASE s <= Len(p)
      BY <2>7, <3>1, <3>2
    <3>3. CASE s > Len(p)
      <4>1. s - Len(p) \in 1 .. Len(of) /\ Len(p) + (s - Len(p)) = s
        BY <2>7, <3>1, <3>3
      <4> QED
        BY <2>2, <2>7, <3>3, <4>1
    <3> QED
      BY <3>1, <3>2, <3>3
  <2> HIDE DEF q
  <2>9. \A s \in 1 .. Len(q) : q[s] < k + 1
    <3>1. ASSUME NEW s \in 1 .. Len(q)
          PROVE  q[s] < k + 1
      <4>1. CASE s <= Len(p) /\ q[s] = p[s]
        <5>1. s \in 1 .. Len(p)
          BY <4>1, <2>4
        <5> QED
          BY <2>6, <4>1, <5>1
      <4> QED
        BY <2>8, <4>1
    <3> QED
      BY <3>1
  <2>10. \A s, t \in 1 .. Len(q) : s < t => q[s] <= q[t]
    <3>1. ASSUME NEW s \in 1 .. Len(q), NEW t \in 1 .. Len(q), s < t
          PROVE  q[s] <= q[t]
      <4>1. CASE t <= Len(p) /\ q[t] = p[t]
        <5>1. s \in 1 .. Len(p) /\ t \in 1 .. Len(p) /\ q[s] = p[s]
          BY <2>4, <2>8, <3>1, <4>1
        <5> QED
          BY <2>6, <3>1, <4>1, <5>1
      <4>2. CASE t > Len(p) /\ q[t] = k
        <5>1. q[s] < k + 1
          BY <2>9
        <5>2. q[s] \in Class
          BY <2>7
        <5> QED
          BY <4>2, <5>1, <5>2 DEF Class
      <4> QED
        BY <2>8, <4>1, <4>2
    <3> QED
      BY <3>1
  <2>11. Ascends(k + 1)
    BY <2>4, <2>9, <2>10
  <2>12. k + 1 \in 0 .. m
    BY <2>3
  <2> HIDE DEF Ascends
  <2> QED
    BY <2>11, <2>12
<1>5. m \in Good
  <2> HIDE DEF Good
  <2>1. 0 .. m \subseteq Good
    BY <1>2, <1>3, <1>4, UpTo
  <2>2. m \in 0 .. m
    BY <1>2
  <2> QED
    BY <2>1, <2>2
<1>6. SlotClass \in Seq(Class)
  BY <1>1, <1>2
<1>7. \A s, t \in 1 .. Len(SlotClass) : s < t => SlotClass[s] <= SlotClass[t]
  BY <1>1, <1>5
<1>8. Len(SlotClass) \in Nat /\ Slot = 1 .. Len(SlotClass)
      /\ SlotClass \in [1 .. Len(SlotClass) -> Class]
  BY <1>6 DEF Slot
<1> QED
  BY <1>7, <1>8

\* h is dispatch_idle as a run.
RoundOf(h, n, at, jobs, up) ==
    /\ Slot = 1 .. n /\ h[0] = at
    /\ h[n] = DispatchIdle(at, jobs, up)
    /\ \A k \in 1 .. n : h[k] = TakeNext(k, h[k - 1], jobs, up)

\* dispatch_idle as a run: the slots look for a job one after the other.
LEMMA DispatchRuns ==
    ASSUME NEW T, NEW at \in T, NEW jobs, NEW up,
           \A x \in T : \A k \in Slot : TakeNext(k, x, jobs, up) \in T
    PROVE  \E n \in Nat : \E h \in [0 .. n -> T] : RoundOf(h, n, at, jobs, up)
<1>1. PICK n \in Nat : Slot = 1 .. n
  BY SlotsAre
<1> DEFINE seq == [k \in Slot |-> k]
           D == DOMAIN seq
           op == [k \in 1 .. n |-> [x \in T |-> TakeNext(k, x, jobs, up)]]
           iter[S \in SUBSET D] ==
             IF S = {} THEN at
             ELSE LET x == Max(S) IN TakeNext(seq[x], iter[S \ {x}], jobs, up)
<1>2. DispatchIdle(at, jobs, up) = iter[D]
  BY Zenon DEF DispatchIdle, FoldLeft, MapThenFoldSet
<1>3. D = 1 .. n /\ \A k \in 1 .. n : seq[k] = k
  BY <1>1
<1>4. op \in [1 .. n -> [T -> T]]
  BY <1>1
<1>5. PICK g \in [SUBSET (1 .. n) -> T] : FoldOf(g, n, at, op)
  <2> HIDE DEF op, iter, D
  <2> QED
    BY <1>1, <1>4, FoldsExist
<1>6. ASSUME NEW S \in SUBSET (1 .. n), S # {}
      PROVE  Max(S) \in 1 .. n
  <2>1. S \subseteq 0 .. n
    OBVIOUS
  <2> QED
    BY <1>1, <1>6, <2>1, GreatestOf
<1>7. g = [S \in SUBSET D |->
             IF S = {} THEN at
             ELSE LET x == Max(S) IN TakeNext(seq[x], g[S \ {x}], jobs, up)]
  <2>1. ASSUME NEW S \in SUBSET (1 .. n), S # {}
        PROVE  g[S] = TakeNext(seq[Max(S)], g[S \ {Max(S)}], jobs, up)
    <3>1. Max(S) \in 1 .. n /\ g[S \ {Max(S)}] \in T
      BY <1>6, <2>1
    <3>2. seq[Max(S)] = Max(S)
      BY <1>3, <3>1
    <3>3. op[Max(S)][g[S \ {Max(S)}]] = TakeNext(seq[Max(S)], g[S \ {Max(S)}], jobs, up)
      BY <3>1, <3>2
    <3> HIDE DEF op, seq
    <3> QED
      BY <1>5, <2>1, <3>3 DEF FoldOf
  <2>2. g[{}] = at
    BY <1>5 DEF FoldOf
  <2> HIDE DEF op, D, seq
  <2> QED
    BY <1>3, <2>1, <2>2
<1>8. iter = [S \in SUBSET D |->
                IF S = {} THEN at
                ELSE LET x == Max(S) IN TakeNext(seq[x], iter[S \ {x}], jobs, up)]
  <2> HIDE DEF op, D, seq
  <2> QED
    BY <1>7
<1>9. StepsOf(iter, n, T, op)
  <2> SUFFICES ASSUME NEW S \in SUBSET (1 .. n), S # {}, iter[S \ {Max(S)}] \in T
               PROVE  iter[S] = op[Max(S)][iter[S \ {Max(S)}]]
    BY DEF StepsOf
  <2>1. Max(S) \in 1 .. n /\ seq[Max(S)] = Max(S)
    BY <1>3, <1>6
  <2> HIDE DEF iter, D, seq
  <2> QED
    BY <1>3, <1>8, <2>1
<1>10. PICK h \in [0 .. n -> T] : h[n] = iter[1 .. n] /\ RunOf(h, n, at, op)
  <2> HIDE DEF D, op, seq
  <2>1. DOMAIN iter = SUBSET (1 .. n) /\ iter[{}] = at
    BY <1>3, <1>8
  <2> HIDE DEF iter
  <2> QED
    BY <1>1, <1>4, <1>9, <2>1, FoldRuns
<1>11. ASSUME NEW k \in 1 .. n
       PROVE  h[k] = TakeNext(k, h[k - 1], jobs, up)
  <2>1. k - 1 \in 0 .. n
    OBVIOUS
  <2>2. h[k - 1] \in T
    BY <2>1
  <2> HIDE DEF iter
  <2> QED
    BY <1>10, <2>2 DEF RunOf
<1> HIDE DEF iter, op
<1> QED
  BY <1>1, <1>2, <1>3, <1>10, <1>11 DEF RunOf, RoundOf

\* h is the restore of the table as a run.
ReloadOf(h, n) ==
    /\ Id = 1 .. n /\ h[0] = NoneHeld /\ h[n] = Restored
    /\ \A k \in 1 .. n : h[k] = RestoreRow(h[k - 1], k)

\* The restore of the table as a run: the rows in admission order.
LEMMA RestoreRuns ==
    ASSUME NEW T, NoneHeld \in T,
           \A x \in T : \A k \in Id : RestoreRow(x, k) \in T
    PROVE  \E n \in Nat : \E h \in [0 .. n -> T] : ReloadOf(h, n)
<1>1. PICK n \in Nat : Id = 1 .. n
  OBVIOUS
<1> DEFINE seq == [k \in Id |-> k]
           D == DOMAIN seq
           op == [k \in 1 .. n |-> [x \in T |-> RestoreRow(x, k)]]
           iter[S \in SUBSET D] ==
             IF S = {} THEN NoneHeld
             ELSE LET x == Max(S) IN RestoreRow(iter[S \ {x}], seq[x])
<1>2. Restored = iter[D]
  BY Zenon DEF Restored, FoldLeft, MapThenFoldSet
<1>3. D = 1 .. n /\ \A k \in 1 .. n : seq[k] = k
  BY <1>1
<1>4. op \in [1 .. n -> [T -> T]]
  BY <1>1
<1>5. PICK g \in [SUBSET (1 .. n) -> T] : FoldOf(g, n, NoneHeld, op)
  <2> HIDE DEF op, iter, D
  <2> QED
    BY <1>1, <1>4, FoldsExist
<1>6. ASSUME NEW S \in SUBSET (1 .. n), S # {}
      PROVE  Max(S) \in 1 .. n
  <2>1. S \subseteq 0 .. n
    OBVIOUS
  <2> QED
    BY <1>1, <1>6, <2>1, GreatestOf
<1>7. g = [S \in SUBSET D |->
             IF S = {} THEN NoneHeld
             ELSE LET x == Max(S) IN RestoreRow(g[S \ {x}], seq[x])]
  <2>1. ASSUME NEW S \in SUBSET (1 .. n), S # {}
        PROVE  g[S] = RestoreRow(g[S \ {Max(S)}], seq[Max(S)])
    <3>1. Max(S) \in 1 .. n /\ g[S \ {Max(S)}] \in T
      BY <1>6, <2>1
    <3>2. seq[Max(S)] = Max(S)
      BY <1>3, <3>1
    <3>3. op[Max(S)][g[S \ {Max(S)}]] = RestoreRow(g[S \ {Max(S)}], seq[Max(S)])
      BY <3>1, <3>2
    <3> HIDE DEF op, seq
    <3> QED
      BY <1>5, <2>1, <3>3 DEF FoldOf
  <2>2. g[{}] = NoneHeld
    BY <1>5 DEF FoldOf
  <2> HIDE DEF op, D, seq
  <2> QED
    BY <1>3, <2>1, <2>2
<1>8. iter = [S \in SUBSET D |->
                IF S = {} THEN NoneHeld
                ELSE LET x == Max(S) IN RestoreRow(iter[S \ {x}], seq[x])]
  <2> HIDE DEF op, D, seq
  <2> QED
    BY <1>7
<1>9. StepsOf(iter, n, T, op)
  <2> SUFFICES ASSUME NEW S \in SUBSET (1 .. n), S # {}, iter[S \ {Max(S)}] \in T
               PROVE  iter[S] = op[Max(S)][iter[S \ {Max(S)}]]
    BY DEF StepsOf
  <2>1. Max(S) \in 1 .. n /\ seq[Max(S)] = Max(S)
    BY <1>3, <1>6
  <2> HIDE DEF iter, D, seq
  <2> QED
    BY <1>3, <1>8, <2>1
<1>10. PICK h \in [0 .. n -> T] : h[n] = iter[1 .. n] /\ RunOf(h, n, NoneHeld, op)
  <2> HIDE DEF D, op, seq
  <2>1. DOMAIN iter = SUBSET (1 .. n) /\ iter[{}] = NoneHeld
    BY <1>3, <1>8
  <2> HIDE DEF iter
  <2> QED
    BY <1>1, <1>4, <1>9, <2>1, FoldRuns
<1>11. ASSUME NEW k \in 1 .. n
       PROVE  h[k] = RestoreRow(h[k - 1], k)
  <2>1. k - 1 \in 0 .. n
    OBVIOUS
  <2>2. h[k - 1] \in T
    BY <2>1
  <2> HIDE DEF iter
  <2> QED
    BY <1>10, <2>2 DEF RunOf
<1> HIDE DEF iter, op
<1> QED
  BY <1>1, <1>2, <1>3, <1>10, <1>11 DEF RunOf, ReloadOf

-----------------------------------------------------------------------------
\* A job is in one place.

Places == [queue : [Class -> Seq(Id)], running : [Slot -> Id \cup {None}]]

\* Of the jobs `jobs`, those of queue q wait, in order, and are in no slot.
InOrder(c, q, r, jobs) ==
    \A n \in 1 .. Len(q) :
        /\ jobs[q[n]] # NoJob /\ ~jobs[q[n]].ended /\ jobs[q[n]].class = c
        /\ \A s \in Slot : r[s] # q[n]
        /\ \A m \in 1 .. n - 1 : q[m] < q[n]

Alone(r) == \A s, t \in Slot : r[s] = r[t] /\ r[s] # None => s = t

Placed(at, jobs) ==
    Alone(at.running)
    /\ \A c \in Class : InOrder(c, at.queue[c], at.running, jobs)

\* What was not in its slot of `was` had not ended, and was started before all
\* that wait in its class.
Started(at, was, jobs) ==
    \A s \in Slot :
        at.running[s] \notin {None, was[s]} =>
            /\ jobs[at.running[s]] # NoJob /\ ~jobs[at.running[s]].ended
            /\ jobs[at.running[s]].class \in Class
            /\ \A n \in 1 .. Len(at.queue[jobs[at.running[s]].class]) :
                 at.queue[jobs[at.running[s]].class][n] > at.running[s]

LEMMA SlotTyped ==
    \A s \in Slot : SlotClass[s] \in Class
  BY SlotsAre

\* The queue a slot takes from: its own, or a smaller class's if its own and
\* those between are empty.
LEMMA NextForIs ==
    ASSUME NEW c \in Class, NEW q
    PROVE  /\ NextFor(c, q) = NoClass <=> \A d \in 0 .. c : q[d] = <<>>
           /\ NextFor(c, q) # NoClass =>
                /\ NextFor(c, q) \in 0 .. c /\ q[NextFor(c, q)] # <<>>
                /\ \A d \in 0 .. c : q[d] # <<>> => d <= NextFor(c, q)
<1> DEFINE waiting == {d \in 0 .. c : q[d] # <<>>}
<1>1. c \in Nat /\ waiting \subseteq 0 .. c
  BY DEF Class
<1>2. CASE waiting = {}
  BY <1>2 DEF NextFor, NoClass
<1>3. CASE waiting # {}
  <2>1. Max(waiting) \in waiting /\ \A d \in waiting : d <= Max(waiting)
    <3> HIDE DEF waiting
    <3> QED
      BY <1>1, <1>3, GreatestOf
  <2>2. NextFor(c, q) = Max(waiting)
    BY <1>3 DEF NextFor
  <2> HIDE DEF NextFor
  <2>3. NextFor(c, q) \in 0 .. c /\ q[NextFor(c, q)] # <<>>
        /\ \A d \in 0 .. c : q[d] # <<>> => d <= NextFor(c, q)
    BY <2>1, <2>2
  <2>4. NextFor(c, q) # NoClass
    BY <2>3, <1>1 DEF NoClass
  <2> QED
    BY <2>3, <2>4
<1> QED
  BY <1>2, <1>3

\* What a slot takes.
LEMMA TakeNextIs ==
    ASSUME NEW s \in Slot, NEW at \in Places, NEW jobs, NEW up,
           TakeNext(s, at, jobs, up) # at
    PROVE  \E d \in Class :
             /\ at.running[s] = None /\ at.queue[d] # <<>>
             /\ d <= SlotClass[s] /\ jobs[Head(at.queue[d])].persisted
             /\ d = NextQueueFor(s, at.queue, at.running, jobs, up)
             /\ d = NextFor(SlotClass[s], at.queue)
             /\ TakeNext(s, at, jobs, up) =
                  [queue |-> [at.queue EXCEPT ![d] = Tail(@)],
                   running |-> [at.running EXCEPT ![s] = Head(at.queue[d])]]
<1> DEFINE d == NextQueueFor(s, at.queue, at.running, jobs, up)
           e == NextFor(SlotClass[s], at.queue)
<1>1. at.running[s] = None /\ d # NoClass
      /\ TakeNext(s, at, jobs, up) =
           [queue |-> [at.queue EXCEPT ![d] = Tail(@)],
            running |-> [at.running EXCEPT ![s] = Head(at.queue[d])]]
  BY DEF TakeNext
<1>2. e # NoClass /\ jobs[Head(at.queue[e])].persisted /\ d = e
  BY <1>1 DEF NextQueueFor
<1>3. e \in 0 .. SlotClass[s] /\ at.queue[e] # <<>>
  BY <1>2, NextForIs, SlotTyped
<1>4. e \in Class /\ e <= SlotClass[s]
  BY <1>3, SlotTyped, ScheduleAssumption DEF Class
<1> HIDE DEF d, e
<1> QED
  BY <1>1, <1>2, <1>3, <1>4 DEF d, e

\* Its head leaves a queue in order.
LEMMA HeadLeaves ==
    ASSUME NEW q \in Seq(Id), q # <<>>, NEW c, NEW r, NEW jobs,
           InOrder(c, q, r, jobs)
    PROVE  /\ Head(q) \in Id /\ Tail(q) \in Seq(Id)
           /\ jobs[Head(q)] # NoJob /\ ~jobs[Head(q)].ended
           /\ jobs[Head(q)].class = c /\ \A s \in Slot : r[s] # Head(q)
           /\ \A n \in 1 .. Len(Tail(q)) : Tail(q)[n] = q[n + 1] /\ Tail(q)[n] > Head(q)
           /\ InOrder(c, Tail(q), r, jobs)
<1>1. Head(q) = q[1] /\ 1 \in 1 .. Len(q) /\ Head(q) \in Id
  OBVIOUS
<1>2. Tail(q) \in Seq(Id) /\ Len(Tail(q)) = Len(q) - 1
      /\ \A n \in 1 .. Len(q) - 1 : Tail(q)[n] = q[n + 1]
  OBVIOUS
<1>3. ASSUME NEW n \in 1 .. Len(Tail(q))
      PROVE  /\ n + 1 \in 1 .. Len(q) /\ Tail(q)[n] = q[n + 1]
             /\ Tail(q)[n] > Head(q)
             /\ \A m \in 1 .. n - 1 : Tail(q)[m] < Tail(q)[n]
  <2>1. n + 1 \in 1 .. Len(q) /\ Tail(q)[n] = q[n + 1] /\ 1 \in 1 .. (n + 1) - 1
    BY <1>2
  <2>2. \A m \in 1 .. (n + 1) - 1 : q[m] < q[n + 1]
    BY <2>1 DEF InOrder
  <2>3. \A m \in 1 .. n - 1 : m + 1 \in 1 .. (n + 1) - 1 /\ Tail(q)[m] = q[m + 1]
    BY <1>2
  <2>4. \A k \in 1 .. Len(q) : q[k] \in Nat
    OBVIOUS
  <2>5. q[1] < q[n + 1]
    BY <2>1, <2>2
  <2>6. Tail(q)[n] > Head(q)
    BY <1>1, <2>1, <2>4, <2>5
  <2> QED
    BY <2>1, <2>2, <2>3, <2>6
<1>4. InOrder(c, Tail(q), r, jobs)
  BY <1>3 DEF InOrder
<1>5. /\ jobs[Head(q)] # NoJob /\ ~jobs[Head(q)].ended
      /\ jobs[Head(q)].class = c /\ \A s \in Slot : r[s] # Head(q)
  BY <1>1 DEF InOrder
<1> QED
  BY <1>1, <1>2, <1>3, <1>4, <1>5

\* What a round of the slots leaves of queues and slots `at`: fewer jobs wait,
\* all that are not persisted do, and whoever had a slot has it.
Less(at, t, jobs) ==
    /\ \A c \in Class : \A n \in 1 .. Len(t.queue[c]) :
         \E m \in 1 .. Len(at.queue[c]) : t.queue[c][n] = at.queue[c][m]
    /\ \A c \in Class : \A n \in 1 .. Len(at.queue[c]) :
         ~jobs[at.queue[c][n]].persisted =>
           \E m \in 1 .. Len(t.queue[c]) : t.queue[c][m] = at.queue[c][n]
    /\ \A u \in Slot : at.running[u] # None => t.running[u] = at.running[u]

\* A slot's turn leaves every job in one place, and keeps to the order.
LEMMA TakeNextPlaces ==
    ASSUME NEW s \in Slot, NEW at \in Places, NEW was, NEW jobs, NEW up,
           Placed(at, jobs), Started(at, was, jobs)
    PROVE  LET t == TakeNext(s, at, jobs, up) IN
           t \in Places /\ Placed(t, jobs) /\ Started(t, was, jobs) /\ Less(at, t, jobs)
<1> DEFINE t == TakeNext(s, at, jobs, up)
<1>1. CASE t = at
  BY <1>1 DEF Less
<1>2. CASE t # at
  <2>1. PICK d \in Class :
          /\ at.running[s] = None /\ at.queue[d] # <<>>
          /\ jobs[Head(at.queue[d])].persisted
          /\ t = [queue |-> [at.queue EXCEPT ![d] = Tail(@)],
                  running |-> [at.running EXCEPT ![s] = Head(at.queue[d])]]
    BY <1>2, TakeNextIs
  <2> HIDE DEF t
  <2> DEFINE q == at.queue[d]
             j == Head(q)
  <2>13. jobs[j].persisted
    BY <2>1
  <2>2. /\ q \in Seq(Id) /\ q # <<>> /\ InOrder(d, q, at.running, jobs)
        /\ at.queue \in [Class -> Seq(Id)]
        /\ at.running \in [Slot -> Id \cup {None}]
    BY <2>1 DEF Placed, Places
  <2>3. /\ j \in Id /\ Tail(q) \in Seq(Id)
        /\ jobs[j] # NoJob /\ ~jobs[j].ended
        /\ jobs[j].class = d /\ \A u \in Slot : at.running[u] # j
        /\ \A n \in 1 .. Len(Tail(q)) : Tail(q)[n] = q[n + 1] /\ Tail(q)[n] > j
        /\ InOrder(d, Tail(q), at.running, jobs)
    <3> HIDE DEF q
    <3> QED
      BY <2>2, HeadLeaves
  <2>4. /\ t.queue = [at.queue EXCEPT ![d] = Tail(q)]
        /\ t.running = [at.running EXCEPT ![s] = j]
    BY <2>1
  <2>5. t = [queue |-> t.queue, running |-> t.running]
    BY <2>1
  <2> HIDE DEF q, j
  <2>6. t \in Places
    <3>1. t.queue \in [Class -> Seq(Id)]
      BY <2>2, <2>3, <2>4
    <3>2. t.running \in [Slot -> Id \cup {None}]
      BY <2>2, <2>3, <2>4
    <3> HIDE DEF Places
    <3>3. [queue |-> t.queue, running |-> t.running] \in Places
      BY <3>1, <3>2 DEF Places
    <3> QED
      BY <2>5, <3>3
  <2>7. Alone(t.running)
    BY <2>2, <2>3, <2>4 DEF Alone, Placed
  <2>8. ASSUME NEW c \in Class
        PROVE  InOrder(c, t.queue[c], t.running, jobs)
    <3>1. CASE c = d
      <4>1. t.queue[c] = Tail(q)
        BY <2>2, <2>4, <3>1
      <4>2. ASSUME NEW n \in 1 .. Len(Tail(q)), NEW u \in Slot
            PROVE  t.running[u] # Tail(q)[n]
        <5>1. Tail(q)[n] > j /\ Tail(q)[n] \in Nat /\ j \in Nat
          BY <2>3
        <5>2. at.running[u] # Tail(q)[n]
          BY <2>3 DEF InOrder
        <5> QED
          BY <2>2, <2>4, <5>1, <5>2
      <4> QED
        BY <2>3, <3>1, <4>1, <4>2 DEF InOrder
    <3>2. CASE c # d
      <4>1. t.queue[c] = at.queue[c] /\ InOrder(c, at.queue[c], at.running, jobs)
        BY <2>2, <2>4, <3>2 DEF Placed
      <4>2. ASSUME NEW n \in 1 .. Len(at.queue[c]), NEW u \in Slot
            PROVE  t.running[u] # at.queue[c][n]
        <5>1. jobs[at.queue[c][n]].class = c /\ at.running[u] # at.queue[c][n]
          BY <4>1 DEF InOrder
        <5> QED
          BY <2>2, <2>3, <2>4, <3>2, <5>1
      <4> QED
        BY <4>1, <4>2 DEF InOrder
    <3> QED
      BY <3>1, <3>2
  <2>9. ASSUME NEW c \in Class, NEW n \in 1 .. Len(t.queue[c])
        PROVE  \E m \in 1 .. Len(at.queue[c]) : t.queue[c][n] = at.queue[c][m]
    <3>1. CASE c = d
      <4>1. t.queue[c] = Tail(q) /\ at.queue[c] = q
        BY <2>2, <2>4, <3>1 DEF q
      <4>2. n + 1 \in 1 .. Len(q) /\ Tail(q)[n] = q[n + 1]
        BY <2>2, <2>3, <4>1
      <4> QED
        BY <4>1, <4>2
    <3>2. CASE c # d
      BY <2>2, <2>4, <3>2
    <3> QED
      BY <3>1, <3>2
  <2>12. ASSUME NEW c \in Class, NEW n \in 1 .. Len(at.queue[c]),
                ~jobs[at.queue[c][n]].persisted
         PROVE  \E m \in 1 .. Len(t.queue[c]) : t.queue[c][m] = at.queue[c][n]
    <3>1. CASE c = d
      <4>1. t.queue[c] = Tail(q) /\ at.queue[c] = q
        BY <2>2, <2>4, <3>1 DEF q
      <4>2. q[1] = j
        BY <2>2 DEF j
      <4>3. n # 1
        BY <2>12, <2>13, <4>1, <4>2
      <4>4. n - 1 \in 1 .. Len(Tail(q)) /\ Tail(q)[n - 1] = q[n]
        BY <2>2, <4>1, <4>3
      <4> QED
        BY <4>1, <4>4
    <3>2. CASE c # d
      BY <2>2, <2>4, <3>2
    <3> QED
      BY <3>1, <3>2
  <2>10. Started(t, was, jobs)
    <3> SUFFICES ASSUME NEW u \in Slot, t.running[u] \notin {None, was[u]}
                 PROVE  /\ jobs[t.running[u]] # NoJob /\ ~jobs[t.running[u]].ended
                        /\ jobs[t.running[u]].class \in Class
                        /\ \A n \in 1 .. Len(t.queue[jobs[t.running[u]].class]) :
                             t.queue[jobs[t.running[u]].class][n] > t.running[u]
      BY DEF Started
    <3>1. CASE u = s
      <4>1. t.running[u] = j /\ jobs[j].class = d /\ t.queue[d] = Tail(q)
        BY <2>2, <2>3, <2>4, <3>1
      <4> QED
        BY <2>3, <4>1
    <3>2. CASE u # s
      <4> DEFINE c == jobs[at.running[u]].class
      <4>1. t.running[u] = at.running[u]
        BY <2>2, <2>4, <3>2
      <4>2. /\ jobs[at.running[u]] # NoJob /\ ~jobs[at.running[u]].ended
            /\ c \in Class
            /\ \A n \in 1 .. Len(at.queue[c]) : at.queue[c][n] > at.running[u]
        BY <4>1 DEF Started
      <4> HIDE DEF c
      <4>3. \A n \in 1 .. Len(t.queue[c]) : t.queue[c][n] > at.running[u]
        BY <2>9, <4>2
      <4> QED
        BY <4>1, <4>2, <4>3 DEF c
    <3> QED
      BY <3>1, <3>2
  <2>11. \A u \in Slot : at.running[u] # None => t.running[u] = at.running[u]
    BY <2>1, <2>2, <2>4
  <2> QED
    BY <2>6, <2>7, <2>8, <2>9, <2>10, <2>11, <2>12 DEF Placed, Less, t
<1> QED
  BY <1>1, <1>2

\* It leaves queues and slots.
LEMMA TakeNextTyped ==
    ASSUME NEW s \in Slot, NEW at \in Places, NEW jobs, NEW up
    PROVE  TakeNext(s, at, jobs, up) \in Places
<1> DEFINE t == TakeNext(s, at, jobs, up)
<1>1. CASE t = at
  BY <1>1
<1>2. CASE t # at
  <2>1. PICK d \in Class :
          /\ at.queue[d] # <<>>
          /\ t = [queue |-> [at.queue EXCEPT ![d] = Tail(@)],
                  running |-> [at.running EXCEPT ![s] = Head(at.queue[d])]]
    BY <1>2, TakeNextIs
  <2>2. at.queue \in [Class -> Seq(Id)] /\ at.running \in [Slot -> Id \cup {None}]
    BY DEF Places
  <2> DEFINE q == [at.queue EXCEPT ![d] = Tail(@)]
             r == [at.running EXCEPT ![s] = Head(at.queue[d])]
  <2>3. at.queue[d] \in Seq(Id) /\ at.queue[d] # <<>>
    BY <2>1, <2>2
  <2>4. Head(at.queue[d]) \in Id /\ Tail(at.queue[d]) \in Seq(Id)
    <3> DEFINE x == at.queue[d]
    <3>1. x \in Seq(Id) /\ x # <<>>
      BY <2>3
    <3> HIDE DEF x, t
    <3>2. Head(x) \in Id /\ Tail(x) \in Seq(Id)
      BY <3>1
    <3> QED
      BY <3>2 DEF x
  <2>5. q \in [Class -> Seq(Id)] /\ r \in [Slot -> Id \cup {None}]
    BY <2>2, <2>4
  <2>6. t = [queue |-> q, running |-> r]
    BY <2>1
  <2> HIDE DEF t, q, r
  <2>7. t \in Places
    BY <2>5, <2>6 DEF Places
  <2> QED
    BY <2>7 DEF t
<1> QED
  BY <1>1, <1>2

\* The queues and slots of which all that holds.
PlacesLeft(at, was, jobs) ==
    {x \in Places : Placed(x, jobs) /\ Started(x, was, jobs) /\ Less(at, x, jobs)}

LEMMA TakeNextStays ==
    ASSUME NEW at, NEW was, NEW jobs, NEW up, NEW k \in Slot,
           NEW x \in PlacesLeft(at, was, jobs)
    PROVE  TakeNext(k, x, jobs, up) \in PlacesLeft(at, was, jobs)
<1> DEFINE t == TakeNext(k, x, jobs, up)
<1>1. x \in Places /\ Placed(x, jobs) /\ Started(x, was, jobs) /\ Less(at, x, jobs)
  BY DEF PlacesLeft
<1>2. t \in Places /\ Placed(t, jobs) /\ Started(t, was, jobs) /\ Less(x, t, jobs)
  BY <1>1, TakeNextPlaces
<1> HIDE DEF t
<1>3. ASSUME NEW c \in Class, NEW n \in 1 .. Len(t.queue[c])
      PROVE  \E m \in 1 .. Len(at.queue[c]) : t.queue[c][n] = at.queue[c][m]
  <2>1. PICK m \in 1 .. Len(x.queue[c]) : t.queue[c][n] = x.queue[c][m]
    BY <1>2, <1>3 DEF Less
  <2>2. \E l \in 1 .. Len(at.queue[c]) : x.queue[c][m] = at.queue[c][l]
    BY <1>1, <1>3, <2>1 DEF Less
  <2> QED
    BY <2>1, <2>2
<1>4. ASSUME NEW c \in Class, NEW n \in 1 .. Len(at.queue[c]),
             ~jobs[at.queue[c][n]].persisted
      PROVE  \E m \in 1 .. Len(t.queue[c]) : t.queue[c][m] = at.queue[c][n]
  <2>1. PICK m \in 1 .. Len(x.queue[c]) : x.queue[c][m] = at.queue[c][n]
    BY <1>1, <1>4 DEF Less
  <2>2. \E l \in 1 .. Len(t.queue[c]) : t.queue[c][l] = x.queue[c][m]
    BY <1>2, <1>4, <2>1 DEF Less
  <2> QED
    BY <2>1, <2>2
<1>5. \A u \in Slot : at.running[u] # None => t.running[u] = at.running[u]
  BY <1>1, <1>2 DEF Less
<1>6. Less(at, t, jobs)
  BY <1>3, <1>4, <1>5 DEF Less
<1> QED
  BY <1>2, <1>6 DEF PlacesLeft, t

\* So does a round of all of them.
LEMMA DispatchPlaces ==
    ASSUME NEW at \in Places, NEW was, NEW jobs, NEW up,
           Placed(at, jobs), Started(at, was, jobs)
    PROVE  DispatchIdle(at, jobs, up) \in PlacesLeft(at, was, jobs)
<1> DEFINE T == PlacesLeft(at, was, jobs)
<1>1. at \in T
  BY DEF PlacesLeft, Less
<1>2. \A x \in T : \A k \in Slot : TakeNext(k, x, jobs, up) \in T
  BY TakeNextStays
<1> HIDE DEF T
<1>3. PICK n \in Nat : \E h \in [0 .. n -> T] : RoundOf(h, n, at, jobs, up)
  BY <1>1, <1>2, DispatchRuns
<1>4. PICK h \in [0 .. n -> T] : RoundOf(h, n, at, jobs, up)
  BY <1>3
<1>5. h[n] \in T
  OBVIOUS
<1> QED
  BY <1>4, <1>5 DEF T, RoundOf

\* t is what queue q is without j.
WithoutIs(t, q, j) ==
    /\ q = <<>> => t = <<>>
    /\ \A k \in 1 .. Len(q) : q[k] # j => \E m \in 1 .. Len(t) : t[m] = q[k]
    /\ q # <<>> /\ Head(q) # j => t # <<>> /\ Head(t) = Head(q)

\* Queues in order have a job once, and keep their order without one.
LEMMA WithoutInOrder ==
    ASSUME NEW c, NEW q \in Seq(Id), NEW r, NEW jobs, InOrder(c, q, r, jobs),
           NEW j, NEW left, \A i \in Id : i # j => left[i] = jobs[i]
    PROVE  /\ RemoveFirst(q, j) \in Seq(Id)
           /\ InOrder(c, RemoveFirst(q, j), r, left)
           /\ WithoutIs(RemoveFirst(q, j), q, j)
<1> DEFINE t == RemoveFirst(q, j)
<1>1. \A n \in 1 .. Len(q) : q[n] \in Id /\ q[n] \in Nat
  OBVIOUS
<1>2. ASSUME NEW m \in 1 .. Len(q), NEW n \in 1 .. Len(q)
      PROVE  /\ m < n => q[m] < q[n]
             /\ q[m] = q[n] => m = n
  <2>1. \A k \in 1 .. Len(q) : \A l \in 1 .. Len(q) : k < l => q[k] < q[l]
    <3> SUFFICES ASSUME NEW k \in 1 .. Len(q), NEW l \in 1 .. Len(q), k < l
                 PROVE  q[k] < q[l]
      OBVIOUS
    <3>1. k \in 1 .. l - 1
      OBVIOUS
    <3> QED
      BY <3>1 DEF InOrder
  <2> QED
    BY <1>1, <2>1
<1>3. /\ t \in Seq(Id)
      /\ \A m \in 1 .. Len(t) : t[m] # j /\ \E k \in 1 .. Len(q) : t[m] = q[k]
      /\ \A m, n \in 1 .. Len(t) :
           m < n => \E k, l \in 1 .. Len(q) : k < l /\ t[m] = q[k] /\ t[n] = q[l]
      /\ \A k \in 1 .. Len(q) : q[k] # j => \E m \in 1 .. Len(t) : t[m] = q[k]
      /\ q # <<>> /\ q[1] # j => t # <<>> /\ t[1] = q[1]
      /\ (\A k \in 1 .. Len(q) : q[k] # j) => t = q
  <2>1. \A m, n \in 1 .. Len(q) : q[m] = q[n] => m = n
    BY <1>2
  <2> QED
    BY <2>1, RemoveFirstIs
<1> HIDE DEF t
<1>4. ASSUME NEW n \in 1 .. Len(t)
      PROVE  /\ left[t[n]] # NoJob /\ ~left[t[n]].ended /\ left[t[n]].class = c
             /\ \A s \in Slot : r[s] # t[n]
             /\ \A m \in 1 .. n - 1 : t[m] < t[n]
  <2>1. PICK k \in 1 .. Len(q) : t[n] = q[k]
    BY <1>3
  <2>2. left[t[n]] = jobs[t[n]]
    BY <1>1, <1>3, <2>1
  <2>3. ASSUME NEW m \in 1 .. n - 1
        PROVE  t[m] < t[n]
    <3>1. m \in 1 .. Len(t) /\ m < n
      BY <1>3
    <3> QED
      BY <1>2, <1>3, <3>1
  <2> QED
    BY <2>1, <2>2, <2>3 DEF InOrder
<1>5. InOrder(c, t, r, left)
  BY <1>4 DEF InOrder
<1>6. WithoutIs(t, q, j)
  BY <1>3 DEF WithoutIs
<1> QED
  BY <1>3, <1>5, <1>6 DEF t

\* A re-queued job is put in its place in a queue.
LEMMA InsertTyped ==
    ASSUME NEW q \in Seq(Id), NEW j \in Id
    PROVE  \E p \in 1 .. Len(q) + 1 :
             /\ InsertByOrder(q, j) = InsertAt(q, p, j)
             /\ \A n \in 1 .. p - 1 : q[n] <= j
             /\ p <= Len(q) => q[p] > j
             /\ InsertByOrder(q, j) \in Seq(Id)
<1> DEFINE later == {n \in DOMAIN q : q[n] > j}
           p == IF later = {} THEN Len(q) + 1 ELSE Min(later)
<1>1. \A n \in 1 .. Len(q) : q[n] \in Nat
  OBVIOUS
<1>2. Len(q) \in Nat /\ DOMAIN q = 1 .. Len(q)
  OBVIOUS
<1>3. /\ p \in 1 .. Len(q) + 1
      /\ \A n \in 1 .. p - 1 : q[n] <= j
      /\ p <= Len(q) => q[p] > j
  <2>1. CASE later = {}
    BY <1>1, <1>2, <2>1
  <2>2. CASE later # {}
    <3>1. Min(later) \in later /\ \A n \in later : Min(later) <= n
      <4>1. later \subseteq Nat
        BY <1>2
      <4> HIDE DEF later
      <4> QED
        BY <2>2, <4>1, LeastOf
    <3> HIDE DEF later
    <3>2. p = Min(later)
      BY <2>2
    <3> HIDE DEF p
    <3>3. p \in 1 .. Len(q) /\ q[p] > j
      BY <1>2, <3>1, <3>2 DEF later
    <3>4. ASSUME NEW n \in 1 .. p - 1
          PROVE  q[n] <= j
      <4>1. n \in 1 .. Len(q) /\ n \notin later
        BY <1>2, <3>1, <3>2, <3>3
      <4>2. ~ (q[n] > j)
        BY <1>2, <4>1 DEF later
      <4> QED
        BY <1>1, <4>1, <4>2
    <3> QED
      BY <1>2, <3>3, <3>4
  <2> QED
    BY <2>1, <2>2
<1>4. InsertByOrder(q, j) = InsertAt(q, p, j)
  BY DEF InsertByOrder
<1> HIDE DEF p
<1>5. InsertAt(q, p, j) \in Seq(Id)
  BY <1>3, InsertAtIs
<1> QED
  BY <1>3, <1>4, <1>5

\* There it is among the jobs of its queue, in order.
LEMMA InsertInOrder ==
    ASSUME NEW c, NEW q \in Seq(Id), NEW r, NEW jobs, InOrder(c, q, r, jobs),
           NEW j \in Id, \A n \in 1 .. Len(q) : q[n] # j,
           jobs[j] # NoJob, ~jobs[j].ended, jobs[j].class = c,
           \A s \in Slot : r[s] # j
    PROVE  InOrder(c, InsertByOrder(q, j), r, jobs)
<1> DEFINE t == InsertByOrder(q, j)
<1>1. PICK p \in 1 .. Len(q) + 1 :
        /\ t = InsertAt(q, p, j)
        /\ \A n \in 1 .. p - 1 : q[n] <= j
        /\ p <= Len(q) => q[p] > j
  BY InsertTyped
<1>2. \A n \in 1 .. Len(q) : q[n] \in Nat
  OBVIOUS
<1>3. \A m, n \in 1 .. Len(q) : m < n => q[m] < q[n]
  <2> SUFFICES ASSUME NEW m \in 1 .. Len(q), NEW n \in 1 .. Len(q), m < n
               PROVE  q[m] < q[n]
    OBVIOUS
  <2>1. m \in 1 .. n - 1
    OBVIOUS
  <2> QED
    BY <2>1 DEF InOrder
<1>4. ASSUME NEW n \in 1 .. Len(q), n < p
      PROVE  q[n] < j
  <2>1. n \in 1 .. p - 1
    BY <1>4
  <2>2. q[n] <= j /\ q[n] # j
    BY <1>1, <2>1
  <2> QED
    BY <1>2, <2>2
<1>5. ASSUME NEW n \in 1 .. Len(q), n >= p
      PROVE  q[n] > j
  <2>1. p \in 1 .. Len(q)
    BY <1>5
  <2>2. q[p] > j /\ (p < n => q[p] < q[n])
    BY <1>1, <1>3, <2>1
  <2> QED
    BY <1>2, <1>5, <2>1, <2>2
<1>6. /\ Len(t) = Len(q) + 1
      /\ \A n \in 1 .. Len(q) + 1 :
           t[n] = IF n < p THEN q[n] ELSE IF n = p THEN j ELSE q[n - 1]
  <2> HIDE DEF t
  <2>1. t = InsertAt(q, p, j)
    BY <1>1
  <2>2. Inserted(InsertAt(q, p, j), q, p, j)
    BY InsertAtIs
  <2> QED
    BY <2>1, <2>2 DEF Inserted
<1>7. Len(q) \in Nat
  OBVIOUS
<1> HIDE DEF t
<1>8. ASSUME NEW n \in 1 .. Len(t)
      PROVE  /\ jobs[t[n]] # NoJob /\ ~jobs[t[n]].ended /\ jobs[t[n]].class = c
             /\ \A s \in Slot : r[s] # t[n]
  <2>1. CASE n = p
    BY <1>6, <2>1
  <2>2. CASE n < p
    <3>1. n \in 1 .. Len(q) /\ t[n] = q[n]
      BY <1>6, <1>7, <2>2
    <3> QED
      BY <3>1 DEF InOrder
  <2>3. CASE n > p
    <3>1. n - 1 \in 1 .. Len(q) /\ t[n] = q[n - 1]
      BY <1>6, <1>7, <2>3
    <3> QED
      BY <3>1 DEF InOrder
  <2> QED
    BY <1>7, <2>1, <2>2, <2>3
<1>9. ASSUME NEW n \in 1 .. Len(t), NEW m \in 1 .. n - 1
      PROVE  t[m] < t[n]
  <2>1. m \in 1 .. Len(q) + 1 /\ n \in 1 .. Len(q) + 1 /\ m < n
    BY <1>6, <1>7
  <2>2. CASE n < p
    <3>1. t[m] = q[m] /\ t[n] = q[n] /\ m \in 1 .. Len(q) /\ n \in 1 .. Len(q)
      BY <1>6, <1>7, <2>1, <2>2
    <3> QED
      BY <1>3, <2>1, <3>1
  <2>3. CASE n = p
    <3>1. t[m] = q[m] /\ t[n] = j /\ m \in 1 .. Len(q) /\ m < p
      BY <1>6, <1>7, <2>1, <2>3
    <3> QED
      BY <1>4, <3>1
  <2>4. CASE n > p
    <3>1. t[n] = q[n - 1] /\ n - 1 \in 1 .. Len(q) /\ n - 1 >= p
      BY <1>6, <1>7, <2>1, <2>4
    <3>2. q[n - 1] > j /\ q[n - 1] \in Nat
      BY <1>2, <1>5, <3>1
    <3>3. CASE m = p
      <4>1. t[m] = j
        BY <1>6, <2>1, <3>3
      <4> QED
        BY <3>1, <3>2, <4>1
    <3>4. CASE m < p
      <4>1. t[m] = q[m] /\ m \in 1 .. Len(q)
        BY <1>6, <1>7, <2>1, <3>4
      <4>2. q[m] < j /\ q[m] \in Nat
        BY <1>2, <1>4, <3>4, <4>1
      <4> QED
        BY <3>1, <3>2, <4>1, <4>2
    <3>5. CASE m > p
      <4>1. t[m] = q[m - 1] /\ m - 1 \in 1 .. Len(q) /\ m - 1 < n - 1
        BY <1>6, <1>7, <2>1, <2>4, <3>5
      <4> QED
        BY <1>3, <3>1, <4>1
    <3> QED
      BY <3>3, <3>4, <3>5
  <2> QED
    BY <2>2, <2>3, <2>4
<1> QED
  BY <1>8, <1>9 DEF InOrder, t

\* An admitted job is queued behind those of lower order.
LEMMA AppendInOrder ==
    ASSUME NEW c, NEW q \in Seq(Id), NEW r, NEW jobs, InOrder(c, q, r, jobs),
           NEW j \in Id, \A n \in 1 .. Len(q) : q[n] < j,
           jobs[j] # NoJob, ~jobs[j].ended, jobs[j].class = c,
           \A s \in Slot : r[s] # j
    PROVE  Append(q, j) \in Seq(Id) /\ InOrder(c, Append(q, j), r, jobs)
<1> DEFINE t == Append(q, j)
<1>1. /\ t \in Seq(Id) /\ Len(t) = Len(q) + 1 /\ Len(q) \in Nat
      /\ t[Len(q) + 1] = j /\ \A n \in 1 .. Len(q) : t[n] = q[n]
  OBVIOUS
<1> HIDE DEF t
<1>2. ASSUME NEW n \in 1 .. Len(t)
      PROVE  /\ jobs[t[n]] # NoJob /\ ~jobs[t[n]].ended /\ jobs[t[n]].class = c
             /\ \A s \in Slot : r[s] # t[n]
             /\ \A m \in 1 .. n - 1 : t[m] < t[n]
  <2>1. CASE n = Len(q) + 1
    <3>1. \A m \in 1 .. n - 1 : m \in 1 .. Len(q) /\ t[m] = q[m]
      BY <1>1, <2>1
    <3> QED
      BY <1>1, <2>1, <3>1
  <2>2. CASE n # Len(q) + 1
    <3>1. n \in 1 .. Len(q) /\ t[n] = q[n]
          /\ \A m \in 1 .. n - 1 : t[m] = q[m]
      BY <1>1, <2>2
    <3> QED
      BY <3>1 DEF InOrder
  <2> QED
    BY <2>1, <2>2
<1> QED
  BY <1>1, <1>2 DEF InOrder, t

-----------------------------------------------------------------------------
\* The inductive invariant of the queues and the slots.

Held == [queue |-> queue, running |-> running]

\* What is outside the registry is of its kind.
Flags ==
    /\ durable \in BOOLEAN /\ live \in [Class -> Nat]
    /\ \A c \in Class : live[c] \in 0 .. Slots[c]
    /\ {changed, stopping, stalled} \subseteq BOOLEAN
    /\ restarts \in 0 .. MaxRestarts

\* A slot has a job that was admitted, and a request records an end that came.
GivenOut == \A s \in Slot : running[s] <= admitted
RecordingEnded ==
    \A c \in Client : client[c].pc = "recording" => ~Unended(client[c].id)

\* In local mode a job starts in its admission or waits for a busy slot: while
\* a slot is idle, no queue it serves has a job.
Local ==
    ~durable =>
        /\ ~changed /\ \A c \in Client : client[c].pc = "idle"
        /\ \A j \in Id : Unended(j) => job[j].persisted
        /\ \A s \in Slot : running[s] = None =>
             \A d \in 0 .. SlotClass[s] : queue[d] = <<>>

HeldInv == Held \in Places /\ Placed(Held, job)
RegistryInv == KeyInv /\ Flags /\ HeldInv /\ GivenOut /\ RecordingEnded /\ Local

\* What a step makes of the queues and slots: the jobs are in one place, and
\* those that start do so in order.
HeldStep == HeldInv' /\ Started(Held', running, job')

\* The queues and slots by their parts.
LEMMA HeldParts ==
    /\ Held.queue = queue /\ Held.running = running
    /\ Held \in Places <=> /\ queue \in [Class -> Seq(Id)]
                           /\ running \in [Slot -> Id \cup {None}]
    /\ \A jobs : Placed(Held, jobs) <=>
         Alone(running) /\ \A c \in Class : InOrder(c, queue[c], running, jobs)
<1>1. Held.queue = queue /\ Held.running = running
  BY DEF Held
<1>2. Held \in Places <=> /\ queue \in [Class -> Seq(Id)]
                          /\ running \in [Slot -> Id \cup {None}]
  <2>1. ASSUME queue \in [Class -> Seq(Id)], running \in [Slot -> Id \cup {None}]
        PROVE  Held \in Places
    BY <2>1 DEF Held, Places
  <2>2. ASSUME Held \in Places
        PROVE  Held.queue \in [Class -> Seq(Id)]
               /\ Held.running \in [Slot -> Id \cup {None}]
    BY <2>2 DEF Places
  <2> QED
    BY <1>1, <2>1, <2>2
<1> QED
  BY <1>1, <1>2 DEF Placed

\* The queues and slots become those of `at`.
LEMMA BecomesHeld ==
    ASSUME NEW at \in Places, Becomes(at)
    PROVE  Held' = at
<1>1. at = [queue |-> at.queue, running |-> at.running]
  BY DEF Places
<1> QED
  BY <1>1 DEF Becomes, Held

\* A round over queues and slots in which nothing was started yet.
LEMMA DispatchesPlaces ==
    ASSUME NEW q \in [Class -> Seq(Id)], NEW r \in [Slot -> Id \cup {None}],
           NEW jobs, Dispatches(q, r, jobs),
           Placed([queue |-> q, running |-> r], jobs),
           \A s \in Slot : r[s] \in {None, running[s]}
    PROVE  /\ Held' \in Places /\ Placed(Held', jobs)
           /\ Started(Held', running, jobs)
           /\ Less([queue |-> q, running |-> r], Held', jobs)
<1> DEFINE at == [queue |-> q, running |-> r]
<1>1. at \in Places /\ at.running = r
  BY DEF Places
<1>2. Started(at, running, jobs)
  BY <1>1 DEF Started
<1>3. Placed(at, jobs)
  OBVIOUS
<1>4. Becomes(IF stopping THEN at ELSE DispatchIdle(at, jobs, live))
  BY DEF Dispatches
<1> HIDE DEF at
<1>5. at \in PlacesLeft(at, running, jobs)
  BY <1>1, <1>2, <1>3 DEF PlacesLeft, Less
<1>6. DispatchIdle(at, jobs, live) \in PlacesLeft(at, running, jobs)
  BY <1>1, <1>2, <1>3, DispatchPlaces
<1>7. PICK t \in PlacesLeft(at, running, jobs) : Becomes(t)
  BY <1>4, <1>5, <1>6
<1>8. t \in Places /\ Placed(t, jobs) /\ Started(t, running, jobs) /\ Less(at, t, jobs)
  BY DEF PlacesLeft
<1>9. Held' = t
  BY <1>7, <1>8, BecomesHeld
<1> QED
  BY <1>8, <1>9 DEF at

\* A slot that is free hands itself over.
LEMMA HandsOverPlaces ==
    ASSUME NEW s \in Slot, NEW q \in [Class -> Seq(Id)], NEW jobs, NEW moved,
           running \in [Slot -> Id \cup {None}],
           HandsOver(s, q, jobs, moved),
           Placed([queue |-> q, running |-> [running EXCEPT ![s] = None]], jobs)
    PROVE  /\ Held' \in Places /\ Placed(Held', jobs)
           /\ Started(Held', running, jobs)
           /\ Less([queue |-> q, running |-> [running EXCEPT ![s] = None]], Held', jobs)
<1> DEFINE r == [running EXCEPT ![s] = None]
           at == [queue |-> q, running |-> r]
           taken == TakeNext(s, at, jobs, live)
<1>1. r \in [Slot -> Id \cup {None}] /\ \A u \in Slot : r[u] \in {None, running[u]}
  OBVIOUS
<1>2. at.running = r /\ at \in Places
  <2> HIDE DEF r
  <2> QED
    BY <1>1 DEF Places
<1>3. Started(at, running, jobs) /\ Placed(at, jobs)
  BY <1>1, <1>2 DEF Started
<1>4. \/ Becomes(at) \/ Becomes(taken) \/ Dispatches(q, r, jobs)
  BY Zenon DEF HandsOver
<1>5. CASE Becomes(at)
  <2> HIDE DEF at
  <2>1. Held' = at
    BY <1>2, <1>5, BecomesHeld
  <2> QED
    BY <1>2, <1>3, <2>1 DEF Less, at
<1>6. CASE Becomes(taken)
  <2> HIDE DEF at
  <2>1. taken \in Places /\ Placed(taken, jobs) /\ Started(taken, running, jobs)
        /\ Less(at, taken, jobs)
    BY <1>2, <1>3, TakeNextPlaces
  <2> HIDE DEF taken
  <2>2. Held' = taken
    BY <1>6, <2>1, BecomesHeld
  <2> QED
    BY <2>1, <2>2 DEF at
<1>7. CASE Dispatches(q, r, jobs)
  <2> HIDE DEF r
  <2> QED
    BY <1>1, <1>3, <1>7, DispatchesPlaces DEF r
<1> QED
  BY <1>4, <1>5, <1>6, <1>7

\* A job waits in a queue.
Waiting(j) == \E c \in Class : \E n \in 1 .. Len(queue[c]) : queue[c][n] = j

\* What waits has not ended, and no slot has it.
LEMMA WaitingIs ==
    ASSUME HeldInv, NEW j, Waiting(j)
    PROVE  /\ j \in Id /\ Unended(j) /\ job[j].class \in Class
           /\ \A s \in Slot : running[s] # j
<1>1. PICK c \in Class : \E n \in 1 .. Len(queue[c]) : queue[c][n] = j
  BY DEF Waiting
<1>2. PICK n \in 1 .. Len(queue[c]) : queue[c][n] = j
  BY <1>1
<1>3. queue[c] \in Seq(Id) /\ InOrder(c, queue[c], running, job)
  BY HeldParts DEF HeldInv
<1>4. j \in Id
  BY <1>2, <1>3
<1> QED
  BY <1>2, <1>3, <1>4 DEF InOrder, Unended

\* The queues stay in order when slots are left and jobs that do not wait
\* change.
LEMMA PlacedSame ==
    ASSUME HeldInv, NEW r \in [Slot -> Id \cup {None}],
           \A s \in Slot : r[s] \in {None, running[s]}, NEW jobs,
           \A j \in Id : Waiting(j) => /\ jobs[j] # NoJob /\ ~jobs[j].ended
                                       /\ jobs[j].class = job[j].class
    PROVE  Placed([queue |-> queue, running |-> r], jobs)
<1>1. Alone(running) /\ \A c \in Class : InOrder(c, queue[c], running, job)
  BY HeldParts DEF HeldInv
<1>2. Alone(r)
  BY <1>1 DEF Alone
<1>3. ASSUME NEW c \in Class
      PROVE  InOrder(c, queue[c], r, jobs)
  <2> SUFFICES ASSUME NEW n \in 1 .. Len(queue[c])
               PROVE  /\ jobs[queue[c][n]] # NoJob /\ ~jobs[queue[c][n]].ended
                      /\ jobs[queue[c][n]].class = c
                      /\ \A s \in Slot : r[s] # queue[c][n]
                      /\ \A m \in 1 .. n - 1 : queue[c][m] < queue[c][n]
    BY DEF InOrder
  <2> DEFINE j == queue[c][n]
  <2>1. Waiting(j)
    BY DEF Waiting
  <2>2. /\ job[j].class = c /\ \A s \in Slot : running[s] # j
        /\ \A m \in 1 .. n - 1 : queue[c][m] < j
    BY <1>1 DEF InOrder
  <2> HIDE DEF j
  <2>3. j \in Id
    BY <2>1, WaitingIs
  <2>4. jobs[j] # NoJob /\ ~jobs[j].ended /\ jobs[j].class = c
    BY <2>1, <2>2, <2>3
  <2>5. \A s \in Slot : r[s] # j
    BY <2>2, <2>3
  <2> QED
    BY <2>2, <2>4, <2>5 DEF j
<1> QED
  BY <1>2, <1>3 DEF Placed

\* A step that moves no job keeps every one in its place.
LEMMA StillHeld ==
    ASSUME HeldInv, UNCHANGED <<queue, running>>,
           \A j \in Id : Unended(j) => job'[j] = job[j]
    PROVE  HeldStep
<1>1. Held' = Held /\ Held \in Places
  BY DEF Held, HeldInv
<1>2. running \in [Slot -> Id \cup {None}]
  BY HeldParts DEF HeldInv
<1>3. ASSUME NEW j \in Id, Waiting(j)
      PROVE  job'[j] # NoJob /\ ~job'[j].ended /\ job'[j].class = job[j].class
  <2>1. Unended(j)
    BY <1>3, WaitingIs
  <2>2. job'[j] = job[j]
    BY <2>1
  <2> QED
    BY <2>1, <2>2 DEF Unended
<1>4. Placed(Held, job')
  <2>1. \A s \in Slot : running[s] \in {None, running[s]}
    OBVIOUS
  <2>2. Placed([queue |-> queue, running |-> running], job')
    BY <1>2, <1>3, <2>1, PlacedSame
  <2> QED
    BY <2>2 DEF Held
<1>5. Started(Held', running, job')
  BY <1>1, HeldParts DEF Started
<1> QED
  BY <1>1, <1>4, <1>5 DEF HeldStep, HeldInv

\* What starts was admitted.
LEMMA GivenOutStays ==
    ASSUME RegistryInv, KeyInv', HeldStep, admitted <= admitted'
    PROVE  GivenOut'
<1> SUFFICES ASSUME NEW s \in Slot
             PROVE  running'[s] <= admitted'
  BY DEF GivenOut
<1>1. admitted \in Nat /\ admitted' \in Nat
  BY DEF RegistryInv, KeyInv, Kept
<1>2. running' \in [Slot -> Id \cup {None}]
  <2>1. Held' \in Places
    BY DEF HeldStep, HeldInv
  <2> QED
    BY <2>1 DEF Held, Places
<1>3. running \in [Slot -> Id \cup {None}]
  BY HeldParts DEF RegistryInv, HeldInv
<1>4. CASE running'[s] = None
  BY <1>1, <1>4
<1>5. CASE running'[s] = running[s]
  <2>1. running[s] <= admitted /\ running[s] \in Nat
    BY <1>3 DEF RegistryInv, GivenOut
  <2> QED
    BY <1>1, <1>5, <2>1
<1>6. CASE running'[s] \notin {None, running[s]}
  <2>1. Held'.running = running'
    BY DEF Held
  <2>2. job'[running'[s]] # NoJob /\ ~job'[running'[s]].ended
    BY <1>6, <2>1 DEF HeldStep, Started
  <2>4. \A j \in Id : j > admitted' => job'[j] = NoJob \/ job'[j].ended
    BY DEF KeyInv, Fresh, Unended
  <2>5. running'[s] \in Id
    BY <1>2, <1>6
  <2>6. ~ (running'[s] > admitted')
    BY <2>2, <2>4, <2>5
  <2> QED
    BY <1>1, <2>5, <2>6
<1> QED
  BY <1>4, <1>5, <1>6

\* What each step shows of the rest of the invariant.
Rest == Flags /\ RecordingEnded /\ Local

\* A request moves on: it records no end but one that came.
Ongoing(jobs, j) == jobs[j] # NoJob /\ ~jobs[j].ended

LEMMA EndsStay ==
    ASSUME RegistryInv, NEW c \in Client, Goes(c),
           client'[c].pc # "recording" \/ ~Ongoing(job', client[c].id),
           \A j \in Id : ~Unended(j) => ~Ongoing(job', j)
    PROVE  RecordingEnded'
<1> SUFFICES ASSUME NEW d \in Client, client'[d].pc = "recording"
             PROVE  ~Ongoing(job', client'[d].id)
  BY DEF RecordingEnded, Unended, Ongoing
<1>1. CASE d = c
  BY <1>1 DEF Goes
<1>2. CASE d # c
  <2>1. client'[d] = client[d]
    BY <1>2 DEF Goes
  <2>2. client[d].id \in 1 .. admitted /\ admitted \in 0 .. MaxJobs
    BY <2>1 DEF RegistryInv, KeyInv, Fresh, Kept
  <2>3. client[d].id \in Id /\ ~Unended(client[d].id)
    BY <2>1, <2>2 DEF RegistryInv, RecordingEnded
  <2> QED
    BY <2>1, <2>3
<1> QED
  BY <1>1, <1>2

-----------------------------------------------------------------------------
\* The steps, on the queues and the slots.

\* What of the invariant the steps use.
LEMMA RegistryParts ==
    ASSUME RegistryInv
    PROVE  /\ HeldInv /\ Kept /\ Fresh /\ KeyInv /\ Flags /\ Local
           /\ queue \in [Class -> Seq(Id)]
           /\ running \in [Slot -> Id \cup {None}]
           /\ Alone(running)
           /\ \A c \in Class : InOrder(c, queue[c], running, job)
  BY HeldParts DEF RegistryInv, KeyInv, HeldInv

\* Nothing here is of local mode.
LEMMA InWorkerMode ==
    ASSUME RegistryInv,
           \/ \E c \in Client : client[c].pc # "idle"
           \/ durable \/ changed,
           UNCHANGED durable
    PROVE  durable /\ Local'
<1>1. durable
  BY DEF RegistryInv, Local
<1> QED
  BY <1>1 DEF Local

\* A number that was not given out is in no queue and no slot.
LEMMA FreshNumber ==
    ASSUME RegistryInv, NEW j \in Id, j > admitted
    PROVE  /\ \A s \in Slot : running[s] # j
           /\ \A i \in Id : Unended(i) => i < j
           /\ \A c \in Class : \A n \in 1 .. Len(queue[c]) : queue[c][n] < j
<1>1. admitted \in Nat /\ j \in Nat
  BY RegistryParts DEF Kept
<1>2. ASSUME NEW i \in Id, Unended(i)
      PROVE  i < j
  <2>1. ~ (i > admitted)
    BY <1>2, RegistryParts DEF Fresh
  <2> QED
    BY <1>1, <2>1
<1>3. ASSUME NEW s \in Slot
      PROVE  running[s] # j
  <2>1. running[s] <= admitted /\ running[s] \in Nat
    BY RegistryParts DEF RegistryInv, GivenOut
  <2> QED
    BY <1>1, <2>1
<1>4. ASSUME NEW c \in Class, NEW n \in 1 .. Len(queue[c])
      PROVE  queue[c][n] < j
  <2>1. Waiting(queue[c][n])
    BY DEF Waiting
  <2>2. queue[c][n] \in Id /\ Unended(queue[c][n])
    BY <2>1, RegistryParts, WaitingIs
  <2> QED
    BY <1>2, <2>2
<1> QED
  BY <1>2, <1>3, <1>4

\* admit: a job starts, in local mode, in a slot no job waits for, or it is
\* the last of its queue.
LEMMA AdmitPlaces ==
    ASSUME RegistryInv, NEW c \in Client, NEW k \in Key, Admit(c, k)
    PROVE  HeldStep /\ Rest'
<1> DEFINE j == admitted + 1
           new(class) == [NoJob EXCEPT !.key = k, !.class = class,
                                       !.persisted = ~durable]
<1>1. PICK class \in Class :
        /\ active[k] = None /\ j \in Id /\ admitted' = j
        /\ job' = [job EXCEPT ![j] = new(class)]
        /\ client' = IF durable
                     THEN [client EXCEPT ![c] = [pc |-> "inserting", id |-> j]]
                     ELSE client
        /\ UNCHANGED <<durable, row, agents, stopping, stalled, restarts>>
        /\ IF StartableSlots(class) # {} /\ ~durable
           THEN /\ running' = [running EXCEPT ![Min(StartableSlots(class))] = j]
                /\ UNCHANGED queue
           ELSE /\ queue' = [queue EXCEPT ![class] = Append(@, j)]
                /\ UNCHANGED running
  BY BindTyped, Zenon DEF Admit
<1> DEFINE x == new(class)
           slots == StartableSlots(class)
<1>2. x # NoJob /\ ~x.ended /\ x.class = class /\ x.persisted = ~durable
  <2>1. x.key = k /\ k # "none"
    BY DEF NoJob
  <2>2. ~x.ended /\ x.class = class /\ x.persisted = ~durable
    BY DEF NoJob
  <2>3. NoJob.key = "none"
    BY DEF NoJob
  <2> QED
    BY <2>1, <2>2, <2>3
<1>3. /\ job \in [Id -> JobRec] /\ client \in [Client -> ClientRec]
      /\ admitted \in Nat /\ j \in Nat
  BY RegistryParts DEF Kept
<1> HIDE DEF j, new
<1>4. j \in Id /\ job'[j] = x /\ \A i \in Id \ {j} : job'[i] = job[i]
  BY <1>1, <1>3
<1>5. /\ \A s \in Slot : running[s] # j
      /\ \A i \in Id : Unended(i) => i < j
      /\ \A d \in Class : \A n \in 1 .. Len(queue[d]) : queue[d][n] < j
  <2>1. j > admitted
    BY <1>3 DEF j
  <2> QED
    BY <1>4, <2>1, FreshNumber
<1> HIDE DEF x
<1>6. ASSUME NEW d \in Class
      PROVE  InOrder(d, queue[d], running, job')
  <2> SUFFICES ASSUME NEW n \in 1 .. Len(queue[d])
               PROVE  job'[queue[d][n]] = job[queue[d][n]]
    BY RegistryParts DEF InOrder
  <2>1. queue[d][n] \in Id /\ queue[d][n] < j
    BY <1>5, RegistryParts
  <2> QED
    BY <1>4, <2>1
<1>7. ASSUME slots # {} /\ ~durable
      PROVE  HeldStep /\ Local'
  <2> DEFINE s == Min(slots)
  <2>1. running' = [running EXCEPT ![s] = j] /\ UNCHANGED queue
    BY <1>1, <1>7
  <2>2. s \in slots
    <3>1. slots \subseteq Nat
      BY SlotsAre DEF StartableSlots
    <3> HIDE DEF slots
    <3> QED
      BY <1>7, <3>1, LeastOf
  <2>3. s \in Slot /\ running[s] = None /\ SlotClass[s] >= class
    BY <2>2 DEF StartableSlots
  <2> HIDE DEF s, slots
  <2>4. class \in 0 .. SlotClass[s]
    BY <2>3, SlotTyped DEF Class
  <2>5. queue[class] = <<>>
    BY <1>7, <2>3, <2>4 DEF RegistryInv, Local
  <2>6. running' \in [Slot -> Id \cup {None}] /\ running'[s] = j
        /\ \A u \in Slot \ {s} : running'[u] = running[u]
    BY <1>4, <2>1, <2>3, RegistryParts
  <2>7. Alone(running')
    BY <1>4, <1>5, <2>3, <2>6, RegistryParts DEF Alone
  <2>8. ASSUME NEW d \in Class
        PROVE  InOrder(d, queue[d], running', job')
    <3>1. ASSUME NEW n \in 1 .. Len(queue[d]), NEW u \in Slot
          PROVE  running'[u] # queue[d][n]
      <4>1. queue[d][n] \in Nat /\ queue[d][n] < j /\ running[u] # queue[d][n]
        BY <1>5, RegistryParts DEF InOrder
      <4> QED
        BY <1>3, <2>6, <4>1
    <3> QED
      BY <1>6, <3>1 DEF InOrder
  <2>9. HeldInv'
    <3>1. queue' \in [Class -> Seq(Id)]
      BY <2>1, RegistryParts
    <3>2. Held' \in Places
      BY <2>6, <3>1 DEF Held, Places
    <3>3. Held'.queue = queue /\ Held'.running = running'
      BY <2>1 DEF Held
    <3> QED
      BY <2>7, <2>8, <3>2, <3>3 DEF HeldInv, Placed
  <2>10. Started(Held', running, job')
    <3>1. Held'.queue = queue /\ Held'.running = running'
      BY <2>1 DEF Held
    <3> QED
      BY <1>2, <1>4, <2>5, <2>6, <3>1 DEF Started
  <2>11. Local'
    <3>1. ASSUME NEW i \in Id, job'[i] # NoJob, ~job'[i].ended
          PROVE  job'[i].persisted
      BY <1>2, <1>4, <1>7, <3>1 DEF RegistryInv, Local, Unended
    <3>2. ASSUME NEW u \in Slot, running'[u] = None, NEW d \in 0 .. SlotClass[u]
          PROVE  queue'[d] = <<>>
      BY <1>4, <1>7, <2>1, <2>6, <3>2 DEF RegistryInv, Local
    <3>3. ~changed' /\ \A d \in Client : client'[d].pc = "idle"
      BY <1>1, <1>7 DEF RegistryInv, Local, agents
    <3> QED
      BY <3>1, <3>2, <3>3 DEF Local, Unended
  <2> QED
    BY <2>9, <2>10, <2>11 DEF HeldStep
<1>8. ASSUME ~ (slots # {} /\ ~durable)
      PROVE  HeldStep /\ Local'
  <2>1. queue' = [queue EXCEPT ![class] = Append(@, j)] /\ UNCHANGED running
    BY <1>1, <1>8
  <2>2. /\ Append(queue[class], j) \in Seq(Id)
        /\ InOrder(class, Append(queue[class], j), running, job')
    <3>1. queue[class] \in Seq(Id) /\ InOrder(class, queue[class], running, job')
      BY <1>6, RegistryParts
    <3>2. /\ job'[j] # NoJob /\ ~job'[j].ended /\ job'[j].class = class
          /\ \A n \in 1 .. Len(queue[class]) : queue[class][n] < j
      BY <1>2, <1>4, <1>5
    <3> QED
      BY <1>4, <1>5, <3>1, <3>2, AppendInOrder
  <2>3. /\ queue' \in [Class -> Seq(Id)]
        /\ \A d \in Class : InOrder(d, queue'[d], running, job')
    BY <1>6, <2>1, <2>2, RegistryParts
  <2>4. HeldInv'
    <3>1. Held' \in Places
      BY <2>1, <2>3, RegistryParts DEF Held, Places
    <3>2. Held'.queue = queue' /\ Held'.running = running
      BY <2>1 DEF Held
    <3> QED
      BY <2>3, <3>1, <3>2, RegistryParts DEF HeldInv, Placed
  <2>5. Started(Held', running, job')
    BY <2>1 DEF Started, Held
  <2>6. Local'
    <3> SUFFICES ASSUME ~durable
                 PROVE  Local'
      BY <1>1 DEF Local
    <3>1. ASSUME NEW i \in Id, job'[i] # NoJob, ~job'[i].ended
          PROVE  job'[i].persisted
      BY <1>2, <1>4, <3>1 DEF RegistryInv, Local, Unended
    <3>2. ASSUME NEW u \in Slot, running'[u] = None, NEW d \in 0 .. SlotClass[u]
          PROVE  queue'[d] = <<>>
      <4>1. u \notin slots
        BY <1>8
      <4>2. ~ (SlotClass[u] >= class)
        BY <2>1, <3>2, <4>1 DEF StartableSlots, HasSpareAgent
      <4>3. d # class /\ d \in Class
        <5>1. SlotClass[u] \in 0 .. MaxClass /\ class \in Nat /\ MaxClass \in Nat
          BY SlotTyped, ScheduleAssumption DEF Class
        <5> QED
          BY <4>2, <5>1 DEF Class
      <4>4. queue[d] = <<>>
        BY <2>1, <3>2 DEF RegistryInv, Local
      <4> QED
        BY <2>1, <4>3, <4>4, RegistryParts
    <3>3. ~changed' /\ \A d \in Client : client'[d].pc = "idle"
      BY <1>1 DEF RegistryInv, Local, agents
    <3> QED
      BY <3>1, <3>2, <3>3 DEF Local, Unended
  <2> QED
    BY <2>4, <2>5, <2>6 DEF HeldStep
<1>9. Flags'
  BY <1>1, RegistryParts DEF Flags, agents
<1>10. RecordingEnded'
  <2> SUFFICES ASSUME NEW d \in Client, client'[d].pc = "recording"
               PROVE  ~Ongoing(job', client'[d].id)
    BY DEF RecordingEnded, Unended, Ongoing
  <2>1. client'[d] = client[d]
    BY <1>1, <1>3
  <2>2. client[d].id \in 1 .. admitted /\ ~Unended(client[d].id)
    BY <2>1 DEF RegistryInv, RecordingEnded, KeyInv, Fresh
  <2>3. client[d].id \in Id /\ client[d].id # j
    BY <1>3, <1>4, <2>2 DEF j
  <2>4. job'[client[d].id] = job[client[d].id]
    BY <1>4, <2>3
  <2> QED
    BY <2>1, <2>2, <2>4 DEF Unended, Ongoing
<1> QED
  BY <1>7, <1>8, <1>9, <1>10 DEF Rest

\* A request's place when it moves on.
LEMMA ClientHas ==
    ASSUME RegistryInv, NEW c \in Client, client[c].pc # "idle"
    PROVE  client[c].id \in Id /\ client[c].id \in 1 .. admitted
  BY RegistryParts DEF Kept, Fresh

\* persist_admission and persist_terminal move no job.
LEMMA InsertPlaces ==
    ASSUME RegistryInv, NEW c \in Client, InsertJob(c)
    PROVE  HeldStep /\ Rest'
<1>1. /\ UNCHANGED <<durable, job, queue, running, agents, stopping, stalled, restarts>>
      /\ client[c].pc = "inserting"
      /\ \/ client' = [client EXCEPT ![c].pc = "admitting"]
         \/ client' = [client EXCEPT ![c].pc = "abandoning"]
  BY DEF InsertJob, registry, ClientGoes, ClientAt
<1>2. Goes(c)
  BY <1>1, RegistryParts, GoesTyped
<1>3. client'[c].pc # "recording"
  BY <1>1, RegistryParts DEF Kept, ClientRec
<1>4. RecordingEnded'
  <2>1. \A j \in Id : ~Unended(j) => ~Ongoing(job', j)
    BY <1>1 DEF Unended, Ongoing
  <2> QED
    BY <1>2, <1>3, <2>1, EndsStay
<1>5. HeldStep
  BY <1>1, RegistryParts, StillHeld
<1>6. Local'
  BY <1>1, InWorkerMode
<1>7. Flags'
  BY <1>1, RegistryParts DEF Flags, agents
<1> QED
  BY <1>4, <1>5, <1>6, <1>7 DEF Rest

LEMMA RecordEndPlaces ==
    ASSUME RegistryInv, NEW c \in Client, RecordEnd(c)
    PROVE  HeldStep /\ Rest'
<1> DEFINE j == client[c].id
<1>1. /\ UNCHANGED <<durable, queue, running, agents, stopping, stalled, restarts>>
      /\ client[c].pc = "recording"
      /\ job' = [job EXCEPT ![j] = NoJob]
      /\ client' = [client EXCEPT ![c] = Idle]
  BY DEF RecordEnd, ClientAt
<1>2. Goes(c) /\ client'[c].pc = "idle"
  BY <1>1, RegistryParts, GoesTyped DEF Kept, Idle
<1>3. j \in Id /\ ~Unended(j)
  BY <1>1, ClientHas DEF RegistryInv, RecordingEnded
<1> HIDE DEF j
<1>4. job'[j] = NoJob /\ \A i \in Id \ {j} : job'[i] = job[i]
  BY <1>1, <1>3, RegistryParts DEF Kept
<1>5. \A i \in Id : ~Unended(i) => ~Ongoing(job', i)
  BY <1>4 DEF Unended, Ongoing
<1>6. RecordingEnded'
  BY <1>2, <1>5, EndsStay
<1>7. HeldStep
  <2>1. \A i \in Id : Unended(i) => job'[i] = job[i]
    BY <1>3, <1>4
  <2> QED
    BY <1>1, <2>1, RegistryParts, StillHeld
<1>8. Local'
  BY <1>1, InWorkerMode
<1>9. Flags'
  BY <1>1, RegistryParts DEF Flags, agents
<1> QED
  BY <1>6, <1>7, <1>8, <1>9 DEF Rest

\* admitted: the job that waits, if it does, may be started from now on.
LEMMA AdmittedIs ==
    ASSUME RegistryInv, NEW c \in Client, Admitted(c)
    PROVE  /\ Placed([queue |-> queue, running |-> running], job')
           /\ \A i \in Id : Ongoing(job', i) =>
                Unended(i) /\ (~job'[i].persisted => job'[i] = job[i])
           /\ Waiting(client[c].id) => job'[client[c].id].persisted
<1> DEFINE j == client[c].id
<1>1. /\ client[c].pc = "admitting"
      /\ job' = IF InQueue(j) THEN [job EXCEPT ![j].persisted = TRUE] ELSE job
  BY Zenon DEF Admitted, ClientAt
<1>2. j \in Id
  BY <1>1, ClientHas
<1> HIDE DEF j
<1>3. InQueue(j) <=> Waiting(j)
  <2>1. \A d \in Class : queue[d] \in Seq(Id)
    BY RegistryParts
  <2>2. \A d \in Class : j \in ToSet(queue[d]) <=> \E n \in 1 .. Len(queue[d]) : queue[d][n] = j
    BY <2>1 DEF ToSet
  <2> QED
    BY <2>2 DEF InQueue, Waiting
<1>4. CASE ~Waiting(j)
  <2>1. UNCHANGED job
    BY <1>1, <1>3, <1>4
  <2>2. ASSUME NEW i \in Id, Waiting(i)
        PROVE  job'[i] # NoJob /\ ~job'[i].ended /\ job'[i].class = job[i].class
    BY <2>1, <2>2, RegistryParts, WaitingIs DEF Unended
  <2>3. \A s \in Slot : running[s] \in {None, running[s]}
    OBVIOUS
  <2>4. Placed([queue |-> queue, running |-> running], job')
    BY <2>2, <2>3, RegistryParts, PlacedSame
  <2> QED
    BY <1>4, <2>1, <2>4 DEF Ongoing, Unended, j
<1>5. CASE Waiting(j)
  <2> DEFINE x == [job[j] EXCEPT !.persisted = TRUE]
  <2>1. job[j] \in JobRec
    BY <1>2, RegistryParts DEF Kept
  <2>2. x # NoJob /\ x.ended = job[j].ended /\ x.class = job[j].class /\ x.persisted
    <3>1. x # NoJob /\ x.ended = job[j].ended
      BY <2>1, JobKinds
    <3>2. x.class = job[j].class /\ x.persisted
      BY <2>1 DEF JobRec
    <3> QED
      BY <3>1, <3>2
  <2>3. job' = [job EXCEPT ![j] = x]
    BY <1>1, <1>3, <1>5
  <2> HIDE DEF x
  <2>4. job'[j] = x /\ \A i \in Id \ {j} : job'[i] = job[i]
    BY <1>2, <2>3, RegistryParts DEF Kept
  <2>5. Unended(j)
    BY <1>5, RegistryParts, WaitingIs
  <2>6. ASSUME NEW i \in Id, Waiting(i)
        PROVE  job'[i] # NoJob /\ ~job'[i].ended /\ job'[i].class = job[i].class
    <3>1. Unended(i)
      BY <2>6, RegistryParts, WaitingIs
    <3> QED
      BY <2>2, <2>4, <2>5, <3>1 DEF Unended
  <2>7. \A s \in Slot : running[s] \in {None, running[s]}
    OBVIOUS
  <2>8. Placed([queue |-> queue, running |-> running], job')
    BY <2>6, <2>7, RegistryParts, PlacedSame
  <2>9. ASSUME NEW i \in Id, Ongoing(job', i)
        PROVE  Unended(i) /\ (~job'[i].persisted => job'[i] = job[i])
    BY <2>2, <2>4, <2>5, <2>9 DEF Ongoing, Unended
  <2> QED
    BY <2>2, <2>4, <2>8, <2>9 DEF j
<1> QED
  BY <1>4, <1>5

\* The slots look for jobs.
LEMMA AdmittedPlaces ==
    ASSUME RegistryInv, NEW c \in Client, Admitted(c)
    PROVE  HeldStep /\ Rest'
<1> DEFINE j == client[c].id
<1>1. /\ UNCHANGED <<durable, active, admitted, row, agents, stopping, restarts>>
      /\ client[c].pc = "admitting" /\ Answered(c)
      /\ Dispatches(queue, running, job')
  BY Zenon DEF Admitted, ClientAt
<1>2. /\ \/ client' = [client EXCEPT ![c] = Idle] /\ Unended(j)
         \/ client' = [client EXCEPT ![c].pc = "recording"] /\ ~Unended(j)
  BY <1>1, Zenon DEF Answered, ClientGoes
<1>3. j \in Id
  BY <1>1, ClientHas
<1>4. Goes(c)
  BY <1>2, RegistryParts, GoesTyped
<1>5. client'[c].pc # "recording" \/ ~Unended(j)
  BY <1>2, RegistryParts DEF Kept, Idle
<1>6. /\ Placed([queue |-> queue, running |-> running], job')
      /\ \A i \in Id : Ongoing(job', i) => Unended(i)
  BY AdmittedIs
<1>7. HeldStep
  <2>1. \A s \in Slot : running[s] \in {None, running[s]}
    OBVIOUS
  <2>2. Held' \in Places /\ Placed(Held', job') /\ Started(Held', running, job')
    BY <1>1, <1>6, <2>1, RegistryParts, DispatchesPlaces
  <2> QED
    BY <2>2 DEF HeldStep, HeldInv
<1> HIDE DEF j
<1>8. RecordingEnded'
  <2>1. client'[c].pc # "recording" \/ ~Ongoing(job', j)
    BY <1>3, <1>5, <1>6
  <2> QED
    BY <1>4, <1>6, <2>1, EndsStay DEF j
<1>9. Local'
  BY <1>1, InWorkerMode
<1>10. Flags'
  <2>1. stalled' \in BOOLEAN
    BY <1>1, RegistryParts, Zenon DEF Dispatches, Flags
  <2> QED
    BY <1>1, <2>1, RegistryParts DEF Flags, agents
<1> QED
  BY <1>7, <1>8, <1>9, <1>10 DEF Rest

\* A job leaves the queues.
LEMMA WithoutPlaces ==
    ASSUME RegistryInv, NEW j, queue' = Without(queue, j), UNCHANGED running,
           \A i \in Id : i # j => job'[i] = job[i]
    PROVE  HeldStep /\ \A d \in Class : WithoutIs(queue'[d], queue[d], j)
<1>1. ASSUME NEW d \in Class
      PROVE  /\ queue'[d] \in Seq(Id) /\ InOrder(d, queue'[d], running, job')
             /\ WithoutIs(queue'[d], queue[d], j)
  <2>1. queue'[d] = RemoveFirst(queue[d], j)
    BY DEF Without
  <2>2. queue[d] \in Seq(Id) /\ InOrder(d, queue[d], running, job)
    BY RegistryParts
  <2> QED
    BY <2>1, <2>2, WithoutInOrder
<1>2. queue' \in [Class -> Seq(Id)]
  BY <1>1 DEF Without
<1>3. Held'.queue = queue' /\ Held'.running = running
  BY DEF Held
<1>4. Held' \in Places
  BY <1>2, RegistryParts DEF Held, Places
<1>5. Started(Held', running, job')
  BY <1>3 DEF Started
<1>6. Placed(Held', job')
  BY <1>1, <1>3, RegistryParts DEF Placed
<1> QED
  BY <1>1, <1>4, <1>5, <1>6 DEF HeldStep, HeldInv

\* abandon: the job is withdrawn.
LEMMA AbandonPlaces ==
    ASSUME RegistryInv, NEW c \in Client, Abandon(c)
    PROVE  HeldStep /\ Rest'
<1> DEFINE j == client[c].id
<1>1. /\ client[c].pc = "abandoning"
      /\ queue' = Without(queue, j) /\ job' = [job EXCEPT ![j] = NoJob]
      /\ client' = [client EXCEPT ![c] = Idle] /\ stalled' = TRUE
      /\ UNCHANGED <<durable, running, agents, stopping, restarts>>
  BY Zenon DEF Abandon, ClientAt
<1>2. Goes(c) /\ client'[c].pc = "idle"
  BY <1>1, RegistryParts, GoesTyped DEF Kept, Idle
<1>3. j \in Id
  BY <1>1, ClientHas
<1> HIDE DEF j
<1>4. job'[j] = NoJob /\ \A i \in Id \ {j} : job'[i] = job[i]
  BY <1>1, <1>3, RegistryParts DEF Kept
<1>5. HeldStep
  BY <1>1, <1>4, WithoutPlaces
<1>6. RecordingEnded'
  <2>1. \A i \in Id : ~Unended(i) => ~Ongoing(job', i)
    BY <1>4 DEF Unended, Ongoing
  <2> QED
    BY <1>2, <2>1, EndsStay
<1>7. Local'
  BY <1>1, InWorkerMode
<1>8. Flags'
  BY <1>1, RegistryParts DEF Flags, agents
<1> QED
  BY <1>5, <1>6, <1>7, <1>8 DEF Rest

\* cancel_job: a waiting job leaves its queue.
LEMMA CancelPlaces ==
    ASSUME RegistryInv, NEW j \in Id, CancelJob(j)
    PROVE  HeldStep /\ Rest'
<1>1. /\ UNCHANGED <<durable, running, admitted, client, agents, stopping, stalled,
                     restarts>>
      /\ queue' = Without(queue, j)
      /\ job' = Over(j, InSlot(j) \/ ~job[j].persisted)
  BY Zenon DEF CancelJob
<1>2. /\ \A i \in Id \ {j} : job'[i] = job[i]
      /\ ~Ongoing(job', j)
  <2>1. job[j] \in JobRec
    BY RegistryParts DEF Kept
  <2>2. \/ job' = [job EXCEPT ![j] = NoJob]
        \/ job' = [job EXCEPT ![j] = [job[j] EXCEPT !.ended = TRUE]]
    BY <1>1 DEF Over
  <2>3. [job[j] EXCEPT !.ended = TRUE].ended
    BY <2>1, JobKinds
  <2> QED
    BY <2>2, <2>3, RegistryParts DEF Kept, Ongoing
<1>3. HeldStep /\ \A d \in Class : queue[d] = <<>> => queue'[d] = <<>>
  BY <1>1, <1>2, WithoutPlaces DEF WithoutIs
<1>4. \A i \in Id : Ongoing(job', i) => Unended(i) /\ job'[i] = job[i]
  BY <1>2 DEF Unended, Ongoing
<1>5. RecordingEnded'
  <2> SUFFICES ASSUME NEW d \in Client, client[d].pc = "recording"
               PROVE  ~Ongoing(job', client[d].id)
    BY <1>1 DEF RecordingEnded, Unended, Ongoing
  <2>1. client[d].id \in Id /\ ~Unended(client[d].id)
    BY ClientHas DEF RegistryInv, RecordingEnded
  <2> QED
    BY <1>4, <2>1
<1>6. Local'
  <2> SUFFICES ASSUME ~durable
               PROVE  Local'
    BY <1>1 DEF Local
  <2>1. \A i \in Id : Ongoing(job', i) => job'[i].persisted
    BY <1>4 DEF RegistryInv, Local
  <2>2. ASSUME NEW s \in Slot, running[s] = None, NEW d \in 0 .. SlotClass[s]
        PROVE  queue'[d] = <<>>
    <3>1. queue[d] = <<>>
      BY <2>2 DEF RegistryInv, Local
    <3>2. d \in Class
      <4>1. SlotClass[s] \in 0 .. MaxClass /\ MaxClass \in Nat
        BY SlotTyped, ScheduleAssumption DEF Class
      <4> QED
        BY <4>1 DEF Class
    <3> QED
      BY <1>3, <3>1, <3>2
  <2>3. ~changed /\ \A d \in Client : client[d].pc = "idle"
    BY DEF RegistryInv, Local
  <2> QED
    BY <1>1, <2>1, <2>2, <2>3 DEF Local, agents, Unended, Ongoing
<1>7. Flags'
  BY <1>1, RegistryParts DEF Flags, agents
<1> QED
  BY <1>3, <1>5, <1>6, <1>7 DEF Rest

\* A request that stays where it is records no end but one that came.
LEMMA EndsStill ==
    ASSUME RegistryInv, UNCHANGED client,
           \A i \in Id : Ongoing(job', i) => Unended(i)
    PROVE  RecordingEnded'
<1> SUFFICES ASSUME NEW d \in Client, client[d].pc = "recording"
             PROVE  ~Ongoing(job', client[d].id)
  BY DEF RecordingEnded, Unended, Ongoing
<1>1. client[d].id \in Id /\ ~Unended(client[d].id)
  BY ClientHas DEF RegistryInv, RecordingEnded
<1> QED
  BY <1>1

\* The hub's notices, a lease, and what local mode never does.
LEMMA OutsidePlaces ==
    ASSUME RegistryInv,
           \/ \E s \in Slot : Leased(s)
           \/ \E c \in Class : AgentsMove(c)
           \/ AgentsChanged
    PROVE  HeldStep /\ Rest'
<1>1. /\ UNCHANGED <<durable, job, client, stopping, restarts>>
      /\ durable \/ changed
  BY DEF Leased, AgentsMove, AgentsChanged, registry
<1>2. RecordingEnded'
  <2>1. \A i \in Id : Ongoing(job', i) => Unended(i)
    BY <1>1 DEF Ongoing, Unended
  <2> QED
    BY <1>1, <2>1, EndsStill
<1>3. Local'
  BY <1>1, InWorkerMode
<1>4. CASE \E s \in Slot : Leased(s)
  <2>1. UNCHANGED <<queue, running, live, changed, stalled>>
    BY <1>4 DEF Leased, registry, agents
  <2>2. HeldStep
    BY <1>1, <2>1, RegistryParts, StillHeld
  <2>3. Flags'
    BY <1>1, <2>1, RegistryParts DEF Flags
  <2> QED
    BY <1>2, <1>3, <2>2, <2>3 DEF Rest
<1>5. CASE \E c \in Class : AgentsMove(c)
  <2>1. PICK c \in Class : AgentsMove(c)
    BY <1>5
  <2>2. PICK n \in 0 .. Slots[c] : live' = [live EXCEPT ![c] = n]
    BY <2>1 DEF AgentsMove
  <2>3. UNCHANGED <<queue, running, stalled>> /\ changed' = TRUE
    BY <2>1 DEF AgentsMove, registry
  <2>4. HeldStep
    BY <1>1, <2>3, RegistryParts, StillHeld
  <2>5. Flags'
    <3>1. live' \in [Class -> Nat] /\ \A d \in Class : live'[d] \in 0 .. Slots[d]
      <4>1. Slots[c] \in Nat
        BY ScheduleAssumption
      <4>2. live \in [Class -> Nat] /\ \A d \in Class : live[d] \in 0 .. Slots[d]
        BY RegistryParts DEF Flags
      <4> QED
        BY <2>2, <4>1, <4>2
    <3> QED
      BY <1>1, <2>3, <3>1, RegistryParts DEF Flags
  <2> QED
    BY <1>2, <1>3, <2>4, <2>5 DEF Rest
<1>6. CASE AgentsChanged
  <2>1. /\ changed' = FALSE /\ Dispatches(queue, running, job) /\ UNCHANGED live
    BY <1>6, Zenon DEF AgentsChanged
  <2>2. HeldStep
    <3>1. \A s \in Slot : running[s] \in {None, running[s]}
      OBVIOUS
    <3>2. Placed([queue |-> queue, running |-> running], job)
      BY RegistryParts DEF HeldInv, Held
    <3>3. Held' \in Places /\ Placed(Held', job) /\ Started(Held', running, job)
      BY <2>1, <3>1, <3>2, RegistryParts, DispatchesPlaces
    <3> QED
      BY <1>1, <3>3 DEF HeldStep, HeldInv
  <2>3. Flags'
    <3>1. stalled' \in BOOLEAN
      BY <2>1, RegistryParts, Zenon DEF Dispatches, Flags
    <3> QED
      BY <1>1, <2>1, <3>1, RegistryParts DEF Flags
  <2> QED
    BY <1>2, <1>3, <2>2, <2>3 DEF Rest
<1> QED
  BY <1>4, <1>5, <1>6

\* shutdown: in local mode nothing waits any more.
LEMMA ShutdownPlaces ==
    ASSUME RegistryInv, Shutdown
    PROVE  HeldStep /\ Rest'
<1>1. /\ stopping' = TRUE
      /\ UNCHANGED <<durable, running, admitted, row, client, agents, stalled,
                     restarts>>
      /\ IF durable THEN UNCHANGED <<job, active, queue>>
         ELSE /\ job' = [j \in Id |-> IF InSlot(j) THEN [job[j] EXCEPT !.ended = TRUE]
                                      ELSE NoJob]
              /\ queue' = [c \in Class |-> <<>>]
  BY Zenon DEF Shutdown
<1>2. Flags'
  BY <1>1, RegistryParts DEF Flags, agents
<1>3. CASE durable
  <2>1. HeldStep
    BY <1>1, <1>3, RegistryParts, StillHeld
  <2>2. RecordingEnded'
    <3>1. \A i \in Id : Ongoing(job', i) => Unended(i)
      BY <1>1, <1>3 DEF Ongoing, Unended
    <3> QED
      BY <1>1, <3>1, EndsStill
  <2>3. Local'
    BY <1>1, <1>3 DEF Local
  <2> QED
    BY <1>2, <2>1, <2>2, <2>3 DEF Rest
<1>4. CASE ~durable
  <2>1. ASSUME NEW i \in Id
        PROVE  ~Ongoing(job', i)
    <3>1. job[i] \in JobRec
      BY RegistryParts DEF Kept
    <3>2. [job[i] EXCEPT !.ended = TRUE].ended
      BY <3>1, JobKinds
    <3> QED
      BY <1>1, <1>4, <3>2 DEF Ongoing
  <2>2. queue' = [c \in Class |-> <<>>]
    BY <1>1, <1>4
  <2>3. Held'.queue = queue' /\ Held'.running = running
    BY <1>1 DEF Held
  <2>4. Held' \in Places
    BY <1>1, <2>2, RegistryParts DEF Held, Places
  <2>5. Placed(Held', job')
    <3>1. \A c \in Class : Len(queue'[c]) = 0
      BY <2>2
    <3> QED
      BY <2>3, <3>1, RegistryParts DEF Placed, InOrder
  <2>6. HeldStep
    BY <2>3, <2>4, <2>5 DEF HeldStep, HeldInv, Started
  <2>7. RecordingEnded'
    BY <1>1, <2>1, EndsStill
  <2>8. Local'
    <3>1. ASSUME NEW s \in Slot, NEW d \in 0 .. SlotClass[s]
          PROVE  queue'[d] = <<>>
      <4>1. SlotClass[s] \in 0 .. MaxClass /\ MaxClass \in Nat
        BY SlotTyped, ScheduleAssumption DEF Class
      <4>2. d \in Class
        BY <4>1 DEF Class
      <4> QED
        BY <2>2, <4>2
    <3> QED
      BY <1>1, <1>4, <2>1, <3>1 DEF RegistryInv, Local, agents, Unended, Ongoing
  <2> QED
    BY <1>2, <2>6, <2>7, <2>8 DEF Rest
<1> QED
  BY <1>3, <1>4

\* In local mode a slot that is left idle has no job to take.
LEMMA HandsOverLocal ==
    ASSUME RegistryInv, ~durable, NEW s \in Slot, NEW jobs, NEW moved,
           HandsOver(s, queue, jobs, moved),
           Placed([queue |-> queue, running |-> [running EXCEPT ![s] = None]], jobs),
           \A j \in Id : Waiting(j) => jobs[j].persisted
    PROVE  \A u \in Slot : running'[u] = None =>
             \A d \in 0 .. SlotClass[u] : queue'[d] = <<>>
<1> DEFINE r == [running EXCEPT ![s] = None]
           at == [queue |-> queue, running |-> r]
           taken == TakeNext(s, at, jobs, live)
<1>1. queue \in [Class -> Seq(Id)] /\ running \in [Slot -> Id \cup {None}]
  BY RegistryParts
<1>2. /\ Held' \in Places /\ Less(at, Held', jobs)
  BY <1>1, HandsOverPlaces
<1>3. Becomes(taken)
  BY Zenon DEF HandsOver
<1>4. at \in Places /\ at.queue = queue /\ at.running = r
  BY <1>1 DEF Places
<1>5. queue' \in [Class -> Seq(Id)] /\ Held'.queue = queue' /\ Held'.running = running'
  BY <1>2 DEF Held, Places
<1>6. \A u \in Slot : SlotClass[u] \in Class /\ 0 .. SlotClass[u] \subseteq Class
  <2>1. ASSUME NEW u \in Slot
        PROVE  SlotClass[u] \in Class /\ 0 .. SlotClass[u] \subseteq Class
    <3>1. SlotClass[u] \in 0 .. MaxClass /\ MaxClass \in Nat
      BY SlotTyped, ScheduleAssumption DEF Class
    <3> QED
      BY <3>1 DEF Class
  <2> QED
    BY <2>1
<1>7. ASSUME NEW u \in Slot, \A d \in 0 .. SlotClass[u] : queue[d] = <<>>
      PROVE  \A d \in 0 .. SlotClass[u] : queue'[d] = <<>>
  <2> SUFFICES ASSUME NEW d \in 0 .. SlotClass[u]
               PROVE  queue'[d] = <<>>
    OBVIOUS
  <2>1. d \in Class /\ queue[d] = <<>> /\ queue'[d] \in Seq(Id)
    BY <1>5, <1>6, <1>7
  <2>2. \A n \in 1 .. Len(queue'[d]) : \E m \in 1 .. Len(queue[d]) : TRUE
    BY <1>2, <1>4, <1>5, <2>1 DEF Less
  <2>3. Len(queue'[d]) \in Nat /\ (Len(queue'[d]) > 0 => 1 \in 1 .. Len(queue'[d]))
    BY <2>1
  <2>4. Len(queue[d]) = 0
    BY <2>1
  <2> QED
    BY <2>1, <2>2, <2>3, <2>4
<1> SUFFICES ASSUME NEW u \in Slot, running'[u] = None
             PROVE  \A d \in 0 .. SlotClass[u] : queue[d] = <<>>
  BY <1>7
<1>8. CASE u # s
  <2>1. r[u] = running[u]
    BY <1>8, <1>1
  <2>2. running[u] = None
    BY <1>2, <1>4, <1>5, <2>1 DEF Less
  <2> QED
    BY <2>2 DEF RegistryInv, Local
<1>9. CASE u = s
  <2> DEFINE c == SlotClass[s]
             e == NextFor(c, queue)
             d == NextQueueFor(s, queue, r, jobs, live)
  <2>1. r[s] = None /\ c \in Class
    BY <1>1, <1>6
  <2>2. d = NoClass
    <3> SUFFICES ASSUME d # NoClass
                 PROVE  FALSE
      OBVIOUS
    <3>1. taken = [queue |-> [queue EXCEPT ![d] = Tail(@)],
                   running |-> [r EXCEPT ![s] = Head(queue[d])]]
      BY <1>4, <2>1 DEF TakeNext
    <3>2. running' = [r EXCEPT ![s] = Head(queue[d])]
      <4> HIDE DEF taken, d, r
      <4> QED
        BY <1>3, <3>1 DEF Becomes
    <3>3. d = e /\ e # NoClass
      BY DEF NextQueueFor
    <3>4. d \in 0 .. c /\ queue[d] # <<>>
      BY <2>1, <3>3, NextForIs
    <3> HIDE DEF d
    <3>5. d \in Class
      BY <1>6, <3>4
    <3>6. Head(queue[d]) \in Id
      BY <1>1, <3>4, <3>5
    <3>7. running'[s] = Head(queue[d])
      BY <1>1, <3>2
    <3> QED
      BY <1>9, <3>6, <3>7
  <2>3. e = NoClass
    <3> SUFFICES ASSUME e # NoClass
                 PROVE  FALSE
      OBVIOUS
    <3>1. e \in 0 .. c /\ queue[e] # <<>>
      BY <2>1, NextForIs
    <3>2. e \in Class
      BY <1>6, <3>1
    <3>3. Waiting(Head(queue[e])) /\ Head(queue[e]) \in Id
      <4> HIDE DEF e
      <4>1. queue[e] \in Seq(Id)
        BY <1>1, <3>2
      <4>2. 1 \in 1 .. Len(queue[e]) /\ Head(queue[e]) = queue[e][1]
            /\ Head(queue[e]) \in Id
        BY <3>1, <4>1
      <4> QED
        BY <3>2, <4>2 DEF Waiting
    <3>4. jobs[Head(queue[e])].persisted
      BY <3>3
    <3>5. HasSpareAgent(c, r, live)
      BY DEF HasSpareAgent
    <3>6. d = e
      BY <3>4, <3>5 DEF NextQueueFor
    <3> QED
      BY <2>2, <3>6
  <2>4. \A f \in 0 .. c : queue[f] = <<>>
    <3> HIDE DEF c
    <3> QED
      BY <2>1, <2>3, NextForIs
  <2> QED
    BY <1>9, <2>4
<1> QED
  BY <1>8, <1>9

\* worker_loop: the job is over, or is left, and its slot is handed on.
LEMMA RunEndsIs ==
    ASSUME RegistryInv, NEW s \in Slot, RunEnds(s) \/ RunLeft(s)
    PROVE  /\ HandsOver(s, queue, job', FALSE) /\ running[s] # None
           /\ UNCHANGED <<durable, admitted, client, agents, stopping, restarts>>
           /\ Placed([queue |-> queue, running |-> [running EXCEPT ![s] = None]], job')
           /\ \A i \in Id : Waiting(i) => Unended(i) /\ job'[i] = job[i]
           /\ \A i \in Id : Ongoing(job', i) => Unended(i) /\ job'[i] = job[i]
<1> DEFINE j == running[s]
           r == [running EXCEPT ![s] = None]
<1>1. /\ j # None
      /\ \/ job' = [job EXCEPT ![j] = NoJob]
         \/ UNCHANGED job /\ durable
      /\ HandsOver(s, queue, job', FALSE)
      /\ UNCHANGED <<durable, admitted, client, agents, stopping, restarts>>
  BY Zenon DEF RunEnds, RunLeft
<1>2. j \in Id
  BY <1>1, RegistryParts
<1>3. /\ \A i \in Id \ {j} : job'[i] = job[i]
      /\ job'[j] = NoJob \/ job'[j] = job[j]
  BY <1>1, <1>2, RegistryParts DEF Kept
<1>4. \A i \in Id : Waiting(i) => Unended(i) /\ job'[i] = job[i]
  <2> SUFFICES ASSUME NEW i \in Id, Waiting(i)
               PROVE  Unended(i) /\ job'[i] = job[i]
    OBVIOUS
  <2>1. Unended(i) /\ i # j
    BY RegistryParts, WaitingIs
  <2> QED
    BY <1>3, <2>1
<1>5. Placed([queue |-> queue, running |-> r], job')
  <2>1. r \in [Slot -> Id \cup {None}] /\ \A u \in Slot : r[u] \in {None, running[u]}
    BY RegistryParts
  <2>2. \A i \in Id : Waiting(i) => /\ job'[i] # NoJob /\ ~job'[i].ended
                                    /\ job'[i].class = job[i].class
    BY <1>4 DEF Unended
  <2> HIDE DEF r
  <2> QED
    BY <2>1, <2>2, RegistryParts, PlacedSame
<1>6. \A i \in Id : Ongoing(job', i) => Unended(i) /\ job'[i] = job[i]
  BY <1>3 DEF Ongoing, Unended
<1> QED
  BY <1>1, <1>4, <1>5, <1>6

\* That moves no job but those it starts.
LEMMA RunEndsPlaces ==
    ASSUME RegistryInv, NEW s \in Slot, RunEnds(s) \/ RunLeft(s)
    PROVE  HeldStep /\ Rest'
<1>1. /\ HandsOver(s, queue, job', FALSE)
      /\ UNCHANGED <<durable, admitted, client, agents, stopping, restarts>>
      /\ Placed([queue |-> queue, running |-> [running EXCEPT ![s] = None]], job')
      /\ \A i \in Id : Waiting(i) => Unended(i) /\ job'[i] = job[i]
      /\ \A i \in Id : Ongoing(job', i) => Unended(i) /\ job'[i] = job[i]
  BY RunEndsIs
<1>2. HeldStep
  <2>1. Held' \in Places /\ Placed(Held', job') /\ Started(Held', running, job')
    BY <1>1, RegistryParts, HandsOverPlaces
  <2> QED
    BY <2>1 DEF HeldStep, HeldInv
<1>3. RecordingEnded'
  BY <1>1, EndsStill
<1>4. Local'
  <2> SUFFICES ASSUME ~durable
               PROVE  Local'
    BY <1>1 DEF Local
  <2>1. \A i \in Id : Waiting(i) => job'[i].persisted
    BY <1>1 DEF RegistryInv, Local
  <2>2. \A u \in Slot : running'[u] = None =>
          \A d \in 0 .. SlotClass[u] : queue'[d] = <<>>
    BY <1>1, <2>1, HandsOverLocal
  <2>3. \A i \in Id : Ongoing(job', i) => job'[i].persisted
    BY <1>1 DEF RegistryInv, Local
  <2> QED
    BY <1>1, <2>2, <2>3 DEF RegistryInv, Local, agents, Unended, Ongoing
<1>5. Flags'
  <2>1. stalled' \in BOOLEAN
    BY <1>1, RegistryParts, Zenon DEF HandsOver, Dispatches, Flags
  <2> QED
    BY <1>1, <2>1, RegistryParts DEF Flags, agents
<1> QED
  BY <1>2, <1>3, <1>4, <1>5 DEF Rest

\* The queues with a job that came back, unless a stop keeps it away.
Refilled(j, class) ==
    IF stopping THEN queue ELSE [queue EXCEPT ![class] = InsertByOrder(@, j)]

\* worker_loop: the job goes to a queue, in its order.
LEMMA RequeuedIs ==
    ASSUME RegistryInv, NEW s \in Slot, RunRequeued(s)
    PROVE  /\ durable /\ UNCHANGED <<durable, client, agents, stopping, restarts>>
           /\ running[s] \in Id /\ Unended(running[s])
           /\ \A i \in Id : Waiting(i) => i # running[s] /\ job'[i] = job[i]
           /\ \A i \in Id : Ongoing(job', i) =>
                Unended(i) /\ job'[i].persisted = job[i].persisted
           /\ \E class \in Class :
                /\ HandsOver(s, Refilled(running[s], class), job',
                             class # SlotClass[s])
                /\ Refilled(running[s], class) \in [Class -> Seq(Id)]
                /\ Placed([queue |-> Refilled(running[s], class),
                           running |-> [running EXCEPT ![s] = None]], job')
<1> DEFINE j == running[s]
           r == [running EXCEPT ![s] = None]
<1>1. PICK class \in job[j].class .. MaxClass :
        /\ durable /\ j # None /\ Unended(j)
        /\ job' = [job EXCEPT ![j].class = class, ![j].again = TRUE]
        /\ HandsOver(s, IF stopping THEN queue
                        ELSE [queue EXCEPT ![class] = InsertByOrder(@, j)],
                     job', class # SlotClass[s])
        /\ UNCHANGED <<durable, active, admitted, client, agents, stopping,
                       restarts>>
  BY Zenon DEF RunRequeued
<1> DEFINE q == IF stopping THEN queue
                ELSE [queue EXCEPT ![class] = InsertByOrder(@, j)]
           x == [job[j] EXCEPT !.class = class, !.again = TRUE]
<1>2. j \in Id /\ job[j] \in JobRec
  BY <1>1, RegistryParts DEF Kept
<1>3. class \in Class
  BY <1>2, ScheduleAssumption DEF JobRec, Class
<1>4. x # NoJob /\ ~x.ended /\ x.class = class /\ x.persisted = job[j].persisted
  <2>1. x # NoJob /\ x.ended = job[j].ended
    <3>1. row[j] \in RowRec
      BY <1>2, RegistryParts DEF Kept
    <3> QED
      BY <1>2, <1>3, <3>1, MovedKinds
  <2>2. x.class = class /\ x.persisted = job[j].persisted
    BY <1>2 DEF JobRec
  <2> QED
    BY <1>1, <2>1, <2>2 DEF Unended
<1>5. job'[j] = x /\ \A i \in Id \ {j} : job'[i] = job[i]
  BY <1>1, <1>2, RegistryParts DEF Kept
<1> HIDE DEF x
<1>6. \A i \in Id : Waiting(i) => Unended(i) /\ i # j /\ job'[i] = job[i]
  <2> SUFFICES ASSUME NEW i \in Id, Waiting(i)
               PROVE  Unended(i) /\ i # j /\ job'[i] = job[i]
    OBVIOUS
  <2>1. Unended(i) /\ i # j
    BY RegistryParts, WaitingIs
  <2> QED
    BY <1>5, <2>1
<1>7. /\ r \in [Slot -> Id \cup {None}]
      /\ \A u \in Slot : r[u] \in {None, running[u]} /\ r[u] # j
  BY <1>2, RegistryParts DEF Alone
<1>8. Placed([queue |-> queue, running |-> r], job')
  <2>1. \A i \in Id : Waiting(i) => /\ job'[i] # NoJob /\ ~job'[i].ended
                                    /\ job'[i].class = job[i].class
    BY <1>6 DEF Unended
  <2> HIDE DEF r
  <2> QED
    BY <1>7, <2>1, RegistryParts, PlacedSame
<1> HIDE DEF r
<1>9. Alone(r) /\ \A d \in Class : InOrder(d, queue[d], r, job')
  BY <1>8 DEF Placed
<1>10. /\ InsertByOrder(queue[class], j) \in Seq(Id)
       /\ InOrder(class, InsertByOrder(queue[class], j), r, job')
  <2>1. queue[class] \in Seq(Id) /\ InOrder(class, queue[class], r, job')
    BY <1>3, <1>9, RegistryParts
  <2>2. \A n \in 1 .. Len(queue[class]) : queue[class][n] # j
    <3> SUFFICES ASSUME NEW n \in 1 .. Len(queue[class])
                 PROVE  queue[class][n] # j
      OBVIOUS
    <3>1. Waiting(queue[class][n])
      BY <1>3 DEF Waiting
    <3>2. queue[class][n] \in Id
      BY <3>1, RegistryParts, WaitingIs
    <3> QED
      BY <1>6, <3>1, <3>2
  <2>3. /\ job'[j] # NoJob /\ ~job'[j].ended /\ job'[j].class = class
        /\ \A u \in Slot : r[u] # j
    BY <1>4, <1>5, <1>7
  <2> HIDE DEF j
  <2> QED
    BY <1>2, <2>1, <2>2, <2>3, InsertTyped, InsertInOrder
<1> HIDE DEF j
<1>11. q \in [Class -> Seq(Id)] /\ \A d \in Class : InOrder(d, q[d], r, job')
  BY <1>3, <1>9, <1>10, RegistryParts
<1>12. Placed([queue |-> q, running |-> r], job')
  BY <1>9, <1>11 DEF Placed
<1>13. HandsOver(s, q, job', class # SlotClass[s])
  BY <1>1
<1> HIDE DEF q
<1>14. \A i \in Id : Ongoing(job', i) =>
         Unended(i) /\ job'[i].persisted = job[i].persisted
  BY <1>1, <1>4, <1>5 DEF Ongoing, Unended
<1>15. q = Refilled(j, class)
  BY DEF q, Refilled
<1>16. /\ HandsOver(s, Refilled(j, class), job', class # SlotClass[s])
       /\ Refilled(j, class) \in [Class -> Seq(Id)]
       /\ Placed([queue |-> Refilled(j, class),
                  running |-> [running EXCEPT ![s] = None]], job')
  BY <1>11, <1>12, <1>13, <1>15 DEF r
<1> QED
  BY <1>1, <1>2, <1>3, <1>6, <1>14, <1>16 DEF j

\* That moves no other job but the one it starts.
LEMMA RequeuedPlaces ==
    ASSUME RegistryInv, NEW s \in Slot, RunRequeued(s)
    PROVE  HeldStep /\ Rest'
<1>1. /\ durable /\ UNCHANGED <<durable, client, agents, stopping, restarts>>
      /\ \A i \in Id : Ongoing(job', i) => Unended(i)
  BY RequeuedIs
<1>2. PICK class \in Class :
        /\ HandsOver(s, Refilled(running[s], class), job', class # SlotClass[s])
        /\ Refilled(running[s], class) \in [Class -> Seq(Id)]
        /\ Placed([queue |-> Refilled(running[s], class),
                   running |-> [running EXCEPT ![s] = None]], job')
  BY RequeuedIs
<1>3. HeldStep
  <2>1. Held' \in Places /\ Placed(Held', job') /\ Started(Held', running, job')
    BY <1>2, RegistryParts, HandsOverPlaces
  <2> QED
    BY <2>1 DEF HeldStep, HeldInv
<1>4. RecordingEnded'
  BY <1>1, EndsStill
<1>5. Local'
  BY <1>1 DEF Local
<1>6. Flags'
  <2>1. stalled' \in BOOLEAN
    BY <1>2, RegistryParts, Zenon DEF HandsOver, Dispatches, Flags
  <2> QED
    BY <1>1, <2>1, RegistryParts DEF Flags, agents
<1> QED
  BY <1>3, <1>4, <1>5, <1>6 DEF Rest

\* A row that is reloaded puts its job in one place.
LEMMA RestoreRowTyped ==
    ASSUME Kept, NEW at \in Places, NEW j \in Id
    PROVE  /\ RestoreRow(at, j) \in Places
           /\ \/ RestoreRow(at, j) = at
              \/ j \in Reloaded /\ \E s \in Slot :
                   /\ at.running[s] = None
                   /\ RestoreRow(at, j) = [queue |-> at.queue,
                                           running |-> [at.running EXCEPT ![s] = j]]
              \/ /\ j \in Reloaded
                 /\ RestoreRow(at, j) =
                      [queue |-> [at.queue EXCEPT ![row[j].class] = InsertByOrder(@, j)],
                       running |-> at.running]
<1> DEFINE class == row[j].class
           slots == {s \in Slot : at.running[s] = None /\ SlotClass[s] >= class}
           t == RestoreRow(at, j)
<1>1. class \in Class
  BY DEF Kept, RowRec
<1>2. /\ at = [queue |-> at.queue, running |-> at.running]
      /\ at.queue \in [Class -> Seq(Id)] /\ at.running \in [Slot -> Id \cup {None}]
  BY DEF Places
<1>3. CASE j \notin Reloaded
  <2>1. t = at
    BY <1>3 DEF RestoreRow
  <2> QED
    BY <2>1
<1>4. CASE j \in Reloaded /\ row[j].status = "leased" /\ slots # {}
  <2> DEFINE s == Min(slots)
  <2>1. t = [at EXCEPT !.running[s] = j]
    BY <1>4 DEF RestoreRow
  <2>2. s \in slots
    <3>1. slots \subseteq Nat
      BY SlotsAre
    <3> HIDE DEF slots
    <3> QED
      BY <1>4, <3>1, LeastOf
  <2>3. s \in Slot /\ at.running[s] = None
    BY <2>2
  <2> HIDE DEF t, s, slots
  <2>4. t = [queue |-> at.queue, running |-> [at.running EXCEPT ![s] = j]]
    BY <1>2, <2>1
  <2>5. [at.running EXCEPT ![s] = j] \in [Slot -> Id \cup {None}]
    BY <1>2
  <2>6. t \in Places
    BY <1>2, <2>4, <2>5 DEF Places
  <2> QED
    BY <1>4, <2>3, <2>4, <2>6 DEF t
<1>5. CASE j \in Reloaded /\ ~ (row[j].status = "leased" /\ slots # {})
  <2>1. t = [at EXCEPT !.queue[class] = InsertByOrder(@, j)]
    BY <1>5 DEF RestoreRow
  <2> HIDE DEF t, slots
  <2>2. t = [queue |-> [at.queue EXCEPT ![class] = InsertByOrder(@, j)],
             running |-> at.running]
    BY <1>2, <2>1
  <2>3. [at.queue EXCEPT ![class] = InsertByOrder(@, j)] \in [Class -> Seq(Id)]
    <3>1. InsertByOrder(at.queue[class], j) \in Seq(Id)
      BY <1>1, <1>2, InsertTyped
    <3> QED
      BY <1>2, <3>1
  <2>4. t \in Places
    BY <1>2, <2>2, <2>3 DEF Places
  <2> QED
    BY <1>5, <2>2, <2>4 DEF t
<1> QED
  BY <1>3, <1>4, <1>5

\* What the first k rows make, for the jobs `jobs` that are reloaded: only
\* they have places, each one, and those that wait do so in order.
RestoredTo(at, k, jobs) ==
    /\ Placed(at, jobs)
    /\ \A s \in Slot : at.running[s] # None =>
         at.running[s] \in Reloaded /\ at.running[s] <= k
    /\ \A c \in Class : \A n \in 1 .. Len(at.queue[c]) :
         at.queue[c][n] \in Reloaded /\ at.queue[c][n] <= k

LEMMA RestoreRowPlaces ==
    ASSUME Kept, NEW at \in Places, NEW k \in Nat, k + 1 \in Id, NEW jobs,
           \A j \in Reloaded : /\ jobs[j] # NoJob /\ ~jobs[j].ended
                               /\ jobs[j].class = row[j].class,
           RestoredTo(at, k, jobs)
    PROVE  RestoredTo(RestoreRow(at, k + 1), k + 1, jobs)
<1> DEFINE j == k + 1
           t == RestoreRow(at, j)
<1>1. j \in Id /\ j > k /\ j \in Nat
  OBVIOUS
<1>2. /\ at.queue \in [Class -> Seq(Id)] /\ at.running \in [Slot -> Id \cup {None}]
      /\ Alone(at.running)
      /\ \A c \in Class : InOrder(c, at.queue[c], at.running, jobs)
  BY DEF Places, RestoredTo, Placed
<1>3. ASSUME NEW s \in Slot
      PROVE  /\ at.running[s] # j
             /\ at.running[s] # None => /\ at.running[s] \in Reloaded
                                        /\ at.running[s] < j /\ at.running[s] <= j
  <2>1. at.running[s] \in Nat
    BY <1>2
  <2>2. at.running[s] # None => at.running[s] \in Reloaded /\ at.running[s] <= k
    BY DEF RestoredTo
  <2> QED
    BY <1>1, <2>1, <2>2
<1>4. ASSUME NEW c \in Class, NEW n \in 1 .. Len(at.queue[c])
      PROVE  /\ at.queue[c][n] \in Reloaded /\ at.queue[c][n] # j
             /\ at.queue[c][n] < j /\ at.queue[c][n] <= j
  <2>1. at.queue[c][n] \in Nat
    BY <1>2
  <2>2. at.queue[c][n] \in Reloaded /\ at.queue[c][n] <= k
    BY DEF RestoredTo
  <2> QED
    BY <1>1, <2>1, <2>2
<1> HIDE DEF j
<1>5. CASE t = at
  <2> HIDE DEF t
  <2>1. \A s \in Slot : t.running[s] # None =>
          t.running[s] \in Reloaded /\ t.running[s] <= j
    BY <1>2, <1>3, <1>5
  <2>2. \A c \in Class : \A n \in 1 .. Len(t.queue[c]) :
          t.queue[c][n] \in Reloaded /\ t.queue[c][n] <= j
    BY <1>2, <1>4, <1>5
  <2> QED
    BY <1>5, <2>1, <2>2 DEF RestoredTo, t, j
<1>6. ASSUME j \in Reloaded, NEW s \in Slot, at.running[s] = None,
             t = [queue |-> at.queue, running |-> [at.running EXCEPT ![s] = j]]
      PROVE  RestoredTo(t, j, jobs)
  <2> HIDE DEF t
  <2>1. t.queue = at.queue /\ t.running = [at.running EXCEPT ![s] = j]
    BY <1>6
  <2>2. t.running[s] = j /\ \A u \in Slot \ {s} : t.running[u] = at.running[u]
    BY <1>2, <2>1
  <2>3. Alone(t.running)
    BY <1>1, <1>2, <1>3, <2>2 DEF Alone
  <2>4. ASSUME NEW c \in Class
        PROVE  InOrder(c, t.queue[c], t.running, jobs)
    BY <1>2, <1>4, <2>1, <2>2 DEF InOrder
  <2>5. \A u \in Slot : t.running[u] # None => t.running[u] \in Reloaded /\ t.running[u] <= j
    BY <1>1, <1>2, <1>3, <1>6, <2>2
  <2>6. \A c \in Class : \A n \in 1 .. Len(t.queue[c]) :
          t.queue[c][n] \in Reloaded /\ t.queue[c][n] <= j
    <3>1. \A c \in Class : \A n \in 1 .. Len(t.queue[c]) : at.queue[c][n] \in Nat
      BY <1>2, <2>1
    <3> QED
      BY <1>1, <1>4, <2>1, <3>1
  <2> QED
    BY <2>3, <2>4, <2>5, <2>6 DEF RestoredTo, Placed
<1>7. ASSUME j \in Reloaded,
             t = [queue |-> [at.queue EXCEPT ![row[j].class] = InsertByOrder(@, j)],
                  running |-> at.running]
      PROVE  RestoredTo(t, j, jobs)
  <2> DEFINE class == row[j].class
             q == InsertByOrder(at.queue[class], j)
  <2> HIDE DEF t
  <2>1. class \in Class
    BY <1>1 DEF Kept, RowRec
  <2> HIDE DEF class
  <2>2. t.running = at.running /\ t.queue = [at.queue EXCEPT ![class] = q]
    BY <1>7 DEF class
  <2>3. at.queue[class] \in Seq(Id) /\ InOrder(class, at.queue[class], at.running, jobs)
    BY <1>2, <2>1
  <2>4. /\ jobs[j] # NoJob /\ ~jobs[j].ended /\ jobs[j].class = class
        /\ \A u \in Slot : at.running[u] # j
        /\ \A n \in 1 .. Len(at.queue[class]) : at.queue[class][n] # j
    BY <1>3, <1>4, <1>7, <2>1 DEF class
  <2>5. InOrder(class, q, at.running, jobs)
    BY <1>1, <2>3, <2>4, InsertInOrder
  <2>6. q \in Seq(Id) /\ \A n \in 1 .. Len(q) :
          q[n] = j \/ \E m \in 1 .. Len(at.queue[class]) : q[n] = at.queue[class][m]
    <3>1. PICK p \in 1 .. Len(at.queue[class]) + 1 :
            q = InsertAt(at.queue[class], p, j) /\ q \in Seq(Id)
      BY <1>1, <2>3, InsertTyped
    <3> HIDE DEF q
    <3>2. Inserted(q, at.queue[class], p, j)
      BY <1>1, <2>3, <3>1, InsertAtIs
    <3>3. Len(at.queue[class]) \in Nat
      BY <2>3
    <3>4. ASSUME NEW n \in 1 .. Len(q)
          PROVE  q[n] = j \/ \E m \in 1 .. Len(at.queue[class]) : q[n] = at.queue[class][m]
      <4>1. n \in 1 .. Len(at.queue[class]) + 1
        BY <3>2 DEF Inserted
      <4>2. CASE n < p
        BY <3>2, <3>3, <4>1, <4>2 DEF Inserted
      <4>3. CASE n = p
        BY <3>2, <4>1, <4>3 DEF Inserted
      <4>4. CASE n > p
        <5>1. q[n] = at.queue[class][n - 1] /\ n - 1 \in 1 .. Len(at.queue[class])
          BY <3>2, <3>3, <4>1, <4>4 DEF Inserted
        <5> QED
          BY <5>1
      <4> QED
        BY <3>3, <4>1, <4>2, <4>3, <4>4
    <3> QED
      BY <3>1, <3>4
  <2> HIDE DEF q
  <2>7. t.queue[class] = q /\ \A c \in Class \ {class} : t.queue[c] = at.queue[c]
    BY <1>2, <2>1, <2>2
  <2>8. \A c \in Class : InOrder(c, t.queue[c], t.running, jobs)
    BY <1>2, <2>2, <2>5, <2>7
  <2>9. \A u \in Slot : t.running[u] # None => t.running[u] \in Reloaded /\ t.running[u] <= j
    BY <1>1, <1>2, <1>3, <2>2
  <2>10. ASSUME NEW c \in Class, NEW n \in 1 .. Len(t.queue[c])
         PROVE  t.queue[c][n] \in Reloaded /\ t.queue[c][n] <= j
    <3>1. \A d \in Class : \A m \in 1 .. Len(at.queue[d]) :
            at.queue[d][m] \in Reloaded /\ at.queue[d][m] <= j
      <4>1. \A d \in Class : \A m \in 1 .. Len(at.queue[d]) : at.queue[d][m] \in Nat
        BY <1>2
      <4> QED
        BY <1>1, <1>4, <4>1
    <3>2. CASE c = class
      <4>1. n \in 1 .. Len(q) /\ t.queue[c][n] = q[n]
        BY <2>7, <3>2
      <4>2. CASE q[n] = j
        BY <1>1, <1>7, <4>1, <4>2
      <4>3. CASE \E m \in 1 .. Len(at.queue[class]) : q[n] = at.queue[class][m]
        BY <2>1, <3>1, <4>1, <4>3
      <4> QED
        BY <2>6, <4>1, <4>2, <4>3
    <3>3. CASE c # class
      BY <2>7, <3>1, <3>3
    <3> QED
      BY <3>2, <3>3
  <2> QED
    BY <1>2, <2>2, <2>8, <2>9, <2>10 DEF RestoredTo, Placed
<1>8. \/ t = at
      \/ j \in Reloaded /\ \E s \in Slot :
           /\ at.running[s] = None
           /\ t = [queue |-> at.queue, running |-> [at.running EXCEPT ![s] = j]]
      \/ /\ j \in Reloaded
         /\ t = [queue |-> [at.queue EXCEPT ![row[j].class] = InsertByOrder(@, j)],
                 running |-> at.running]
  BY <1>1, RestoreRowTyped
<1>9. RestoredTo(t, j, jobs)
  <2> HIDE DEF t
  <2> QED
    BY <1>5, <1>6, <1>7, <1>8 DEF t, j
<1> QED
  BY <1>9 DEF t, j

\* The whole table does.
LEMMA RestoredPlaces ==
    ASSUME Kept, NEW jobs,
           \A j \in Reloaded : /\ jobs[j] # NoJob /\ ~jobs[j].ended
                               /\ jobs[j].class = row[j].class
    PROVE  Restored \in Places /\ \E k \in Nat : RestoredTo(Restored, k, jobs)
<1>1. /\ NoneHeld \in Places
      /\ NoneHeld.running = [s \in Slot |-> None]
      /\ NoneHeld.queue = [c \in Class |-> <<>>]
  BY DEF NoneHeld, Places
<1>2. \A x \in Places : \A k \in Id : RestoreRow(x, k) \in Places
  BY RestoreRowTyped
<1>3. PICK n \in Nat : \E h \in [0 .. n -> Places] : ReloadOf(h, n)
  BY <1>1, <1>2, RestoreRuns
<1>4. PICK h \in [0 .. n -> Places] : ReloadOf(h, n)
  BY <1>3
<1> DEFINE Good == {k \in 0 .. n : RestoredTo(h[k], k, jobs)}
<1>5. 0 \in Good
  <2>1. h[0] = NoneHeld
    BY <1>4 DEF ReloadOf
  <2>2. \A c \in Class : Len(NoneHeld.queue[c]) = 0
    BY <1>1
  <2>3. RestoredTo(NoneHeld, 0, jobs)
    BY <1>1, <2>2 DEF RestoredTo, Placed, Alone, InOrder
  <2> QED
    BY <2>1, <2>3
<1>6. ASSUME NEW k \in 0 .. n - 1, k \in Good
      PROVE  k + 1 \in Good
  <2>1. k + 1 \in 1 .. n /\ (k + 1) - 1 = k /\ k + 1 \in 0 .. n /\ k \in 0 .. n
    OBVIOUS
  <2>2. h[k + 1] = RestoreRow(h[k], k + 1)
    <3>1. h[k + 1] = RestoreRow(h[(k + 1) - 1], k + 1)
      BY <1>4, <2>1, Zenon DEF ReloadOf
    <3> QED
      BY <2>1, <3>1
  <2>3. h[k] \in Places /\ RestoredTo(h[k], k, jobs)
    BY <1>6, <2>1
  <2>4. k \in Nat /\ k + 1 \in Id
    BY <1>4, <2>1 DEF ReloadOf
  <2>5. RestoredTo(RestoreRow(h[k], k + 1), k + 1, jobs)
    BY <2>3, <2>4, RestoreRowPlaces
  <2> QED
    BY <2>1, <2>2, <2>5
<1>7. n \in Good
  <2> HIDE DEF Good
  <2>1. 0 .. n \subseteq Good
    BY <1>5, <1>6, UpTo
  <2>2. n \in 0 .. n
    OBVIOUS
  <2> QED
    BY <2>1, <2>2
<1>8. h[n] = Restored /\ h[n] \in Places
  <2>1. n \in 0 .. n
    OBVIOUS
  <2> QED
    BY <1>4, <2>1 DEF ReloadOf
<1> QED
  BY <1>7, <1>8

\* restore: the next process has the jobs of the table, each in one place.
LEMMA RestartPlaces ==
    ASSUME RegistryInv, Restart
    PROVE  HeldInv' /\ GivenOut' /\ Rest' /\ restarts' # restarts
<1> DEFINE down == [c \in Class |-> 0]
<1>1. /\ durable /\ restarts < MaxRestarts /\ restarts' = restarts + 1
      /\ Becomes(DispatchIdle(Restored, job', down))
      /\ job' = [j \in Id |->
                   IF j \in Reloaded
                   THEN [NoJob EXCEPT !.key = row[j].key,
                                      !.class = row[j].class,
                                      !.persisted = TRUE,
                                      !.again = job[j].again]
                   ELSE NoJob]
      /\ client' = [c \in Client |-> Idle]
      /\ live' = down /\ changed' = FALSE
      /\ stopping' = FALSE /\ stalled' = FALSE
      /\ UNCHANGED <<durable, admitted>>
  BY Zenon DEF Restart
<1>2. ASSUME NEW j \in Reloaded
      PROVE  /\ job'[j] # NoJob /\ ~job'[j].ended /\ job'[j].class = row[j].class
             /\ j \in Id /\ j <= admitted
  <2>1. j \in Id /\ IsLive(row[j])
    BY DEF Reloaded
  <2>2. job'[j] = [NoJob EXCEPT !.key = row[j].key, !.class = row[j].class,
                                !.persisted = TRUE, !.again = job[j].again]
    BY <1>1, <1>2, <2>1
  <2>3. job'[j].persisted = TRUE /\ ~job'[j].ended /\ job'[j].class = row[j].class
    BY <2>2 DEF NoJob
  <2>4. job'[j] # NoJob
    BY <2>3 DEF NoJob
  <2>5. ~ (j > admitted) /\ admitted \in Nat
    BY <2>1, RegistryParts DEF Fresh, Kept
  <2> QED
    BY <2>1, <2>3, <2>4, <2>5
<1>3. PICK k \in Nat : Restored \in Places /\ RestoredTo(Restored, k, job')
  BY <1>2, RegistryParts, RestoredPlaces
<1>4. DispatchIdle(Restored, job', down) \in PlacesLeft(Restored, Restored.running, job')
  <2>1. Started(Restored, Restored.running, job')
    BY DEF Started
  <2> HIDE DEF down
  <2> QED
    BY <1>3, <2>1, DispatchPlaces DEF RestoredTo
<1> DEFINE t == DispatchIdle(Restored, job', down)
<1>5. t \in Places /\ Placed(t, job') /\ Started(t, Restored.running, job')
  BY <1>4 DEF PlacesLeft
<1>6. Held' = t
  BY <1>1, <1>5, BecomesHeld
<1> HIDE DEF t
<1>7. HeldInv'
  BY <1>5, <1>6 DEF HeldInv
<1>8. GivenOut'
  <2> SUFFICES ASSUME NEW s \in Slot
               PROVE  running'[s] <= admitted
    BY <1>1 DEF GivenOut
  <2>1. running' = t.running /\ t.running[s] \in Id \cup {None}
    BY <1>5, <1>6 DEF Held, Places
  <2>2. admitted \in Nat
    BY RegistryParts DEF Kept
  <2>3. CASE t.running[s] = None
    BY <2>1, <2>2, <2>3
  <2>4. CASE t.running[s] = Restored.running[s] /\ t.running[s] # None
    <3>1. Restored.running[s] \in Reloaded
      BY <1>3, <2>4 DEF RestoredTo
    <3> QED
      BY <1>2, <2>1, <2>4, <3>1
  <2>5. CASE t.running[s] \notin {None, Restored.running[s]}
    <3>1. job'[t.running[s]] # NoJob
      BY <1>5, <2>5 DEF Started
    <3>2. t.running[s] \in Id
      BY <2>1, <2>5
    <3>3. t.running[s] \in Reloaded
      BY <1>1, <3>1, <3>2
    <3> QED
      BY <1>2, <2>1, <3>3
  <2> QED
    BY <2>3, <2>4, <2>5
<1>9. Flags'
  <2>1. restarts \in 0 .. MaxRestarts
    BY RegistryParts DEF Flags
  <2>2. restarts' \in 0 .. MaxRestarts
    <3>1. restarts < MaxRestarts /\ restarts' = restarts + 1
      BY <1>1, Zenon
    <3> QED
      BY <2>1, <3>1
  <2>3. live' \in [Class -> Nat] /\ \A c \in Class : live'[c] \in 0 .. Slots[c]
    <3>1. \A c \in Class : Slots[c] \in Nat
      BY ScheduleAssumption
    <3>2. live' = down
      BY <1>1, Zenon
    <3> QED
      BY <3>1, <3>2
  <2> QED
    BY <1>1, <2>2, <2>3, RegistryParts DEF Flags
<1>10. RecordingEnded' /\ Local'
  BY <1>1 DEF RecordingEnded, Local, Idle
<1>11. restarts' # restarts
  <2>1. restarts \in Nat
    BY RegistryParts DEF Flags
  <2>2. restarts' = restarts + 1
    BY <1>1, Zenon
  <2> QED
    BY <2>1, <2>2
<1> QED
  BY <1>7, <1>8, <1>9, <1>10, <1>11 DEF Rest

-----------------------------------------------------------------------------
\* The theorems.

\* Every step keeps the invariant, and but for a restart starts in order.
LEMMA RegistryStep ==
    ASSUME RegistryInv, [Next]_vars
    PROVE  RegistryInv' /\ (restarts' = restarts => Started(Held', running, job'))
<1>1. KeyInv'
  BY RegistryParts, KeyStep
<1>2. ASSUME HeldStep, Rest', admitted <= admitted'
      PROVE  RegistryInv' /\ Started(Held', running, job')
  <2>1. GivenOut'
    BY <1>1, <1>2, GivenOutStays
  <2> QED
    BY <1>1, <1>2, <2>1 DEF RegistryInv, HeldStep, Rest
<1>3. admitted \in Nat
  BY RegistryParts DEF Kept
<1>4. CASE UNCHANGED vars
  <2>1. UNCHANGED <<durable, job, queue, running, admitted, client, live, changed,
                    stopping, stalled, restarts>>
    BY <1>4 DEF vars, registry, agents
  <2>2. HeldStep
    BY <2>1, RegistryParts, StillHeld
  <2>3. RecordingEnded'
    BY <2>1 DEF RegistryInv, RecordingEnded, Unended
  <2>4. Local'
    BY <2>1 DEF RegistryInv, Local, Unended
  <2>5. Flags'
    BY <2>1, RegistryParts DEF Flags
  <2> QED
    BY <1>2, <1>3, <2>1, <2>2, <2>3, <2>4, <2>5 DEF Rest
<1>5. ASSUME NEW c \in Client, Persist(c)
      PROVE  HeldStep /\ Rest' /\ UNCHANGED admitted
  <2>1. UNCHANGED admitted
    BY <1>5 DEF Persist, InsertJob, Admitted, Abandon, RecordEnd, registry
  <2> QED
    BY <1>5, <2>1, InsertPlaces, AdmittedPlaces, AbandonPlaces, RecordEndPlaces
       DEF Persist
<1>6. ASSUME NEW c \in Client, NEW k \in Key, Admit(c, k)
      PROVE  HeldStep /\ Rest' /\ admitted' = admitted + 1
  <2>1. admitted' = admitted + 1
    BY <1>6, Zenon DEF Admit
  <2> QED
    BY <1>6, <2>1, AdmitPlaces
<1>7. ASSUME NEW s \in Slot,
             Leased(s) \/ RunEnds(s) \/ RunRequeued(s) \/ RunLeft(s)
      PROVE  HeldStep /\ Rest' /\ UNCHANGED admitted
  <2>1. UNCHANGED admitted
    BY <1>7 DEF Leased, RunEnds, RunRequeued, RunLeft, registry
  <2> QED
    BY <1>7, <2>1, OutsidePlaces, RunEndsPlaces, RequeuedPlaces
<1>8. ASSUME \/ \E j \in Id : CancelJob(j)
             \/ \E c \in Class : AgentsMove(c)
             \/ AgentsChanged \/ Shutdown
      PROVE  HeldStep /\ Rest' /\ UNCHANGED admitted
  <2>1. UNCHANGED admitted
    BY <1>8 DEF CancelJob, AgentsMove, AgentsChanged, Shutdown, registry
  <2> QED
    BY <1>8, <2>1, CancelPlaces, OutsidePlaces, ShutdownPlaces
<1>9. CASE Restart
  BY <1>1, <1>9, RestartPlaces DEF RegistryInv, Rest
<1> QED
  BY <1>2, <1>3, <1>4, <1>5, <1>6, <1>7, <1>8, <1>9 DEF Next

\* The first process starts with it.
LEMMA RegistryInit == Init => RegistryInv
<1> SUFFICES ASSUME Init PROVE RegistryInv
  OBVIOUS
<1>1. KeyInv
  BY KeyInit
<1>2. queue = [c \in Class |-> <<>>] /\ running = [s \in Slot |-> None]
  BY DEF Init
<1>3. Held \in Places
  BY <1>2, HeldParts
<1>4. Placed(Held, job)
  <2>1. \A c \in Class : Len(queue[c]) = 0
    BY <1>2
  <2> QED
    BY <1>2, <2>1, HeldParts DEF Alone, InOrder
<1>5. Flags
  <2>1. \A c \in Class : Slots[c] \in Nat
    BY ScheduleAssumption
  <2>2. live = [c \in Class |-> 0]
    BY DEF Init
  <2>3. live \in [Class -> Nat] /\ \A c \in Class : live[c] \in 0 .. Slots[c]
    BY <2>1, <2>2
  <2>4. /\ durable \in BOOLEAN /\ {changed, stopping, stalled} \subseteq BOOLEAN
        /\ restarts = 0
    BY DEF Init
  <2> QED
    BY <2>3, <2>4 DEF Flags
<1>6. GivenOut /\ RecordingEnded
  BY DEF Init, GivenOut, RecordingEnded, Idle
<1>7. Local
  <2>1. ASSUME NEW s \in Slot, NEW d \in 0 .. SlotClass[s]
        PROVE  queue[d] = <<>>
    <3>1. SlotClass[s] \in 0 .. MaxClass /\ MaxClass \in Nat
      BY SlotTyped, ScheduleAssumption DEF Class
    <3>2. d \in Class
      BY <3>1 DEF Class
    <3> QED
      BY <1>2, <3>2
  <2> QED
    BY <2>1 DEF Init, Local, Unended, Idle
<1> QED
  BY <1>1, <1>3, <1>4, <1>5, <1>6, <1>7 DEF RegistryInv, HeldInv

\* The inductive invariant of the registry.
THEOREM RegistryInvariant == Spec => []RegistryInv
  BY RegistryInit, RegistryStep, PTL DEF Spec

\* jobs.rs: every part of the registry is of its kind.
THEOREM RegistryTyped == Spec => []TypeOK
<1>1. RegistryInv => TypeOK
  BY RegistryParts DEF TypeOK, Flags, Kept
<1> QED
  BY <1>1, RegistryInvariant, PTL

\* take_head, insert_by_order, retain, worker_loop and restore: no job is in
\* two slots, or waits while a slot has it, or waits twice; a queue holds, in
\* admission order, jobs of its class that have not ended.
THEOREM JobsInOnePlace == Spec => []InOnePlace
<1>1. ASSUME RegistryInv
      PROVE  InOnePlace
  <2>1. \A s, t \in Slot : running[s] = running[t] /\ running[s] # None => s = t
    BY <1>1, RegistryParts DEF Alone
  <2>2. ASSUME NEW c \in Class, NEW n \in DOMAIN queue[c]
        PROVE  /\ Unended(queue[c][n]) /\ job[queue[c][n]].class = c
               /\ ~InSlot(queue[c][n])
               /\ \A m \in 1 .. n - 1 : queue[c][m] < queue[c][n]
    <3>1. queue[c] \in Seq(Id) /\ InOrder(c, queue[c], running, job)
      BY <1>1, RegistryParts
    <3>2. n \in 1 .. Len(queue[c])
      BY <3>1
    <3> QED
      BY <3>1, <3>2 DEF InOrder, Unended, InSlot
  <2> QED
    BY <2>1, <2>2 DEF InOnePlace
<1> QED
  BY <1>1, RegistryInvariant, PTL

\* startable_slot_for, dispatch_idle and take_head: whoever frees or finds a
\* slot, the job that starts is the first of its class, among those that wait
\* to be written and those that came back too.
THEOREM NobodyOvertakes == Spec => NoOvertaking
<1>1. ASSUME RegistryInv, [Next]_vars, NEW s \in Slot,
             running'[s] # None, ~InSlot(running'[s]), restarts' = restarts
      PROVE  \A i \in ToSet(queue'[job'[running'[s]].class]) : i > running'[s]
  <2> DEFINE c == job'[running'[s]].class
  <2>1. Started(Held', running, job') /\ RegistryInv'
    BY <1>1, RegistryStep
  <2>2. running'[s] # running[s]
    BY <1>1 DEF InSlot
  <2>3. Held'.running = running' /\ Held'.queue = queue'
    BY DEF Held
  <2>4. c \in Class /\ \A n \in 1 .. Len(queue'[c]) : queue'[c][n] > running'[s]
    BY <1>1, <2>1, <2>2, <2>3 DEF Started
  <2>5. queue' \in [Class -> Seq(Id)]
    <3>1. Held' \in Places
      BY <2>1 DEF RegistryInv, HeldInv
    <3> QED
      BY <3>1 DEF Held, Places
  <2> HIDE DEF c
  <2>6. queue'[c] \in Seq(Id)
    BY <2>4, <2>5
  <2>7. \A i \in ToSet(queue'[c]) : i > running'[s]
    BY <2>4, <2>6 DEF ToSet
  <2> QED
    BY <2>7 DEF c
<1>2. RegistryInv /\ [Next]_vars =>
        [\A s \in Slot :
           LET j == running'[s] IN
           (j # None /\ ~InSlot(j) /\ restarts' = restarts)
           => \A i \in ToSet(queue'[job'[j].class]) : i > j]_vars
  BY <1>1
<1> QED
  BY <1>2, RegistryInvariant, PTL DEF Spec, NoOvertaking

-----------------------------------------------------------------------------
\* Nobody is idle beside a job it may take.

\* Slot s is busy, or finds nothing to take.
Stuck(s, at, jobs, up) ==
    at.running[s] # None
    \/ NextQueueFor(s, at.queue, at.running, jobs, up) = NoClass

Quiet(at, jobs, up) == \A s \in Slot : Stuck(s, at, jobs, up)

\* No slot of `at` is free again in t; a queue that got its first job, and one
\* whose head may not start, have a head that may not start.
Quieter(at, t, jobs, left) ==
    /\ \A u \in Slot : at.running[u] # None => t.running[u] # None
    /\ \A d \in Class : at.queue[d] = <<>> =>
         t.queue[d] = <<>> \/ ~left[Head(t.queue[d])].persisted
    /\ \A d \in Class : at.queue[d] # <<>> /\ ~jobs[Head(at.queue[d])].persisted =>
         t.queue[d] # <<>> /\ ~left[Head(t.queue[d])].persisted

\* An agent that is not to spare is not while no slot gets free.
LEMMA BusyGrows ==
    ASSUME NEW c \in Class, NEW r, NEW t, NEW up \in [Class -> Nat],
           \A u \in Slot : r[u] # None => t[u] # None,
           ~HasSpareAgent(c, r, up)
    PROVE  ~HasSpareAgent(c, t, up)
<1> DEFINE A == {s \in Slot : SlotClass[s] = c /\ r[s] # None}
           B == {s \in Slot : SlotClass[s] = c /\ t[s] # None}
<1>1. IsFiniteSet(Slot)
  BY SlotsAre, FS_Interval
<1>2. A \subseteq B /\ B \subseteq Slot
  OBVIOUS
<1>3. durable /\ ~(Cardinality(A) < up[c])
  BY DEF HasSpareAgent
<1>4. HasSpareAgent(c, t, up) <=> ~durable \/ Cardinality(B) < up[c]
  BY DEF HasSpareAgent
<1> HIDE DEF A, B
<1>5. /\ Cardinality(A) <= Cardinality(B) /\ Cardinality(A) \in Nat
      /\ Cardinality(B) \in Nat /\ up[c] \in Nat
  BY <1>1, <1>2, FS_Subset, FS_CardinalityType
<1> QED
  BY <1>3, <1>4, <1>5

\* A slot that finds nothing does not find what came since.
LEMMA StuckStays ==
    ASSUME NEW s \in Slot, NEW at, NEW t, NEW jobs, NEW left,
           NEW up \in [Class -> Nat],
           Stuck(s, at, jobs, up), Quieter(at, t, jobs, left)
    PROVE  Stuck(s, t, left, up)
<1> SUFFICES ASSUME t.running[s] = None
             PROVE  NextQueueFor(s, t.queue, t.running, left, up) = NoClass
  BY DEF Stuck
<1> DEFINE c == SlotClass[s]
           e == NextFor(c, at.queue)
           f == NextFor(c, t.queue)
<1>1. c \in Class /\ \A d \in 0 .. c : d \in Class /\ d \in Nat
  BY SlotTyped, ScheduleAssumption DEF Class
<1>2. at.running[s] = None /\ NextQueueFor(s, at.queue, at.running, jobs, up) = NoClass
  BY DEF Stuck, Quieter
<1>3. \/ e = NoClass \/ ~jobs[Head(at.queue[e])].persisted
      \/ e # c /\ ~HasSpareAgent(c, at.running, up)
  BY <1>2 DEF NextQueueFor
<1>4. \/ f = NoClass \/ ~left[Head(t.queue[f])].persisted
      \/ f # c /\ ~HasSpareAgent(c, t.running, up)
      => NextQueueFor(s, t.queue, t.running, left, up) = NoClass
  BY DEF NextQueueFor
<1> HIDE DEF c
<1>5. /\ e = NoClass <=> \A d \in 0 .. c : at.queue[d] = <<>>
      /\ e # NoClass => /\ e \in 0 .. c /\ at.queue[e] # <<>>
                        /\ \A d \in 0 .. c : at.queue[d] # <<>> => d <= e
  BY <1>1, NextForIs
<1>6. /\ f = NoClass <=> \A d \in 0 .. c : t.queue[d] = <<>>
      /\ f # NoClass => /\ f \in 0 .. c /\ t.queue[f] # <<>>
                        /\ \A d \in 0 .. c : t.queue[d] # <<>> => d <= f
  BY <1>1, NextForIs
<1> HIDE DEF e, f
<1>7. CASE f = NoClass
  BY <1>4, <1>7
<1>8. CASE f # NoClass /\ at.queue[f] = <<>>
  <2>1. f \in Class /\ t.queue[f] # <<>>
    BY <1>1, <1>6, <1>8
  <2>2. ~left[Head(t.queue[f])].persisted
    BY <1>8, <2>1 DEF Quieter
  <2> QED
    BY <1>4, <2>2
<1>9. CASE f # NoClass /\ at.queue[f] # <<>>
  <2>1. f \in 0 .. c /\ e # NoClass /\ f <= e /\ e \in 0 .. c
    BY <1>5, <1>6, <1>9
  <2>2. CASE ~jobs[Head(at.queue[e])].persisted
    <3>1. t.queue[e] # <<>> /\ ~left[Head(t.queue[e])].persisted
      BY <1>1, <1>5, <2>1, <2>2 DEF Quieter
    <3>2. e <= f
      BY <1>6, <1>9, <2>1, <3>1
    <3>3. e = f
      BY <1>1, <2>1, <3>2
    <3> QED
      BY <1>4, <3>1, <3>3
  <2>3. CASE e # c /\ ~HasSpareAgent(c, at.running, up)
    <3>1. f # c
      BY <1>1, <2>1, <2>3
    <3>2. ~HasSpareAgent(c, t.running, up)
      <4>1. \A u \in Slot : at.running[u] # None => t.running[u] # None
        BY DEF Quieter
      <4> QED
        BY <1>1, <2>3, <4>1, BusyGrows
    <3> QED
      BY <1>4, <3>1, <3>2
  <2> QED
    BY <1>3, <2>1, <2>2, <2>3
<1> QED
  BY <1>7, <1>8, <1>9

\* After its turn a slot finds nothing.
LEMMA TurnSticks ==
    ASSUME NEW s \in Slot, NEW at \in Places, NEW jobs, NEW up
    PROVE  /\ Stuck(s, TakeNext(s, at, jobs, up), jobs, up)
           /\ Quieter(at, TakeNext(s, at, jobs, up), jobs, jobs)
<1> DEFINE t == TakeNext(s, at, jobs, up)
<1>1. at.queue \in [Class -> Seq(Id)] /\ at.running \in [Slot -> Id \cup {None}]
  BY DEF Places
<1>2. CASE t # at
  <2>1. PICK d \in Class :
          /\ at.queue[d] # <<>> /\ jobs[Head(at.queue[d])].persisted
          /\ t = [queue |-> [at.queue EXCEPT ![d] = Tail(@)],
                  running |-> [at.running EXCEPT ![s] = Head(at.queue[d])]]
    BY <1>2, TakeNextIs
  <2> HIDE DEF t
  <2>2. Head(at.queue[d]) \in Id /\ Head(at.queue[d]) # None
    BY <1>1, <2>1 DEF Id, None
  <2>3. /\ t.running[s] # None /\ \A u \in Slot \ {s} : t.running[u] = at.running[u]
        /\ \A e \in Class \ {d} : t.queue[e] = at.queue[e]
    BY <1>1, <2>1, <2>2
  <2>4. Stuck(s, t, jobs, up)
    BY <2>3 DEF Stuck
  <2>5. Quieter(at, t, jobs, jobs)
    BY <2>1, <2>3 DEF Quieter
  <2> QED
    BY <2>4, <2>5 DEF t
<1>3. CASE t = at
  <2>1. Quieter(at, t, jobs, jobs)
    BY <1>3 DEF Quieter
  <2>2. Stuck(s, at, jobs, up)
    <3> SUFFICES ASSUME ~Stuck(s, at, jobs, up)
                 PROVE  FALSE
      OBVIOUS
    <3> DEFINE d == NextQueueFor(s, at.queue, at.running, jobs, up)
    <3>1. at.running[s] = None /\ d # NoClass
      BY DEF Stuck
    <3>2. t.running[s] = Head(at.queue[d])
      BY <1>1, <3>1 DEF TakeNext
    <3>3. d = NextFor(SlotClass[s], at.queue)
      BY <3>1 DEF NextQueueFor
    <3> HIDE DEF d, t
    <3>4. SlotClass[s] \in Class /\ \A e \in 0 .. SlotClass[s] : e \in Class
      BY SlotTyped, ScheduleAssumption DEF Class
    <3>5. d \in Class /\ at.queue[d] # <<>>
      BY <3>1, <3>3, <3>4, NextForIs
    <3>6. Head(at.queue[d]) # None
      BY <1>1, <3>5 DEF Id, None
    <3> QED
      BY <1>3, <3>1, <3>2, <3>6
  <2> QED
    BY <1>3, <2>1, <2>2
<1> QED
  BY <1>2, <1>3

\* A round leaves queues and slots.
LEMMA DispatchTyped ==
    ASSUME NEW at \in Places, NEW jobs, NEW up
    PROVE  DispatchIdle(at, jobs, up) \in Places
<1>1. \A x \in Places : \A k \in Slot : TakeNext(k, x, jobs, up) \in Places
  BY TakeNextTyped
<1>2. PICK n \in Nat : \E h \in [0 .. n -> Places] : RoundOf(h, n, at, jobs, up)
  BY <1>1, DispatchRuns
<1>3. PICK h \in [0 .. n -> Places] : RoundOf(h, n, at, jobs, up)
  BY <1>2
<1> QED
  BY <1>3 DEF RoundOf

\* dispatch_idle: after a round every slot is busy or finds nothing.
LEMMA DispatchSticks ==
    ASSUME NEW at \in Places, NEW jobs, NEW up \in [Class -> Nat]
    PROVE  Quiet(DispatchIdle(at, jobs, up), jobs, up)
<1>1. \A x \in Places : \A k \in Slot : TakeNext(k, x, jobs, up) \in Places
  BY TakeNextTyped
<1>2. PICK n \in Nat : \E h \in [0 .. n -> Places] : RoundOf(h, n, at, jobs, up)
  BY <1>1, DispatchRuns
<1>3. PICK h \in [0 .. n -> Places] : RoundOf(h, n, at, jobs, up)
  BY <1>2
<1> DEFINE S == {k \in 0 .. n : \A s \in 1 .. k : Stuck(s, h[k], jobs, up)}
<1>4. 0 \in S
  OBVIOUS
<1>5. ASSUME NEW k \in 0 .. n - 1, k \in S
      PROVE  k + 1 \in S
  <2>1. /\ k + 1 \in 1 .. n /\ h[k] \in Places
        /\ h[k + 1] = TakeNext(k + 1, h[k], jobs, up) /\ Slot = 1 .. n
    <3>1. k + 1 \in 1 .. n /\ (k + 1) - 1 = k /\ k \in 0 .. n
      OBVIOUS
    <3> QED
      BY <1>3, <3>1 DEF RoundOf
  <2>2. /\ Stuck(k + 1, h[k + 1], jobs, up)
        /\ Quieter(h[k], h[k + 1], jobs, jobs)
    BY <2>1, TurnSticks
  <2>3. ASSUME NEW s \in 1 .. k
        PROVE  Stuck(s, h[k + 1], jobs, up)
    <3>1. s \in Slot /\ Stuck(s, h[k], jobs, up)
      BY <1>5, <2>1
    <3> QED
      BY <2>2, <3>1, StuckStays
  <2>4. \A s \in 1 .. k + 1 : s \in 1 .. k \/ s = k + 1
    OBVIOUS
  <2>5. k + 1 \in 0 .. n
    OBVIOUS
  <2> QED
    BY <2>2, <2>3, <2>4, <2>5
<1> HIDE DEF S
<1>6. 0 .. n \subseteq S
  BY <1>4, <1>5, UpTo
<1>7. n \in S
  BY <1>6
<1> QED
  BY <1>3, <1>7 DEF S, RoundOf, Quiet

-----------------------------------------------------------------------------
\* The steps, on what could start.

\* Nothing in a queue may start, or something is under way that may change it.
Settled == stalled \/ stopping \/ UnderWay \/ Quiet(Held, job, live)

\* In worker mode, a job whose row is not written waits, and its request is on
\* the way to let it start or to withdraw it.
Writing ==
    durable =>
      \A j \in Id : Unended(j) /\ ~job[j].persisted =>
        /\ Waiting(j)
        /\ \E c \in Client : /\ client[c].id = j
                             /\ client[c].pc \in {"inserting", "admitting",
                                                  "abandoning"}

StartInv == RegistryInv /\ Writing /\ (durable => Settled)

\* The head of a queue waits.
LEMMA HeadWaits ==
    ASSUME RegistryInv, NEW d \in Class, queue[d] # <<>>
    PROVE  /\ Waiting(Head(queue[d])) /\ Head(queue[d]) \in Id
           /\ Unended(Head(queue[d]))
           /\ \A s \in Slot : running[s] # Head(queue[d])
<1>1. queue[d] \in Seq(Id)
  BY RegistryParts
<1>2. 1 \in 1 .. Len(queue[d]) /\ Head(queue[d]) = queue[d][1]
  BY <1>1
<1>3. Waiting(Head(queue[d]))
  BY <1>2 DEF Waiting
<1> QED
  BY <1>3, RegistryParts, WaitingIs

\* In local mode nothing in a queue may start.
LEMMA LocalQuiet ==
    ASSUME RegistryInv, ~durable
    PROVE  Quiet(Held, job, live)
<1> SUFFICES ASSUME NEW s \in Slot, running[s] = None
             PROVE  NextQueueFor(s, queue, running, job, live) = NoClass
  BY HeldParts DEF Quiet, Stuck
<1>1. \A d \in 0 .. SlotClass[s] : queue[d] = <<>>
  BY DEF RegistryInv, Local
<1>2. NextFor(SlotClass[s], queue) = NoClass
  BY <1>1, SlotTyped, NextForIs
<1> QED
  BY <1>2 DEF NextQueueFor

\* What is quiet after a step is so by the queues and slots after it.
LEMMA QuietAfter ==
    ASSUME UNCHANGED durable, Quiet(Held', job', live')
    PROVE  Quiet(Held, job, live)'
  BY DEF Quiet, Stuck, NextQueueFor, HasSpareAgent

\* A step that wakes nobody.
LEMMA QuietStays ==
    ASSUME RegistryInv, UNCHANGED <<durable, live>>,
           Quiet(Held, job, live), Quieter(Held, Held', job, job')
    PROVE  Quiet(Held, job, live)'
<1>1. live \in [Class -> Nat]
  BY RegistryParts DEF Flags
<1>2. ASSUME NEW s \in Slot
      PROVE  Stuck(s, Held', job', live)
  <2>1. Stuck(s, Held, job, live)
    BY DEF Quiet
  <2> QED
    BY <1>1, <2>1, StuckStays
<1>3. Quiet(Held', job', live')
  BY <1>2 DEF Quiet
<1> QED
  BY <1>3, QuietAfter

\* What is under way stays so until its request or the hub moves on.
LEMMA UnderWayStays ==
    ASSUME RegistryInv, UnderWay, changed => changed',
           \A c \in Client : client[c].pc \notin {"idle", "recording"} =>
             /\ client'[c].pc \notin {"idle", "recording"}
             /\ client'[c].id = client[c].id,
           \A i \in 1 .. admitted : ~Unended(i) => ~Ongoing(job', i)
    PROVE  UnderWay'
<1>1. CASE changed
  BY <1>1 DEF UnderWay
<1>2. CASE ~changed
  <2>1. PICK c \in Client : /\ client[c].pc \notin {"idle", "recording"}
                            /\ ~Unended(client[c].id)
    BY <1>2 DEF UnderWay
  <2>2. client[c].id \in 1 .. admitted
    BY <2>1, ClientHas
  <2>3. /\ client'[c].pc \notin {"idle", "recording"}
        /\ ~Ongoing(job', client'[c].id)
    BY <2>1, <2>2
  <2> QED
    BY <2>3 DEF UnderWay, Unended, Ongoing
<1> QED
  BY <1>1, <1>2

\* Nothing wakes while no job moves.
LEMMA QuieterSame ==
    ASSUME RegistryInv, UNCHANGED <<queue, running>>,
           \A i \in Id : Waiting(i) => job'[i] = job[i]
    PROVE  Quieter(Held, Held', job, job')
<1>1. Held' = Held /\ Held.queue = queue
  BY DEF Held
<1>2. ASSUME NEW d \in Class, queue[d] # <<>>
      PROVE  job'[Head(queue[d])] = job[Head(queue[d])]
  BY <1>2, HeadWaits
<1> QED
  BY <1>1, <1>2 DEF Quieter

\* A round of the slots leaves nothing to start, unless a stop keeps it away.
LEMMA DispatchesQuiet ==
    ASSUME NEW q \in [Class -> Seq(Id)], NEW r \in [Slot -> Id \cup {None}],
           Dispatches(q, r, job'), live \in [Class -> Nat],
           UNCHANGED <<durable, live, stopping>>
    PROVE  Settled'
<1> DEFINE at == [queue |-> q, running |-> r]
           t == DispatchIdle(at, job', live)
<1>1. at \in Places
  BY DEF Places
<1>2. CASE stopping
  BY <1>2 DEF Settled
<1>3. CASE ~stopping
  <2>1. Becomes(t)
    BY <1>3 DEF Dispatches
  <2> HIDE DEF at
  <2>2. t \in Places
    BY <1>1, DispatchTyped
  <2>3. Quiet(t, job', live)
    BY <1>1, DispatchSticks
  <2> HIDE DEF t
  <2>4. Held' = t
    BY <2>1, <2>2, BecomesHeld
  <2>5. Quiet(Held, job, live)'
    BY <2>3, <2>4, QuietAfter
  <2> QED
    BY <2>5 DEF Settled
<1> QED
  BY <1>2, <1>3

\* A job whose row is not written goes on waiting for its request.
LEMMA WritingStays ==
    ASSUME Writing, UNCHANGED durable,
           \A j \in Id : durable /\ Ongoing(job', j) /\ ~job'[j].persisted =>
             /\ Unended(j) /\ ~job[j].persisted
             /\ Waiting(j) => Waiting(j)'
             /\ \A c \in Client :
                  /\ client[c].id = j
                  /\ client[c].pc \in {"inserting", "admitting", "abandoning"}
                  => /\ client'[c].id = j
                     /\ client'[c].pc \in {"inserting", "admitting", "abandoning"}
    PROVE  Writing'
<1> SUFFICES ASSUME durable, NEW j \in Id, Ongoing(job', j), ~job'[j].persisted
             PROVE  /\ Waiting(j)'
                    /\ \E c \in Client : /\ client'[c].id = j
                                         /\ client'[c].pc \in {"inserting", "admitting",
                                                               "abandoning"}
  BY DEF Writing, Unended, Ongoing
<1>1. Unended(j) /\ ~job[j].persisted
  OBVIOUS
<1>2. Waiting(j)
  BY <1>1 DEF Writing
<1>3. PICK c \in Client : /\ client[c].id = j
                          /\ client[c].pc \in {"inserting", "admitting", "abandoning"}
  BY <1>1 DEF Writing
<1> QED
  BY <1>2, <1>3

\* A job that is not to start waits while the slots look for jobs.
LEMMA UnwrittenWaits ==
    ASSUME RegistryInv, NEW r, Held' \in Places,
           Less([queue |-> queue, running |-> r], Held', job'),
           NEW j, Waiting(j), ~job'[j].persisted
    PROVE  Waiting(j)'
<1>1. PICK d \in Class : \E n \in 1 .. Len(queue[d]) : queue[d][n] = j
  BY DEF Waiting
<1>2. PICK n \in 1 .. Len(queue[d]) : queue[d][n] = j
  BY <1>1
<1>3. Held'.queue = queue'
  BY DEF Held
<1>4. \E m \in 1 .. Len(queue'[d]) : queue'[d][m] = j
  BY <1>2, <1>3 DEF Less
<1> QED
  BY <1>4 DEF Waiting

\* admit: the new job waits for its row.
LEMMA AdmitStarts ==
    ASSUME StartInv, durable, NEW c \in Client, NEW k \in Key, Admit(c, k)
    PROVE  Writing' /\ Settled'
<1> DEFINE j == admitted + 1
           new(class) == [NoJob EXCEPT !.key = k, !.class = class,
                                       !.persisted = ~durable]
<1>1. PICK class \in Class :
        /\ client[c] = Idle /\ j \in Id /\ job' = [job EXCEPT ![j] = new(class)]
        /\ client' = [client EXCEPT ![c] = [pc |-> "inserting", id |-> j]]
        /\ UNCHANGED <<running, durable, live, changed, stopping, stalled>>
        /\ queue' = [queue EXCEPT ![class] = Append(@, j)]
  BY BindTyped, Zenon DEF Admit, agents
<1>2. ~new(class).persisted
  BY DEF NoJob
<1>3. RegistryInv /\ admitted \in Nat /\ job \in [Id -> JobRec]
      /\ client \in [Client -> ClientRec]
  BY RegistryParts DEF StartInv, Kept
<1>4. j > admitted
  BY <1>3
<1> HIDE DEF j
<1>5. /\ \A i \in Id : Unended(i) => i < j
      /\ \A d \in Class : \A n \in 1 .. Len(queue[d]) : queue[d][n] < j
  BY <1>1, <1>3, <1>4, FreshNumber
<1> HIDE DEF new
<1>6. ~job'[j].persisted /\ \A i \in Id \ {j} : job'[i] = job[i]
  BY <1>1, <1>2, <1>3
<1>7. /\ client'[c] = [pc |-> "inserting", id |-> j] /\ client[c].pc = "idle"
      /\ \A d \in Client \ {c} : client'[d] = client[d]
  BY <1>1, <1>3 DEF Idle
<1>8. /\ queue[class] \in Seq(Id) /\ queue'[class] = Append(queue[class], j)
      /\ \A d \in Class \ {class} : queue'[d] = queue[d]
  BY <1>1, <1>3, RegistryParts
<1>9. ASSUME NEW i \in Id, Waiting(i)
      PROVE  Waiting(i)'
  <2>1. PICK d \in Class : \E n \in 1 .. Len(queue[d]) : queue[d][n] = i
    BY <1>9 DEF Waiting
  <2>2. PICK n \in 1 .. Len(queue[d]) : queue[d][n] = i
    BY <2>1
  <2>3. n \in 1 .. Len(queue'[d]) /\ queue'[d][n] = i
    BY <1>1, <1>8, <2>2
  <2> QED
    BY <2>3 DEF Waiting
<1>10. \E n \in 1 .. Len(queue'[class]) : queue'[class][n] = j
  <2>1. /\ Len(queue[class]) + 1 \in 1 .. Len(queue'[class])
        /\ queue'[class][Len(queue[class]) + 1] = j
    BY <1>1, <1>8
  <2> QED
    BY <2>1
<1>11. Writing'
  <2> SUFFICES ASSUME NEW i \in Id, Ongoing(job', i), ~job'[i].persisted
               PROVE  /\ Waiting(i)'
                      /\ \E d \in Client : /\ client'[d].id = i
                                           /\ client'[d].pc \in {"inserting", "admitting",
                                                                 "abandoning"}
    BY DEF Writing, Unended, Ongoing
  <2>1. CASE i = j
    <3>1. Waiting(i)'
      BY <1>10, <2>1 DEF Waiting
    <3>2. client'[c].id = i /\ client'[c].pc = "inserting"
      BY <1>7, <2>1
    <3> QED
      BY <3>1, <3>2
  <2>2. CASE i # j
    <3>1. Unended(i) /\ ~job[i].persisted
      BY <1>6, <2>2 DEF Unended, Ongoing
    <3>2. Waiting(i)
      BY <3>1 DEF StartInv, Writing
    <3>3. PICK d \in Client : /\ client[d].id = i
                              /\ client[d].pc \in {"inserting", "admitting", "abandoning"}
      BY <3>1 DEF StartInv, Writing
    <3>4. client'[d] = client[d]
      BY <1>7, <3>3
    <3> QED
      BY <1>9, <3>2, <3>3, <3>4
  <2> QED
    BY <2>1, <2>2
<1>12. Quieter(Held, Held', job, job')
  <2>1. /\ Held.queue = queue /\ Held.running = running
        /\ Held'.queue = queue' /\ Held'.running = running
    BY <1>1 DEF Held
  <2>2. ASSUME NEW d \in Class, queue[d] # <<>>
        PROVE  /\ job'[Head(queue[d])] = job[Head(queue[d])]
               /\ queue'[d] # <<>> /\ Head(queue'[d]) = Head(queue[d])
    <3>1. Head(queue[d]) \in Id /\ Unended(Head(queue[d]))
      BY <1>3, <2>2, HeadWaits
    <3>2. Head(queue[d]) # j
      BY <1>3, <1>4, <1>5, <3>1
    <3>3. queue'[d] # <<>> /\ Head(queue'[d]) = Head(queue[d])
      <4>1. CASE d = class
        <5>1. ASSUME NEW q \in Seq(Id), q # <<>>, NEW e \in Id
              PROVE  Append(q, e) # <<>> /\ Head(Append(q, e)) = Head(q)
          BY <5>1
        <5>2. queue[class] \in Seq(Id) /\ queue[class] # <<>> /\ j \in Id
          BY <1>1, <1>8, <2>2, <4>1
        <5>3. /\ Append(queue[class], j) # <<>>
              /\ Head(Append(queue[class], j)) = Head(queue[class])
          BY <5>1, <5>2
        <5> QED
          BY <1>8, <4>1, <5>3
      <4>2. CASE d # class
        BY <1>8, <2>2, <4>2
      <4> QED
        BY <4>1, <4>2
    <3> QED
      BY <1>6, <3>1, <3>2, <3>3
  <2>3. ASSUME NEW d \in Class, queue[d] = <<>>
        PROVE  queue'[d] = <<>> \/ ~job'[Head(queue'[d])].persisted
    <3>1. CASE d = class
      <4>1. Head(queue'[d]) = j
        BY <1>1, <1>8, <2>3, <3>1
      <4> QED
        BY <1>6, <4>1
    <3>2. CASE d # class
      BY <1>8, <2>3, <3>2
    <3> QED
      BY <3>1, <3>2
  <2> QED
    BY <2>1, <2>2, <2>3 DEF Quieter
<1>13. Settled'
  <2>1. stalled \/ stopping \/ UnderWay \/ Quiet(Held, job, live)
    BY DEF StartInv, Settled
  <2>2. CASE stalled \/ stopping
    BY <1>1, <2>2 DEF Settled
  <2>3. CASE UnderWay
    <3>1. ASSUME NEW i \in 1 .. admitted, ~Unended(i)
          PROVE  ~Ongoing(job', i)
      <4>1. i \in Id /\ i # j
        BY <1>1, <1>3, <1>4 DEF j
      <4> QED
        BY <1>6, <3>1, <4>1 DEF Unended, Ongoing
    <3>2. \A d \in Client : client[d].pc \notin {"idle", "recording"} =>
            /\ client'[d].pc \notin {"idle", "recording"}
            /\ client'[d].id = client[d].id
      BY <1>7
    <3>3. UnderWay'
      BY <1>1, <1>3, <2>3, <3>1, <3>2, UnderWayStays
    <3> QED
      BY <3>3 DEF Settled
  <2>4. CASE Quiet(Held, job, live)
    BY <1>1, <1>3, <1>12, <2>4, QuietStays DEF Settled
  <2> QED
    BY <2>1, <2>2, <2>3, <2>4
<1> QED
  BY <1>11, <1>13

\* The steps that move no job and end none that waits.
LEMMA QuietSteps ==
    ASSUME StartInv, durable,
           UNCHANGED <<durable, queue, running, live, changed, stopping, stalled>>,
           \A i \in Id : Unended(i) => job'[i] = job[i],
           \A i \in Id : Ongoing(job', i) => Unended(i),
           \A c \in Client : client[c].pc \notin {"idle", "recording"} =>
             /\ client'[c].pc \in {"admitting", "abandoning", client[c].pc}
             /\ client'[c].id = client[c].id
    PROVE  Writing' /\ Settled'
<1>1. RegistryInv
  BY DEF StartInv
<1>2. ASSUME NEW i \in Id, Waiting(i)
      PROVE  Waiting(i)'
  BY <1>2 DEF Waiting
<1>3. ASSUME NEW i \in Id, Ongoing(job', i), ~job'[i].persisted
      PROVE  /\ Unended(i) /\ ~job[i].persisted
             /\ Waiting(i) => Waiting(i)'
             /\ \A c \in Client :
                  /\ client[c].id = i
                  /\ client[c].pc \in {"inserting", "admitting", "abandoning"}
                  => /\ client'[c].id = i
                     /\ client'[c].pc \in {"inserting", "admitting", "abandoning"}
  BY <1>2, <1>3
<1>4. Writing'
  BY <1>3, WritingStays DEF StartInv
<1>5. Quieter(Held, Held', job, job')
  <2>1. \A i \in Id : Waiting(i) => job'[i] = job[i]
    BY <1>1, RegistryParts, WaitingIs
  <2> QED
    BY <1>1, <2>1, QuieterSame
<1>6. stalled \/ stopping \/ UnderWay \/ Quiet(Held, job, live)
  BY DEF StartInv, Settled
<1>7. CASE stalled \/ stopping
  BY <1>4, <1>7 DEF Settled
<1>8. CASE UnderWay
  <2>1. \A i \in 1 .. admitted : ~Unended(i) => ~Ongoing(job', i)
    <3>1. 1 .. admitted \subseteq Id
      BY <1>1, RegistryParts DEF Kept
    <3> QED
      BY <3>1
  <2>2. \A c \in Client : client[c].pc \notin {"idle", "recording"} =>
          /\ client'[c].pc \notin {"idle", "recording"}
          /\ client'[c].id = client[c].id
    OBVIOUS
  <2>3. UnderWay'
    BY <1>1, <1>8, <2>1, <2>2, UnderWayStays
  <2> QED
    BY <1>4, <2>3 DEF Settled
<1>9. CASE Quiet(Held, job, live)
  BY <1>1, <1>4, <1>5, <1>9, QuietStays DEF Settled
<1> QED
  BY <1>6, <1>7, <1>8, <1>9

\* persist_admission, persist_terminal and a lease are such steps.
LEMMA RequestStarts ==
    ASSUME StartInv, durable,
           \/ \E c \in Client : InsertJob(c) \/ RecordEnd(c)
           \/ \E s \in Slot : Leased(s)
    PROVE  Writing' /\ Settled'
<1>1. RegistryInv /\ job \in [Id -> JobRec] /\ client \in [Client -> ClientRec]
  BY RegistryParts DEF StartInv, Kept
<1>2. ASSUME NEW c \in Client, InsertJob(c)
      PROVE  Writing' /\ Settled'
  <2>1. /\ UNCHANGED <<durable, job, queue, running, live, changed, stopping, stalled>>
        /\ \/ client' = [client EXCEPT ![c].pc = "admitting"]
           \/ client' = [client EXCEPT ![c].pc = "abandoning"]
    BY <1>2 DEF InsertJob, registry, agents, ClientGoes
  <2>2. \A d \in Client : /\ client'[d].pc \in {"admitting", "abandoning", client[d].pc}
                          /\ client'[d].id = client[d].id
    BY <1>1, <2>1 DEF ClientRec
  <2>3. \A i \in Id : Ongoing(job', i) => Unended(i)
    BY <2>1 DEF Ongoing, Unended
  <2> QED
    BY <2>1, <2>2, <2>3, QuietSteps
<1>3. ASSUME NEW c \in Client, RecordEnd(c)
      PROVE  Writing' /\ Settled'
  <2> DEFINE j == client[c].id
  <2>1. /\ UNCHANGED <<durable, queue, running, live, changed, stopping, stalled>>
        /\ client[c].pc = "recording"
        /\ job' = [job EXCEPT ![j] = NoJob]
        /\ client' = [client EXCEPT ![c] = Idle]
    BY <1>3 DEF RecordEnd, ClientAt, agents
  <2>2. j \in Id /\ ~Unended(j)
    BY <1>1, <2>1, ClientHas DEF RegistryInv, RecordingEnded
  <2> HIDE DEF j
  <2>3. job'[j] = NoJob /\ \A i \in Id \ {j} : job'[i] = job[i]
    BY <1>1, <2>1, <2>2
  <2>4. \A d \in Client : client[d].pc \notin {"idle", "recording"} =>
          /\ client'[d].pc \in {"admitting", "abandoning", client[d].pc}
          /\ client'[d].id = client[d].id
    BY <1>1, <2>1
  <2>5. \A i \in Id : Unended(i) => job'[i] = job[i]
    BY <2>2, <2>3
  <2>6. \A i \in Id : Ongoing(job', i) => Unended(i)
    BY <2>3 DEF Ongoing, Unended
  <2> QED
    BY <2>1, <2>4, <2>5, <2>6, QuietSteps
<1>4. ASSUME NEW s \in Slot, Leased(s)
      PROVE  Writing' /\ Settled'
  <2>1. UNCHANGED <<durable, job, client, queue, running, live, changed, stopping,
                    stalled>>
    BY <1>4 DEF Leased, registry, agents
  <2>2. \A i \in Id : Ongoing(job', i) => Unended(i)
    BY <2>1 DEF Ongoing, Unended
  <2> QED
    BY <2>1, <2>2, QuietSteps
<1> QED
  BY <1>2, <1>3, <1>4

\* admitted: the slots have looked since.
LEMMA AdmittedStarts ==
    ASSUME StartInv, durable, NEW c \in Client, Admitted(c)
    PROVE  Writing' /\ Settled'
<1> DEFINE j == client[c].id
<1>1. /\ UNCHANGED <<durable, live, stopping>>
      /\ client[c].pc = "admitting" /\ Answered(c)
      /\ Dispatches(queue, running, job')
  BY Zenon DEF Admitted, ClientAt, agents
<1>2. RegistryInv
  BY DEF StartInv
<1>3. Goes(c)
  <2>1. \/ client' = [client EXCEPT ![c] = Idle]
        \/ client' = [client EXCEPT ![c].pc = "recording"]
    BY <1>1, Zenon DEF Answered, ClientGoes
  <2> QED
    BY <1>2, <2>1, RegistryParts, GoesTyped
<1>4. /\ Placed([queue |-> queue, running |-> running], job')
      /\ \A i \in Id : Ongoing(job', i) =>
           Unended(i) /\ (~job'[i].persisted => job'[i] = job[i])
      /\ Waiting(j) => job'[j].persisted
  BY <1>2, AdmittedIs
<1>5. Held' \in Places /\ Less([queue |-> queue, running |-> running], Held', job')
  <2>1. \A s \in Slot : running[s] \in {None, running[s]}
    OBVIOUS
  <2> QED
    BY <1>1, <1>2, <1>4, <2>1, RegistryParts, DispatchesPlaces
<1> HIDE DEF j
<1>6. ASSUME NEW i \in Id, Ongoing(job', i), ~job'[i].persisted
      PROVE  /\ Unended(i) /\ ~job[i].persisted
             /\ Waiting(i) => Waiting(i)'
             /\ \A d \in Client :
                  /\ client[d].id = i
                  /\ client[d].pc \in {"inserting", "admitting", "abandoning"}
                  => /\ client'[d].id = i
                     /\ client'[d].pc \in {"inserting", "admitting", "abandoning"}
  <2>1. Unended(i) /\ ~job[i].persisted
    BY <1>4, <1>6
  <2>2. Waiting(i)
    BY <2>1 DEF StartInv, Writing
  <2>3. Waiting(i)'
    BY <1>2, <1>5, <1>6, <2>2, UnwrittenWaits
  <2>4. i # j
    BY <1>4, <1>6, <2>2
  <2>5. \A d \in Client : client[d].id = i => client'[d] = client[d]
    BY <1>3, <2>4 DEF Goes, j
  <2> QED
    BY <2>1, <2>3, <2>5
<1>7. Writing'
  BY <1>1, <1>6, WritingStays DEF StartInv
<1>8. Settled'
  BY <1>1, <1>2, RegistryParts, DispatchesQuiet DEF Flags
<1> QED
  BY <1>7, <1>8

\* abandon: no slot is looked for.
LEMMA AbandonStarts ==
    ASSUME StartInv, durable, NEW c \in Client, Abandon(c)
    PROVE  Writing' /\ Settled'
<1> DEFINE j == client[c].id
<1>1. /\ client[c].pc = "abandoning"
      /\ queue' = Without(queue, j) /\ job' = [job EXCEPT ![j] = NoJob]
      /\ client' = [client EXCEPT ![c] = Idle] /\ stalled' = TRUE
      /\ UNCHANGED <<durable, running>>
  BY Zenon DEF Abandon, ClientAt
<1>2. RegistryInv /\ job \in [Id -> JobRec] /\ client \in [Client -> ClientRec]
  BY RegistryParts DEF StartInv, Kept
<1>3. j \in Id
  BY <1>1, <1>2, ClientHas
<1>4. \A d \in Client \ {c} : client'[d] = client[d]
  BY <1>1, <1>2
<1> HIDE DEF j
<1>5. job'[j] = NoJob /\ \A i \in Id \ {j} : job'[i] = job[i]
  BY <1>1, <1>2, <1>3
<1>6. \A d \in Class : WithoutIs(queue'[d], queue[d], j)
  BY <1>1, <1>2, <1>5, WithoutPlaces
<1>7. ASSUME NEW i \in Id, Ongoing(job', i), ~job'[i].persisted
      PROVE  /\ Unended(i) /\ ~job[i].persisted
             /\ Waiting(i) => Waiting(i)'
             /\ \A d \in Client :
                  /\ client[d].id = i
                  /\ client[d].pc \in {"inserting", "admitting", "abandoning"}
                  => /\ client'[d].id = i
                     /\ client'[d].pc \in {"inserting", "admitting", "abandoning"}
  <2>1. i # j
    BY <1>5, <1>7 DEF Ongoing
  <2>2. Unended(i) /\ ~job[i].persisted
    BY <1>5, <1>7, <2>1 DEF Ongoing, Unended
  <2>3. Waiting(i) => Waiting(i)'
    BY <1>6, <2>1 DEF Waiting, WithoutIs
  <2>4. \A d \in Client : client[d].id = i => client'[d] = client[d]
    BY <1>4, <2>1 DEF j
  <2> QED
    BY <2>2, <2>3, <2>4
<1> QED
  BY <1>1, <1>7, WritingStays DEF StartInv, Settled

\* worker_loop: a slot that is handed over leaves nothing to start, if the job
\* it takes leaves its queue as those that wait found it.
LEMMA HandsOverQuiet ==
    ASSUME StartInv, durable, NEW s \in Slot, running[s] # None,
           NEW q \in [Class -> Seq(Id)], NEW moved,
           HandsOver(s, q, job', moved),
           UNCHANGED <<durable, client, live, changed, stopping>>,
           \A i \in Id : Ongoing(job', i) => Unended(i),
           \A d \in Class :
             (~moved /\ q[d] # <<>> /\ job'[Head(q[d])].persisted
              /\ d = NextFor(SlotClass[s], q))
             => Quieter(Held, [queue |-> [q EXCEPT ![d] = Tail(@)], running |-> running],
                        job, job')
    PROVE  Settled'
<1> DEFINE r == [running EXCEPT ![s] = None]
           at == [queue |-> q, running |-> r]
           taken == TakeNext(s, at, job', live)
<1>1. RegistryInv /\ live \in [Class -> Nat] /\ running \in [Slot -> Id \cup {None}]
  BY RegistryParts DEF StartInv, Flags
<1>2. r \in [Slot -> Id \cup {None}] /\ at.queue = q /\ at.running = r
  BY <1>1
<1>3. at \in Places
  <2> HIDE DEF r
  <2> QED
    BY <1>2 DEF Places
<1>4. CASE stopping
  BY <1>4 DEF Settled
<1>5. CASE ~stopping /\ taken = at
  <2>1. Dispatches(q, r, job')
    BY <1>5, <1>2, Zenon DEF HandsOver
  <2> HIDE DEF r
  <2> QED
    BY <1>1, <1>2, <2>1, DispatchesQuiet
<1>6. CASE ~stopping /\ taken # at
  <2>1. Becomes(taken) /\ stalled' = (stalled \/ moved)
    BY <1>6, Zenon DEF HandsOver
  <2> HIDE DEF at
  <2>2. PICK d \in Class :
          /\ at.queue[d] # <<>> /\ job'[Head(at.queue[d])].persisted
          /\ d = NextFor(SlotClass[s], at.queue)
          /\ taken = [queue |-> [at.queue EXCEPT ![d] = Tail(@)],
                      running |-> [at.running EXCEPT ![s] = Head(at.queue[d])]]
    BY <1>3, <1>6, TakeNextIs
  <2>3. taken \in Places
    BY <1>3, TakeNextTyped
  <2> HIDE DEF taken, r
  <2>4. Held' = taken
    BY <2>1, <2>3, BecomesHeld
  <2>5. q[d] # <<>> /\ job'[Head(q[d])].persisted /\ d = NextFor(SlotClass[s], q)
    BY <1>2, <2>2
  <2>6. /\ Held'.queue = [q EXCEPT ![d] = Tail(@)]
        /\ Held'.running = [r EXCEPT ![s] = Head(q[d])]
    BY <1>2, <2>2, <2>4
  <2>7. CASE stalled \/ moved
    BY <2>1, <2>7 DEF Settled
  <2>8. CASE ~stalled /\ ~moved
    <3>1. Quieter(Held, [queue |-> [q EXCEPT ![d] = Tail(@)], running |-> running],
                  job, job')
      BY <2>5, <2>8
    <3>2. Head(q[d]) \in Id
      <4>1. q[d] \in Seq(Id)
        OBVIOUS
      <4> QED
        BY <2>5, <4>1
    <3>3. \A u \in Slot : running[u] # None => Held'.running[u] # None
      BY <1>1, <1>2, <2>6, <3>2 DEF r
    <3>4. Quieter(Held, Held', job, job')
      BY <2>6, <3>1, <3>3, HeldParts DEF Quieter
    <3>5. UnderWay \/ Quiet(Held, job, live)
      BY <1>6, <2>8 DEF StartInv, Settled
    <3>6. CASE UnderWay
      <4>1. \A i \in 1 .. admitted : ~Unended(i) => ~Ongoing(job', i)
        <5>1. 1 .. admitted \subseteq Id
          BY <1>1, RegistryParts DEF Kept
        <5> QED
          BY <5>1
      <4>2. UnderWay'
        BY <1>1, <3>6, <4>1, UnderWayStays
      <4> QED
        BY <4>2 DEF Settled
    <3>7. CASE Quiet(Held, job, live)
      BY <1>1, <3>4, <3>7, QuietStays DEF Settled
    <3> QED
      BY <3>5, <3>6, <3>7
  <2> QED
    BY <2>7, <2>8
<1> QED
  BY <1>4, <1>5, <1>6

\* What waits for its row goes on waiting when a slot is handed over.
LEMMA HandsOverWriting ==
    ASSUME StartInv, durable, NEW s \in Slot, NEW q \in [Class -> Seq(Id)], NEW moved,
           HandsOver(s, q, job', moved), UNCHANGED <<durable, client>>,
           Placed([queue |-> q, running |-> [running EXCEPT ![s] = None]], job'),
           \A i \in Id : Ongoing(job', i) =>
             Unended(i) /\ job'[i].persisted = job[i].persisted,
           \A d \in Class : \A n \in 1 .. Len(queue[d]) :
             \E m \in 1 .. Len(q[d]) : q[d][m] = queue[d][n]
    PROVE  Writing'
<1>1. RegistryInv /\ running \in [Slot -> Id \cup {None}]
  BY RegistryParts DEF StartInv
<1> DEFINE r == [running EXCEPT ![s] = None]
<1>2. Held' \in Places /\ Less([queue |-> q, running |-> r], Held', job')
  BY <1>1, HandsOverPlaces
<1>3. Held'.queue = queue'
  BY DEF Held
<1> HIDE DEF r
<1>4. ASSUME NEW i \in Id, Waiting(i), ~job'[i].persisted
      PROVE  Waiting(i)'
  <2>1. PICK d \in Class : \E n \in 1 .. Len(queue[d]) : queue[d][n] = i
    BY <1>4 DEF Waiting
  <2>2. PICK m \in 1 .. Len(q[d]) : q[d][m] = i
    BY <2>1
  <2>3. \E n \in 1 .. Len(queue'[d]) : queue'[d][n] = i
    BY <1>2, <1>3, <1>4, <2>2 DEF Less
  <2> QED
    BY <2>3 DEF Waiting
<1>5. ASSUME NEW i \in Id, Ongoing(job', i), ~job'[i].persisted
      PROVE  /\ Unended(i) /\ ~job[i].persisted
             /\ Waiting(i) => Waiting(i)'
             /\ \A c \in Client :
                  /\ client[c].id = i
                  /\ client[c].pc \in {"inserting", "admitting", "abandoning"}
                  => /\ client'[c].id = i
                     /\ client'[c].pc \in {"inserting", "admitting", "abandoning"}
  BY <1>4, <1>5
<1> QED
  BY <1>5, WritingStays DEF StartInv

\* The job is over, or is left: its slot takes the head of a queue.
LEMMA RunEndsStarts ==
    ASSUME StartInv, durable, NEW s \in Slot, RunEnds(s) \/ RunLeft(s)
    PROVE  Writing' /\ Settled'
<1>1. RegistryInv /\ queue \in [Class -> Seq(Id)]
  BY RegistryParts DEF StartInv
<1>2. /\ HandsOver(s, queue, job', FALSE) /\ running[s] # None
      /\ UNCHANGED <<durable, client, live, changed, stopping>>
      /\ Placed([queue |-> queue, running |-> [running EXCEPT ![s] = None]], job')
      /\ \A i \in Id : Waiting(i) => Unended(i) /\ job'[i] = job[i]
      /\ \A i \in Id : Ongoing(job', i) => Unended(i) /\ job'[i] = job[i]
  BY <1>1, RunEndsIs DEF agents
<1>3. ASSUME NEW d \in Class, queue[d] # <<>>, job'[Head(queue[d])].persisted
      PROVE  Quieter(Held, [queue |-> [queue EXCEPT ![d] = Tail(@)], running |-> running],
                     job, job')
  <2> DEFINE q == [queue EXCEPT ![d] = Tail(@)]
  <2>1. \A e \in Class \ {d} : q[e] = queue[e]
    BY <1>1
  <2>2. \A e \in Class : queue[e] # <<>> => job'[Head(queue[e])] = job[Head(queue[e])]
    BY <1>1, <1>2, HeadWaits
  <2> HIDE DEF q
  <2>3. Quieter(Held, [queue |-> q, running |-> running], job, job')
    BY <1>3, <2>1, <2>2, HeldParts DEF Quieter
  <2> QED
    BY <2>3 DEF q
<1>4. Settled'
  BY <1>1, <1>2, <1>3, HandsOverQuiet
<1>5. Writing'
  BY <1>1, <1>2, HandsOverWriting
<1> QED
  BY <1>4, <1>5

\* A job put back in a queue is its head, or leaves it its head.
LEMMA InsertHead ==
    ASSUME NEW q \in Seq(Id), NEW j \in Id
    PROVE  /\ InsertByOrder(q, j) \in Seq(Id) /\ InsertByOrder(q, j) # <<>>
           /\ \/ Tail(InsertByOrder(q, j)) = q
              \/ q # <<>> /\ Head(InsertByOrder(q, j)) = Head(q)
           /\ \A n \in 1 .. Len(q) :
                \E m \in 1 .. Len(InsertByOrder(q, j)) : InsertByOrder(q, j)[m] = q[n]
<1> DEFINE t == InsertByOrder(q, j)
<1>1. PICK p \in 1 .. Len(q) + 1 : t = InsertAt(q, p, j) /\ t \in Seq(Id)
  BY InsertTyped
<1>2. Inserted(t, q, p, j)
  <2>1. Inserted(InsertAt(q, p, j), q, p, j)
    BY InsertAtIs
  <2> QED
    BY <1>1, <2>1
<1> HIDE DEF t
<1>3. /\ Len(t) = Len(q) + 1 /\ t[p] = j /\ Len(q) \in Nat /\ p \in Nat
      /\ \A n \in 1 .. Len(q) + 1 : n < p => t[n] = q[n]
      /\ \A n \in 1 .. Len(q) + 1 : n > p => t[n] = q[n - 1]
  BY <1>2 DEF Inserted
<1>4. t # <<>>
  BY <1>1, <1>3
<1>5. ASSUME p = 1
      PROVE  Tail(t) = q
  <2>1. Tail(t) \in Seq(Id) /\ Len(Tail(t)) = Len(q)
        /\ \A n \in 1 .. Len(q) : Tail(t)[n] = t[n + 1]
    BY <1>1, <1>3
  <2>2. \A n \in 1 .. Len(q) : Tail(t)[n] = q[n]
    <3> SUFFICES ASSUME NEW n \in 1 .. Len(q)
                 PROVE  Tail(t)[n] = q[n]
      OBVIOUS
    <3>1. n + 1 \in 1 .. Len(q) + 1 /\ n + 1 > p /\ (n + 1) - 1 = n
      BY <1>3, <1>5
    <3>2. t[n + 1] = q[(n + 1) - 1]
      BY <1>3, <3>1
    <3> QED
      BY <2>1, <3>1, <3>2
  <2> DEFINE x == Tail(t)
  <2>3. x \in Seq(Id) /\ Len(x) = Len(q) /\ \A n \in 1 .. Len(q) : x[n] = q[n]
    BY <2>1, <2>2
  <2> HIDE DEF x
  <2>4. x = [n \in 1 .. Len(q) |-> x[n]] /\ q = [n \in 1 .. Len(q) |-> q[n]]
    BY <2>3
  <2>5. x = q
    BY <2>3, <2>4
  <2> QED
    BY <2>5 DEF x
<1>6. ASSUME p # 1
      PROVE  q # <<>> /\ Head(t) = Head(q)
  <2>1. 1 \in 1 .. Len(q) + 1 /\ 1 < p /\ 1 \in 1 .. Len(q)
    BY <1>3, <1>6
  <2>2. t[1] = q[1]
    BY <1>3, <2>1
  <2>3. q # <<>> /\ Head(q) = q[1] /\ Head(t) = t[1]
    BY <1>1, <1>3, <2>1
  <2> QED
    BY <2>2, <2>3
<1>7. ASSUME NEW n \in 1 .. Len(q)
      PROVE  \E m \in 1 .. Len(t) : t[m] = q[n]
  <2>1. CASE n < p
    <3>1. n \in 1 .. Len(q) + 1
      BY <1>3
    <3> QED
      BY <1>3, <2>1, <3>1
  <2>2. CASE ~ (n < p)
    <3>1. n + 1 \in 1 .. Len(q) + 1 /\ n + 1 > p /\ (n + 1) - 1 = n
      BY <1>3, <2>2
    <3>2. t[n + 1] = q[(n + 1) - 1]
      BY <1>3, <3>1
    <3> QED
      BY <1>3, <3>1, <3>2
  <2> QED
    BY <2>1, <2>2
<1> QED
  BY <1>1, <1>4, <1>5, <1>6, <1>7 DEF t

\* The job goes back to a queue: the slot takes it, or a job that waited
\* before it.
LEMMA RequeuedStarts ==
    ASSUME StartInv, durable, NEW s \in Slot, RunRequeued(s)
    PROVE  Writing' /\ Settled'
<1> DEFINE j == running[s]
<1>1. RegistryInv /\ queue \in [Class -> Seq(Id)]
  BY RegistryParts DEF StartInv
<1>2. /\ UNCHANGED <<durable, client, live, changed, stopping>>
      /\ j \in Id
      /\ \A i \in Id : Waiting(i) => i # j /\ job'[i] = job[i]
      /\ \A i \in Id : Ongoing(job', i) =>
           Unended(i) /\ job'[i].persisted = job[i].persisted
  BY <1>1, RequeuedIs DEF agents
<1>3. PICK class \in Class :
        /\ HandsOver(s, Refilled(j, class), job', class # SlotClass[s])
        /\ Refilled(j, class) \in [Class -> Seq(Id)]
        /\ Placed([queue |-> Refilled(j, class),
                   running |-> [running EXCEPT ![s] = None]], job')
  BY <1>1, RequeuedIs
<1> DEFINE q == Refilled(j, class)
           t == InsertByOrder(queue[class], j)
<1>4. /\ t \in Seq(Id) /\ t # <<>>
      /\ \/ Tail(t) = queue[class]
         \/ queue[class] # <<>> /\ Head(t) = Head(queue[class])
      /\ \A n \in 1 .. Len(queue[class]) : \E m \in 1 .. Len(t) : t[m] = queue[class][n]
  BY <1>1, <1>2, InsertHead
<1>5. stopping => q = queue
  BY DEF Refilled
<1>6. ~stopping => q = [queue EXCEPT ![class] = t]
  BY DEF Refilled
<1> HIDE DEF q, t, j
<1>7. ~stopping => q[class] = t /\ \A d \in Class \ {class} : q[d] = queue[d]
  BY <1>1, <1>6
<1>8. Writing'
  <2>1. ASSUME NEW d \in Class, NEW n \in 1 .. Len(queue[d])
        PROVE  \E m \in 1 .. Len(q[d]) : q[d][m] = queue[d][n]
    BY <1>4, <1>5, <1>7
  <2>2. /\ HandsOver(s, q, job', class # SlotClass[s]) /\ q \in [Class -> Seq(Id)]
        /\ Placed([queue |-> q, running |-> [running EXCEPT ![s] = None]], job')
    BY <1>3 DEF q
  <2> QED
    BY <1>2, <2>1, <2>2, HandsOverWriting
<1>9. CASE stopping
  BY <1>2, <1>8, <1>9 DEF Settled
<1>10. CASE ~stopping
  <2>1. ASSUME NEW d \in Class, class = SlotClass[s], q[d] # <<>>,
               job'[Head(q[d])].persisted, d = NextFor(SlotClass[s], q)
        PROVE  Quieter(Held, [queue |-> [q EXCEPT ![d] = Tail(@)], running |-> running],
                       job, job')
    <3>1. class \in 0 .. class /\ class \in Nat
      BY ScheduleAssumption DEF Class
    <3>2. d = class
      <4>1. q[class] # <<>>
        BY <1>4, <1>7, <1>10
      <4>2. NextFor(class, q) # NoClass => NextFor(class, q) \in 0 .. class
        BY NextForIs
      <4>3. \A e \in 0 .. class : q[e] # <<>> => NextFor(class, q) # NoClass /\ e <= NextFor(class, q)
        BY NextForIs
      <4>4. NextFor(class, q) # NoClass /\ class <= NextFor(class, q)
        BY <3>1, <4>1, <4>3
      <4>5. NextFor(class, q) \in 0 .. class
        BY <4>2, <4>4
      <4> QED
        BY <2>1, <3>1, <4>4, <4>5
    <3> DEFINE x == [q EXCEPT ![d] = Tail(@)]
    <3>3. x[class] = Tail(t) /\ \A e \in Class \ {class} : x[e] = queue[e]
      <4>1. q \in [Class -> Seq(Id)]
        BY <1>3 DEF q
      <4> QED
        BY <1>7, <1>10, <3>2, <4>1
    <3>4. \A e \in Class : queue[e] # <<>> => job'[Head(queue[e])] = job[Head(queue[e])]
      BY <1>1, <1>2, HeadWaits
    <3>5. job'[Head(t)].persisted
      BY <1>7, <1>10, <2>1, <3>2
    <3> HIDE DEF x
    <3>6. CASE Tail(t) = queue[class]
      <4>1. \A e \in Class : x[e] = queue[e]
        BY <3>3, <3>6
      <4>2. Quieter(Held, [queue |-> x, running |-> running], job, job')
        BY <3>4, <4>1, HeldParts DEF Quieter
      <4> QED
        BY <4>2 DEF x
    <3>7. CASE queue[class] # <<>> /\ Head(t) = Head(queue[class])
      <4>1. job[Head(queue[class])].persisted
        BY <3>4, <3>5, <3>7
      <4>2. Quieter(Held, [queue |-> x, running |-> running], job, job')
        BY <3>3, <3>4, <3>7, <4>1, HeldParts DEF Quieter
      <4> QED
        BY <4>2 DEF x
    <3> QED
      BY <1>4, <3>6, <3>7
  <2>2. HandsOver(s, q, job', class # SlotClass[s]) /\ q \in [Class -> Seq(Id)]
    BY <1>3 DEF q
  <2>3. running[s] # None
    BY <1>2 DEF j
  <2>4. Settled'
    BY <1>2, <2>1, <2>2, <2>3, HandsOverQuiet
  <2> QED
    BY <1>8, <2>4
<1> QED
  BY <1>9, <1>10

\* cancel_job: a job that kept its queue from starting had no row yet, and its
\* request is still to come.
LEMMA CancelStarts ==
    ASSUME StartInv, durable, NEW j \in Id, CancelJob(j)
    PROVE  Writing' /\ Settled'
<1>1. /\ UNCHANGED <<durable, running, client, live, changed, stopping, stalled>>
      /\ queue' = Without(queue, j)
      /\ job' = Over(j, InSlot(j) \/ ~job[j].persisted)
      /\ Unended(j)
  BY Zenon DEF CancelJob, agents
<1>2. RegistryInv /\ job \in [Id -> JobRec]
  BY RegistryParts DEF StartInv, Kept
<1>3. /\ \A i \in Id \ {j} : job'[i] = job[i]
      /\ ~Ongoing(job', j)
  <2>1. job[j] \in JobRec
    BY <1>2
  <2>2. \/ job' = [job EXCEPT ![j] = NoJob]
        \/ job' = [job EXCEPT ![j] = [job[j] EXCEPT !.ended = TRUE]]
    BY <1>1 DEF Over
  <2>3. [job[j] EXCEPT !.ended = TRUE].ended
    BY <2>1, JobKinds
  <2> QED
    BY <1>2, <2>2, <2>3 DEF Ongoing
<1>4. \A d \in Class : WithoutIs(queue'[d], queue[d], j)
  BY <1>1, <1>2, <1>3, WithoutPlaces
<1>5. Writing'
  <2>1. ASSUME NEW i \in Id, Ongoing(job', i), ~job'[i].persisted
        PROVE  /\ Unended(i) /\ ~job[i].persisted
               /\ Waiting(i) => Waiting(i)'
               /\ \A d \in Client :
                    /\ client[d].id = i
                    /\ client[d].pc \in {"inserting", "admitting", "abandoning"}
                    => /\ client'[d].id = i
                       /\ client'[d].pc \in {"inserting", "admitting", "abandoning"}
    <3>1. i # j /\ Unended(i) /\ ~job[i].persisted
      BY <1>3, <2>1 DEF Ongoing, Unended
    <3>2. Waiting(i) => Waiting(i)'
      BY <1>4, <3>1 DEF Waiting, WithoutIs
    <3> QED
      BY <1>1, <3>1, <3>2
  <2> QED
    BY <1>1, <2>1, WritingStays DEF StartInv
<1>6. stalled \/ stopping \/ UnderWay \/ Quiet(Held, job, live)
  BY DEF StartInv, Settled
<1>7. CASE stalled \/ stopping
  BY <1>1, <1>5, <1>7 DEF Settled
<1>8. CASE UnderWay
  <2>1. \A i \in 1 .. admitted : ~Unended(i) => ~Ongoing(job', i)
    <3>1. 1 .. admitted \subseteq Id
      BY <1>2, RegistryParts DEF Kept
    <3>2. \A i \in Id : ~Unended(i) => ~Ongoing(job', i)
      BY <1>3 DEF Ongoing, Unended
    <3> QED
      BY <3>1, <3>2
  <2>2. UnderWay'
    BY <1>1, <1>2, <1>8, <2>1, UnderWayStays
  <2> QED
    BY <1>5, <2>2 DEF Settled
<1>9. CASE ~job[j].persisted
  <2>1. PICK c \in Client : /\ client[c].id = j
                            /\ client[c].pc \in {"inserting", "admitting", "abandoning"}
    BY <1>1, <1>9 DEF StartInv, Writing
  <2>2. UnderWay'
    BY <1>1, <1>3, <2>1 DEF UnderWay, Unended, Ongoing
  <2> QED
    BY <1>5, <2>2 DEF Settled
<1>10. CASE job[j].persisted /\ Quiet(Held, job, live)
  <2>1. ASSUME NEW d \in Class, queue[d] # <<>>, ~job[Head(queue[d])].persisted
        PROVE  queue'[d] # <<>> /\ ~job'[Head(queue'[d])].persisted
    <3>1. Head(queue[d]) \in Id /\ Head(queue[d]) # j
      BY <1>2, <1>10, <2>1, HeadWaits
    <3>2. queue'[d] # <<>> /\ Head(queue'[d]) = Head(queue[d])
      BY <1>4, <2>1, <3>1 DEF WithoutIs
    <3> QED
      BY <1>3, <2>1, <3>1, <3>2
  <2>2. \A d \in Class : queue[d] = <<>> => queue'[d] = <<>>
    BY <1>4 DEF WithoutIs
  <2>3. /\ Held.queue = queue /\ Held.running = running
        /\ Held'.queue = queue' /\ Held'.running = running
    BY <1>1 DEF Held
  <2>4. Quieter(Held, Held', job, job')
    BY <2>1, <2>2, <2>3 DEF Quieter
  <2>5. Quiet(Held, job, live)'
    BY <1>1, <1>2, <1>10, <2>4, QuietStays
  <2> QED
    BY <1>5, <2>5 DEF Settled
<1> QED
  BY <1>6, <1>7, <1>8, <1>9, <1>10

\* The hub's notices, and a stop.
LEMMA OutsideStarts ==
    ASSUME StartInv, durable,
           (\E c \in Class : AgentsMove(c)) \/ AgentsChanged \/ Shutdown
    PROVE  Writing' /\ Settled'
<1>1. RegistryInv
  BY DEF StartInv
<1>2. CASE \E c \in Class : AgentsMove(c)
  <2>1. UNCHANGED <<durable, job, queue, client>> /\ changed' = TRUE
    BY <1>2 DEF AgentsMove, registry
  <2> QED
    BY <2>1 DEF StartInv, Writing, Waiting, Unended, Settled, UnderWay
<1>3. CASE Shutdown
  <2>1. UNCHANGED <<durable, job, queue, client>> /\ stopping' = TRUE
    BY <1>3 DEF Shutdown
  <2> QED
    BY <2>1 DEF StartInv, Writing, Waiting, Unended, Settled
<1>4. CASE AgentsChanged
  <2>1. /\ UNCHANGED <<durable, job, client, live, stopping>>
        /\ Dispatches(queue, running, job)
    BY <1>4, Zenon DEF AgentsChanged
  <2>2. Settled'
    BY <1>1, <2>1, RegistryParts, DispatchesQuiet DEF Flags
  <2>3. Held' \in Places /\ Less([queue |-> queue, running |-> running], Held', job')
    <3>1. \A s \in Slot : running[s] \in {None, running[s]}
      OBVIOUS
    <3>2. Placed([queue |-> queue, running |-> running], job)
      BY <1>1, RegistryParts DEF HeldInv, Held
    <3> QED
      BY <1>1, <2>1, <3>1, <3>2, RegistryParts, DispatchesPlaces
  <2>4. ASSUME NEW i \in Id, Ongoing(job', i), ~job'[i].persisted
        PROVE  /\ Unended(i) /\ ~job[i].persisted
               /\ Waiting(i) => Waiting(i)'
               /\ \A d \in Client :
                    /\ client[d].id = i
                    /\ client[d].pc \in {"inserting", "admitting", "abandoning"}
                    => /\ client'[d].id = i
                       /\ client'[d].pc \in {"inserting", "admitting", "abandoning"}
    <3>1. Waiting(i) => Waiting(i)'
      BY <1>1, <2>3, <2>4, UnwrittenWaits
    <3>2. Unended(i) /\ ~job[i].persisted
      BY <2>1, <2>4 DEF Unended, Ongoing
    <3> QED
      BY <2>1, <3>1, <3>2
  <2>5. Writing'
    BY <2>1, <2>4, WritingStays DEF StartInv
  <2> QED
    BY <2>2, <2>5
<1> QED
  BY <1>2, <1>3, <1>4

\* What the rows make are queues and slots.
LEMMA RestoredTyped == Kept => Restored \in Places
<1> SUFFICES ASSUME Kept
             PROVE  Restored \in Places
  OBVIOUS
<1>1. NoneHeld \in Places
  BY DEF NoneHeld, Places
<1>2. \A x \in Places : \A k \in Id : RestoreRow(x, k) \in Places
  BY RestoreRowTyped
<1>3. PICK n \in Nat : \E h \in [0 .. n -> Places] : ReloadOf(h, n)
  BY <1>1, <1>2, RestoreRuns
<1>4. PICK h \in [0 .. n -> Places] : ReloadOf(h, n)
  BY <1>3
<1> QED
  BY <1>4 DEF ReloadOf

\* restore: every row that is reloaded is written, and the slots have looked.
LEMMA RestartStarts ==
    ASSUME StartInv, durable, Restart
    PROVE  Writing' /\ Settled'
<1> DEFINE down == [c \in Class |-> 0]
           t == DispatchIdle(Restored, job', down)
<1>1. /\ Becomes(t) /\ live' = down /\ UNCHANGED durable
      /\ job' = [j \in Id |->
                   IF j \in Reloaded
                   THEN [NoJob EXCEPT !.key = row[j].key,
                                      !.class = row[j].class,
                                      !.persisted = TRUE,
                                      !.again = job[j].again]
                   ELSE NoJob]
  BY Zenon DEF Restart
<1>2. down \in [Class -> Nat]
  OBVIOUS
<1> HIDE DEF down
<1>3. Restored \in Places
  BY RestoredTyped, RegistryParts DEF StartInv
<1>4. t \in Places /\ Quiet(t, job', down)
  BY <1>2, <1>3, DispatchTyped, DispatchSticks
<1> HIDE DEF t
<1>5. Held' = t
  BY <1>1, <1>4, BecomesHeld
<1>6. Settled'
  <2>1. Quiet(Held, job, live)'
    BY <1>1, <1>4, <1>5, QuietAfter
  <2> QED
    BY <2>1 DEF Settled
<1>7. ASSUME NEW i \in Id, Ongoing(job', i)
      PROVE  job'[i].persisted
  <2>1. i \in Reloaded
    BY <1>1, <1>7 DEF Ongoing
  <2>2. job'[i] = [NoJob EXCEPT !.key = row[i].key, !.class = row[i].class,
                                !.persisted = TRUE, !.again = job[i].again]
    BY <1>1, <2>1
  <2> QED
    BY <2>2 DEF NoJob
<1>8. Writing'
  BY <1>7 DEF Writing, Unended, Ongoing
<1> QED
  BY <1>6, <1>8

\* Every step keeps it.
LEMMA StartStep == StartInv /\ [Next]_vars => StartInv'
<1> SUFFICES ASSUME StartInv, [Next]_vars
             PROVE  StartInv'
  OBVIOUS
<1>1. RegistryInv'
  BY RegistryStep DEF StartInv
<1>2. CASE UNCHANGED vars
  <2>1. UNCHANGED <<durable, job, queue, running, client, live, changed, stopping, stalled>>
    BY <1>2 DEF vars, registry, agents
  <2>2. Held' = Held
    BY <2>1 DEF Held
  <2>3. Writing'
    BY <2>1 DEF StartInv, Writing, Waiting, Unended
  <2>4. durable' => Settled'
    <3>1. Quiet(Held, job, live) => Quiet(Held, job, live)'
      BY <2>1, <2>2, QuietAfter
    <3>2. UnderWay => UnderWay'
      BY <2>1 DEF UnderWay, Unended
    <3> QED
      BY <2>1, <3>1, <3>2 DEF StartInv, Settled
  <2> QED
    BY <1>1, <2>3, <2>4 DEF StartInv
<1>3. CASE Next /\ ~durable
  <2>1. UNCHANGED durable
    BY <1>3 DEF Next, Persist, Admit, InsertJob, Admitted, Abandon, RecordEnd,
                Leased, RunEnds, RunRequeued, RunLeft, CancelJob, AgentsMove,
                AgentsChanged, Shutdown, Restart
  <2> QED
    BY <1>1, <1>3, <2>1 DEF StartInv, Writing
<1>4. CASE Next /\ durable
  <2>1. ASSUME NEW c \in Client, NEW k \in Key, Admit(c, k)
        PROVE  Writing' /\ Settled'
    BY <1>4, <2>1, AdmitStarts
  <2>2. ASSUME NEW c \in Client, Persist(c)
        PROVE  Writing' /\ Settled'
    BY <1>4, <2>2, RequestStarts, AdmittedStarts, AbandonStarts DEF Persist
  <2>3. ASSUME NEW s \in Slot,
               Leased(s) \/ RunEnds(s) \/ RunRequeued(s) \/ RunLeft(s)
        PROVE  Writing' /\ Settled'
    BY <1>4, <2>3, RequestStarts, RunEndsStarts, RequeuedStarts
  <2>4. ASSUME \/ \E j \in Id : CancelJob(j)
               \/ \E c \in Class : AgentsMove(c)
               \/ AgentsChanged \/ Shutdown \/ Restart
        PROVE  Writing' /\ Settled'
    BY <1>4, <2>4, CancelStarts, OutsideStarts, RestartStarts
  <2>5. Writing' /\ Settled'
    BY <1>4, <2>1, <2>2, <2>3, <2>4 DEF Next
  <2> QED
    BY <1>1, <2>5 DEF StartInv
<1> QED
  BY <1>2, <1>3, <1>4

\* The inductive invariant of what could start.
THEOREM StartInvariant == Spec => []StartInv
<1>1. Init => Writing /\ (durable => Settled)
  <2> SUFFICES ASSUME Init
               PROVE  Writing /\ Settled
    OBVIOUS
  <2>1. Writing
    BY DEF Init, Writing, Unended
  <2>2. queue = [c \in Class |-> <<>>]
    BY DEF Init
  <2>3. ASSUME NEW s \in Slot
        PROVE  NextQueueFor(s, queue, running, job, live) = NoClass
    <3>1. 0 .. SlotClass[s] \subseteq Class
      <4>1. SlotClass[s] \in 0 .. MaxClass /\ MaxClass \in Nat
        BY SlotTyped, ScheduleAssumption DEF Class
      <4> QED
        BY <4>1 DEF Class
    <3>2. \A d \in 0 .. SlotClass[s] : queue[d] = <<>>
      BY <2>2, <3>1
    <3>3. NextFor(SlotClass[s], queue) = NoClass
      BY <3>2, SlotTyped, NextForIs
    <3> QED
      BY <3>3 DEF NextQueueFor
  <2>4. Quiet(Held, job, live)
    BY <2>3, HeldParts DEF Quiet, Stuck
  <2> QED
    BY <2>1, <2>4 DEF Settled
<1>2. Init => StartInv
  BY <1>1, RegistryInit DEF StartInv
<1> QED
  BY <1>2, StartStep, PTL DEF Spec

\* dispatch_idle, take_head, next_queue_for and every place that frees a slot
\* or writes a row: in worker mode and in local mode, no slot is idle beside a
\* job it may take, unless what is under way will look, or a withdrawn or moved
\* job left it so.
THEOREM NoIdleSlot == Spec => []StartedUnlessStalled
<1>1. ASSUME StartInv
      PROVE  StartedUnlessStalled
  <2>1. CASE ~durable
    <3>1. Quiet(Held, job, live)
      BY <1>1, <2>1, LocalQuiet DEF StartInv
    <3> QED
      BY <3>1, HeldParts DEF Quiet, Stuck, StartedUnlessStalled, NothingStartable,
                             Startable
  <2>2. CASE durable
    <3>1. stalled \/ stopping \/ UnderWay \/ Quiet(Held, job, live)
      BY <1>1, <2>2 DEF StartInv, Settled
    <3>2. Quiet(Held, job, live) => StartedUnlessStalled
      BY HeldParts DEF Quiet, Stuck, StartedUnlessStalled, NothingStartable,
                       Startable
    <3> QED
      BY <3>1, <3>2 DEF StartedUnlessStalled, NothingStartable, Startable
  <2> QED
    BY <2>1, <2>2
<1> QED
  BY <1>1, StartInvariant, PTL

=============================================================================
