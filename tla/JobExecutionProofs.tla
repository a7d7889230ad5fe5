------------------------- MODULE JobExecutionProofs -------------------------
(***************************************************************************)
(* What is proved of JobExecution, for any number of jobs, repositories    *)
(* and commits, whatever the child does and whenever a cancel lands: the   *)
(* cancel ends the child, a run leaves nothing behind, a child finds the   *)
(* commit its job was admitted for, and no kill of the host's own passes   *)
(* for an out-of-memory kill.                                              *)
(*                                                                         *)
(* Each needs to know where the job's thread is while the child lives and  *)
(* while it is registered, and who has killed what is dead: Sound says so, *)
(* of one job.                                                             *)
(*                                                                         *)
(* The second half is of the clones that jobs share, and of evictions that *)
(* are best-effort: CacheInv says what jobs that fill, list and evict at   *)
(* once owe each other, so that none is at its clone only when the cache   *)
(* fits its budget again, or something failed since it was last counted.   *)
(***************************************************************************)
EXTENDS JobExecution, SequenceProofs

\* The variables a job has a part of are functions on the jobs.
PerJob ==
    /\ DOMAIN pc = Job /\ DOMAIN dir = Job /\ DOMAIN proc = Job
    /\ DOMAIN death = Job /\ DOMAIN registered = Job /\ DOMAIN cancelled = Job
    /\ DOMAIN killing = Job /\ DOMAIN exit = Job /\ DOMAIN outcome = Job
    /\ DOMAIN commit = Job

\* Where the thread is while there is a child, from its registration to its
\* reaping, and before its copy is made.
WithChild == {"sending", "reading", "installing", "deciding", "reaping"}
Over == {"failing", "storing", "returned"}
Copied == WithChild \cup {"spawning", "started"}

Sound(j) ==
    /\ proc[j] \in Alive => pc[j] \in WithChild \cup {"started"}
    /\ registered[j] <=> pc[j] \in WithChild \cup {"reaped"}
    /\ killing[j] => cancelled[j]
    /\ cancelled[j] /\ ~killing[j] /\ pc[j] # "started" => proc[j] \notin Alive
    /\ pc[j] \in Copied => dir[j] = commit[j]
    /\ pc[j] = "returned" => dir[j] = NoDir
    /\ exit[j] = "other" => pc[j] \in {"reaping", "reaped"} \cup Over
    /\ death[j] = "killed" /\ ~cancelled[j] =>
         exit[j] # "other" /\ pc[j] \in {"reaping", "reaped"} \cup Over
    /\ outcome[j] = "oom" => death[j] = "oom"
    /\ outcome[j] # "none" => pc[j] = "returned"

ExecutionInv == PerJob /\ \A j \in Job : Sound(j)

\* Job i's part of the state.
Part(i) == <<pc[i], dir[i], proc[i], death[i], registered[i], cancelled[i],
             killing[i], exit[i], outcome[i], commit[i]>>

\* A step of job j is one of no other job.
Only(j) == PerJob' /\ \A i \in Job \ {j} : Part(i)' = Part(i)

-----------------------------------------------------------------------------
\* What a step leaves alone stays sound.
LEMMA OthersSound ==
    ASSUME ExecutionInv, NEW j \in Job, Only(j), Sound(j)'
    PROVE  ExecutionInv'
<1>1. ASSUME NEW i \in Job, i # j PROVE Sound(i)'
  <2>1. Part(i)' = Part(i) /\ Sound(i)
    BY <1>1 DEF Only, ExecutionInv
  <2> QED
    BY <2>1 DEF Part, Sound
<1> QED
  BY <1>1 DEF ExecutionInv, Only

\* Before there is a child: the clone and the copy.
LEMMA ClonesKeep ==
    ASSUME ExecutionInv, NEW j \in Job,
           \/ Start(j) \/ Open(j) \/ OpenFails(j) \/ CloneEnds(j)
           \/ CloneFails(j) \/ FetchEnds(j) \/ FetchFails(j) \/ List(j)
           \/ ListFails(j) \/ Evict(j) \/ EvictFails(j) \/ Evicted(j)
           \/ Resolve(j) \/ Copy(j) \/ Pin(j)
    PROVE  ExecutionInv'
<1> USE DEF At, Goes, world, cache, child, cancel
<1>1. PerJob /\ Sound(j)
  BY DEF ExecutionInv
<1>2. CASE Start(j)
  <2>1. Only(j)
    BY <1>1, <1>2 DEF Start, Only, PerJob, Part
  <2>2. Sound(j)'
    BY <1>1, <1>2 DEF Start, Sound, PerJob, Copied, WithChild, Over, Alive
  <2> QED
    BY <2>1, <2>2, OthersSound
<1>3. CASE \/ Open(j) \/ OpenFails(j) \/ CloneEnds(j) \/ CloneFails(j)
           \/ FetchEnds(j) \/ FetchFails(j) \/ List(j) \/ ListFails(j)
           \/ Evicted(j) \/ Resolve(j)
  <2>1. /\ pc[j] \in UsesClone \cup {"opening"}
        /\ \E p \in UsesClone \cup {"failing"} : pc' = [pc EXCEPT ![j] = p]
        /\ dir' = dir \/ dir' = [dir EXCEPT ![j] = Empty]
        /\ UNCHANGED <<child, cancel, exit, outcome, commit>>
    BY <1>3 DEF Open, OpenFails, CloneEnds, CloneFails, FetchEnds, FetchFails,
                List, ListFails, Evicted, Resolve, UsesClone
  <2>2. Only(j)
    BY <1>1, <2>1 DEF Only, PerJob, Part
  <2>3. Sound(j)'
    BY <1>1, <2>1 DEF Sound, PerJob, Copied, WithChild, Over, Alive, UsesClone
  <2> QED
    BY <2>2, <2>3, OthersSound
<1>4. CASE Evict(j) \/ EvictFails(j)
  <2>1. Part(j)' = Part(j) /\ Only(j)
    BY <1>1, <1>4 DEF Evict, EvictFails, Only, PerJob, Part
  <2>2. Sound(j)'
    BY <1>1, <2>1 DEF Sound, Part
  <2> QED
    BY <2>1, <2>2, OthersSound
<1>5. CASE Copy(j) \/ Pin(j)
  <2>1. /\ pc[j] \in {"copying", "pinning"}
        /\ \E p \in {"pinning", "failing", "spawning"} :
             /\ pc' = [pc EXCEPT ![j] = p]
             /\ p = "spawning" => dir' = [dir EXCEPT ![j] = commit[j]]
        /\ dir' = dir \/ \E at : dir' = [dir EXCEPT ![j] = at]
        /\ UNCHANGED <<child, cancel, exit, outcome, commit>>
    BY <1>1, <1>5 DEF Copy, Pin, PerJob
  <2>2. Only(j)
    BY <1>1, <2>1 DEF Only, PerJob, Part
  <2>3. Sound(j)'
    BY <1>1, <2>1 DEF Sound, PerJob, Copied, WithChild, Over, Alive
  <2> QED
    BY <2>2, <2>3, OthersSound
<1> QED
  BY <1>2, <1>3, <1>4, <1>5

\* A kill takes a child that lives, and changes nothing of another job.
LEMMA KilledTakes ==
    ASSUME PerJob, NEW j \in Job, Killed(j)
    PROVE  /\ proc'[j] \notin Alive
           /\ \/ proc' = proc /\ death' = death
              \/ proc[j] \in Alive /\ death'[j] = "killed"
           /\ DOMAIN proc' = Job /\ DOMAIN death' = Job
           /\ \A i \in Job \ {j} : proc'[i] = proc[i] /\ death'[i] = death[i]
<1>1. CASE proc[j] \in Alive
  BY <1>1 DEF Killed, PerJob, Alive
<1>2. CASE proc[j] \notin Alive
  BY <1>2 DEF Killed, PerJob
<1> QED
  BY <1>1, <1>2

\* From the spawn to the reaping: the steps that kill.
LEMMA KillersKeep ==
    ASSUME ExecutionInv, NEW j \in Job,
           ChildStarted(j) \/ Send(j) \/ Decide(j) \/ Cancel(j) \/ Kill(j)
    PROVE  ExecutionInv'
<1> USE DEF At, Goes, world, cache, child, cancel
<1>1. PerJob /\ Sound(j)
  BY DEF ExecutionInv
<1>2. Killed(j) \/ UNCHANGED <<proc, death>>
  BY DEF ChildStarted, Send, Decide, Cancel, Kill
<1>3. /\ Killed(j) => proc'[j] \notin Alive
      /\ \/ proc' = proc /\ death' = death
         \/ proc[j] \in Alive /\ proc'[j] \notin Alive /\ death'[j] = "killed"
      /\ DOMAIN proc' = Job /\ DOMAIN death' = Job
      /\ \A i \in Job \ {j} : proc'[i] = proc[i] /\ death'[i] = death[i]
  <2>1. CASE Killed(j)
    BY <1>1, <2>1, KilledTakes
  <2>2. CASE UNCHANGED <<proc, death>> /\ ~Killed(j)
    BY <1>1, <2>2 DEF PerJob
  <2> QED
    BY <1>2, <2>1, <2>2
<1>4. Only(j)
  BY <1>1, <1>3 DEF ChildStarted, Send, Decide, Cancel, Kill, Only, PerJob, Part
<1> HIDE DEF child
<1>5. CASE ChildStarted(j)
  <2>1. Sound(j)'
    BY <1>1, <1>3, <1>5
       DEF ChildStarted, Sound, PerJob, Copied, WithChild, Over
  <2> QED
    BY <2>1, <1>4, OthersSound
<1>6. CASE Send(j)
  <2>1. Sound(j)'
    BY <1>1, <1>3, <1>6
       DEF Send, Sound, PerJob, Copied, WithChild, Over, child
  <2> QED
    BY <2>1, <1>4, OthersSound
<1>7. CASE Decide(j)
  <2>1. Sound(j)'
    BY <1>1, <1>3, <1>7 DEF Decide, Sound, PerJob, Copied, WithChild, Over
  <2> QED
    BY <2>1, <1>4, OthersSound
<1>8. CASE Cancel(j)
  <2>1. Sound(j)'
    BY <1>1, <1>3, <1>8
       DEF Cancel, Sound, PerJob, Copied, WithChild, Over, Working, UsesClone
  <2> QED
    BY <2>1, <1>4, OthersSound
<1>9. CASE Kill(j)
  <2>1. Sound(j)'
    BY <1>1, <1>3, <1>9 DEF Kill, Sound, PerJob, Copied, WithChild, Over
  <2> QED
    BY <2>1, <1>4, OthersSound
<1> QED
  BY <1>5, <1>6, <1>7, <1>8, <1>9

\* The child's own steps, and those of a thread that only listens to it.
LEMMA ChildKeeps ==
    ASSUME ExecutionInv, NEW j \in Job,
           \/ Spawn(j) \/ Read(j) \/ Install(j) \/ StreamEnds(j) \/ Reap(j)
           \/ Return(j) \/ ChildDies(j)
    PROVE  ExecutionInv'
<1> USE DEF At, Goes, world, cache, child, cancel
<1>1. PerJob /\ Sound(j)
  BY DEF ExecutionInv
<1>2. CASE Spawn(j)
  <2>1. Only(j)
    BY <1>1, <1>2 DEF Spawn, Only, PerJob, Part
  <2>2. Sound(j)'
    BY <1>1, <1>2 DEF Spawn, Sound, PerJob, Copied, WithChild, Over, Alive
  <2> QED
    BY <2>1, <2>2, OthersSound
<1>3. CASE Read(j)
  <2>1. Only(j)
    BY <1>1, <1>3 DEF Read, Only, PerJob, Part
  <2>2. Sound(j)'
    BY <1>1, <1>3 DEF Read, Sound, PerJob, Copied, WithChild, Over, Alive
  <2> QED
    BY <2>1, <2>2, OthersSound
<1>4. CASE Install(j)
  <2>1. Only(j)
    BY <1>1, <1>4 DEF Install, Only, PerJob, Part
  <2>2. Sound(j)'
    BY <1>1, <1>4 DEF Install, Sound, PerJob, Copied, WithChild, Over, Alive
  <2> QED
    BY <2>1, <2>2, OthersSound
<1>5. CASE StreamEnds(j) \/ Reap(j)
  <2>1. Only(j)
    BY <1>1, <1>5 DEF StreamEnds, Reap, Only, PerJob, Part
  <2>2. Sound(j)'
    BY <1>1, <1>5
       DEF StreamEnds, Reap, Sound, PerJob, Copied, WithChild, Over, Alive
  <2> QED
    BY <2>1, <2>2, OthersSound
<1>6. CASE Return(j)
  <2>1. \E p \in {"storing", "failing"} : pc' = [pc EXCEPT ![j] = p]
    BY <1>6 DEF Return
  <2>2. Only(j)
    BY <1>1, <1>6, <2>1 DEF Return, Only, PerJob, Part
  <2>3. Sound(j)'
    BY <1>1, <1>6, <2>1
       DEF Return, Sound, PerJob, Copied, WithChild, Over, Alive
  <2> QED
    BY <2>2, <2>3, OthersSound
<1>7. CASE ChildDies(j)
  <2>1. Only(j)
    BY <1>1, <1>7 DEF ChildDies, Only, PerJob, Part
  <2>2. Sound(j)'
    BY <1>1, <1>7
       DEF ChildDies, Sound, PerJob, Copied, WithChild, Over, Alive
  <2> QED
    BY <2>1, <2>2, OthersSound
<1> QED
  BY <1>2, <1>3, <1>4, <1>5, <1>6, <1>7

\* The two ends of a thread.
LEMMA EndsKeep ==
    ASSUME ExecutionInv, NEW j \in Job, Fail(j) \/ Store(j)
    PROVE  ExecutionInv'
<1> USE DEF At, Goes, Ends, world, cache, child, cancel
<1>1. PerJob /\ Sound(j)
  BY DEF ExecutionInv
<1>2. \E how : /\ outcome' = [outcome EXCEPT ![j] = how]
               /\ how = "oom" => /\ exit[j] = "other" /\ ~cancelled[j]
                                 /\ death[j] \in {"oom", "killed"}
  BY DEF Fail, Store, FailedAs, KilledByOom
<1>3. Only(j)
  BY <1>1, <1>2 DEF Fail, Store, Only, PerJob, Part
<1>4. Sound(j)'
  BY <1>1, <1>2
     DEF Fail, Store, Sound, PerJob, Copied, WithChild, Over, Alive
<1> QED
  BY <1>3, <1>4, OthersSound

-----------------------------------------------------------------------------
\* At first no thread has begun.
LEMMA ExecutionInit == Init => ExecutionInv
  BY DEF Init, ExecutionInv, PerJob, Sound, Copied, WithChild, Over, Alive

\* Every step keeps the invariant.
LEMMA ExecutionNext == ExecutionInv /\ [Next]_vars => ExecutionInv'
<1> SUFFICES ASSUME ExecutionInv, [Next]_vars PROVE ExecutionInv'
  OBVIOUS
<1>1. CASE UNCHANGED <<world, pc, dir, child, cancel, exit, outcome>>
  BY <1>1 DEF ExecutionInv, PerJob, Sound, world, child, cancel
<1>2. ASSUME NEW r \in Repo, Push(r) PROVE ExecutionInv'
  BY <1>2 DEF Push, ExecutionInv, PerJob, Sound, child, cancel
<1>3. ASSUME NEW j \in Job,
             \/ Start(j) \/ Works(j) \/ Read(j) \/ StreamEnds(j)
             \/ ChildDies(j) \/ Cancel(j) \/ Kill(j)
      PROVE  ExecutionInv'
  BY <1>3, ClonesKeep, KillersKeep, ChildKeeps, EndsKeep DEF Works
<1>4. CASE UNCHANGED vars
  BY <1>1, <1>4 DEF vars
<1> QED
  BY <1>2, <1>3, <1>4 DEF Next

\* ExecutionInv holds in every state.
THEOREM ExecutionInvariant == Spec => []ExecutionInv
  BY ExecutionInit, ExecutionNext, PTL DEF Spec

\* A cancel that is through leaves no registered child alive, whether it came
\* before the child, with it or after (executor.rs, CancelProbe).
THEOREM ChildStopped == Spec => []CancelStopsChild
<1>1. ExecutionInv => CancelStopsChild
  BY DEF ExecutionInv, Sound, CancelStopsChild
<1> QED
  BY <1>1, ExecutionInvariant, PTL

\* A job's child finds the commit it was admitted for, whatever other jobs do
\* to the clone they share (executor.rs, pin_commit).
THEOREM AdmittedBuilt == Spec => []BuildsAdmitted
<1>1. ExecutionInv => BuildsAdmitted
  BY DEF ExecutionInv, Sound, BuildsAdmitted, Copied
<1> QED
  BY <1>1, ExecutionInvariant, PTL

\* A thread that returned has no child, no registration and no job directory
\* (executor.rs, execute and run_child).
THEOREM NoneLeft == Spec => []NothingLeft
<1>1. ExecutionInv => NothingLeft
  BY DEF ExecutionInv, Sound, NothingLeft, WithChild
<1> QED
  BY <1>1, ExecutionInvariant, PTL

\* No kill of the host's own passes for the kernel's (agent.rs,
\* killed_by_oom).
THEOREM OomIsOom == Spec => []OomHonest
<1>1. ExecutionInv => OomHonest
  BY DEF ExecutionInv, Sound, OomHonest
<1> QED
  BY <1>1, ExecutionInvariant, PTL

-----------------------------------------------------------------------------
\* The clone cache.

\* The commits from one to another are commits.
LEMMA CommitsBetween ==
    ASSUME NEW a \in Commit, NEW b \in Commit
    PROVE  a .. b \subseteq Commit
BY CacheAssumption

\* What git and evictions leave, whether they end or fail, is a clone.
LEMMA ClonesTyped ==
    ASSUME NEW a \in Commit, NEW b \in Commit, NEW c \in Clone
    PROVE  /\ NoClone \in Clone /\ PartialClone \in Clone
           /\ BrokenClone \in Clone /\ Cloned(a, b) \in Clone
           /\ Fetched(c, a, b) \in Clone /\ Grown(c, a, b) \in Clone
           /\ NoClone.state = "none" /\ PartialClone.state = "partial"
           /\ BrokenClone.state = "broken" /\ Cloned(a, b).state = "whole"
           /\ Fetched(c, a, b).state = c.state /\ Grown(c, a, b).state = c.state
           /\ PartialClone.has = {} /\ BrokenClone.has = {}
<1>1. 0 \in Commit /\ a .. b \in SUBSET Commit
  BY CommitsBetween, CacheAssumption
<1> QED
  BY <1>1 DEF NoClone, PartialClone, BrokenClone, Cloned, Fetched, Grown, Clone

\* There are finitely many files.
LEMMA FilesFinite ==
    ASSUME NEW S \in SUBSET File
    PROVE  IsFiniteSet(S) /\ Cardinality(S) \in Nat
<1>1. IsFiniteSet(Commit \cup {-1}) /\ IsFiniteSet(Repo)
  BY CacheAssumption, FS_AddElement
<1>2. IsFiniteSet(File)
  BY <1>1, FS_Product DEF File
<1> QED
  BY <1>2, FS_Subset, FS_CardinalityType

\* Fewer files fit where more do.
LEMMA FewerFit ==
    ASSUME NEW S \in SUBSET File, NEW T \in SUBSET S, Cardinality(S) <= Budget
    PROVE  Cardinality(T) <= Budget
<1>1. Cardinality(T) <= Cardinality(S)
  BY FilesFinite, FS_Subset
<1>2. Cardinality(T) \in Nat /\ Cardinality(S) \in Nat /\ Budget \in Nat
  BY FilesFinite, CacheAssumption
<1> QED
  BY <1>1, <1>2

\* A sequence of every member of a set once has them all.
LEMMA SetToSeqsIs ==
    ASSUME NEW S, IsFiniteSet(S), NEW s \in SetToSeqs(S)
    PROVE  s \in Seq(S) /\ Len(s) = Cardinality(S) /\ ToSet(s) = S
           /\ \A m, n \in 1 .. Len(s) : s[m] = s[n] => m = n
<1> DEFINE n == Cardinality(S)
           D == 1 .. n
<1>1. n \in Nat
  BY FS_CardinalityType
<1>2. s \in [D -> S] /\ \A i, j \in D : i # j => s[i] # s[j]
  BY Zenon DEF SetToSeqs
<1>3. s \in Seq(S) /\ Len(s) = n
  BY <1>1, <1>2
<1>4. ToSet(s) = S
  <2>1. IsFiniteSet(D) /\ Cardinality(D) = n
    BY <1>1, FS_Interval
  <2>2. ToSet(s) \subseteq S
    BY <1>2, <1>3 DEF ToSet
  <2>3. ASSUME NEW x \in S, x \notin ToSet(s)
        PROVE  FALSE
    <3> DEFINE T == S \ {x}
    <3>1. s \in [D -> T]
      BY <1>2, <1>3, <2>3 DEF ToSet
    <3>2. IsFiniteSet(T) /\ Cardinality(T) = n - 1
      BY <2>3, FS_RemoveElement
    <3>3. Cardinality(T) < Cardinality(D)
      BY <1>1, <2>1, <3>2
    <3> HIDE DEF T, D, n
    <3> QED
      BY <1>2, <2>1, <3>1, <3>2, <3>3, FS_PigeonHole
  <2> QED
    BY <2>2, <2>3
<1> QED
  BY <1>1, <1>2, <1>3, <1>4

\* evict_lru lists every clone but the one it serves, and counts that one too,
\* whatever it could not read.
LEMMA ListingIs ==
    ASSUME NEW c, NEW rc, NEW keep \in Repo, NEW missed,
           NEW l \in Listing(c, rc, keep, missed)
    PROVE  /\ l \in [victims : Seq(Repo), seen : SUBSET File]
           /\ \A f \in Files(c) : f[1] \in missed \/ f \in l.seen
           /\ Cached(c) \subseteq ToSet(l.victims) \cup {keep}
<1> DEFINE S == Cached(c) \ {keep}
           F == {f \in Files(c) : f[1] \notin missed}
<1>1. PICK s \in SetToSeqs(S) : l = [victims |-> s, seen |-> F]
  BY Zenon DEF Listing
<1>2. S \in SUBSET Repo
  BY DEF Cached
<1>3. s \in Seq(S) /\ ToSet(s) = S
  BY <1>2, CacheAssumption, FS_Subset, SetToSeqsIs
<1>4. s \in Seq(Repo)
  BY <1>2, <1>3
<1>5. Cached(c) \subseteq S \cup {keep}
  OBVIOUS
<1>6. F \in SUBSET File
  BY DEF Files
<1>7. l.victims = s /\ l.seen = F
  BY <1>1
<1> HIDE DEF S, F
<1>8. l \in [victims : Seq(Repo), seen : SUBSET File]
  BY <1>1, <1>4, <1>6
<1> QED
  BY <1>3, <1>5, <1>7, <1>8 DEF F

\* The last uses stay in order, each clone once.
LEMMA RemovedFrom ==
    ASSUME NEW rc \in Seq(Repo), IsInjective(rc), NEW r \in Repo
    PROVE  /\ RemoveFirst(rc, r) \in Seq(Repo) /\ IsInjective(RemoveFirst(rc, r))
           /\ Touch(rc, r) \in Seq(Repo) /\ IsInjective(Touch(rc, r))
<1> DEFINE t == RemoveFirst(rc, r)
<1>1. \A m, n \in 1 .. Len(rc) : rc[m] = rc[n] => m = n
  BY DEF IsInjective
<1>2. /\ t \in Seq(Repo)
      /\ \A m \in 1 .. Len(t) : t[m] # r
      /\ \A m, n \in 1 .. Len(t) :
           m < n => \E k, l \in 1 .. Len(rc) : k < l /\ t[m] = rc[k] /\ t[n] = rc[l]
  BY <1>1, RemoveFirstIs
<1> HIDE DEF t
<1>3. \A m, n \in 1 .. Len(t) : m < n => t[m] # t[n]
  BY <1>1, <1>2
<1>4. \A m, n \in 1 .. Len(t) : t[m] = t[n] => m = n
  <2> SUFFICES ASSUME NEW m \in 1 .. Len(t), NEW n \in 1 .. Len(t), t[m] = t[n]
               PROVE  m = n
    OBVIOUS
  <2>1. m \in Nat /\ n \in Nat /\ ~(m < n) /\ ~(n < m)
    BY <1>2, <1>3
  <2> QED
    BY <2>1
<1>5. IsInjective(t)
  BY <1>2, <1>4 DEF IsInjective
<1>6. Append(t, r) \in Seq(Repo) /\ IsInjective(Append(t, r))
  BY <1>2, <1>4 DEF IsInjective
<1> QED
  BY <1>2, <1>5, <1>6 DEF t, Touch

-----------------------------------------------------------------------------
\* The inductive invariant of the clone cache.

\* Job j's git fills its clone.
Filling(j) == pc[j] = "cloning" /\ j \notin evicted

\* The files of clones nobody is filling: they have been, or are about to be,
\* counted.
Full ==
    {f \in Files(clone) : f[1] \notin {repo[j] : j \in {i \in Job : Filling(i)}}}

\* Job j has counted all there is, and what it has yet to remove and the clone
\* it serves are all there is.
Clearing(j) ==
    /\ pc[j] = "evicting"
    /\ Full \subseteq listing[j].seen
    /\ \A f \in Full : f[1] \in ToSet(listing[j].victims) \cup {repo[j]}

\* The files fit, or are of one clone.
Fits == Cardinality(Full) <= Budget \/ \A f, g \in Full : f[1] = g[1]

\* Whoever fills a clone is alone, and knows if it is taken away.
Alone ==
    /\ \A j \in Job : Filling(j) => clone[repo[j]].state = "partial"
    /\ \A i, j \in Job : Filling(i) /\ Filling(j) /\ repo[i] = repo[j] => i = j
    /\ \A j \in evicted : pc[j] \notin {"new", "opening"}

\* While the clones are over the budget, something failed since they were last
\* counted, or the last job that was through with filling its own has yet to
\* list them, or listed them all.
Counted ==
    overlooked \/ (\E j \in Job : At(j, "cleaning") \/ Clearing(j)) \/ Fits

CacheInv == TypeOK /\ Alone /\ Counted

\* The types of what is the job's own, and of the clones.
Typed ==
    /\ pc \in [Job -> Working \cup {"new", "returned"}]
    /\ dir \in [Job -> Commit \cup {NoDir, Empty}]
    /\ proc \in [Job -> Alive \cup {"none", "dead"}]
    /\ death \in [Job -> {"none", "success", "failure", "oom", "killed"}]
    /\ exit \in [Job -> {"none", "here", "other"}]
    /\ registered \in [Job -> BOOLEAN] /\ cancelled \in [Job -> BOOLEAN]
    /\ killing \in [Job -> BOOLEAN]
    /\ said \in [Job -> {"nothing", "result", "error"}]
    /\ outcome \in [Job -> {"none", "done", "failed", "oom", "cancelled"}]

ClonesTyping ==
    /\ host \in {"local", "agent"}
    /\ remote \in [Repo -> [floor : Commit, head : Commit]]
    /\ clone \in [Repo -> Clone]
    /\ recent \in Seq(Repo) /\ IsInjective(recent)
    /\ repo \in [Job -> Repo] /\ commit \in [Job -> Commit]
    /\ listing \in [Job -> [victims : Seq(Repo), seen : SUBSET File]]
    /\ evicted \subseteq Job /\ overlooked \in BOOLEAN

LEMMA TypeParts == TypeOK <=> Typed /\ ClonesTyping
BY Zenon DEF TypeOK, Typed, ClonesTyping

LEMMA TypePartsNext == TypeOK' <=> Typed' /\ ClonesTyping'
BY TypeParts, PTL

\* The child's part of the run touches no clone, and keeps the types.
LEMMA ChildTyped ==
    ASSUME TypeOK, NEW j \in Job,
           \/ Spawn(j) \/ ChildStarted(j) \/ Send(j) \/ Read(j) \/ Install(j)
           \/ StreamEnds(j) \/ Decide(j) \/ Reap(j) \/ Return(j) \/ Fail(j)
           \/ Store(j) \/ ChildDies(j) \/ Cancel(j) \/ Kill(j)
    PROVE  TypeOK' /\ UNCHANGED <<world, cache>>
<1> USE DEF At, Goes, world, cache, history, child, cancel, Killed, Ends, Says
<1>1. Typed /\ ClonesTyping
  BY TypeParts
<1>2. UNCHANGED <<world, cache>>
  BY DEF Spawn, ChildStarted, Send, Read, Install, StreamEnds, Decide, Reap,
         Return, Fail, Store, ChildDies, Cancel, Kill
<1>3. ClonesTyping'
  BY <1>1, <1>2 DEF ClonesTyping
<1>4. Typed'
  <2> USE <1>1 DEF Typed, Working, UsesClone, Alive
  <2>1. CASE Spawn(j)
    BY <2>1 DEF Spawn
  <2>2. CASE ChildStarted(j)
    BY <2>2 DEF ChildStarted
  <2>3. CASE Send(j)
    <3>1. UNCHANGED <<dir, exit, cancelled, killing, said, outcome>>
      BY <2>3 DEF Send
    <3>2. /\ pc' \in [Job -> Working \cup {"new", "returned"}]
          /\ registered' \in [Job -> BOOLEAN]
      BY <2>3 DEF Send
    <3>3. /\ proc' \in [Job -> Alive \cup {"none", "dead"}]
          /\ death' \in [Job -> {"none", "success", "failure", "oom", "killed"}]
      BY <2>3 DEF Send
    <3> QED
      BY <3>1, <3>2, <3>3
  <2>4. CASE Read(j)
    BY <2>4 DEF Read
  <2>5. CASE Install(j)
    BY <2>5 DEF Install
  <2>6. CASE StreamEnds(j)
    BY <2>6 DEF StreamEnds
  <2>7. CASE Decide(j)
    BY <2>7 DEF Decide
  <2>8. CASE Reap(j)
    BY <2>8 DEF Reap
  <2>9. CASE Return(j)
    BY <2>9 DEF Return
  <2>10. CASE Fail(j)
    BY <2>10 DEF Fail, FailedAs
  <2>11. CASE Store(j)
    BY <2>11 DEF Store
  <2>12. CASE ChildDies(j)
    BY <2>12 DEF ChildDies
  <2>13. CASE Cancel(j)
    BY <2>13 DEF Cancel
  <2>14. CASE Kill(j)
    BY <2>14 DEF Kill
  <2> QED
    BY <2>1, <2>2, <2>3, <2>4, <2>5, <2>6, <2>7, <2>8, <2>9, <2>10, <2>11,
       <2>12, <2>13, <2>14
<1> QED
  BY <1>2, <1>3, <1>4, TypePartsNext

\* So does the part before it, on the clones.
LEMMA CloneTyped ==
    ASSUME CacheInv, NEW j \in Job,
           \/ Start(j) \/ Open(j) \/ OpenFails(j) \/ CloneEnds(j)
           \/ CloneFails(j) \/ FetchEnds(j) \/ FetchFails(j) \/ List(j)
           \/ ListFails(j) \/ Evict(j) \/ EvictFails(j) \/ Evicted(j)
           \/ Resolve(j) \/ Copy(j) \/ Pin(j)
    PROVE  TypeOK'
<1> USE DEF At, Goes, world, cache, child, cancel
<1>1. Typed /\ ClonesTyping
  BY TypeParts DEF CacheInv
<1>2. Typed'
  <2> USE <1>1 DEF Typed, Working, UsesClone
  <2>1. CASE Start(j)
    BY <2>1 DEF Start
  <2>2. CASE Open(j)
    BY <2>2 DEF Open
  <2>3. CASE CloneEnds(j) \/ CloneFails(j)
    BY <2>3 DEF CloneEnds, CloneFails
  <2>4. CASE FetchEnds(j) \/ FetchFails(j)
    BY <2>4 DEF FetchEnds, FetchFails
  <2>5. CASE List(j) \/ ListFails(j)
    BY <2>5 DEF List, ListFails
  <2>6. CASE Evict(j) \/ EvictFails(j)
    BY <2>6 DEF Evict, EvictFails
  <2>7. CASE Evicted(j)
    BY <2>7 DEF Evicted
  <2>8. CASE Resolve(j)
    BY <2>8 DEF Resolve
  <2>9. CASE Copy(j)
    <3>1. clone[repo[j]].at \in Commit
      BY <1>1 DEF ClonesTyping, Clone
    <3>2. dir' \in [Job -> Commit \cup {NoDir, Empty}]
      BY <2>9, <3>1 DEF Copy
    <3>3. pc' \in [Job -> Working \cup {"new", "returned"}]
      BY <2>9 DEF Copy
    <3> QED
      BY <2>9, <3>2, <3>3 DEF Copy
  <2>10. CASE Pin(j)
    BY <2>10 DEF Pin, ClonesTyping
  <2>11. CASE OpenFails(j)
    BY <2>11 DEF OpenFails
  <2> QED
    BY <2>1, <2>2, <2>3, <2>4, <2>5, <2>6, <2>7, <2>8, <2>9, <2>10, <2>11
<1>3. /\ repo[j] \in Repo /\ remote[repo[j]].floor \in Commit
      /\ remote[repo[j]].head \in Commit /\ clone[repo[j]] \in Clone
  BY <1>1 DEF ClonesTyping
<1>4. /\ NoClone \in Clone /\ BrokenClone \in Clone
      /\ Cloned(remote[repo[j]].floor, remote[repo[j]].head) \in Clone
      /\ Fetched(clone[repo[j]], remote[repo[j]].floor, remote[repo[j]].head) \in Clone
      /\ Grown(clone[repo[j]], remote[repo[j]].floor, remote[repo[j]].head) \in Clone
  BY <1>3, ClonesTyped
<1>5. ClonesTyping'
  <2>1. CASE Start(j)
    BY <1>1, <1>3, <2>1 DEF Start, history, ClonesTyping
  <2>2. CASE Open(j) \/ OpenFails(j)
    <3>1. clone' \in [Repo -> Clone]
      <4>1. clone' = clone \/ clone' = [clone EXCEPT ![repo[j]] = PartialClone]
        BY <2>2 DEF Open, OpenFails
      <4>2. PartialClone \in Clone
        BY <1>3, ClonesTyped
      <4> QED
        BY <1>1, <1>3, <4>1, <4>2 DEF ClonesTyping
    <3>2. UNCHANGED <<world, recent, listing, history>>
      BY <2>2 DEF Open, OpenFails
    <3> QED
      BY <1>1, <3>1, <3>2 DEF history, ClonesTyping
  <2>3. CASE CloneEnds(j) \/ CloneFails(j)
    <3>1. clone' \in [Repo -> Clone]
      BY <1>1, <1>3, <1>4, <2>3 DEF CloneEnds, CloneFails, ClonesTyping
    <3>2. overlooked' \in BOOLEAN
      BY <1>1, <2>3 DEF CloneEnds, CloneFails, history, ClonesTyping
    <3>3. recent' \in Seq(Repo) /\ IsInjective(recent')
      <4>1. recent' = recent \/ recent' = RemoveFirst(recent, repo[j])
        BY <2>3 DEF CloneEnds, CloneFails
      <4>2. recent \in Seq(Repo) /\ IsInjective(recent)
        BY <1>1 DEF ClonesTyping
      <4> QED
        BY <1>3, <4>1, <4>2, RemovedFrom
    <3>4. UNCHANGED <<world, listing, evicted>>
      BY <2>3 DEF CloneEnds, CloneFails, history
    <3> QED
      BY <1>1, <3>1, <3>2, <3>3, <3>4 DEF ClonesTyping
  <2>4. CASE FetchEnds(j) \/ FetchFails(j)
    <3>1. clone' \in [Repo -> Clone]
      BY <1>1, <1>3, <1>4, <2>4 DEF FetchEnds, FetchFails, ClonesTyping
    <3>2. overlooked' \in BOOLEAN
      BY <1>1, <2>4 DEF FetchEnds, FetchFails, history, ClonesTyping
    <3> QED
      BY <1>1, <2>4, <3>1, <3>2 DEF FetchEnds, FetchFails, history, ClonesTyping
  <2>5. CASE List(j) \/ ListFails(j)
    <3>1. listing' \in [Job -> [victims : Seq(Repo), seen : SUBSET File]]
      <4>1. CASE List(j)
        <5>1. PICK missed, l : /\ l \in Listing(clone, recent', repo[j], missed)
                               /\ listing' = [listing EXCEPT ![j] = l]
          BY <4>1, Zenon DEF List
        <5>2. l \in [victims : Seq(Repo), seen : SUBSET File]
          BY <1>3, <5>1, ListingIs
        <5> QED
          BY <1>1, <5>1, <5>2 DEF ClonesTyping
      <4>2. CASE ListFails(j)
        BY <1>1, <4>2 DEF ListFails, ClonesTyping
      <4> QED
        BY <2>5, <4>1, <4>2
    <3>2. Touched(j)
      BY <2>5 DEF List, ListFails
    <3>3. recent' \in Seq(Repo) /\ IsInjective(recent')
      BY <1>1, <1>3, <3>2, RemovedFrom DEF Touched, ClonesTyping
    <3>4. overlooked' \in BOOLEAN
      BY <2>5 DEF List, ListFails
    <3>5. UNCHANGED <<world, clone, evicted>>
      BY <2>5 DEF List, ListFails
    <3> QED
      BY <1>1, <3>1, <3>3, <3>4, <3>5 DEF ClonesTyping
  <2>6. CASE Evict(j) \/ EvictFails(j)
    <3> DEFINE r == Head(listing[j].victims)
    <3>1. /\ listing[j].victims \in Seq(Repo) /\ listing[j].victims # <<>>
          /\ listing[j].seen \in SUBSET File
      BY <1>1, <2>6 DEF Evict, EvictFails, MustEvict, ClonesTyping
    <3>2. r \in Repo /\ Tail(listing[j].victims) \in Seq(Repo)
      BY <3>1
    <3>3. recent' \in Seq(Repo) /\ IsInjective(recent')
      <4>1. recent' = recent \/ recent' = RemoveFirst(recent, r)
        BY <2>6 DEF Evict, EvictFails
      <4>2. recent \in Seq(Repo) /\ IsInjective(recent)
        BY <1>1 DEF ClonesTyping
      <4> QED
        BY <3>2, <4>1, <4>2, RemovedFrom
    <3>4. clone' \in [Repo -> Clone]
      BY <1>1, <1>4, <2>6, <3>2 DEF Evict, EvictFails, ClonesTyping
    <3>5. \A b \in BOOLEAN : AfterVictim(listing[j], b)
                               \in [victims : Seq(Repo), seen : SUBSET File]
      BY <3>1, <3>2 DEF AfterVictim
    <3>6. \E b \in BOOLEAN : listing' = [listing EXCEPT ![j] = AfterVictim(@, b)]
      BY <2>6 DEF Evict, EvictFails
    <3>7. listing' \in [Job -> [victims : Seq(Repo), seen : SUBSET File]]
      BY <1>1, <3>5, <3>6 DEF ClonesTyping
    <3>8. evicted' \subseteq Job /\ overlooked' \in BOOLEAN
      BY <1>1, <2>6 DEF Evict, EvictFails, Users, ClonesTyping
    <3>9. UNCHANGED world
      BY <2>6 DEF Evict, EvictFails
    <3> HIDE DEF r
    <3> QED
      BY <1>1, <3>3, <3>4, <3>7, <3>8, <3>9 DEF ClonesTyping
  <2>7. CASE Evicted(j)
    <3>1. NoListing \in [victims : Seq(Repo), seen : SUBSET File]
      BY DEF NoListing
    <3> QED
      BY <1>1, <2>7, <3>1 DEF Evicted, history, ClonesTyping
  <2>8. CASE Resolve(j)
    BY <1>1, <2>8 DEF Resolve, history, ClonesTyping
  <2>9. CASE Copy(j)
    BY <1>1, <2>9 DEF Copy, history, ClonesTyping
  <2>10. CASE Pin(j)
    BY <1>1, <2>10 DEF Pin, history, ClonesTyping
  <2> QED
    BY <2>1, <2>2, <2>3, <2>4, <2>5, <2>6, <2>7, <2>8, <2>9, <2>10
<1> QED
  BY <1>2, <1>5, TypePartsNext

\* A push makes a commit.
LEMMA PushTyped ==
    ASSUME TypeOK, NEW r \in Repo, Push(r)
    PROVE  TypeOK' /\ UNCHANGED <<cache, pc, repo>>
<1>1. Typed /\ ClonesTyping
  BY TypeParts
<1>2. Typed' /\ UNCHANGED <<cache, pc, repo>>
  BY <1>1 DEF Push, Typed, cache, child, cancel
<1>3. remote' \in [Repo -> [floor : Commit, head : Commit]]
  <2>1. PICK floor \in (IF "push" \in May THEN {remote[r].floor} ELSE {})
                 \cup (IF "forcepush" \in May THEN {remote[r].head + 1} ELSE {}) :
           remote' = [remote EXCEPT ![r] = [floor |-> floor, head |-> @.head + 1]]
    BY DEF Push
  <2>2. floor \in Commit /\ remote[r].head + 1 \in Commit
    BY <1>1 DEF Push, ClonesTyping
  <2> QED
    BY <1>1, <2>1, <2>2 DEF ClonesTyping
<1>4. ClonesTyping'
  BY <1>1, <1>3 DEF Push, ClonesTyping, cache, history
<1> QED
  BY <1>2, <1>4, TypePartsNext

\* Where files fit, those that are left of them do.
LEMMA FitStill ==
    ASSUME Fits, \A f \in Full' : f \in Full
    PROVE  Fits'
<1>1. CASE Cardinality(Full) <= Budget
  <2>1. Full \in SUBSET File /\ Full' \in SUBSET Full
    BY DEF Full, Files
  <2>2. Cardinality(Full') <= Budget
    BY <1>1, <2>1, FewerFit
  <2> QED
    BY <2>2 DEF Fits
<1>2. CASE \A f, g \in Full : f[1] = g[1]
  BY <1>2 DEF Fits
<1> QED
  BY <1>1, <1>2 DEF Fits

\* Files that were counted, or fit, still are, as long as none are added and
\* whoever is at it goes on.
LEMMA StillCounted ==
    ASSUME CacheInv, Full' \subseteq Full, repo' = repo, overlooked => overlooked',
           \A j \in Job : At(j, "cleaning") \/ At(j, "evicting")
                            => pc'[j] = pc[j] /\ listing'[j] = listing[j]
    PROVE  Counted'
<1>1. CASE overlooked
  BY <1>1 DEF Counted
<1>2. CASE \E j \in Job : At(j, "cleaning")
  BY <1>2 DEF At, Counted
<1>3. CASE \E j \in Job : Clearing(j)
  <2>1. PICK j \in Job : Clearing(j)
    BY <1>3
  <2>2. Clearing(j)'
    BY <2>1 DEF Clearing, At
  <2> QED
    BY <2>2 DEF Counted
<1>4. CASE Fits
  BY <1>4, FitStill DEF Counted
<1> QED
  BY <1>1, <1>2, <1>3, <1>4 DEF CacheInv, Counted

\* No git begins to fill a clone, and what those that do fill stays theirs.
LEMMA StillAlone ==
    ASSUME CacheInv, repo' = repo,
           \A i \in Job : Filling(i)' =>
             Filling(i) /\ clone'[repo[i]].state = clone[repo[i]].state,
           \A i \in evicted' : pc'[i] \notin {"new", "opening"}
    PROVE  Alone'
<1>1. \A i \in Job : Filling(i)' => clone'[repo'[i]].state = "partial"
  BY DEF CacheInv, Alone
<1>2. \A h, i \in Job : Filling(h)' /\ Filling(i)' /\ repo'[h] = repo'[i] => h = i
  BY DEF CacheInv, Alone
<1> QED
  BY <1>1, <1>2 DEF Alone

\* A step that touches no clone and starts or ends no filling or eviction.
LEMMA CacheSteady ==
    ASSUME CacheInv, TypeOK', UNCHANGED <<clone, listing, repo>>,
           overlooked => overlooked', evicted' \subseteq evicted,
           \A j \in evicted \ evicted' : pc[j] # "cloning",
           \A j \in Job :
             \/ pc'[j] = pc[j]
             \/ /\ {pc[j], pc'[j]} \cap {"cloning", "cleaning", "evicting"} = {}
                /\ pc'[j] \in {"new", "opening"} => pc[j] \in {"new", "opening"}
    PROVE  CacheInv'
<1>1. \A j \in Job : Filling(j)' <=> Filling(j)
  BY DEF Filling
<1>2. Full' = Full
  BY <1>1 DEF Full
<1>3. \A j \in evicted' : pc'[j] \notin {"new", "opening"}
  BY DEF CacheInv, Alone, TypeOK
<1>4. Counted'
  BY <1>2, StillCounted DEF At
<1>5. Alone'
  BY <1>1, <1>3, StillAlone
<1> QED
  BY <1>4, <1>5 DEF CacheInv

\* git clone begins in a directory that no other git is at.
LEMMA OpenCounted ==
    ASSUME CacheInv, NEW j \in Job, Open(j)
    PROVE  CacheInv'
<1> USE DEF At, Goes
<1>1. TypeOK /\ TypeOK'
  BY CloneTyped DEF CacheInv
<1>2. CASE pc' = [pc EXCEPT ![j] = "fetching"] /\ UNCHANGED clone
  <2>1. pc[j] = "opening" /\ UNCHANGED <<repo, listing, evicted, overlooked>>
    BY DEF Open, world, history
  <2> QED
    BY <1>1, <1>2, <2>1, CacheSteady DEF TypeOK
<1>3. CASE /\ clone[repo[j]].state \in {"none", "broken"}
           /\ clone' = [clone EXCEPT ![repo[j]] = PartialClone]
           /\ pc' = [pc EXCEPT ![j] = "cloning"]
  <2>1. pc[j] = "opening" /\ UNCHANGED <<repo, listing, evicted, overlooked>>
    BY DEF Open, world, history
  <2>2. repo[j] \in Repo /\ PartialClone.state = "partial" /\ j \notin evicted
        /\ clone \in [Repo -> Clone] /\ pc \in [Job -> Working \cup {"new", "returned"}]
        /\ repo \in [Job -> Repo]
    BY <1>1, <2>1 DEF TypeOK, CacheInv, Alone, PartialClone, NoClone
  <2>3. \A i \in Job : Filling(i)' <=> Filling(i) \/ i = j
    BY <1>3, <2>1, <2>2 DEF Filling
  <2>4. \A i \in Job : Filling(i) => repo[i] # repo[j]
    BY <1>3 DEF CacheInv, Alone
  <2>5. clone'[repo[j]].state = "partial"
        /\ \A r \in Repo \ {repo[j]} : clone'[r] = clone[r]
    BY <1>3, <2>2
  <2>6. Full' \subseteq Full
    <3> SUFFICES ASSUME NEW f \in Full' PROVE f \in Full
      OBVIOUS
    <3>1. f \in File /\ f[1] \in Repo
      BY DEF Full, Files, File
    <3>2. f[1] # repo[j] /\ \A i \in Job : Filling(i) => f[1] # repo[i]
      BY <2>1, <2>3 DEF Full
    <3>3. clone'[f[1]] = clone[f[1]]
      BY <2>5, <3>1, <3>2
    <3>4. f \in Files(clone)
      BY <3>1, <3>3 DEF Full, Files
    <3> QED
      BY <3>2, <3>4 DEF Full
  <2>7. Counted'
    BY <1>3, <2>1, <2>2, <2>6, StillCounted
  <2>8. \A i \in Job : Filling(i)' => clone'[repo'[i]].state = "partial"
    BY <2>1, <2>2, <2>3, <2>4, <2>5 DEF CacheInv, Alone
  <2>9. \A h, i \in Job : Filling(h)' /\ Filling(i)' /\ repo'[h] = repo'[i] => h = i
    BY <2>1, <2>3, <2>4 DEF CacheInv, Alone
  <2>10. \A i \in evicted' : pc'[i] \notin {"new", "opening"}
    BY <1>1, <1>3, <2>1, <2>2 DEF CacheInv, Alone, TypeOK
  <2> QED
    BY <1>1, <2>7, <2>8, <2>9, <2>10 DEF CacheInv, Alone
<1> QED
  BY <1>2, <1>3 DEF Open

\* git clone ends: its clone is listed next.  Or it fails, and what it leaves,
\* if anything, is overlooked.
LEMMA CloneEndsCounted ==
    ASSUME CacheInv, NEW j \in Job, CloneEnds(j) \/ CloneFails(j)
    PROVE  CacheInv'
<1> USE DEF At, Goes
<1>1. TypeOK /\ TypeOK'
  BY CloneTyped DEF CacheInv
<1>2. /\ pc[j] = "cloning" /\ UNCHANGED <<repo, listing, evicted>>
      /\ \E p \in {"cleaning", "failing"} : pc' = [pc EXCEPT ![j] = p]
      /\ j \in evicted => UNCHANGED clone
      /\ \/ \E c : clone' = [clone EXCEPT ![repo[j]] = c]
         \/ j \in evicted /\ clone' = clone
      /\ overlooked => overlooked'
  <2>1. CASE CloneEnds(j)
    BY <2>1 DEF CloneEnds, world, history
  <2>2. CASE CloneFails(j)
    <3>1. overlooked => overlooked'
      BY <2>2, Zenon DEF CloneFails
    <3> QED
      BY <2>2, <3>1 DEF CloneFails, world
  <2> QED
    BY <2>1, <2>2
<1>3. repo[j] \in Repo /\ clone \in [Repo -> Clone] /\ repo \in [Job -> Repo]
      /\ pc \in [Job -> Working \cup {"new", "returned"}]
  BY <1>1 DEF TypeOK
<1>4. \A i \in Job : Filling(i)' <=> Filling(i) /\ i # j
  BY <1>2, <1>3 DEF Filling
<1>5. \A i \in Job : Filling(i) /\ i # j => clone'[repo[i]] = clone[repo[i]]
  <2> SUFFICES ASSUME NEW i \in Job, Filling(i), i # j
               PROVE  clone'[repo[i]] = clone[repo[i]]
    OBVIOUS
  <2>1. j \notin evicted => repo[i] # repo[j]
    BY <1>2 DEF CacheInv, Alone, Filling
  <2> QED
    BY <1>2, <1>3, <2>1
<1>6. \A i \in evicted' : pc'[i] \notin {"new", "opening"}
  BY <1>1, <1>2, <1>3 DEF CacheInv, Alone, TypeOK
<1>7. Alone'
  BY <1>2, <1>4, <1>5, <1>6, StillAlone
<1>8. Counted'
  <2>1. CASE CloneEnds(j)
    <3>1. At(j, "cleaning")'
      BY <1>3, <2>1 DEF CloneEnds
    <3> QED
      BY <3>1 DEF Counted
  <2>2. CASE CloneFails(j) /\ overlooked'
    BY <2>2 DEF Counted
  <2>3. CASE CloneFails(j) /\ ~overlooked'
    <3>1. \/ j \in evicted /\ clone' = clone
          \/ clone' = [clone EXCEPT ![repo[j]] = NoClone]
      BY <2>3 DEF CloneFails
    <3>2. Full' \subseteq Full
      <4>1. CASE j \in evicted /\ clone' = clone
        <5>1. \A i \in Job : Filling(i)' <=> Filling(i)
          BY <1>4, <4>1 DEF Filling
        <5> QED
          BY <1>2, <4>1, <5>1 DEF Full
      <4>2. CASE clone' = [clone EXCEPT ![repo[j]] = NoClone]
        <5> SUFFICES ASSUME NEW f \in Full' PROVE f \in Full
          OBVIOUS
        <5>1. f \in File /\ f[1] \in Repo /\ clone'[f[1]].state # "none"
          BY DEF Full, Files, File
        <5>2. f[1] # repo[j] /\ clone'[f[1]] = clone[f[1]]
          BY <1>3, <4>2, <5>1 DEF NoClone
        <5>3. f \in Files(clone)
          BY <5>1, <5>2 DEF Full, Files
        <5>4. \A i \in Job : Filling(i) => f[1] # repo[i]
          BY <1>2, <1>4, <5>2 DEF Full
        <5> QED
          BY <5>3, <5>4 DEF Full
      <4> QED
        BY <3>1, <4>1, <4>2
    <3> QED
      BY <1>2, <1>3, <3>2, StillCounted
  <2> QED
    BY <2>1, <2>2, <2>3
<1> QED
  BY <1>1, <1>7, <1>8 DEF CacheInv

\* A fetch ends: the clone is listed next.  Or it fails, and if it grew, that is
\* overlooked.
LEMMA FetchEndsCounted ==
    ASSUME CacheInv, NEW j \in Job, FetchEnds(j) \/ FetchFails(j)
    PROVE  CacheInv'
<1> USE DEF At, Goes
<1>1. TypeOK /\ TypeOK'
  BY CloneTyped DEF CacheInv
<1>2. /\ pc[j] = "fetching" /\ UNCHANGED <<repo, listing, evicted>>
      /\ clone \in [Repo -> Clone] /\ pc \in [Job -> Working \cup {"new", "returned"}]
      /\ repo \in [Job -> Repo] /\ remote[repo[j]].floor \in Commit
      /\ remote[repo[j]].head \in Commit
      /\ \E p \in {"cleaning", "failing"} : pc' = [pc EXCEPT ![j] = p]
      /\ overlooked => overlooked'
  <2>1. /\ clone \in [Repo -> Clone] /\ repo \in [Job -> Repo]
        /\ pc \in [Job -> Working \cup {"new", "returned"}]
        /\ remote \in [Repo -> [floor : Commit, head : Commit]]
    BY <1>1 DEF TypeOK
  <2>2. overlooked => overlooked'
    <3>1. CASE FetchEnds(j)
      BY <3>1 DEF FetchEnds, history
    <3>2. CASE FetchFails(j)
      BY <3>2, Zenon DEF FetchFails
    <3> QED
      BY <3>1, <3>2
  <2>3. /\ pc[j] = "fetching" /\ UNCHANGED <<repo, listing, evicted>>
        /\ \E p \in {"cleaning", "failing"} : pc' = [pc EXCEPT ![j] = p]
    BY DEF FetchEnds, FetchFails, world, history
  <2> QED
    BY <2>1, <2>2, <2>3
<1>3. \A i \in Job : Filling(i)' <=> Filling(i)
  BY <1>2 DEF Filling
<1>4. \A r \in Repo : clone'[r].state = clone[r].state
  <2>1. clone[repo[j]] \in Clone
    BY <1>2
  <2>2. /\ Fetched(clone[repo[j]], remote[repo[j]].floor,
                   remote[repo[j]].head).state = clone[repo[j]].state
        /\ Grown(clone[repo[j]], remote[repo[j]].floor,
                 remote[repo[j]].head).state = clone[repo[j]].state
    BY <1>2, <2>1, ClonesTyped
  <2> QED
    BY <1>2, <2>2 DEF FetchEnds, FetchFails
<1>5. \A i \in evicted' : pc'[i] \notin {"new", "opening"}
  BY <1>1, <1>2 DEF CacheInv, Alone, TypeOK
<1>6. Alone'
  BY <1>2, <1>3, <1>4, <1>5, StillAlone
<1>7. Counted'
  <2>1. CASE FetchEnds(j)
    <3>1. At(j, "cleaning")'
      BY <1>2, <2>1 DEF FetchEnds
    <3> QED
      BY <3>1 DEF Counted
  <2>2. CASE FetchFails(j) /\ overlooked'
    BY <2>2 DEF Counted
  <2>3. CASE FetchFails(j) /\ ~overlooked'
    <3>1. clone' = clone
      BY <2>3 DEF FetchFails
    <3>2. Full' = Full
      BY <1>2, <1>3, <3>1 DEF Full
    <3> QED
      BY <1>2, <3>2, StillCounted
  <2> QED
    BY <2>1, <2>2, <2>3
<1> QED
  BY <1>1, <1>6, <1>7 DEF CacheInv

\* The last to list its clones counts every one that nobody is filling, or
\* overlooks some.
LEMMA ListCounted ==
    ASSUME CacheInv, NEW j \in Job, List(j) \/ ListFails(j)
    PROVE  CacheInv'
<1> USE DEF At, Goes
<1>1. TypeOK /\ TypeOK'
  BY CloneTyped DEF CacheInv
<1>2. /\ pc[j] = "cleaning" /\ UNCHANGED <<clone, repo, evicted>>
      /\ \E p \in {"evicting", "resolving"} : pc' = [pc EXCEPT ![j] = p]
      /\ repo[j] \in Repo /\ pc \in [Job -> Working \cup {"new", "returned"}]
      /\ listing \in [Job -> [victims : Seq(Repo), seen : SUBSET File]]
  BY <1>1 DEF List, ListFails, world, TypeOK
<1>3. \A i \in Job : Filling(i)' <=> Filling(i)
  BY <1>2 DEF Filling
<1>4. \A i \in evicted' : pc'[i] \notin {"new", "opening"}
  BY <1>1, <1>2 DEF CacheInv, Alone, TypeOK
<1>5. Alone'
  BY <1>2, <1>3, <1>4, StillAlone
<1>6. Counted'
  <2>1. CASE overlooked'
    BY <2>1 DEF Counted
  <2>2. CASE ~overlooked'
    <3>1. List(j)
      BY <2>2 DEF ListFails
    <3>2. PICK missed, l : /\ l \in Listing(clone, recent', repo[j], missed)
                           /\ listing' = [listing EXCEPT ![j] = l]
                           /\ overlooked' = (missed # {})
      BY <3>1, Zenon DEF List
    <3>3. /\ \A f \in Files(clone) : f[1] \in missed \/ f \in l.seen
          /\ Cached(clone) \subseteq ToSet(l.victims) \cup {repo[j]}
      <4>1. l \in Listing(clone, recent', repo[j], missed)
        BY <3>2, Zenon
      <4>2. repo[j] \in Repo
        BY <1>2
      <4> QED
        BY <4>1, <4>2, ListingIs
    <3>4. Files(clone) \subseteq l.seen
      BY <2>2, <3>2, <3>3
    <3>5. Full' \subseteq Files(clone)
      BY <1>2 DEF Full
    <3>6. \A f \in Files(clone) : f[1] \in Cached(clone)
      BY DEF Files, File, Cached
    <3>7. pc'[j] = "evicting" /\ listing'[j] = l /\ repo' = repo
      BY <1>2, <3>1, <3>2 DEF List
    <3>8. Clearing(j)'
      BY <3>3, <3>4, <3>5, <3>6, <3>7 DEF Clearing
    <3> QED
      BY <3>8 DEF Counted
  <2> QED
    BY <2>1, <2>2
<1> QED
  BY <1>1, <1>5, <1>6 DEF CacheInv

\* A clone that is removed is no longer one to remove, and whoever filled it
\* knows.  One that stays, or stays in part, is overlooked.
LEMMA EvictCounted ==
    ASSUME CacheInv, NEW j \in Job, Evict(j) \/ EvictFails(j)
    PROVE  CacheInv'
<1> USE DEF At, Goes
<1> DEFINE v == listing[j].victims
           r == Head(v)
<1>1. TypeOK /\ TypeOK'
  BY CloneTyped DEF CacheInv
<1>2. /\ pc[j] = "evicting" /\ v # <<>> /\ UNCHANGED <<repo, pc>>
      /\ \/ UNCHANGED clone
         \/ /\ \E c : clone' = [clone EXCEPT ![r] = c]
            /\ evicted' = evicted \cup Users(r)
      /\ evicted' \in {evicted, evicted \cup Users(r)}
      /\ \E b \in BOOLEAN : listing' = [listing EXCEPT ![j] = AfterVictim(@, b)]
      /\ overlooked => overlooked'
  <2>1. CASE Evict(j)
    BY <2>1 DEF Evict, world, MustEvict
  <2>2. CASE EvictFails(j)
    BY <2>2 DEF EvictFails, world, MustEvict
  <2> QED
    BY <2>1, <2>2
<1>3. /\ clone \in [Repo -> Clone] /\ v \in Seq(Repo) /\ r \in Repo
      /\ listing \in [Job -> [victims : Seq(Repo), seen : SUBSET File]]
      /\ repo \in [Job -> Repo]
  BY <1>1, <1>2 DEF TypeOK
<1>4. \A i \in Job : Filling(i)' => Filling(i) /\ clone'[repo[i]] = clone[repo[i]]
  <2> SUFFICES ASSUME NEW i \in Job, Filling(i)'
               PROVE  Filling(i) /\ clone'[repo[i]] = clone[repo[i]]
    OBVIOUS
  <2>1. Filling(i)
    BY <1>2 DEF Filling
  <2>2. clone' = clone \/ repo[i] # r
    BY <1>2 DEF Filling, Users, UsesClone
  <2> QED
    BY <1>2, <1>3, <2>1, <2>2
<1>5. \A i \in evicted' : pc'[i] \notin {"new", "opening"}
  BY <1>2 DEF CacheInv, Alone, Users, UsesClone
<1>6. Alone'
  BY <1>2, <1>4, <1>5, StillAlone
<1>7. Counted'
  <2>1. CASE EvictFails(j)
    BY <2>1 DEF EvictFails, Counted
  <2>2. CASE Evict(j)
    <3>1. /\ clone' = [clone EXCEPT ![r] = NoClone]
          /\ evicted' = evicted \cup Users(r)
          /\ listing' = [listing EXCEPT ![j] = AfterVictim(@, clone[r].state # "none")]
      BY <2>2 DEF Evict
    <3>2. listing'[j] = AfterVictim(listing[j], clone[r].state # "none")
          /\ \A i \in Job \ {j} : listing'[i] = listing[i]
      BY <1>3, <3>1
    <3>3. /\ listing'[j].victims = Tail(v)
          /\ \A f \in listing[j].seen : f[1] # r => f \in listing'[j].seen
      BY <3>2 DEF AfterVictim
    <3>4. ToSet(v) \subseteq ToSet(Tail(v)) \cup {r}
      <4> SUFFICES ASSUME NEW i \in 1 .. Len(v), i # 1
                   PROVE  v[i] \in ToSet(Tail(v))
        BY <1>2, <1>3 DEF ToSet
      <4>1. /\ i - 1 \in 1 .. Len(Tail(v)) /\ Tail(v)[i - 1] = v[i]
            /\ DOMAIN Tail(v) = 1 .. Len(Tail(v))
        BY <1>2, <1>3
      <4> QED
        BY <4>1 DEF ToSet
    <3> HIDE DEF r, v
    <3>5. \A f \in Full' : f \in Full /\ f[1] # r
      <4> SUFFICES ASSUME NEW f \in Full' PROVE f \in Full /\ f[1] # r
        OBVIOUS
      <4>1. f \in File /\ f[1] \in Repo /\ clone'[f[1]].state # "none"
        BY DEF Full, Files, File
      <4>2. f[1] # r /\ clone'[f[1]] = clone[f[1]]
        BY <1>3, <3>1, <4>1 DEF NoClone
      <4>3. f \in Files(clone)
        BY <4>1, <4>2 DEF Full, Files
      <4>4. \A i \in Job : Filling(i) => f[1] # repo[i]
        <5> SUFFICES ASSUME NEW i \in Job, Filling(i) PROVE f[1] # repo[i]
          OBVIOUS
        <5>1. Filling(i)' \/ repo[i] = r
          BY <1>2, <3>1 DEF Filling, Users, UsesClone
        <5> QED
          BY <1>2, <4>2, <5>1 DEF Full
      <4> QED
        BY <4>2, <4>3, <4>4 DEF Full
    <3>6. CASE overlooked
      BY <1>2, <3>6 DEF Counted
    <3>7. CASE Clearing(j)
      <4>1. pc'[j] = "evicting" /\ repo' = repo
        BY <1>2
      <4>2. Full' \subseteq listing'[j].seen
        BY <3>3, <3>5, <3>7 DEF Clearing
      <4>3. \A f \in Full' : f[1] \in ToSet(listing'[j].victims) \cup {repo'[j]}
        BY <3>3, <3>4, <3>5, <3>7, <4>1 DEF Clearing, v
      <4>4. Clearing(j)'
        BY <4>1, <4>2, <4>3 DEF Clearing
      <4> QED
        BY <4>4 DEF Counted
    <3>8. CASE \E i \in Job : i # j /\ (At(i, "cleaning") \/ Clearing(i))
      <4>1. PICK i \in Job : i # j /\ (At(i, "cleaning") \/ Clearing(i))
        BY <3>8
      <4>2. At(i, "cleaning")' \/ Clearing(i)'
        BY <1>2, <3>2, <3>5, <4>1 DEF Clearing
      <4> QED
        BY <4>2 DEF Counted
    <3>9. CASE Fits
      BY <3>5, <3>9, FitStill DEF Counted
    <3> QED
      BY <1>2, <3>6, <3>7, <3>8, <3>9 DEF CacheInv, Counted
  <2> QED
    BY <2>1, <2>2
<1> QED
  BY <1>1, <1>6, <1>7 DEF CacheInv

\* An eviction that is over leaves no more than the budget, or the one clone it
\* served, of what it had counted.
LEMMA EvictedCounted ==
    ASSUME CacheInv, NEW j \in Job, Evicted(j)
    PROVE  CacheInv'
<1> USE DEF At, Goes
<1> DEFINE v == listing[j].victims
           seen == listing[j].seen
<1>1. TypeOK /\ TypeOK'
  BY CloneTyped DEF CacheInv
<1>2. /\ pc[j] = "evicting" /\ pc' = [pc EXCEPT ![j] = "resolving"]
      /\ v = <<>> \/ ~(Cardinality(seen) > Budget)
      /\ listing' = [listing EXCEPT ![j] = NoListing]
      /\ UNCHANGED <<repo, clone, evicted, overlooked>>
  BY DEF Evicted, world, history, MustEvict
<1>3. /\ v \in Seq(Repo) /\ pc \in [Job -> Working \cup {"new", "returned"}]
      /\ seen \in SUBSET File
      /\ listing \in [Job -> [victims : Seq(Repo), seen : SUBSET File]]
  BY <1>1 DEF TypeOK
<1>4. \A i \in Job \ {j} : listing'[i] = listing[i] /\ pc'[i] = pc[i]
  BY <1>2, <1>3
<1>5. pc'[j] = "resolving"
  BY <1>2, <1>3
<1> HIDE DEF v, seen
<1>6. \A i \in Job : Filling(i)' <=> Filling(i)
  BY <1>2, <1>4, <1>5 DEF Filling
<1>7. Full' = Full
  BY <1>2, <1>6 DEF Full
<1>8. \A i \in evicted' : pc'[i] \notin {"new", "opening"}
  BY <1>1, <1>2, <1>4, <1>5 DEF CacheInv, Alone, TypeOK
<1>9. Alone'
  BY <1>2, <1>6, <1>8, StillAlone
<1>10. Counted'
  <2>1. CASE overlooked
    BY <1>2, <2>1 DEF Counted
  <2>2. CASE \E i \in Job : i # j /\ (At(i, "cleaning") \/ Clearing(i))
    <3>1. PICK i \in Job : i # j /\ (At(i, "cleaning") \/ Clearing(i))
      BY <2>2
    <3>2. At(i, "cleaning")' \/ Clearing(i)'
      BY <1>2, <1>4, <1>7, <3>1 DEF Clearing
    <3> QED
      BY <3>2 DEF Counted
  <2>3. CASE Clearing(j)
    <3>1. Full \in SUBSET seen /\ \A f \in Full : f[1] \in ToSet(v) \cup {repo[j]}
      BY <2>3 DEF Clearing, v, seen
    <3>2. CASE v = <<>>
      <4>1. \A f \in Full : f[1] = repo[j]
        BY <3>1, <3>2 DEF ToSet
      <4>2. \A f, g \in Full : f[1] = g[1]
        BY <4>1
      <4> QED
        BY <1>7, <4>2 DEF Fits, Counted
    <3>3. CASE ~(Cardinality(seen) > Budget)
      <4>1. Cardinality(seen) \in Nat /\ Budget \in Nat
        BY <1>3, FilesFinite, CacheAssumption
      <4>2. Cardinality(seen) <= Budget
        BY <3>3, <4>1
      <4>3. Cardinality(Full) <= Budget
        BY <1>3, <3>1, <4>2, FewerFit
      <4> QED
        BY <1>7, <4>3 DEF Fits, Counted
    <3> QED
      BY <1>2, <3>2, <3>3
  <2>4. CASE Fits
    BY <1>7, <2>4 DEF Fits, Counted
  <2> QED
    BY <1>2, <2>1, <2>2, <2>3, <2>4 DEF CacheInv, Counted
<1> QED
  BY <1>1, <1>9, <1>10 DEF CacheInv

\* Every step keeps the cache's invariant.
LEMMA CacheStep ==
    ASSUME CacheInv, [Next]_vars
    PROVE  CacheInv'
<1>1. CASE UNCHANGED vars
  <2>1. TypeOK'
    BY <1>1 DEF CacheInv, TypeOK, vars, world, cache, history, child, cancel
  <2> QED
    BY <1>1, <2>1, CacheSteady DEF vars, world, cache, history
<1>2. ASSUME NEW r \in Repo, Push(r)
      PROVE  CacheInv'
  <2>1. TypeOK' /\ UNCHANGED <<cache, pc, repo>>
    BY <1>2, PushTyped DEF CacheInv
  <2> QED
    BY <2>1, CacheSteady DEF cache, history
<1>3. ASSUME NEW j \in Job,
             \/ Spawn(j) \/ ChildStarted(j) \/ Send(j) \/ Read(j) \/ Install(j)
             \/ StreamEnds(j) \/ Decide(j) \/ Reap(j) \/ Return(j) \/ Fail(j)
             \/ Store(j) \/ ChildDies(j) \/ Cancel(j) \/ Kill(j)
      PROVE  CacheInv'
  <2>1. TypeOK /\ TypeOK' /\ UNCHANGED <<world, cache>>
    BY <1>3, ChildTyped DEF CacheInv
  <2>2. \/ pc' = pc
        \/ /\ pc[j] \in {"spawning", "started", "sending", "reading", "installing",
                         "deciding", "reaping", "reaped", "failing", "storing"}
           /\ \E p \in {"started", "sending", "reading", "installing", "deciding",
                        "reaping", "reaped", "failing", "storing", "returned"} :
                pc' = [pc EXCEPT ![j] = p]
    <3> USE DEF At, Goes, Ends
    <3>1. CASE Spawn(j) \/ ChildStarted(j) \/ Send(j) \/ Read(j) \/ Install(j)
               \/ StreamEnds(j) \/ Decide(j)
      BY <3>1 DEF Spawn, ChildStarted, Send, Read, Install, StreamEnds, Decide
    <3>2. CASE Reap(j) \/ Return(j) \/ Fail(j) \/ Store(j)
      BY <3>2 DEF Reap, Return, Fail, Store
    <3>3. CASE ChildDies(j) \/ Cancel(j) \/ Kill(j)
      BY <3>3 DEF ChildDies, Cancel, Kill
    <3> QED
      BY <1>3, <3>1, <3>2, <3>3
  <2>3. pc \in [Job -> Working \cup {"new", "returned"}]
    BY <2>1 DEF TypeOK
  <2> QED
    BY <2>1, <2>2, <2>3, CacheSteady DEF world, cache, history
<1>4. ASSUME NEW j \in Job,
             Start(j) \/ OpenFails(j) \/ Resolve(j) \/ Copy(j) \/ Pin(j)
      PROVE  CacheInv'
  <2>1. TypeOK /\ TypeOK'
    BY <1>4, CloneTyped DEF CacheInv
  <2>2. pc \in [Job -> Working \cup {"new", "returned"}]
    BY <2>1 DEF TypeOK
  <2> USE DEF At, Goes, world, cache, history
  <2>3. CASE Start(j)
    BY <2>1, <2>2, <2>3, CacheSteady DEF Start
  <2>4. CASE Resolve(j)
    BY <2>1, <2>2, <2>4, CacheSteady DEF Resolve
  <2>5. CASE Copy(j)
    BY <2>1, <2>2, <2>5, CacheSteady DEF Copy
  <2>6. CASE Pin(j)
    BY <2>1, <2>2, <2>6, CacheSteady DEF Pin
  <2>7. CASE OpenFails(j)
    BY <2>1, <2>2, <2>7, CacheSteady DEF OpenFails
  <2> QED
    BY <1>4, <2>3, <2>4, <2>5, <2>6, <2>7
<1>5. ASSUME NEW j \in Job, Works(j)
      PROVE  CacheInv'
  BY <1>3, <1>4, <1>5, OpenCounted, CloneEndsCounted, FetchEndsCounted,
     ListCounted, EvictCounted, EvictedCounted DEF Works
<1> QED
  BY <1>1, <1>2, <1>3, <1>4, <1>5 DEF Next

\* At first what is kept fits, or is overlooked until it is listed.
LEMMA CacheInit == Init => CacheInv
<1> SUFFICES ASSUME Init PROVE CacheInv
  OBVIOUS
<1>1. PICK kept \in SUBSET Repo :
        /\ clone = [r \in Repo |-> IF r \in kept THEN Cloned(0, 0) ELSE NoClone]
        /\ recent \in SetToSeqs(kept)
  BY Zenon DEF Init
<1>2. 0 \in Commit /\ Budget \in Nat /\ IsFiniteSet(kept)
  BY CacheAssumption, FS_Subset
<1>3. recent \in Seq(Repo) /\ IsInjective(recent)
  <2>1. recent \in Seq(kept) /\ \A m, n \in 1 .. Len(recent) : recent[m] = recent[n] => m = n
    BY <1>1, <1>2, SetToSeqsIs
  <2> QED
    BY <2>1 DEF IsInjective
<1>4. clone \in [Repo -> Clone]
  <2>1. 0 .. 0 \in SUBSET Commit
    BY <1>2
  <2>2. Cloned(0, 0) \in Clone /\ NoClone \in Clone
    BY <1>2, <2>1 DEF Cloned, NoClone, Clone
  <2> QED
    BY <1>1, <2>2
<1>5. listing \in [Job -> [victims : Seq(Repo), seen : SUBSET File]]
  BY DEF Init, NoListing
<1>6. overlooked = (Cardinality(Files(clone)) > Budget) /\ evicted = {}
  BY DEF Init
<1>7. ClonesTyping
  <2>1. overlooked \in BOOLEAN
    BY <1>6
  <2> QED
    BY <1>2, <1>3, <1>4, <1>5, <1>6, <2>1 DEF Init, ClonesTyping
<1>8. Typed
  BY DEF Init, Typed, Working
<1>9. \A j \in Job : ~Filling(j)
  BY DEF Init, Filling
<1>10. Counted
  <2>1. Full = Files(clone) /\ Files(clone) \in SUBSET File
    BY <1>9 DEF Full, Files
  <2>2. Cardinality(Files(clone)) \in Nat
    BY <2>1, FilesFinite
  <2>3. overlooked \/ ~(Cardinality(Files(clone)) > Budget)
    BY <1>6, Zenon
  <2>4. ~(Cardinality(Files(clone)) > Budget) => Cardinality(Full) <= Budget
    BY <1>2, <2>1, <2>2
  <2> QED
    BY <2>3, <2>4 DEF Counted, Fits
<1>11. Alone
  BY <1>6, <1>9 DEF Alone
<1> QED
  BY <1>7, <1>8, <1>10, <1>11, TypeParts DEF CacheInv

\* The inductive invariant of the clone cache: what jobs that fill, list and
\* evict at once owe each other, and what a failure among them (clone.rs,
\* evict_lru and fetch_and_fast_forward) leaves for the next to count.
THEOREM CacheInvariant == Spec => []CacheInv
  BY CacheInit, CacheStep, PTL DEF Spec

\* executor.rs and clone.rs: every part of the host's state keeps its kind, the
\* clones and last uses included, whichever job evicts whose clone.
THEOREM HostTyped == Spec => []TypeOK
<1>1. CacheInv => TypeOK
  BY DEF CacheInv
<1> QED
  BY <1>1, CacheInvariant, PTL

\* evict_lru, called by each job after its clone or fetch and reading a cache
\* that others change meanwhile, is best-effort: a failure may leave the cache
\* over its budget.  But once a job has listed all there is, and nothing has
\* failed since, with no job between its clone and the end of its eviction the
\* files fit the budget, or are of one clone.
THEOREM CacheFits == Spec => []WithinBudget
<1>1. ASSUME CacheInv
      PROVE  WithinBudget
  <2> SUFFICES ASSUME ~overlooked,
                      \A j \in Job : pc[j] \notin {"cloning", "fetching",
                                                   "cleaning", "evicting"}
               PROVE  Cardinality(Files(clone)) <= Budget
                      \/ Cardinality(Cached(clone)) = 1
    BY DEF WithinBudget
  <2>1. Full = Files(clone) /\ Files(clone) \in SUBSET File
    BY DEF Full, Filling, Files
  <2>2. Fits
    BY <1>1 DEF CacheInv, Counted, Clearing, At
  <2>3. CASE Cardinality(Full) <= Budget
    BY <2>1, <2>3
  <2>4. CASE /\ \A f, g \in Full : f[1] = g[1]
             /\ ~(Cardinality(Full) <= Budget)
    <3>1. Full # {}
      BY <2>4, CacheAssumption, FS_EmptySet
    <3>2. PICK f : f \in Files(clone)
      BY <2>1, <3>1
    <3>3. f[1] \in Cached(clone)
      BY <3>2 DEF Files, File, Cached
    <3>4. ASSUME NEW r \in Cached(clone)
          PROVE  r = f[1]
      <4>1. <<r, -1>> \in Files(clone)
        BY DEF Files, File, Cached
      <4>2. <<r, -1>>[1] = f[1]
        BY <2>1, <2>4, <3>2, <4>1
      <4> QED
        BY <4>2
    <3>5. Cached(clone) = {f[1]}
      BY <3>3, <3>4
    <3> QED
      BY <3>5, FS_Singleton
  <2> QED
    BY <2>2, <2>3, <2>4 DEF Fits
<1> QED
  BY <1>1, CacheInvariant, PTL

=============================================================================
