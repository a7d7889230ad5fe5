---------------------------- MODULE JobExecution ----------------------------
(***************************************************************************)
(* One host running jobs: the clone, the job directory, the child process  *)
(* and the cancel that races them (src/src/service/executor.rs), for both  *)
(* of its callers: local mode, several jobs at once over one clone cache   *)
(* (jobs.rs), and an agent, one job at a time (agent.rs).                  *)
(*                                                                         *)
(* A step of a job's thread is one system call or one use of shared state. *)
(* The child is not trusted: it says anything, ends at any time, or runs   *)
(* for ever.  Git's commands end, and may fail; so may reading and         *)
(* removing a clone, which fails no job: an eviction is best-effort.       *)
(***************************************************************************)
EXTENDS CloneCache

CONSTANTS Job,      \* jobs of this host
          May       \* what the surroundings may do in this instance

ASSUME ExecutionAssumption ==
    May \subseteq {"cancel", "fail", "install", "oom", "push", "forcepush"}

VARIABLES host,       \* "local" or "agent"
          remote,     \* the commits of each repository its remote has
          clone, recent,  \* the clone cache
          repo, commit,   \* what each job was admitted for
          pc,         \* where the job's thread is
          listing,    \* the eviction it is in
          dir,        \* the job directory and the commit its copy is at
          proc,       \* the child
          death,      \* how the child died
          registered, \* the child as the one to kill (children, Current::child)
          cancelled,  \* the cancel set, or the agent's flag
          killing,    \* an agent's cancel between its flag and its kill
          said,       \* what the child's events came to: "result" or "error"
          exit,       \* what the executor says of the child's end: it sent the
                      \* kill itself ("here"), or not ("other")
          outcome,    \* how the run ended
          evicted,    \* jobs whose clone was removed while they use it (a history)
          overlooked  \* something failed that left files in the cache which no
                      \* eviction has counted since (a history)

history == <<evicted, overlooked>>
cache == <<clone, recent, listing, history>>
child == <<proc, death, registered>>
cancel == <<cancelled, killing>>
world == <<host, remote, repo, commit>>
vars == <<world, cache, pc, dir, child, cancel, said, exit, outcome>>

NoListing == [victims |-> <<>>, seen |-> {}]
NoDir == -1
Empty == -2
Alive == {"running", "asking"}

\* The states of a thread that has, or is about to copy from, its clone.
UsesClone == {"cloning", "fetching", "cleaning", "evicting", "resolving", "copying"}
Working == UsesClone \cup {"opening", "pinning", "spawning", "started",
             "sending", "reading", "installing", "deciding", "reaping", "reaped",
             "failing", "storing"}

Init ==
    /\ host \in {"local", "agent"}
    /\ remote = [r \in Repo |-> [floor |-> 0, head |-> 0]]
    /\ \E kept \in SUBSET Repo :
         /\ clone = [r \in Repo |-> IF r \in kept THEN Cloned(0, 0) ELSE NoClone]
         /\ recent \in SetToSeqs(kept)
    /\ repo \in [Job -> Repo]
    /\ commit = [j \in Job |-> 0]
    /\ pc = [j \in Job |-> "new"]
    /\ listing = [j \in Job |-> NoListing]
    /\ dir = [j \in Job |-> NoDir]
    /\ proc = [j \in Job |-> "none"]
    /\ death = [j \in Job |-> "none"]
    /\ registered = [j \in Job |-> FALSE]
    /\ cancelled = [j \in Job |-> FALSE]
    /\ killing = [j \in Job |-> FALSE]
    /\ said = [j \in Job |-> "nothing"]
    /\ exit = [j \in Job |-> "none"]
    /\ outcome = [j \in Job |-> "none"]
    /\ evicted = {}
    /\ overlooked = (Cardinality(Files(clone)) > Budget)

At(j, p) == pc[j] = p
Goes(j, p) == pc' = [pc EXCEPT ![j] = p]

\* kill_worker_group.
Killed(j) ==
    IF proc[j] \in Alive
    THEN /\ proc' = [proc EXCEPT ![j] = "dead"]
         /\ death' = [death EXCEPT ![j] = "killed"]
    ELSE UNCHANGED <<proc, death>>

-----------------------------------------------------------------------------
\* The remote.

\* A push, or a push that drops what was there.
Push(r) ==
    /\ remote[r].head + 1 \in Commit
    /\ \E floor \in (IF "push" \in May THEN {remote[r].floor} ELSE {})
               \cup (IF "forcepush" \in May THEN {remote[r].head + 1} ELSE {}) :
         remote' = [remote EXCEPT ![r] = [floor |-> floor, head |-> @.head + 1]]
    /\ UNCHANGED <<host, repo, commit, cache, pc, dir, child, cancel, said,
                   exit, outcome>>

-----------------------------------------------------------------------------
\* The thread of job j: run_blocking or JobContext::run, around execute_inner.

\* The job is admitted at its remote's commit, unless another job has it that
\* was not cancelled, and its thread begins: an agent has one at a time.
Start(j) ==
    /\ At(j, "new")
    /\ host # "local" => \A i \in Job : pc[i] \notin Working
    /\ \A i \in Job : pc[i] \in Working /\ ~cancelled[i] /\ repo[i] = repo[j]
                        => commit[i] # remote[repo[j]].head
    /\ commit' = [commit EXCEPT ![j] = remote[repo[j]].head]
    /\ Goes(j, "opening")
    /\ UNCHANGED <<host, remote, repo, cache, dir, child, cancel, said,
                   exit, outcome>>

\* The job directory; then git clones, or fetches if there is a .git.
Open(j) ==
    LET r == repo[j] IN
    /\ At(j, "opening")
    /\ dir' = [dir EXCEPT ![j] = Empty]
    /\ \/ /\ clone[r].state \in {"none", "broken"}
          /\ clone' = [clone EXCEPT ![r] = PartialClone]
          /\ Goes(j, "cloning")
       \/ /\ clone[r].state # "none"
          /\ Goes(j, "fetching") /\ UNCHANGED clone
    /\ UNCHANGED <<world, recent, listing, history, child, cancel, said,
                   exit, outcome>>

\* A directory cannot be made: the job's, or one for its parts or its clone.
OpenFails(j) ==
    /\ "fail" \in May /\ At(j, "opening")
    /\ dir' \in {dir, [dir EXCEPT ![j] = Empty]}
    /\ Goes(j, "failing")
    /\ UNCHANGED <<world, cache, child, cancel, said, exit, outcome>>

\* git clone ends.
CloneEnds(j) ==
    LET r == repo[j] IN
    /\ At(j, "cloning") /\ j \notin evicted
    /\ clone' = [clone EXCEPT ![r] = Cloned(remote[r].floor, remote[r].head)]
    /\ Goes(j, "cleaning")
    /\ UNCHANGED <<world, recent, listing, history, dir, child, cancel, said,
                   exit, outcome>>

\* It fails if its directory was removed, and then leaves none of its own.
\* Else it leaves nothing, what it found or was killed over, or a repository
\* it could not check out.  Nobody evicts after it.
CloneFails(j) ==
    LET r == repo[j] IN
    /\ At(j, "cloning")
    /\ \/ j \in evicted /\ UNCHANGED <<clone, recent, overlooked>>
       \/ /\ j \notin evicted /\ "fail" \in May
          /\ \E c \in {NoClone, BrokenClone,
                      Cloned(remote[r].floor, remote[r].head)} :
               /\ clone' = [clone EXCEPT ![r] = c]
               /\ recent' = IF c = NoClone THEN RemoveFirst(recent, r) ELSE recent
               /\ overlooked' = (overlooked \/ c # NoClone)
    /\ Goes(j, "failing")
    /\ UNCHANGED <<world, listing, evicted, dir, child, cancel, said,
                   exit, outcome>>

\* fetch, checkout and reset end.
FetchEnds(j) ==
    LET r == repo[j] IN
    /\ At(j, "fetching") /\ clone[r].state = "whole"
    /\ clone' = [clone EXCEPT ![r] = Fetched(@, remote[r].floor, remote[r].head)]
    /\ Goes(j, "cleaning")
    /\ UNCHANGED <<world, recent, listing, history, dir, child, cancel, said,
                   exit, outcome>>

\* The fetch fails, as it does on a clone that is not whole; or the checkout or
\* the reset after it, and then what it fetched stays and nobody evicts.
FetchFails(j) ==
    LET r == repo[j] IN
    /\ At(j, "fetching")
    /\ \/ /\ clone[r].state # "whole" \/ j \in evicted \/ "fail" \in May
          /\ UNCHANGED clone
       \/ /\ clone[r].state = "whole" /\ "fail" \in May
          /\ clone' = [clone EXCEPT ![r] =
                         Grown(@, remote[r].floor, remote[r].head)]
    /\ overlooked' = (overlooked \/ clone' # clone)
    /\ Goes(j, "failing")
    /\ UNCHANGED <<world, recent, listing, evicted, dir, child, cancel, said,
                   exit, outcome>>

\* touch, as far as there is a clone and it can be written to.
Touched(j) ==
    LET r == repo[j] IN
    \/ clone[r].state # "none" /\ recent' = Touch(recent, r)
    \/ /\ clone[r].state = "none" \/ "fail" \in May
       /\ UNCHANGED recent

\* A directory's size may be unreadable, also because another job clones into
\* it, fetches into it or removes it.
Unreadable(j, r) ==
    \/ "fail" \in May
    \/ \E i \in Job \ {j} :
         \/ pc[i] \in {"cloning", "fetching"} /\ repo[i] = r
         \/ At(i, "evicting") /\ r \in ToSet(listing[i].victims)

\* touch, and the listing of evict_lru.
List(j) ==
    /\ At(j, "cleaning") /\ Touched(j)
    /\ \E missed \in SUBSET {r \in Cached(clone) : Unreadable(j, r)} :
         /\ \E l \in Listing(clone, recent', repo[j], missed) :
              listing' = [listing EXCEPT ![j] = l]
         /\ overlooked' = (missed # {})
    /\ Goes(j, "evicting")
    /\ UNCHANGED <<world, clone, evicted, dir, child, cancel, said, exit,
                   outcome>>

\* The cache cannot be listed: a warning, and the job goes on.
ListFails(j) ==
    /\ "fail" \in May /\ At(j, "cleaning") /\ Touched(j)
    /\ overlooked' = TRUE
    /\ Goes(j, "resolving")
    /\ UNCHANGED <<world, clone, listing, evicted, dir, child, cancel, said,
                   exit, outcome>>

\* Those that are at repository r's clone.
Users(r) == {i \in Job : repo[i] = r /\ pc[i] \in UsesClone}

\* evict_lru removes its next victim, whoever uses it; one that has gone
\* meanwhile cannot be removed.
Evict(j) ==
    LET r == Head(listing[j].victims) IN
    /\ At(j, "evicting") /\ MustEvict(listing[j])
    /\ clone' = [clone EXCEPT ![r] = NoClone]
    /\ recent' = RemoveFirst(recent, r)
    /\ evicted' = evicted \cup Users(r)
    /\ listing' = [listing EXCEPT ![j] = AfterVictim(@, clone[r].state # "none")]
    /\ UNCHANGED <<world, overlooked, pc, dir, child, cancel, said, exit,
                   outcome>>

\* The victim is not removed, or not all of it, which a fetch may mend or not;
\* evict_lru goes on to the next.
EvictFails(j) ==
    LET r == Head(listing[j].victims) IN
    /\ "fail" \in May
    /\ At(j, "evicting") /\ MustEvict(listing[j]) /\ clone[r].state # "none"
    /\ \/ UNCHANGED <<clone, recent, evicted>>
       \/ /\ \/ clone' = [clone EXCEPT ![r] = BrokenClone]
             \/ clone[r].state = "whole" /\ UNCHANGED clone
          /\ recent' \in {recent, RemoveFirst(recent, r)}
          /\ evicted' = evicted \cup Users(r)
    /\ listing' = [listing EXCEPT ![j] = AfterVictim(@, FALSE)]
    /\ overlooked' = TRUE
    /\ UNCHANGED <<world, pc, dir, child, cancel, said, exit, outcome>>

Evicted(j) ==
    /\ At(j, "evicting") /\ ~MustEvict(listing[j])
    /\ listing' = [listing EXCEPT ![j] = NoListing]
    /\ Goes(j, "resolving")
    /\ UNCHANGED <<world, clone, recent, history, dir, child, cancel, said,
                   exit, outcome>>

\* rev_parse of the clone.
Resolve(j) ==
    /\ At(j, "resolving")
    /\ \/ clone[repo[j]].state = "whole" /\ Goes(j, "copying")
       \/ clone[repo[j]].state # "whole" /\ Goes(j, "failing")
    /\ UNCHANGED <<world, cache, dir, child, cancel, said, exit, outcome>>

\* local_clone_into: the copy is at what the clone has checked out by now, and
\* has its objects.
Copy(j) ==
    LET c == clone[repo[j]] IN
    /\ At(j, "copying")
    /\ \/ /\ c.state = "whole"
          /\ dir' = [dir EXCEPT ![j] = c.at]
          /\ Goes(j, IF commit[j] \in c.has THEN "pinning" ELSE "failing")
       \/ /\ c.state # "whole" \/ j \in evicted \/ "fail" \in May
          /\ Goes(j, "failing") /\ UNCHANGED dir
    /\ evicted' = evicted \ {j}
    /\ UNCHANGED <<world, clone, recent, listing, overlooked, child, cancel,
                   said, exit, outcome>>

\* Mutant: whatever the clone had checked out is built.
PinNot(j) ==
    /\ At(j, "pinning")
    /\ Goes(j, "spawning")
    /\ UNCHANGED <<world, cache, dir, child, cancel, said, exit, outcome>>

\* pin_commit, in the job's own copy; a commit the copy lacks failed above.
Pin(j) ==
    /\ At(j, "pinning")
    /\ dir' = [dir EXCEPT ![j] = commit[j]]
    /\ Goes(j, "spawning")
    /\ UNCHANGED <<world, cache, child, cancel, said, exit, outcome>>

\* The rest of what precedes the child: chown, inputs, spec; then spawn.
Spawn(j) ==
    /\ At(j, "spawning")
    /\ \/ /\ proc' = [proc EXCEPT ![j] = "running"] /\ Goes(j, "started")
       \/ /\ "fail" \in May /\ Goes(j, "failing") /\ UNCHANGED proc
    /\ UNCHANGED <<world, cache, dir, death, registered, cancel, said,
                   exit, outcome>>

\* Mutant: a cancel that came first is not looked for.
ChildStartedUnasked(j) ==
    /\ At(j, "started")
    /\ registered' = [registered EXCEPT ![j] = TRUE]
    /\ Goes(j, "sending")
    /\ UNCHANGED <<world, cache, dir, proc, death, cancel, said, exit,
                   outcome>>

\* child_started: under the lock that a cancel takes to kill.
ChildStarted(j) ==
    /\ At(j, "started")
    /\ registered' = [registered EXCEPT ![j] = TRUE]
    /\ IF cancelled[j] THEN Killed(j) ELSE UNCHANGED <<proc, death>>
    /\ Goes(j, "sending")
    /\ UNCHANGED <<world, cache, dir, cancel, said, exit, outcome>>

\* Mutant: a child that could not be given its spec is left to itself.
SendUnkilled(j) ==
    /\ At(j, "sending")
    /\ \/ Goes(j, "reading") /\ UNCHANGED registered
       \/ /\ proc[j] = "dead" \/ "fail" \in May
          /\ Goes(j, "failing")
          /\ registered' = [registered EXCEPT ![j] = FALSE]
    /\ UNCHANGED <<world, cache, dir, proc, death, cancel, said, exit, outcome>>

\* The spec is written, or its pipe is broken: then the child is killed,
\* reaped and given up.  (Nothing is read of its exit.)
Send(j) ==
    /\ At(j, "sending")
    /\ \/ Goes(j, "reading") /\ UNCHANGED child
       \/ /\ proc[j] = "dead" \/ "fail" \in May
          /\ Goes(j, "failing")
          /\ Killed(j)
          /\ registered' = [registered EXCEPT ![j] = FALSE]
    /\ UNCHANGED <<world, cache, dir, cancel, said, exit, outcome>>

\* An error is not taken back by a result.
Says(j, event) == [said EXCEPT ![j] = IF @ = "error" THEN @ ELSE event]

\* One event of the child is read: its result, an error, a line that is not an
\* event (reading stops), or a request the child waits on.
Read(j) ==
    /\ At(j, "reading") /\ proc[j] = "running"
    /\ \/ /\ \E event \in {"result", "error"} : said' = Says(j, event)
          /\ UNCHANGED <<pc, proc>>
       \/ /\ said' = Says(j, "error")
          /\ Goes(j, "deciding") /\ UNCHANGED proc
       \/ /\ "install" \in May
          /\ proc' = [proc EXCEPT ![j] = "asking"]
          /\ Goes(j, "installing") /\ UNCHANGED said
    /\ UNCHANGED <<world, cache, dir, death, registered, cancel, exit,
                   outcome>>

\* The install ran, fell back or saw the cancel; the child has its answer.
Install(j) ==
    /\ At(j, "installing")
    /\ proc' = [proc EXCEPT ![j] = IF @ = "asking" THEN "running" ELSE @]
    /\ Goes(j, "reading")
    /\ UNCHANGED <<world, cache, dir, death, registered, cancel, said,
                   exit, outcome>>

\* The stream ends: the child is dead, cut off in a line perhaps, or closed it
\* and lives.
StreamEnds(j) ==
    /\ At(j, "reading")
    /\ \/ UNCHANGED said
       \/ death[j] \notin {"none", "success"} /\ said' = Says(j, "error")
    /\ Goes(j, "deciding")
    /\ UNCHANGED <<world, cache, dir, child, cancel, exit, outcome>>

\* killed_here: a kill for a bad stream or a cancel.
Decide(j) ==
    /\ At(j, "deciding")
    /\ IF said[j] = "error" \/ cancelled[j]
       THEN exit' = [exit EXCEPT ![j] = "here"] /\ Killed(j)
       ELSE exit' = [exit EXCEPT ![j] = "other"] /\ UNCHANGED <<proc, death>>
    /\ Goes(j, "reaping")
    /\ UNCHANGED <<world, cache, dir, registered, cancel, said, outcome>>

\* wait_with_peak, then child_exited.
Reap(j) ==
    /\ At(j, "reaping") /\ proc[j] = "dead"
    /\ Goes(j, "reaped")
    /\ UNCHANGED <<world, cache, dir, child, cancel, said, exit, outcome>>

\* What run_child returns; its registration ends with it.
Return(j) ==
    /\ At(j, "reaped")
    /\ registered' = [registered EXCEPT ![j] = FALSE]
    /\ Goes(j, IF ~cancelled[j] /\ said[j] = "result" /\ death[j] = "success"
               THEN "storing" ELSE "failing")
    /\ UNCHANGED <<world, cache, dir, proc, death, cancel, said, exit,
                   outcome>>

\* The thread returns, and what it knew of the child is forgotten.
Ends(j) ==
    /\ Goes(j, "returned")
    /\ said' = [said EXCEPT ![j] = "nothing"]
    /\ exit' = [exit EXCEPT ![j] = "none"]

\* Mutant: the executor's own kill is not told from the kernel's.
KilledByOomAnyKill(j) ==
    exit[j] # "none" /\ death[j] \in {"oom", "killed"} /\ ~cancelled[j]

\* killed_by_oom: a SIGKILL that is nobody's here.  (A count of such kills,
\* where it can be read, narrows this further.)
KilledByOom(j) ==
    exit[j] = "other" /\ death[j] \in {"oom", "killed"} /\ ~cancelled[j]

\* How a run ends that did not make a map.
FailedAs(j) ==
    IF cancelled[j] THEN "cancelled"
    ELSE IF host # "local" /\ KilledByOom(j) THEN "oom" ELSE "failed"

\* execute's `fail`, and its callers' error paths.
Fail(j) ==
    /\ At(j, "failing")
    /\ dir' = [dir EXCEPT ![j] = NoDir]
    /\ outcome' = [outcome EXCEPT ![j] = FailedAs(j)]
    /\ Ends(j)
    /\ UNCHANGED <<world, cache, child, cancel>>

\* The result is registered (local mode) or uploaded (an agent), unless the
\* job was cancelled meanwhile or that fails; the job directory goes.
Store(j) ==
    /\ At(j, "storing")
    /\ dir' = [dir EXCEPT ![j] = NoDir]
    /\ \/ outcome' = [outcome EXCEPT ![j] =
                        IF cancelled[j] THEN "cancelled" ELSE "done"]
       \/ /\ "fail" \in May /\ ~cancelled[j]
          /\ outcome' = [outcome EXCEPT ![j] = "failed"]
    /\ Ends(j)
    /\ UNCHANGED <<world, cache, child, cancel>>

Works(j) ==
    \/ Open(j) \/ OpenFails(j) \/ CloneEnds(j) \/ CloneFails(j)
    \/ FetchEnds(j) \/ FetchFails(j) \/ List(j) \/ ListFails(j)
    \/ Evict(j) \/ EvictFails(j) \/ Evicted(j) \/ Resolve(j) \/ Copy(j) \/ Pin(j)
    \/ Spawn(j) \/ ChildStarted(j) \/ Send(j) \/ Install(j) \/ Decide(j) \/ Reap(j)
    \/ Return(j) \/ Fail(j) \/ Store(j)

-----------------------------------------------------------------------------
\* The child and whoever cancels.

\* The child exits, or is killed by none of this host's own: for want of
\* memory, which is what any such kill is taken for.
ChildDies(j) ==
    /\ proc[j] \in Alive
    /\ proc' = [proc EXCEPT ![j] = "dead"]
    /\ \E how \in {"success", "failure"} \cup (May \cap {"oom"}) :
         death' = [death EXCEPT ![j] = how]
    /\ UNCHANGED <<world, cache, pc, dir, registered, cancel, said, exit,
                   outcome>>

\* JobRegistry::cancel and shutdown: the mark and the kill under one lock; in
\* an agent, Current::kill sets its flag first.
Cancel(j) ==
    /\ "cancel" \in May /\ pc[j] \in Working /\ ~cancelled[j]
    /\ cancelled' = [cancelled EXCEPT ![j] = TRUE]
    /\ IF host = "local"
       THEN /\ IF registered[j] THEN Killed(j) ELSE UNCHANGED <<proc, death>>
            /\ UNCHANGED killing
       ELSE killing' = [killing EXCEPT ![j] = TRUE] /\ UNCHANGED <<proc, death>>
    /\ UNCHANGED <<world, cache, pc, dir, registered, said, exit, outcome>>

\* Then it takes the lock, and kills the child there is.
Kill(j) ==
    /\ killing[j]
    /\ killing' = [killing EXCEPT ![j] = FALSE]
    /\ IF registered[j] THEN Killed(j) ELSE UNCHANGED <<proc, death>>
    /\ UNCHANGED <<world, cache, pc, dir, registered, cancelled, said,
                   exit, outcome>>

Next ==
    \/ \E r \in Repo : Push(r)
    \/ \E j \in Job : \/ Start(j) \/ Works(j) \/ Read(j) \/ StreamEnds(j)
                      \/ ChildDies(j) \/ Cancel(j) \/ Kill(j)

Spec == Init /\ [][Next]_vars

-----------------------------------------------------------------------------
\* Properties.

\* Every part of the state is of its kind.
TypeOK ==
    /\ host \in {"local", "agent"}
    /\ remote \in [Repo -> [floor : Commit, head : Commit]]
    /\ clone \in [Repo -> Clone]
    /\ recent \in Seq(Repo) /\ IsInjective(recent)
    /\ repo \in [Job -> Repo] /\ commit \in [Job -> Commit]
    /\ pc \in [Job -> Working \cup {"new", "returned"}]
    /\ listing \in [Job -> [victims : Seq(Repo), seen : SUBSET File]]
    /\ dir \in [Job -> Commit \cup {NoDir, Empty}]
    /\ proc \in [Job -> Alive \cup {"none", "dead"}]
    /\ death \in [Job -> {"none", "success", "failure", "oom", "killed"}]
    /\ exit \in [Job -> {"none", "here", "other"}]
    /\ {registered, cancelled, killing} \subseteq [Job -> BOOLEAN]
    /\ said \in [Job -> {"nothing", "result", "error"}]
    /\ outcome \in [Job -> {"none", "done", "failed", "oom", "cancelled"}]
    /\ evicted \subseteq Job /\ overlooked \in BOOLEAN

\* No child outlives a cancel: "a child that starts meanwhile is killed by one
\* side or the other" (agent.rs, Current::kill).  Once its thread has
\* registered it and the cancel is through, it is dead, whichever came first.
CancelStopsChild ==
    \A j \in Job :
        cancelled[j] /\ ~killing[j] /\ pc[j] # "started" => proc[j] \notin Alive

\* "A job never silently builds the wrong commit" (executor.rs, pin_commit):
\* a child finds the commit its job was admitted for, though its clone is
\* fetched into and reset by other jobs and its remote moves.
BuildsAdmitted == \A j \in Job : proc[j] \in Alive => dir[j] = commit[j]

\* An out-of-memory verdict, which costs a larger worker, is never given for a
\* kill of this agent's own.
OomHonest == \A j \in Job : outcome[j] = "oom" => death[j] = "oom"

\* A thread that has returned, on whatever path, leaves no child, no
\* registration that would have a later cancel kill, and no job directory.
NothingLeft ==
    \A j \in Job : pc[j] = "returned" =>
        proc[j] \notin Alive /\ ~registered[j] /\ dir[j] = NoDir

\* "Eviction is best-effort" (clone.rs, materialize): a step of it that fails, or
\* a fetch or clone that fails and grew, leaves the cache over its budget.  But
\* it is so no longer than to the next job that can read it all: from then on,
\* as long as nothing else fails, whatever jobs clone, fetch, list and evict at
\* once, when none of them is at it the cache fits its budget, or is the one
\* clone that was served last.
WithinBudget ==
    /\ ~overlooked
    /\ \A j \in Job : pc[j] \notin {"cloning", "fetching", "cleaning", "evicting"}
    => Cardinality(Files(clone)) <= Budget \/ Cardinality(Cached(clone)) = 1

\* "The active clone is never rejected or evicted" (clone.rs, materialize).
ActiveKept == evicted = {}

=============================================================================
