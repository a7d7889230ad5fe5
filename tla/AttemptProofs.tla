---------------------------- MODULE AttemptProofs ----------------------------
(***************************************************************************)
(* How a job's attempts end, what is said of them on the way, and how      *)
(* often a job is tried, proved of WorkerLease for any jobs, agents,       *)
(* classes, bounds and surroundings.  In this order: the ends of a row     *)
(* (EndInvariant); the words an agent may say of an attempt, which stand   *)
(* once they are true, and the attempts a row may have had                 *)
(* (WordsInvariant); the leases of one agent (OneLeaseEach); and what the  *)
(* frames on a lease's channel carry: the events of an attempt under way   *)
(* are numbered one after the other, from the one the hub waits for to the *)
(* last one the agent wrote, however often the agent renumbered its outbox *)
(* for another channel (ChannelInvariant).                                 *)
(***************************************************************************)
EXTENDS WorkerLeaseProofs

\* The places of a runner that has begun an attempt and not yet let it go.
Trying == Attempted \cup {"requeue"}

-----------------------------------------------------------------------------
\* What a step makes of job j's row and of how its snapshot ended.

\* The store takes the job back to its queue.
Returned(j) ==
    LET r == runner[j] IN
    /\ r.pc = "requeue" /\ MayRequeue(row[j], r.epoch) /\ UNCHANGED outcome
    /\ runner'[j].pc \in {"queued", "gone"}
    /\ \/ r.to # NoClass /\ row'[j] = Rebind(row[j], r.to)
       \/ /\ r.to = NoClass /\ ~Exhausted(row[j], r.counted)
          /\ row'[j] = Requeue(row[j], r.counted)

\* A save by the attempt's own runner.
Saved(j) ==
    /\ runner[j].pc \in {"leased", "running"} /\ UNCHANGED outcome
    /\ \E status \in Holding, holder \in Agent \cup {NoAgent} :
         row'[j] = SaveJobState(row[j], runner[j].epoch, status, holder)

Begun(j) == /\ runner[j].pc = "queued" /\ UNCHANGED outcome
            /\ IsLive(row[j]) /\ row'[j] = BeginAttempt(row[j])

\* The first ending counts.
Over(j, status, how) ==
    /\ row'[j] = FinishJob(row[j], status)
    /\ outcome'[j] = IF outcome[j] = "none" THEN how ELSE outcome[j]

Failed(j) == \E how \in Outcome \ {"none", "done"} :
    /\ Over(j, "failed", how)
    /\ how = "lost" => /\ runner[j].pc = "requeue"
                       /\ MayRequeue(row[j], runner[j].epoch)
                       /\ Exhausted(row[j], runner[j].counted)
    /\ how = "stale" => /\ runner[j].pc = "registering"
                        /\ ~MayPublish(row[j], runner[j].epoch)

Finished(j) == runner[j].pc = "registered" /\ Over(j, "done", "done")

RowOf(j) == \/ row'[j] = row[j] /\ outcome'[j] = outcome[j]
            \/ Begun(j) \/ Saved(j) \/ Returned(j) \/ Failed(j) \/ Finished(j)

LEMMA OverIs ==
    ASSUME TypeOK, NEW j \in Job, NEW status, NEW how, Ends(j, status, how)
    PROVE  Over(j, status, how)
BY DEF Ends, Over, TypeOK

LEMMA RowSteps ==
    ASSUME LifeInv, NEW j \in Job, RunnerStep(j)
    PROVE  RowOf(j) /\ (Begun(j) \/ runner[j].pc \in Trying)
<1>1. TypeOK
  BY DEF LifeInv, FenceInv
<1>2. /\ row \in [Job -> Row] /\ lease[j].agent \in Agent \cup {NoAgent}
      /\ "leased" \in Holding /\ "running" \in Holding
  BY <1>1 DEF TypeOK, LeaseRec, Holding
<1>3. {"invalid", "stale", "internal", "lost", "oom", "unasked", "failed",
       "denied", "refused"} \subseteq Outcome \ {"none", "done"}
  BY DEF Outcome, Terminal
<1>4. CASE \/ Claim(j) \/ GiveUp(j) \/ RunOrphan(j) \/ NoticeCancel(j)
           \/ LetLeaseGo(j) \/ FindExpired(j) \/ EndLease(j)
  <2>1. UNCHANGED <<row, outcome>>
    BY <1>4 DEF Claim, GiveUp, RunOrphan, NoticeCancel, LetLeaseGo,
                FindExpired, EndLease
  <2>2. runner[j].pc \in {"claiming", "orphan", "running", "ending"}
    BY <1>4 DEF Claim, GiveUp, RunOrphan, NoticeCancel, LetLeaseGo,
                FindExpired, EndLease, At
  <2> QED
    BY <2>1, <2>2 DEF RowOf, Trying, Attempted, Owning
<1>5. CASE Start(j)
  BY <1>2, <1>5 DEF Start, At, RowOf, Begun
<1>6. CASE SaveLeased(j)
  <2>1. /\ row'[j] = SaveJobState(row[j], runner[j].epoch, "leased", lease[j].agent)
        /\ runner[j].pc = "leased" /\ UNCHANGED outcome
    BY <1>2, <1>6 DEF SaveLeased, At
  <2> QED
    BY <1>2, <2>1 DEF RowOf, Saved, Trying, Attempted, Owning
<1>7. CASE OnFeatures(j)
  <2>1. /\ row'[j] = SaveJobState(row[j], runner[j].epoch, "running", NoAgent)
        /\ runner[j].pc = "running" /\ UNCHANGED outcome
    BY <1>2, <1>7 DEF OnFeatures, Received, At
  <2> QED
    BY <1>2, <2>1 DEF RowOf, Saved, Trying, Attempted, Owning
<1>8. CASE OnResult(j) \/ OnError(j) \/ OnRelease(j)
  <2>1. runner[j].pc = "running"
    BY <1>8 DEF OnResult, OnError, OnRelease, Received, At
  <2>2. \/ UNCHANGED <<row, outcome>>
        \/ \E how \in {"invalid", "oom", "unasked", "failed", "denied",
                       "refused"} : Ends(j, "failed", how)
    BY <1>8 DEF OnResult, OnError, OnRelease, Terminal
  <2> QED
    BY <1>1, <1>3, <2>1, <2>2, OverIs
       DEF RowOf, Failed, Trying, Attempted, Owning
<1>9. CASE Publish(j) \/ RunnerPanics(j)
  <2>1. runner[j].pc \in {"leased", "running", "registering", "registered"}
    BY <1>9 DEF Publish, RunnerPanics, At
  <2>2. \/ UNCHANGED <<row, outcome>>
        \/ Ends(j, "failed", "internal")
        \/ /\ Ends(j, "failed", "stale") /\ runner[j].pc = "registering"
           /\ ~MayPublish(row[j], runner[j].epoch)
    BY <1>9 DEF Publish, RunnerPanics, At
  <2> QED
    BY <1>1, <1>3, <2>1, <2>2, OverIs
       DEF RowOf, Failed, Trying, Attempted, Owning
<1>10. CASE Registered(j)
  BY <1>1, <1>10, OverIs
     DEF Registered, At, RowOf, Finished, Trying, Attempted, Owning
<1>11. CASE StoreRequeue(j)
  <2> DEFINE r == runner[j]
             back == [Fresh EXCEPT !.pc = IF stopping THEN "gone" ELSE "queued"]
  <2>1. r.pc = "requeue" /\ "requeue" \in Trying
    BY <1>11 DEF StoreRequeue, At, Trying
  <2>2. CASE UNCHANGED <<row, outcome>>
    BY <2>1, <2>2 DEF RowOf
  <2>3. CASE /\ MayRequeue(row[j], r.epoch) /\ UNCHANGED outcome
             /\ Goes(j, back)
             /\ \/ r.to # NoClass /\ row' = [row EXCEPT ![j] = Rebind(@, r.to)]
                \/ /\ r.to = NoClass /\ ~Exhausted(row[j], r.counted)
                   /\ row' = [row EXCEPT ![j] = Requeue(@, r.counted)]
    <3>1. runner'[j] = back /\ back.pc \in {"queued", "gone"}
      BY <1>1, <2>3 DEF TypeOK, Goes, Fresh
    <3>2. \/ r.to # NoClass /\ row'[j] = Rebind(row[j], r.to)
          \/ /\ r.to = NoClass /\ ~Exhausted(row[j], r.counted)
             /\ row'[j] = Requeue(row[j], r.counted)
      BY <1>2, <2>3
    <3> QED
      BY <2>1, <2>3, <3>1, <3>2 DEF RowOf, Returned
  <2>4. CASE /\ MayRequeue(row[j], r.epoch) /\ Exhausted(row[j], r.counted)
             /\ Ends(j, "failed", "lost")
    BY <1>1, <1>3, <2>1, <2>4, OverIs DEF RowOf, Failed
  <2> QED
    BY <1>11, <2>2, <2>3, <2>4 DEF StoreRequeue
<1> QED
  BY <1>4, <1>5, <1>6, <1>7, <1>8, <1>9, <1>10, <1>11 DEF RunnerStep

\* A step of job j's runner, or its user's cancel, is none of another job's.
Apart(j) == \A k \in Job \ {j} :
    /\ row'[k] = row[k] /\ runner'[k] = runner[k] /\ outcome'[k] = outcome[k]
    /\ published'[k] = published[k] /\ settled'[k] = settled[k]

LEMMA StepsApart ==
    ASSUME LifeInv, HolderInv, NEW j \in Job, RunnerStep(j) \/ UserCancel(j)
    PROVE  Apart(j)
<1> SUFFICES ASSUME NEW k \in Job \ {j}
             PROVE  /\ row'[k] = row[k] /\ runner'[k] = runner[k]
                    /\ outcome'[k] = outcome[k]
                    /\ published'[k] = published[k]
                    /\ settled'[k] = settled[k]
  BY DEF Apart
<1>1. /\ k \in Job /\ k # j
      /\ row = [i \in Job |-> row[i]] /\ runner = [i \in Job |-> runner[i]]
      /\ outcome = [i \in Job |-> outcome[i]]
      /\ published = [i \in Job |-> published[i]]
      /\ settled = [i \in Job |-> settled[i]]
  BY DEF LifeInv, FenceInv, TypeOK
<1>2. ASSUME NEW status, NEW how, Ends(j, status, how)
      PROVE  row'[k] = row[k] /\ outcome'[k] = outcome[k]
  BY <1>1, <1>2 DEF Ends
<1>3. ASSUME NEW accepted, Verdict(j, accepted) PROVE settled'[k] = settled[k]
  BY <1>1, <1>3 DEF Verdict
<1>4. CASE UserCancel(j)
  <2>1. /\ UNCHANGED <<published, settled>> /\ Ends(j, "failed", "cancelled")
        /\ runner'[k] = runner[k]
    BY <1>1, <1>4 DEF UserCancel, hub
  <2> QED
    BY <1>2, <2>1
<1>5. CASE RunnerStep(j)
  <2>1. row'[k] = row[k] /\ runner'[k] = runner[k]
    BY <1>5, StepOn DEF Elsewhere
  <2>2. CASE \/ GiveUp(j) \/ SaveLeased(j) \/ NoticeCancel(j)
             \/ LetLeaseGo(j) \/ EndLease(j)
    BY <2>1, <2>2 DEF GiveUp, SaveLeased, NoticeCancel, LetLeaseGo,
                      EndLease, hub
  <2>3. CASE Start(j) \/ Claim(j) \/ RunOrphan(j)
    <3>1. UNCHANGED outcome /\ UNCHANGED published /\ UNCHANGED settled
      <4>1. CASE Start(j)
        BY <4>1 DEF Start, hub
      <4>2. CASE Claim(j)
        BY <4>2 DEF Claim
      <4>3. CASE RunOrphan(j)
        <5>1. UNCHANGED <<row, cancelled, outcome, published, process, settled,
                          nextConn, agent, up>>
          BY <4>3, Zenon DEF RunOrphan
        <5> QED
          BY <5>1
      <4> QED
        BY <2>3, <4>1, <4>2, <4>3
    <3> QED
      BY <2>1, <3>1
  <2>4. CASE OnFeatures(j)
    BY <2>1, <2>4 DEF OnFeatures
  <2>5. CASE FindExpired(j)
    BY <2>1, <2>5 DEF FindExpired
  <2>6. CASE OnResult(j)
    BY <1>2, <1>3, <2>1, <2>6 DEF OnResult, Registers
  <2>7. CASE Publish(j)
    <3>1. UNCHANGED published \/ published' = [published EXCEPT ![j] = @ + 1]
      BY <2>7 DEF Publish
    <3>2. UNCHANGED outcome \/ Ends(j, "failed", "stale")
      BY <2>7 DEF Publish
    <3>3. UNCHANGED settled \/ Verdict(j, FALSE)
      BY <2>7 DEF Publish
    <3> QED
      BY <1>1, <1>2, <1>3, <2>1, <3>1, <3>2, <3>3
  <2>8. CASE Registered(j)
    BY <1>2, <1>3, <2>1, <2>8 DEF Registered
  <2>9. CASE OnError(j) \/ RunnerPanics(j)
    BY <1>2, <2>1, <2>9 DEF OnError, RunnerPanics, hub
  <2>10. CASE OnRelease(j)
    <3>1. UNCHANGED outcome \/ \E how : Ends(j, "failed", how)
      BY <2>10 DEF OnRelease
    <3> QED
      BY <1>2, <2>1, <2>10, <3>1 DEF OnRelease, hub
  <2>11. CASE StoreRequeue(j)
    <3>1. UNCHANGED outcome \/ Ends(j, "failed", "lost")
      BY <2>11 DEF StoreRequeue
    <3>2. UNCHANGED <<published, settled>>
      BY <2>11 DEF StoreRequeue, hub
    <3> QED
      BY <1>2, <2>1, <3>1, <3>2
  <2> QED
    BY <1>5, <2>2, <2>3, <2>4, <2>5, <2>6, <2>7, <2>8, <2>9, <2>10, <2>11
       DEF RunnerStep
<1> QED
  BY <1>4, <1>5

-----------------------------------------------------------------------------
\* How a job ended, and what it lost.

\* A job has ended when its row has; it is done, or its result accepted, only
\* with a map; and its publication is refused to none but a job that ended.
EndsWell(w, o, p, s) ==
    /\ IsLive(w) <=> o = "none"
    /\ o = "done" => p > 0
    /\ o # "stale"
    /\ s.accepted => p > 0 /\ o # "none"

\* Every loss was an attempt of its own, and the attempt a runner is at, or a
\* row is held for, is none of the lost ones.
Losses(r, w, o) ==
    /\ w.lost <= w.epoch
    /\ r.pc \in Trying \/ w.status \in Holding => w.lost + 1 <= w.epoch
    /\ o = "lost" => w.epoch > Retries

EndInv == \A j \in Job :
    /\ EndsWell(row[j], outcome[j], published[j], settled[j])
    /\ Losses(runner[j], row[j], outcome[j])

\* Maps stay published, and a result is accepted once its map is.
LEMMA MapsStay ==
    ASSUME LifeInv, NEW j \in Job, RunnerStep(j)
    PROVE  /\ published'[j] \in Nat /\ published'[j] >= published[j]
           /\ settled'[j].accepted
              => settled[j].accepted \/ (published[j] > 0 /\ Finished(j))
<1>1. TypeOK /\ published[j] \in Nat
  BY OfOne DEF LifeInv, FenceInv
<1>2. ASSUME Verdict(j, FALSE) PROVE ~settled'[j].accepted
  BY <1>1, <1>2 DEF Verdict, TypeOK
<1>3. CASE OnResult(j)
  <2>1. UNCHANGED published
    BY <1>3 DEF OnResult
  <2>2. UNCHANGED settled \/ Verdict(j, FALSE)
    <3>1. \/ Verdict(j, FALSE)
          \/ IF lease[j].uploads
             THEN Registers(j, ReadOn(j)) /\ UNCHANGED <<row, outcome>>
             ELSE /\ Verdict(j, FALSE)
                  /\ Ends(j, "failed", "invalid")
                  /\ Goes(j, Ending(ReadOn(j), FALSE, "gone"))
      BY <1>3, Zenon DEF OnResult
    <3> QED
      BY <3>1 DEF Registers
  <2>3. CASE UNCHANGED settled
    BY <1>1, <2>1, <2>3
  <2>4. CASE Verdict(j, FALSE)
    BY <1>1, <1>2, <2>1, <2>4
  <2> QED
    BY <2>2, <2>3, <2>4
<1>4. CASE Publish(j)
  <2>1. UNCHANGED published \/ published' = [published EXCEPT ![j] = @ + 1]
    BY <1>4 DEF Publish
  <2>2. UNCHANGED settled \/ Verdict(j, FALSE)
    BY <1>4 DEF Publish
  <2>3. published'[j] \in {published[j], published[j] + 1}
    BY <1>1, <2>1 DEF TypeOK
  <2>4. published'[j] \in Nat /\ published'[j] >= published[j]
    BY <1>1, <2>3
  <2> QED
    BY <1>1, <1>2, <2>2, <2>4
<1>5. CASE Registered(j)
  <2>1. runner[j].pc = "registered" /\ UNCHANGED published
    BY <1>5 DEF Registered, At
  <2>2. Finished(j)
    BY <1>1, <1>5, <2>1, OverIs DEF Registered, Finished
  <2> QED
    BY <1>1, <2>1, <2>2, OfOne DEF StandsAt
<1>6. CASE RunOrphan(j)
  <2>1. UNCHANGED <<row, cancelled, outcome, published, process, settled,
                    nextConn, agent, up>>
    BY <1>6, Zenon DEF RunOrphan
  <2> QED
    BY <1>1, <2>1
<1>7. CASE Start(j)
  BY <1>1, <1>7 DEF Start, hub
<1>8. CASE Claim(j) \/ GiveUp(j) \/ SaveLeased(j) \/ NoticeCancel(j)
           \/ LetLeaseGo(j) \/ EndLease(j)
  <2>1. UNCHANGED published /\ UNCHANGED settled
    <3>1. CASE Claim(j)
      BY <3>1 DEF Claim
    <3> QED
      BY <1>8, <3>1 DEF GiveUp, SaveLeased, NoticeCancel, LetLeaseGo,
         EndLease, hub
  <2> QED
    BY <1>1, <2>1
<1>9. CASE OnFeatures(j)
  BY <1>1, <1>9 DEF OnFeatures
<1>10. CASE FindExpired(j)
  BY <1>1, <1>10 DEF FindExpired
<1>11. CASE OnError(j) \/ OnRelease(j) \/ RunnerPanics(j)
  <2>1. UNCHANGED published /\ UNCHANGED settled
    <3>1. CASE OnRelease(j)
      BY <3>1 DEF OnRelease, hub
    <3> QED
      BY <1>11, <3>1 DEF OnError, RunnerPanics, hub
  <2> QED
    BY <1>1, <2>1
<1>12. CASE StoreRequeue(j)
  BY <1>1, <1>12 DEF StoreRequeue, hub
<1> QED
  BY <1>3, <1>4, <1>5, <1>6, <1>7, <1>8, <1>9, <1>10, <1>11, <1>12
     DEF RunnerStep

\* One step of a row, whichever it is.
LEMMA RowEnds ==
    ASSUME LifeInv, NEW j \in Job, RowOf(j),
           EndsWell(row[j], outcome[j], published[j], settled[j]),
           published'[j] \in Nat, published'[j] >= published[j],
           settled'[j].accepted
             => settled[j].accepted \/ (published[j] > 0 /\ Finished(j))
    PROVE  EndsWell(row'[j], outcome'[j], published'[j], settled'[j])
<1> DEFINE w == row[j]
           v == row'[j]
           o == outcome[j]
           u == outcome'[j]
<1>1. w \in Row /\ published[j] \in Nat /\ StandsAt(runner[j], w, published[j])
      /\ (runner[j].pc \in Attempted => runner[j].epoch = w.epoch)
  BY OfOne
<1>2. CASE v = w /\ u = o
  BY <1>1, <1>2 DEF EndsWell, Finished, Over
<1>3. CASE Begun(j) \/ Saved(j) \/ Returned(j)
  <2>1. u = o
    BY <1>3 DEF Begun, Saved, Returned
  <2>2. IsLive(v) <=> IsLive(w)
    BY <1>1, <1>3 DEF Begun, Saved, Returned, BeginAttempt, SaveJobState, Rebind,
       Requeue, MayRequeue, IsLive, Row, Live, Holding
  <2>3. ~Finished(j) \/ u # "none"
    BY <2>1 DEF Finished, Over
  <2> QED
    BY <1>1, <2>1, <2>2, <2>3 DEF EndsWell
<1>4. ASSUME NEW status \in Ended, NEW how, how # "none", Over(j, status, how)
      PROVE  /\ ~IsLive(v) /\ u # "none"
             /\ IsLive(w) => u = how
             /\ ~IsLive(w) => u = o
  BY <1>1, <1>4 DEF Over, FinishJob, EndsWell, IsLive, Live, Row, Ended
<1>5. CASE Failed(j)
  <2>1. PICK how \in Outcome \ {"none", "done"} :
          /\ Over(j, "failed", how)
          /\ how = "stale" => /\ runner[j].pc = "registering"
                              /\ ~MayPublish(w, runner[j].epoch)
    BY <1>5 DEF Failed
  <2>2. how = "stale" => ~IsLive(w)
    BY <1>1, <2>1 DEF StandsAt, MayPublish, Attempted, Owning, IsLive, Live
  <2>3. ~IsLive(v) /\ u # "none" /\ (u = how \/ u = o)
        /\ (how = "stale" => u = o)
    BY <1>4, <2>1, <2>2 DEF Ended
  <2> QED
    BY <1>1, <2>1, <2>3 DEF EndsWell
<1>6. CASE Finished(j)
  <2>1. published[j] > 0
    BY <1>1, <1>6 DEF Finished, StandsAt
  <2>2. ~IsLive(v) /\ u # "none" /\ (u = "done" \/ u = o)
    BY <1>4, <1>6 DEF Finished, Ended
  <2> QED
    BY <1>1, <2>1, <2>2 DEF EndsWell
<1> QED
  BY <1>2, <1>3, <1>5, <1>6 DEF RowOf

LEMMA RowLoses ==
    ASSUME LifeInv, NEW j \in Job, RowOf(j),
           Losses(runner[j], row[j], outcome[j]),
           Begun(j) \/ (runner'[j].pc \in Trying => runner[j].pc \in Trying)
    PROVE  Losses(runner'[j], row'[j], outcome'[j])
<1> DEFINE w == row[j]
           v == row'[j]
           r == runner[j]
<1>1. /\ w \in Row /\ w.lost \in Nat /\ w.epoch \in Nat /\ Retries \in Nat
  BY OfOne, StoreAssumption DEF Row
<1>2. Trying = {"leased", "running", "registering", "registered", "ending",
                "orphan", "claiming", "requeue"}
  BY DEF Trying, Attempted, Owning
<1>3. CASE v = w /\ outcome'[j] = outcome[j] /\ ~Begun(j)
  <2> HIDE DEF w, v, r
  <2>1. Losses(runner[j], w, outcome[j])
    BY DEF w
  <2> QED
    BY <1>3, <2>1 DEF Losses, v
<1>4. CASE Begun(j)
  <2>1. v.lost = w.lost /\ v.epoch = w.epoch + 1 /\ outcome'[j] = outcome[j]
    BY <1>1, <1>4 DEF Begun, BeginAttempt, Row
  <2> QED
    BY <1>1, <2>1 DEF Losses
<1>5. CASE Saved(j)
  <2>1. v.lost = w.lost /\ v.epoch = w.epoch /\ outcome'[j] = outcome[j]
    BY <1>1, <1>5 DEF Saved, SaveJobState, Row
  <2>2. r.pc \in Trying
    BY <1>2, <1>5 DEF Saved
  <2> QED
    BY <1>1, <2>1, <2>2 DEF Losses
<1>6. CASE Returned(j)
  <2>1. /\ v.epoch = w.epoch /\ v.status \notin Holding
        /\ v.lost \in {0, w.lost, w.lost + 1} /\ outcome'[j] = outcome[j]
    BY <1>1, <1>6 DEF Returned, Rebind, Requeue, Row, Holding
  <2>2. runner'[j].pc \notin Trying /\ r.pc \in Trying
    BY <1>2, <1>6 DEF Returned
  <2> QED
    BY <1>1, <2>1, <2>2 DEF Losses
<1>7. ASSUME NEW status \in Ended, NEW how, Over(j, status, how),
             how = "lost" => w.epoch > Retries,
             runner'[j].pc \in Trying => runner[j].pc \in Trying
      PROVE  Losses(runner'[j], v, outcome'[j])
  <2>1. /\ v.lost = w.lost /\ v.epoch = w.epoch
        /\ v.status \in Holding => w.status \in Holding
        /\ outcome'[j] \in {outcome[j], how}
    BY <1>1, <1>7 DEF Over, FinishJob, Row, Ended, Holding
  <2> QED
    BY <1>1, <1>7, <2>1 DEF Losses
<1>8. CASE Failed(j) /\ ~Begun(j)
  <2>1. PICK how : /\ Over(j, "failed", how)
                   /\ how = "lost" => r.pc = "requeue" /\ Exhausted(w, r.counted)
    BY <1>8 DEF Failed
  <2>2. how = "lost" => w.epoch > Retries
    BY <1>1, <1>2, <2>1 DEF Losses, Exhausted
  <2> QED
    BY <1>7, <1>8, <2>1, <2>2 DEF Ended
<1>9. CASE Finished(j) /\ ~Begun(j)
  BY <1>7, <1>9 DEF Finished, Ended
<1> QED
  BY <1>3, <1>4, <1>5, <1>6, <1>8, <1>9 DEF RowOf

\* The agents, the channels, the deadlines and a stop settle nothing.
LEMMA SettledStays ==
    ASSUME \/ \E a \in Agent : AgentStep(a)
           \/ \E c \in Conn : ChannelStep(c)
           \/ \E j \in Job : Expire(j)
           \/ Stop
    PROVE  UNCHANGED <<settled, restarts>>
<1>1. ASSUME NEW a \in Agent, AgentStep(a)
      PROVE  UNCHANGED <<settled, restarts>>
  BY <1>1 DEF AgentStep, JobProgress, Upload, JobFinished, JobKilled,
     HoldExpires, Heartbeat, OnOrder, Disconnect, AgentCrash, Connect, hub,
     process
<1>2. ASSUME NEW c \in Conn, ChannelStep(c)
      PROVE  UNCHANGED <<settled, restarts>>
  BY <1>2 DEF ChannelStep, OnReady, OnHeartbeat, OnStaleEvent, OnNextEvent,
     OnReleased, RemoveConn, hub, process
<1> QED
  BY <1>1, <1>2 DEF Expire, Stop, hub, process

LEMMA NextEnds ==
    ASSUME LifeInv, HolderInv, EndInv, [Next]_vars
    PROVE  EndInv'
<1> DEFINE Good(k) == /\ EndsWell(row'[k], outcome'[k], published'[k], settled'[k])
                      /\ Losses(runner'[k], row'[k], outcome'[k])
<1>1. \A k \in Job : /\ EndsWell(row[k], outcome[k], published[k], settled[k])
                     /\ Losses(runner[k], row[k], outcome[k])
  BY DEF EndInv
<1>2. ASSUME NEW j \in Job, RunnerStep(j) \/ UserCancel(j)
      PROVE  \A k \in Job : Good(k)
  <2>1. \A k \in Job \ {j} : Good(k)
    BY <1>1, <1>2, StepsApart DEF Apart
  <2>2. RowOf(j) /\ (Begun(j) \/ (runner'[j].pc \in Trying
                                  => runner[j].pc \in Trying))
    <3>1. CASE UserCancel(j)
      <4>1. Over(j, "failed", "cancelled")
        BY <3>1, OverIs DEF UserCancel, LifeInv, FenceInv
      <4>2. runner'[j] = runner[j] \/ runner'[j].pc = "gone"
        BY <3>1, OfOne DEF UserCancel, LifeInv, FenceInv, TypeOK, RunnerRec
      <4>3. "cancelled" \in Outcome \ {"none", "done"} /\ "gone" \notin Trying
        BY DEF Outcome, Trying, Attempted, Owning
      <4> QED
        BY <4>1, <4>2, <4>3 DEF RowOf, Failed
    <3> QED
      BY <1>2, <3>1, RowSteps
  <2>3. /\ published'[j] \in Nat /\ published'[j] >= published[j]
        /\ settled'[j].accepted
           => settled[j].accepted \/ (published[j] > 0 /\ Finished(j))
    <3>1. CASE UserCancel(j)
      <4>1. UNCHANGED published /\ UNCHANGED settled
        BY <3>1 DEF UserCancel, hub
      <4> QED
        BY <4>1, OfOne
    <3> QED
      BY <1>2, <3>1, MapsStay
  <2>4. Good(j)
    BY <1>1, <2>2, <2>3, RowEnds, RowLoses
  <2> QED
    BY <2>1, <2>4
<1>3. CASE UNCHANGED <<row, runner, outcome, published, settled>>
  BY <1>1, <1>3 DEF EndInv
<1>4. CASE Restart
  <2> SUFFICES ASSUME NEW k \in Job PROVE Good(k)
    BY DEF EndInv
  <2>1. row'[k] = row[k] /\ published'[k] = published[k] /\ outcome'[k] = outcome[k]
    BY <1>4, RestartParts DEF Restart
  <2>2. ~settled'[k].accepted
    BY <1>4 DEF Restart, NoSettled
  <2>3. runner'[k].pc \in Trying => row[k].status \in Holding
    BY <1>4, RestartParts DEF Unheld, Fresh, Trying, Attempted, Owning
  <2> QED
    BY <1>1, <2>1, <2>2, <2>3 DEF EndsWell, Losses
<1>5. ASSUME \/ \E a \in Agent : AgentStep(a)
             \/ \E c \in Conn : ChannelStep(c)
             \/ \E j \in Job : Expire(j)
             \/ Stop
             \/ UNCHANGED vars
      PROVE  UNCHANGED <<row, runner, outcome, published, settled>>
  BY <1>5, JobsStay, SettledStays DEF jobs, vars, hub
<1> QED
  BY <1>2, <1>3, <1>4, <1>5 DEF Next, EndInv

\* How jobs end, and the losses they are charged (store.rs `finish_job`,
\* `requeue_job`, workers.rs `requeue`).
THEOREM EndInvariant == Spec => []EndInv
<1>1. Init => EndInv
  <2> SUFFICES ASSUME Init, NEW j \in Job
               PROVE  /\ EndsWell(row[j], outcome[j], published[j], settled[j])
                      /\ Losses(runner[j], row[j], outcome[j])
    BY DEF EndInv
  <2>1. /\ row[j] = NewRow(0) /\ runner[j] = Fresh /\ outcome[j] = "none"
        /\ settled[j] = NoSettled
    BY DEF Init
  <2> QED
    BY <2>1 DEF NewRow, Fresh, NoSettled, EndsWell, Losses, IsLive, Live,
       Holding, Trying, Attempted, Owning
<1>2. ClaimBase /\ EndInv /\ [Next]_vars => EndInv'
  BY NextEnds DEF ClaimBase
<1> QED
  BY <1>1, <1>2, BaseInvariant, PTL DEF Spec

\* `result_accepted` is sent and remembered only for a published map
\* (workers.rs `run_remote`, `verdict`).
THEOREM AcceptedArePublished == Spec => []AcceptedIsPublished
<1>1. EndInv => AcceptedIsPublished
  BY DEF EndInv, EndsWell, AcceptedIsPublished
<1> QED
  BY <1>1, EndInvariant, PTL

\* A job fails as lost only past the retry bound (store.rs `requeue_job`).
THEOREM LostAfterAll == Spec => []LostAfterRetries
<1>1. EndInv => LostAfterRetries
  BY DEF EndInv, Losses, LostAfterRetries
<1> QED
  BY <1>1, EndInvariant, PTL

-----------------------------------------------------------------------------
\* What an agent says of an attempt, in events and in releases, given the
\* words V that may be said: triples of job, epoch and word.

Word == JobEvent \cup Reason
Said(j, e, V) == {x \in Word : <<j, e, x>> \in V}
FrameIn(V) == {f \in FrameRec : f.type \in {"event", "released"}
                                => <<f.job, f.epoch, f.ev>> \in V}
OrderIn(V) == {m \in OrderRec : m.type = "cancel"
                                => <<m.job, m.epoch, m.why>> \in V}
CurIn(cur, V) == LET said == Said(cur.job, cur.epoch, V) IN
                 /\ cur.up = "yes" => "result" \in said
                 /\ cur.released \in said \cup {"no"}
                 /\ cur.out.evs \in Seq(said)
AgentIn(s, V) == /\ s.pending \in Seq(FrameIn(V))
                 /\ Holds(s) => CurIn(s.cur, V)

LEMMA FrameSays ==
    ASSUME NEW V, NEW j \in Job, NEW e \in Nat, NEW q \in Int,
           NEW x \in Said(j, e, V)
    PROVE  /\ x \in JobEvent => Frame("event", j, e, q, x) \in FrameIn(V)
           /\ x \in Reason => Frame("released", j, e, q, x) \in FrameIn(V)
<1>1. /\ x \in JobEvent => Frame("event", j, e, q, x) \in FrameRec
      /\ x \in Reason => Frame("released", j, e, q, x) \in FrameRec
  BY FrameTyped
<1> QED
  BY <1>1 DEF FrameIn, Said, Frame

LEMMA LetGoSays ==
    ASSUME NEW V, NEW s \in AgentRec, AgentIn(s, V), Holds(s),
           NEW why \in {"no"} \cup (Said(s.cur.job, s.cur.epoch, V) \cap Reason)
    PROVE  AgentIn(LetGo(s, why), V)
<1> DEFINE f == Frame("released", s.cur.job, s.cur.epoch, 0, why)
           t == LetGo(s, why)
<1>1. s.cur.job \in Job /\ s.cur.epoch \in Nat /\ s.pending \in Seq(FrameIn(V))
  BY DEF AgentRec, CurrentRec, Holds, AgentIn
<1>2. why # "no" => f \in FrameIn(V)
  BY <1>1, FrameSays
<1>3. /\ t.pending = IF why = "no" THEN s.pending ELSE Append(s.pending, f)
      /\ t.cur = Idle
  BY DEF LetGo, AgentRec
<1>4. ~Holds(t)
  BY <1>3 DEF Holds, Idle
<1> HIDE DEF t, f
<1>5. t.pending \in Seq(FrameIn(V))
  BY <1>1, <1>2, <1>3
<1> QED
  BY <1>4, <1>5 DEF AgentIn, t

LEMMA StoppedSays ==
    ASSUME NEW V, NEW s \in AgentRec, AgentIn(s, V), Holds(s),
           NEW why \in Said(s.cur.job, s.cur.epoch, V) \cap Reason
    PROVE  AgentIn(Stopped(s, why), V)
<1> DEFINE t == [s EXCEPT !.cur.released = why]
<1>1. /\ t.pending = s.pending /\ t.cur.job = s.cur.job
      /\ t.cur.epoch = s.cur.epoch /\ t.cur.up = s.cur.up
      /\ t.cur.released = why /\ t.cur.out = s.cur.out
  BY DEF AgentRec, CurrentRec
<1>2. AgentIn(t, V)
  BY <1>1 DEF AgentIn, CurIn, Holds
<1> QED
  BY <1>2, LetGoSays DEF Stopped

LEMMA QueueSays ==
    ASSUME NEW V, NEW s \in AgentRec, AgentIn(s, V), NEW f \in FrameIn(V)
    PROVE  AgentIn(Queue(s, f), V)
<1>1. /\ Queue(s, f).pending = Append(s.pending, f)
      /\ Queue(s, f).cur = s.cur
  BY DEF Queue, AgentRec
<1> QED
  BY <1>1 DEF AgentIn, Holds

LEMMA AssignedSays ==
    ASSUME NEW V, NEW s \in AgentRec, AgentIn(s, V), ~Holds(s),
           NEW m \in OrderRec, m.type = "assign"
    PROVE  AgentIn(Assigned(s, m), V)
<1> DEFINE cur == [Idle EXCEPT !.job = m.job, !.epoch = m.epoch]
<1>1. /\ cur.up = "no" /\ cur.released = "no" /\ cur.out.evs = <<>>
  BY DEF Idle, EmptyOutbox
<1>2. Assigned(s, m).cur = cur /\ Assigned(s, m).pending = s.pending
  BY DEF Assigned, AgentRec
<1> HIDE DEF cur
<1>3. CurIn(cur, V)
  BY <1>1 DEF CurIn
<1> QED
  BY <1>2, <1>3 DEF AgentIn

LEMMA CancelledSays ==
    ASSUME NEW V, NEW s \in AgentRec, AgentIn(s, V),
           NEW m \in OrderIn(V), m.type = "cancel"
    PROVE  AgentIn(Cancelled(s, m), V)
<1>1. /\ m \in OrderRec /\ m.job \in Job /\ m.epoch \in Nat
      /\ m.why \in Said(m.job, m.epoch, V) \cap Reason
  BY OrderKinds DEF OrderIn, Said, Word
<1>2. Frame("released", m.job, m.epoch, 0, m.why) \in FrameIn(V)
  BY <1>1, FrameSays
<1>3. HoldsThat(s, m.job, m.epoch)
      => /\ Holds(s)
         /\ m.why \in Said(s.cur.job, s.cur.epoch, V) \cap Reason
  BY <1>1, LeaseAssumption DEF HoldsThat, Holds, NoJob
<1> QED
  BY <1>2, <1>3, StoppedSays, QueueSays DEF Cancelled

LEMMA AnsweredSays ==
    ASSUME NEW V, NEW s \in AgentRec, AgentIn(s, V),
           NEW m \in OrderRec, m.type = "verdict"
    PROVE  AgentIn(Answered(s, m), V)
<1>1. HoldsThat(s, m.job, m.epoch) => Holds(s)
  BY OrderKinds, LeaseAssumption DEF HoldsThat, Holds, NoJob
<1> QED
  BY <1>1, LetGoSays DEF Answered

LEMMA AckSays ==
    ASSUME NEW S, NEW o \in OutboxRec, o.evs \in Seq(S), NEW acked \in Int
    PROVE  Ack(o, acked).evs \in Seq(S)
<1>1. Covered(o, acked) \in Nat
  <2>1. Covered(o, acked) \in 0 .. o.written
    BY CoveredBound
  <2> QED
    BY <2>1 DEF OutboxRec
<1>2. Ack(o, acked).evs = SubSeq(o.evs, Covered(o, acked) + 1, Len(o.evs))
  BY DEF Ack, OutboxRec
<1> QED
  BY <1>1, <1>2, SuffixTyped

\* Another outbox for the job that is held.
LEMMA OutSays ==
    ASSUME NEW V, NEW s \in AgentRec, AgentIn(s, V), NEW o \in OutboxRec,
           Holds(s) => o.evs \in Seq(Said(s.cur.job, s.cur.epoch, V))
    PROVE  AgentIn([s EXCEPT !.cur.out = o], V)
<1> DEFINE t == [s EXCEPT !.cur.out = o]
<1>1. /\ t.pending = s.pending /\ t.cur.job = s.cur.job
      /\ t.cur.epoch = s.cur.epoch /\ t.cur.up = s.cur.up
      /\ t.cur.released = s.cur.released /\ t.cur.out = o
  BY DEF AgentRec, CurrentRec
<1> HIDE DEF t
<1>2. AgentIn(t, V)
  BY <1>1 DEF AgentIn, CurIn, Holds
<1> QED
  BY <1>2 DEF t

LEMMA RenewedSays ==
    ASSUME NEW V, NEW s \in AgentRec, AgentIn(s, V),
           NEW m \in OrderRec, m.type = "renewed"
    PROVE  AgentIn(Renewed(s, m), V)
<1>1. m.acked \in Int /\ s.cur.out \in OutboxRec
  BY OrderKinds DEF AgentRec, CurrentRec
<1>2. Ack(s.cur.out, m.acked) \in OutboxRec
  BY <1>1, AckTyped
<1>3. Holds(s) => Ack(s.cur.out, m.acked).evs
                  \in Seq(Said(s.cur.job, s.cur.epoch, V))
  BY <1>1, AckSays DEF AgentIn, CurIn
<1> QED
  BY <1>2, <1>3, OutSays DEF Renewed

LEMMA WelcomedSays ==
    ASSUME NEW V, NEW s \in AgentRec, AgentIn(s, V), NEW c \in Conn,
           NEW acked \in Int,
           NEW answer \in {"none", "continue", "lease_lost", "cancelled", "reroute"},
           Runs(s) => answer \in {"continue"}
                                 \cup Said(s.cur.job, s.cur.epoch, V)
    PROVE  AgentIn(Welcomed(s, c, answer, acked), V)
<1> DEFINE t == [s EXCEPT !.link = c]
           u == [t EXCEPT !.cur.out = EmptyOutbox]
           w == [t EXCEPT !.cur.out = Rewind(t.cur.out, acked)]
<1>1. /\ t \in AgentRec /\ t.cur = s.cur /\ t.pending = s.pending
      /\ AgentIn(t, V)
  BY DEF AgentRec, AgentIn, Holds
<1>2. AgentIn([t EXCEPT !.ready = TRUE], V)
  BY <1>1 DEF AgentRec, AgentIn, Holds
<1>3. t.cur.out \in OutboxRec
  BY <1>1 DEF AgentRec, CurrentRec
<1>4. AgentIn(w, V)
  <2>1. /\ Rewind(t.cur.out, acked) \in OutboxRec
        /\ Rewind(t.cur.out, acked).evs = Ack(t.cur.out, acked).evs
    BY <1>3, RewindTyped, AckTyped DEF Rewind, OutboxRec
  <2>2. Holds(t) => Ack(t.cur.out, acked).evs
                    \in Seq(Said(t.cur.job, t.cur.epoch, V))
    BY <1>1, <1>3, AckSays DEF AgentIn, CurIn
  <2> QED
    BY <1>1, <2>1, <2>2, OutSays
<1>5. u \in AgentRec /\ AgentIn(u, V) /\ (Holds(s) => Holds(u))
      /\ u.cur.job = s.cur.job /\ u.cur.epoch = s.cur.epoch
  <2>1. EmptyOutbox \in OutboxRec /\ EmptyOutbox.evs = <<>>
    BY DEF EmptyOutbox, OutboxRec
  <2>2. u \in AgentRec
    BY <1>1, <2>1, OutTyped
  <2>3. AgentIn(u, V)
    <3>1. \A S : EmptyOutbox.evs \in Seq(S)
      BY <2>1
    <3> HIDE DEF t
    <3> QED
      BY <1>1, <2>1, <3>1, OutSays
  <2>4. u.cur.job = s.cur.job /\ u.cur.epoch = s.cur.epoch
    BY <1>1 DEF AgentRec, CurrentRec
  <2> QED
    BY <2>2, <2>3, <2>4 DEF Holds
<1>6. Runs(s) /\ answer # "continue"
      => answer \in Said(s.cur.job, s.cur.epoch, V) \cap Reason
  BY DEF Said, Word, JobEvent, Terminal, Reason
<1>7. Runs(s) /\ answer # "continue" => AgentIn(Stopped(u, answer), V)
  <2> HIDE DEF t, u
  <2> QED
    BY <1>5, <1>6, StoppedSays DEF Runs
<1> HIDE DEF t, u, w
<1>8. Welcomed(s, c, answer, acked) =
        IF ~Holds(s) THEN [t EXCEPT !.ready = TRUE]
        ELSE IF ~Runs(s) THEN t
        ELSE IF answer = "continue" THEN w
        ELSE Stopped(u, answer)
  BY DEF Welcomed, t, u, w
<1> QED
  BY <1>1, <1>2, <1>4, <1>7, <1>8

\* The word an agent adds to its outbox.
LEMMA ReportsSays ==
    ASSUME NEW V, NEW s \in AgentRec, AgentIn(s, V), Holds(s),
           NEW ev \in JobEvent, ev \in Said(s.cur.job, s.cur.epoch, V),
           NEW done \in {"no", "result", "failed"}
    PROVE  AgentIn(Reports(s, ev), V) /\ AgentIn(EndsWith(s, ev, done), V)
<1> DEFINE o == Push(s.cur.out, ev)
           t == Reports(s, ev)
           u == EndsWith(s, ev, done)
<1>1. /\ s.cur.out.evs \in Seq(Said(s.cur.job, s.cur.epoch, V))
      /\ s.cur.out \in OutboxRec
  BY DEF AgentIn, CurIn, AgentRec, CurrentRec
<1>2. o.evs \in Seq(Said(s.cur.job, s.cur.epoch, V))
  <2>1. o.evs = Append(s.cur.out.evs, ev)
    BY <1>1 DEF Push, OutboxRec
  <2> QED
    BY <1>1, <2>1
<1> HIDE DEF o
<1>3. /\ t.pending = s.pending /\ t.cur.job = s.cur.job
      /\ t.cur.epoch = s.cur.epoch /\ t.cur.up = s.cur.up
      /\ t.cur.released = s.cur.released /\ t.cur.out = o
  BY DEF Reports, AgentRec, CurrentRec, o
<1>4. /\ u.pending = s.pending /\ u.cur.job = s.cur.job
      /\ u.cur.epoch = s.cur.epoch /\ u.cur.up = s.cur.up
      /\ u.cur.released = s.cur.released /\ u.cur.out = o
  BY DEF EndsWith, AgentRec, CurrentRec, o
<1> HIDE DEF t, u
<1>5. AgentIn(t, V) /\ AgentIn(u, V)
  BY <1>2, <1>3, <1>4 DEF AgentIn, CurIn, Holds
<1> QED
  BY <1>5 DEF t, u

LEMMA AfterEventsSays ==
    ASSUME NEW V, NEW s \in AgentRec, AgentIn(s, V)
    PROVE  AgentIn(AfterEvents(s), V)
<1>1. AgentIn([s EXCEPT !.cur = Idle, !.ready = TRUE], V)
  BY DEF AgentRec, AgentIn, Holds, Idle
<1>2. /\ s.cur.out \in OutboxRec /\ Flushed(s.cur.out) \in OutboxRec
      /\ Flushed(s.cur.out).evs = s.cur.out.evs
  BY FlushedTyped DEF AgentRec, CurrentRec, Flushed, OutboxRec
<1>3. AgentIn([s EXCEPT !.cur.out = Flushed(@)], V)
  BY <1>2, OutSays DEF AgentIn, CurIn
<1> QED
  BY <1>1, <1>3 DEF AfterEvents

LEMMA UnwrittenSays ==
    ASSUME NEW S, NEW o \in OutboxRec, o.evs \in Seq(S)
    PROVE  \A k \in DOMAIN Unwritten(o) : Unwritten(o)[k].ev \in S
<1> DEFINE n == Len(o.evs) - o.written
<1>1. n \in Int /\ DOMAIN Unwritten(o) = 1 .. n
  BY DEF Unwritten, OutboxRec
<1>2. ASSUME NEW k \in 1 .. n
      PROVE  Unwritten(o)[k].ev \in S
  <2>1. o.written + k \in 1 .. Len(o.evs)
    BY DEF OutboxRec
  <2>2. Unwritten(o)[k].ev = o.evs[o.written + k]
    BY DEF Unwritten
  <2> QED
    BY <2>1, <2>2
<1> QED
  BY <1>1, <1>2

LEMMA EventFramesSay ==
    ASSUME NEW V, NEW s \in AgentRec, AgentIn(s, V)
    PROVE  EventFrames(s) \in Seq(FrameIn(V))
<1> DEFINE w == Unwritten(s.cur.out)
           W == [seq : Int, ev : JobEvent]
           f(k) == Frame("event", s.cur.job, s.cur.epoch, w[k].seq, w[k].ev)
<1>1. w \in Seq(W) /\ s.cur.out \in OutboxRec
  BY UnwrittenTyped DEF AgentRec, CurrentRec
<1>2. CASE Runs(s)
  <2>1. s.cur.job \in Job /\ s.cur.epoch \in Nat
    BY <1>2 DEF Runs, Holds, AgentRec, CurrentRec
  <2>2. s.cur.out.evs \in Seq(Said(s.cur.job, s.cur.epoch, V))
    BY <1>2 DEF Runs, AgentIn, CurIn
  <2>3. ASSUME NEW k \in DOMAIN w
        PROVE  f(k) \in FrameIn(V)
    <3>1. w[k].seq \in Int /\ w[k].ev \in JobEvent
      <4>1. w[k] \in W
        <5> HIDE DEF w, W
        <5> QED
          BY <1>1
      <4> QED
        BY <4>1
    <3>2. w[k].ev \in Said(s.cur.job, s.cur.epoch, V)
      BY <1>1, <2>2, UnwrittenSays
    <3> HIDE DEF w
    <3> QED
      BY <2>1, <3>1, <3>2, FrameSays
  <2>4. EventFrames(s) = [k \in DOMAIN w |-> f(k)]
    BY <1>2 DEF EventFrames
  <2>5. DOMAIN w = 1 .. Len(w) /\ Len(w) \in Nat
    BY <1>1
  <2>6. [k \in DOMAIN w |-> f(k)] \in [1 .. Len(w) -> FrameIn(V)]
    <3> HIDE DEF f, w
    <3> QED
      BY <2>3, <2>5
  <2> HIDE DEF f, w
  <2> QED
    BY <2>4, <2>5, <2>6, FunctionIsSequence
<1>3. CASE ~Runs(s)
  BY <1>3 DEF EventFrames
<1> QED
  BY <1>2, <1>3

\* What a turn leaves, and what it writes.
LEMMA FlushSays ==
    ASSUME NEW V, NEW s \in AgentRec, AgentIn(s, V)
    PROVE  AgentIn(AfterFlush(s), V) /\ FramesOf(s) \in Seq(FrameIn(V))
<1> DEFINE t == AfterEvents(s)
<1>1. t \in AgentRec /\ AgentIn(t, V)
  BY AfterEventsTyped, AfterEventsSays
<1>2. AfterFlush(s).pending = <<>> /\ AfterFlush(s).cur = t.cur
  <2> HIDE DEF t
  <2>1. AfterFlush(s) = [t EXCEPT !.pending = <<>>, !.ready = @ /\ Holds(t)]
    BY DEF AfterFlush, t
  <2> QED
    BY <1>1, <2>1 DEF AgentRec
<1> HIDE DEF t
<1>3. AgentIn(AfterFlush(s), V)
  BY <1>1, <1>2 DEF AgentIn, Holds
<1>4. Frame("ready", NoJob, 0, 0, "none") \in FrameIn(V)
  BY DEF FrameIn, FrameRec, Frame
<1>5. FramesOf(s) \in Seq(FrameIn(V))
  <2>1. (IF OwesReady(AfterEvents(s))
         THEN <<Frame("ready", NoJob, 0, 0, "none")>> ELSE <<>>)
        \in Seq(FrameIn(V))
    BY <1>4
  <2>2. s.pending \o EventFrames(s) \in Seq(FrameIn(V))
    BY EventFramesSay DEF AgentIn
  <2> HIDE DEF FrameIn
  <2> QED
    BY <2>1, <2>2 DEF FramesOf
<1> QED
  BY <1>3, <1>5

-----------------------------------------------------------------------------
\* What may be said: a word that an attempt's runner can make sense of.

\* A word's meaning to runner r, whose lease is l: a result has its uploads,
\* a job is let go as the runner, or a lost lease, asked for.  The runner of an
\* adopted lease does not know what was asked before its process.
Meant(r, l, x) ==
    \/ r.adopted
    \/ /\ x = "result" => l.uploads
       /\ x = "reroute" => r.to # NoClass
       /\ x = "cancelled" => r.cancelSent
       /\ x = "lease_lost" => l.time = "lost"

Stands(j, e, x) ==
    /\ x # "refused" /\ Issued(j, e)
    /\ Held(j) /\ lease[j].epoch = e => Meant(runner[j], lease[j], x)
Words == {w \in Job \X Nat \X Word : Stands(w[1], w[2], w[3])}

\* What is on its way on the channels, and in the agents.
SpokenIn(V) == /\ up \in [Conn -> Seq(FrameIn(V))]
               /\ down \in [Conn -> Seq(OrderIn(V))]
               /\ \A a \in Agent : AgentIn(agent[a], V)

\* A lease and its runner remember what they asked for, and the lease's
\* events have been said.
LeaseIn(l, r, j, V) ==
    /\ l.cancelled => r.adopted \/ r.cancelSent
    /\ l.rerouting => r.adopted \/ r.to # NoClass
    /\ l.events \in Seq({x \in Said(j, l.epoch, V) :
                           x = "lease_lost" => r.adopted})
LeasesIn(V) == \A j \in Job : LeaseIn(lease[j], runner[j], j, V)

\* How a job fails when what is said has been asked for.
Fates == \A j \in Job : /\ outcome[j] \notin {"refused", "invalid"}
                        /\ outcome[j] = "unasked" => restarts > 0

WordsInv == SpokenIn(Words) /\ LeasesIn(Words) /\ Fates

LEMMA SeqGrows ==
    ASSUME NEW S, NEW T, S \subseteq T, NEW q \in Seq(S)
    PROVE  q \in Seq(T)
<1>1. Len(q) \in Nat /\ q \in [1 .. Len(q) -> S]
  OBVIOUS
<1>2. q \in [1 .. Len(q) -> T]
  BY <1>1
<1> QED
  BY <1>1, <1>2

LEMMA MoreSaid ==
    ASSUME NEW V, NEW W, V \subseteq W
    PROVE  /\ FrameIn(V) \subseteq FrameIn(W) /\ OrderIn(V) \subseteq OrderIn(W)
           /\ \A j, e : Said(j, e, V) \subseteq Said(j, e, W)
BY DEF FrameIn, OrderIn, Said

LEMMA AgentSaysOn ==
    ASSUME NEW V, NEW W, V \subseteq W, NEW s, AgentIn(s, V)
    PROVE  AgentIn(s, W)
<1>1. s.pending \in Seq(FrameIn(W))
  BY MoreSaid, SeqGrows DEF AgentIn
<1>2. ASSUME Holds(s) PROVE CurIn(s.cur, W)
  <2> DEFINE S == Said(s.cur.job, s.cur.epoch, V)
             T == Said(s.cur.job, s.cur.epoch, W)
  <2>1. S \subseteq T
    BY DEF Said
  <2>2. /\ s.cur.up = "yes" => "result" \in S
        /\ s.cur.released \in S \cup {"no"} /\ s.cur.out.evs \in Seq(S)
    BY <1>2 DEF AgentIn, CurIn
  <2> HIDE DEF S, T
  <2>3. s.cur.out.evs \in Seq(T)
    BY <2>1, <2>2, SeqGrows
  <2> QED
    BY <2>1, <2>2, <2>3 DEF CurIn, S, T
<1> QED
  BY <1>1, <1>2 DEF AgentIn

LEMMA SpokenOn ==
    ASSUME NEW V, NEW W, V \subseteq W, SpokenIn(V)
    PROVE  SpokenIn(W)
<1>1. FrameIn(V) \subseteq FrameIn(W) /\ OrderIn(V) \subseteq OrderIn(W)
  BY MoreSaid
<1>2. /\ up \in [Conn -> Seq(FrameIn(V))] /\ down \in [Conn -> Seq(OrderIn(V))]
      /\ \A a \in Agent : AgentIn(agent[a], V)
  BY DEF SpokenIn
<1>3. \A a \in Agent : AgentIn(agent[a], W)
  BY <1>2, AgentSaysOn
<1>4. \A c \in Conn : up[c] \in Seq(FrameIn(W)) /\ down[c] \in Seq(OrderIn(W))
  BY <1>1, <1>2, SeqGrows
<1> QED
  BY <1>2, <1>3, <1>4 DEF SpokenIn

\* What stands goes on standing.
LEMMA StandsOn ==
    ASSUME ClaimBase, ClaimBase', [Next]_vars,
           NEW j \in Job, NEW e \in Nat, NEW x, Stands(j, e, x)
    PROVE  Stands(j, e, x)'
<1>1. JobOn(j)
  BY NextOn DEF ClaimBase
<1>2. row[j].epoch \in Nat /\ row'[j].epoch \in Nat
  BY DEF ClaimBase, LifeInv, FenceInv, TypeOK, Row
<1>3. Issued(j, e)'
  BY <1>1, <1>2 DEF JobOn, On, RowOn, Stands, Issued
<1>4. ASSUME lease'[j] # NoLease, lease'[j].epoch = e
      PROVE  Meant(runner'[j], lease'[j], x)
  <2>1. CASE /\ lease[j] # NoLease /\ LeaseOn(lease[j], lease'[j])
             /\ RunnerOn(runner[j], runner'[j])
    <3>1. Meant(runner[j], lease[j], x)
      BY <1>4, <2>1 DEF Stands, Held, LeaseOn
    <3>2. runner[j].adopted \in BOOLEAN /\ runner'[j].adopted \in BOOLEAN
      BY DEF ClaimBase, LifeInv, FenceInv, TypeOK, RunnerRec
    <3> QED
      BY <2>1, <3>1, <3>2 DEF LeaseOn, RunnerOn, Meant
  <2>2. CASE GivenOut(runner[j], row[j], lease'[j])
    BY <1>4, <2>2 DEF GivenOut, Stands, Issued
  <2>3. CASE Adopted(row[j], lease'[j], runner'[j])
    BY <2>3 DEF Adopted, Meant
  <2> QED
    BY <1>1, <1>4, <2>1, <2>2, <2>3 DEF JobOn, On
<1> QED
  BY <1>3, <1>4 DEF Stands, Held

LEMMA WordsStay ==
    ASSUME ClaimBase, ClaimBase', [Next]_vars
    PROVE  Words \subseteq Words'
<1> SUFFICES ASSUME NEW w \in Job \X Nat \X Word, Stands(w[1], w[2], w[3])
             PROVE  Stands(w[1], w[2], w[3])'
  BY DEF Words
<1> QED
  BY StandsOn

\* What a job may say of itself at any time, and what its agent says then.
LEMMA JobSays ==
    ASSUME ClaimBase, ClaimsInv, NEW a \in Agent, Holds(agent[a]),
           NEW x \in {"none", "features", "failed", "denied", "oom"}
    PROVE  LET cur == agent[a].cur IN
           /\ cur.job \in Job /\ cur.epoch \in Nat /\ Stands(cur.job, cur.epoch, x)
           /\ x # "none" => x \in Said(cur.job, cur.epoch, Words)
<1> DEFINE j == agent[a].cur.job
           e == agent[a].cur.epoch
<1>1. j \in Job /\ e \in Nat
  BY DEF ClaimBase, LifeInv, FenceInv, TypeOK, AgentRec, CurrentRec, Holds
<1>2. Claims(a, j, e)
  BY DEF Claims, Bears, HoldsThat
<1> HIDE DEF j, e
<1>3. Stands(j, e, x)
  BY <1>1, <1>2 DEF ClaimsInv, Stands, Meant
<1>4. x # "none" => x \in Word
  BY DEF Word, JobEvent, Terminal, Reason
<1> QED
  BY <1>1, <1>3, <1>4 DEF Said, Words, j, e

\* The lease of the attempt that an agent works at is that agent's.
LEMMA HeldByWorker ==
    ASSUME ClaimBase, ClaimsInv, NEW a \in Agent, Holds(agent[a]),
           Held(agent[a].cur.job), lease[agent[a].cur.job].epoch = agent[a].cur.epoch
    PROVE  lease[agent[a].cur.job].agent = a
<1> DEFINE j == agent[a].cur.job
           e == agent[a].cur.epoch
<1>1. j \in Job /\ e \in Nat /\ Claims(a, j, e)
  BY JobSays DEF Claims, Bears, HoldsThat
<1>2. lease[j].agent \in Agent
  BY <1>1 DEF ClaimBase, HolderInv
<1>3. Claims(lease[j].agent, j, e)
  BY DEF Claims, Names
<1> HIDE DEF j, e
<1> QED
  BY <1>1, <1>2, <1>3 DEF ClaimsInv, j

LEMMA TurnSpeaks ==
    ASSUME TypeOK, NEW V, SpokenIn(V), NEW a \in Agent, NEW t \in AgentRec,
           AgentIn(t, V), Turn(a, t), down' \in [Conn -> Seq(OrderIn(V))]
    PROVE  SpokenIn(V)'
<1> DEFINE u == IF t.link = NoConn THEN t ELSE AfterFlush(t)
           F == FrameIn(V)
<1>1. /\ agent' = [agent EXCEPT ![a] = u]
      /\ up' = up \/ (t.link \in Conn
                      /\ up' = [up EXCEPT ![t.link] = up[t.link] \o FramesOf(t)])
  BY DEF Turn, AgentRec, TypeOK
<1>2. AgentIn(u, V) /\ FramesOf(t) \in Seq(F)
  BY FlushSays
<1>3. up \in [Conn -> Seq(F)] /\ \A b \in Agent : AgentIn(agent[b], V)
  BY DEF SpokenIn
<1> HIDE DEF u, F
<1>4. \A b \in Agent : AgentIn(agent'[b], V)
  BY <1>1, <1>2, <1>3 DEF TypeOK
<1>5. up' \in [Conn -> Seq(F)]
  <2>1. t.link \in Conn => up[t.link] \o FramesOf(t) \in Seq(F)
    BY <1>2, <1>3
  <2> QED
    BY <1>1, <1>3, <2>1
<1> QED
  BY <1>4, <1>5 DEF SpokenIn, F

LEMMA TurnsSpeak ==
    ASSUME ClaimBase, ClaimsInv, NEW V, Words \subseteq V, SpokenIn(V),
           NEW a \in Agent,
           JobProgress(a) \/ JobFinished(a) \/ JobKilled(a) \/ HoldExpires(a)
    PROVE  SpokenIn(V)'
<1> DEFINE s == agent[a]
           S == Said(s.cur.job, s.cur.epoch, V)
<1>1. /\ TypeOK /\ s \in AgentRec /\ AgentIn(s, V)
      /\ down \in [Conn -> Seq(OrderIn(V))]
  BY DEF ClaimBase, LifeInv, FenceInv, TypeOK, SpokenIn
<1>2. Holds(s) /\ UNCHANGED down
  BY DEF JobProgress, JobFinished, JobKilled, HoldExpires, Working, Runs
<1>3. {"features", "failed", "denied", "oom"} \subseteq S
  <2>1. {"features", "failed", "denied", "oom"}
            \subseteq Said(s.cur.job, s.cur.epoch, Words)
    <3>1. \A x \in {"none", "features", "failed", "denied", "oom"} :
             x # "none" => x \in Said(s.cur.job, s.cur.epoch, Words)
      BY <1>2, JobSays, Zenon
    <3> HIDE DEF s
    <3> QED
      BY <3>1
  <2>2. Said(s.cur.job, s.cur.epoch, Words) \subseteq S
    <3>1. \A j, e : Said(j, e, Words) \subseteq Said(j, e, V)
      BY MoreSaid
    <3> HIDE DEF s
    <3> QED
      BY <3>1
  <2> QED
    BY <2>1, <2>2, Zenon
<1>4. /\ s.cur.up = "yes" => "result" \in S
      /\ s.cur.released \in S \cup {"no"}
  BY <1>1, <1>2 DEF AgentIn, CurIn
<1>5. /\ {"features", "result", "failed", "denied"} \subseteq JobEvent
      /\ "oom" \in Reason /\ (~Runs(s) => s.cur.released \in Reason)
  BY <1>1, <1>2 DEF JobEvent, Terminal, Reason, Runs, AgentRec, CurrentRec
<1> HIDE DEF s, S
<1>6. ASSUME NEW ev \in JobEvent \cap S, NEW done \in {"no", "result", "failed"}
      PROVE  /\ Reports(s, ev) \in AgentRec /\ AgentIn(Reports(s, ev), V)
             /\ EndsWith(s, ev, done) \in AgentRec
             /\ AgentIn(EndsWith(s, ev, done), V)
  BY <1>1, <1>2, ReportsTyped, ReportsSays DEF S
<1>7. ASSUME NEW why \in {"no"} \cup (S \cap Reason)
      PROVE  LetGo(s, why) \in AgentRec /\ AgentIn(LetGo(s, why), V)
  BY <1>1, <1>2, LetGoTyped, LetGoSays DEF S
<1>8. \E t \in AgentRec : Turn(a, t) /\ AgentIn(t, V)
  <2>1. CASE JobProgress(a)
    BY <1>3, <1>5, <1>6, <2>1 DEF JobProgress, s
  <2>2. CASE JobFinished(a)
    <3>1. \/ s.cur.up = "yes" /\ Turn(a, EndsWith(s, "result", "result"))
          \/ Turn(a, EndsWith(s, "denied", "failed"))
          \/ Turn(a, EndsWith(s, "failed", "failed"))
          \/ Turn(a, LetGo(s, "oom"))
      BY <2>2 DEF JobFinished, s
    <3> QED
      BY <1>3, <1>4, <1>5, <1>6, <1>7, <3>1
  <2>3. CASE JobKilled(a)
    <3>1. Turn(a, LetGo(s, s.cur.released)) /\ ~Runs(s)
      BY <2>3 DEF JobKilled, s
    <3> QED
      BY <1>4, <1>5, <1>7, <3>1
  <2>4. CASE HoldExpires(a)
    <3>1. Turn(a, LetGo(s, "no"))
      BY <2>4 DEF HoldExpires, s
    <3> QED
      BY <1>7, <3>1
  <2> QED
    BY <2>1, <2>2, <2>3, <2>4
<1> QED
  BY <1>1, <1>2, <1>8, TurnSpeaks

LEMMA OrderSpeaks ==
    ASSUME ClaimBase, NEW V, SpokenIn(V), NEW a \in Agent, OnOrder(a)
    PROVE  SpokenIn(V)'
<1> DEFINE s == agent[a]
           m == Next1(a)
           O == OrderIn(V)
<1>1. TypeOK /\ LinkInv /\ s \in AgentRec /\ AgentIn(s, V)
  BY DEF ClaimBase, LifeInv, FenceInv, TypeOK, SpokenIn
<1>2. /\ s.link \in Conn /\ down[s.link] # <<>> /\ m = Head(down[s.link])
      /\ down' = [down EXCEPT ![s.link] = Tail(down[s.link])]
      /\ down \in [Conn -> Seq(O)]
  BY <1>1 DEF OnOrder, Reads, Next1, AgentRec, SpokenIn
<1>3. m \in O /\ down' \in [Conn -> Seq(O)]
  <2> HIDE DEF s, m, O
  <2>1. down[s.link] \in Seq(O)
    BY <1>2
  <2>2. Tail(down[s.link]) \in Seq(O) /\ Head(down[s.link]) \in O
    BY <1>2, <2>1
  <2> QED
    BY <1>2, <2>2
<1>4. m \in OrderRec
  BY <1>3 DEF OrderIn
<1>5. \/ m.type = "assign" /\ Turn(a, Assigned(s, m))
      \/ m.type = "cancel" /\ Turn(a, Cancelled(s, m))
      \/ m.type = "verdict" /\ Turn(a, Answered(s, m))
      \/ m.type = "renewed" /\ Turn(a, Renewed(s, m))
  BY DEF OnOrder, Reads, Next1
<1>6. m.type = "assign" => ~Holds(s)
  <2>1. /\ s.ready = FALSE
        /\ OneToken(conn[s.link].ready, up[s.link], down[s.link], Holds(s))
    BY <1>1 DEF LinkInv, LinkAt, OnOrder, Reads
  <2>2. m.type = "assign" => ~None(down[s.link], "assign")
    <3>1. down[s.link] \in Seq(OrderRec)
      BY <1>1, <1>2 DEF TypeOK
    <3> HIDE DEF s, m
    <3> QED
      BY <1>2, <3>1, Tails
  <2> QED
    BY <2>1, <2>2 DEF OneToken
<1> HIDE DEF s, m, O
<1>7. \E t \in AgentRec : Turn(a, t) /\ AgentIn(t, V)
  <2>1. CASE m.type = "assign" /\ Turn(a, Assigned(s, m))
    BY <1>1, <1>4, <1>6, <2>1, AssignedTyped, AssignedSays
  <2>2. CASE m.type = "cancel" /\ Turn(a, Cancelled(s, m))
    BY <1>1, <1>3, <1>4, <2>2, CancelledTyped, CancelledSays DEF O
  <2>3. CASE m.type = "verdict" /\ Turn(a, Answered(s, m))
    BY <1>1, <1>4, <2>3, AnsweredTyped, AnsweredSays
  <2>4. CASE m.type = "renewed" /\ Turn(a, Renewed(s, m))
    BY <1>1, <1>4, <2>4, RenewedTyped, RenewedSays
  <2> QED
    BY <1>5, <2>1, <2>2, <2>3, <2>4
<1> QED
  BY <1>1, <1>3, <1>7, TurnSpeaks DEF O

\* A word that stands after the step.
LEMMA SaidAfter ==
    ASSUME NEW V, V = Words', NEW j \in Job, NEW e \in Nat,
           NEW x \in Word \ {"refused"},
           e <= row'[j].epoch, e = row'[j].epoch => runner'[j].pc # "claiming",
           lease'[j] # NoLease /\ lease'[j].epoch = e
             => Meant(runner'[j], lease'[j], x)
    PROVE  x \in Said(j, e, V)
<1>1. Stands(j, e, x)'
  BY DEF Stands, Held, Issued
<1>2. <<j, e, x>> \in Words'
  BY <1>1 DEF Words
<1> QED
  BY <1>2 DEF Said

\* An upload that is taken makes `result` a word that stands.
LEMMA UploadSays ==
    ASSUME ClaimBase, ClaimsInv, NEW V, V = Words', NEW a \in Agent, Upload(a),
           agent'[a].cur.up = "yes"
    PROVE  "result" \in Said(agent[a].cur.job, agent[a].cur.epoch, V)
<1> DEFINE j == agent[a].cur.job
           e == agent[a].cur.epoch
<1>1. TypeOK /\ agent[a] \in AgentRec /\ Holds(agent[a])
  BY DEF ClaimBase, LifeInv, FenceInv, TypeOK, Upload, Working, Runs
<1>2. j \in Job /\ e \in Nat /\ Issued(j, e)
  BY <1>1, JobSays DEF Stands
<1>3. MayUpload(a, j, e)
  <2>1. PICK how : /\ agent' = [agent EXCEPT ![a].cur.up = how]
                   /\ how = IF MayUpload(a, j, e) THEN "yes" ELSE "refused"
    BY DEF Upload
  <2>2. agent'[a].cur.up = how
    BY <1>1, <2>1 DEF TypeOK, AgentRec, CurrentRec
  <2> QED
    BY <2>1, <2>2
<1>4. lease' = [lease EXCEPT ![j].uploads = TRUE] /\ UNCHANGED <<runner, row>>
  BY <1>3 DEF Upload, jobs
<1>5. "result" \in Word \ {"refused"}
  BY DEF Word, JobEvent, Terminal
<1> HIDE DEF j, e
<1>6. lease'[j].uploads
  BY <1>1, <1>2, <1>4 DEF TypeOK, LeaseRec
<1>7. e <= row'[j].epoch /\ (e = row'[j].epoch => runner'[j].pc # "claiming")
  BY <1>2, <1>4 DEF Issued
<1>8. Meant(runner'[j], lease'[j], "result")
  BY <1>6 DEF Meant
<1>9. "result" \in Said(j, e, V)
  BY <1>2, <1>5, <1>7, <1>8, SaidAfter
<1> QED
  BY <1>9 DEF j, e

LEMMA AgentMoves ==
    ASSUME TypeOK, NEW V, SpokenIn(V), NEW a \in Agent, NEW t, AgentIn(t, V),
           agent' = [agent EXCEPT ![a] = t]
    PROVE  \A b \in Agent : AgentIn(agent'[b], V)
BY DEF SpokenIn, TypeOK

LEMMA UploadSpeaks ==
    ASSUME ClaimBase, ClaimsInv, NEW V, V = Words', SpokenIn(V),
           NEW a \in Agent, Upload(a)
    PROVE  SpokenIn(V)'
<1> DEFINE s == agent[a]
<1>1. TypeOK /\ s \in AgentRec /\ Holds(s) /\ AgentIn(s, V)
  BY DEF ClaimBase, LifeInv, FenceInv, TypeOK, SpokenIn, Upload, Working, Runs
<1>2. PICK how \in {"yes", "refused"} : agent' = [agent EXCEPT ![a].cur.up = how]
  BY DEF Upload
<1> DEFINE t == [s EXCEPT !.cur.up = how]
<1>3. agent' = [agent EXCEPT ![a] = t]
  BY <1>1, <1>2 DEF TypeOK
<1>4. /\ t.pending = s.pending /\ t.cur.job = s.cur.job
      /\ t.cur.epoch = s.cur.epoch /\ t.cur.up = how
      /\ t.cur.released = s.cur.released /\ t.cur.out = s.cur.out
  BY <1>1 DEF AgentRec, CurrentRec
<1>5. how = "yes" => "result" \in Said(s.cur.job, s.cur.epoch, V)
  <2>1. agent'[a] = t
    <3> HIDE DEF t
    <3> QED
      BY <1>1, <1>3 DEF TypeOK
  <2>2. how = "yes" => agent'[a].cur.up = "yes"
    BY <1>4, <2>1
  <2> QED
    BY <2>2, UploadSays
<1> HIDE DEF s, t
<1>6. AgentIn(t, V)
  BY <1>1, <1>4, <1>5 DEF AgentIn, CurIn, Holds
<1> QED
  BY <1>1, <1>3, <1>6, AgentMoves DEF Upload, SpokenIn, s

LEMMA LossSpeaks ==
    ASSUME ClaimBase, NEW V, SpokenIn(V), NEW a \in Agent,
           Disconnect(a) \/ AgentCrash(a)
    PROVE  SpokenIn(V)'
<1>1. TypeOK /\ LinkInv /\ agent[a] \in AgentRec /\ AgentIn(agent[a], V)
  BY DEF ClaimBase, LifeInv, FenceInv, TypeOK, SpokenIn
<1>2. UNCHANGED up
  BY DEF Disconnect, AgentCrash
<1>3. down' \in [Conn -> Seq(OrderIn(V))]
  <2>1. down' = [c \in Conn |-> IF c = agent[a].link THEN <<>> ELSE down[c]]
    BY <1>1, DisconnectLinks
  <2> QED
    BY <2>1 DEF SpokenIn
<1>4. PICK t : agent' = [agent EXCEPT ![a] = t] /\ AgentIn(t, V)
  <2>1. AgentIn([agent[a] EXCEPT !.link = NoConn], V)
    BY <1>1 DEF AgentRec, AgentIn, Holds
  <2>2. AgentIn(NewAgent, V)
    BY DEF AgentIn, NewAgent, Idle, Holds
  <2>3. CASE AgentCrash(a)
    BY <2>2, <2>3 DEF AgentCrash
  <2>4. CASE Disconnect(a)
    <3>1. agent' = [agent EXCEPT ![a] = [agent[a] EXCEPT !.link = NoConn]]
      BY <1>1, <2>4 DEF Disconnect, TypeOK
    <3> QED
      BY <2>1, <3>1
  <2> QED
    BY <2>3, <2>4
<1> QED
  BY <1>1, <1>2, <1>3, <1>4, AgentMoves DEF SpokenIn

LEMMA HeartbeatSpeaks ==
    ASSUME ClaimBase, NEW V, SpokenIn(V), NEW a \in Agent, Heartbeat(a)
    PROVE  SpokenIn(V)'
<1> DEFINE cur == agent[a].cur
           c == agent[a].link
<1>1. TypeOK /\ cur.job \in Job /\ cur.epoch \in Nat
  BY DEF ClaimBase, LifeInv, FenceInv, TypeOK, AgentRec, CurrentRec,
     Heartbeat, Holds
<1>2. PICK memory \in {"hot", "calm"} :
        up' = [up EXCEPT ![c] =
                 Append(@, Frame("heartbeat", cur.job, cur.epoch, 0, memory))]
  BY DEF Heartbeat
<1> DEFINE f == Frame("heartbeat", cur.job, cur.epoch, 0, memory)
<1>3. f \in FrameRec /\ f.type = "heartbeat"
  <2>1. f.type = "heartbeat"
    BY DEF Frame
  <2> HIDE DEF cur
  <2>2. f \in FrameRec
    BY <1>1, FrameTyped
  <2> QED
    BY <2>1, <2>2
<1>4. up \in [Conn -> Seq(FrameIn(V))]
  BY DEF SpokenIn
<1>5. f \in FrameIn(V)
  BY <1>3 DEF FrameIn
<1>6. up' \in [Conn -> Seq(FrameIn(V))]
  <2>1. up' = [up EXCEPT ![c] = Append(@, f)]
    BY <1>2
  <2> DEFINE F == FrameIn(V)
  <2> HIDE DEF f, c, F
  <2>2. \A k \in Conn : Append(up[k], f) \in Seq(F)
    BY <1>4, <1>5 DEF F
  <2>3. up' \in [Conn -> Seq(F)]
    BY <1>4, <2>1, <2>2 DEF F
  <2> QED
    BY <2>3 DEF F
<1>7. UNCHANGED <<agent, down>>
  BY DEF Heartbeat
<1> QED
  BY <1>6, <1>7 DEF SpokenIn

\* What the hub answers to a job it will not let go on is what it, or its
\* runner, asked for.
LEMMA ResumeSays ==
    ASSUME ClaimBase, ClaimsInv, LeasesIn(Words), NEW V, V = Words',
           NEW a \in Agent, NEW t, NEW acked, NEW answer, NEW old, NEW told,
           Resumed(a, t, acked, answer, old, told),
           answer \in {"lease_lost", "cancelled", "reroute"}
    PROVE  answer \in Said(agent[a].cur.job, agent[a].cur.epoch, V)
<1> DEFINE s == agent[a]
           j == s.cur.job
           e == s.cur.epoch
           lease1 == Detached(Evicted(a))
<1>1. /\ answer = ResumeAnswer(a, j, e, lease1[j]) /\ Holds(s)
      /\ lease' = [lease1 EXCEPT ![j] = AfterResume(@, answer, nextConn)]
      /\ UNCHANGED <<row, runner>>
  BY DEF Resumed, Runs
<1>2. j \in Job /\ e \in Nat /\ Issued(j, e)
  BY <1>1, JobSays DEF Stands
<1>3. Held(j) /\ lease[j].epoch = e => lease[j].agent = a
  BY <1>1, HeldByWorker
<1>4. TypeOK /\ Evicted(a) \in SUBSET Conn
  BY DEF ClaimBase, LifeInv, FenceInv, Evicted
<1>5. lease1 \in [Job -> LeaseRec]
  BY <1>4, DetachedTyped
<1>6. /\ lease1[j].agent = lease[j].agent /\ lease1[j].time = lease[j].time
      /\ lease1[j].epoch = lease[j].epoch
      /\ lease1[j].cancelled = lease[j].cancelled
      /\ lease1[j].rerouting = lease[j].rerouting
      /\ lease1[j] # NoLease => Held(j)
  <2>1. lease1[j] = IF lease[j].conn \in Evicted(a)
                    THEN [lease[j] EXCEPT !.conn = NoConn] ELSE lease[j]
    BY <1>2 DEF Detached
  <2>2. lease[j] \in LeaseRec
    BY <1>2, <1>4 DEF TypeOK
  <2> HIDE DEF j, lease1
  <2>3. lease1[j] # NoLease => Held(j)
    BY <1>2, <1>4, DetachedOn DEF lease1, Held
  <2> QED
    BY <2>1, <2>2, <2>3 DEF LeaseRec
<1>7. answer \in Word \ {"refused"}
  BY DEF Word, JobEvent, Terminal, Reason
<1>8. LeaseIn(lease[j], runner[j], j, Words)
  BY <1>2 DEF LeasesIn
<1> HIDE DEF s, j, e, lease1
<1> DEFINE l == lease1[j]
           m == lease'[j]
<1>9. m = AfterResume(l, answer, nextConn) /\ l \in LeaseRec
  BY <1>1, <1>2, <1>5
<1> HIDE DEF l, m
<1>10. /\ m.agent = l.agent /\ m.epoch = l.epoch
       /\ m # l => l.time = "due"
       /\ answer = "lease_lost" /\ l.time # "live" => m.time = "lost"
  BY <1>9 DEF AfterResume, LeaseRec
<1>11. ASSUME m # NoLease, m.epoch = e
       PROVE  Meant(runner[j], m, answer)
  <2>1. Held(j) /\ lease[j].epoch = e
    <3>1. NoLease.time = "live"
      BY DEF NoLease, NewLease
    <3>2. lease1[j] # NoLease
      BY <1>10, <1>11, <3>1 DEF l
    <3> QED
      BY <1>6, <1>10, <1>11, <3>2 DEF l
  <2>2. l.agent = a /\ l.epoch = e
    BY <1>3, <1>6, <2>1 DEF l
  <2>3. CASE answer = "lease_lost"
    <3>1. l.time # "live"
      BY <1>1, <2>2, <2>3 DEF ResumeAnswer, l
    <3> QED
      BY <1>10, <2>3, <3>1 DEF Meant
  <2>4. CASE answer = "cancelled"
    <3>1. lease[j].cancelled
      BY <1>1, <1>6, <2>4 DEF ResumeAnswer, l
    <3> QED
      BY <1>8, <2>4, <3>1 DEF Meant, LeaseIn
  <2>5. CASE answer = "reroute"
    <3>1. lease[j].rerouting
      BY <1>1, <1>6, <2>5 DEF ResumeAnswer, l
    <3> QED
      BY <1>8, <2>5, <3>1 DEF Meant, LeaseIn
  <2> QED
    BY <2>3, <2>4, <2>5
<1>12. /\ e <= row'[j].epoch /\ (e = row'[j].epoch => runner'[j].pc # "claiming")
       /\ lease'[j] # NoLease /\ lease'[j].epoch = e
            => Meant(runner'[j], lease'[j], answer)
  BY <1>1, <1>2, <1>11 DEF Issued, m
<1>13. answer \in Said(j, e, V)
  BY <1>2, <1>7, <1>12, SaidAfter
<1> QED
  BY <1>13 DEF s, j, e

LEMMA ConnectSpeaks ==
    ASSUME ClaimBase, ClaimsInv, LeasesIn(Words), NEW V, V = Words',
           SpokenIn(V), NEW a \in Agent, Connect(a)
    PROVE  SpokenIn(V)'
<1> DEFINE s == agent[a]
           c == nextConn
           j == s.cur.job
           e == s.cur.epoch
           F == FrameIn(V)
           O == OrderIn(V)
<1>1. TypeOK /\ s \in AgentRec /\ AgentIn(s, V)
  BY DEF ClaimBase, LifeInv, FenceInv, TypeOK, SpokenIn
<1>2. PICK t \in AgentRec, acked \in Int : \E answer, old, told :
        Resumed(a, t, acked, answer, old, told)
  BY <1>1, ConnectParts
<1>3. PICK answer, old, told : Resumed(a, t, acked, answer, old, told)
  BY <1>2
<1> DEFINE m == VerdictOrder(j, e, settled[j].accepted)
           u == AfterFlush(t)
<1>4. /\ t = Welcomed(s, c, told, acked) /\ c \in Conn
      /\ told = IF answer \in {"settled", "moves"} THEN "continue" ELSE answer
      /\ told \in {"none", "continue", "lease_lost", "cancelled", "reroute"}
      /\ told = "none" <=> ~Runs(s)
      /\ answer # "none" => j \in Job /\ e \in Nat
  BY <1>3 DEF Resumed
<1>5. /\ \/ agent' = [agent EXCEPT ![a] = u] \/ UNCHANGED agent
      /\ \/ UNCHANGED down
         \/ answer = "settled" /\ down' = [down EXCEPT ![c] = <<m>>]
      /\ \A k \in Conn : up'[k] \in {<<>>, FramesOf(t), up[k]}
      /\ DOMAIN up' = Conn /\ up' = [k \in Conn |-> up'[k]]
  BY <1>3 DEF Resumed
<1>6. Runs(s) => told \in {"continue"} \cup Said(j, e, V)
  <2>1. Runs(s) /\ told # "continue"
        => answer = told /\ answer \in {"lease_lost", "cancelled", "reroute"}
    BY <1>4
  <2>2. answer \in {"lease_lost", "cancelled", "reroute"} => answer \in Said(j, e, V)
    BY <1>3, ResumeSays
  <2> QED
    BY <2>1, <2>2
<1>7. AgentIn(t, V)
  <2> HIDE DEF s, c
  <2>1. Runs(s) => told \in {"continue"} \cup Said(s.cur.job, s.cur.epoch, V)
    BY <1>6
  <2>2. AgentIn(Welcomed(s, c, told, acked), V)
    BY <1>1, <1>4, <2>1, WelcomedSays
  <2> QED
    BY <1>4, <2>2
<1>8. AgentIn(u, V) /\ FramesOf(t) \in Seq(F)
  BY <1>7, FlushSays
<1>9. answer = "settled" => m \in O
  <2>1. answer = "settled" => j \in Job /\ e \in Nat /\ settled[j].accepted \in BOOLEAN
    BY <1>1, <1>4 DEF TypeOK, SettledRec
  <2> HIDE DEF j, e
  <2>2. answer = "settled" => m \in OrderRec /\ m.type = "verdict"
    BY <2>1, OrdersQuiet
  <2> HIDE DEF m
  <2> QED
    BY <2>2 DEF OrderIn
<1>10. up \in [Conn -> Seq(F)] /\ down \in [Conn -> Seq(O)]
  BY DEF SpokenIn
<1> HIDE DEF s, c, j, e, F, O, m, u
<1>11. up' \in [Conn -> Seq(F)]
  <2>1. \A k \in Conn : up'[k] \in Seq(F)
    <3>1. <<>> \in Seq(F)
      OBVIOUS
    <3>2. \A k \in Conn : up[k] \in Seq(F)
      BY <1>10
    <3>3. \A k \in Conn : up'[k] \in {<<>>, FramesOf(t), up[k]}
      BY <1>5
    <3> QED
      BY <1>8, <3>1, <3>2, <3>3
  <2> QED
    BY <1>5, <2>1
<1>12. down' \in [Conn -> Seq(O)]
  <2>1. answer = "settled" => <<m>> \in Seq(O)
    BY <1>9
  <2> QED
    BY <1>5, <1>10, <2>1
<1>13. \A b \in Agent : AgentIn(agent'[b], V)
  BY <1>1, <1>5, <1>8, AgentMoves DEF SpokenIn
<1> QED
  BY <1>11, <1>12, <1>13 DEF SpokenIn, F, O

\* What agents do leaves what is said among what stands.
LEMMA AgentSpeaks ==
    ASSUME ClaimBase, ClaimsInv, LeasesIn(Words), NEW V, V = Words',
           Words \subseteq V, SpokenIn(V), NEW a \in Agent, AgentStep(a)
    PROVE  SpokenIn(V)'
BY TurnsSpeak, OrderSpeaks, UploadSpeaks, LossSpeaks, HeartbeatSpeaks,
   ConnectSpeaks DEF AgentStep

-----------------------------------------------------------------------------
\* The master's side of it: frames are read, orders are sent.

LEMMA FramesDrop ==
    ASSUME NEW V, SpokenIn(V), NEW c \in Conn, UpQuiet(c)
    PROVE  up'[c] \in Seq(FrameIn(V))
<1> DEFINE F == FrameIn(V)
<1>1. up[c] \in Seq(F)
  BY DEF SpokenIn
<1> HIDE DEF F
<1>2. <<>> \in Seq(F)
  OBVIOUS
<1>3. up[c] # <<>> => Tail(up[c]) \in Seq(F)
  BY <1>1
<1> QED
  BY <1>1, <1>2, <1>3 DEF UpQuiet, F

LEMMA SentSays ==
    ASSUME NEW V, SpokenIn(V), NEW c \in Conn \cup {NoConn}, NEW m \in OrderIn(V)
    PROVE  Sent(c, m) \in [Conn -> Seq(OrderIn(V))]
<1> DEFINE O == OrderIn(V)
<1>1. down \in [Conn -> Seq(O)] /\ m \in O
  BY DEF SpokenIn
<1> HIDE DEF O
<1>2. \A k \in Conn : Append(down[k], m) \in Seq(O)
  BY <1>1
<1>3. Sent(c, m) \in [Conn -> Seq(O)]
  BY <1>1, <1>2 DEF Sent
<1> QED
  BY <1>3 DEF O

\* A step of the master that leaves the agents alone.
LEMMA QuietSpeaks ==
    ASSUME TypeOK, TypeOK', NEW V, SpokenIn(V), UNCHANGED agent,
           \A k \in Conn : UpQuiet(k), down' \in [Conn -> Seq(OrderIn(V))]
    PROVE  SpokenIn(V)'
<1>1. \A k \in Conn : up'[k] \in Seq(FrameIn(V))
  BY FramesDrop
<1>2. up' = [k \in Conn |-> up'[k]]
  BY DEF TypeOK
<1>3. up' \in [Conn -> Seq(FrameIn(V))]
  BY <1>1, <1>2
<1> QED
  BY <1>3 DEF SpokenIn

LEMMA ChannelSpeaks ==
    ASSUME TypeOK, TypeOK', NEW V, SpokenIn(V), NEW c \in Conn, ChannelStep(c)
    PROVE  SpokenIn(V)'
<1>1. UNCHANGED agent /\ \A k \in Conn : UpQuiet(k)
  <2>1. CASE OnReady(c)
    BY <2>1, TookQuiet DEF OnReady
  <2>2. CASE ~OnReady(c)
    BY <2>2, ChannelQuiet DEF QuietStep, Quiet
  <2> QED
    BY <2>1, <2>2
<1>2. \/ UNCHANGED down
      \/ \E m \in OrderRec : m.type \notin {"assign", "cancel"} /\ down' = Sent(c, m)
  <2>1. CASE OnReady(c)
    BY <2>1 DEF OnReady
  <2>2. CASE ~OnReady(c)
    BY <2>2, ChannelQuiet
  <2> QED
    BY <2>1, <2>2
<1>3. \A m \in OrderRec : m.type \notin {"assign", "cancel"} => m \in OrderIn(V)
  BY DEF OrderIn
<1>4. down' \in [Conn -> Seq(OrderIn(V))]
  <2>1. CASE UNCHANGED down
    BY <2>1 DEF SpokenIn
  <2>2. ASSUME NEW m \in OrderRec, m.type \notin {"assign", "cancel"},
               down' = Sent(c, m)
        PROVE  down' \in [Conn -> Seq(OrderIn(V))]
    BY <1>3, <2>2, SentSays
  <2> QED
    BY <1>2, <2>1, <2>2
<1> QED
  BY <1>1, <1>4, QuietSpeaks

LEMMA AroundSpeaks ==
    ASSUME TypeOK, TypeOK', NEW V, SpokenIn(V),
           \/ \E j \in Job : Expire(j) \/ UserCancel(j)
           \/ Stop
           \/ Restart
    PROVE  SpokenIn(V)'
<1>1. UNCHANGED agent /\ \A k \in Conn : UpQuiet(k)
  BY SurroundingsQuiet DEF QuietStep, Quiet
<1>2. down' \in [Conn -> Seq(OrderIn(V))]
  <2>1. CASE Stop
    <3> DEFINE O == OrderIn(V)
    <3>1. CloseOrder \in O
      BY OrderTyped DEF OrderIn, CloseOrder, Order, OrderRec
    <3>2. down \in [Conn -> Seq(O)]
      BY DEF SpokenIn
    <3> HIDE DEF O
    <3>3. \A k \in Conn : Append(down[k], CloseOrder) \in Seq(O)
      BY <3>1, <3>2
    <3> QED
      BY <2>1, <3>2, <3>3 DEF Stop, O
  <2>2. CASE ~Stop
    BY <2>2 DEF Expire, UserCancel, Restart, SpokenIn
  <2> QED
    BY <2>1, <2>2
<1> QED
  BY <1>1, <1>2, QuietSpeaks

\* A runner tells its lease's agent to stop for a reason it, or the lease's
\* end, then stands for.
LEMMA TellSays ==
    ASSUME ClaimBase, NEW V, V = Words', [Next]_vars, NEW j \in Job,
           runner[j].pc \in Owning, NEW why \in Reason,
           lease'[j] # NoLease => Meant(runner'[j], lease'[j], why)
    PROVE  CancelOrder(j, lease[j].epoch, why) \in OrderIn(V)
<1> DEFINE e == row[j].epoch
           m == CancelOrder(j, lease[j].epoch, why)
<1>1. /\ JobOn(j) /\ lease[j].epoch = e /\ e \in Nat /\ row'[j].epoch \in Nat
  <2>1. /\ lease[j].epoch = e /\ e \in Nat
    BY DEF ClaimBase, LifeInv, FenceInv, Fence, TypeOK, Row
  <2>2. TypeOK'
    BY NextTyped DEF ClaimBase, LifeInv, FenceInv
  <2> QED
    BY <2>1, <2>2, NextOn DEF ClaimBase, TypeOK, Row
<1>2. e <= row'[j].epoch /\ (e = row'[j].epoch => runner'[j].pc # "claiming")
  BY <1>1 DEF JobOn, On, RowOn, Owning
<1>3. why \in Word \ {"refused"}
  BY DEF Word, Reason
<1>4. ASSUME NEW k \in Nat, k = e
      PROVE  why \in Said(j, k, V)
  BY <1>2, <1>3, <1>4, SaidAfter
<1>5. m \in OrderRec /\ m.job = j /\ m.epoch = e /\ m.why = why
  BY <1>1, OrdersQuiet
<1> HIDE DEF m, e
<1> QED
  BY <1>1, <1>4, <1>5 DEF OrderIn, Said, m

LEMMA OrdersSay ==
    ASSUME NEW V, NEW j \in Job, NEW e \in Nat
    PROVE  /\ CloseOrder \in OrderIn(V)
           /\ \A accepted \in BOOLEAN : VerdictOrder(j, e, accepted) \in OrderIn(V)
           /\ Order("assign", j, e, "none", 0) \in OrderIn(V)
<1>1. ASSUME NEW m \in OrderRec, m.type # "cancel"
      PROVE  m \in OrderIn(V)
  BY <1>1 DEF OrderIn
<1>2. /\ CloseOrder \in OrderRec /\ CloseOrder.type = "close"
      /\ \A accepted \in BOOLEAN : /\ VerdictOrder(j, e, accepted) \in OrderRec
                                   /\ VerdictOrder(j, e, accepted).type = "verdict"
  BY OrdersQuiet
<1>3. /\ Order("assign", j, e, "none", 0) \in OrderRec
      /\ Order("assign", j, e, "none", 0).type = "assign"
  <2>1. \A n \in Int : Order("assign", j, e, "none", 0) \in OrderRec
    BY OrderTyped
  <2>2. 0 \in Int
    OBVIOUS
  <2> QED
    BY <2>1, <2>2 DEF Order
<1> QED
  BY <1>1, <1>2, <1>3

\* The steps of a runner that send a `cancel`.
LEMMA CancelsSay ==
    ASSUME ClaimBase, NEW V, V = Words', NEW j \in Job, [Next]_vars,
           RunOrphan(j) \/ OnFeatures(j) \/ NoticeCancel(j) \/ RunnerPanics(j)
    PROVE  \/ UNCHANGED down
           \/ \E m \in OrderIn(V) : down' = Sent(lease[j].conn, m)
<1>1. /\ lease \in [Job -> LeaseRec] /\ runner \in [Job -> RunnerRec]
      /\ runner[j].pc \in Owning
  BY DEF ClaimBase, LifeInv, FenceInv, TypeOK, RunOrphan, OnFeatures,
     NoticeCancel, RunnerPanics, Received, At, Owning
<1>2. {"cancelled", "reroute", "lease_lost"} \subseteq Reason
  BY DEF Reason
<1>3. ASSUME NEW why \in Reason,
             down' = Sent(lease[j].conn, CancelOrder(j, lease[j].epoch, why)),
             lease'[j] # NoLease => Meant(runner'[j], lease'[j], why)
      PROVE  \E m \in OrderIn(V) : down' = Sent(lease[j].conn, m)
  BY <1>1, <1>3, TellSays
<1>4. CASE RunOrphan(j)
  <2>1. \/ UNCHANGED down
        \/ /\ down' = Sent(lease[j].conn,
                           CancelOrder(j, lease[j].epoch, "cancelled"))
           /\ lease' = [lease EXCEPT ![j] = NoLease]
    BY <1>4 DEF RunOrphan
  <2> QED
    BY <1>1, <1>2, <1>3, <2>1
<1>5. CASE OnFeatures(j)
  <2>1. \/ UNCHANGED down
        \/ \E target \in runner[j].class + 1 .. MaxClass :
             /\ runner' = [runner EXCEPT ![j] = [ReadOn(j) EXCEPT !.to = target]]
             /\ down' = Sent(lease[j].conn,
                             CancelOrder(j, lease[j].epoch, "reroute"))
    BY <1>5 DEF OnFeatures, Goes
  <2>2. ASSUME NEW target \in runner[j].class + 1 .. MaxClass,
               runner' = [runner EXCEPT ![j] = [ReadOn(j) EXCEPT !.to = target]]
        PROVE  runner'[j].to # NoClass
    <3>1. runner'[j] = [ReadOn(j) EXCEPT !.to = target]
      BY <1>1, <2>2
    <3>2. ReadOn(j) \in RunnerRec /\ runner[j].class \in Nat
      BY <1>1, ReadOnTyped, StoreAssumption
         DEF ClaimBase, LifeInv, FenceInv, RunnerRec, Class
    <3> QED
      BY <3>1, <3>2, StoreAssumption DEF RunnerRec, NoClass
  <2> QED
    BY <1>2, <1>3, <2>1, <2>2 DEF Meant
<1>6. CASE NoticeCancel(j)
  <2>1. /\ runner' = [runner EXCEPT ![j] = [runner[j] EXCEPT !.cancelSent = TRUE]]
        /\ down' = Sent(lease[j].conn,
                        CancelOrder(j, lease[j].epoch, "cancelled"))
    BY <1>6 DEF NoticeCancel, Goes
  <2>2. runner'[j].cancelSent
    BY <1>1, <2>1 DEF RunnerRec
  <2> QED
    BY <1>2, <1>3, <2>1, <2>2 DEF Meant
<1>7. CASE RunnerPanics(j)
  <2>1. /\ \/ UNCHANGED down
           \/ down' = Sent(lease[j].conn,
                           CancelOrder(j, lease[j].epoch, "lease_lost"))
        /\ lease' = [lease EXCEPT ![j] = NoLease]
    BY <1>7 DEF RunnerPanics
  <2> QED
    BY <1>1, <1>2, <1>3, <2>1
<1> QED
  BY <1>4, <1>5, <1>6, <1>7

\* The others send no `cancel`.
LEMMA RunnersSay ==
    ASSUME ClaimBase, NEW V, V = Words', NEW j \in Job, [Next]_vars,
           RunnerStep(j)
    PROVE  \/ UNCHANGED down
           \/ \E c \in Conn \cup {NoConn}, m \in OrderIn(V) : down' = Sent(c, m)
<1>1. TypeOK /\ lease[j].conn \in Conn \cup {NoConn} /\ lease[j].epoch \in Nat
      /\ runner[j].epoch \in Nat
  BY DEF ClaimBase, LifeInv, FenceInv, TypeOK, LeaseRec, RunnerRec
<1>2. CASE RunOrphan(j) \/ OnFeatures(j) \/ NoticeCancel(j) \/ RunnerPanics(j)
  BY <1>1, <1>2, CancelsSay
<1>3. CASE Claim(j)
  <2>1. \E c \in Conn :
          down' = Sent(c, Order("assign", j, runner[j].epoch, "none", 0))
    BY <1>3 DEF Claim
  <2> QED
    BY <1>1, <2>1, OrdersSay
<1>4. CASE ~(\/ RunOrphan(j) \/ OnFeatures(j) \/ NoticeCancel(j)
             \/ RunnerPanics(j) \/ Claim(j))
  <2>1. \/ UNCHANGED down
        \/ Verdict(j, TRUE) \/ Verdict(j, FALSE)
        \/ down' = Sent(lease[j].conn, CloseOrder)
    <3>1. CASE OnResult(j)
      BY <3>1 DEF OnResult, Registers
    <3>2. CASE ~OnResult(j)
      BY <1>4, <3>2 DEF RunnerStep, Start, GiveUp, SaveLeased, Publish,
         Registered, OnError, OnRelease, LetLeaseGo, FindExpired, EndLease,
         StoreRequeue
    <3> QED
      BY <3>1, <3>2
  <2>2. ASSUME NEW accepted \in BOOLEAN, Verdict(j, accepted)
        PROVE  \E m \in OrderIn(V) : down' = Sent(lease[j].conn, m)
    <3>1. down' = Sent(lease[j].conn, VerdictOrder(j, lease[j].epoch, accepted))
      BY <2>2 DEF Verdict
    <3> QED
      BY <1>1, <3>1, OrdersSay
  <2> QED
    BY <1>1, <2>1, <2>2, OrdersSay
<1> QED
  BY <1>2, <1>3, <1>4

LEMMA RunnerSpeaks ==
    ASSUME ClaimBase, NEW V, V = Words', SpokenIn(V), NEW j \in Job,
           [Next]_vars, RunnerStep(j)
    PROVE  SpokenIn(V)'
<1>1. TypeOK /\ TypeOK'
  BY NextTyped DEF ClaimBase, LifeInv, FenceInv
<1>2. UNCHANGED <<agent, up>>
  BY DEF RunnerStep, Start, Claim, GiveUp, SaveLeased, RunOrphan, OnFeatures,
     OnResult, Publish, Registered, OnError, OnRelease, NoticeCancel,
     LetLeaseGo, FindExpired, EndLease, StoreRequeue, RunnerPanics, hub
<1>3. down' \in [Conn -> Seq(OrderIn(V))]
  <2>1. CASE UNCHANGED down
    BY <2>1 DEF SpokenIn
  <2>2. ASSUME NEW c \in Conn \cup {NoConn}, NEW m \in OrderIn(V),
               down' = Sent(c, m)
        PROVE  down' \in [Conn -> Seq(OrderIn(V))]
    BY <2>2, SentSays
  <2> QED
    BY <2>1, <2>2, RunnersSay
<1> QED
  BY <1>2, <1>3 DEF SpokenIn

\* A step leaves what is said among what stands after it.
LEMMA NextSpeaks ==
    ASSUME ClaimBase, ClaimBase', ClaimsInv, WordsInv, [Next]_vars
    PROVE  SpokenIn(Words)'
<1>1. PICK V : V = Words'
  OBVIOUS
<1>2. /\ TypeOK /\ TypeOK' /\ Words \subseteq V /\ SpokenIn(Words)
      /\ LeasesIn(Words)
  BY <1>1, WordsStay DEF ClaimBase, LifeInv, FenceInv, WordsInv
<1>3. SpokenIn(V)
  BY <1>2, SpokenOn
<1>4. SpokenIn(V)'
  <2>1. CASE UNCHANGED vars
    BY <1>3, <2>1 DEF vars, SpokenIn
  <2>2. CASE \E a \in Agent : AgentStep(a)
    BY <1>1, <1>2, <1>3, <2>2, AgentSpeaks
  <2>3. CASE \E c \in Conn : ChannelStep(c)
    BY <1>2, <1>3, <2>3, ChannelSpeaks
  <2>4. CASE \E j \in Job : RunnerStep(j)
    BY <1>1, <1>3, <2>4, RunnerSpeaks
  <2>5. CASE (\E j \in Job : Expire(j) \/ UserCancel(j)) \/ Stop \/ Restart
    BY <1>2, <1>3, <2>5, AroundSpeaks
  <2> QED
    BY <2>1, <2>2, <2>3, <2>4, <2>5 DEF Next
<1> QED
  BY <1>1, <1>4 DEF SpokenIn

\* A step makes m of lease l, whose runner goes on as q: what the lease asked
\* of its agent is remembered, and only words of S join its events.
Remembers(l, m, q, S) ==
    \/ m.events = <<>> /\ ~m.cancelled /\ ~m.rerouting
    \/ /\ m.epoch = l.epoch
       /\ m.cancelled => l.cancelled \/ q.cancelSent
       /\ m.rerouting => l.rerouting \/ q.to # NoClass
       /\ \/ m.events = l.events
          \/ \E x \in S : /\ m.events = Append(l.events, x)
                          /\ x = "lease_lost" => q.adopted
RemembersAt(j, V) ==
    Remembers(lease[j], lease'[j], runner'[j], Said(j, lease[j].epoch, V))
Alike(l, m) == /\ m.epoch = l.epoch /\ m.events = l.events
               /\ m.cancelled = l.cancelled /\ m.rerouting = l.rerouting

LEMMA AlikeForms ==
    ASSUME NEW l \in LeaseRec
    PROVE  /\ Alike(l, l)
           /\ \A c : Alike(l, [l EXCEPT !.conn = c])
           /\ \A time : Alike(l, [l EXCEPT !.time = time])
           /\ \A time, hot : Alike(l, [l EXCEPT !.time = time, !.hot = hot])
           /\ Alike(l, [l EXCEPT !.uploads = TRUE])
           /\ \A m : Alike(l, m) => \A q, S : Remembers(l, m, q, S)
BY DEF LeaseRec, Alike, Remembers

LEMMA NewRemembers ==
    ASSUME NEW l, NEW q, NEW S, NEW c, NEW a, NEW e
    PROVE  Remembers(l, NewLease(c, a, e), q, S) /\ Remembers(l, NoLease, q, S)
BY DEF Remembers, NewLease, NoLease

LEMMA OneRemembers ==
    ASSUME TypeOK, NEW V, NEW j \in Job, NEW m,
           lease' = [lease EXCEPT ![j] = m],
           Remembers(lease[j], m, runner'[j], Said(j, lease[j].epoch, V))
    PROVE  \A k \in Job : RemembersAt(k, V)
<1>1. \A k \in Job : /\ lease'[k] = IF k = j THEN m ELSE lease[k]
                     /\ lease[k] \in LeaseRec
  BY DEF TypeOK
<1>2. ASSUME NEW k \in Job, k # j PROVE RemembersAt(k, V)
  <2>1. lease'[k] = lease[k] /\ lease[k] \in LeaseRec
    BY <1>1, <1>2
  <2>2. \A q, S : Remembers(lease[k], lease[k], q, S)
    BY <2>1, AlikeForms
  <2> QED
    BY <2>1, <2>2 DEF RemembersAt
<1>3. RemembersAt(j, V)
  BY <1>1 DEF RemembersAt
<1> QED
  BY <1>2, <1>3

LEMMA LeasesRemember ==
    ASSUME TypeOK, NEW V, UNCHANGED lease
    PROVE  \A k \in Job : RemembersAt(k, V)
<1>1. ASSUME NEW k \in Job PROVE RemembersAt(k, V)
  <2>1. lease'[k] = lease[k] /\ lease[k] \in LeaseRec
    BY DEF TypeOK
  <2>2. \A q, S : Remembers(lease[k], lease[k], q, S)
    BY <2>1, AlikeForms
  <2> QED
    BY <2>1, <2>2 DEF RemembersAt
<1> QED
  BY <1>1

\* What is remembered has been asked for, after the step as before.
LEMMA RemembersOn ==
    ASSUME ClaimBase, ClaimBase', [Next]_vars, NEW V, Words \subseteq V,
           NEW j \in Job, RemembersAt(j, V),
           LeaseIn(lease[j], runner[j], j, Words)
    PROVE  LeaseIn(lease'[j], runner'[j], j, V)
<1> DEFINE l == lease[j]
           m == lease'[j]
           r == runner[j]
           q == runner'[j]
<1>1. /\ JobOn(j) /\ (l # NoLease => r.pc \in Owning)
      /\ r.adopted \in BOOLEAN /\ q.adopted \in BOOLEAN
      /\ (m # NoLease => m.epoch > 0)
  <2>1. /\ l # NoLease => r.pc \in Owning
        /\ m # NoLease => m.epoch > 0
    BY DEF ClaimBase, LifeInv, FenceInv, Fence, EpochsGiven, Held
  <2>2. r \in RunnerRec /\ q \in RunnerRec
    BY DEF ClaimBase, LifeInv, FenceInv, TypeOK
  <2> QED
    BY <2>1, <2>2, NextOn DEF ClaimBase, RunnerRec
<1> DEFINE S(p, n) == {x \in Said(j, n, V) : x = "lease_lost" => p.adopted}
<1>2. ASSUME m.events = <<>>, ~m.cancelled, ~m.rerouting
      PROVE  LeaseIn(m, q, j, V)
  <2>1. \A T : <<>> \in Seq(T)
    OBVIOUS
  <2> HIDE DEF m, q
  <2> QED
    BY <1>2, <2>1 DEF LeaseIn
<1>3. ASSUME m.epoch = l.epoch,
             m.cancelled => l.cancelled \/ q.cancelSent,
             m.rerouting => l.rerouting \/ q.to # NoClass,
             \/ m.events = l.events
             \/ \E x \in Said(j, l.epoch, V) :
                  /\ m.events = Append(l.events, x)
                  /\ x = "lease_lost" => q.adopted
      PROVE  LeaseIn(m, q, j, V)
  <2>1. CASE m = NoLease
    <3>1. m.events = <<>> /\ ~m.cancelled /\ ~m.rerouting
      BY <2>1 DEF NoLease, NewLease
    <3> QED
      BY <1>2, <3>1
  <2>2. CASE m # NoLease
    <3>1. l # NoLease
      BY <1>1, <1>3, <2>2 DEF NoLease, NewLease
    <3>2. \/ RunnerOn(r, q)
          \/ q.adopted
      BY <1>1, <2>2, <3>1 DEF JobOn, On, GivenOut, Adopted, Owning
    <3>3. r.adopted => q.adopted
      BY <3>2 DEF RunnerOn
    <3>4. /\ l.cancelled => r.adopted \/ r.cancelSent
          /\ l.rerouting => r.adopted \/ r.to # NoClass
          /\ l.events \in Seq({x \in Said(j, l.epoch, Words) :
                                 x = "lease_lost" => r.adopted})
      BY DEF LeaseIn
    <3>5. {x \in Said(j, l.epoch, Words) : x = "lease_lost" => r.adopted}
            \subseteq S(q, l.epoch)
      BY <3>3, MoreSaid
    <3> HIDE DEF l, m, q, r, S
    <3>6. l.events \in Seq(S(q, l.epoch))
      BY <3>4, <3>5, SeqGrows
    <3>7. m.events \in Seq(S(q, l.epoch))
      <4>1. ASSUME NEW x \in Said(j, l.epoch, V),
                   x = "lease_lost" => q.adopted
            PROVE  Append(l.events, x) \in Seq(S(q, l.epoch))
        <5>1. x \in S(q, l.epoch)
          BY <4>1 DEF S
        <5> QED
          BY <3>6, <5>1
      <4> QED
        BY <1>3, <3>6, <4>1
    <3>8. /\ m.cancelled => q.adopted \/ q.cancelSent
          /\ m.rerouting => q.adopted \/ q.to # NoClass
      BY <1>3, <3>2, <3>3, <3>4 DEF RunnerOn
    <3> QED
      BY <1>3, <3>7, <3>8 DEF LeaseIn, S
  <2> QED
    BY <2>1, <2>2
<1> QED
  BY <1>2, <1>3 DEF RemembersAt, Remembers

LEMMA ChannelRemembers ==
    ASSUME ClaimBase, NEW V, Words \subseteq V, SpokenIn(Words),
           NEW c \in Conn, ChannelStep(c)
    PROVE  \A k \in Job : RemembersAt(k, V)
<1> DEFINE f == Head(up[c])
           l == lease[f.job]
           heeded == l.agent = conn[c].agent /\ l.epoch = f.epoch /\ l.time # "lost"
<1>1. TypeOK /\ FenceInv
  BY DEF ClaimBase, LifeInv, FenceInv
<1>2. ASSUME NEW type \in {"event", "released"}, Gets(c, type), Took(c)
      PROVE  /\ f \in FrameRec /\ f.type = type /\ f.job \in Job /\ f.epoch \in Nat
             /\ <<f.job, f.epoch, f.ev>> \in Words /\ l \in LeaseRec
  <2>1. f \in FrameRec /\ f.type = type /\ up[c] # <<>>
    BY <1>1, <1>2, GetsTyped DEF Gets
  <2>2. up[c] \in Seq(FrameIn(Words))
    BY DEF SpokenIn
  <2> DEFINE F == FrameIn(Words)
  <2> HIDE DEF F
  <2>3. Head(up[c]) \in F
    BY <2>1, <2>2 DEF F
  <2>4. f.job \in Job /\ f.epoch \in Nat
    BY <2>1, FrameKinds
  <2> QED
    BY <1>1, <2>1, <2>3, <2>4 DEF F, FrameIn, TypeOK
<1>3. CASE RemoveConn(c)
  <2>1. lease' = [j \in Job |-> IF lease[j].conn \in {c}
                                THEN [lease[j] EXCEPT !.conn = NoConn]
                                ELSE lease[j]]
    BY <1>3 DEF RemoveConn, Detached
  <2>2. ASSUME NEW k \in Job PROVE Alike(lease[k], lease'[k])
    BY <1>1, <2>1, AlikeForms DEF TypeOK
  <2>3. ASSUME NEW k \in Job PROVE RemembersAt(k, V)
    BY <1>1, <2>2, AlikeForms DEF TypeOK, RemembersAt
  <2> QED
    BY <2>3
<1>4. CASE OnHeartbeat(c) /\ Current(c, f)
  <2>1. f.job \in Job
    BY <1>1, <1>4, GetsTyped, FrameKinds DEF OnHeartbeat
  <2> DEFINE m == [l EXCEPT !.time = "live", !.hot = (f.ev = "hot")]
  <2>2. l \in LeaseRec
    BY <1>1, <2>1 DEF TypeOK
  <2>3. Alike(l, m)
    BY <2>2, AlikeForms
  <2>4. lease' = [lease EXCEPT ![f.job] = m]
    BY <1>1, <1>4, <2>1 DEF OnHeartbeat, TypeOK
  <2> HIDE DEF m
  <2>5. \A q, S : Remembers(l, m, q, S)
    BY <2>2, <2>3, AlikeForms
  <2> HIDE DEF f
  <2> QED
    BY <1>1, <2>1, <2>4, <2>5, OneRemembers
<1>5. CASE OnNextEvent(c)
  <2> DEFINE ends == f.ev \in Terminal
             renewed == [l EXCEPT !.next = @ + 1, !.time = "live",
                                  !.finished = @ \/ ends]
             told == [renewed EXCEPT !.result = (f.ev = "result"),
                                     !.events = Append(@, f.ev)]
  <2>1. /\ f.job \in Job /\ l.epoch = f.epoch /\ l \in LeaseRec
        /\ f.ev \in Said(f.job, f.epoch, V) /\ f.ev # "lease_lost"
    <3>1. Gets(c, "event") /\ Took(c) /\ Current(c, f)
      BY <1>5, Zenon DEF OnNextEvent
    <3>2. /\ f \in FrameRec /\ f.type = "event" /\ f.job \in Job
          /\ <<f.job, f.epoch, f.ev>> \in V /\ l \in LeaseRec
      BY <1>2, <3>1
    <3>3. f.ev \in JobEvent
      BY <3>2, FrameKinds
    <3> HIDE DEF f
    <3> QED
      BY <3>1, <3>2, <3>3 DEF Current, Said, Word, JobEvent, Terminal
  <2>2. PICK m \in {[renewed EXCEPT !.finished = TRUE], renewed, told} :
          lease' = [lease EXCEPT ![f.job] = m]
    BY <1>5 DEF OnNextEvent
  <2> HIDE DEF f
  <2>3. Remembers(l, m, runner'[f.job], Said(f.job, l.epoch, V))
    <3>1. CASE m # told
      BY <2>1, <2>2, <3>1 DEF LeaseRec, Remembers
    <3>2. CASE m = told
      <4>1. /\ m.epoch = l.epoch /\ m.cancelled = l.cancelled
            /\ m.rerouting = l.rerouting /\ m.events = Append(l.events, f.ev)
        BY <2>1, <3>2 DEF LeaseRec
      <4> QED
        BY <2>1, <4>1 DEF Remembers
    <3> QED
      BY <3>1, <3>2
  <2> QED
    BY <1>1, <2>1, <2>2, <2>3, OneRemembers
<1>6. CASE OnReleased(c) /\ heeded
  <2> DEFINE m == [l EXCEPT !.finished = TRUE, !.events = Append(@, f.ev)]
  <2>1. Gets(c, "released") /\ Took(c) /\ UNCHANGED runner
    BY <1>6, Zenon DEF OnReleased, jobs
  <2>2. /\ f.job \in Job /\ f.epoch \in Nat /\ l \in LeaseRec
        /\ <<f.job, f.epoch, f.ev>> \in Words
    BY <1>2, <2>1
  <2>3. lease' = [lease EXCEPT ![f.job] = m]
    BY <1>1, <1>6, <2>2 DEF OnReleased, TypeOK
  <2> HIDE DEF f
  <2>4. f.ev \in Said(f.job, l.epoch, V)
    <3>1. f.ev \in Word
      BY <2>2 DEF Words
    <3> QED
      BY <1>6, <2>2, <3>1 DEF Said
  <2>5. f.ev = "lease_lost" => runner[f.job].adopted
    <3>1. Held(f.job)
      BY <1>1, <1>6, <2>1, <2>2, FoundHeld DEF Gets
    <3>2. Stands(f.job, f.epoch, f.ev)
      BY <2>2 DEF Words
    <3> QED
      BY <1>6, <3>1, <3>2 DEF Stands, Meant
  <2>6. Remembers(l, m, runner'[f.job], Said(f.job, l.epoch, V))
    <3>1. /\ m.epoch = l.epoch /\ m.cancelled = l.cancelled
          /\ m.rerouting = l.rerouting /\ m.events = Append(l.events, f.ev)
      BY <2>2 DEF LeaseRec
    <3> QED
      BY <2>1, <2>4, <2>5, <3>1 DEF Remembers
  <2> HIDE DEF m
  <2> QED
    BY <1>1, <2>2, <2>3, <2>6, OneRemembers
<1>7. CASE UNCHANGED lease
  BY <1>1, <1>7, LeasesRemember
<1>8. CASE \/ OnReady(c) \/ OnStaleEvent(c)
           \/ OnHeartbeat(c) /\ ~Current(c, f)
           \/ OnReleased(c) /\ ~heeded
  BY <1>7, <1>8 DEF OnReady, OnStaleEvent, OnHeartbeat, OnReleased, hub
<1> QED
  BY <1>3, <1>4, <1>5, <1>6, <1>8 DEF ChannelStep

LEMMA RunnerRemembers ==
    ASSUME ClaimBase, NEW V, NEW j \in Job, RunnerStep(j)
    PROVE  \A k \in Job : RemembersAt(k, V)
<1> DEFINE l == lease[j]
<1>1. TypeOK /\ l \in LeaseRec /\ runner[j] \in RunnerRec
      /\ ReadOn(j) \in RunnerRec
  BY Known DEF ClaimBase
<1>2. CASE UNCHANGED lease
  BY <1>1, <1>2, LeasesRemember
<1>3. ASSUME NEW c, NEW a, NEW e,
             \/ lease' = [lease EXCEPT ![j] = NewLease(c, a, e)]
             \/ lease' = [lease EXCEPT ![j] = NoLease]
      PROVE  \A k \in Job : RemembersAt(k, V)
  BY <1>1, <1>3, NewRemembers, OneRemembers
<1>4. CASE OnFeatures(j) /\ ~UNCHANGED lease
  <2> DEFINE m == [l EXCEPT !.rerouting = TRUE]
  <2>1. /\ lease' = [lease EXCEPT ![j] = m]
        /\ \E target \in runner[j].class + 1 .. MaxClass :
             runner' = [runner EXCEPT ![j] = [ReadOn(j) EXCEPT !.to = target]]
    BY <1>1, <1>4 DEF OnFeatures, Goes, TypeOK
  <2>2. runner'[j].to # NoClass
    BY <1>1, <2>1, LeaseAssumption DEF TypeOK, RunnerRec, NoClass, Class
  <2>3. Remembers(l, m, runner'[j], Said(j, l.epoch, V))
    BY <1>1, <2>2 DEF LeaseRec, Remembers
  <2> HIDE DEF m
  <2> QED
    BY <1>1, <2>1, <2>3, OneRemembers
<1>5. CASE NoticeCancel(j)
  <2> DEFINE m == [l EXCEPT !.cancelled = TRUE]
  <2>1. /\ lease' = [lease EXCEPT ![j] = m]
        /\ runner' = [runner EXCEPT ![j] = [runner[j] EXCEPT !.cancelSent = TRUE]]
    BY <1>1, <1>5 DEF NoticeCancel, Goes, TypeOK
  <2>2. runner'[j].cancelSent
    BY <1>1, <2>1 DEF TypeOK, RunnerRec
  <2>3. Remembers(l, m, runner'[j], Said(j, l.epoch, V))
    BY <1>1, <2>2 DEF LeaseRec, Remembers
  <2> HIDE DEF m
  <2> QED
    BY <1>1, <2>1, <2>3, OneRemembers
<1>6. CASE FindExpired(j)
  <2> DEFINE m == [l EXCEPT !.time = "lost"]
  <2>1. lease' = [lease EXCEPT ![j] = m]
    BY <1>1, <1>6 DEF FindExpired, TypeOK
  <2>2. \A q, S : Remembers(l, m, q, S)
    BY <1>1, AlikeForms
  <2> HIDE DEF m
  <2> QED
    BY <1>1, <2>1, <2>2, OneRemembers
<1>7. CASE Claim(j)
  BY <1>3, <1>7 DEF Claim
<1>8. CASE RunOrphan(j) \/ EndLease(j) \/ RunnerPanics(j)
  BY <1>2, <1>3, <1>8 DEF RunOrphan, EndLease, RunnerPanics
<1>9. CASE \/ Start(j) \/ GiveUp(j) \/ SaveLeased(j) \/ OnResult(j)
           \/ Publish(j) \/ Registered(j) \/ OnError(j) \/ OnRelease(j)
           \/ LetLeaseGo(j) \/ StoreRequeue(j)
  BY <1>2, <1>9 DEF Start, GiveUp, SaveLeased, OnResult, Publish, Registered,
     OnError, OnRelease, LetLeaseGo, StoreRequeue, hub
<1> QED
  BY <1>2, <1>4, <1>5, <1>6, <1>7, <1>8, <1>9 DEF RunnerStep

LEMMA AgentRemembers ==
    ASSUME TypeOK, NEW V, NEW a \in Agent, AgentStep(a)
    PROVE  \A k \in Job : RemembersAt(k, V)
<1>1. ASSUME \A k \in Job : Alike(lease[k], lease'[k])
      PROVE  \A k \in Job : RemembersAt(k, V)
  BY <1>1, AlikeForms DEF TypeOK, RemembersAt
<1>2. CASE \/ JobProgress(a) \/ JobFinished(a) \/ JobKilled(a) \/ HoldExpires(a)
           \/ Heartbeat(a) \/ OnOrder(a) \/ Disconnect(a) \/ AgentCrash(a)
  <2>1. UNCHANGED lease
    BY <1>2 DEF JobProgress, JobFinished, JobKilled, HoldExpires, Heartbeat,
                OnOrder, Disconnect, AgentCrash, hub
  <2> QED
    BY <2>1, LeasesRemember
<1>3. CASE Upload(a)
  <2>1. \/ UNCHANGED lease
        \/ lease' = [lease EXCEPT ![agent[a].cur.job].uploads = TRUE]
    BY <1>3 DEF Upload
  <2>2. lease' = [lease EXCEPT ![agent[a].cur.job].uploads = TRUE]
        => \A k \in Job : \/ lease'[k] = lease[k]
                          \/ lease'[k] = [lease[k] EXCEPT !.uploads = TRUE]
    BY DEF TypeOK
  <2>3. ASSUME NEW k \in Job PROVE Alike(lease[k], lease'[k])
    <3>1. lease[k] \in LeaseRec
      BY DEF TypeOK
    <3>2. /\ Alike(lease[k], lease[k])
          /\ Alike(lease[k], [lease[k] EXCEPT !.uploads = TRUE])
      BY <3>1, AlikeForms
    <3> QED
      BY <2>1, <2>2, <3>2
  <2> QED
    BY <1>1, <2>3
<1>4. CASE Connect(a)
  <2> DEFINE s == agent[a]
             c == nextConn
             j == s.cur.job
             lease1 == Detached(Evicted(a))
             answer == IF Runs(s)
                       THEN ResumeAnswer(a, j, s.cur.epoch, lease1[j])
                       ELSE "none"
  <2>1. lease' = IF answer = "none" THEN lease1
                 ELSE [lease1 EXCEPT ![j] = AfterResume(@, answer, c)]
    BY <1>4 DEF Connect
  <2>2. lease1 \in [Job -> LeaseRec] /\ Evicted(a) \in SUBSET Conn
    BY DetachedTyped DEF Evicted
  <2>3. \A k \in Job : Alike(lease[k], lease1[k])
    BY AlikeForms DEF Detached, TypeOK
  <2>4. \A k \in Job : Alike(lease1[k], AfterResume(lease1[k], answer, c))
    BY <2>2, AlikeForms DEF AfterResume
  <2> HIDE DEF lease1, answer, c, j
  <2>5. \A k \in Job : \/ lease'[k] = lease1[k]
                       \/ lease'[k] = AfterResume(lease1[k], answer, c)
    BY <2>1, <2>2
  <2>6. \A k \in Job : Alike(lease[k], lease'[k])
    BY <2>3, <2>4, <2>5 DEF Alike
  <2> QED
    BY <1>1, <2>6
<1> QED
  BY <1>2, <1>3, <1>4 DEF AgentStep

\* What a lease remembers has been asked for and said.
LEMMA NextLeases ==
    ASSUME ClaimBase, ClaimBase', WordsInv, [Next]_vars
    PROVE  LeasesIn(Words)'
<1>1. PICK V : V = Words'
  OBVIOUS
<1>2. /\ TypeOK /\ Words \subseteq V /\ SpokenIn(Words) /\ LeasesIn(Words)
  BY <1>1, WordsStay DEF ClaimBase, LifeInv, FenceInv, WordsInv
<1>3. \A k \in Job : RemembersAt(k, V)
  <2>1. CASE UNCHANGED lease
    BY <1>2, <2>1, LeasesRemember
  <2>2. CASE \E j \in Job : Expire(j)
    <3>1. PICK j \in Job : Expire(j)
      BY <2>2
    <3> DEFINE m == [lease[j] EXCEPT !.time = "due"]
    <3>2. lease' = [lease EXCEPT ![j] = m]
      BY <1>2, <3>1 DEF Expire, TypeOK
    <3>3. \A q, S : Remembers(lease[j], m, q, S)
      BY <1>2, AlikeForms DEF TypeOK
    <3> HIDE DEF m
    <3> QED
      BY <1>2, <3>2, <3>3, OneRemembers
  <2>3. CASE Restart
    BY <2>3, RestartParts, NewRemembers DEF RemembersAt
  <2>4. CASE (\E j \in Job : UserCancel(j)) \/ Stop \/ UNCHANGED vars
    BY <2>1, <2>4 DEF UserCancel, Stop, vars, hub
  <2> QED
    BY <1>2, <2>2, <2>3, <2>4, AgentRemembers, ChannelRemembers,
       RunnerRemembers DEF Next
<1>4. \A k \in Job : LeaseIn(lease'[k], runner'[k], k, V)
  BY <1>2, <1>3, RemembersOn DEF LeasesIn
<1> QED
  BY <1>1, <1>4 DEF LeasesIn

\* What a runner reads of its lease has been said, and asked for.
LEMMA EventMeant ==
    ASSUME ClaimBase, WordsInv, NEW j \in Job, Received(j)
    PROVE  /\ Event(j) # "refused" /\ Meant(runner[j], lease[j], Event(j))
           /\ Event(j) = "lease_lost" => runner[j].adopted
<1> DEFINE l == lease[j]
           r == runner[j]
           ev == Event(j)
           S == {x \in Said(j, l.epoch, Words) : x = "lease_lost" => r.adopted}
           n == r.read + 1
<1>1. l \in LeaseRec /\ r \in RunnerRec /\ LeaseIn(l, r, j, Words)
  BY Known DEF ClaimBase, WordsInv, LeasesIn
<1>2. l.events \in Seq(S) /\ n \in 1 .. Len(l.events)
  BY <1>1 DEF LeaseIn, Received, RunnerRec, LeaseRec
<1> HIDE DEF S, n
<1>3. l.events[n] \in S
  BY <1>2
<1>4. ev \in Said(j, l.epoch, Words) /\ (ev = "lease_lost" => r.adopted)
  BY <1>3 DEF S, n, Event
<1>5. Stands(j, l.epoch, ev)
  <2> HIDE DEF l, ev
  <2> QED
    BY <1>4 DEF Said, Words
<1>6. Held(j)
  <2>1. r.pc \in Owning
    BY DEF Received, At, Owning
  <2> QED
    BY <2>1 DEF ClaimBase, LifeInv, FenceInv, Fence
<1> QED
  BY <1>4, <1>5, <1>6 DEF Stands

\* How a job that fails by its runner's step came to fail.
LEMMA FailsFor ==
    ASSUME ClaimBase, WordsInv, NEW j \in Job, RunnerStep(j),
           runner[j].adopted => restarts > 0
    PROVE  /\ \A k \in Job \ {j} : outcome'[k] = outcome[k]
           /\ outcome'[j] \notin {"refused", "invalid"}
           /\ outcome'[j] = "unasked" => restarts > 0
<1> DEFINE l == lease[j]
           r == runner[j]
           ev == Event(j)
<1>1. /\ TypeOK /\ l \in LeaseRec /\ r \in RunnerRec
      /\ outcome \in [Job -> Outcome] /\ ReadOn(j) \in RunnerRec
      /\ outcome[j] \notin {"refused", "invalid"}
      /\ outcome[j] = "unasked" => restarts > 0
      /\ r.adopted => restarts > 0
  BY Known DEF ClaimBase, WordsInv, Fates, TypeOK
<1>2. ASSUME UNCHANGED outcome
      PROVE  /\ \A k \in Job \ {j} : outcome'[k] = outcome[k]
             /\ outcome'[j] \notin {"refused", "invalid"}
             /\ outcome'[j] = "unasked" => restarts > 0
  BY <1>1, <1>2
<1>3. ASSUME NEW status, NEW how, Ends(j, status, how),
             how \notin {"refused", "invalid"}, how = "unasked" => restarts > 0
      PROVE  /\ \A k \in Job \ {j} : outcome'[k] = outcome[k]
             /\ outcome'[j] \notin {"refused", "invalid"}
             /\ outcome'[j] = "unasked" => restarts > 0
  BY <1>1, <1>3 DEF Ends
<1>4. Received(j) => /\ ev # "refused" /\ Meant(r, l, ev)
                     /\ ev = "lease_lost" => r.adopted
  BY EventMeant
<1>5. CASE OnResult(j)
  <2>1. Received(j) /\ ev = "result"
    BY <1>5 DEF OnResult
  <2>2. r.adopted \/ l.uploads
    BY <1>4, <2>1 DEF Meant
  <2>3. UNCHANGED outcome
    BY <1>5, <2>2 DEF OnResult, LacksUploads
  <2> QED
    BY <1>2, <2>3
<1>6. CASE OnError(j)
  <2>1. Received(j) /\ ev \in Terminal \ {"result"} /\ Ends(j, "failed", ev)
    BY <1>6 DEF OnError
  <2>2. ev \notin {"refused", "invalid", "unasked"}
    BY <1>4, <2>1 DEF Terminal
  <2> HIDE DEF ev
  <2> QED
    BY <1>3, <2>1, <2>2
<1>7. CASE OnRelease(j)
  <2>1. /\ Received(j)
        /\ \/ UNCHANGED outcome
           \/ Ends(j, "failed", "oom")
           \/ /\ ~ReadOn(j).cancelSent /\ ev \in {"cancelled", "lease_lost"}
              /\ Ends(j, "failed", "unasked")
    BY <1>7 DEF OnRelease
  <2>2. ReadOn(j).cancelSent = r.cancelSent
    BY <1>1 DEF ReadOn, RunnerRec
  <2>3. ~r.cancelSent /\ ev \in {"cancelled", "lease_lost"} => restarts > 0
    BY <1>1, <1>4, <2>1 DEF Meant
  <2> QED
    BY <1>2, <1>3, <2>1, <2>2, <2>3
<1>8. CASE Publish(j)
  BY <1>2, <1>3, <1>8 DEF Publish
<1>9. CASE Registered(j)
  BY <1>3, <1>9 DEF Registered
<1>10. CASE StoreRequeue(j)
  BY <1>2, <1>3, <1>10 DEF StoreRequeue
<1>11. CASE RunnerPanics(j)
  BY <1>3, <1>11 DEF RunnerPanics
<1>12. CASE \/ Start(j) \/ Claim(j) \/ GiveUp(j) \/ SaveLeased(j) \/ RunOrphan(j)
            \/ OnFeatures(j) \/ NoticeCancel(j) \/ LetLeaseGo(j)
            \/ FindExpired(j) \/ EndLease(j)
  BY <1>2, <1>12 DEF Start, Claim, GiveUp, SaveLeased, RunOrphan, OnFeatures,
     NoticeCancel, LetLeaseGo, FindExpired, EndLease
<1> QED
  BY <1>5, <1>6, <1>7, <1>8, <1>9, <1>10, <1>11, <1>12 DEF RunnerStep

-----------------------------------------------------------------------------
\* How often a job is tried.

\* A re-queue or a move to another class lies ahead of the runner.
Returning(r) == r.pc = "requeue" \/ (r.pc = "ending" /\ r.after = "requeue")

\* A runner goes to no smaller class than its row is bound to, and returns
\* its job to the same class uncounted only after a restart.
RunsAt(r, w) ==
    /\ r.to = NoClass \/ r.to > w.class
    /\ Returning(r) /\ ~r.counted /\ r.to = NoClass => r.adopted
    /\ r.pc \in {"claiming", "leased", "running"} => r.class >= w.class

\* The attempts row w may have had: each class below the row's own used up
\* its retries, and every restart may have given one more.
Tries(w, n) == w.class * (Retries + 1) + w.lost + n

TriesAt(r, w, n) ==
    /\ r.adopted => n > 0
    /\ w.lost <= Retries
    /\ w.epoch <= Tries(w, n) + 1
    /\ r.pc = "queued" \/ r.adopted => w.epoch <= Tries(w, n)
TriesInv == \A j \in Job : /\ TriesAt(runner[j], row[j], restarts)
                           /\ RunsAt(runner[j], row[j])

\* What a runner's step makes of the runner.
LEMMA RunnerTries ==
    ASSUME ClaimBase, WordsInv, NEW j \in Job, RunnerStep(j),
           RunsAt(runner[j], row[j])
    PROVE  /\ runner'[j].adopted => runner[j].adopted /\ runner[j].pc # "queued"
           /\ runner'[j].pc = "queued" => Returned(j)
           /\ \/ runner'[j] = [Fresh EXCEPT !.pc = runner'[j].pc]
                 /\ runner'[j].pc \in {"queued", "gone"}
              \/ ~Returned(j) /\ RunsAt(runner'[j], row[j])
<1> DEFINE r == runner[j]
           q == runner'[j]
           w == row[j]
           s == ReadOn(j)
<1>1. /\ TypeOK /\ r \in RunnerRec /\ w \in Row /\ s \in RunnerRec
      /\ runner \in [Job -> RunnerRec] /\ lease[j] \in LeaseRec
  BY Known DEF ClaimBase, TypeOK
<1>2. /\ s.pc = r.pc /\ s.adopted = r.adopted /\ s.to = r.to
      /\ s.class = r.class /\ s.counted = r.counted /\ s.after = r.after
      /\ s.cancelSent = r.cancelSent
  BY <1>1 DEF ReadOn, RunnerRec
<1>3. \A p : Goes(j, p) => q = p
  BY <1>1 DEF Goes
<1>4. w.class \in Nat /\ r.class \in Nat /\ MaxClass \in Nat
      /\ r.to \in Nat \cup {-1} /\ r.adopted \in BOOLEAN /\ NoClass = -1
  BY <1>1, StoreAssumption DEF Row, RunnerRec, Class, NoClass
<1>5. r.pc # "requeue" => ~Returned(j)
  BY DEF Returned
<1>6. Received(j) => r.pc = "running" /\ Meant(r, lease[j], Event(j))
  BY EventMeant DEF Received, At
<1> DEFINE Kept == /\ q.adopted => r.adopted /\ r.pc # "queued"
                   /\ q.pc # "queued" /\ RunsAt(q, w)
<1>7. ASSUME r.pc # "requeue", Kept
      PROVE  /\ q.adopted => r.adopted /\ r.pc # "queued"
             /\ q.pc = "queued" => Returned(j)
             /\ \/ q = [Fresh EXCEPT !.pc = q.pc] /\ q.pc \in {"queued", "gone"}
                \/ ~Returned(j) /\ RunsAt(q, w)
  BY <1>5, <1>7
<1>8. ASSUME NEW p \in {r, s}, NEW close, r.pc # "queued",
             Goes(j, Ending(p, close, "gone"))
      PROVE  Kept
  <2>1. /\ q.pc = "ending" /\ q.after = "gone" /\ q.to = p.to
        /\ q.adopted = p.adopted
    <3>1. p \in RunnerRec
      BY <1>1, <1>8
    <3>2. q = [p EXCEPT !.pc = "ending", !.close = close, !.after = "gone"]
      BY <1>3, <1>8 DEF Ending
    <3> HIDE DEF q, r, s
    <3> QED
      BY <3>1, <3>2 DEF RunnerRec
  <2>2. q.to = r.to /\ q.adopted = r.adopted
    BY <1>2, <2>1
  <2> HIDE DEF q, r, w, s
  <2> QED
    BY <1>8, <2>1, <2>2 DEF RunsAt, Returning, q, r, w, Kept
<1>9. ASSUME NEW p \in {r, s}, NEW close, NEW counted, NEW to, r.pc # "queued",
             Goes(j, Requeueing(p, close, counted, to)),
             to = NoClass \/ to > w.class, ~counted /\ to = NoClass => r.adopted
      PROVE  Kept
  <2>1. /\ q.pc = "ending" /\ q.to = to /\ q.counted = counted
        /\ q.adopted = p.adopted
    <3> DEFINE e == Ending(p, close, "requeue")
    <3>1. p \in RunnerRec
      BY <1>1, <1>9
    <3>2. /\ e = [p EXCEPT !.pc = "ending", !.close = close, !.after = "requeue"]
          /\ q = [e EXCEPT !.counted = counted, !.to = to]
      BY <1>3, <1>9 DEF Requeueing, Ending
    <3> HIDE DEF e, q, r, s
    <3> QED
      BY <3>1, <3>2 DEF RunnerRec
  <2>2. q.adopted = r.adopted
    BY <1>2, <2>1
  <2> HIDE DEF q, r, w, s
  <2>3. q.to = NoClass \/ q.to > w.class
    BY <1>9, <2>1
  <2>4. ~q.counted /\ q.to = NoClass => q.adopted
    BY <1>9, <2>1, <2>2
  <2> QED
    BY <1>9, <2>1, <2>2, <2>3, <2>4 DEF RunsAt, Kept
<1>10. ASSUME NEW p \in {r, s}, NEW pc, r.pc # "queued",
              Goes(j, [p EXCEPT !.pc = pc]),
              pc \notin {"queued", "ending", "requeue", "claiming"},
              pc \in {"leased", "running"}
                => r.pc \in {"claiming", "leased", "running"}
       PROVE  Kept
  BY <1>1, <1>2, <1>3, <1>10 DEF RunnerRec, RunsAt, Returning
<1>11. CASE Start(j)
  <2>1. PICK class \in w.class .. MaxClass :
          q = [Fresh EXCEPT !.pc = "claiming", !.class = class,
                            !.epoch = BeginAttempt(w).epoch]
    BY <1>3, <1>11 DEF Start
  <2>2. q.pc = "claiming" /\ q.class = class /\ ~q.adopted /\ q.to = NoClass
    BY <2>1 DEF Fresh
  <2>3. Kept
    BY <1>4, <2>1, <2>2 DEF RunsAt, Returning
  <2>4. r.pc # "requeue"
    BY <1>11 DEF Start, At
  <2> QED
    BY <1>7, <2>3, <2>4
<1>12. CASE Claim(j) \/ GiveUp(j) \/ SaveLeased(j)
  <2>1. /\ r.pc \in {"claiming", "leased"}
        /\ \/ Goes(j, [r EXCEPT !.pc = "leased"])
           \/ Goes(j, [r EXCEPT !.pc = "gone"])
           \/ Goes(j, [r EXCEPT !.pc = "running"])
    BY <1>12 DEF Claim, GiveUp, SaveLeased, At
  <2> QED
    BY <1>7, <1>10, <2>1
<1>13. CASE RunOrphan(j)
  <2>1. /\ r.pc = "orphan"
        /\ \/ Goes(j, [r EXCEPT !.pc = "gone"])
           \/ \E class \in w.class .. MaxClass :
                Goes(j, [r EXCEPT !.pc = "running", !.class = class])
    BY <1>13 DEF RunOrphan, At
  <2>2. ASSUME NEW class \in w.class .. MaxClass,
               Goes(j, [r EXCEPT !.pc = "running", !.class = class])
        PROVE  Kept
    <3>1. q = [r EXCEPT !.pc = "running", !.class = class]
      BY <1>3, <2>2
    <3>2. q.pc = "running" /\ q.class = class /\ q.to = r.to
          /\ q.adopted = r.adopted
      BY <1>1, <3>1 DEF RunnerRec
    <3> HIDE DEF q, w
    <3>3. class >= w.class
      BY <1>4, <2>2, StoreAssumption
    <3> QED
      BY <2>1, <3>2, <3>3 DEF RunsAt, Returning, q, w, Kept
  <2> QED
    BY <1>7, <1>10, <2>1, <2>2
<1>14. CASE OnFeatures(j)
  <2>1. /\ r.pc = "running"
        /\ \/ Goes(j, s)
           \/ \E target \in r.class + 1 .. MaxClass :
                Goes(j, [s EXCEPT !.to = target])
    BY <1>14 DEF OnFeatures, Received, At
  <2>2. CASE Goes(j, s)
    BY <1>2, <1>3, <1>7, <2>1, <2>2 DEF RunsAt, Returning
  <2>3. ASSUME NEW target \in r.class + 1 .. MaxClass,
               Goes(j, [s EXCEPT !.to = target])
        PROVE  Kept
    <3>1. q = [s EXCEPT !.to = target]
      BY <1>3, <2>3
    <3>2. /\ q.pc = "running" /\ q.class = r.class /\ q.to = target
          /\ q.adopted = r.adopted
      BY <1>1, <1>2, <2>1, <3>1 DEF RunnerRec
    <3> QED
      BY <1>4, <2>1, <3>2 DEF RunsAt, Returning
  <2> QED
    BY <1>7, <2>1, <2>2, <2>3
<1>15. CASE OnResult(j)
  <2>1. /\ r.pc = "running"
        /\ \/ r.adopted /\ Goes(j, Requeueing(s, FALSE, FALSE, NoClass))
           \/ Goes(j, Ending(s, FALSE, "gone"))
           \/ Goes(j, [s EXCEPT !.pc = "registering"])
    BY <1>15 DEF OnResult, Received, At, LacksUploads, Registers
  <2> QED
    BY <1>7, <1>8, <1>9, <1>10, <2>1
<1>16. CASE \/ Publish(j) \/ Registered(j) \/ OnError(j) \/ LetLeaseGo(j)
            \/ RunnerPanics(j)
  <2>1. /\ r.pc \in {"registering", "registered", "running", "leased"}
        /\ \/ Goes(j, [r EXCEPT !.pc = "registered"])
           \/ Goes(j, [r EXCEPT !.pc = "gone"])
           \/ Goes(j, Ending(r, FALSE, "gone"))
           \/ Goes(j, Ending(s, FALSE, "gone"))
    BY <1>16 DEF Publish, Registered, OnError, LetLeaseGo, RunnerPanics,
       Received, At
  <2> QED
    BY <1>7, <1>8, <1>10, <2>1
<1>17. CASE OnRelease(j)
  <2>1. /\ Received(j)
        /\ \/ Goes(j, Ending(s, FALSE, "gone"))
           \/ /\ Event(j) = "reroute"
              /\ Goes(j, Requeueing(s, FALSE, FALSE, s.to))
           \/ /\ Bigger(s.class) # NoClass
              /\ Goes(j, Requeueing(s, FALSE, FALSE, Bigger(s.class)))
    BY <1>17 DEF OnRelease
  <2>2. Event(j) = "reroute" => r.adopted \/ r.to # NoClass
    BY <1>6, <2>1 DEF Meant
  <2>3. Bigger(s.class) # NoClass => Bigger(s.class) > w.class
    BY <1>2, <1>4, <1>6, <2>1 DEF Bigger, RunsAt
  <2> QED
    BY <1>2, <1>6, <1>7, <1>8, <1>9, <2>1, <2>2, <2>3 DEF RunsAt
<1>18. CASE NoticeCancel(j)
  <2>1. r.pc = "running" /\ q = [r EXCEPT !.cancelSent = TRUE]
    BY <1>3, <1>18 DEF NoticeCancel, At
  <2> QED
    BY <1>1, <1>7, <2>1 DEF RunnerRec, RunsAt, Returning
<1>19. CASE FindExpired(j)
  <2> DEFINE memory == IF ~r.adopted /\ lease[j].hot THEN Bigger(r.class)
                       ELSE NoClass
             to == IF memory > r.to THEN memory ELSE r.to
  <2>1. /\ r.pc = "running"
        /\ \/ Goes(j, Ending(r, TRUE, "gone"))
           \/ Goes(j, Requeueing(r, TRUE, ~r.adopted, to))
    BY <1>19 DEF FindExpired, At
  <2>2. to = NoClass \/ to > w.class
    BY <1>4, <2>1 DEF Bigger, RunsAt
  <2> HIDE DEF to
  <2> QED
    BY <1>7, <1>8, <1>9, <2>1, <2>2
<1>20. CASE EndLease(j)
  <2>1. r.pc = "ending" /\ q = [r EXCEPT !.pc = r.after]
    BY <1>3, <1>20 DEF EndLease, At
  <2>2. /\ q.pc = r.after /\ r.after \in {"gone", "requeue"}
        /\ q.to = r.to /\ q.counted = r.counted /\ q.adopted = r.adopted
    BY <1>1, <2>1 DEF RunnerRec
  <2> QED
    BY <1>7, <2>1, <2>2 DEF RunsAt, Returning
<1>21. CASE StoreRequeue(j)
  <2>1. /\ r.pc = "requeue"
        /\ \/ /\ q = [r EXCEPT !.pc = "gone"]
              /\ \/ ~MayRequeue(w, r.epoch)
                 \/ r.to = NoClass /\ Exhausted(w, r.counted)
           \/ /\ q = [Fresh EXCEPT !.pc = IF stopping THEN "gone" ELSE "queued"]
              /\ Returned(j)
    BY <1>1, <1>3, <1>21 DEF StoreRequeue, At, Returned, TypeOK, Fresh
  <2>2. CASE q = [r EXCEPT !.pc = "gone"] /\ ~Returned(j)
    BY <1>1, <2>1, <2>2 DEF RunnerRec, RunsAt, Returning
  <2>3. CASE /\ q = [Fresh EXCEPT !.pc = IF stopping THEN "gone" ELSE "queued"]
             /\ Returned(j)
    BY <2>3 DEF Fresh
  <2> QED
    BY <2>1, <2>2, <2>3 DEF Returned
<1> QED
  BY <1>11, <1>12, <1>13, <1>14, <1>15, <1>16, <1>17, <1>18, <1>19, <1>20,
     <1>21 DEF RunnerStep

\* What the store makes of the tries a row has.
LEMMA RowTries ==
    ASSUME NEW w \in Row, NEW n \in Nat
    PROVE  /\ Tries(w, n) \in Nat /\ Tries(w, n + 1) = Tries(w, n) + 1
           /\ \A status, holder, e :
                LET v == SaveJobState(w, e, status, holder)
                IN  /\ Tries(v, n) = Tries(w, n) /\ v.epoch = w.epoch
                    /\ v.lost = w.lost /\ v.class = w.class
           /\ \A status :
                LET v == FinishJob(w, status)
                IN  /\ Tries(v, n) = Tries(w, n) /\ v.epoch = w.epoch
                    /\ v.lost = w.lost /\ v.class = w.class
           /\ LET v == BeginAttempt(w)
              IN  /\ Tries(v, n) = Tries(w, n) /\ v.epoch = w.epoch + 1
                  /\ v.lost = w.lost /\ v.class = w.class
           /\ \A counted :
                LET v == Requeue(w, counted)
                IN  /\ v.epoch = w.epoch /\ v.class = w.class
                    /\ counted => /\ Tries(v, n) = Tries(w, n) + 1
                                  /\ v.lost = w.lost + 1
                    /\ ~counted => Tries(v, n) = Tries(w, n) /\ v.lost = w.lost
           /\ \A to \in Class :
                LET v == Rebind(w, to)
                IN  /\ v.epoch = w.epoch /\ v.lost = 0 /\ v.class = to
                    /\ to > w.class /\ w.lost <= Retries
                       => Tries(v, n) >= Tries(w, n) + 1
<1>1. w.class \in Nat /\ w.lost \in Nat /\ w.epoch \in Nat /\ Retries \in Nat
      /\ Class \subseteq Nat
  BY StoreAssumption DEF Row, Class
<1>2. \A a \in Nat : a * (Retries + 1) \in Nat
  BY <1>1
<1>3. ASSUME NEW a \in Nat, NEW b \in Nat, a > b
      PROVE  a * (Retries + 1) >= b * (Retries + 1) + Retries + 1
  <2>1. PICK d \in Nat : a = b + 1 + d
    <3>1. a - b - 1 \in Nat /\ a = b + 1 + (a - b - 1)
      BY <1>3
    <3> QED
      BY <3>1
  <2>2. (b + 1 + d) * (Retries + 1)
          = b * (Retries + 1) + (Retries + 1) + d * (Retries + 1)
    BY <1>1
  <2>3. d * (Retries + 1) \in Nat /\ b * (Retries + 1) \in Nat
    BY <1>2
  <2> QED
    BY <1>1, <2>1, <2>2, <2>3
<1>4. PICK x \in Nat : x = w.class * (Retries + 1)
  BY <1>1, <1>2
<1>5. Tries(w, n) = x + w.lost + n /\ Tries(w, n + 1) = x + w.lost + (n + 1)
  BY <1>4 DEF Tries
<1>6. Tries(w, n) \in Nat /\ Tries(w, n + 1) = Tries(w, n) + 1
  BY <1>1, <1>5
<1>7. \A v : v.class = w.class /\ v.lost = w.lost => Tries(v, n) = Tries(w, n)
  BY DEF Tries
<1>8. ASSUME NEW counted
      PROVE  LET v == Requeue(w, counted)
             IN  /\ v.epoch = w.epoch /\ v.class = w.class
                 /\ counted => /\ Tries(v, n) = Tries(w, n) + 1
                               /\ v.lost = w.lost + 1
                 /\ ~counted => Tries(v, n) = Tries(w, n) /\ v.lost = w.lost
  <2> DEFINE v == Requeue(w, counted)
  <2>1. /\ v.epoch = w.epoch /\ v.class = w.class
        /\ counted => v.lost = w.lost + 1
        /\ ~counted => v.lost = w.lost
    BY DEF Requeue, Row
  <2> HIDE DEF v
  <2>2. counted => Tries(v, n) = x + (w.lost + 1) + n
    BY <1>4, <2>1 DEF Tries
  <2>3. counted => Tries(v, n) = Tries(w, n) + 1
    BY <1>1, <1>5, <2>2
  <2> QED
    BY <1>7, <2>1, <2>3 DEF v
<1>9. ASSUME NEW to \in Class
      PROVE  LET v == Rebind(w, to)
             IN  /\ v.epoch = w.epoch /\ v.lost = 0 /\ v.class = to
                 /\ to > w.class /\ w.lost <= Retries
                    => Tries(v, n) >= Tries(w, n) + 1
  <2> DEFINE v == Rebind(w, to)
  <2>1. v.epoch = w.epoch /\ v.lost = 0 /\ v.class = to
    BY DEF Rebind, Row
  <2> HIDE DEF v
  <2>2. PICK y \in Nat : y = to * (Retries + 1)
    BY <1>1, <1>2
  <2>3. to > w.class => y >= x + Retries + 1
    BY <1>1, <1>3, <1>4, <2>2
  <2>4. Tries(v, n) = y + 0 + n
    BY <2>1, <2>2 DEF Tries
  <2>5. to > w.class /\ w.lost <= Retries => Tries(v, n) >= Tries(w, n) + 1
    BY <1>1, <1>5, <2>3, <2>4
  <2> QED
    BY <2>1, <2>5 DEF v
<1>10. ASSUME NEW status, NEW holder, NEW e
       PROVE  LET v == SaveJobState(w, e, status, holder)
              IN  /\ Tries(v, n) = Tries(w, n) /\ v.epoch = w.epoch
                  /\ v.lost = w.lost /\ v.class = w.class
  <2> DEFINE v == SaveJobState(w, e, status, holder)
  <2>1. v.epoch = w.epoch /\ v.lost = w.lost /\ v.class = w.class
    BY DEF SaveJobState, Row
  <2> HIDE DEF v
  <2> QED
    BY <1>7, <2>1 DEF v
<1>11. ASSUME NEW status
       PROVE  LET v == FinishJob(w, status)
              IN  /\ Tries(v, n) = Tries(w, n) /\ v.epoch = w.epoch
                  /\ v.lost = w.lost /\ v.class = w.class
  <2> DEFINE v == FinishJob(w, status)
  <2>1. v.epoch = w.epoch /\ v.lost = w.lost /\ v.class = w.class
    BY DEF FinishJob, Row
  <2> HIDE DEF v
  <2> QED
    BY <1>7, <2>1 DEF v
<1>12. LET v == BeginAttempt(w)
       IN  /\ Tries(v, n) = Tries(w, n) /\ v.epoch = w.epoch + 1
           /\ v.lost = w.lost /\ v.class = w.class
  <2> DEFINE v == BeginAttempt(w)
  <2>1. v.epoch = w.epoch + 1 /\ v.lost = w.lost /\ v.class = w.class
    BY DEF BeginAttempt, Row
  <2> HIDE DEF v
  <2> QED
    BY <1>7, <2>1 DEF v
<1> QED
  BY <1>6, <1>8, <1>9, <1>10, <1>11, <1>12

\* The job whose runner, or user, takes the step.
LEMMA JobTries ==
    ASSUME ClaimBase, ClaimBase', NEW j \in Job, RowOf(j),
           NEW n \in Nat, TriesAt(runner[j], row[j], n), RunsAt(runner[j], row[j]),
           runner'[j].adopted => runner[j].adopted /\ runner[j].pc # "queued",
           runner'[j].pc = "queued" => Returned(j),
           \/ /\ runner'[j] = [Fresh EXCEPT !.pc = runner'[j].pc]
              /\ runner'[j].pc \in {"queued", "gone"}
           \/ ~Returned(j) /\ RunsAt(runner'[j], row[j])
    PROVE  TriesAt(runner'[j], row'[j], n) /\ RunsAt(runner'[j], row'[j])
<1> DEFINE r == runner[j]
           q == runner'[j]
           w == row[j]
           v == row'[j]
           t == Tries(w, n)
<1>1. /\ w \in Row /\ r \in RunnerRec /\ q \in RunnerRec /\ w.epoch \in Nat
      /\ w.lost \in Nat /\ t \in Nat /\ Retries \in Nat
      /\ r.to \in Class \cup {NoClass} /\ r.counted \in BOOLEAN
      /\ q.adopted \in BOOLEAN
  BY RowTries, StoreAssumption DEF ClaimBase, LifeInv, FenceInv, TypeOK, Row,
     RunnerRec
<1>2. /\ r.adopted => n > 0
      /\ w.lost <= Retries /\ w.epoch <= t + 1
      /\ r.pc = "queued" \/ r.adopted => w.epoch <= t
  BY DEF TriesAt
<1>3. CASE Returned(j)
  <2>1. q = [Fresh EXCEPT !.pc = q.pc]
    BY <1>3
  <2>2. ~q.adopted /\ q.to = NoClass /\ q.pc \in {"queued", "gone"}
    BY <1>3, <2>1 DEF Returned, Fresh
  <2>3. RunsAt(q, v)
    BY <2>2 DEF RunsAt, Returning
  <2>4. v.lost <= Retries /\ v.epoch <= Tries(v, n)
    <3>1. CASE r.to # NoClass /\ v = Rebind(w, r.to)
      <4>1. r.to \in Class /\ r.to > w.class
        BY <1>1, <3>1 DEF RunsAt
      <4>2. /\ v.epoch = w.epoch /\ v.lost = 0
            /\ Tries(v, n) >= Tries(w, n) + 1
        BY <1>1, <1>2, <3>1, <4>1, RowTries
      <4>3. Tries(v, n) \in Nat
        BY RowTries DEF ClaimBase, LifeInv, FenceInv, TypeOK
      <4> QED
        BY <1>1, <1>2, <4>2, <4>3
    <3>2. CASE /\ r.to = NoClass /\ ~Exhausted(w, r.counted)
               /\ v = Requeue(w, r.counted)
      <4>1. CASE r.counted
        <5>1. /\ v.epoch = w.epoch /\ v.lost = w.lost + 1
              /\ Tries(v, n) = Tries(w, n) + 1
          <6> DEFINE u == Requeue(w, r.counted)
          <6>1. /\ u.epoch = w.epoch
                /\ r.counted => /\ Tries(u, n) = Tries(w, n) + 1
                                /\ u.lost = w.lost + 1
            BY <1>1, RowTries
          <6> QED
            BY <3>2, <4>1, <6>1
        <5>2. w.lost < Retries
          BY <1>1, <3>2, <4>1 DEF Exhausted
        <5> QED
          BY <1>1, <1>2, <5>1, <5>2
      <4>2. CASE ~r.counted
        <5>1. v.epoch = w.epoch /\ v.lost = w.lost /\ Tries(v, n) = Tries(w, n)
          BY <1>1, <3>2, <4>2, RowTries
        <5>2. r.adopted
          BY <1>3, <3>2, <4>2 DEF RunsAt, Returning, Returned
        <5> QED
          BY <1>1, <1>2, <5>1, <5>2
      <4> QED
        BY <4>1, <4>2
    <3> QED
      BY <1>3, <3>1, <3>2 DEF Returned
  <2>5. Tries(v, n) \in Nat /\ v.epoch \in Nat
    BY RowTries DEF ClaimBase, LifeInv, FenceInv, TypeOK, Row
  <2> HIDE DEF q, v
  <2> QED
    BY <2>2, <2>3, <2>4, <2>5 DEF TriesAt, q, v
<1>4. CASE ~Returned(j)
  <2>1. q.pc # "queued" /\ RunsAt(q, w)
    <3>1. q.pc # "queued"
      BY <1>4
    <3>2. CASE q = [Fresh EXCEPT !.pc = q.pc] /\ q.pc \in {"queued", "gone"}
      <4>1. q.pc = "gone" /\ q.to = NoClass
        BY <3>1, <3>2 DEF Fresh
      <4> QED
        BY <4>1 DEF RunsAt, Returning
    <3> QED
      BY <3>1, <3>2
  <2>2. CASE Begun(j)
    <3>1. ~q.adopted /\ v = BeginAttempt(w) /\ r.pc = "queued"
      BY <2>2 DEF Begun
    <3>2. /\ v.epoch = w.epoch + 1 /\ v.lost = w.lost /\ v.class = w.class
          /\ Tries(v, n) = t
      BY <1>1, <3>1, RowTries
    <3>3. v.epoch <= Tries(v, n) + 1
      BY <1>1, <1>2, <3>1, <3>2
    <3>4. RunsAt(q, v)
      BY <2>1, <3>2 DEF RunsAt
    <3> HIDE DEF q, v, w
    <3> QED
      BY <1>2, <2>1, <3>1, <3>2, <3>3, <3>4 DEF TriesAt, q, v
  <2>3. CASE ~Begun(j)
    <3>1. /\ v.epoch = w.epoch /\ v.lost = w.lost /\ v.class = w.class
          /\ Tries(v, n) = t
      <4>1. \/ v = w
            \/ \E status, holder, e : v = SaveJobState(w, e, status, holder)
            \/ \E status : v = FinishJob(w, status)
        BY <1>4, <2>3 DEF RowOf, Saved, Failed, Finished, Over
      <4> HIDE DEF v, w
      <4> QED
        BY <1>1, <4>1, RowTries DEF t
    <3>2. RunsAt(q, v)
      BY <2>1, <3>1 DEF RunsAt
    <3> HIDE DEF q, v, w
    <3> QED
      BY <1>2, <2>1, <3>1, <3>2 DEF TriesAt, q, v, r
  <2> QED
    BY <2>2, <2>3
<1> QED
  BY <1>3, <1>4

\* The runners, the rows and the restarts that most steps leave alone.
LEMMA TriesStay ==
    ASSUME \/ \E a \in Agent : AgentStep(a)
           \/ \E c \in Conn : ChannelStep(c)
           \/ \E j \in Job : Expire(j)
           \/ Stop
           \/ UNCHANGED vars
    PROVE  UNCHANGED <<runner, row, outcome, restarts>>
BY JobsStay, SettledStays DEF jobs, vars, process

LEMMA RestartsStay ==
    ASSUME NEW j \in Job, RunnerStep(j) \/ UserCancel(j)
    PROVE  UNCHANGED restarts
<1>1. CASE RunOrphan(j)
  <2>1. UNCHANGED <<row, cancelled, outcome, published, process, settled,
                    nextConn, agent, up>>
    BY <1>1, Zenon DEF RunOrphan
  <2> QED
    BY <2>1 DEF process
<1>2. CASE Start(j) \/ Claim(j) \/ GiveUp(j) \/ SaveLeased(j) \/ UserCancel(j)
  BY <1>2 DEF Start, Claim, GiveUp, SaveLeased, UserCancel, process
<1>3. CASE OnFeatures(j) \/ OnResult(j) \/ Publish(j) \/ Registered(j)
  BY <1>3 DEF OnFeatures, OnResult, Publish, Registered, process
<1>4. CASE OnError(j) \/ OnRelease(j) \/ NoticeCancel(j) \/ LetLeaseGo(j)
  BY <1>4 DEF OnError, OnRelease, NoticeCancel, LetLeaseGo, process
<1>5. CASE FindExpired(j) \/ EndLease(j) \/ StoreRequeue(j) \/ RunnerPanics(j)
  BY <1>5 DEF FindExpired, EndLease, StoreRequeue, RunnerPanics, process
<1> QED
  BY <1>1, <1>2, <1>3, <1>4, <1>5 DEF RunnerStep

LEMMA NextTries ==
    ASSUME ClaimBase, ClaimBase', WordsInv, TriesInv, [Next]_vars
    PROVE  TriesInv'
<1> DEFINE Good(k) == /\ TriesAt(runner'[k], row'[k], restarts')
                      /\ RunsAt(runner'[k], row'[k])
<1>1. /\ TypeOK /\ restarts \in Nat
      /\ \A k \in Job : /\ TriesAt(runner[k], row[k], restarts)
                        /\ RunsAt(runner[k], row[k])
                        /\ row[k] \in Row /\ runner[k] \in RunnerRec
  BY DEF ClaimBase, LifeInv, FenceInv, TypeOK, TriesInv
<1>2. CASE UNCHANGED <<runner, row, outcome, restarts>>
  BY <1>1, <1>2 DEF TriesInv
<1>3. ASSUME NEW j \in Job, RunnerStep(j) \/ UserCancel(j)
      PROVE  \A k \in Job : Good(k)
  <2>1. UNCHANGED restarts /\ \A k \in Job \ {j} : Good(k)
    <3>1. UNCHANGED restarts /\ Apart(j)
      BY <1>3, RestartsStay, StepsApart DEF ClaimBase
    <3> QED
      BY <1>1, <3>1 DEF Apart
  <2>2. CASE RunnerStep(j)
    <3>1. RowOf(j)
      BY <2>2, RowSteps DEF ClaimBase
    <3>2. TriesAt(runner'[j], row'[j], restarts) /\ RunsAt(runner'[j], row'[j])
      BY <1>1, <2>2, <3>1, RunnerTries, JobTries
    <3> QED
      BY <2>1, <3>2
  <2>3. CASE UserCancel(j)
    <3>1. RowOf(j) /\ ~Returned(j)
      <4>1. Over(j, "failed", "cancelled") /\ outcome[j] = "none"
            /\ outcome' [j] = "cancelled"
        BY <1>1, <2>3, OverIs DEF UserCancel, Over
      <4>2. "cancelled" \in Outcome \ {"none", "done"}
        BY DEF Outcome
      <4> QED
        BY <4>1, <4>2 DEF RowOf, Failed, Returned
    <3>2. \/ runner'[j] = runner[j] /\ runner[j].pc # "queued"
          \/ runner'[j] = [runner[j] EXCEPT !.pc = "gone"] /\ runner[j].pc = "queued"
      BY <1>1, <2>3 DEF UserCancel, At, TypeOK
    <3>3. CASE runner'[j] = runner[j] /\ runner[j].pc # "queued"
      BY <1>1, <2>1, <3>1, <3>3, JobTries
    <3>4. CASE /\ runner'[j] = [runner[j] EXCEPT !.pc = "gone"]
               /\ runner[j].pc = "queued"
      <4> DEFINE v == FinishJob(row[j], "failed")
                 q == runner'[j]
      <4>1. row'[j] = v
        BY <1>1, <2>3 DEF UserCancel, Ends, TypeOK
      <4>2. /\ v.epoch = row[j].epoch /\ v.lost = row[j].lost
            /\ v.class = row[j].class /\ Tries(v, restarts) = Tries(row[j], restarts)
        BY <1>1, RowTries
      <4>3. /\ q.pc = "gone" /\ q.adopted = runner[j].adopted
            /\ q.to = runner[j].to
        BY <1>1, <3>4 DEF RunnerRec
      <4> HIDE DEF v, q
      <4>4. RunsAt(q, v)
        BY <1>1, <4>2, <4>3 DEF RunsAt, Returning
      <4>5. TriesAt(q, v, restarts)
        BY <1>1, <4>2, <4>3 DEF TriesAt
      <4> QED
        BY <2>1, <4>1, <4>4, <4>5 DEF q
    <3> QED
      BY <3>2, <3>3, <3>4
  <2> QED
    BY <1>3, <2>1, <2>2, <2>3
<1>4. CASE Restart
  <2> SUFFICES ASSUME NEW k \in Job PROVE Good(k)
    BY DEF TriesInv
  <2> DEFINE q == runner'[k]
             w == row[k]
  <2>1. row'[k] = w /\ restarts' = restarts + 1
        /\ (q = Orphan(w) \/ q = Unheld(w))
    BY <1>4, RestartParts DEF Restart
  <2>2. q.to = NoClass /\ q.pc \in {"orphan", "queued", "gone"}
    <3>1. Orphan(w).to = NoClass /\ Orphan(w).pc = "orphan"
      BY DEF Orphan, Fresh
    <3>2. Unheld(w).to = NoClass /\ Unheld(w).pc \in {"queued", "gone"}
      BY DEF Unheld, Fresh
    <3> QED
      BY <2>1, <3>1, <3>2
  <2> HIDE DEF q
  <2>3. RunsAt(q, w)
    BY <2>2 DEF RunsAt, Returning
  <2>4. /\ w.epoch \in Nat /\ Tries(w, restarts) \in Nat
        /\ Tries(w, restarts + 1) = Tries(w, restarts) + 1
    BY <1>1, RowTries DEF Row
  <2>5. w.lost <= Retries /\ w.epoch <= Tries(w, restarts) + 1
    BY <1>1 DEF TriesAt
  <2> HIDE DEF w
  <2>6. TriesAt(q, w, restarts + 1)
    BY <1>1, <2>4, <2>5 DEF TriesAt
  <2> QED
    BY <2>1, <2>3, <2>6 DEF q
<1> QED
  BY <1>2, <1>3, <1>4, TriesStay DEF Next, TriesInv

LEMMA NextFates ==
    ASSUME ClaimBase, WordsInv, TriesInv, [Next]_vars
    PROVE  Fates'
<1>1. /\ TypeOK /\ restarts \in Nat /\ Fates
      /\ \A k \in Job : runner[k].adopted => restarts > 0
  BY DEF ClaimBase, LifeInv, FenceInv, TypeOK, WordsInv, TriesInv, TriesAt
<1>2. CASE UNCHANGED <<runner, row, outcome, restarts>>
  BY <1>1, <1>2 DEF Fates
<1>3. ASSUME NEW j \in Job, RunnerStep(j)
      PROVE  Fates'
  BY <1>1, <1>3, FailsFor, RestartsStay DEF Fates
<1>4. ASSUME NEW j \in Job, UserCancel(j)
      PROVE  Fates'
  <2>1. /\ UNCHANGED restarts
        /\ \A k \in Job : outcome'[k] = outcome[k] \/ outcome'[k] = "cancelled"
    BY <1>1, <1>4, RestartsStay DEF UserCancel, Ends, TypeOK
  <2> QED
    BY <1>1, <2>1 DEF Fates
<1>5. CASE Restart
  <2>1. UNCHANGED outcome /\ restarts' = restarts + 1
    BY <1>5 DEF Restart
  <2>2. restarts' > 0
    BY <1>1, <2>1
  <2> QED
    BY <1>1, <2>1, <2>2 DEF Fates
<1> QED
  BY <1>2, <1>3, <1>4, <1>5, TriesStay DEF Next

\* What a job's attempts are told, and how often it is tried.
AttemptInv == ClaimBase /\ ClaimsInv /\ WordsInv /\ TriesInv

\* Whatever is said of an attempt on any channel, and however late it comes,
\* was asked for by the runner that holds the attempt, or is of one that is
\* over (workers.rs `handle`, `resume`, `run_remote`).
THEOREM WordsInvariant == Spec => []AttemptInv
<1>1. Init => WordsInv /\ TriesInv
  <2> SUFFICES ASSUME Init PROVE WordsInv /\ TriesInv
    OBVIOUS
  <2>1. SpokenIn(Words)
    <3>1. \A S : <<>> \in Seq(S)
      OBVIOUS
    <3>2. ~Holds(NewAgent) /\ NewAgent.pending = <<>>
      BY DEF NewAgent, Holds, Idle
    <3>3. AgentIn(NewAgent, Words)
      BY <3>1, <3>2 DEF AgentIn
    <3> QED
      BY <3>1, <3>3 DEF Init, SpokenIn
  <2>2. ASSUME NEW j \in Job
        PROVE  /\ LeaseIn(lease[j], runner[j], j, Words)
               /\ outcome[j] = "none"
               /\ TriesAt(runner[j], row[j], restarts) /\ RunsAt(runner[j], row[j])
    <3>1. /\ lease[j] = NoLease /\ runner[j] = Fresh /\ row[j] = NewRow(0)
          /\ outcome[j] = "none" /\ restarts = 0
      BY DEF Init
    <3>2. \A S : <<>> \in Seq(S)
      OBVIOUS
    <3>3. /\ ~NoLease.cancelled /\ ~NoLease.rerouting /\ NoLease.events = <<>>
          /\ ~Fresh.adopted /\ Fresh.to = NoClass /\ Fresh.pc = "queued"
      BY DEF NoLease, NewLease, Fresh
    <3>4. /\ NewRow(0).class = 0 /\ NewRow(0).lost = 0 /\ NewRow(0).epoch = 0
      BY DEF NewRow
    <3>5. Tries(NewRow(0), 0) = 0 /\ Retries \in Nat
      <4>1. Retries \in Nat
        BY StoreAssumption
      <4>2. 0 * (Retries + 1) = 0
        BY <4>1
      <4> QED
        BY <3>4, <4>1, <4>2 DEF Tries
    <3>6. TriesAt(Fresh, NewRow(0), 0) /\ RunsAt(Fresh, NewRow(0))
      BY <3>3, <3>4, <3>5 DEF TriesAt, RunsAt, Returning
    <3>7. LeaseIn(NoLease, Fresh, j, Words)
      BY <3>2, <3>3 DEF LeaseIn
    <3> QED
      BY <3>1, <3>6, <3>7
  <2> QED
    BY <2>1, <2>2 DEF WordsInv, LeasesIn, Fates, TriesInv
<1>2. /\ ClaimBase /\ ClaimsInv /\ WordsInv /\ TriesInv /\ [Next]_vars
      /\ ClaimBase'
      => WordsInv' /\ TriesInv'
  BY NextSpeaks, NextLeases, NextFates, NextTries DEF WordsInv
<1> QED
  BY <1>1, <1>2, ClaimsInvariant, PTL DEF Spec, AttemptInv

\* No job fails on the tier's own doing (agent.rs `on_message`, workers.rs
\* `run_remote`, store.rs `publish`).
THEOREM NoFailureInside == Spec => []NoInternalFailure
<1>1. AttemptInv /\ EndInv => NoInternalFailure
  BY DEF AttemptInv, WordsInv, Fates, EndInv, EndsWell, NoInternalFailure
<1> QED
  BY <1>1, WordsInvariant, EndInvariant, PTL

\* A job's attempts are bounded by its classes, their retries and the
\* restarts (store.rs `requeue_job`, `rebind_job`; workers.rs `requeue`).
THEOREM TriesBounded == Spec => []AttemptsBounded
<1>1. AttemptInv => AttemptsBounded
  <2> SUFFICES ASSUME AttemptInv, NEW j \in Job
               PROVE  row[j].epoch
                      <= (MaxClass + 1) * (Retries + 1) + restarts
    BY DEF AttemptsBounded
  <2> DEFINE w == row[j]
             c == w.class
  <2>1. /\ w \in Row /\ restarts \in Nat /\ w.lost <= Retries
        /\ w.epoch <= Tries(w, restarts) + 1
    BY DEF AttemptInv, ClaimBase, LifeInv, FenceInv, TypeOK, TriesInv, TriesAt
  <2>2. /\ c \in Nat /\ c <= MaxClass /\ w.lost \in Nat /\ w.epoch \in Nat
        /\ Retries \in Nat /\ MaxClass \in Nat
    BY <2>1, StoreAssumption DEF Row, Class
  <2>3. PICK d \in Nat : MaxClass = c + d
    <3>1. MaxClass - c \in Nat /\ MaxClass = c + (MaxClass - c)
      BY <2>2
    <3> QED
      BY <3>1
  <2> HIDE DEF w, c
  <2>4. (c + d + 1) * (Retries + 1)
          = c * (Retries + 1) + d * (Retries + 1) + (Retries + 1)
    BY <2>2
  <2>5. c * (Retries + 1) \in Nat /\ d * (Retries + 1) \in Nat
    BY <2>2
  <2>6. Tries(w, restarts) = c * (Retries + 1) + w.lost + restarts
    BY DEF Tries, c
  <2>7. w.epoch <= (MaxClass + 1) * (Retries + 1) + restarts
    <3>1. (MaxClass + 1) * (Retries + 1)
            = c * (Retries + 1) + d * (Retries + 1) + (Retries + 1)
      BY <2>3, <2>4
    <3> DEFINE x == c * (Retries + 1)
               y == d * (Retries + 1)
               z == (MaxClass + 1) * (Retries + 1)
    <3>2. x \in Nat /\ y \in Nat /\ z = x + y + (Retries + 1)
          /\ w.epoch <= x + w.lost + restarts + 1
      BY <2>1, <2>5, <2>6, <3>1
    <3> HIDE DEF x, y, z
    <3> QED
      BY <2>1, <2>2, <3>2 DEF z
  <2> QED
    BY <2>7 DEF w
<1> QED
  BY <1>1, WordsInvariant, PTL

\* Without a restart no job fails as given up unasked (workers.rs `resume`,
\* `run_remote`).
THEOREM UnaskedOnlyAfterRestart == Spec => [](restarts = 0 => NeverUnasked)
<1>1. AttemptInv => (restarts = 0 => NeverUnasked)
  BY DEF AttemptInv, WordsInv, Fates, NeverUnasked
<1> QED
  BY <1>1, WordsInvariant, PTL

-----------------------------------------------------------------------------
\* One agent, one lease.

\* A lease that keeps its agent from no other job.
Spent(l) == l.time = "lost" \/ (l.time = "due" /\ l.conn = NoConn)
SpentStays(k) == Spent(lease[k]) => lease'[k] = NoLease \/ Spent(lease'[k])

\* Of two leases with one agent, one has run out or is an earlier process's.
OneLease ==
    \A j, k \in Job :
        (/\ j # k /\ Held(j) /\ Held(k) /\ lease[j].agent = lease[k].agent)
        => \E i \in {j, k} : Spent(lease[i]) \/ runner[i].adopted

LEMMA SpentForms ==
    ASSUME NEW l \in LeaseRec
    PROVE  /\ Spent(l) => /\ Spent([l EXCEPT !.uploads = TRUE])
                          /\ Spent([l EXCEPT !.cancelled = TRUE])
                          /\ Spent([l EXCEPT !.rerouting = TRUE])
                          /\ Spent([l EXCEPT !.conn = 0])
                          /\ \A events : Spent([l EXCEPT !.finished = TRUE,
                                                         !.events = events])
           /\ Spent([l EXCEPT !.time = "lost"])
BY DEF LeaseRec, Spent, NoConn

LEMMA OneSpent ==
    ASSUME TypeOK, NEW j \in Job, NEW m, lease' = [lease EXCEPT ![j] = m],
           Spent(lease[j]) => m = NoLease \/ Spent(m)
    PROVE  \A k \in Job : SpentStays(k)
BY DEF TypeOK, SpentStays

LEMMA AgentSpends ==
    ASSUME TypeOK, NEW a \in Agent, AgentStep(a)
    PROVE  \A k \in Job : SpentStays(k)
<1>1. CASE UNCHANGED lease
  BY <1>1 DEF SpentStays
<1>2. CASE \/ JobProgress(a) \/ JobFinished(a) \/ JobKilled(a) \/ HoldExpires(a)
           \/ Heartbeat(a) \/ OnOrder(a) \/ Disconnect(a) \/ AgentCrash(a)
  BY <1>1, <1>2 DEF JobProgress, JobFinished, JobKilled, HoldExpires,
     Heartbeat, OnOrder, Disconnect, AgentCrash, hub
<1>3. CASE Upload(a)
  <2>1. \/ UNCHANGED lease
        \/ lease' = [lease EXCEPT ![agent[a].cur.job].uploads = TRUE]
    BY <1>3 DEF Upload
  <2>2. ASSUME NEW k \in Job,
               lease' = [lease EXCEPT ![agent[a].cur.job].uploads = TRUE]
        PROVE  SpentStays(k)
    <3>1. lease[k] \in LeaseRec
      BY DEF TypeOK
    <3>2. \/ lease'[k] = lease[k]
          \/ lease'[k] = [lease[k] EXCEPT !.uploads = TRUE]
      BY <2>2 DEF TypeOK
    <3> QED
      BY <3>1, <3>2, SpentForms DEF SpentStays
  <2> QED
    BY <1>1, <2>1, <2>2
<1>4. CASE Connect(a)
  <2> DEFINE s == agent[a]
             c == nextConn
             j == s.cur.job
             lease1 == Detached(Evicted(a))
             answer == IF Runs(s)
                       THEN ResumeAnswer(a, j, s.cur.epoch, lease1[j])
                       ELSE "none"
  <2>1. lease' = IF answer = "none" THEN lease1
                 ELSE [lease1 EXCEPT ![j] = AfterResume(@, answer, c)]
    BY <1>4 DEF Connect
  <2>2. lease1 \in [Job -> LeaseRec]
    BY DetachedTyped DEF Evicted
  <2>3. answer = "moves" => lease1[j].time = "live"
    BY DEF ResumeAnswer
  <2>4. ASSUME NEW k \in Job, Spent(lease[k]) PROVE Spent(lease1[k])
    <3>1. /\ lease[k] \in LeaseRec
          /\ \/ lease1[k] = lease[k]
             \/ lease1[k] = [lease[k] EXCEPT !.conn = 0]
      BY DEF Detached, TypeOK, NoConn
    <3> QED
      BY <2>4, <3>1, SpentForms
  <2> HIDE DEF lease1, answer, c, j
  <2>5. ASSUME NEW k \in Job, Spent(lease[k]) PROVE Spent(lease'[k])
    <3>1. Spent(lease1[k]) /\ lease1[k] \in LeaseRec
      BY <2>2, <2>4, <2>5
    <3>2. \/ lease'[k] = lease1[k]
          \/ k = j /\ lease'[k] = AfterResume(lease1[k], answer, c)
      BY <2>1, <2>2
    <3>3. answer # "moves" \/ k # j
      BY <2>3, <3>1 DEF Spent
    <3>4. answer # "moves"
          => \/ AfterResume(lease1[k], answer, c) = lease1[k]
             \/ AfterResume(lease1[k], answer, c) = [lease1[k] EXCEPT !.time = "lost"]
      BY DEF AfterResume
    <3> QED
      BY <3>1, <3>2, <3>3, <3>4, SpentForms
  <2> QED
    BY <2>5 DEF SpentStays
<1> QED
  BY <1>2, <1>3, <1>4 DEF AgentStep

LEMMA ChannelSpends ==
    ASSUME TypeOK, NEW c \in Conn, ChannelStep(c)
    PROVE  \A k \in Job : SpentStays(k)
<1> DEFINE f == Head(up[c])
           l == lease[f.job]
           heeded == l.agent = conn[c].agent /\ l.epoch = f.epoch /\ l.time # "lost"
<1>1. CASE UNCHANGED lease
  BY <1>1 DEF SpentStays
<1>2. CASE RemoveConn(c)
  <2>1. ASSUME NEW k \in Job, Spent(lease[k]) PROVE Spent(lease'[k])
    <3>1. /\ lease[k] \in LeaseRec
          /\ \/ lease'[k] = lease[k]
             \/ lease'[k] = [lease[k] EXCEPT !.conn = 0]
      BY <1>2 DEF RemoveConn, Detached, TypeOK, NoConn
    <3> QED
      BY <2>1, <3>1, SpentForms
  <2> QED
    BY <2>1 DEF SpentStays
<1>3. ASSUME Current(c, f) PROVE ~Spent(l)
  BY <1>3 DEF Current, Spent, Conn, NoConn
<1>4. CASE OnHeartbeat(c) /\ Current(c, f)
  <2>1. \A k \in Job \ {f.job} : lease'[k] = lease[k]
    BY <1>4 DEF OnHeartbeat, TypeOK
  <2> HIDE DEF f
  <2> QED
    BY <1>3, <1>4, <2>1 DEF SpentStays
<1>5. CASE OnNextEvent(c)
  <2>1. Current(c, f)
    BY <1>5, Zenon DEF OnNextEvent
  <2>2. \E m : lease' = [lease EXCEPT ![f.job] = m]
    BY <1>5 DEF OnNextEvent
  <2> HIDE DEF f
  <2>3. \A k \in Job \ {f.job} : lease'[k] = lease[k]
    BY <2>2 DEF TypeOK
  <2> QED
    BY <1>3, <2>1, <2>3 DEF SpentStays
<1>6. CASE OnReleased(c) /\ heeded
  <2> DEFINE m == [l EXCEPT !.finished = TRUE, !.events = Append(@, f.ev)]
  <2>1. f.job \in Job
    <3>1. Gets(c, "released") /\ Took(c)
      BY <1>6, Zenon DEF OnReleased
    <3>2. f \in FrameRec /\ f.type = "released"
      BY <3>1, GetsTyped, Zenon
    <3> HIDE DEF f
    <3> QED
      BY <3>2, FrameKinds
  <2>2. lease' = [lease EXCEPT ![f.job] = m] /\ l \in LeaseRec
    BY <1>6, <2>1 DEF OnReleased, TypeOK
  <2>3. Spent(l) => Spent(m)
    BY <2>2, SpentForms
  <2> HIDE DEF m, f
  <2> QED
    BY <2>1, <2>2, <2>3, OneSpent
<1>7. CASE \/ OnReady(c) \/ OnStaleEvent(c)
           \/ OnHeartbeat(c) /\ ~Current(c, f)
           \/ OnReleased(c) /\ ~heeded
  BY <1>1, <1>7 DEF OnReady, OnStaleEvent, OnHeartbeat, OnReleased, hub
<1> QED
  BY <1>2, <1>4, <1>5, <1>6, <1>7 DEF ChannelStep

LEMMA RunnerSpends ==
    ASSUME TypeOK, NEW j \in Job, RunnerStep(j)
    PROVE  \A k \in Job : SpentStays(k) \/ (k = j /\ Claim(j))
<1>1. lease[j] \in LeaseRec
  BY DEF TypeOK
<1>2. CASE UNCHANGED lease
  BY <1>2 DEF SpentStays
<1>3. CASE lease' = [lease EXCEPT ![j] = NoLease]
  BY <1>3, OneSpent
<1>4. CASE Claim(j)
  <2>1. \E m : lease' = [lease EXCEPT ![j] = m]
    BY <1>4 DEF Claim
  <2> QED
    BY <1>4, <2>1 DEF TypeOK, SpentStays
<1>5. CASE (OnFeatures(j) /\ ~UNCHANGED lease) \/ NoticeCancel(j) \/ FindExpired(j)
  <2>1. PICK m : /\ lease' = [lease EXCEPT ![j] = m]
                 /\ \/ m = [lease[j] EXCEPT !.rerouting = TRUE]
                    \/ m = [lease[j] EXCEPT !.cancelled = TRUE]
                    \/ m = [lease[j] EXCEPT !.time = "lost"]
    BY <1>5 DEF OnFeatures, NoticeCancel, FindExpired, TypeOK
  <2>2. Spent(lease[j]) => Spent(m)
    BY <1>1, <2>1, SpentForms
  <2> QED
    BY <2>1, <2>2, OneSpent
<1>6. CASE RunOrphan(j) \/ EndLease(j) \/ RunnerPanics(j)
  BY <1>2, <1>3, <1>6 DEF RunOrphan, EndLease, RunnerPanics
<1>7. CASE \/ Start(j) \/ GiveUp(j) \/ SaveLeased(j) \/ OnResult(j)
           \/ Publish(j) \/ Registered(j) \/ OnError(j) \/ OnRelease(j)
           \/ LetLeaseGo(j) \/ StoreRequeue(j)
  BY <1>2, <1>7 DEF Start, GiveUp, SaveLeased, OnResult, Publish, Registered,
     OnError, OnRelease, LetLeaseGo, StoreRequeue, hub
<1> QED
  BY <1>2, <1>4, <1>5, <1>6, <1>7 DEF RunnerStep

\* Only a claim, or a restart, makes a lease where there was none.
LEMMA ClaimedOnly ==
    ASSUME ClaimBase, [Next]_vars, NEW k \in Job, ~Held(k), lease'[k] # NoLease
    PROVE  Claim(k) \/ Restart
<1>1. TypeOK /\ FenceInv /\ lease'[k] # lease[k]
  BY DEF ClaimBase, LifeInv, FenceInv, Held
<1>2. CASE UNCHANGED lease
  BY <1>1, <1>2
<1>3. ASSUME NEW a \in Agent, AgentStep(a) PROVE LeaseStands(k)
  <2>1. CASE \/ JobProgress(a) \/ JobFinished(a) \/ JobKilled(a)
             \/ HoldExpires(a) \/ Heartbeat(a) \/ OnOrder(a) \/ Disconnect(a)
             \/ AgentCrash(a)
    BY <2>1 DEF JobProgress, JobFinished, JobKilled, HoldExpires, Heartbeat,
       OnOrder, Disconnect, AgentCrash, hub, LeaseStands
  <2> QED
    BY <1>1, <1>3, <2>1, UploadStands, ConnectStands DEF AgentStep
<1>4. ASSUME NEW j \in Job, RunnerStep(j) PROVE Claim(k)
  <2>1. k = j
    BY <1>1, <1>4, StepOn DEF Elsewhere, ClaimBase
  <2>2. runner[k].pc \notin Owning
    BY <1>1 DEF FenceInv, Fence
  <2>3. ~(\/ RunOrphan(k) \/ OnFeatures(k) \/ NoticeCancel(k) \/ FindExpired(k)
          \/ EndLease(k) \/ RunnerPanics(k))
    BY <2>2 DEF RunOrphan, OnFeatures, NoticeCancel, FindExpired, EndLease,
       RunnerPanics, Received, At, Owning
  <2>4. CASE \/ Start(k) \/ GiveUp(k) \/ SaveLeased(k) \/ OnResult(k)
             \/ Publish(k) \/ Registered(k) \/ OnError(k) \/ OnRelease(k)
             \/ LetLeaseGo(k) \/ StoreRequeue(k)
    <3>1. UNCHANGED lease
      BY <2>4 DEF Start, GiveUp, SaveLeased, OnResult, Publish, Registered,
         OnError, OnRelease, LetLeaseGo, StoreRequeue, hub
    <3> QED
      BY <1>1, <3>1
  <2> QED
    BY <1>4, <2>1, <2>3, <2>4 DEF RunnerStep
<1>5. CASE (\E j \in Job : UserCancel(j)) \/ Stop \/ UNCHANGED vars
  BY <1>2, <1>5 DEF UserCancel, Stop, vars, hub
<1> QED
  BY <1>1, <1>3, <1>4, <1>5, ChannelStands, ExpireStands DEF Next, LeaseStands

\* A lease that no claim and no restart has made is the one there was.
LEMMA LeaseWas ==
    ASSUME ClaimBase, [Next]_vars, NEW k \in Job, lease'[k] # NoLease,
           ~Claim(k), ~runner'[k].adopted
    PROVE  /\ Held(k) /\ lease'[k].agent = lease[k].agent
           /\ ~runner[k].adopted /\ (Spent(lease[k]) => Spent(lease'[k]))
<1>1. TypeOK /\ JobOn(k)
  BY NextOn DEF ClaimBase, LifeInv, FenceInv
<1>2. Restart => runner'[k].adopted
  BY RestartParts DEF Orphan, Fresh
<1>3. Held(k)
  BY <1>2, ClaimedOnly
<1>4. runner[k].pc # "claiming"
  BY <1>3 DEF ClaimBase, LifeInv, FenceInv, Fence, Owning
<1>5. LeaseOn(lease[k], lease'[k]) /\ RunnerOn(runner[k], runner'[k])
  BY <1>1, <1>4 DEF JobOn, On, GivenOut, Adopted
<1>6. SpentStays(k)
  <2>1. CASE \E j \in Job : Expire(j)
    <3>1. PICK j \in Job : /\ lease[j].time = "live"
                           /\ lease' = [lease EXCEPT ![j].time = "due"]
      BY <2>1 DEF Expire
    <3>2. k # j => lease'[k] = lease[k]
      BY <1>1, <3>1 DEF TypeOK
    <3> QED
      BY <3>1, <3>2 DEF SpentStays, Spent
  <2>2. CASE (\E j \in Job : UserCancel(j)) \/ Stop \/ UNCHANGED vars
    BY <2>2 DEF UserCancel, Stop, vars, hub, SpentStays
  <2> QED
    BY <1>1, <1>2, <2>1, <2>2, AgentSpends, ChannelSpends, RunnerSpends DEF Next
<1> QED
  BY <1>3, <1>5, <1>6 DEF LeaseOn, RunnerOn, SpentStays

\* A claim skips the agents that another job's lease keeps busy.
LEMMA ClaimFinds ==
    ASSUME ClaimBase, NEW j \in Job, Claim(j), NEW k \in Job \ {j},
           lease'[k] # NoLease, lease'[k].agent = lease'[j].agent
    PROVE  Spent(lease'[k])
<1>1. TypeOK /\ Elsewhere(j)
  BY StepOn DEF ClaimBase, LifeInv, FenceInv, RunnerStep
<1>2. PICK c \in Conn : /\ Free(c, j)
                        /\ lease' = [lease EXCEPT ![j] =
                             NewLease(c, conn[c].agent, runner[j].epoch)]
  BY DEF Claim
<1>3. lease'[j].agent = conn[c].agent /\ lease'[k] = lease[k]
  BY <1>1, <1>2 DEF TypeOK, NewLease, Elsewhere
<1>4. ~Busy(conn[c].agent, j)
  BY <1>2 DEF Free
<1> QED
  BY <1>3, <1>4 DEF Busy, Held, Spent

LEMMA NextOneLease ==
    ASSUME ClaimBase, OneLease, [Next]_vars
    PROVE  OneLease'
<1> SUFFICES ASSUME NEW j \in Job, NEW k \in Job, j # k,
                    lease'[j] # NoLease, lease'[k] # NoLease,
                    lease'[j].agent = lease'[k].agent,
                    ~runner'[j].adopted, ~runner'[k].adopted
             PROVE  Spent(lease'[j]) \/ Spent(lease'[k])
  BY DEF OneLease, Held, Spent
<1>1. CASE Claim(j) \/ Claim(k)
  BY <1>1, ClaimFinds
<1>2. CASE ~Claim(j) /\ ~Claim(k)
  BY <1>2, LeaseWas DEF OneLease
<1> QED
  BY <1>1, <1>2

\* An agent has one lease at a time: of two with one agent, one is known to
\* have run out, or a restart adopted it (workers.rs `claim`, `pick_agent`).
THEOREM OneLeaseEach == Spec => []OneLease
<1>1. Init => OneLease
  BY DEF Init, OneLease, Held
<1>2. ClaimBase /\ OneLease /\ [Next]_vars => OneLease'
  BY NextOneLease
<1> QED
  BY <1>1, <1>2, BaseInvariant, PTL DEF Spec

\* Without a restart, one of the two has run out.
THEOREM OneLeaseWithoutRestart == Spec => [](restarts = 0 => OneLeasePerAgent)
<1>1. OneLease /\ AttemptInv => (restarts = 0 => OneLeasePerAgent)
  BY DEF OneLease, AttemptInv, TriesInv, TriesAt, OneLeasePerAgent, Spent
<1> QED
  BY <1>1, OneLeaseEach, WordsInvariant, PTL

-----------------------------------------------------------------------------
\* The channel of a lease.

USE DEF NoJob, NoConn, Conn

-----------------------------------------------------------------------------
\* The events of attempt e of job j in q are numbered lo to hi, in order.
OfAttempt(f, j, e) == f.type = "event" /\ f.job = j /\ f.epoch = e
Numbered(q, j, e, lo, hi) ==
    /\ lo <= hi + 1
    /\ \A k \in DOMAIN q : OfAttempt(q[k], j, e) => q[k].seq \in lo .. hi
    /\ \A k, l \in DOMAIN q :
         OfAttempt(q[k], j, e) /\ OfAttempt(q[l], j, e) /\ k < l
         => q[k].seq < q[l].seq
    /\ \A n \in lo .. hi :
         \E k \in DOMAIN q : OfAttempt(q[k], j, e) /\ q[k].seq = n

\* None of them in q.
Silent(q, j, e) == \A k \in DOMAIN q : ~OfAttempt(q[k], j, e)

LEMMA SilentNumbers ==
    ASSUME NEW q, NEW j, NEW e, Silent(q, j, e), NEW n \in Int
    PROVE  Numbered(q, j, e, n, n - 1)
BY DEF Silent, Numbered

LEMMA TailSilent ==
    ASSUME NEW S, NEW q \in Seq(S), q # <<>>, NEW j, NEW e, Silent(q, j, e)
    PROVE  Silent(Tail(q), j, e)
<1>1. /\ DOMAIN Tail(q) = 1 .. Len(q) - 1 /\ DOMAIN q = 1 .. Len(q)
      /\ Len(q) \in Nat /\ Len(q) > 0
      /\ \A k \in 1 .. Len(q) - 1 : Tail(q)[k] = q[k + 1]
  OBVIOUS
<1> QED
  BY <1>1 DEF Silent

\* The hub reads a frame.
LEMMA TailNumbers ==
    ASSUME NEW S, NEW q \in Seq(S), q # <<>>, NEW j, NEW e,
           NEW lo \in Int, NEW hi \in Int, Numbered(q, j, e, lo, hi)
    PROVE  /\ OfAttempt(Head(q), j, e)
              => Head(q).seq = lo /\ Numbered(Tail(q), j, e, lo + 1, hi)
           /\ ~OfAttempt(Head(q), j, e) => Numbered(Tail(q), j, e, lo, hi)
<1> DEFINE t == Tail(q)
           n == Len(q)
<1>1. /\ DOMAIN t = 1 .. n - 1 /\ DOMAIN q = 1 .. n /\ n \in Nat /\ n > 0
      /\ Head(q) = q[1]
      /\ \A k \in 1 .. n - 1 : t[k] = q[k + 1]
  OBVIOUS
<1> DEFINE O(f) == OfAttempt(f, j, e)
<1>2. /\ lo <= hi + 1
      /\ \A k \in 1 .. n : O(q[k]) => q[k].seq \in lo .. hi
      /\ \A k, l \in 1 .. n : O(q[k]) /\ O(q[l]) /\ k < l => q[k].seq < q[l].seq
      /\ \A m \in lo .. hi : \E k \in 1 .. n : O(q[k]) /\ q[k].seq = m
  BY <1>1 DEF Numbered
<1> HIDE DEF t, n, O
<1>3. \A k, l \in 1 .. n - 1 : O(t[k]) /\ O(t[l]) /\ k < l => t[k].seq < t[l].seq
  <2> TAKE k, l \in 1 .. n - 1
  <2>1. k + 1 \in 1 .. n /\ l + 1 \in 1 .. n /\ (k < l => k + 1 < l + 1)
    BY <1>1
  <2>2. t[k] = q[k + 1] /\ t[l] = q[l + 1]
    BY <1>1
  <2> QED
    BY <1>2, <2>1, <2>2
<1>4. ASSUME NEW k \in 1 .. n, k # 1
      PROVE  k - 1 \in 1 .. n - 1 /\ t[k - 1] = q[k]
  <2>1. k - 1 \in 1 .. n - 1 /\ (k - 1) + 1 = k
    BY <1>1, <1>4
  <2> QED
    BY <1>1, <2>1
<1>5. \A k \in 1 .. n - 1 : O(t[k]) => t[k].seq \in lo .. hi
  <2> TAKE k \in 1 .. n - 1
  <2>1. k + 1 \in 1 .. n /\ t[k] = q[k + 1]
    BY <1>1
  <2> QED
    BY <1>2, <2>1
<1>6. CASE O(q[1])
  <2>0. 1 \in 1 .. n
    BY <1>1
  <2>1. q[1].seq \in lo .. hi
    BY <1>2, <1>6, <2>0
  <2>2. PICK k \in 1 .. n : O(q[k]) /\ q[k].seq = lo
    <3>1. lo \in lo .. hi
      BY <2>1
    <3> QED
      BY <1>2, <3>1
  <2>3. q[1].seq = lo
    <3>1. k = 1 \/ 1 < k
      BY <1>1
    <3>2. 1 < k => q[1].seq < q[k].seq
      BY <1>2, <1>6, <2>0, <2>2
    <3> QED
      BY <2>1, <2>2, <3>1, <3>2
  <2>4. \A i \in 1 .. n - 1 : O(t[i]) => t[i].seq \in lo + 1 .. hi
    <3> TAKE i \in 1 .. n - 1
    <3>1. i + 1 \in 1 .. n /\ t[i] = q[i + 1] /\ 1 < i + 1
      BY <1>1
    <3>2. O(t[i]) => q[1].seq < q[i + 1].seq
      BY <1>2, <1>6, <2>0, <3>1
    <3> QED
      BY <1>5, <2>3, <3>1, <3>2
  <2>5. \A m \in lo + 1 .. hi : \E i \in 1 .. n - 1 : O(t[i]) /\ t[i].seq = m
    <3> TAKE m \in lo + 1 .. hi
    <3>1. m \in lo .. hi /\ m # lo
      OBVIOUS
    <3>2. PICK i \in 1 .. n : O(q[i]) /\ q[i].seq = m
      BY <1>2, <3>1
    <3>3. i # 1
      BY <2>3, <3>1, <3>2
    <3>4. i - 1 \in 1 .. n - 1 /\ t[i - 1] = q[i]
      BY <1>4, <3>3
    <3> QED
      BY <3>2, <3>4
  <2>6. lo + 1 <= hi + 1
    BY <2>1
  <2>7. Numbered(t, j, e, lo + 1, hi)
    BY <1>1, <1>3, <2>4, <2>5, <2>6 DEF Numbered, O
  <2> QED
    BY <1>1, <1>6, <2>3, <2>7 DEF t, O
<1>7. CASE ~O(q[1])
  <2>1. \A m \in lo .. hi : \E i \in 1 .. n - 1 : O(t[i]) /\ t[i].seq = m
    <3> TAKE m \in lo .. hi
    <3>1. PICK i \in 1 .. n : O(q[i]) /\ q[i].seq = m
      BY <1>2
    <3>2. i # 1
      BY <1>7, <3>1
    <3>3. i - 1 \in 1 .. n - 1 /\ t[i - 1] = q[i]
      BY <1>4, <3>2
    <3> QED
      BY <3>1, <3>3
  <2>2. Numbered(t, j, e, lo, hi)
    BY <1>1, <1>2, <1>3, <1>5, <2>1 DEF Numbered, O
  <2> QED
    BY <1>1, <1>7, <2>2 DEF t, O
<1> QED
  BY <1>6, <1>7

\* An agent writes frames after those under way.
LEMMA JoinNumbers ==
    ASSUME NEW S, NEW q \in Seq(S), NEW r \in Seq(S), NEW j, NEW e,
           NEW lo \in Int, NEW mid \in Int, NEW hi \in Int,
           Numbered(q, j, e, lo, mid), Numbered(r, j, e, mid + 1, hi)
    PROVE  Numbered(q \o r, j, e, lo, hi)
<1> DEFINE p == q \o r
           m == Len(q)
           n == Len(r)
           O(f) == OfAttempt(f, j, e)
<1>1. /\ DOMAIN p = 1 .. m + n /\ DOMAIN q = 1 .. m /\ DOMAIN r = 1 .. n
      /\ m \in Nat /\ n \in Nat
      /\ \A k \in 1 .. m + n : p[k] = IF k <= m THEN q[k] ELSE r[k - m]
  OBVIOUS
<1>2. /\ lo <= mid + 1
      /\ \A k \in 1 .. m : O(q[k]) => q[k].seq \in lo .. mid
      /\ \A k, l \in 1 .. m : O(q[k]) /\ O(q[l]) /\ k < l => q[k].seq < q[l].seq
      /\ \A i \in lo .. mid : \E k \in 1 .. m : O(q[k]) /\ q[k].seq = i
  BY <1>1 DEF Numbered
<1>3. /\ mid + 1 <= hi + 1
      /\ \A k \in 1 .. n : O(r[k]) => r[k].seq \in mid + 1 .. hi
      /\ \A k, l \in 1 .. n : O(r[k]) /\ O(r[l]) /\ k < l => r[k].seq < r[l].seq
      /\ \A i \in mid + 1 .. hi : \E k \in 1 .. n : O(r[k]) /\ r[k].seq = i
  BY <1>1 DEF Numbered
<1> HIDE DEF p, m, n, O
<1>4. \A k \in 1 .. m + n : \/ k \in 1 .. m /\ p[k] = q[k]
                            \/ k - m \in 1 .. n /\ p[k] = r[k - m] /\ k > m
  BY <1>1
<1>5. \A k \in 1 .. m + n : O(p[k]) => p[k].seq \in lo .. hi
  <2> TAKE k \in 1 .. m + n
  <2>1. CASE k \in 1 .. m /\ p[k] = q[k]
    BY <1>2, <1>3, <2>1
  <2>2. CASE k - m \in 1 .. n /\ p[k] = r[k - m]
    <3>1. O(p[k]) => p[k].seq \in mid + 1 .. hi
      BY <1>3, <2>2
    <3> QED
      BY <1>2, <3>1
  <2> QED
    BY <1>4, <2>1, <2>2
<1>6. \A k, l \in 1 .. m + n : O(p[k]) /\ O(p[l]) /\ k < l => p[k].seq < p[l].seq
  <2> SUFFICES ASSUME NEW k \in 1 .. m + n, NEW l \in 1 .. m + n,
                      O(p[k]), O(p[l]), k < l
               PROVE  p[k].seq < p[l].seq
    OBVIOUS
  <2>1. CASE k \in 1 .. m /\ p[k] = q[k] /\ l \in 1 .. m /\ p[l] = q[l]
    BY <1>2, <2>1
  <2>2. CASE k \in 1 .. m /\ p[k] = q[k] /\ l - m \in 1 .. n /\ p[l] = r[l - m]
    <3>1. p[k].seq \in lo .. mid
      BY <1>2, <2>2
    <3>2. p[l].seq \in mid + 1 .. hi
      BY <1>3, <2>2
    <3> QED
      BY <3>1, <3>2
  <2>3. CASE k - m \in 1 .. n /\ p[k] = r[k - m] /\ l - m \in 1 .. n
             /\ p[l] = r[l - m]
    <3>1. k - m < l - m
      BY <1>1
    <3> QED
      BY <1>3, <2>3, <3>1
  <2>4. ~(k > m /\ l \in 1 .. m)
    BY <1>1
  <2> QED
    BY <1>4, <2>1, <2>2, <2>3, <2>4
<1>7. \A i \in lo .. hi : \E k \in 1 .. m + n : O(p[k]) /\ p[k].seq = i
  <2> TAKE i \in lo .. hi
  <2>1. CASE i \in lo .. mid
    <3>1. PICK k \in 1 .. m : O(q[k]) /\ q[k].seq = i
      BY <1>2, <2>1
    <3>2. k \in 1 .. m + n /\ p[k] = q[k]
      BY <1>1
    <3> QED
      BY <3>1, <3>2
  <2>2. CASE i \in mid + 1 .. hi
    <3>1. PICK k \in 1 .. n : O(r[k]) /\ r[k].seq = i
      BY <1>3, <2>2
    <3>2. k + m \in 1 .. m + n /\ ~(k + m <= m) /\ (k + m) - m = k
      BY <1>1
    <3>3. p[k + m] = r[k]
      BY <1>1, <3>2
    <3> QED
      BY <3>1, <3>2, <3>3
  <2> QED
    BY <2>1, <2>2
<1>8. lo <= hi + 1 /\ DOMAIN p = 1 .. m + n
  BY <1>1, <1>2, <1>3
<1>9. Numbered(p, j, e, lo, hi)
  BY <1>5, <1>6, <1>7, <1>8 DEF Numbered, O
<1> QED
  BY <1>9 DEF p

LEMMA JoinSilent ==
    ASSUME NEW S, NEW q \in Seq(S), NEW r \in Seq(S), NEW j, NEW e,
           NEW lo \in Int, NEW hi \in Int, Numbered(q, j, e, lo, hi),
           Silent(r, j, e)
    PROVE  Numbered(q \o r, j, e, lo, hi)
<1>1. Numbered(r, j, e, hi + 1, hi)
  BY SilentNumbers
<1> QED
  BY <1>1, JoinNumbers

-----------------------------------------------------------------------------
\* What an agent writes.

\* No more is written than the outbox has, and no event waits outside it.
Orderly(s) == /\ None(s.pending, "event")
              /\ s.cur.out.written <= Len(s.cur.out.evs)

LEMMA OutboxNumbers ==
    ASSUME NEW o \in OutboxRec, o.written <= Len(o.evs)
    PROVE  /\ \A ev \in JobEvent :
                LET p == Push(o, ev)
                IN  p.written <= Len(p.evs) /\ p.last = o.last
           /\ \A acked \in Int :
                /\ LET p == Ack(o, acked)
                   IN  p.written <= Len(p.evs) /\ p.last = o.last
                /\ LET p == Rewind(o, acked)
                   IN  p.written <= Len(p.evs) /\ p.last = acked
           /\ LET p == Flushed(o)
              IN  /\ p.written <= Len(p.evs)
                  /\ p.last = o.last + (Len(o.evs) - o.written)
<1>1. /\ o.evs \in Seq(JobEvent) /\ o.written \in Nat /\ o.last \in Int
      /\ Len(o.evs) \in Nat
  BY DEF OutboxRec
<1>2. ASSUME NEW ev \in JobEvent
      PROVE  LET p == Push(o, ev)
             IN  p.written <= Len(p.evs) /\ p.last = o.last
  <2>1. LET p == Push(o, ev)
        IN  p.evs = Append(o.evs, ev) /\ p.written = o.written /\ p.last = o.last
    BY DEF Push, OutboxRec
  <2>2. Len(Append(o.evs, ev)) = Len(o.evs) + 1
    BY <1>1
  <2> QED
    BY <1>1, <2>1, <2>2
<1>3. ASSUME NEW acked \in Int
      PROVE  /\ LET p == Ack(o, acked)
                IN  p.written <= Len(p.evs) /\ p.last = o.last
             /\ LET p == Rewind(o, acked)
                IN  p.written <= Len(p.evs) /\ p.last = acked
  <2> DEFINE n == Covered(o, acked)
             p == Ack(o, acked)
  <2>1. n \in 0 .. o.written
    BY CoveredBound
  <2>2. /\ p.evs = SubSeq(o.evs, n + 1, Len(o.evs))
        /\ p.written = o.written - n /\ p.last = o.last
    BY DEF Ack, OutboxRec
  <2> HIDE DEF n
  <2>3. Len(SubSeq(o.evs, n + 1, Len(o.evs))) = Len(o.evs) - n
    BY <1>1, <2>1
  <2>4. Rewind(o, acked) = [p EXCEPT !.written = 0, !.last = acked]
    BY DEF Rewind
  <2>5. p \in OutboxRec
    BY AckTyped
  <2> HIDE DEF p
  <2>6. LET w == Rewind(o, acked)
        IN  w.written = 0 /\ w.last = acked /\ w.evs = p.evs
    BY <2>4, <2>5 DEF OutboxRec
  <2> QED
    BY <1>1, <2>1, <2>2, <2>3, <2>6 DEF p
<1>4. LET p == Flushed(o)
      IN  /\ p.written = Len(o.evs) /\ p.evs = o.evs
          /\ p.last = o.last + (Len(o.evs) - o.written)
  BY DEF Flushed, OutboxRec
<1> QED
  BY <1>1, <1>2, <1>3, <1>4

\* A turn from s to t goes on with the numbering of s.
Continues(s, t) ==
    /\ t.link = s.link /\ Orderly(t)
    /\ Runs(t) => /\ Runs(s) /\ t.cur.out.last = s.cur.out.last
                  /\ t.cur.job = s.cur.job /\ t.cur.epoch = s.cur.epoch

LEMMA LetGoContinues ==
    ASSUME NEW s \in AgentRec, Orderly(s), Holds(s), NEW why \in Reason \cup {"no"}
    PROVE  Continues(s, LetGo(s, why))
<1> DEFINE f == Frame("released", s.cur.job, s.cur.epoch, 0, why)
           p == IF why = "no" THEN s.pending ELSE Append(s.pending, f)
           t == LetGo(s, why)
<1>1. f.type # "event"
  BY DEF Frame
<1>2. why # "no" => f \in FrameRec
  <2>1. s.cur.job \in Job /\ s.cur.epoch \in Nat
    BY DEF Holds, AgentRec, CurrentRec
  <2> QED
    BY <2>1, FrameTyped
<1>3. s.pending \in Seq(FrameRec)
  BY DEF AgentRec
<1>4. t = [s EXCEPT !.cur = Idle, !.ready = TRUE, !.pending = p]
  BY DEF LetGo
<1> HIDE DEF f, t
<1>5. None(p, "event")
  BY <1>1, <1>2, <1>3, Appends DEF Orderly
<1> HIDE DEF p
<1>6. t.link = s.link /\ t.pending = p /\ t.cur = Idle
  BY <1>4 DEF AgentRec
<1>7. /\ Idle.job = NoJob /\ Idle.out.written = 0 /\ Idle.out.evs = <<>>
      /\ Len(<<>>) = 0
  BY DEF Idle, EmptyOutbox
<1> QED
  BY <1>5, <1>6, <1>7 DEF Continues, Orderly, Runs, Holds, t

LEMMA StoppedContinues ==
    ASSUME NEW s \in AgentRec, Orderly(s), Holds(s), NEW why \in Reason
    PROVE  Continues(s, Stopped(s, why))
<1> DEFINE t == [s EXCEPT !.cur.released = why]
<1>1. /\ t.link = s.link /\ t.pending = s.pending
      /\ t.cur.out = s.cur.out /\ t.cur.released = why
  BY DEF AgentRec, CurrentRec
<1>2. why # "no"
  BY DEF Reason
<1> HIDE DEF t
<1>3. Continues(s, t)
  BY <1>1, <1>2 DEF Continues, Orderly, Runs
<1> QED
  BY <1>3, LetGoContinues DEF Stopped, t

LEMMA QueueContinues ==
    ASSUME NEW s \in AgentRec, Orderly(s), NEW f \in FrameRec, f.type # "event"
    PROVE  Continues(s, Queue(s, f))
<1>1. s.pending \in Seq(FrameRec)
  BY DEF AgentRec
<1>2. None(Append(s.pending, f), "event")
  BY <1>1, Appends DEF Orderly
<1>3. /\ Queue(s, f).link = s.link /\ Queue(s, f).cur = s.cur
      /\ Queue(s, f).pending = Append(s.pending, f)
  BY DEF Queue, AgentRec
<1> QED
  BY <1>2, <1>3 DEF Continues, Orderly, Runs, Holds

\* An agent's own step may change its outbox, but not the last number.
LEMMA OutContinues ==
    ASSUME NEW s \in AgentRec, Orderly(s), NEW t,
           t.link = s.link, t.pending = s.pending,
           t.cur.job = s.cur.job, t.cur.epoch = s.cur.epoch,
           t.cur.released = s.cur.released,
           t.cur.out.written <= Len(t.cur.out.evs),
           t.cur.out.last = s.cur.out.last
    PROVE  Continues(s, t)
BY DEF Continues, Orderly, Runs, Holds

LEMMA OrdersContinue ==
    ASSUME NEW s \in AgentRec, Orderly(s), NEW m \in OrderRec
    PROVE  /\ m.type = "cancel" => Continues(s, Cancelled(s, m))
           /\ m.type = "verdict" => Continues(s, Answered(s, m))
           /\ m.type = "renewed" => Continues(s, Renewed(s, m))
<1>1. m.type # "close" => m.job \in Job /\ m.epoch \in Nat /\ m.acked \in Int
  BY OrderKinds
<1>2. m.type # "close" /\ HoldsThat(s, m.job, m.epoch) => Holds(s)
  BY <1>1, NoJobs DEF HoldsThat, Holds
<1>3. ASSUME m.type = "cancel" PROVE Continues(s, Cancelled(s, m))
  <2>1. m.why \in Reason
    BY <1>3, OrderKinds
  <2>2. Frame("released", m.job, m.epoch, 0, m.why) \in FrameRec
    BY <1>1, <1>3, <2>1, FrameTyped
  <2>3. Frame("released", m.job, m.epoch, 0, m.why).type # "event"
    BY DEF Frame
  <2> QED
    BY <1>2, <1>3, <2>1, <2>2, <2>3, StoppedContinues, QueueContinues DEF Cancelled
<1>4. Continues(s, s)
  BY DEF Continues
<1>5. m.type = "verdict" => Continues(s, Answered(s, m))
  BY <1>2, <1>4, LetGoContinues DEF Answered
<1>6. ASSUME m.type = "renewed" PROVE Continues(s, Renewed(s, m))
  <2> DEFINE o == Ack(s.cur.out, m.acked)
             t == [s EXCEPT !.cur.out = o]
  <2>1. s.cur.out \in OutboxRec
    BY DEF AgentRec, CurrentRec
  <2>2. o.written <= Len(o.evs) /\ o.last = s.cur.out.last
    BY <1>1, <1>6, <2>1, OutboxNumbers DEF Orderly
  <2> HIDE DEF o
  <2>3. /\ t.link = s.link /\ t.pending = s.pending /\ t.cur.out = o
        /\ t.cur.job = s.cur.job /\ t.cur.epoch = s.cur.epoch
        /\ t.cur.released = s.cur.released
    BY DEF AgentRec, CurrentRec
  <2> HIDE DEF t
  <2>4. Continues(s, t)
    BY <2>2, <2>3, OutContinues
  <2>5. Renewed(s, m) \in {s, t}
    BY DEF Renewed, t, o
  <2> QED
    BY <1>4, <2>4, <2>5
<1> QED
  BY <1>3, <1>5, <1>6

LEMMA ReportsContinue ==
    ASSUME NEW s \in AgentRec, Orderly(s), NEW ev \in JobEvent, NEW done
    PROVE  Continues(s, Reports(s, ev)) /\ Continues(s, EndsWith(s, ev, done))
<1> DEFINE o == Push(s.cur.out, ev)
           t == Reports(s, ev)
           u == EndsWith(s, ev, done)
<1>1. s.cur.out \in OutboxRec
  BY DEF AgentRec, CurrentRec
<1>2. o.written <= Len(o.evs) /\ o.last = s.cur.out.last
  BY <1>1, OutboxNumbers DEF Orderly
<1> HIDE DEF o
<1>3. /\ t.link = s.link /\ t.pending = s.pending /\ t.cur.out = o
      /\ t.cur.job = s.cur.job /\ t.cur.epoch = s.cur.epoch
      /\ t.cur.released = s.cur.released
  BY DEF Reports, AgentRec, CurrentRec, o
<1>4. /\ u.link = s.link /\ u.pending = s.pending /\ u.cur.out = o
      /\ u.cur.job = s.cur.job /\ u.cur.epoch = s.cur.epoch
      /\ u.cur.released = s.cur.released
  BY DEF EndsWith, AgentRec, CurrentRec, o
<1> HIDE DEF t, u
<1>5. Continues(s, t) /\ Continues(s, u)
  BY <1>2, <1>3, <1>4, OutContinues
<1> QED
  BY <1>5 DEF t, u

\* The job that is assigned begins with an empty outbox.
LEMMA AssignedBegins ==
    ASSUME NEW s \in AgentRec, Orderly(s), ~Holds(s), NEW m
    PROVE  LET t == Assigned(s, m) IN
           /\ t.link = s.link /\ Orderly(t) /\ t.cur.out.last = 0
           /\ t.cur.job = m.job /\ t.cur.epoch = m.epoch
<1> DEFINE cur == [Idle EXCEPT !.job = m.job, !.epoch = m.epoch]
<1>1. /\ cur.job = m.job /\ cur.epoch = m.epoch
      /\ cur.out.last = 0 /\ cur.out.written = 0 /\ cur.out.evs = <<>>
      /\ Len(<<>>) = 0
  BY DEF Idle, EmptyOutbox
<1> HIDE DEF cur
<1>2. /\ Assigned(s, m).link = s.link /\ Assigned(s, m).pending = s.pending
      /\ Assigned(s, m).cur = cur
  BY DEF Assigned, AgentRec, cur
<1> QED
  BY <1>1, <1>2 DEF Orderly

-----------------------------------------------------------------------------
\* What a flush writes: the events of the job that runs, numbered on.

LEMMA EventsNumbered ==
    ASSUME NEW s \in AgentRec, Orderly(s)
    PROVE  LET o == s.cur.out  q == EventFrames(s) IN
           /\ Runs(s) => Numbered(q, s.cur.job, s.cur.epoch, o.last + 1,
                                  o.last + (Len(o.evs) - o.written))
           /\ \A j, e : ~(Runs(s) /\ HoldsThat(s, j, e)) => Silent(q, j, e)
<1> DEFINE o == s.cur.out
           n == Len(o.evs) - o.written
           q == EventFrames(s)
           j == s.cur.job
           e == s.cur.epoch
<1>1. o \in OutboxRec /\ o.last \in Int /\ n \in Nat
  BY DEF AgentRec, CurrentRec, OutboxRec, Orderly
<1>2. CASE Runs(s)
  <2>1. DOMAIN Unwritten(o) = 1 .. n /\ \A k \in 1 .. n : Unwritten(o)[k].seq = o.last + k
    BY DEF Unwritten
  <2>2. DOMAIN q = 1 .. n
    BY <1>2, <2>1 DEF EventFrames
  <2>3. \A k \in 1 .. n : /\ q[k].type = "event" /\ q[k].job = j /\ q[k].epoch = e
                          /\ q[k].seq = o.last + k
    BY <1>2, <2>1 DEF EventFrames, Frame
  <2> HIDE DEF q, n, o
  <2>4. \A k \in 1 .. n : OfAttempt(q[k], j, e)
    BY <2>3 DEF OfAttempt
  <2>5. \A i \in o.last + 1 .. o.last + n :
          \E k \in DOMAIN q : OfAttempt(q[k], j, e) /\ q[k].seq = i
    <3> TAKE i \in o.last + 1 .. o.last + n
    <3>1. i - o.last \in 1 .. n /\ o.last + (i - o.last) = i
      BY <1>1
    <3> QED
      BY <2>2, <2>3, <2>4, <3>1
  <2>6. Numbered(q, j, e, o.last + 1, o.last + n)
    <3>1. \A k \in 1 .. n : q[k].seq \in o.last + 1 .. o.last + n
      BY <1>1, <2>3
    <3>2. \A k, l \in 1 .. n : k < l => q[k].seq < q[l].seq
      BY <1>1, <2>3
    <3>3. o.last + 1 <= (o.last + n) + 1
      BY <1>1
    <3> QED
      BY <2>2, <2>5, <3>1, <3>2, <3>3 DEF Numbered
  <2>7. ASSUME NEW i, NEW d, ~HoldsThat(s, i, d)
        PROVE  Silent(q, i, d)
    BY <2>2, <2>3, <2>7 DEF Silent, OfAttempt, HoldsThat
  <2> QED
    BY <1>2, <2>6, <2>7 DEF q, n, o
<1>3. CASE ~Runs(s)
  <2>1. q = <<>>
    BY <1>3 DEF EventFrames
  <2> QED
    BY <1>3, <2>1 DEF Silent
<1> QED
  BY <1>2, <1>3

LEMMA JoinsSilent ==
    ASSUME NEW S, NEW q \in Seq(S), NEW r \in Seq(S), NEW j, NEW e,
           Silent(q, j, e), Silent(r, j, e)
    PROVE  Silent(q \o r, j, e)
<1>1. /\ DOMAIN (q \o r) = 1 .. Len(q) + Len(r)
      /\ DOMAIN q = 1 .. Len(q) /\ DOMAIN r = 1 .. Len(r)
      /\ Len(q) \in Nat /\ Len(r) \in Nat
      /\ \A k \in 1 .. Len(q) + Len(r) :
           (q \o r)[k] = IF k <= Len(q) THEN q[k] ELSE r[k - Len(q)]
  OBVIOUS
<1>2. ASSUME NEW k \in DOMAIN (q \o r)
      PROVE  \/ k \in DOMAIN q /\ (q \o r)[k] = q[k]
             \/ k - Len(q) \in DOMAIN r /\ (q \o r)[k] = r[k - Len(q)]
  BY <1>1
<1> QED
  BY <1>2 DEF Silent

LEMMA NoneSilent ==
    ASSUME NEW q, None(q, "event"), NEW j, NEW e
    PROVE  Silent(q, j, e)
BY DEF None, Silent, OfAttempt

LEMMA FlushNumbers ==
    ASSUME NEW s \in AgentRec, Orderly(s)
    PROVE  LET u == AfterFlush(s)
               o == s.cur.out
               hi == o.last + (Len(o.evs) - o.written)
           IN  /\ Orderly(u) /\ u.link = s.link /\ hi \in Int
               /\ Runs(u) => /\ Runs(s) /\ u.cur.out.last = hi
                             /\ u.cur.job = s.cur.job
                             /\ u.cur.epoch = s.cur.epoch
               /\ Runs(s) => Numbered(FramesOf(s), s.cur.job, s.cur.epoch,
                                      o.last + 1, hi)
               /\ \A j, e : ~(Runs(s) /\ HoldsThat(s, j, e))
                            => Silent(FramesOf(s), j, e)
<1> DEFINE u == AfterFlush(s)
           o == s.cur.out
           hi == o.last + (Len(o.evs) - o.written)
           v == AfterEvents(s)
           ready == <<Frame("ready", NoJob, 0, 0, "none")>>
           p == IF OwesReady(v) THEN ready ELSE <<>>
           q == EventFrames(s)
<1>1. o \in OutboxRec /\ o.last \in Int /\ hi \in Int /\ o.written <= Len(o.evs)
  BY DEF AgentRec, CurrentRec, OutboxRec, Orderly
<1>2. v \in AgentRec
  BY AfterEventsTyped
<1>3. /\ v.link = s.link
      /\ \/ v.cur = Idle
         \/ ~Runs(s) /\ v.cur = s.cur
         \/ /\ Runs(s) /\ v.cur.out = Flushed(o) /\ v.cur.released = s.cur.released
            /\ v.cur.job = s.cur.job /\ v.cur.epoch = s.cur.epoch
  BY DEF AfterEvents, AgentRec, CurrentRec
<1>4. /\ Idle.job = NoJob /\ Idle.out.written = 0 /\ Idle.out.evs = <<>>
      /\ Len(<<>>) = 0
  BY DEF Idle, EmptyOutbox
<1> HIDE DEF v
<1>5. u.pending = <<>> /\ u.cur = v.cur /\ u.link = v.link
  <2>1. u = [v EXCEPT !.pending = <<>>, !.ready = @ /\ Holds(v)]
    BY DEF AfterFlush, v
  <2> QED
    BY <1>2, <2>1 DEF AgentRec
<1> HIDE DEF u, o
<1>6. Flushed(o).written <= Len(Flushed(o).evs) /\ Flushed(o).last = hi
  BY <1>1, OutboxNumbers
<1>7. None(<<>>, "event")
  BY NoneOfNone
<1>8. /\ Orderly(u)
      /\ Runs(u) => /\ Runs(s) /\ u.cur.out.last = hi
                    /\ u.cur.job = s.cur.job /\ u.cur.epoch = s.cur.epoch
  <2>1. CASE v.cur = Idle
    BY <1>4, <1>5, <1>7, <2>1 DEF Orderly, Runs, Holds
  <2>2. CASE ~Runs(s) /\ v.cur = s.cur
    BY <1>1, <1>5, <1>7, <2>2 DEF Orderly, Runs, Holds, o
  <2>3. CASE /\ Runs(s) /\ v.cur.out = Flushed(o)
             /\ v.cur.job = s.cur.job /\ v.cur.epoch = s.cur.epoch
    BY <1>5, <1>6, <1>7, <2>3 DEF Orderly, Runs, Holds
  <2> QED
    BY <1>3, <2>1, <2>2, <2>3
<1>9. /\ s.pending \in Seq(FrameRec) /\ q \in Seq(FrameRec) /\ p \in Seq(FrameRec)
  <2>1. Frame("ready", NoJob, 0, 0, "none") \in FrameRec
    BY DEF FrameRec
  <2>2. ready \in Seq(FrameRec)
    BY <2>1
  <2> QED
    BY <2>2, EventFramesTyped DEF AgentRec
<1>10. FramesOf(s) = (s.pending \o q) \o p
  BY DEF FramesOf, v
<1>11. ASSUME NEW j, NEW e
       PROVE  Silent(s.pending, j, e) /\ Silent(p, j, e)
  <2>1. None(p, "event")
    BY DEF None, Frame
  <2> QED
    BY <2>1, NoneSilent DEF Orderly
<1> HIDE DEF p, q, hi, ready
<1>12. s.pending \o q \in Seq(FrameRec)
  BY <1>9
<1>13. ASSUME Runs(s)
       PROVE  Numbered(FramesOf(s), s.cur.job, s.cur.epoch, o.last + 1, hi)
  <2> DEFINE j == s.cur.job
             e == s.cur.epoch
  <2>1. Numbered(q, j, e, o.last + 1, hi)
    BY <1>13, EventsNumbered DEF q, hi, o
  <2>2. Numbered(s.pending, j, e, o.last + 1, o.last)
    <3>1. o.last + 1 \in Int /\ (o.last + 1) - 1 = o.last
      BY <1>1
    <3> QED
      BY <1>11, <3>1, SilentNumbers
  <2> HIDE DEF j, e
  <2>3. o.last + 1 \in Int
    BY <1>1
  <2>4. Numbered(s.pending \o q, j, e, o.last + 1, hi)
    BY <1>1, <1>9, <2>1, <2>2, <2>3, JoinNumbers
  <2>5. Numbered((s.pending \o q) \o p, j, e, o.last + 1, hi)
    BY <1>1, <1>9, <1>11, <1>12, <2>3, <2>4, JoinSilent
  <2> QED
    BY <1>10, <2>5 DEF j, e
<1>14. ASSUME NEW j, NEW e, ~(Runs(s) /\ HoldsThat(s, j, e))
       PROVE  Silent(FramesOf(s), j, e)
  <2>1. Silent(q, j, e)
    BY <1>14, EventsNumbered DEF q
  <2>2. Silent(s.pending \o q, j, e)
    BY <1>9, <1>11, <2>1, JoinsSilent
  <2> QED
    BY <1>9, <1>10, <1>11, <1>12, <2>2, JoinsSilent
<1> QED
  BY <1>1, <1>3, <1>5, <1>8, <1>13, <1>14 DEF u, o, hi

-----------------------------------------------------------------------------
\* The channel of a lease.

\* A lease's channel is open, and its agent's.
Attached(j) ==
    LET c == lease[j].conn IN
    c # NoConn => Open(c) /\ conn[c].agent = lease[j].agent

\* Under lease l of job j, the agent's state being s, the frames q and the
\* orders d under way on l's channel: the attempt's events go up to hi, the
\* last one the agent wrote, which is none if it has yet to begin.
NumberedTo(hi, j, l, s, q, d) ==
    /\ Numbered(q, j, l.epoch, l.next, hi)
    /\ s.link = l.conn =>
         /\ Runs(s) /\ HoldsThat(s, j, l.epoch) => s.cur.out.last = hi
         /\ Assigns(d, j, l.epoch) => hi = 0

NumberedAt(j) ==
    LET l == lease[j]
        c == l.conn
    IN  c # NoConn /\ l.time # "lost"
        => \E hi \in Int : NumberedTo(hi, j, l, agent[l.agent], up[c], down[c])

ChannelInv == /\ \A a \in Agent : Orderly(agent[a])
              /\ \A c \in Conn : ~Open(c) => up[c] = <<>>
              /\ \A j \in Job : Attached(j) /\ NumberedAt(j)

\* The hub lets the lease be, marks it, or detaches it.
LeaseSteady(l, m) ==
    \/ m.conn = NoConn
    \/ /\ m.conn = l.conn /\ m.agent = l.agent /\ m.epoch = l.epoch
       /\ m.next = l.next /\ (l.time = "lost" => m.time = "lost")

\* What goes on on channel c does not touch the numbers of the attempt.
OnSteady(c, j, e) ==
    /\ \A lo, hi \in Int : Numbered(up[c], j, e, lo, hi)
                           => Numbered(up'[c], j, e, lo, hi)
    /\ Assigns(down'[c], j, e) => Assigns(down[c], j, e)

\* Nor does what the agent does.
ByAgent(c, j, e, s, t) ==
    t.link = c => /\ s.link = c
                  /\ Runs(t) /\ HoldsThat(t, j, e)
                     => /\ Runs(s) /\ HoldsThat(s, j, e)
                        /\ t.cur.out.last = s.cur.out.last

LEMMA SteadyKeeps ==
    ASSUME TypeOK, ChannelInv, NEW j \in Job, LeaseSteady(lease[j], lease'[j]),
           lease'[j].conn # NoConn =>
             LET l == lease[j]
                 c == l.conn
             IN  /\ conn'[c] # NoChannel /\ conn'[c].agent = conn[c].agent
                 /\ lease'[j].time # "lost" =>
                      /\ OnSteady(c, j, l.epoch)
                      /\ ByAgent(c, j, l.epoch, agent[l.agent], agent'[l.agent])
    PROVE  Attached(j)' /\ NumberedAt(j)'
<1> DEFINE l == lease[j]
           m == lease'[j]
           c == l.conn
           e == l.epoch
           s == agent[l.agent]
           t == agent'[l.agent]
<1>1. CASE m.conn = NoConn
  BY <1>1 DEF Attached, NumberedAt
<1>2. CASE m.conn # NoConn
  <2>1. /\ m.conn = c /\ m.agent = l.agent /\ m.epoch = e /\ m.next = l.next
        /\ l.time = "lost" => m.time = "lost"
    BY <1>2 DEF LeaseSteady
  <2>2. /\ conn'[c] # NoChannel /\ conn'[c].agent = conn[c].agent
        /\ m.time # "lost" => OnSteady(c, j, e) /\ ByAgent(c, j, e, s, t)
    BY <1>2
  <2>3. Attached(j) /\ NumberedAt(j) /\ l.next \in Int
    BY DEF ChannelInv, TypeOK, LeaseRec
  <2>4. Attached(j)'
    BY <1>2, <2>1, <2>2, <2>3 DEF Attached, Open
  <2>5. ASSUME m.time # "lost"
        PROVE  \E hi \in Int : NumberedTo(hi, j, m, t, up'[c], down'[c])
    <3>1. PICK hi \in Int : NumberedTo(hi, j, l, s, up[c], down[c])
      BY <1>2, <2>1, <2>3, <2>5 DEF NumberedAt
    <3>2. Numbered(up'[c], j, e, l.next, hi)
      BY <2>2, <2>3, <2>5, <3>1 DEF NumberedTo, OnSteady
    <3>3. NumberedTo(hi, j, m, t, up'[c], down'[c])
      BY <2>1, <2>2, <2>5, <3>1, <3>2 DEF NumberedTo, OnSteady, ByAgent
    <3> QED
      BY <3>3
  <2>6. NumberedAt(j)'
    BY <2>1, <2>5 DEF NumberedAt
  <2> QED
    BY <2>4, <2>6
<1> QED
  BY <1>1, <1>2

LEMMA QuietAssigns ==
    ASSUME TypeOK, NEW c \in Conn, DownQuiet(c), NEW j, NEW e,
           Assigns(down'[c], j, e)
    PROVE  Assigns(down[c], j, e)
<1>1. down[c] \in Seq(OrderRec)
  BY DEF TypeOK
<1>2. CASE down'[c] = down[c]
  BY <1>2
<1>3. ASSUME NEW m \in OrderRec, m.type # "assign", down'[c] = Append(down[c], m)
      PROVE  Assigns(down[c], j, e)
  BY <1>1, <1>3, AssignsOn
<1> QED
  BY <1>2, <1>3 DEF DownQuiet

\* The channel goes on as it is, but for orders that are no `assign`.
LEMMA QuietSteady ==
    ASSUME TypeOK, NEW c \in Conn, up'[c] = up[c], DownQuiet(c), NEW j, NEW e
    PROVE  OnSteady(c, j, e)
<1>1. Assigns(down'[c], j, e) => Assigns(down[c], j, e)
  BY QuietAssigns
<1> QED
  BY <1>1 DEF OnSteady

\* The hub has read frame f of the channel.
LEMMA ReadSteady ==
    ASSUME TypeOK, NEW c \in Conn, DownQuiet(c),
           up[c] # <<>>, up'[c] = Tail(up[c]), NEW j, NEW e,
           ~OfAttempt(Head(up[c]), j, e)
    PROVE  OnSteady(c, j, e)
<1>1. Assigns(down'[c], j, e) => Assigns(down[c], j, e)
  BY QuietAssigns
<1>2. up[c] \in Seq(FrameRec)
  BY DEF TypeOK
<1>3. \A lo, hi \in Int : Numbered(up[c], j, e, lo, hi)
                          => Numbered(up'[c], j, e, lo, hi)
  BY <1>2, TailNumbers
<1> QED
  BY <1>1, <1>3 DEF OnSteady

LEMMA SameAgent ==
    ASSUME NEW c, NEW j, NEW e, NEW s
    PROVE  ByAgent(c, j, e, s, s)
BY DEF ByAgent

\* The steps of the runners, but for Claim.
RunnerLeaves(j) ==
    /\ UNCHANGED <<agent, up, nextConn>>
    /\ UNCHANGED conn \/ \E c : conn' = Freed(c, j)
    /\ \/ UNCHANGED lease
       \/ \E m \in {NoLease, [lease[j] EXCEPT !.cancelled = TRUE],
                    [lease[j] EXCEPT !.rerouting = TRUE],
                    [lease[j] EXCEPT !.time = "lost"]} :
            lease' = [lease EXCEPT ![j] = m]

LEMMA RunnersLeave ==
    ASSUME NEW j \in Job, RunnerStep(j), ~Claim(j)
    PROVE  RunnerLeaves(j)
<1>1. CASE \/ Start(j) \/ GiveUp(j) \/ SaveLeased(j) \/ OnResult(j) \/ Publish(j)
           \/ Registered(j) \/ OnError(j) \/ OnRelease(j) \/ LetLeaseGo(j)
           \/ StoreRequeue(j)
  BY <1>1 DEF RunnerLeaves, Start, GiveUp, SaveLeased, OnResult, Publish,
     Registered, OnError, OnRelease, LetLeaseGo, StoreRequeue, hub
<1>2. CASE RunOrphan(j)
  BY <1>2 DEF RunnerLeaves, RunOrphan
<1>3. CASE OnFeatures(j)
  BY <1>3 DEF RunnerLeaves, OnFeatures
<1>4. CASE NoticeCancel(j)
  BY <1>4 DEF RunnerLeaves, NoticeCancel
<1>5. CASE FindExpired(j)
  BY <1>5 DEF RunnerLeaves, FindExpired
<1>6. CASE EndLease(j)
  BY <1>6 DEF RunnerLeaves, EndLease
<1>7. CASE RunnerPanics(j)
  BY <1>7 DEF RunnerLeaves, RunnerPanics
<1> QED
  BY <1>1, <1>2, <1>3, <1>4, <1>5, <1>6, <1>7 DEF RunnerStep

LEMMA FreedAgent ==
    ASSUME TypeOK, NEW c, NEW j \in Job, conn' = Freed(c, j), NEW k \in Conn
    PROVE  conn'[k].agent = conn[k].agent /\ (Open(k)' <=> Open(k))
<1> DEFINE f == [conn[k] EXCEPT !.holding = NoJob]
<1>1. conn[k] \in ChannelRec
  BY DEF TypeOK
<1>2. NoChannel.agent = NoAgent /\ NoAgent \notin Agent /\ NoChannel.holding = NoJob
  BY StoreAssumption DEF NoChannel
<1>3. CASE conn'[k] = conn[k]
  BY <1>3 DEF Open
<1>4. CASE conn[k].holding = j /\ conn'[k] = f
  <2>1. conn[k] # NoChannel
    BY <1>2, <1>4, NoJobs
  <2>2. conn[k].agent \in Agent /\ f.agent = conn[k].agent
    BY <1>1, <2>1 DEF ChannelRec
  <2> HIDE DEF f
  <2> QED
    BY <1>2, <1>4, <2>1, <2>2 DEF Open
<1>5. conn'[k] = conn[k] \/ (conn[k].holding = j /\ conn'[k] = f)
  BY DEF Freed
<1> QED
  BY <1>3, <1>4, <1>5

LEMMA SteadyForms ==
    ASSUME NEW l \in LeaseRec
    PROVE  /\ LeaseSteady(l, l) /\ LeaseSteady(l, NoLease)
           /\ LeaseSteady(l, [l EXCEPT !.cancelled = TRUE])
           /\ LeaseSteady(l, [l EXCEPT !.rerouting = TRUE])
           /\ LeaseSteady(l, [l EXCEPT !.uploads = TRUE])
           /\ \A x : LeaseSteady(l, [l EXCEPT !.finished = TRUE, !.events = x])
           /\ LeaseSteady(l, [l EXCEPT !.time = "lost"])
           /\ l.time # "lost" => /\ LeaseSteady(l, [l EXCEPT !.time = "due"])
                                 /\ \A h : LeaseSteady(l, [l EXCEPT !.time = "live",
                                                                    !.hot = h])
           /\ LeaseSteady(l, [l EXCEPT !.conn = NoConn])
BY DEF LeaseSteady, LeaseRec, NoLease, NewLease

\* A step that changes no agent, reads no frame, and opens and closes no
\* channel.
LEMMA StillChannels ==
    ASSUME TypeOK, ChannelInv, UNCHANGED <<agent, up>>,
           \A c \in Conn : /\ conn'[c].agent = conn[c].agent
                           /\ Open(c)' <=> Open(c)
                           /\ DownQuiet(c),
           \A j \in Job : LeaseSteady(lease[j], lease'[j])
    PROVE  ChannelInv'
<1>1. ASSUME NEW j \in Job
      PROVE  Attached(j)' /\ NumberedAt(j)'
  <2> DEFINE l == lease[j]
             c == l.conn
  <2>1. ASSUME lease'[j].conn # NoConn
        PROVE  /\ OnSteady(c, j, l.epoch)
               /\ conn'[c] # NoChannel /\ conn'[c].agent = conn[c].agent
    <3>1. c = lease'[j].conn /\ l \in LeaseRec
      BY <2>1 DEF LeaseSteady, TypeOK
    <3>2. c \in Conn /\ c # NoConn
      BY <2>1, <3>1 DEF LeaseRec
    <3>3. Open(c)
      BY <3>2 DEF ChannelInv, Attached
    <3> HIDE DEF c
    <3>4. conn'[c] # NoChannel /\ conn'[c].agent = conn[c].agent /\ up'[c] = up[c]
      BY <3>2, <3>3 DEF Open
    <3> QED
      BY <3>2, <3>4, QuietSteady
  <2>2. ByAgent(c, j, l.epoch, agent[l.agent], agent'[l.agent])
    BY SameAgent
  <2> QED
    BY <2>1, <2>2, SteadyKeeps
<1> QED
  BY <1>1 DEF ChannelInv, Open

LEMMA RunnerChannels ==
    ASSUME TypeOK, ChannelInv, NEW j \in Job, RunnerStep(j), ~Claim(j)
    PROVE  ChannelInv'
<1>1. RunnerLeaves(j)
  BY RunnersLeave
<1>2. \A c \in Conn : DownQuiet(c)
  BY RunnerQuiet DEF QuietStep, Quiet
<1>3. \A c \in Conn : conn'[c].agent = conn[c].agent /\ (Open(c)' <=> Open(c))
  BY <1>1, FreedAgent DEF RunnerLeaves, Open
<1>4. ASSUME NEW k \in Job
      PROVE  LeaseSteady(lease[k], lease'[k])
  <2>1. lease[k] \in LeaseRec /\ lease \in [Job -> LeaseRec]
    BY DEF TypeOK
  <2>2. \/ lease'[k] \in {lease[k], NoLease}
        \/ k = j /\ lease'[k] \in {[lease[k] EXCEPT !.cancelled = TRUE],
                                   [lease[k] EXCEPT !.rerouting = TRUE],
                                   [lease[k] EXCEPT !.time = "lost"]}
    BY <1>1, <2>1 DEF RunnerLeaves
  <2> QED
    BY <2>1, <2>2, SteadyForms
<1> QED
  BY <1>1, <1>2, <1>3, <1>4, StillChannels DEF RunnerLeaves

LEMMA SurroundingsChannels ==
    ASSUME TypeOK, ChannelInv, \/ \E j \in Job : Expire(j) \/ UserCancel(j)
                               \/ Stop
                               \/ Restart
    PROVE  ChannelInv'
<1>1. \A c \in Conn : DownQuiet(c)
  BY SurroundingsQuiet DEF QuietStep, Quiet
<1>2. CASE UNCHANGED <<agent, up, conn, lease>>
  <2>1. \A j \in Job : LeaseSteady(lease[j], lease'[j])
    BY <1>2, SteadyForms DEF TypeOK
  <2> QED
    BY <1>1, <1>2, <2>1, StillChannels DEF Open
<1>3. ASSUME NEW j \in Job, Expire(j)
      PROVE  ChannelInv'
  <2>1. /\ UNCHANGED <<agent, up, conn>> /\ lease[j].time = "live"
        /\ lease' = [lease EXCEPT ![j].time = "due"]
    BY <1>3 DEF Expire
  <2>2. ASSUME NEW k \in Job
        PROVE  LeaseSteady(lease[k], lease'[k])
    <3>1. lease[k] \in LeaseRec /\ lease \in [Job -> LeaseRec]
      BY DEF TypeOK
    <3>2. lease'[k] = IF k = j THEN [lease[k] EXCEPT !.time = "due"] ELSE lease[k]
      BY <2>1, <3>1
    <3> QED
      BY <2>1, <3>1, <3>2, SteadyForms
  <2> QED
    BY <1>1, <2>1, <2>2, StillChannels DEF Open
<1>4. CASE Restart
  <2>1. /\ UNCHANGED agent /\ up' = [c \in Conn |-> <<>>]
        /\ \A j \in Job : lease'[j].conn = NoConn
    BY <1>4 DEF Restart, NewLease, NoLease
  <2>2. \A j \in Job : Attached(j)' /\ NumberedAt(j)'
    BY <2>1 DEF Attached, NumberedAt
  <2> QED
    BY <2>1, <2>2 DEF ChannelInv
<1>5. ASSUME NEW j \in Job, UserCancel(j)
      PROVE  UNCHANGED <<agent, up, conn, lease>>
  BY <1>5 DEF UserCancel, hub
<1>6. Stop => UNCHANGED <<agent, up, conn, lease>>
  BY DEF Stop, hub
<1> QED
  BY <1>2, <1>3, <1>4, <1>5, <1>6

-----------------------------------------------------------------------------
\* The hub reads a frame.

LEMMA ReadChannels ==
    ASSUME TypeOK, ChannelInv, UNCHANGED agent, NEW c \in Conn, Open(c),
           up[c] # <<>>, Took(c),
           \A k \in Conn : /\ conn'[k].agent = conn[k].agent
                           /\ Open(k)' <=> Open(k)
                           /\ DownQuiet(k),
           \A j \in Job :
             \/ Attached(j)' /\ NumberedAt(j)'
             \/ /\ LeaseSteady(lease[j], lease'[j])
                /\ lease[j].conn = c /\ lease'[j].time # "lost"
                   => ~OfAttempt(Head(up[c]), j, lease[j].epoch)
    PROVE  ChannelInv'
<1>1. up' = [up EXCEPT ![c] = Tail(up[c])] /\ up \in [Conn -> Seq(FrameRec)]
  BY DEF Took, TypeOK
<1>2. ASSUME NEW j \in Job, LeaseSteady(lease[j], lease'[j]),
             lease[j].conn = c /\ lease'[j].time # "lost"
             => ~OfAttempt(Head(up[c]), j, lease[j].epoch)
      PROVE  Attached(j)' /\ NumberedAt(j)'
  <2> DEFINE l == lease[j]
             k == l.conn
  <2>1. ASSUME lease'[j].conn # NoConn
        PROVE  /\ conn'[k] # NoChannel /\ conn'[k].agent = conn[k].agent
               /\ lease'[j].time # "lost" => OnSteady(k, j, l.epoch)
    <3>1. k = lease'[j].conn /\ l \in LeaseRec
      BY <1>2, <2>1 DEF LeaseSteady, TypeOK
    <3>2. k \in Conn /\ k # NoConn
      BY <2>1, <3>1 DEF LeaseRec
    <3>3. Open(k)
      BY <3>2 DEF ChannelInv, Attached
    <3>4. k = c => up'[k] = Tail(up[k])
      BY <1>1
    <3>5. k # c => up'[k] = up[k]
      BY <1>1, <3>2
    <3>6. k = c /\ lease'[j].time # "lost" => OnSteady(k, j, l.epoch)
      BY <1>2, <3>4, ReadSteady
    <3>7. k # c => OnSteady(k, j, l.epoch)
      <4> HIDE DEF k
      <4> QED
        BY <3>2, <3>5, QuietSteady
    <3>8. conn'[k] # NoChannel /\ conn'[k].agent = conn[k].agent
      <4> HIDE DEF k
      <4> QED
        BY <3>2, <3>3 DEF Open
    <3> QED
      BY <3>6, <3>7, <3>8
  <2>2. ByAgent(k, j, l.epoch, agent[l.agent], agent'[l.agent])
    BY SameAgent
  <2> QED
    BY <1>2, <2>1, <2>2, SteadyKeeps
<1>3. ASSUME NEW k \in Conn, ~Open(k)'
      PROVE  up'[k] = <<>>
  <2>1. ~Open(k) /\ up[k] = <<>> /\ k # c
    BY <1>3 DEF ChannelInv
  <2> QED
    BY <1>1, <2>1
<1>4. \A a \in Agent : Orderly(agent'[a])
  BY DEF ChannelInv
<1>5. \A j \in Job : Attached(j)' /\ NumberedAt(j)'
  BY <1>2
<1> QED
  BY <1>3, <1>4, <1>5 DEF ChannelInv

\* The next event of the lease.
LEMMA NextEventNumbers ==
    ASSUME TypeOK, ChannelInv, NEW c \in Conn, OnNextEvent(c),
           DownQuiet(c), NEW j \in Job, j = Head(up[c]).job
    PROVE  Attached(j)' /\ NumberedAt(j)'
<1> DEFINE f == Head(up[c])
           l == lease[j]
           m == lease'[j]
           e == l.epoch
           s == agent[l.agent]
<1>1. /\ f \in FrameRec /\ f.type = "event" /\ up[c] # <<>>
      /\ up' = [up EXCEPT ![c] = Tail(up[c])] /\ up[c] \in Seq(FrameRec)
      /\ up \in [Conn -> Seq(FrameRec)]
      /\ l.conn = c /\ e = f.epoch /\ l.time # "lost" /\ UNCHANGED <<conn, agent>>
  BY GetsTyped DEF OnNextEvent, Gets, Took, Current, TypeOK
<1>2. l \in LeaseRec /\ lease \in [Job -> LeaseRec] /\ l.next \in Int
  BY <1>1, FrameKinds DEF TypeOK, LeaseRec
<1>3. /\ m.conn = c /\ m.agent = l.agent /\ m.epoch = e
      /\ m.next = l.next + 1
  <2> DEFINE ends == f.ev \in Terminal
             r == [l EXCEPT !.next = @ + 1, !.time = "live",
                            !.finished = @ \/ ends]
             x1 == [r EXCEPT !.finished = TRUE]
             x2 == [r EXCEPT !.result = (f.ev = "result"),
                             !.events = Append(@, f.ev)]
  <2>1. lease' \in {[lease EXCEPT ![j] = r], [lease EXCEPT ![j] = x1],
                    [lease EXCEPT ![j] = x2]}
    BY Zenon DEF OnNextEvent
  <2>2. /\ r.conn = l.conn /\ r.agent = l.agent /\ r.epoch = e
        /\ r.next = l.next + 1
        /\ x1.conn = l.conn /\ x1.agent = l.agent /\ x1.epoch = e
        /\ x1.next = l.next + 1
        /\ x2.conn = l.conn /\ x2.agent = l.agent /\ x2.epoch = e
        /\ x2.next = l.next + 1
    BY <1>2 DEF LeaseRec
  <2> HIDE DEF r, x1, x2, l
  <2>3. m \in {r, x1, x2}
    BY <1>2, <2>1
  <2> QED
    BY <1>1, <2>2, <2>3 DEF l
<1>4. c # NoConn
  BY LeaseAssumption
<1>5. OfAttempt(f, j, e)
  BY <1>1 DEF OfAttempt
<1> HIDE DEF f, l, m, e, s
<1>14. Attached(j) /\ NumberedAt(j)
  BY <1>2 DEF ChannelInv
<1>6. Attached(j)'
  BY <1>1, <1>3, <1>4, <1>14 DEF Attached, Open, l, m
<1>7. PICK hi \in Int : NumberedTo(hi, j, l, s, up[c], down[c])
  BY <1>1, <1>4, <1>14 DEF NumberedAt, l, s
<1>8. Numbered(up'[c], j, e, l.next + 1, hi)
  <2>1. Numbered(up[c], j, e, l.next, hi)
    BY <1>7 DEF NumberedTo, e
  <2>2. up'[c] = Tail(up[c])
    BY <1>1
  <2> QED
    BY <1>1, <1>2, <1>5, <2>1, <2>2, TailNumbers DEF f
<1>9. Assigns(down'[c], j, e) => Assigns(down[c], j, e)
  BY QuietAssigns
<1>10. NumberedTo(hi, j, m, s, up'[c], down'[c])
  BY <1>1, <1>3, <1>7, <1>8, <1>9 DEF NumberedTo, e
<1>11. s = agent'[m.agent]
  BY <1>1, <1>3 DEF s
<1>12. NumberedAt(j)'
  BY <1>3, <1>10, <1>11 DEF NumberedAt, m
<1> QED
  BY <1>6, <1>12

LEMMA ChannelReads ==
    ASSUME TypeOK, ChannelInv, NEW c \in Conn, ChannelStep(c), ~RemoveConn(c)
    PROVE  ChannelInv'
<1> DEFINE f == Head(up[c])
<1>1. /\ Open(c) /\ up[c] # <<>> /\ Took(c) /\ UNCHANGED agent
  BY DEF ChannelStep, OnReady, OnHeartbeat, OnStaleEvent, OnNextEvent, OnReleased,
     Gets, hub
<1>2. \A k \in Conn : DownQuiet(k)
  <2>1. CASE OnReady(c)
    BY <2>1 DEF OnReady, DownQuiet
  <2>2. CASE ~OnReady(c)
    BY <2>2, ChannelQuiet DEF QuietStep, Quiet
  <2> QED
    BY <2>1, <2>2
<1>3. \A k \in Conn : conn'[k].agent = conn[k].agent /\ (Open(k)' <=> Open(k))
  <2>1. CASE OnReady(c)
    <3> DEFINE d == [conn[c] EXCEPT !.ready = TRUE]
    <3>1. conn' = [conn EXCEPT ![c] = d] /\ conn \in [Conn -> ChannelRec]
      BY <2>1 DEF OnReady, TypeOK
    <3>2. conn[c].agent \in Agent /\ d.agent = conn[c].agent
      BY <1>1, <3>1 DEF ChannelRec, Open
    <3>3. NoChannel.agent = NoAgent /\ NoAgent \notin Agent
      BY StoreAssumption DEF NoChannel
    <3> HIDE DEF d
    <3> QED
      BY <1>1, <3>1, <3>2, <3>3 DEF Open
  <2>2. CASE ~OnReady(c)
    <3>1. UNCHANGED conn
      BY <2>2 DEF ChannelStep, OnHeartbeat, OnStaleEvent, OnNextEvent,
         OnReleased, RemoveConn, hub
    <3> QED
      BY <3>1 DEF Open
  <2> QED
    BY <2>1, <2>2
<1>4. \A j \in Job : lease[j] \in LeaseRec /\ LeaseSteady(lease[j], lease[j])
  BY SteadyForms DEF TypeOK
<1>5. lease \in [Job -> LeaseRec]
  BY DEF TypeOK
<1>6. f \in FrameRec
  BY <1>1, GetsTyped DEF Gets
<1>7. CASE OnReady(c)
  <2>1. UNCHANGED lease /\ f.type = "ready"
    BY <1>7 DEF OnReady, Gets
  <2> QED
    BY <1>1, <1>2, <1>3, <1>4, <2>1, ReadChannels DEF OfAttempt
<1>8. CASE OnHeartbeat(c)
  <2> DEFINE j == f.job
             h == f.ev = "hot"
             m == [lease[j] EXCEPT !.time = "live", !.hot = h]
  <2>1. /\ f.type = "heartbeat"
        /\ \/ UNCHANGED lease
           \/ lease[j].time # "lost" /\ lease' = [lease EXCEPT ![j] = m]
    BY <1>8, Zenon DEF OnHeartbeat, Gets, Current
  <2>2. ASSUME NEW k \in Job, lease[j].time # "lost",
               lease' = [lease EXCEPT ![j] = m]
        PROVE  LeaseSteady(lease[k], lease'[k])
    <3>1. j \in Job
      BY <1>6, <2>1, FrameKinds
    <3>2. lease[j] \in LeaseRec /\ LeaseSteady(lease[j], m)
      BY <1>4, <2>2, <3>1, SteadyForms
    <3> HIDE DEF m, j
    <3> QED
      BY <1>4, <1>5, <2>2, <3>1, <3>2
  <2>3. \A k \in Job : LeaseSteady(lease[k], lease'[k])
    BY <1>4, <2>1, <2>2
  <2> QED
    BY <1>1, <1>2, <1>3, <2>1, <2>3, ReadChannels DEF OfAttempt
<1>9. CASE OnStaleEvent(c)
  <2>1. UNCHANGED lease /\ ~Current(c, f)
    BY <1>9 DEF OnStaleEvent, hub
  <2>2. ASSUME NEW j \in Job, lease[j].conn = c, lease'[j].time # "lost"
        PROVE  ~OfAttempt(f, j, lease[j].epoch)
    BY <2>1, <2>2 DEF Current, OfAttempt
  <2> QED
    BY <1>1, <1>2, <1>3, <1>4, <2>1, <2>2, ReadChannels
<1>10. CASE OnNextEvent(c)
  <2>1. \A j \in Job \ {f.job} : lease'[j] = lease[j]
    <3> DEFINE l == lease[f.job]
               ends == f.ev \in Terminal
               r == [l EXCEPT !.next = @ + 1, !.time = "live",
                              !.finished = @ \/ ends]
    <3>1. \E m : lease' = [lease EXCEPT ![f.job] = m]
      <4>1. lease' \in {[lease EXCEPT ![f.job] = r],
                        [lease EXCEPT ![f.job] = [r EXCEPT !.finished = TRUE]],
                        [lease EXCEPT ![f.job] =
                           [r EXCEPT !.result = (f.ev = "result"),
                                     !.events = Append(@, f.ev)]]}
        BY <1>10, Zenon DEF OnNextEvent
      <4> HIDE DEF r
      <4> QED
        BY <4>1
    <3> QED
      BY <1>5, <3>1
  <2>2. \A j \in Job \ {f.job} : ~OfAttempt(f, j, lease[j].epoch)
    BY DEF OfAttempt
  <2>3. ASSUME NEW j \in Job, j = f.job
        PROVE  Attached(j)' /\ NumberedAt(j)'
    BY <1>2, <1>10, <2>3, NextEventNumbers
  <2>4. ASSUME NEW j \in Job
        PROVE  \/ Attached(j)' /\ NumberedAt(j)'
               \/ /\ LeaseSteady(lease[j], lease'[j])
                  /\ lease[j].conn = c /\ lease'[j].time # "lost"
                     => ~OfAttempt(f, j, lease[j].epoch)
    <3>1. CASE j = f.job
      BY <2>3, <3>1
    <3>2. CASE j # f.job
      BY <1>4, <2>1, <2>2, <3>2
    <3> QED
      BY <3>1, <3>2
  <2> QED
    BY <1>1, <1>2, <1>3, <2>4, ReadChannels
<1>11. CASE OnReleased(c)
  <2> DEFINE j == f.job
             x == Append(lease[j].events, f.ev)
             m == [lease[j] EXCEPT !.finished = TRUE, !.events = x]
  <2>1. /\ f.type = "released"
        /\ UNCHANGED lease \/ lease' = [lease EXCEPT ![j] = m]
    <3>1. /\ Gets(c, "released")
          /\ lease' \in {lease, [lease EXCEPT ![j].finished = TRUE,
                                              ![j].events = Append(@, f.ev)]}
      BY <1>11, Zenon DEF OnReleased
    <3> QED
      BY <3>1 DEF Gets
  <2>2. ASSUME NEW k \in Job, lease' = [lease EXCEPT ![j] = m]
        PROVE  LeaseSteady(lease[k], lease'[k])
    <3>1. j \in Job
      BY <1>6, <2>1, FrameKinds
    <3>2. lease[j] \in LeaseRec /\ LeaseSteady(lease[j], m)
      BY <1>4, <3>1, SteadyForms
    <3> HIDE DEF m, j
    <3> QED
      BY <1>4, <1>5, <2>2, <3>1, <3>2
  <2>3. \A k \in Job : LeaseSteady(lease[k], lease'[k])
    BY <1>4, <2>1, <2>2
  <2> QED
    BY <1>1, <1>2, <1>3, <2>1, <2>3, ReadChannels DEF OfAttempt
<1> QED
  BY <1>7, <1>8, <1>9, <1>10, <1>11 DEF ChannelStep

LEMMA RemoveChannels ==
    ASSUME TypeOK, ChannelInv, NEW c \in Conn, RemoveConn(c)
    PROVE  ChannelInv'
<1>1. /\ conn' = [conn EXCEPT ![c] = NoChannel] /\ lease' = Detached({c})
      /\ up' = [up EXCEPT ![c] = <<>>] /\ UNCHANGED <<agent, down>>
      /\ conn \in [Conn -> ChannelRec] /\ up \in [Conn -> Seq(FrameRec)]
  BY DEF RemoveConn, TypeOK
<1>2. ASSUME NEW j \in Job
      PROVE  Attached(j)' /\ NumberedAt(j)'
  <2> DEFINE l == lease[j]
             k == l.conn
  <2>1. l \in LeaseRec
    BY DEF TypeOK
  <2>2. lease'[j] = IF k = c THEN [l EXCEPT !.conn = NoConn] ELSE l
    BY <1>1 DEF Detached
  <2>3. LeaseSteady(l, lease'[j])
    BY <2>1, <2>2, SteadyForms
  <2>4. ASSUME lease'[j].conn # NoConn
        PROVE  /\ conn'[k] # NoChannel /\ conn'[k].agent = conn[k].agent
               /\ OnSteady(k, j, l.epoch)
    <3>1. k # c /\ k \in Conn /\ k # NoConn
      BY <2>1, <2>2, <2>4 DEF LeaseRec
    <3>2. Open(k)
      BY <3>1 DEF ChannelInv, Attached
    <3>3. conn'[k] = conn[k] /\ up'[k] = up[k] /\ DownQuiet(k)
      BY <1>1, <3>1 DEF DownQuiet
    <3> HIDE DEF k
    <3> QED
      BY <3>1, <3>2, <3>3, QuietSteady DEF Open
  <2>5. ByAgent(k, j, l.epoch, agent[l.agent], agent'[l.agent])
    BY <1>1, SameAgent
  <2> QED
    BY <2>3, <2>4, <2>5, SteadyKeeps
<1>3. ASSUME NEW k \in Conn, ~Open(k)'
      PROVE  up'[k] = <<>>
  <2>1. CASE k = c
    BY <1>1, <2>1
  <2>2. CASE k # c
    BY <1>1, <1>3, <2>2 DEF Open, ChannelInv
  <2> QED
    BY <2>1, <2>2
<1> QED
  BY <1>1, <1>2, <1>3 DEF ChannelInv

-----------------------------------------------------------------------------
\* The turns of the agents.

\* In a turn the agent goes on, or takes up the job it is assigned.
GoesOnTo(a, t) ==
    LET s == agent[a]
        d == down[s.link]
        read == /\ s.link # NoConn /\ d # <<>>
                /\ down' = [down EXCEPT ![s.link] = Tail(@)]
    IN  /\ Turn(a, t) /\ UNCHANGED <<jobs, process, hub>>
        /\ t.link = s.link /\ Orderly(t)
        /\ \/ Continues(s, t) /\ (UNCHANGED down \/ read)
           \/ /\ read /\ Head(d).type = "assign" /\ ~Holds(s)
              /\ t.cur.out.last = 0
              /\ t.cur.job = Head(d).job /\ t.cur.epoch = Head(d).epoch

AgentTurn(a) == \/ JobProgress(a) \/ JobFinished(a) \/ JobKilled(a)
                \/ HoldExpires(a) \/ OnOrder(a)

LEMMA TurnsGoOn ==
    ASSUME TypeOK, LinkInv, NEW a \in Agent, AgentTurn(a), Orderly(agent[a])
    PROVE  \E t \in AgentRec : GoesOnTo(a, t)
<1> DEFINE s == agent[a]
           m == Next1(a)
<1>1. s \in AgentRec /\ Orderly(s) /\ LinkAt(a)
  BY DEF TypeOK, LinkInv
<1>2. ASSUME NEW t \in AgentRec, Turn(a, t), Continues(s, t), UNCHANGED down,
             UNCHANGED <<jobs, process, hub>>
      PROVE  GoesOnTo(a, t)
  BY <1>2 DEF GoesOnTo, Continues
<1> HIDE DEF s
<1>3. \A ev \in JobEvent, done \in {"no", "result", "failed"} :
        /\ Reports(s, ev) \in AgentRec /\ Continues(s, Reports(s, ev))
        /\ EndsWith(s, ev, done) \in AgentRec /\ Continues(s, EndsWith(s, ev, done))
  BY <1>1, ReportsTyped, ReportsContinue
<1>4. \A why \in Reason \cup {"no"} :
        Holds(s) => LetGo(s, why) \in AgentRec /\ Continues(s, LetGo(s, why))
  BY <1>1, LetGoTyped, LetGoContinues
<1>5. {"features", "result", "denied", "failed"} \subseteq JobEvent
  BY DEF JobEvent, Terminal
<1>6. CASE JobProgress(a)
  BY <1>2, <1>3, <1>5, <1>6 DEF JobProgress, s
<1>7. CASE JobFinished(a)
  <2>1. Holds(s)
    BY <1>7 DEF JobFinished, Working, Runs, s
  <2>2. "oom" \in Reason
    BY DEF Reason
  <2>3. UNCHANGED <<jobs, process, hub, down>>
    BY <1>7 DEF JobFinished
  <2>4. \/ Turn(a, EndsWith(s, "result", "result"))
        \/ Turn(a, EndsWith(s, "denied", "failed"))
        \/ Turn(a, EndsWith(s, "failed", "failed"))
        \/ Turn(a, LetGo(s, "oom"))
    BY <1>7 DEF JobFinished, s
  <2> QED
    BY <1>2, <1>3, <1>4, <1>5, <2>1, <2>2, <2>3, <2>4
<1>8. CASE JobKilled(a)
  <2>1. Holds(s) /\ s.cur.released \in Reason
    BY <1>1, <1>8 DEF JobKilled, Runs, s, AgentRec, CurrentRec
  <2>2. Turn(a, LetGo(s, s.cur.released))
        /\ UNCHANGED <<jobs, process, hub, down>>
    BY <1>8 DEF JobKilled, s
  <2> QED
    BY <1>2, <1>4, <2>1, <2>2
<1>9. CASE HoldExpires(a)
  <2>1. Holds(s) /\ Turn(a, LetGo(s, "no"))
        /\ UNCHANGED <<jobs, process, hub, down>>
    BY <1>9 DEF HoldExpires, s
  <2> QED
    BY <1>2, <1>4, <2>1
<1>10. CASE OnOrder(a)
  <2>1. \A type : Reads(a, type) =>
           /\ s.link \in Conn /\ m \in OrderRec /\ m.type = type
    BY ReadTyped DEF s
  <2>2. /\ UNCHANGED <<jobs, process, hub>>
        /\ s.link # NoConn /\ down[s.link] # <<>>
        /\ down' = [down EXCEPT ![s.link] = Tail(@)]
    BY <1>10 DEF OnOrder, Reads, s
  <2>3. m = Head(down[s.link])
    BY DEF Next1, s
  <2>4. \/ Reads(a, "assign") /\ Turn(a, Assigned(s, m))
        \/ Reads(a, "cancel") /\ Turn(a, Cancelled(s, m))
        \/ Reads(a, "verdict") /\ Turn(a, Answered(s, m))
        \/ Reads(a, "renewed") /\ Turn(a, Renewed(s, m))
    BY <1>10 DEF OnOrder, s
  <2> HIDE DEF m
  <2>5. ASSUME NEW t \in AgentRec, Turn(a, t), Continues(s, t)
        PROVE  GoesOnTo(a, t)
    BY <2>2, <2>5 DEF GoesOnTo, Continues, s
  <2>6. CASE Reads(a, "assign") /\ Turn(a, Assigned(s, m))
    <3>1. m \in OrderRec /\ m.type = "assign"
      BY <2>1, <2>6
    <3>2. ~Holds(s)
      <4>1. down[s.link] \in Seq(OrderRec)
        BY <2>1, <2>6 DEF TypeOK
      <4>2. ~None(down[s.link], "assign")
        BY <2>2, <2>3, <3>1, <4>1, Tails
      <4>3. OneToken(conn[s.link].ready, up[s.link], down[s.link], Holds(s))
        BY <1>1, <2>2 DEF LinkAt, s
      <4> QED
        BY <4>2, <4>3 DEF OneToken
    <3>3. LET t == Assigned(s, m) IN
          /\ t.link = s.link /\ Orderly(t) /\ t.cur.out.last = 0
          /\ t.cur.job = m.job /\ t.cur.epoch = m.epoch
      BY <1>1, <3>2, AssignedBegins
    <3>4. Assigned(s, m) \in AgentRec
      BY <1>1, <3>1, AssignedTyped
    <3> QED
      BY <2>2, <2>3, <2>6, <3>1, <3>2, <3>3, <3>4 DEF GoesOnTo, s
  <2>7. CASE Reads(a, "cancel") /\ Turn(a, Cancelled(s, m))
    BY <1>1, <2>1, <2>5, <2>7, CancelledTyped, OrdersContinue
  <2>8. CASE Reads(a, "verdict") /\ Turn(a, Answered(s, m))
    BY <1>1, <2>1, <2>5, <2>8, AnsweredTyped, OrdersContinue
  <2>9. CASE Reads(a, "renewed") /\ Turn(a, Renewed(s, m))
    BY <1>1, <2>1, <2>5, <2>9, RenewedTyped, OrdersContinue
  <2> QED
    BY <2>4, <2>6, <2>7, <2>8, <2>9
<1> QED
  BY <1>6, <1>7, <1>8, <1>9, <1>10 DEF AgentTurn

\* On the agent's channel, what is written goes on with the numbers.
LEMMA TurnNumbers ==
    ASSUME TypeOK, LinkInv, ChannelInv, NEW a \in Agent, NEW t \in AgentRec,
           GoesOnTo(a, t), NEW j \in Job, lease[j].agent = a,
           lease[j].conn # NoConn, lease[j].conn = agent[a].link
    PROVE  Attached(j)' /\ NumberedAt(j)'
<1> DEFINE s == agent[a]
           l == lease[j]
           c == l.conn
           e == l.epoch
           d == down[c]
           u == AfterFlush(t)
           o == t.cur.out
           last == o.last + (Len(o.evs) - o.written)
<1>1. /\ UNCHANGED <<lease, conn>> /\ Turn(a, t) /\ t.link = c /\ Orderly(t)
      /\ c \in Conn /\ Attached(j) /\ NumberedAt(j) /\ e \in Nat
  BY DEF GoesOnTo, hub, ChannelInv, TypeOK, LeaseRec
<1>2. /\ Open(c) /\ up[c] \in Seq(FrameRec) /\ d \in Seq(OrderRec)
      /\ up \in [Conn -> Seq(FrameRec)] /\ agent \in [Agent -> AgentRec]
      /\ down \in [Conn -> Seq(OrderRec)] /\ l.next \in Int
  BY <1>1 DEF Attached, TypeOK, LeaseRec
<1>3. agent'[a] = u /\ up'[c] = up[c] \o FramesOf(t)
  <2>1. agent' = [agent EXCEPT ![a] = u]
        /\ up' = IF Open(t.link) THEN [up EXCEPT ![t.link] = @ \o FramesOf(t)]
                 ELSE up
    BY <1>1 DEF Turn
  <2> HIDE DEF u, c
  <2> QED
    BY <1>1, <1>2, <2>1
<1>4. /\ FramesOf(t) \in Seq(FrameRec) /\ o \in OutboxRec /\ o.last \in Int
      /\ last \in Int
      /\ Runs(u) => /\ Runs(t) /\ u.cur.out.last = last
                    /\ u.cur.job = t.cur.job /\ u.cur.epoch = t.cur.epoch
      /\ u.link = t.link
      /\ Runs(t) => Numbered(FramesOf(t), t.cur.job, t.cur.epoch, o.last + 1, last)
      /\ ~(Runs(t) /\ HoldsThat(t, j, e)) => Silent(FramesOf(t), j, e)
  BY <1>1, FlushTyped, FlushNumbers DEF AgentRec, CurrentRec, OutboxRec
<1>5. OneToken(conn[c].ready, up[c], d, Holds(s))
  BY <1>1 DEF LinkInv, LinkAt
<1>6. down'[c] = d \/ (d # <<>> /\ down'[c] = Tail(d))
  <2>1. UNCHANGED down \/ (d # <<>> /\ down' = [down EXCEPT ![c] = Tail(@)])
    BY DEF GoesOnTo
  <2> HIDE DEF c
  <2> QED
    BY <1>1, <1>2, <2>1
<1>7. Assigns(down'[c], j, e) => Assigns(d, j, e)
  BY <1>2, <1>6, AssignsOn
<1>8. Attached(j)'
  BY <1>1 DEF Attached, Open
<1>9. ASSUME l.time # "lost", NEW hi \in Int,
             NumberedTo(hi, j, l, s, up[c], d)
      PROVE  \E n \in Int : NumberedTo(n, j, l, u, up'[c], down'[c])
  <2>1. CASE Runs(t) /\ HoldsThat(t, j, e)
    <3>1. o.last = hi /\ ~Assigns(down'[c], j, e)
      <4>1. CASE Continues(s, t)
        <5>1. Runs(s) /\ HoldsThat(s, j, e) /\ s.cur.out.last = o.last
          BY <2>1, <4>1 DEF Continues, HoldsThat
        <5>2. ~Assigns(d, j, e)
          BY <1>2, <1>5, <5>1, AssignsOn DEF OneToken, Runs
        <5> QED
          BY <1>7, <1>9, <5>1, <5>2 DEF NumberedTo
      <4>2. CASE /\ d # <<>> /\ Head(d).type = "assign" /\ o.last = 0
                 /\ down' = [down EXCEPT ![s.link] = Tail(@)]
                 /\ t.cur.job = Head(d).job /\ t.cur.epoch = Head(d).epoch
        <5>1. Assigns(d, j, e)
          BY <1>2, <2>1, <4>2, AssignsOn DEF HoldsThat
        <5>2. hi = 0
          BY <1>9, <5>1 DEF NumberedTo
        <5>3. down'[c] = Tail(d)
          <6>1. s.link = c
            OBVIOUS
          <6>2. down' = [down EXCEPT ![c] = Tail(@)]
            BY <4>2, <6>1
          <6> HIDE DEF c
          <6> QED
            BY <1>1, <1>2, <6>2
        <5>4. None(Tail(d), "assign")
          BY <1>2, <1>5, <4>2, Tails DEF OneToken
        <5>5. Tail(d) \in Seq(OrderRec)
          BY <1>2, <4>2
        <5>6. ~Assigns(Tail(d), j, e)
          <6> HIDE DEF d
          <6> QED
            BY <5>4, <5>5, AssignsOn
        <5> QED
          BY <4>2, <5>2, <5>3, <5>6
      <4> QED
        BY <4>1, <4>2 DEF GoesOnTo
    <3>2. Numbered(FramesOf(t), j, e, hi + 1, last)
      BY <1>4, <2>1, <3>1 DEF HoldsThat
    <3>3. Numbered(up[c], j, e, l.next, hi)
      BY <1>9 DEF NumberedTo
    <3> HIDE DEF u, last, c, e
    <3>4. Numbered(up'[c], j, e, l.next, last)
      BY <1>2, <1>3, <1>4, <3>2, <3>3, JoinNumbers
    <3>5. NumberedTo(last, j, l, u, up'[c], down'[c])
      BY <1>4, <3>1, <3>4 DEF NumberedTo, e
    <3> QED
      BY <1>4, <3>5
  <2>2. CASE ~(Runs(t) /\ HoldsThat(t, j, e))
    <3>1. ~(Runs(u) /\ HoldsThat(u, j, e))
      BY <1>4, <2>2 DEF HoldsThat
    <3>2. Numbered(up[c], j, e, l.next, hi)
      BY <1>9 DEF NumberedTo
    <3> HIDE DEF u, c, e
    <3>3. Numbered(up'[c], j, e, l.next, hi)
      BY <1>2, <1>3, <1>4, <2>2, <3>2, JoinSilent
    <3>4. s.link = c
      BY DEF c
    <3>5. NumberedTo(hi, j, l, u, up'[c], down'[c])
      BY <1>7, <1>9, <3>1, <3>3, <3>4 DEF NumberedTo, e, c
    <3> QED
      BY <3>5
  <2> QED
    BY <2>1, <2>2
<1>10. NumberedAt(j)'
  <2>1. lease'[j] = l
    BY <1>1
  <2>2. l.time # "lost" => \E hi \in Int : NumberedTo(hi, j, l, s, up[c], d)
    BY <1>1 DEF NumberedAt
  <2>3. l.time # "lost"
        => \E n \in Int : NumberedTo(n, j, l, u, up'[c], down'[c])
    BY <1>9, <2>2
  <2>4. u = agent'[l.agent]
    BY <1>3
  <2> HIDE DEF u
  <2> QED
    BY <2>1, <2>3, <2>4 DEF NumberedAt
<1> QED
  BY <1>8, <1>10

LEMMA TurnChannels ==
    ASSUME TypeOK, LinkInv, ChannelInv, NEW a \in Agent, AgentTurn(a)
    PROVE  ChannelInv'
<1> DEFINE s == agent[a]
<1>1. PICK t \in AgentRec : GoesOnTo(a, t)
  BY TurnsGoOn DEF ChannelInv
<1>2. /\ UNCHANGED <<lease, conn>> /\ Turn(a, t) /\ t.link = s.link /\ Orderly(t)
      /\ LinkAt(a) /\ agent \in [Agent -> AgentRec]
      /\ up \in [Conn -> Seq(FrameRec)] /\ down \in [Conn -> Seq(OrderRec)]
      /\ s.link \in Conn \cup {NoConn}
  BY <1>1 DEF GoesOnTo, hub, LinkInv, TypeOK, AgentRec
<1>3. /\ Orderly(agent'[a]) /\ agent'[a].link = s.link
      /\ \A b \in Agent \ {a} : agent'[b] = agent[b]
      /\ \A c \in Conn : c # s.link \/ ~Open(c) => up'[c] = up[c]
  <2>1. CASE s.link = NoConn
    <3>1. agent' = [agent EXCEPT ![a] = t] /\ UNCHANGED up
      BY <1>2, <2>1 DEF Turn
    <3> QED
      BY <1>2, <3>1
  <2>2. CASE s.link # NoConn
    <3> DEFINE u == AfterFlush(t)
    <3>1. agent' = [agent EXCEPT ![a] = u]
          /\ up' = IF Open(t.link) THEN [up EXCEPT ![t.link] = @ \o FramesOf(t)]
                   ELSE up
      BY <1>2, <2>2 DEF Turn
    <3>2. Orderly(u) /\ u.link = t.link
      BY <1>2, FlushNumbers
    <3> HIDE DEF u
    <3> QED
      BY <1>2, <3>1, <3>2
  <2> QED
    BY <2>1, <2>2
<1>4. ASSUME NEW c \in Conn, NEW j, NEW e, Assigns(down'[c], j, e)
      PROVE  Assigns(down[c], j, e)
  <2>1. \/ UNCHANGED down
        \/ /\ s.link # NoConn /\ down[s.link] # <<>>
           /\ down' = [down EXCEPT ![s.link] = Tail(@)]
    BY <1>1 DEF GoesOnTo
  <2> HIDE DEF s
  <2>2. down'[c] = down[c] \/ (down[c] # <<>> /\ down'[c] = Tail(down[c]))
    BY <1>2, <2>1
  <2>3. down[c] \in Seq(OrderRec)
    BY <1>2
  <2>4. CASE down'[c] = down[c]
    BY <1>4, <2>4
  <2>5. CASE down[c] # <<>> /\ down'[c] = Tail(down[c])
    <3>1. Assigns(Tail(down[c]), j, e)
      BY <1>4, <2>5
    <3> QED
      BY <2>3, <2>5, <3>1, AssignsOn
  <2> QED
    BY <2>2, <2>4, <2>5
<1>5. ASSUME NEW j \in Job
      PROVE  Attached(j)' /\ NumberedAt(j)'
  <2> DEFINE l == lease[j]
             c == l.conn
             b == l.agent
  <2>1. l \in LeaseRec /\ LeaseSteady(l, lease'[j]) /\ Attached(j)
    BY <1>2, SteadyForms DEF TypeOK, ChannelInv
  <2>2. CASE c # NoConn /\ b = a /\ c = s.link
    BY <1>1, <2>2, TurnNumbers
  <2>3. CASE c # NoConn /\ ~(b = a /\ c = s.link)
    <3>1. c \in Conn /\ Open(c) /\ conn[c].agent = b
      BY <2>1, <2>3 DEF Attached, LeaseRec
    <3>2. c # s.link
      BY <1>2, <2>3, <3>1 DEF LinkAt
    <3>3. b \in Agent
      BY <2>1, <3>1, StoreAssumption DEF LeaseRec, TypeOK, ChannelRec, Open
    <3> HIDE DEF c
    <3>4. conn'[c] # NoChannel /\ conn'[c].agent = conn[c].agent
          /\ up'[c] = up[c]
      BY <1>2, <1>3, <3>1, <3>2 DEF Open
    <3>5. OnSteady(c, j, l.epoch)
      BY <1>4, <3>1, <3>4 DEF OnSteady
    <3>6. ByAgent(c, j, l.epoch, agent[b], agent'[b])
      <4>1. CASE b = a
        BY <1>3, <3>2, <4>1 DEF ByAgent
      <4>2. CASE b # a
        BY <1>3, <3>3, <4>2, SameAgent
      <4> QED
        BY <4>1, <4>2
    <3> QED
      BY <2>1, <3>4, <3>5, <3>6, SteadyKeeps DEF c
  <2>4. CASE c = NoConn
    BY <1>2, <2>4 DEF Attached, NumberedAt
  <2> QED
    BY <2>2, <2>3, <2>4
<1>6. ASSUME NEW c \in Conn, ~Open(c)'
      PROVE  up'[c] = <<>>
  BY <1>2, <1>3, <1>6 DEF Open, ChannelInv
<1>7. \A b \in Agent : Orderly(agent'[b])
  BY <1>3 DEF ChannelInv
<1> QED
  BY <1>5, <1>6, <1>7 DEF ChannelInv

-----------------------------------------------------------------------------
\* A runner claims a channel.

\* Nothing on any channel is of an attempt that is not yet given out.
LEMMA UnissuedSilent ==
    ASSUME SpokenIn(Words), NEW j \in Job, NEW e \in Nat, ~Issued(j, e),
           NEW c \in Conn
    PROVE  Silent(up[c], j, e)
<1>1. up[c] \in Seq(FrameIn(Words))
  BY DEF SpokenIn
<1>2. ASSUME NEW k \in DOMAIN up[c]
      PROVE  ~OfAttempt(up[c][k], j, e)
  <2>1. up[c][k] \in FrameIn(Words)
    BY <1>1, <1>2
  <2> QED
    BY <2>1 DEF FrameIn, Words, Stands, OfAttempt
<1> QED
  BY <1>2 DEF Silent

LEMMA ClaimChannels ==
    ASSUME AttemptInv, ChannelInv, NEW j \in Job, Claim(j)
    PROVE  ChannelInv'
<1> DEFINE e == runner[j].epoch
           m == Order("assign", j, e, "none", 0)
<1>1. PICK c \in Conn :
        /\ Free(c, j) /\ runner[j].pc = "claiming"
        /\ conn' = [conn EXCEPT ![c].ready = FALSE, ![c].holding = j]
        /\ lease' = [lease EXCEPT ![j] = NewLease(c, conn[c].agent, e)]
        /\ down' = Sent(c, m) /\ UNCHANGED <<agent, up>>
  BY DEF Claim, At
<1>2. /\ TypeOK /\ e = row[j].epoch /\ e \in Nat
      /\ \A a \in Agent : LinkAt(a)
  BY <1>1 DEF AttemptInv, ClaimBase, LifeInv, LinkInv, FenceInv, EpochsGiven,
     Attempted, TypeOK, Row
<1>3. m \in OrderRec /\ m.job = j /\ m.epoch = e
  <2>1. m \in OrderRec
    BY <1>2, OrderTyped
  <2>2. m.job = j /\ m.epoch = e
    BY DEF Order
  <2> QED
    BY <2>1, <2>2
<1>4. Silent(up[c], j, e)
  BY <1>1, <1>2, UnissuedSilent DEF AttemptInv, WordsInv, Issued
<1>5. /\ Open(c) /\ conn[c] \in ChannelRec /\ conn \in [Conn -> ChannelRec]
      /\ conn[c].agent \in Agent
  BY <1>1, <1>2 DEF Free, TypeOK, Open, ChannelRec
<1>6. \A k \in Conn : conn'[k].agent = conn[k].agent /\ (Open(k)' <=> Open(k))
  <2> DEFINE n == [conn[c] EXCEPT !.ready = FALSE, !.holding = j]
  <2>1. conn' = [conn EXCEPT ![c] = n]
    BY <1>1, <1>2 DEF TypeOK
  <2>2. n.agent = conn[c].agent
    BY <1>5 DEF ChannelRec, NoChannel
  <2>3. NoChannel.agent \notin Agent
    BY StoreAssumption DEF NoChannel
  <2> HIDE DEF n
  <2> QED
    BY <1>5, <2>1, <2>2, <2>3 DEF Open
<1> HIDE DEF m
<1>7. ASSUME NEW k \in Conn, NEW i, NEW d, i # j \/ k # c, Assigns(down'[k], i, d)
      PROVE  Assigns(down[k], i, d)
  <2>1. down'[k] = down[k] \/ (k = c /\ down'[k] = Append(down[k], m))
    BY <1>1, <1>2 DEF Sent, TypeOK
  <2>2. down[k] \in Seq(OrderRec)
    BY <1>2 DEF TypeOK
  <2>3. CASE k = c /\ down'[k] = Append(down[k], m)
    <3>1. Assigns(Append(down[k], m), i, d)
      BY <1>7, <2>3
    <3> QED
      BY <1>3, <1>7, <2>2, <2>3, <3>1, AssignsOn
  <2> QED
    BY <1>7, <2>1, <2>3
<1>8. ASSUME NEW i \in Job, i # j
      PROVE  Attached(i)' /\ NumberedAt(i)'
  <2> DEFINE l == lease[i]
             k == l.conn
  <2>1. l \in LeaseRec /\ lease'[i] = l
    BY <1>1, <1>2, <1>8 DEF TypeOK
  <2>2. LeaseSteady(l, lease'[i])
    BY <2>1, SteadyForms
  <2>3. ASSUME k # NoConn
        PROVE  /\ OnSteady(k, i, l.epoch)
               /\ conn'[k] # NoChannel /\ conn'[k].agent = conn[k].agent
    <3>1. k \in Conn /\ Open(k)
      BY <2>1, <2>3 DEF LeaseRec, ChannelInv, Attached
    <3> HIDE DEF k
    <3>2. conn'[k] # NoChannel /\ conn'[k].agent = conn[k].agent
      BY <1>6, <3>1 DEF Open
    <3>3. up'[k] = up[k]
      BY <1>1
    <3> QED
      BY <1>7, <1>8, <3>1, <3>2, <3>3 DEF OnSteady
  <2>4. ByAgent(k, i, l.epoch, agent[l.agent], agent'[l.agent])
    BY <1>1, SameAgent
  <2> QED
    BY <1>2, <2>1, <2>2, <2>3, <2>4, SteadyKeeps
<1>9. Attached(j)' /\ NumberedAt(j)'
  <2> DEFINE a == conn[c].agent
             l == NewLease(c, a, e)
  <2>1. lease'[j] = l
    BY <1>1, <1>2 DEF TypeOK
  <2>2. l.conn = c /\ l.agent = a /\ l.epoch = e /\ l.next = 1
    BY DEF NewLease
  <2> HIDE DEF l
  <2>3. Attached(j)'
    BY <1>5, <1>6, <2>1, <2>2 DEF Attached, Open
  <2>4. Numbered(up'[c], j, e, 1, 0)
    <3>1. 1 - 1 = 0 /\ 1 \in Int
      OBVIOUS
    <3>2. Numbered(up[c], j, e, 1, 1 - 1)
      BY <1>4, <3>1, SilentNumbers
    <3> QED
      BY <1>1, <3>1, <3>2
  <2>5. ~HoldsThat(agent[a], j, e)
    BY <1>1, <1>2, <1>5 DEF AttemptInv, ClaimsInv, Claims, Bears, Issued
  <2>6. NumberedTo(0, j, l, agent'[a], up'[c], down'[c])
    BY <1>1, <2>2, <2>4, <2>5 DEF NumberedTo
  <2>7. 0 \in Int
    OBVIOUS
  <2>8. \E hi \in Int : NumberedTo(hi, j, lease'[j], agent'[lease'[j].agent],
                                   up'[c], down'[c])
    BY <2>1, <2>2, <2>6, <2>7
  <2> QED
    BY <2>1, <2>2, <2>3, <2>8 DEF NumberedAt
<1> QED
  BY <1>1, <1>6, <1>8, <1>9 DEF ChannelInv, Open

-----------------------------------------------------------------------------
\* What an agent does but for its turns and its dialling.

LEMMA HeartbeatChannels ==
    ASSUME TypeOK, ChannelInv, NEW a \in Agent, Heartbeat(a)
    PROVE  ChannelInv'
<1> DEFINE c == agent[a].link
           cur == agent[a].cur
<1>1. PICK memory \in {"hot", "calm"} :
        up' = [up EXCEPT ![c] =
                 Append(@, Frame("heartbeat", cur.job, cur.epoch, 0, memory))]
  BY DEF Heartbeat
<1> DEFINE f == Frame("heartbeat", cur.job, cur.epoch, 0, memory)
<1>2. /\ UNCHANGED <<lease, conn, agent, down>> /\ Open(c) /\ Holds(agent[a])
      /\ agent[a] \in AgentRec
  BY DEF Heartbeat, hub, Listening, TypeOK
<1>3. cur.job \in Job /\ cur.epoch \in Nat
  BY <1>2 DEF AgentRec, CurrentRec, Holds
<1>4. f \in FrameRec /\ f.type = "heartbeat"
  BY <1>3 DEF Frame, FrameRec, FrameOf
<1> HIDE DEF f, c
<1>5. ASSUME NEW k \in Conn
      PROVE  up'[k] = up[k] \/ (k = c /\ up'[k] = up[k] \o <<f>>)
  <2>1. up \in [Conn -> Seq(FrameRec)] /\ up[k] \in Seq(FrameRec)
    BY DEF TypeOK
  <2>2. Append(up[k], f) = up[k] \o <<f>>
    BY <1>4, <2>1
  <2> QED
    BY <1>1, <2>1, <2>2 DEF f
<1>6. ASSUME NEW k \in Conn, NEW j, NEW e
      PROVE  OnSteady(k, j, e)
  <2>1. up[k] \in Seq(FrameRec) /\ <<f>> \in Seq(FrameRec)
    BY <1>4 DEF TypeOK
  <2>2. Silent(<<f>>, j, e)
    BY <1>4 DEF Silent, OfAttempt
  <2>3. \A lo, hi \in Int : Numbered(up[k], j, e, lo, hi)
                            => Numbered(up[k] \o <<f>>, j, e, lo, hi)
    BY <2>1, <2>2, JoinSilent
  <2> QED
    BY <1>2, <1>5, <2>3 DEF OnSteady
<1>7. ASSUME NEW j \in Job
      PROVE  Attached(j)' /\ NumberedAt(j)'
  <2> DEFINE l == lease[j]
             k == l.conn
  <2>1. l \in LeaseRec /\ LeaseSteady(l, lease'[j])
    BY <1>2, SteadyForms DEF TypeOK
  <2>2. ASSUME k # NoConn
        PROVE  /\ OnSteady(k, j, l.epoch)
               /\ conn'[k] # NoChannel /\ conn'[k].agent = conn[k].agent
    BY <1>2, <1>6, <2>1, <2>2 DEF LeaseRec, ChannelInv, Attached, Open
  <2>3. ByAgent(k, j, l.epoch, agent[l.agent], agent'[l.agent])
    BY <1>2, SameAgent
  <2> QED
    BY <1>2, <2>1, <2>2, <2>3, SteadyKeeps
<1> QED
  BY <1>2, <1>5, <1>7 DEF ChannelInv, Open

\* An agent is left as it was, but perhaps for its channel, and its orders are
\* as they were, or gone.
LEMMA LeavesChannels ==
    ASSUME TypeOK, ChannelInv, UNCHANGED <<conn, up>>,
           \A j \in Job : LeaseSteady(lease[j], lease'[j]),
           \A c \in Conn : down'[c] \in {down[c], <<>>},
           NEW a \in Agent, NEW t, agent' = [agent EXCEPT ![a] = t], Orderly(t),
           t.link # NoConn => Continues(agent[a], t)
    PROVE  ChannelInv'
<1>1. agent \in [Agent -> AgentRec] /\ agent'[a] = t
      /\ \A b \in Agent \ {a} : agent'[b] = agent[b]
  BY DEF TypeOK
<1>2. ASSUME NEW j \in Job
      PROVE  Attached(j)' /\ NumberedAt(j)'
  <2> DEFINE l == lease[j]
             c == l.conn
             b == l.agent
  <2>1. l \in LeaseRec /\ Attached(j)
    BY DEF TypeOK, ChannelInv
  <2>2. ASSUME c # NoConn
        PROVE  /\ OnSteady(c, j, l.epoch)
               /\ conn'[c] # NoChannel /\ conn'[c].agent = conn[c].agent
               /\ ByAgent(c, j, l.epoch, agent[b], agent'[b])
    <3>1. c \in Conn /\ Open(c) /\ conn[c].agent = b
      BY <2>1, <2>2 DEF Attached, LeaseRec
    <3>2. b \in Agent
      BY <2>1, <3>1, StoreAssumption DEF LeaseRec, TypeOK, ChannelRec, Open
    <3> HIDE DEF c, b
    <3>3. Assigns(down'[c], j, l.epoch) => Assigns(down[c], j, l.epoch)
      <4>1. ~Assigns(<<>>, j, l.epoch)
        BY DEF Assigns
      <4> QED
        BY <3>1, <4>1
    <3>4. OnSteady(c, j, l.epoch)
      BY <3>3 DEF OnSteady
    <3>5. ByAgent(c, j, l.epoch, agent[b], agent'[b])
      <4>1. CASE b = a
        BY <1>1, <2>2, <4>1 DEF ByAgent, Continues, HoldsThat
      <4>2. CASE b # a
        BY <1>1, <3>2, <4>2, SameAgent
      <4> QED
        BY <4>1, <4>2
    <3> QED
      BY <3>1, <3>4, <3>5 DEF Open
  <2>3. lease'[j].conn # NoConn => c # NoConn
    BY DEF LeaseSteady
  <2> HIDE DEF c, b
  <2> QED
    BY <2>2, <2>3, SteadyKeeps DEF c, b
<1>3. \A b \in Agent : Orderly(agent'[b])
  BY <1>1 DEF ChannelInv
<1> QED
  BY <1>2, <1>3 DEF ChannelInv, Open

LEMMA UploadChannels ==
    ASSUME TypeOK, LinkInv, ChannelInv, NEW a \in Agent, Upload(a)
    PROVE  ChannelInv'
<1> DEFINE s == agent[a]
           j == s.cur.job
<1>1. PICK how : agent' = [agent EXCEPT ![a] = [agent[a] EXCEPT !.cur.up = how]]
  BY UploadLinks
<1> DEFINE t == [s EXCEPT !.cur.up = how]
<1>2. s \in AgentRec /\ Orderly(s)
  BY DEF TypeOK, ChannelInv
<1>3. UNCHANGED <<conn, up, down>>
  BY DEF Upload
<1>4. lease' = lease \/ lease' = [lease EXCEPT ![j].uploads = TRUE]
  BY DEF Upload
<1>5. ASSUME NEW k \in Job
      PROVE  LeaseSteady(lease[k], lease'[k])
  <2>1. lease \in [Job -> LeaseRec] /\ lease[k] \in LeaseRec
    BY DEF TypeOK
  <2>2. lease'[k] \in {lease[k], [lease[k] EXCEPT !.uploads = TRUE]}
    <3> HIDE DEF j
    <3> QED
      BY <1>4, <2>1
  <2> QED
    BY <2>1, <2>2, SteadyForms
<1>6. /\ t.link = s.link /\ t.pending = s.pending /\ t.cur.out = s.cur.out
      /\ t.cur.job = s.cur.job /\ t.cur.epoch = s.cur.epoch
      /\ t.cur.released = s.cur.released
  BY <1>2, ZenonT(30) DEF AgentRec, CurrentRec
<1> HIDE DEF t
<1>7. Orderly(t) /\ Continues(s, t)
  BY <1>2, <1>6, OutContinues DEF Orderly
<1>8. agent' = [agent EXCEPT ![a] = t]
  BY <1>1 DEF t
<1> QED
  BY <1>3, <1>5, <1>7, <1>8, LeavesChannels

LEMMA DisconnectChannels ==
    ASSUME TypeOK, LinkInv, ChannelInv, NEW a \in Agent,
           Disconnect(a) \/ AgentCrash(a)
    PROVE  ChannelInv'
<1>1. /\ \E t : agent' = [agent EXCEPT ![a] = t] /\ t.link = NoConn
      /\ down' = [c \in Conn |-> IF c = agent[a].link THEN <<>> ELSE down[c]]
  BY DisconnectLinks
<1>2. UNCHANGED <<conn, up, lease>>
  BY DEF Disconnect, AgentCrash, hub
<1>3. \A j \in Job : LeaseSteady(lease[j], lease'[j])
  BY <1>2, SteadyForms DEF TypeOK
<1>4. PICK t : agent' = [agent EXCEPT ![a] = t] /\ t.link = NoConn
  BY <1>1
<1>5. agent \in [Agent -> AgentRec] /\ agent[a] \in AgentRec /\ Orderly(agent[a])
      /\ agent'[a] = t
  BY <1>4 DEF TypeOK, ChannelInv
<1>6. Orderly(agent'[a])
  <2>1. CASE AgentCrash(a)
    <3>1. agent'[a] = NewAgent
      BY <1>5, <2>1 DEF AgentCrash
    <3>2. /\ NewAgent.pending = <<>> /\ NewAgent.cur.out.written = 0
          /\ NewAgent.cur.out.evs = <<>> /\ Len(<<>>) = 0
      BY DEF NewAgent, Idle, EmptyOutbox
    <3> QED
      BY <3>1, <3>2, NoneOfNone DEF Orderly
  <2>2. CASE Disconnect(a)
    <3>1. agent'[a] = [agent[a] EXCEPT !.link = NoConn]
      BY <1>5, <2>2 DEF Disconnect
    <3>2. /\ agent'[a].cur = agent[a].cur /\ agent'[a].pending = agent[a].pending
      BY <1>5, <3>1 DEF AgentRec
    <3> QED
      BY <1>5, <3>2 DEF Orderly
  <2> QED
    BY <2>1, <2>2
<1>7. \A c \in Conn : down'[c] \in {down[c], <<>>}
  BY <1>1
<1> QED
  BY <1>2, <1>3, <1>4, <1>5, <1>6, <1>7, LeavesChannels

-----------------------------------------------------------------------------
\* An agent dials.

\* It goes on with its job's events from the acknowledged one.
LEMMA WelcomedNumbers ==
    ASSUME NEW s \in AgentRec, Orderly(s), NEW c \in Conn, NEW acked \in Int,
           NEW answer \in {"none", "continue", "lease_lost", "cancelled", "reroute"},
           answer = "none" => ~Runs(s)
    PROVE  LET t == Welcomed(s, c, answer, acked) IN
           /\ Orderly(t)
           /\ Runs(t) => /\ Runs(s) /\ t.cur.out.last = acked
                         /\ t.cur.job = s.cur.job /\ t.cur.epoch = s.cur.epoch
<1> DEFINE t == [s EXCEPT !.link = c]
           u == [t EXCEPT !.cur.out = EmptyOutbox]
           o == Rewind(t.cur.out, acked)
           v == [t EXCEPT !.cur.out = o]
           w == [t EXCEPT !.ready = TRUE]
<1>1. /\ t \in AgentRec /\ t.cur = s.cur /\ t.pending = s.pending
      /\ w.cur = s.cur /\ w.pending = s.pending
  BY DEF AgentRec
<1>2. EmptyOutbox \in OutboxRec /\ EmptyOutbox.written = 0 /\ EmptyOutbox.evs = <<>>
      /\ Len(<<>>) = 0
  BY DEF EmptyOutbox, OutboxRec
<1>3. o.written <= Len(o.evs) /\ o.last = acked
  <2>1. t.cur.out \in OutboxRec /\ t.cur.out.written <= Len(t.cur.out.evs)
    BY <1>1 DEF AgentRec, CurrentRec, Orderly
  <2> QED
    BY <2>1, OutboxNumbers
<1> HIDE DEF o
<1>4. /\ v.pending = s.pending /\ v.cur.out = o
      /\ v.cur.job = s.cur.job /\ v.cur.epoch = s.cur.epoch
      /\ v.cur.released = s.cur.released
  BY <1>1 DEF AgentRec, CurrentRec
<1>5. /\ u.pending = s.pending /\ u.cur.out = EmptyOutbox
      /\ u.cur.job = s.cur.job /\ u.cur.released = s.cur.released
      /\ u \in AgentRec
  <2>1. u \in AgentRec
    BY <1>1, <1>2, OutTyped
  <2>2. /\ u.pending = s.pending /\ u.cur.out = EmptyOutbox
        /\ u.cur.job = s.cur.job /\ u.cur.released = s.cur.released
    BY <1>1 DEF AgentRec, CurrentRec
  <2> QED
    BY <2>1, <2>2
<1>6. Welcomed(s, c, answer, acked) =
        IF ~Holds(s) THEN w
        ELSE IF ~Runs(s) THEN t
        ELSE IF answer = "continue" THEN v
        ELSE Stopped(u, answer)
  <2>1. Holds(s) = Holds(t) /\ Runs(s) = Runs(t)
    BY <1>1 DEF Holds, Runs
  <2> QED
    BY DEF Welcomed, o
<1> HIDE DEF t, u, v, w
<1>7. /\ Orderly(t) /\ Orderly(v) /\ Orderly(u) /\ Orderly(w)
  BY <1>1, <1>2, <1>3, <1>4, <1>5 DEF Orderly
<1>8. CASE ~Runs(s)
  <2>1. ~Runs(t) /\ (~Holds(s) => ~Runs(w))
    BY <1>1, <1>8 DEF Runs, Holds
  <2> QED
    BY <1>6, <1>7, <1>8, <2>1 DEF Runs
<1>9. CASE Runs(s) /\ answer = "continue"
  BY <1>3, <1>4, <1>6, <1>7, <1>9 DEF Runs
<1>10. CASE Runs(s) /\ answer # "continue"
  <2>1. answer \in Reason /\ Holds(u) /\ Holds(s)
    BY <1>5, <1>10 DEF Reason, Runs, Holds
  <2>2. Continues(u, Stopped(u, answer))
    BY <1>5, <1>7, <2>1, StoppedContinues
  <2>3. ~Runs(Stopped(u, answer))
    <3> DEFINE x == [u EXCEPT !.cur.released = answer]
    <3>1. x \in AgentRec /\ x.cur.released = answer /\ answer # "no"
      BY <1>5, <2>1 DEF Reason, AgentRec, CurrentRec
    <3> HIDE DEF x
    <3>2. LetGo(u, answer).cur = Idle
      BY <1>5 DEF LetGo, AgentRec
    <3>3. Stopped(u, answer) \in {x, LetGo(u, answer)}
      BY DEF Stopped, x
    <3> QED
      BY <3>1, <3>2, <3>3 DEF Runs, Holds, Idle
  <2> QED
    BY <1>6, <1>10, <2>1, <2>2, <2>3 DEF Continues
<1> QED
  BY <1>8, <1>9, <1>10

\* What the hub makes of the job's lease, as the agent hears it.
LEMMA MovedNumbers ==
    ASSUME NEW s \in AgentRec, Orderly(s), NEW j, NEW l,
           l.next \in Int, Runs(s) => s.cur.out.last = l.next - 1,
           Runs(s) => HoldsThat(s, j, l.epoch)
    PROVE  \E hi \in Int :
             NumberedTo(hi, j, l, AfterFlush(s), FramesOf(s), <<>>)
<1> DEFINE o == s.cur.out
           n == o.last + (Len(o.evs) - o.written)
           u == AfterFlush(s)
           q == FramesOf(s)
           e == l.epoch
<1>1. /\ n \in Int
      /\ Runs(u) => Runs(s) /\ u.cur.out.last = n
      /\ Runs(s) => Numbered(q, s.cur.job, s.cur.epoch, o.last + 1, n)
      /\ \A i, d : ~(Runs(s) /\ HoldsThat(s, i, d)) => Silent(q, i, d)
  BY FlushNumbers
<1>2. ~Assigns(<<>>, j, e)
  BY DEF Assigns
<1> HIDE DEF n, u, q
<1>3. CASE Runs(s)
  <2>1. o.last + 1 = l.next /\ s.cur.job = j /\ s.cur.epoch = e
    BY <1>3 DEF HoldsThat
  <2>2. Numbered(q, j, e, l.next, n)
    BY <1>1, <1>3, <2>1
  <2>3. NumberedTo(n, j, l, u, q, <<>>)
    BY <1>1, <1>2, <2>2 DEF NumberedTo
  <2> QED
    BY <1>1, <2>3 DEF u, q
<1>4. CASE ~Runs(s)
  <2>1. Numbered(q, j, e, l.next, l.next - 1)
    BY <1>1, <1>4, SilentNumbers
  <2>2. NumberedTo(l.next - 1, j, l, u, q, <<>>)
    BY <1>1, <1>2, <1>4, <2>1 DEF NumberedTo
  <2> QED
    BY <2>2 DEF u, q
<1> QED
  BY <1>3, <1>4

LEMMA ConnectChannels ==
    ASSUME TypeOK, LinkInv, ChannelInv, NEW a \in Agent, Connect(a)
    PROVE  ChannelInv'
<1>1. PICK t \in AgentRec, acked \in Int : \E answer, old, told :
        Resumed(a, t, acked, answer, old, told)
  BY ConnectParts
<1>2. PICK answer, old, told : Resumed(a, t, acked, answer, old, told)
  BY <1>1
<1> DEFINE s == agent[a]
           c == nextConn
           j == s.cur.job
           gone == Evicted(a)
           lease1 == Detached(gone)
           u == AfterFlush(t)
<1>3. /\ c \in Conn /\ s.link = NoConn /\ s \in AgentRec /\ c # NoConn
      /\ Orderly(s)
  <2>1. c \in Conn /\ s.link = NoConn /\ s \in AgentRec
    BY <1>2 DEF Resumed
  <2> QED
    BY <2>1, LeaseAssumption DEF ChannelInv
<1>4. ~Open(c) /\ down[c] = <<>> /\ up[c] = <<>> /\ c \notin gone
  <2>1. ~Open(c) /\ down[c] = <<>>
    BY <1>3 DEF LinkInv, Unopened, TypeOK
  <2>2. conn[c].agent # a
    BY <2>1, StoreAssumption DEF Open, NoChannel
  <2> QED
    BY <1>3, <2>1, <2>2 DEF Evicted, ChannelInv
<1>5. /\ t.link = c /\ Orderly(t)
      /\ Runs(t) => Runs(s) /\ t.cur.out.last = acked
                    /\ t.cur.job = j /\ t.cur.epoch = s.cur.epoch
  <2>1. /\ t = Welcomed(s, c, told, acked)
        /\ told \in {"none", "continue", "lease_lost", "cancelled", "reroute"}
        /\ told = "none" => ~Runs(s)
    BY <1>2 DEF Resumed
  <2>2. Sound(s)
    BY DEF LinkInv, LinkAt
  <2> HIDE DEF s, c
  <2>3. t.link = c
    BY <1>3, <2>1, <2>2, WelcomedTurns, ZenonT(30)
  <2> QED
    BY <1>3, <2>1, <2>3, WelcomedNumbers DEF s
<1>6. Orderly(u) /\ u.link = c
  BY <1>5, FlushNumbers
<1>7. /\ lease' = IF answer = "none" THEN lease1
                  ELSE [lease1 EXCEPT ![j] = AfterResume(@, answer, c)]
      /\ conn' = [k \in Conn |->
                    IF k \in gone THEN NoChannel
                    ELSE IF k = c
                         THEN [agent |-> a, ready |-> FALSE,
                               holding |-> IF answer = "moves"
                                           THEN j ELSE NoJob]
                    ELSE IF k = old /\ conn[k].holding = j
                         THEN [conn[k] EXCEPT !.holding = NoJob]
                    ELSE conn[k]]
      /\ answer # "none" => j \in Job
  BY <1>2 DEF Resumed
<1>8. \/ /\ agent' = [agent EXCEPT ![a] = u] /\ up'[c] = FramesOf(t)
         /\ answer # "settled" => down'[c] = <<>>
      \/ UNCHANGED agent /\ up'[c] = <<>> /\ down'[c] = <<>>
  BY <1>2, <1>3, <1>4 DEF Resumed
<1>9. \A k \in Conn \ {c} : down'[k] = down[k]
  BY <1>2 DEF Resumed, TypeOK
<1>10. \A k \in Conn \ {c} : up'[k] = IF k \in gone THEN <<>> ELSE up[k]
  BY <1>2 DEF Resumed
<1> HIDE DEF u, gone
<1>11. /\ agent'[a] \in {s, u} /\ \A b \in Agent \ {a} : agent'[b] = agent[b]
  BY <1>8 DEF TypeOK
<1>12. ASSUME NEW k \in Conn \ {c}, k \notin gone
       PROVE  (Open(k)' <=> Open(k)) /\ conn'[k].agent = conn[k].agent
  <2> DEFINE f == [conn[k] EXCEPT !.holding = NoJob]
  <2>1. conn[k] \in ChannelRec /\ NoChannel.agent \notin Agent
        /\ NoChannel.holding = NoJob
    BY StoreAssumption DEF TypeOK, NoChannel
  <2>2. f.agent = conn[k].agent
    BY <2>1 DEF ChannelRec, NoChannel
  <2>3. conn'[k] = conn[k] \/ (k = old /\ conn[k].holding = j /\ conn'[k] = f)
    BY <1>7, <1>12
  <2>4. k = old => j \in Job
    <3>1. k # NoConn
      BY <1>12, LeaseAssumption
    <3>2. k = old => answer = "moves"
      BY <1>2, <3>1 DEF Resumed
    <3> QED
      BY <1>7, <3>2
  <2> HIDE DEF f
  <2>5. CASE conn'[k] = conn[k]
    BY <2>5 DEF Open
  <2>6. CASE k = old /\ conn[k].holding = j /\ conn'[k] = f
    <3>1. conn[k] # NoChannel
      BY <2>1, <2>4, <2>6, NoJobs
    <3>2. conn[k].agent \in Agent
      BY <2>1, <3>1 DEF ChannelRec
    <3> QED
      BY <2>1, <2>2, <2>6, <3>1, <3>2 DEF Open
  <2> QED
    BY <2>3, <2>5, <2>6
<1>13. conn'[c].agent = a /\ conn'[c] # NoChannel
  <2>1. conn'[c].agent = a
    BY <1>3, <1>4, <1>7
  <2> QED
    BY <2>1, StoreAssumption DEF NoChannel
<1>14. ASSUME NEW k \in Job, LeaseSteady(lease[k], lease'[k]),
              lease'[k].conn \notin gone
       PROVE  Attached(k)' /\ NumberedAt(k)'
  <2> DEFINE l == lease[k]
             d == l.conn
             b == l.agent
  <2>1. ASSUME lease'[k].conn # NoConn
        PROVE  /\ OnSteady(d, k, l.epoch)
               /\ conn'[d] # NoChannel /\ conn'[d].agent = conn[d].agent
               /\ ByAgent(d, k, l.epoch, agent[b], agent'[b])
    <3>1. lease'[k].conn = d /\ l \in LeaseRec
      BY <1>14, <2>1 DEF LeaseSteady, TypeOK
    <3>2. d \in Conn /\ Open(d) /\ conn[d].agent = b /\ d \notin gone
      BY <1>14, <2>1, <3>1 DEF ChannelInv, Attached, LeaseRec
    <3>3. b \in Agent /\ d # c
      BY <1>4, <3>1, <3>2, StoreAssumption DEF LeaseRec, TypeOK, ChannelRec, Open
    <3>4. ByAgent(d, k, l.epoch, agent[b], agent'[b])
      <4>1. CASE b = a /\ agent'[b] = u
        BY <1>6, <3>3, <4>1 DEF ByAgent
      <4>2. CASE agent'[b] = agent[b]
        BY <4>2, SameAgent
      <4> QED
        BY <1>11, <3>3, <4>1, <4>2
    <3> HIDE DEF d, c
    <3>5. conn'[d] # NoChannel /\ conn'[d].agent = conn[d].agent
      BY <1>12, <3>2, <3>3 DEF Open
    <3>6. up'[d] = up[d] /\ down'[d] = down[d]
      BY <1>9, <1>10, <3>2, <3>3
    <3> QED
      BY <3>4, <3>5, <3>6 DEF OnSteady
  <2> HIDE DEF d, b
  <2> QED
    BY <1>14, <2>1, SteadyKeeps DEF d, b
<1>15. lease1 \in [Job -> LeaseRec]
  BY DetachedTyped
<1>16. ASSUME NEW k \in Job
       PROVE  /\ LeaseSteady(lease[k], lease1[k]) /\ lease1[k].conn \notin gone
              /\ LeaseSteady(lease[k], [lease1[k] EXCEPT !.time = "lost"])
              /\ [lease1[k] EXCEPT !.time = "lost"].conn = lease1[k].conn
  <2> DEFINE l == lease[k]
             m == [l EXCEPT !.conn = NoConn]
  <2>1. l \in LeaseRec
    BY DEF TypeOK
  <2>2. lease1[k] = IF l.conn \in gone THEN m ELSE l
    BY DEF Detached
  <2>3. NoConn \notin gone
    BY LeaseAssumption DEF gone, Evicted
  <2>4. m.conn = NoConn
    BY <2>1 DEF LeaseRec
  <2>5. m \in LeaseRec
    BY <1>15, <2>1, <2>2 DEF LeaseRec
  <2> HIDE DEF m
  <2>6. \A x \in {l, m} : [x EXCEPT !.time = "lost"].conn = x.conn
    BY <2>1, <2>5 DEF LeaseRec
  <2>7. LeaseSteady(l, l) /\ LeaseSteady(l, [l EXCEPT !.time = "lost"])
    BY <2>1, SteadyForms
  <2>8. LeaseSteady(l, m) /\ LeaseSteady(l, [m EXCEPT !.time = "lost"])
    BY <2>4, <2>6 DEF LeaseSteady
  <2> QED
    BY <2>2, <2>3, <2>4, <2>6, <2>7, <2>8
<1>17. ASSUME NEW k \in Job, ~(answer = "moves" /\ k = j)
       PROVE  Attached(k)' /\ NumberedAt(k)'
  <2>1. lease'[k] \in {lease1[k], [lease1[k] EXCEPT !.time = "lost"]}
    <3> HIDE DEF lease1, j, c
    <3> QED
      BY <1>7, <1>15, <1>17 DEF AfterResume
  <2> HIDE DEF lease1
  <2> QED
    BY <1>14, <1>16, <2>1
<1>18. ASSUME NEW k \in Job, answer = "moves", k = j
       PROVE  Attached(k)' /\ NumberedAt(k)'
  <2> DEFINE l == lease1[k]
             m == [l EXCEPT !.conn = c]
  <2>1. k \in Job /\ l \in LeaseRec
    BY <1>7, <1>15, <1>18
  <2>2. lease'[k] = m
    <3> HIDE DEF lease1, j, c
    <3> QED
      BY <1>7, <1>15, <1>18, <2>1 DEF AfterResume
  <2>3. m.conn = c /\ m.agent = l.agent /\ m.epoch = l.epoch /\ m.next = l.next
        /\ l.next \in Int
    BY <2>1 DEF LeaseRec
  <2>4. /\ acked = l.next - 1 /\ l.agent = a /\ l.epoch = s.cur.epoch
    BY <1>2, <1>18 DEF Resumed, ResumeAnswer, gone
  <2> HIDE DEF m
  <2>5. Attached(k)'
    BY <1>13, <2>2, <2>3, <2>4 DEF Attached, Open
  <2>6. \E hi \in Int : NumberedTo(hi, k, m, agent'[a], up'[c], down'[c])
    <3>1. CASE agent' = [agent EXCEPT ![a] = u] /\ up'[c] = FramesOf(t)
               /\ down'[c] = <<>>
      <4>1. agent'[a] = u
        BY <3>1 DEF TypeOK
      <4>2. \E hi \in Int : NumberedTo(hi, k, m, u, FramesOf(t), <<>>)
        BY <1>5, <1>18, <2>3, <2>4, MovedNumbers DEF HoldsThat, u
      <4> QED
        BY <3>1, <4>1, <4>2
    <3>2. CASE UNCHANGED agent /\ up'[c] = <<>> /\ down'[c] = <<>>
      <4>1. Silent(<<>>, k, m.epoch)
        BY DEF Silent
      <4>2. Numbered(<<>>, k, m.epoch, m.next, m.next - 1) /\ m.next - 1 \in Int
        BY <2>3, <4>1, SilentNumbers
      <4>3. NumberedTo(m.next - 1, k, m, agent'[a], up'[c], down'[c])
        BY <1>3, <2>3, <3>2, <4>2 DEF NumberedTo
      <4> QED
        BY <4>2, <4>3
    <3> QED
      BY <1>8, <1>18, <3>1, <3>2
  <2>7. NumberedAt(k)'
    BY <2>2, <2>3, <2>4, <2>6 DEF NumberedAt
  <2> QED
    BY <2>5, <2>7
<1>19. \A b \in Agent : Orderly(agent'[b])
  BY <1>3, <1>6, <1>11 DEF ChannelInv
<1>20. ASSUME NEW k \in Conn, ~Open(k)'
       PROVE  up'[k] = <<>>
  <2>1. k # c
    BY <1>13, <1>20 DEF Open
  <2> QED
    BY <1>10, <1>12, <1>20, <2>1 DEF ChannelInv
<1>21. \A k \in Job : Attached(k)' /\ NumberedAt(k)'
  BY <1>17, <1>18
<1> QED
  BY <1>19, <1>20, <1>21 DEF ChannelInv

-----------------------------------------------------------------------------
\* The theorems.

LEMMA NextChannels ==
    ASSUME AttemptInv, ChannelInv, [Next]_vars
    PROVE  ChannelInv'
<1>1. TypeOK /\ LinkInv
  BY DEF AttemptInv, ClaimBase, LifeInv, FenceInv
<1>2. CASE UNCHANGED vars
  <2>1. UNCHANGED <<agent, lease, conn, up, down>>
    BY <1>2 DEF vars, jobs, process, hub
  <2>2. ASSUME NEW j \in Job
        PROVE  Attached(j)' /\ NumberedAt(j)'
    BY <2>1 DEF ChannelInv, Attached, NumberedAt, Open
  <2> QED
    BY <2>1, <2>2 DEF ChannelInv, Open
<1>3. ASSUME NEW a \in Agent, AgentStep(a)
      PROVE  ChannelInv'
  <2>1. CASE AgentTurn(a)
    BY <1>1, <2>1, TurnChannels
  <2>2. CASE Upload(a) \/ Heartbeat(a) \/ Disconnect(a) \/ AgentCrash(a)
    BY <1>1, <2>2, UploadChannels, HeartbeatChannels, DisconnectChannels
  <2>3. CASE Connect(a)
    BY <1>1, <2>3, ConnectChannels
  <2> QED
    BY <1>3, <2>1, <2>2, <2>3 DEF AgentStep, AgentTurn
<1>4. ASSUME NEW c \in Conn, ChannelStep(c)
      PROVE  ChannelInv'
  BY <1>1, <1>4, ChannelReads, RemoveChannels
<1>5. ASSUME NEW j \in Job, RunnerStep(j)
      PROVE  ChannelInv'
  BY <1>1, <1>5, ClaimChannels, RunnerChannels
<1>6. ASSUME (\E j \in Job : Expire(j) \/ UserCancel(j)) \/ Stop \/ Restart
      PROVE  ChannelInv'
  BY <1>1, <1>6, SurroundingsChannels
<1> QED
  BY <1>2, <1>3, <1>4, <1>5, <1>6 DEF Next

\* On the channel of a live lease, the events under way are numbered one
\* after the other from the one that `handle` waits for: an agent renumbers its
\* outbox when `on_welcome` moves its job to another channel, and its `flush`
\* goes on from there (agent.rs, workers.rs `resume`).
THEOREM ChannelInvariant == Spec => [](AttemptInv /\ ChannelInv)
<1>1. Init => ChannelInv
  <2> SUFFICES ASSUME Init PROVE ChannelInv
    OBVIOUS
  <2>1. /\ \A a \in Agent : agent[a] = NewAgent
        /\ \A j \in Job : lease[j].conn = NoConn
        /\ \A c \in Conn : up[c] = <<>>
    BY DEF Init, NoLease, NewLease
  <2>2. /\ NewAgent.pending = <<>> /\ NewAgent.cur.out.written = 0
        /\ NewAgent.cur.out.evs = <<>> /\ Len(<<>>) = 0
    BY DEF NewAgent, Idle, EmptyOutbox
  <2>3. Orderly(NewAgent)
    BY <2>2, NoneOfNone DEF Orderly
  <2> QED
    BY <2>1, <2>3 DEF ChannelInv, Attached, NumberedAt
<1>2. AttemptInv /\ ChannelInv /\ [Next]_vars => ChannelInv'
  BY NextChannels
<1> QED
  BY <1>1, <1>2, WordsInvariant, PTL DEF Spec

\* The hub never reads an event of a lease but the one it waits for: it ignores
\* no repeat and closes no channel for a gap (workers.rs `handle`).
THEOREM EventsComeInSequence == Spec => []InSequence
<1>1. AttemptInv /\ ChannelInv => InSequence
  <2> SUFFICES ASSUME AttemptInv, ChannelInv, NEW c \in Conn, Gets(c, "event"),
                      Current(c, Head(up[c]))
               PROVE  Head(up[c]).seq = lease[Head(up[c]).job].next
    BY DEF InSequence
  <2> DEFINE f == Head(up[c])
             j == f.job
             l == lease[j]
  <2>1. TypeOK /\ up[c] \in Seq(FrameRec) /\ up[c] # <<>> /\ f.type = "event"
        /\ f \in FrameRec
    <3>1. TypeOK
      BY DEF AttemptInv, ClaimBase, LifeInv, FenceInv
    <3>2. up[c] \in Seq(FrameRec) /\ up[c] # <<>> /\ f.type = "event"
      BY <3>1 DEF Gets, TypeOK
    <3>3. \A q \in Seq(FrameRec) : q # <<>> => Head(q) \in FrameRec
      OBVIOUS
    <3> QED
      BY <3>1, <3>2, <3>3
  <2>2. /\ j \in Job /\ l.conn = c /\ l.epoch = f.epoch /\ l.time # "lost"
        /\ c # NoConn /\ l.next \in Int
    <3>1. j \in Job /\ c # NoConn
      BY <2>1, FrameKinds, LeaseAssumption
    <3>2. l \in LeaseRec
      BY <2>1, <3>1 DEF TypeOK
    <3>3. l.conn = c /\ l.epoch = f.epoch /\ l.time # "lost"
      BY DEF Current
    <3> QED
      BY <3>1, <3>2, <3>3 DEF LeaseRec
  <2>3. PICK hi \in Int : NumberedTo(hi, j, l, agent[l.agent], up[c], down[c])
    BY <2>2 DEF ChannelInv, NumberedAt
  <2>4. OfAttempt(f, j, l.epoch)
    BY <2>1, <2>2 DEF OfAttempt
  <2>5. Numbered(up[c], j, l.epoch, l.next, hi)
    BY <2>3 DEF NumberedTo
  <2> HIDE DEF j, l
  <2> QED
    BY <2>1, <2>2, <2>4, <2>5, TailNumbers DEF j, l
<1> QED
  BY <1>1, ChannelInvariant, PTL

=============================================================================
