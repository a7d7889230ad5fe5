----------------------------- MODULE CloneCache -----------------------------
(***************************************************************************)
(* The clones a host keeps between jobs, one per repository, and which of  *)
(* them an eviction removes (src/src/service/clone.rs).  Operators on the  *)
(* cache; who calls them, and what runs meanwhile, is JobExecution's.      *)
(*                                                                         *)
(* Commits of a repository are numbered in the order they reached its      *)
(* remote.  Sizes are counted in files: one for a clone's directory, and   *)
(* one for each commit it holds.                                           *)
(***************************************************************************)
EXTENDS Integers, FiniteSets, SequencesExt

CONSTANTS Repo,     \* repositories
          Commit,   \* 0..n
          Budget    \* clone_cache_bytes, in files

ASSUME CacheAssumption ==
    /\ Budget \in Nat /\ IsFiniteSet(Repo) /\ IsFiniteSet(Commit)
    /\ Commit \subseteq Nat /\ 0 \in Commit /\ \A n \in Commit : 0 .. n \subseteq Commit

\* A clone directory: git still fills it, or it is what a removal or a git
\* that failed left of one, or it can be fetched into and copied from; the
\* commits it holds, and the one it has checked out.
Clone == [state : {"none", "partial", "broken", "whole"},
          has : SUBSET Commit, at : Commit]

NoClone == [state |-> "none", has |-> {}, at |-> 0]

\* git clone is under way.
PartialClone == [NoClone EXCEPT !.state = "partial"]

\* Neither git nor another eviction has use for it.
BrokenClone == [NoClone EXCEPT !.state = "broken"]

\* clone_blobless: what the remote has now, from `floor` to `head`.
Cloned(floor, head) == [state |-> "whole", has |-> floor .. head, at |-> head]

\* fetch_and_fast_forward: what was fetched before stays.
Fetched(c, floor, head) ==
    [c EXCEPT !.has = @ \cup floor .. head, !.at = head]

\* fetch went through, and checkout or reset did not.
Grown(c, floor, head) == [c EXCEPT !.has = @ \cup floor .. head]

Cached(clone) == {r \in Repo : clone[r].state # "none"}

\* All there is in the cache: the directories (-1) and what they hold.
File == Repo \X (Commit \cup {-1})
Files(clone) == {f \in File : /\ clone[f[1]].state # "none"
                              /\ f[2] = -1 \/ f[2] \in clone[f[1]].has}

\* Mutant: an earlier use is not forgotten.
TouchAgain(recent, r) == Append(recent, r)

\* touch: `recent` are the repositories with a .tolmap-last-used, in the order
\* of their last use, each once.
Touch(recent, r) == Append(RemoveFirst(recent, r), r)

\* a was used before b; one that was never touched is older than all.
Older(recent, a, b) ==
    \/ a \notin ToSet(recent)
    \/ /\ {a, b} \subseteq ToSet(recent)
       /\ \E m, n \in DOMAIN recent : m <= n /\ recent[m] = a /\ recent[n] = b

\* Mutant: the clone being served is not counted.
ListingWithoutOwn(clone, recent, keep, missed) ==
    {[victims |-> s,
      seen |-> {f \in Files(clone) : f[1] \notin missed \cup {keep}}] :
       s \in {s \in SetToSeqs(Cached(clone) \ {keep}) :
                \A m, n \in DOMAIN s : m < n => Older(recent, s[m], s[n])}}

\* evict_lru, first half: the candidates, least recently used first (those
\* never touched in any order), and the files counted, those of `keep` too,
\* the clone this eviction serves, which is no candidate.  A clone whose size
\* cannot be read (`missed`) counts as nothing, and is a candidate.
Listing(clone, recent, keep, missed) ==
    {[victims |-> s, seen |-> {f \in Files(clone) : f[1] \notin missed}] :
       s \in {s \in SetToSeqs(Cached(clone) \ {keep}) :
                \A m, n \in DOMAIN s : m < n => Older(recent, s[m], s[n])}}

\* evict_lru, second half: is there one more to remove?
MustEvict(listing) ==
    listing.victims # <<>> /\ Cardinality(listing.seen) > Budget

\* The next is done with; the total falls by its size as listed, but not if it
\* could not be removed or had gone meanwhile.
AfterVictim(listing, removed) ==
    [victims |-> Tail(listing.victims),
     seen |-> IF removed THEN {f \in listing.seen : f[1] # Head(listing.victims)}
              ELSE listing.seen]

=============================================================================
