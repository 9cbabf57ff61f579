--------------------------- MODULE MCComputedWorker --------------------------
(***************************************************************************)
(* Two source records a and b in one table with a common dependent d in    *)
(* a second table, which has a dependent itself, so that a task has a      *)
(* second stage.  Tasks on a and on b write the same record and have no    *)
(* lock in common.  d is of another base than a and b and may be written   *)
(* itself: then its task is of that base.  What the environment may do is  *)
(* counted: left[x] is how many more times x may happen, from a scenario   *)
(* that is chosen at the start.  Only the scope that a and b are written   *)
(* to is ever paused.                                                      *)
(***************************************************************************)
EXTENDS ComputedLosses, TLC

CONSTANTS a, b, d, e, T1, T2, T3, B1, B2, t1, t2, t3, w1, w2, Scenarios

VARIABLE left

MCRecord == {a, b, d, e}
MCTable == {T1, T2, T3}
MCTableOf == (a :> T1) @@ (b :> T1) @@ (d :> T2) @@ (e :> T3)
MCShard == [r \in MCRecord |-> 0]
MCDependents == (a :> {d}) @@ (b :> {d}) @@ (d :> {e}) @@ (e :> {})
\* The seed keys of both bases, the next stage's key (a stage stays in the base
\* of the first), and the chunk keys of a split seed task.  A chunk that has to
\* be split again keeps its key here.
MCKey == {"seed", "other", "next", "chunk1", "chunk2"}
MCSeedKey == MCKey \ {"next"}
MCBase == {B1, B2}
MCBaseOf == [k \in MCKey |-> IF k = "other" THEN B2 ELSE B1]
MCScope == {T1, T2, B2}
MCScopeOf == [k \in MCKey |-> CASE k = "next" -> T2 [] k = "other" -> B2 [] OTHER -> T1]
MCWriteKeys == [r \in MCRecord |-> CASE r \in {a, b} -> {"seed"} [] r = d -> {"other"} [] OTHER -> {}]
MCNextKey == [k \in MCKey |-> "next"]
MCChunkKey == [ki \in MCKey \X (1..4) |-> IF ki[2] = 1 THEN "chunk1" ELSE "chunk2"]

Ids == Permutations(Task) \cup Permutations(Run) \cup Permutations({a, b})

\* The name of what a write of r is counted as.
WriteOf(r) == IF r = d THEN "other" ELSE "write"

Quiet == [write |-> 2, other |-> 0, fail |-> 0, crash |-> 0, stall |-> 0, takeover |-> 0, pause |-> 0,
          renewError |-> 0]
MCSafety == {[Quiet EXCEPT !.fail = 2, !.crash = 1],
             [Quiet EXCEPT !.fail = 1, !.crash = 1, !.pause = 1],
             [Quiet EXCEPT !.fail = 1, !.stall = 1],
             [Quiet EXCEPT !.crash = 1, !.stall = 1],
             [Quiet EXCEPT !.fail = 1, !.takeover = 1],
             [Quiet EXCEPT !.takeover = 1, !.renewError = 1],
             [Quiet EXCEPT !.write = 1, !.fail = 1, !.takeover = 1, !.renewError = 1],
             [Quiet EXCEPT !.write = 1, !.other = 1, !.crash = 1, !.takeover = 1],
             [Quiet EXCEPT !.write = 3]}
MCLive == {[Quiet EXCEPT !.fail = 1, !.crash = 1],
           [Quiet EXCEPT !.fail = 1, !.pause = 1],
           [Quiet EXCEPT !.write = 1, !.other = 1, !.crash = 1]}
MCSpill == {[Quiet EXCEPT !.write = 3]}

Spend(x) == left[x] > 0 /\ left' = [left EXCEPT ![x] = @ - 1]

\* Somebody still works on row t under the lease it has.
Held(t) == \E w \in Run : /\ Owns(rows, w, t)
                          /\ t \in {i.id : i \in batch[w] \cup
                                       (IF pc[w] = "idle" THEN {} ELSE {cur[w]})}

\* The heartbeat comes every third of a lease at the latest, so a lease that is
\* held runs out only when its process stalls; an abandoned one always does.
MCLeaseExpires(t) ==
  /\ LeaseExpires(t)
  /\ IF Held(t) THEN Spend("stall") ELSE UNCHANGED left

MCInit ==
  /\ LossInit
  /\ left \in Scenarios

MCWork(w) == Work(w) /\ UNCHANGED left
MCClaimBatch(w) == ClaimBatch(w) /\ UNCHANGED left
MCBackoffElapses(t) == BackoffElapses(t) /\ UNCHANGED left
MCResume(s) == s \in paused /\ Resume(s) /\ UNCHANGED left

MCStep ==
  \/ \E r \in Record : Write(r) /\ Spend(WriteOf(r))
  \/ \E w \in Run : \/ MCClaimBatch(w) \/ MCWork(w)
                    \/ Heartbeat(w) /\ UNCHANGED left
                    \/ StartUnrenewed(w) /\ Spend("renewError")
                    \/ TaskFails(w) /\ Spend("fail")
                    \/ Crash(w) /\ Spend("crash")
                    \/ \E t \in Task : ClaimById(w, t) /\ Spend("takeover")
  \/ \E t \in Task : MCLeaseExpires(t) \/ MCBackoffElapses(t)
  \/ Pause(T1) /\ Spend("pause")
  \/ MCResume(T1)

MCNext == MCStep /\ TrackLosses

MCSpec == MCInit /\ [][MCNext]_<<vars, lost, left>>

MCClaims(t) ==
  \E w \in Run : MCClaimBatch(w) /\ Owns(rows, w, t)' /\ t \in {i.id : i \in batch'[w]}

\* A run that has claimed goes on, time passes, and every pause is lifted.
\* Claims are strongly fair to each row: they take the rows in the order of
\* their age and the pollers come much more often than a lease runs out, so a
\* row that is claimable again and again is not passed over for ever.
MCFairness ==
  /\ \A w \in Run : WF_<<vars, left>>(MCWork(w))
  /\ \A t \in Task : /\ SF_<<vars, left>>(MCClaims(t))
                     /\ WF_<<vars, left>>(MCLeaseExpires(t) /\ ~Held(t))
                     /\ WF_<<vars, left>>(MCBackoffElapses(t))
  /\ WF_<<vars, left>>(MCResume(T1))

MCFairSpec == MCSpec /\ MCFairness
=============================================================================
