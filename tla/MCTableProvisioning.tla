------------------------- MODULE MCTableProvisioning -------------------------
(***************************************************************************)
(* Two tables, one created and one duplicated, their deletions, soft and   *)
(* permanent, and two runners.  A scenario, chosen at the start, says      *)
(* which commands are issued, which runners poll, and how often things go  *)
(* wrong: left[x] is how many more times x may happen.                     *)
(***************************************************************************)
EXTENDS TableProvisioning, TLC

CONSTANTS T1, T2, c1, c2, d1, p1, p2, r1, r2, Scenarios

VARIABLE left

MCTableOf == (c1 :> T1) @@ (c2 :> T2) @@ (d1 :> T1) @@ (p1 :> T1) @@ (p2 :> T2)
MCKinds == (c1 :> "create") @@ (c2 :> "duplicate") @@ (d1 :> "trash") @@ (p1 :> "purge")
             @@ (p2 :> "purge")
MCKindOf == [c \in Cmd |-> MCKinds[c]]
MCTables == [c \in Cmd |-> MCTableOf[c]]

\* Everything that is about a table, and one runner; or its creation and its
\* permanent deletion, and two runners that may take each other's lock; or a
\* duplication, which no runner repairs, with a permanent deletion.
MCOneRunner == [cmd |-> {c1, d1, p1}, runner |-> {r1}, failure |-> 1, crash |-> 1, old |-> 0,
                manual |-> 1, restore |-> 1]
MCTwoRunners == [cmd |-> {c1, p1}, runner |-> {r1, r2}, failure |-> 1, crash |-> 1, old |-> 1,
                 manual |-> 0, restore |-> 0]
MCDuplicate == [cmd |-> {c2, p2}, runner |-> {r1}, failure |-> 2, crash |-> 2, old |-> 0,
                manual |-> 1, restore |-> 0]
MCEither == {MCOneRunner, MCTwoRunners, MCDuplicate}
MCCleanup == {[cmd |-> {c1}, runner |-> {r1}, failure |-> 1, crash |-> 0, old |-> 0,
               manual |-> 0, restore |-> 0]}

Spend(x) == left[x] > 0 /\ left' = [left EXCEPT ![x] = @ - 1]
Free(A) == A /\ UNCHANGED left

\* A lock that nobody is behind any more gets old; that of a runner at work
\* only when the repair takes longer than staleRunningMs.
MCLockGetsOld(c) ==
  /\ LockGetsOld(c)
  /\ IF \E w \in Runner : job[w] = c THEN Spend("old") ELSE UNCHANGED left

MCInit ==
  /\ Init
  /\ left \in Scenarios

MCNext ==
  \/ \E c \in left.cmd :
                    \/ Free(Handle(c)) \/ Free(BackoffElapses(c)) \/ MCLockGetsOld(c)
                    \/ DataFails(c) /\ (IF TableOf[c] \in storage /\ c \in Creator
                                          THEN UNCHANGED left ELSE Spend("failure"))
                    \/ FinalizeFails(c) /\ Spend("failure")
                    \/ Abandon(c) /\ Spend("crash")
                    \/ Retry(c) /\ Spend("manual")
                    \/ Bury(c) /\ Spend("manual")
  \/ \E w \in left.runner :
                       \/ Free(ClaimNext(w)) \/ Free(Repair(w))
                       \/ RunnerFails(w) /\ Spend("failure")
                       \/ RunnerCrash(w) /\ Spend("crash")
  \/ \E t \in Table : Restore(t) /\ Spend("restore")

MCSpec == MCInit /\ [][MCNext]_<<vars, left>>

\* The runner polls for ever and its steps end; time passes.  Nothing is
\* assumed of the commands: a request may hang at any point.
MCFairness ==
  /\ \A w \in Runner : /\ WF_<<vars, left>>(w \in left.runner /\ Free(ClaimNext(w)))
                       /\ WF_<<vars, left>>(Free(Repair(w)))
  /\ \A c \in Cmd : /\ WF_<<vars, left>>(Free(BackoffElapses(c)))
                    /\ WF_<<vars, left>>(MCLockGetsOld(c) /\ \A w \in Runner : job[w] # c)

MCFairSpec == MCSpec /\ MCFairness
=============================================================================
