--------------------------- MODULE ProposalPromise --------------------------
(***************************************************************************)
(* What the acceptance of a proposal promises while the requests for it    *)
(* come one after the other: an action is executed until an execution      *)
(* succeeds, is executed again only after a failure that was stored, and   *)
(* after a success, or once an execution was cut short, never again.       *)
(***************************************************************************)
EXTENDS Naturals

CONSTANT Proposal

VARIABLES
  stage,     \* of each proposal: open, executing, done or stuck
  produced   \* how often its resource was created

promised == <<stage, produced>>

Init ==
  /\ stage = [p \in Proposal |-> "open"]
  /\ produced = [p \in Proposal |-> 0]

Move(p, from, to) ==
  /\ stage[p] = from
  /\ stage' = [stage EXCEPT ![p] = to]
  /\ UNCHANGED produced

Begin(p) == Move(p, "open", "executing")

Produce(p) ==
  /\ stage[p] = "executing"
  /\ produced' = [produced EXCEPT ![p] = @ + 1]
  /\ UNCHANGED stage

Succeed(p) == Move(p, "executing", "done")

\* A failure that is stored opens the proposal for another acceptance.
Fail(p) == Move(p, "executing", "open")

\* An execution nobody finishes leaves the proposal accepted for ever.
CutShort(p) == Move(p, "executing", "stuck")

Next ==
  \E p \in Proposal : Begin(p) \/ Produce(p) \/ Succeed(p) \/ Fail(p) \/ CutShort(p)

Spec == Init /\ [][Next]_promised
=============================================================================
