---------------------------- MODULE ComputedSeeds ----------------------------
(***************************************************************************)
(* The data a computed update moves: records, the tables they live in, and *)
(* the records computed from them (a lookup, rollup, link or formula field *)
(* of a dependent record reads a field of its source).                     *)
(***************************************************************************)
EXTENDS Integers, FiniteSets

CONSTANTS
  Record,      \* record ids
  Table,       \* table ids
  TableOf,     \* the table of each record
  Dependents   \* the records computed from each record

ASSUME SeedsAssumption ==
  /\ IsFiniteSet(Record)
  /\ TableOf \in [Record -> Table]
  /\ Dependents \in [Record -> SUBSET Record]

\* The records a task on these seeds writes (ComputedFieldUpdater's dirty set).
Affected(seeds) == UNION {Dependents[r] : r \in seeds}

HasDependents == {r \in Record : Dependents[r] # {}}

\* The written records that are sources themselves: the next stage's seeds.
NextSeeds(seeds) == Affected(seeds) \cap HasDependents

=============================================================================
