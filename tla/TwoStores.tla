------------------------------ MODULE TwoStores ------------------------------
(***************************************************************************)
(* What a request that changes a table promises while the metadata and the *)
(* physical tables are in two databases: there is no moment at which only  *)
(* one of them has its change and no schema operation says so.  (The       *)
(* comment of TableUpdateFlow.ts: the table is at error "for               *)
(* reconciliation".)                                                       *)
(***************************************************************************)
CONSTANTS Request, Part

VARIABLES metadata, physical, recorded

stores == <<metadata, physical, recorded>>

Init ==
  /\ metadata = [r \in Request |-> {}]
  /\ physical = [r \in Request |-> {}]
  /\ recorded = {}

Converged(r) == metadata[r] = physical[r]

Announce(r) ==
  /\ recorded' = recorded \cup {r}
  /\ UNCHANGED <<metadata, physical>>

ChangeMetadata(r) ==
  /\ r \in recorded
  /\ \E parts \in SUBSET Part : metadata' = [metadata EXCEPT ![r] = @ \cup parts]
  /\ UNCHANGED <<physical, recorded>>

ChangePhysical(r) ==
  /\ r \in recorded
  /\ \E parts \in SUBSET Part : physical' = [physical EXCEPT ![r] = @ \cup parts]
  /\ UNCHANGED <<metadata, recorded>>

Settle(r) ==
  /\ Converged(r)
  /\ recorded' = recorded \ {r}
  /\ UNCHANGED <<metadata, physical>>

Next ==
  \E r \in Request : Announce(r) \/ ChangeMetadata(r) \/ ChangePhysical(r) \/ Settle(r)

Spec == Init /\ [][Next]_stores

=============================================================================
