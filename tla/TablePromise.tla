----------------------------- MODULE TablePromise ---------------------------
(***************************************************************************)
(* What the commands that create and delete tables promise together: the   *)
(* metadata and the physical tables are two stores that no transaction     *)
(* spans, so a table may be known and not stored, but only while some      *)
(* operation about it is on record.  A table is dropped only with the      *)
(* deletion on record, and the last operation about a table is settled     *)
(* only when the table is whole or gone.                                   *)
(***************************************************************************)
CONSTANT Table

VARIABLES
  known,     \* tables with a row in table_meta,
  visible,   \* those that are not in the trash,
  stored,    \* physical tables,
  recorded   \* tables some operation about which is not ready

promised == <<known, visible, stored, recorded>>

Init ==
  /\ known = {} /\ visible = {}
  /\ stored = {} /\ recorded = {}

\* The row comes first, and the operation in the same transaction.
Insert(t) ==
  /\ t \notin known /\ t \notin stored
  /\ known' = known \cup {t}
  /\ visible' = visible \cup {t}
  /\ recorded' = recorded \cup {t}
  /\ UNCHANGED stored

\* By its command, or by a repair.
Create(t) ==
  /\ stored' = stored \cup {t}
  /\ UNCHANGED <<known, visible, recorded>>

\* A command begins or fails, or the operator puts an operation back.
Announce(t) ==
  /\ recorded' = recorded \cup {t}
  /\ UNCHANGED <<known, visible, stored>>

Drop(t) ==
  /\ t \in recorded
  /\ stored' = stored \ {t}
  /\ UNCHANGED <<known, visible, recorded>>

Trash(t) ==
  /\ t \in known
  /\ visible' = visible \ {t}
  /\ UNCHANGED <<known, stored, recorded>>

Restore(t) ==
  /\ t \in known
  /\ visible' = visible \cup {t}
  /\ UNCHANGED <<known, stored, recorded>>

Remove(t) ==
  /\ known' = known \ {t}
  /\ visible' = visible \ {t}
  /\ UNCHANGED <<stored, recorded>>

Settle(t) ==
  /\ t \in stored \/ t \notin known
  /\ recorded' = recorded \ {t}
  /\ UNCHANGED <<known, visible, stored>>

Next ==
  \E t \in Table :
    \/ Insert(t) \/ Create(t) \/ Announce(t) \/ Drop(t)
    \/ Trash(t) \/ Restore(t) \/ Remove(t) \/ Settle(t)

Spec == Init /\ [][Next]_promised
=============================================================================
