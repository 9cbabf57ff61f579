--------------------------- MODULE MCUndoRedoStore ---------------------------
(***************************************************************************)
(* Instances of UndoRedoStore for TLC.                                     *)
(***************************************************************************)
EXTENDS UndoRedoStore

\* The second and third edit are one paste.
MCGroups == [e \in Edit |-> IF e \in {2, 3} THEN "paste" ELSE NoGroup]

=============================================================================
