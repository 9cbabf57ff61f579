-------------------------------- MODULE UndoLog ------------------------------
(***************************************************************************)
(* What the undo/redo stack of a window promises (UndoRedoStore.ts): the   *)
(* changes in effect, oldest first, and the changes taken back, the next   *)
(* to redo first.  Changes of one group are undone and redone together.    *)
(***************************************************************************)
EXTENDS Naturals, Sequences

CONSTANTS Entry, GroupOf, NoGroup

VARIABLES done, undone

Together(a, b) == GroupOf[a] # NoGroup /\ GroupOf[a] = GroupOf[b]

\* A group, or a change of its own.
IsGroup(s) == \A i \in 2 .. Len(s) : Together(s[i - 1], s[i])

Init == done = <<>> /\ undone = <<>>

Do(e) == done' = Append(done, e) /\ undone' = <<>>

Undo ==
  \E n \in 1 .. Len(done) :
    /\ IsGroup(SubSeq(done, n, Len(done)))
    /\ n > 1 => ~Together(done[n - 1], done[n])
    /\ done' = SubSeq(done, 1, n - 1)
    /\ undone' = SubSeq(done, n, Len(done)) \o undone

Redo ==
  \E n \in 1 .. Len(undone) :
    /\ IsGroup(SubSeq(undone, 1, n))
    /\ n < Len(undone) => ~Together(undone[n], undone[n + 1])
    /\ done' = done \o SubSeq(undone, 1, n)
    /\ undone' = SubSeq(undone, n + 1, Len(undone))

\* The oldest change falls out of the retention window.
Forget == done # <<>> /\ done' = Tail(done) /\ UNCHANGED undone

\* A change that is about to be recorded discards what could be redone.
Discard == undone # <<>> /\ undone' = Tail(undone) /\ UNCHANGED done

Next == (\E e \in Entry : Do(e)) \/ Undo \/ Redo \/ Forget \/ Discard

Spec == Init /\ [][Next]_<<done, undone>>

=============================================================================
