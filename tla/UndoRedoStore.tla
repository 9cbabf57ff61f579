----------------------------- MODULE UndoRedoStore ---------------------------
(***************************************************************************)
(* The undo/redo stack of one window (one actor, table and windowId), kept *)
(* in a key-value store: KeyvUndoRedoStore.ts, and UndoRedoStackService.ts *)
(* which replays what the store returns.  One key holds the list of entry  *)
(* ids and the cursor, each entry has a key of its own; nothing but single *)
(* gets, sets and deletes is atomic.                                       *)
(*                                                                         *)
(* Left out: the older "inline" format, which the first request converts,  *)
(* the compression of large values, and the second read of an append that  *)
(* finds no stack.                                                         *)
(***************************************************************************)
EXTENDS Naturals, FiniteSets, FiniteSetsExt, SequencesExt

CONSTANTS
  MaxEdits,    \* bound: the edits the window makes
  GroupOf,     \* groupId of the entry of each edit
  NoGroup,
  NoEntry,
  MaxEntries,  \* maxUndoStackSize; 0 is no limit
  Request      \* requests that are served at the same time

Edit == 1 .. MaxEdits
Id == 1 .. MaxEdits   \* an edit uses up one id at most

ASSUME StoreAssumption ==
  /\ MaxEdits \in Nat /\ MaxEntries \in Nat
  /\ DOMAIN GroupOf = Edit
  /\ NoEntry \notin Edit

VARIABLES
  meta,     \* the window's key: entryIds, cursor, nextSequence
  keys,     \* the entries' keys
  edits,    \* edits made so far
  applied,  \* edits that are in effect in the table
  stray,    \* edits whose undo or redo was interrupted
  pc, mode, \* where each request is, and what it is
  snap,     \* the meta it has read
  todo,     \* keys still to delete or read, or edits still to replay
  found,    \* ids and entries it has read
  entry     \* the edit it records

store == <<meta, keys>>
request == <<pc, mode, snap, todo, found, entry>>
vars == <<meta, keys, edits, applied, stray, pc, mode, snap, todo, found, entry>>

Meta == [ids : Seq(Id), cursor : Nat, next : Nat \ {0}]
NoMeta == [ids |-> <<>>, cursor |-> 0, next |-> 1]
Found == [id : Id, entry : Edit]

TypeOK ==
  /\ meta \in Meta /\ meta.cursor <= Len(meta.ids)
  /\ \A i \in 1 .. Len(meta.ids) : meta.ids[i] < meta.next
  /\ keys \in [Id -> Edit \cup {NoEntry}]
  /\ edits \in 0 .. MaxEdits
  /\ applied \subseteq 1 .. edits
  /\ stray \subseteq 1 .. edits
  /\ pc \in [Request -> {"idle", "meta", "load", "delete", "commit", "replay"}]
  /\ mode \in [Request -> {"append", "undo", "redo"}]
  /\ snap \in [Request -> Meta]
  /\ todo \in [Request -> Seq(Nat)]
  /\ found \in [Request -> Seq(Found)]
  /\ entry \in [Request -> Edit \cup {NoEntry}]

Init ==
  /\ meta = NoMeta
  /\ keys = [i \in Id |-> NoEntry]
  /\ edits = 0 /\ applied = {} /\ stray = {}
  /\ pc = [r \in Request |-> "idle"]
  /\ mode = [r \in Request |-> "append"]
  /\ snap = [r \in Request |-> NoMeta]
  /\ todo = [r \in Request |-> <<>>]
  /\ found = [r \in Request |-> <<>>]
  /\ entry = [r \in Request |-> NoEntry]

Goto(r, label) == pc' = [pc EXCEPT ![r] = label]

-----------------------------------------------------------------------------
\* A command has changed the table and appends its entry.
Change(r) ==
  /\ pc[r] = "idle" /\ edits < MaxEdits
  /\ edits' = edits + 1
  /\ applied' = applied \cup {edits + 1}
  /\ entry' = [entry EXCEPT ![r] = edits + 1]
  /\ mode' = [mode EXCEPT ![r] = "append"]
  /\ Goto(r, "meta")
  /\ UNCHANGED <<store, stray, snap, todo, found>>

Ask(r, what) ==
  /\ pc[r] = "idle"
  /\ mode' = [mode EXCEPT ![r] = what]
  /\ Goto(r, "meta")
  /\ UNCHANGED <<store, edits, applied, stray, snap, todo, found, entry>>

\* The ids an append keeps and the ids it drops, the undone ones first.
Kept(m) == SubSeq(m.ids, 1, m.cursor)
Excess(m) == IF MaxEntries > 0 /\ m.cursor + 1 > MaxEntries THEN m.cursor + 1 - MaxEntries ELSE 0
Dropped(m) ==
  SubSeq(m.ids, m.cursor + 1, Len(m.ids)) \o SubSeq(Kept(m), 1, Excess(m))

ReadMeta(r) ==
  /\ pc[r] = "meta"
  /\ snap' = [snap EXCEPT ![r] = meta]
  /\ todo' = [todo EXCEPT ![r] = IF mode[r] = "append" THEN Dropped(meta) ELSE meta.ids]
  /\ Goto(r, IF mode[r] = "append" THEN "delete" ELSE "load")
  /\ UNCHANGED <<store, edits, applied, stray, mode, found, entry>>

DeleteKey(r) ==
  /\ pc[r] = "delete" /\ todo[r] # <<>>
  /\ keys' = [keys EXCEPT ![Head(todo[r])] = NoEntry]
  /\ todo' = [todo EXCEPT ![r] = Tail(@)]
  /\ UNCHANGED <<meta, edits, applied, stray, pc, mode, snap, found, entry>>

\* Mutant: the entry is stored while keys are still to be deleted.
StoreEarly(r) ==
  /\ pc[r] = "delete"
  /\ keys' = [keys EXCEPT ![snap[r].next] = entry[r]]
  /\ Goto(r, "commit")
  /\ UNCHANGED <<meta, edits, applied, stray, mode, snap, todo, found, entry>>

StoreEntry(r) ==
  /\ pc[r] = "delete" /\ todo[r] = <<>>
  /\ keys' = [keys EXCEPT ![snap[r].next] = entry[r]]
  /\ Goto(r, "commit")
  /\ UNCHANGED <<meta, edits, applied, stray, mode, snap, todo, found, entry>>

\* The request ends; what it has read is of no use to the next one.
EndOf(r) ==
  /\ Goto(r, "idle")
  /\ mode' = [mode EXCEPT ![r] = "append"]
  /\ snap' = [snap EXCEPT ![r] = NoMeta]
  /\ todo' = [todo EXCEPT ![r] = <<>>]
  /\ found' = [found EXCEPT ![r] = <<>>]
  /\ entry' = [entry EXCEPT ![r] = NoEntry]

\* Mutant: the cursor does not follow the entries that were dropped.
CommitStaleCursor(r) ==
  LET m == snap[r]
      all == Append(Kept(m), m.next)
  IN /\ pc[r] = "commit"
     /\ meta' = [ids |-> SubSeq(all, Excess(m) + 1, Len(all)), cursor |-> Len(all),
                 next |-> m.next + 1]
     /\ EndOf(r)
     /\ UNCHANGED <<keys, edits, applied, stray>>

CommitAppend(r) ==
  LET m == snap[r]
      all == Append(Kept(m), m.next)
      ids == SubSeq(all, Excess(m) + 1, Len(all))
  IN /\ pc[r] = "commit"
     /\ meta' = [ids |-> ids, cursor |-> Len(ids), next |-> m.next + 1]
     /\ EndOf(r)
     /\ UNCHANGED <<keys, edits, applied, stray>>

-----------------------------------------------------------------------------
\* loadState reads the entries one by one and skips those that are gone.
LoadEntry(r) ==
  LET i == Head(todo[r]) IN
  /\ pc[r] = "load" /\ todo[r] # <<>>
  /\ found' = [found EXCEPT ![r] =
                 IF keys[i] = NoEntry THEN @ ELSE Append(@, [id |-> i, entry |-> keys[i]])]
  /\ todo' = [todo EXCEPT ![r] = Tail(@)]
  /\ UNCHANGED <<store, edits, applied, stray, pc, mode, snap, entry>>

Cursor(r) == Min({snap[r].cursor, Len(found[r])})

\* The positions from i to j of the loaded entries have one group id.
SameGroup(r, i, j) ==
  \A k \in i .. j : /\ GroupOf[found[r][k].entry] # NoGroup
                    /\ GroupOf[found[r][k].entry] = GroupOf[found[r][j].entry]

\* Mutant: one entry at a time.
OnlyCurrent(r) == Cursor(r)

FirstToUndo(r) ==
  LET c == Cursor(r) IN Min({i \in 1 .. c : i = c \/ SameGroup(r, i, c)})

LastToRedo(r) ==
  LET c == Cursor(r) + 1 IN Max({j \in c .. Len(found[r]) : j = c \/ SameGroup(r, c, j)})

\* persistAfterCursorChange, and the commands the service has to replay.
MoveCursor(r, cursor, replay) ==
  /\ meta' = [ids |-> [i \in 1 .. Len(found[r]) |-> found[r][i].id], cursor |-> cursor,
              next |-> Max({snap[r].next, Len(found[r]) + 1})]
  /\ todo' = [todo EXCEPT ![r] = [i \in 1 .. Len(replay) |-> replay[i].entry]]
  /\ Goto(r, "replay")
  /\ UNCHANGED <<keys, edits, applied, stray, mode, snap, found, entry>>

\* Mutant: the cursor stays behind the entries that are undone.
UndoInPlace(r) ==
  /\ pc[r] = "load" /\ todo[r] = <<>> /\ mode[r] = "undo" /\ Cursor(r) > 0
  /\ MoveCursor(r, Cursor(r), Reverse(SubSeq(found[r], FirstToUndo(r), Cursor(r))))

Undo(r) ==
  /\ pc[r] = "load" /\ todo[r] = <<>> /\ mode[r] = "undo" /\ Cursor(r) > 0
  /\ MoveCursor(r, FirstToUndo(r) - 1, Reverse(SubSeq(found[r], FirstToUndo(r), Cursor(r))))

\* Mutant: the cursor stays before the entries that are redone.
RedoInPlace(r) ==
  /\ pc[r] = "load" /\ todo[r] = <<>> /\ mode[r] = "redo" /\ Cursor(r) < Len(found[r])
  /\ MoveCursor(r, Cursor(r), SubSeq(found[r], Cursor(r) + 1, LastToRedo(r)))

Redo(r) ==
  /\ pc[r] = "load" /\ todo[r] = <<>> /\ mode[r] = "redo" /\ Cursor(r) < Len(found[r])
  /\ MoveCursor(r, LastToRedo(r), SubSeq(found[r], Cursor(r) + 1, LastToRedo(r)))

NothingToDo(r) ==
  /\ pc[r] = "load" /\ todo[r] = <<>>
  /\ Cursor(r) = (IF mode[r] = "undo" THEN 0 ELSE Len(found[r]))
  /\ EndOf(r)
  /\ UNCHANGED <<store, edits, applied, stray>>

\* The commands of a group are executed one by one, each in a transaction.
Replay(r) ==
  LET e == Head(todo[r]) IN
  /\ pc[r] = "replay"
  /\ applied' = IF mode[r] = "undo" THEN applied \ {e} ELSE applied \cup {e}
  /\ stray' = stray \ {e}
  /\ IF Len(todo[r]) = 1
       THEN EndOf(r)
       ELSE /\ todo' = [todo EXCEPT ![r] = Tail(@)]
            /\ UNCHANGED <<pc, mode, snap, found, entry>>
  /\ UNCHANGED <<store, edits>>

\* The process dies, a call of the store throws, or a replayed command fails.
\* The cursor has been moved by then and is not moved back.
Interrupt(r) ==
  /\ pc[r] # "idle"
  /\ stray' = IF pc[r] = "replay" THEN stray \cup ToSet(todo[r]) ELSE stray
  /\ EndOf(r)
  /\ UNCHANGED <<store, edits, applied>>

\* The time to live of a key runs from the last set: an entry is set once, the
\* window's key by every request, so it is the last to go.
Expire ==
  LET present == {i \in Id : keys[i] # NoEntry} IN
  \/ /\ present # {}
     /\ keys' = [keys EXCEPT ![Min(present)] = NoEntry]
     /\ UNCHANGED <<meta, edits, applied, stray, request>>
  \/ /\ present = {} /\ meta # NoMeta
     /\ meta' = NoMeta
     /\ UNCHANGED <<keys, edits, applied, stray, request>>

Record(r) == Change(r) \/ DeleteKey(r) \/ StoreEntry(r) \/ CommitAppend(r)

Next ==
  \E r \in Request :
    \/ Record(r) \/ ReadMeta(r)
    \/ Ask(r, "undo") \/ Ask(r, "redo") \/ LoadEntry(r)
    \/ Undo(r) \/ Redo(r) \/ NothingToDo(r) \/ Replay(r) \/ Interrupt(r)

Spec == Init /\ [][Next]_vars
ExpiringSpec == Init /\ [][Next \/ Expire]_vars

-----------------------------------------------------------------------------
\* The positions of the window's ids whose entries are still there, and the stack
\* as the next request will load it: their ids in order.
Live == {k \in 1 .. Len(meta.ids) : keys[meta.ids[k]] # NoEntry}
Rank(k) == Cardinality({j \in Live : j <= k})
Stored == [n \in 1 .. Cardinality(Live) |-> meta.ids[CHOOSE k \in Live : Rank(k) = n]]
Log == [k \in 1 .. Len(Stored) |-> keys[Stored[k]]]
Position == Min({meta.cursor, Len(Log)})
Done == SubSeq(Log, 1, Position)
Undone == SubSeq(Log, Position + 1, Len(Log))

\* Edits of which nobody can tell now whether they are in effect.
Unsettled == stray \cup UNION {ToSet(todo[r]) : r \in {q \in Request : pc[q] = "replay"}}

\* Whatever undo would take back is in effect in the table.
DoneIsApplied == ToSet(Done) \ Unsettled \subseteq applied

\* Whatever redo would apply is not in effect: no edit is applied twice.
UndoneIsGone == ToSet(Undone) \cap applied \subseteq Unsettled

Promise == INSTANCE UndoLog WITH Entry <- Edit, done <- Done, undone <- Undone

\* The store implements the log, a crash between any two of its calls included,
\* as long as the requests of a window are served one after the other.
ImplementsLog == Promise!Spec

-----------------------------------------------------------------------------
(***************************************************************************)
(* Why they hold as long as the requests of a window are served one after  *)
(* the other: the inductive invariant of the proofs.                       *)
(***************************************************************************)
\* Requests of a window are served one after the other.
Sequential == \A r, q \in Request : r = q

\* A request that appends.
Recording(r) == mode[r] = "append" /\ pc[r] \in {"meta", "delete", "commit"}

\* Ids are used in order, and each edit has its own.
IdsInOrder ==
  /\ \A i \in 1 .. Len(meta.ids) : i <= meta.ids[i]
  /\ \A i, j \in 1 .. Len(meta.ids) : i < j => meta.ids[i] < meta.ids[j]
  /\ meta.next <= edits + 1
  /\ \A i \in Id : keys[i] # NoEntry => keys[i] <= edits
  /\ \A i, j \in Id : keys[i] # NoEntry /\ keys[i] = keys[j] => i = j

\* The edit a request records is in effect, and in no key but its own.
Fresh ==
  \A r \in Request : Recording(r) =>
    /\ meta.next <= edits
    /\ entry[r] \in applied
    /\ IF pc[r] = "commit" THEN keys[meta.next] = entry[r]
                           ELSE \A i \in Id : keys[i] # entry[r]

\* What has been deleted: the first b of those undone, and only when these are all
\* gone the first a of those done.
Gaps(a, b) ==
  /\ a > 0 => b = Len(meta.ids) - meta.cursor
  /\ Live = (a + 1 .. meta.cursor) \cup (meta.cursor + b + 1 .. Len(meta.ids))

\* The position of the n-th entry that is still there.
Place(a, b, n) == IF n <= meta.cursor - a THEN a + n ELSE a + b + n

\* A request that deletes has come this far.
DeletedSoFar(r, a, b) ==
  LET j == Len(Dropped(meta)) - Len(todo[r]) IN
  /\ j \in 0 .. a + b
  /\ todo[r] = SubSeq(Dropped(meta), j + 1, Len(Dropped(meta)))

\* A request that loads has come this far.
LoadedSoFar(r, a, b) ==
  LET m == Len(meta.ids) - Len(todo[r])
      n == Len(found[r])
  IN /\ m \in Nat /\ todo[r] = SubSeq(meta.ids, m + 1, Len(meta.ids))
     /\ n > 0 => Place(a, b, n) <= m
     /\ Place(a, b, n + 1) > m
     /\ \A k \in 1 .. n :
          LET i == meta.ids[Place(a, b, k)] IN found[r][k] = [id |-> i, entry |-> keys[i]]

\* Where the store and the requests are, seen from the window's key.
StackInOrder ==
  \E a \in 0 .. meta.cursor, b \in 0 .. Len(meta.ids) - meta.cursor :
    /\ Gaps(a, b)
    /\ \A r \in Request :
         /\ pc[r] \in {"load", "delete", "commit"} => snap[r] = meta
         /\ pc[r] \in {"delete", "commit"} => DeletedSoFar(r, a, b)
         /\ pc[r] = "commit" => todo[r] = <<>>
         /\ pc[r] = "load" => LoadedSoFar(r, a, b)

\* What is replayed has changed its side of the cursor.
ReplayInOrder ==
  \A r \in Request : pc[r] = "replay" =>
    /\ todo[r] # <<>>
    /\ ToSet(todo[r]) \subseteq ToSet(IF mode[r] = "undo" THEN Undone ELSE Done)

\* Who is where, and with what.
ModesInOrder ==
  \A r \in Request :
    /\ pc[r] \in {"delete", "commit"} => mode[r] = "append"
    /\ pc[r] \in {"load", "replay"} => mode[r] # "append"
    /\ pc[r] \in {"idle", "meta"} => found[r] = <<>>

\* The inductive invariant.
IInv ==
  /\ TypeOK /\ IdsInOrder /\ Fresh /\ StackInOrder /\ ReplayInOrder /\ ModesInOrder
  /\ DoneIsApplied /\ UndoneIsGone

=============================================================================
