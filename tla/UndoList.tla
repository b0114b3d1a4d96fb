------------------------------ MODULE UndoList ------------------------------
(***************************************************************************)
(* Undo and redo of darktable, common/undo.c, in which every history       *)
(* change of the agent and of the user is recorded.  Both lists have their *)
(* newest item first.  A group is a pair of marks around its items; items  *)
(* outside of groups are undone together when they were recorded within    *)
(* half a second.                                                          *)
(***************************************************************************)
EXTENDS Naturals, Sequences, FiniteSetsExt, SequencesExt

CONSTANTS
  Types,         \* the dt_undo_type_t of items
  Filters,       \* the sets of them that undo and redo are called with
  Period,        \* MAX_TIME_PERIOD
  Concurrent,    \* whether undo may come while a job has a group open
  MaxItems,      \* bound: items and marks ever recorded
  MaxIndent,     \* bound: nested groups
  MaxClock       \* bound: the clock

ASSUME UndoAssumption ==
  /\ Filters \subseteq SUBSET Types /\ "none" \notin Types
  /\ {Period, MaxItems, MaxIndent, MaxClock} \subseteq Nat
  /\ Concurrent \in BOOLEAN

VARIABLES
  undoList,      \* self->undo_list
  redoList,      \* self->redo_list
  group,         \* self->group: the type of the open group, or "none"
  groupIndent,   \* self->group_indent
  disableNext,   \* self->disable_next
  recorded,      \* items and marks ever recorded
  clock          \* dt_get_wtime()

undoVars == <<undoList, redoList, group, groupIndent, disableNext, recorded, clock>>

UndoInit ==
  /\ undoList = <<>> /\ redoList = <<>>
  /\ group = "none" /\ groupIndent = 0
  /\ disableNext = FALSE
  /\ recorded = 0 /\ clock = 0

\* _undo_record.  A disabled record is dropped, and the next one is enabled.
Recorded(type, mark) ==
  IF disableNext
  THEN UNCHANGED <<undoList, redoList, recorded>>
  ELSE /\ recorded < MaxItems /\ recorded' = recorded + 1
       /\ undoList' = <<[id |-> recorded, type |-> type, mark |-> mark, ts |-> clock]>>
                      \o undoList
       /\ redoList' = <<>>

Record(type) ==
  /\ Recorded(type, FALSE)
  /\ disableNext' = FALSE
  /\ UNCHANGED <<group, groupIndent, clock>>

StartGroup(type) ==
  /\ groupIndent < MaxIndent
  /\ groupIndent' = groupIndent + 1
  /\ IF group = "none"
     THEN group' = type /\ Recorded(type, TRUE) /\ disableNext' = FALSE
     ELSE UNCHANGED <<undoList, redoList, group, disableNext, recorded>>
  /\ UNCHANGED clock

\* Every caller has recorded its change before it ends the group.
EndGroup ==
  /\ groupIndent > 0 /\ ~disableNext
  /\ groupIndent' = groupIndent - 1
  /\ IF groupIndent = 1
     THEN Recorded(group, TRUE) /\ group' = "none"
     ELSE UNCHANGED <<undoList, redoList, group, recorded>>
  /\ UNCHANGED <<disableNext, clock>>

\* _control_apply_styles, within its group.
DisableNext ==
  /\ group # "none"
  /\ disableNext' = TRUE
  /\ UNCHANGED <<undoList, redoList, group, groupIndent, recorded, clock>>

-----------------------------------------------------------------------------
(* Undo and redo: items go from the top of one list to the top of the other. *)

Matches(item, filter) == item.type \in filter

Marks(from, i, j) == {k \in i .. j : from[k].mark}

Near(s, t) == s < t + Period /\ t < s + Period

\* Mutant: whether a group is open is not looked at.
ContinuesInTime(from, i, j, filter) ==
  /\ j < Len(from)
  /\ Matches(from[j + 1], filter)
  /\ Near(from[j + 1].ts, from[i].ts)

\* Items from i on are handled together with i; after those up to j, the next
\* one is too, if it is of the types asked for, and if a group is still open or
\* it was recorded in the same time period.
Continues(from, i, j, filter) ==
  /\ j < Len(from)
  /\ Matches(from[j + 1], filter)
  /\ \/ Cardinality(Marks(from, i, j)) % 2 = 1
     \/ Near(from[j + 1].ts, from[i].ts)

\* The last item that is handled with i.  A group is handled up to its other
\* mark, whatever the types and times of its items.
LastOf(from, i, filter) ==
  IF from[i].mark
  THEN Min(Marks(from, i + 1, Len(from)) \cup {Len(from)})
  ELSE Min({j \in i .. Len(from) : ~Continues(from, i, j, filter)})

\* The topmost item that matches.
IsFirst(from, i, filter) ==
  /\ Matches(from[i], filter)
  /\ \A k \in 1 .. i - 1 : ~Matches(from[k], filter)

\* What is left of a list without its items from i to j.
Rest(from, i, j) == SubSeq(from, 1, i - 1) \o SubSeq(from, j + 1, Len(from))

\* The user reaches undo, redo and a change of view when no call of his is
\* under way, but a job may be.
Reachable == Concurrent \/ group = "none"

Undo(filter) ==
  /\ Reachable
  /\ \E i \in DOMAIN undoList :
       LET j == LastOf(undoList, i, filter)
       IN /\ IsFirst(undoList, i, filter)
          /\ undoList' = Rest(undoList, i, j)
          /\ redoList' = Reverse(SubSeq(undoList, i, j)) \o redoList
  /\ UNCHANGED <<group, groupIndent, disableNext, recorded, clock>>

Redo(filter) ==
  /\ Reachable
  /\ \E i \in DOMAIN redoList :
       LET j == LastOf(redoList, i, filter)
       IN /\ IsFirst(redoList, i, filter)
          /\ redoList' = Rest(redoList, i, j)
          /\ undoList' = Reverse(SubSeq(redoList, i, j)) \o undoList
  /\ UNCHANGED <<group, groupIndent, disableNext, recorded, clock>>

\* dt_undo_clear: the items that match are freed, then both lists are dropped
\* as they are; the group stays.
Clear ==
  /\ Reachable
  /\ undoList' = <<>> /\ redoList' = <<>>
  /\ disableNext' = FALSE
  /\ UNCHANGED <<group, groupIndent, recorded, clock>>

Tick ==
  /\ clock < MaxClock
  /\ clock' = clock + 1
  /\ UNCHANGED <<undoList, redoList, group, groupIndent, disableNext, recorded>>

UndoNext ==
  \/ \E type \in Types : Record(type) \/ StartGroup(type)
  \/ EndGroup
  \/ DisableNext
  \/ \E filter \in Filters : Undo(filter) \/ Redo(filter)
  \/ Clear
  \/ Tick

UndoSpec == UndoInit /\ [][UndoNext]_undoVars

-----------------------------------------------------------------------------
\* The two lists are one timeline, cut at the present: no item is lost, doubled
\* or swapped by any mixture of undo, redo and new records, whatever the times
\* between them, and an undo or a redo never stops within a group.
Timeline == INSTANCE UndoTimeline WITH
  Items <- [id : 0 .. MaxItems - 1, type : Types, mark : BOOLEAN, ts : 0 .. MaxClock],
  line <- Reverse(undoList) \o redoList,
  at <- Len(undoList)

ImplementsTimeline == Timeline!Spec
=============================================================================
