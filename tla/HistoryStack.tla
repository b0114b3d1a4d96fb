---------------------------- MODULE HistoryStack ----------------------------
(***************************************************************************)
(* The history stack of the darkroom, in which every edit of the agent and *)
(* of the user ends, and its snapshots on the undo and redo lists:         *)
(* develop/develop.c, libs/history.c and common/history.c.                 *)
(*                                                                         *)
(* A module is a single instance with one control; its parameters are the  *)
(* value of the control and whether it is on.  The database is written     *)
(* before every reload, so it is not kept as a copy of its own.            *)
(***************************************************************************)
EXTENDS Naturals, Sequences, FiniteSetsExt, SequencesExt, Places

CONSTANTS
  Iops,          \* modules
  DefaultOn,     \* those that are on by default and cannot be switched off
  MaxValue,      \* values of a control; 0 is the default
  FreshStack,    \* what dt_dev_read_history_ext makes for an image without
                 \* history: the modules on by default, then the auto presets
  MaxChanges     \* bound: edits and other changes of the stack

Entry == [module : Iops, value : 0 .. MaxValue, on : BOOLEAN, focus : BOOLEAN]

ASSUME StackAssumption ==
  /\ DefaultOn \subseteq Iops
  /\ MaxValue \in Nat /\ MaxChanges \in Nat
  /\ FreshStack \in Seq(Entry)
  /\ \A m \in DefaultOn : \E i \in DOMAIN FreshStack : FreshStack[i].module = m

VARIABLES
  stack,         \* dev->history
  stackEnd,      \* dev->history_end
  params,        \* module->params and module->enabled, which the controls show
  focusHash,     \* dev->focus_hash
  lastTarget,    \* dev->gui_previous_target
  undoable,      \* the DT_UNDO_HISTORY items of the undo list, the newest first
  redoable,      \* those of the redo list
  changes        \* changes of the stack so far

stackVars == <<stack, stackEnd, params, focusHash, lastTarget, undoable, redoable, changes>>

\* dt_dev_pop_history_items_ext: the defaults, overwritten by the first cnt
\* entries in their order.
Replay(s, cnt) ==
  [m \in Iops |->
     LET Entries == {i \in 1 .. cnt : s[i].module = m}
     IN IF Entries = {} THEN [value |-> 0, on |-> m \in DefaultOn]
        ELSE LET e == s[Max(Entries)] IN [value |-> e.value, on |-> e.on]]

StackInit ==
  /\ stack = FreshStack /\ stackEnd = Len(FreshStack)
  /\ params = Replay(stack, stackEnd)
  /\ focusHash = FALSE /\ lastTarget = "none"
  /\ undoable = <<>> /\ redoable = <<>>
  /\ changes = 0

-----------------------------------------------------------------------------
(* What the operations are made of.                                        *)

Snapshot == [stack |-> stack, end |-> stackEnd]

\* dt_dev_undo_start_record and its callback; dt_undo_record drops what could
\* be redone.
RecordStack ==
  /\ undoable' = <<Snapshot>> \o undoable
  /\ redoable' = <<>>

\* _dev_undo_start_record_target: the same control again, soon after, is part
\* of the change that is already recorded.
RecordTarget(target) ==
  \/ RecordStack /\ lastTarget' = target
  \/ target # "none" /\ target = lastTarget /\ UNCHANGED <<undoable, redoable, lastTarget>>

\* Entries above the end go, except those of a module on by default that has
\* none below the end.
WithoutObsolete ==
  LET OnlyDefault(i) == /\ stack[i].module \in DefaultOn
                        /\ \A j \in 1 .. stackEnd : stack[j].module # stack[i].module
  IN AtPlaces(stack, {i \in 1 .. Len(stack) : i <= stackEnd \/ OnlyDefault(i)})

\* Whether the top entry is changed instead of a new one pushed: it is of the
\* same module, which has not got the focus since, or has the same value.
InPlace(top, m, value) ==
  /\ top.module = m
  /\ top.focus = focusHash \/ top.value = value

\* _dev_add_history_item_ext
AddItem(m, p) ==
  LET base == WithoutObsolete
      n == Len(base)
  IN /\ params' = [params EXCEPT ![m] = p]
     /\ stack' = IF n > 0 /\ InPlace(base[n], m, p.value)
                 THEN [base EXCEPT ![n].module = m, ![n].value = p.value, ![n].on = p.on]
                 ELSE Append(base, [module |-> m, value |-> p.value, on |-> p.on,
                                    focus |-> focusHash])
     /\ stackEnd' = Len(stack')

\* Mutant: the target of the last edit outlives a reload.
ReloadedWithTarget(s, end) ==
  /\ stack' = [i \in DOMAIN s |-> [s[i] EXCEPT !.focus = FALSE]]
  /\ stackEnd' = end
  /\ params' = Replay(s, end)
  /\ focusHash' = FALSE /\ UNCHANGED lastTarget

\* dt_dev_reload_history_items of a stack that has just been written: the
\* entries that are read have no focus, the controls are set from them, and
\* the record that dt_dev_read_history_ext starts forgets the target.
Reloaded(s, end) ==
  /\ stack' = [i \in DOMAIN s |-> [s[i] EXCEPT !.focus = FALSE]]
  /\ stackEnd' = end
  /\ params' = Replay(s, end)
  /\ focusHash' = FALSE /\ lastTarget' = "none"

\* dt_dev_read_history_ext prepends the modules on by default that are missing.
WithDefaults(s) ==
  LET Missing(e) == /\ e.module \in DefaultOn
                    /\ \A i \in DOMAIN s : s[i].module # e.module
      defaults == [i \in DOMAIN FreshStack |->
                     [module |-> FreshStack[i].module, value |-> 0, on |-> TRUE, focus |-> FALSE]]
  IN AtPlaces(defaults, {i \in DOMAIN FreshStack : Missing(FreshStack[i])}) \o s

Counted == changes < MaxChanges /\ changes' = changes + 1

-----------------------------------------------------------------------------
(* The operations.                                                         *)

\* dt_iop_gui_changed, from a widget that the user or an edit of the agent sets.
EditControl(m, v) ==
  /\ Counted
  /\ v # params[m].value
  /\ RecordTarget(m)
  /\ AddItem(m, [value |-> v, on |-> TRUE])
  /\ UNCHANGED focusHash

\* _gui_off_callback
ToggleModule(m) ==
  /\ Counted
  /\ m \notin DefaultOn
  /\ RecordTarget("none")
  /\ AddItem(m, [params[m] EXCEPT !.on = ~@])
  /\ UNCHANGED focusHash

\* dt_iop_request_focus
FocusModule ==
  /\ ~focusHash /\ focusHash' = TRUE
  /\ UNCHANGED <<stack, stackEnd, params, lastTarget, undoable, redoable, changes>>

\* _lib_history_button_clicked_callback; 0 is the entry "original".
SelectItem(n) ==
  /\ Counted
  /\ n # stackEnd
  /\ RecordStack /\ lastTarget' = "none"
  /\ stackEnd' = n /\ params' = Replay(stack, n)
  /\ UNCHANGED <<stack, focusHash>>

\* _lib_history_truncate and dt_history_compress_on_image: the last entry of
\* each module below the end stays, even when it is off.
Compress ==
  LET IsLast(i) == \A j \in i + 1 .. stackEnd : stack[j].module # stack[i].module
      s == WithDefaults(AtPlaces(stack, {i \in 1 .. stackEnd : IsLast(i)}))
  IN /\ Counted
     /\ stackEnd > 0
     /\ RecordStack
     /\ Reloaded(s, Len(s))

\* _lib_history_truncate and dt_history_truncate_on_image
Truncate ==
  LET s == WithDefaults(SubSeq(stack, 1, stackEnd))
  IN /\ Counted
     /\ stackEnd > 0
     /\ RecordStack
     /\ Reloaded(s, Len(s))

\* gui_reset: the history is deleted and made anew.
Discard ==
  /\ Counted
  /\ RecordStack
  /\ Reloaded(FreshStack, Len(FreshStack))

\* _pop_undo: the item and the stack are swapped, so that the same item moves
\* to the other list.
Swapped(item) ==
  LET s == WithDefaults(item.stack)
  IN Reloaded(s, item.end + Len(s) - Len(item.stack))

UndoStack ==
  /\ undoable # <<>>
  /\ Swapped(Head(undoable))
  /\ undoable' = Tail(undoable)
  /\ redoable' = <<Snapshot>> \o redoable
  /\ UNCHANGED changes

RedoStack ==
  /\ redoable # <<>>
  /\ Swapped(Head(redoable))
  /\ redoable' = Tail(redoable)
  /\ undoable' = <<Snapshot>> \o undoable
  /\ UNCHANGED changes

StackNext ==
  \/ \E m \in Iops, v \in 0 .. MaxValue : EditControl(m, v)
  \/ \E m \in Iops : ToggleModule(m)
  \/ FocusModule
  \/ \E n \in 0 .. Len(stack) : SelectItem(n)
  \/ Compress \/ Truncate \/ Discard
  \/ UndoStack \/ RedoStack

StackSpec == StackInit /\ [][StackNext]_stackVars

-----------------------------------------------------------------------------
\* The picture of a snapshot, and the one the controls show.  The controls of a
\* module on by default may differ from an entry that WithoutObsolete kept.
PictureOf(snap) == Replay(snap.stack, snap.end)

PictureShown ==
  [m \in Iops |-> IF m \in DefaultOn THEN Replay(stack, stackEnd)[m] ELSE params[m]]

PicturesOf(snaps) == [i \in DOMAIN snaps |-> PictureOf(snaps[i])]

Line == Reverse(PicturesOf(undoable)) \o <<PictureShown>> \o PicturesOf(redoable)
Place == Len(undoable) + 1

\* What can be undone, what the controls show and what can be redone are one
\* line of pictures.  Undo, redo and a change of focus move along it and change
\* no picture; an edit, a selection, a truncation or a discard keeps all before
\* it and ends the line; an edit that is merged with the one before replaces
\* the last picture, and never one that something could still be redone from.
\* Compressing and truncating the stack keep the picture.
OneTimeline ==
  [][/\ \/ Line' = Line
        \/ /\ Place' = Place + 1 /\ Len(Line') = Place'
           /\ SubSeq(Line', 1, Place) = SubSeq(Line, 1, Place)
        \/ /\ Place' = Place /\ Len(Line) = Place /\ Len(Line') = Place
           /\ SubSeq(Line', 1, Place - 1) = SubSeq(Line, 1, Place - 1)
     /\ Compress \/ Truncate => PictureShown' = PictureShown]_stackVars
=============================================================================
