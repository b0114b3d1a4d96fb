----------------------------- MODULE ThumbCache -----------------------------
(***************************************************************************)
(* The thumbnails of one image in darktable's cache: the concurrent LRU    *)
(* cache of common/cache.c under the mipmap cache of common/mipmap_cache.c *)
(* and its files on disk.  Reader threads ask for a thumbnail of some size *)
(* (load jobs and views, DT_MIPMAP_BLOCKING; drawing, one DT_MIPMAP_TEST-  *)
(* LOCK of DT_MIPMAP_BEST_EFFORT), and the editor changes the history of   *)
(* the image, as the agent does, and then calls dt_mipmap_cache_remove     *)
(* (views/darkroom.c) so that the lighttable shows the edit.               *)
(*                                                                         *)
(* Every critical section under the cache's mutex is one action; a get     *)
(* whose try-lock fails gives the mutex back and tries again, so that it   *)
(* is simply not enabled.  A thumbnail is abstracted to the version of the *)
(* history it shows.  All callers read; the full and float buffers, which  *)
(* are never on disk, and embedded JPEGs are left out.                     *)
(***************************************************************************)
EXTENDS Integers, Sequences, FiniteSets, SequencesExt, Places

CONSTANTS
  Readers,    \* threads that ask for thumbnails
  Editor,     \* the thread that edits and removes
  Nobody,     \* no thread
  Lost,       \* stands for the holders of locks that nobody will release
  Largest,    \* the sizes of a thumbnail are 1 .. Largest
  Cost,       \* Cost[k]: cache->buffer_size of size k
  Quota,      \* cache->cost_quota
  MaxEdits,   \* bound on the edits
  Broken      \* whether the generation of a thumbnail may fail

ASSUME ThumbAssumption ==
  /\ Editor \notin Readers /\ Nobody \notin Readers \cup {Editor}
  /\ Lost \notin Readers \cup {Editor, Nobody}
  /\ Largest \in Nat \ {0}
  /\ Cost \in [1 .. Largest -> Nat \ {0}]
  /\ Quota \in Nat /\ MaxEdits \in Nat
  /\ Broken \in BOOLEAN

Sizes == 1 .. Largest
Versions == 0 .. MaxEdits

\* What the buffer of an entry holds besides a version: nothing yet (with the
\* full width and height), no pixels (width 0) after a failed generation, or
\* the static picture that stands for an image that cannot be read.
Blank == -1
Empty == -2
Static == -3
Contents == Versions \cup {Blank, Empty, Static}

NoFile == -4

VARIABLES
  lru,         \* cache->lru, the sizes that are in cache->hashtable too
  cost,        \* cache->cost
  entry,       \* the dt_cache_entry_t of each size
  disk,        \* the .jpg file of each size
  history,     \* the version of the image's history
  pc, size,    \* where each thread is and which size it works on
  source,      \* what a reader generates from: the history or a larger size
  work,        \* the version of the history it started from
  made,        \* mipmap_generated
  overlap      \* history: two readers were demoting one entry at once

vars == <<lru, cost, entry, disk, history, pc, size, source, work, made, overlap>>
threadVars == <<pc, size, source, work, made>>

Threads == Readers \cup {Editor}
Table == ToSet(lru)

EntryType ==
  [readers : SUBSET (Readers \cup {Lost}), writer : Threads \cup {Nobody},
   demoting : BOOLEAN, generate : BOOLEAN, invalidate : BOOLEAN,
   data : Contents]

Absent ==
  [readers |-> {}, writer |-> Nobody, demoting |-> FALSE, generate |-> FALSE,
   invalidate |-> FALSE, data |-> Blank]

(***************************************************************************)
(* TypeOK gives the range of every variable but cost, which CostIsSum says *)
(* is the sum over the list.                                               *)
(***************************************************************************)
TypeOK ==
  /\ lru \in Seq(Sizes) /\ IsInjective(lru)
  /\ entry \in [Sizes -> EntryType]
  /\ disk \in [Sizes -> Versions \cup {Blank, NoFile}]
  /\ history \in Versions
  /\ pc \in [Threads -> {"idle", "got", "fill", "filled", "flagged", "gap",
                         "back", "using", "test", "unlink", "mark", "drop"}]
  /\ size \in [Threads -> Sizes]
  /\ source \in [Readers -> Sizes \cup {0}]
  /\ work \in [Readers -> Versions]
  /\ made \in [Readers -> BOOLEAN]
  /\ overlap \in BOOLEAN

Init ==
  /\ lru = <<>>
  /\ cost = 0
  /\ entry = [k \in Sizes |-> Absent]
  /\ disk = [k \in Sizes |-> NoFile]
  /\ history = 0
  /\ pc = [t \in Threads |-> "idle"]
  /\ size = [t \in Threads |-> 1]
  /\ source = [t \in Readers |-> 0]
  /\ work = [t \in Readers |-> 0]
  /\ made = [t \in Readers |-> FALSE]
  /\ overlap = FALSE

-----------------------------------------------------------------------------
(***************************************************************************)
(* The LRU cache.                                                          *)
(***************************************************************************)

\* dt_pthread_rwlock_trywrlock and _tryrdlock succeed.
Unlocked(k) == entry[k].readers = {} /\ entry[k].writer = Nobody
Readable(k) == entry[k].writer = Nobody

\* Mutant: the flag is not looked at.
FreeableAnyway(k) == Unlocked(k)

\* The entry may be freed: the demotion of a lock is not disturbed.
Freeable(k) == Unlocked(k) /\ ~entry[k].demoting

\* The list without the links of the sizes of S.
LruWithout(S) == AtPlaces(lru, {i \in DOMAIN lru : lru[i] \notin S})

\* Mutant: the link is added again.
BubbleUpTwice(k) == Append(lru, k)
BubbleUp(k) == Append(LruWithout({k}), k)

CostOf(S) == SumFunctionOnSet(Cost, S)

\* The entries that may be freed, from the least recently used one to the one
\* before the i-th.
FreeableBefore(i) == {lru[j] : j \in {j \in 1 .. i - 1 : Freeable(lru[j])}}

\* dt_cache_gc with ratio 0.8: from the least recently used entry on, until
\* the cost is below the ratio.
Collected ==
  {lru[i] : i \in {i \in DOMAIN lru :
                     /\ Freeable(lru[i])
                     /\ 10 * (cost - CostOf(FreeableBefore(i))) >= 8 * Quota}}

\* Mutant: it is called when the quota is exceeded.
GarbageAtQuota == IF cost > Quota THEN Collected ELSE {}

\* It is called when 0.8 of the quota is exceeded.
Garbage == IF 10 * cost > 8 * Quota THEN Collected ELSE {}

\* _mipmap_cache_deallocate_dynamic: pictures with pixels are kept on disk,
\* unless they were invalidated; a file that exists is not written again.
DiskAfter(k) ==
  CASE entry[k].data \in {Empty, Static} -> disk[k]
    [] entry[k].invalidate -> NoFile
    [] disk[k] # NoFile -> disk[k]
    [] OTHER -> entry[k].data

\* The sizes of S leave the cache.
Freed(S) ==
  disk' = [k \in Sizes |-> IF k \in S THEN DiskAfter(k) ELSE disk[k]]

\* A new entry, from the file if there is one.  The callback of the
\* allocation makes the lock a write lock, whatever the caller asked for.
NewEntry(t, k) ==
  [Absent EXCEPT !.writer = t,
                 !.generate = disk[k] = NoFile,
                 !.data = IF disk[k] = NoFile THEN Blank ELSE disk[k]]

\* dt_cache_get finds the entry, locks it and makes it the most recent one.
GetHit(t, k) ==
  /\ k \in Table
  /\ Readable(k)
  /\ entry' = [entry EXCEPT ![k].readers = @ \cup {t}]
  /\ lru' = BubbleUp(k)
  /\ UNCHANGED <<cost, disk>>

\* dt_cache_get collects garbage and makes an entry.
GetMiss(t, k) ==
  /\ k \notin Table
  /\ LET G == Garbage
     IN /\ lru' = Append(LruWithout(G), k)
        /\ cost' = cost - CostOf(G) + Cost[k]
        /\ entry' = [i \in Sizes |-> IF i = k THEN NewEntry(t, k)
                                     ELSE IF i \in G THEN Absent ELSE entry[i]]
        /\ Freed(G)

Get(t, k) == GetHit(t, k) \/ GetMiss(t, k)

\* dt_cache_release: whichever lock it is.
Without(e, t) ==
  [e EXCEPT !.readers = @ \ {t}, !.writer = IF @ = t THEN Nobody ELSE @]

-----------------------------------------------------------------------------
(***************************************************************************)
(* dt_mipmap_cache_get.                                                    *)
(***************************************************************************)
Goto(t, at) == pc' = [pc EXCEPT ![t] = at]

\* DT_MIPMAP_BLOCKING.
Ask(t, k) ==
  /\ pc[t] = "idle"
  /\ Get(t, k)
  /\ size' = [size EXCEPT ![t] = k]
  /\ made' = [made EXCEPT ![t] = FALSE]
  /\ Goto(t, "got")
  /\ UNCHANGED <<history, source, work, overlap>>

\* The larger sizes that _init_8 can copy from.
Larger(k) == {i \in Table : i > k /\ Readable(i)}

\* The buffer is there.
Ready(t) ==
  /\ pc[t] = "got"
  /\ ~entry[size[t]].generate
  /\ Goto(t, "filled")
  /\ UNCHANGED <<lru, cost, entry, disk, history, size, source, work, made, overlap>>

\* _init_8 of an altered image copies the next larger thumbnail that it can
\* read ... (The code tries the larger sizes one by one, a testget each; here
\* they are looked at in one step, which with two sizes is the same.)
FillFromLarger(t) ==
  /\ pc[t] = "got"
  /\ entry[size[t]].generate
  /\ \E i \in Larger(size[t]) :
       /\ \A l \in Larger(size[t]) : i <= l
       /\ entry' = [entry EXCEPT ![i].readers = @ \cup {t}]
       /\ lru' = BubbleUp(i)
       /\ source' = [source EXCEPT ![t] = i]
  /\ made' = [made EXCEPT ![t] = TRUE]
  /\ Goto(t, "fill")
  /\ UNCHANGED <<cost, disk, history, size, work, overlap>>

\* ... or runs the history of the image.
FillFromHistory(t) ==
  /\ pc[t] = "got"
  /\ entry[size[t]].generate
  /\ Larger(size[t]) = {}
  /\ source' = [source EXCEPT ![t] = 0]
  /\ work' = [work EXCEPT ![t] = history]
  /\ made' = [made EXCEPT ![t] = TRUE]
  /\ Goto(t, "fill")
  /\ UNCHANGED <<lru, cost, entry, disk, history, size, overlap>>

\* The buffer is written, its source released, the flag cleared.
EndFill(t) ==
  /\ pc[t] = "fill"
  /\ \E result \in (IF source[t] # 0 THEN {entry[source[t]].data}
                    ELSE {work[t]} \cup {e \in {Empty} : Broken}) :
       entry' = [k \in Sizes |->
                   IF k = size[t]
                   THEN [entry[k] EXCEPT !.data = result, !.generate = FALSE]
                   ELSE IF k = source[t] THEN Without(entry[k], t) ELSE entry[k]]
  /\ source' = [source EXCEPT ![t] = 0]
  /\ work' = [work EXCEPT ![t] = 0]
  /\ Goto(t, "filled")
  /\ UNCHANGED <<lru, cost, disk, history, size, made, overlap>>

\* The lock, read or write, is exchanged for a read lock: the flag is set,
\* the lock dropped, the entry fetched again by its key, the flag cleared.
SetDemoting(t) ==
  /\ pc[t] = "filled"
  /\ entry' = [entry EXCEPT ![size[t]].demoting = TRUE]
  /\ overlap' = (overlap \/ entry[size[t]].demoting)
  /\ Goto(t, "flagged")
  /\ UNCHANGED <<lru, cost, disk, history, size, source, work, made>>

DropLock(t) ==
  /\ pc[t] = "flagged"
  /\ entry' = [entry EXCEPT ![size[t]] = Without(@, t)]
  /\ Goto(t, "gap")
  /\ UNCHANGED <<lru, cost, disk, history, size, source, work, made, overlap>>

GetAgain(t) ==
  /\ pc[t] = "gap"
  /\ Get(t, size[t])
  /\ Goto(t, "back")
  /\ UNCHANGED <<history, size, source, work, made, overlap>>

\* Mutant: the flag stays.
ClearDemotingNever(t) ==
  /\ pc[t] = "back"
  /\ Goto(t, "using")
  /\ UNCHANGED <<lru, cost, entry, disk, history, size, source, work, made, overlap>>

\* The caller gets the buffer.  An empty one that it has not made itself is
\* first painted with the static picture.
ClearDemoting(t) ==
  /\ pc[t] = "back"
  /\ entry' = [entry EXCEPT
                 ![size[t]].demoting = FALSE,
                 ![size[t]].data =
                    IF @ = Empty /\ ~made[t] THEN Static ELSE @]
  /\ Goto(t, "using")
  /\ UNCHANGED <<lru, cost, disk, history, size, source, work, made, overlap>>

\* DT_MIPMAP_BEST_EFFORT looks at one size, which it does not wait for.
Glance(t, k) ==
  /\ pc[t] = "idle"
  /\ k \in Table
  /\ entry[k].data # Empty
  /\ GetHit(t, k)
  /\ size' = [size EXCEPT ![t] = k]
  /\ Goto(t, "using")
  /\ UNCHANGED <<history, source, work, made, overlap>>

\* An empty buffer does not end the loop over the sizes, and nobody releases
\* its lock.
LoseLock(t, k) ==
  /\ pc[t] = "idle"
  /\ k \in Table
  /\ entry[k].data = Empty
  /\ GetHit(Lost, k)
  /\ UNCHANGED <<history, pc, size, source, work, made, overlap>>

\* dt_mipmap_cache_release.
Release(t) ==
  /\ pc[t] = "using"
  /\ entry' = [entry EXCEPT ![size[t]] = Without(@, t)]
  /\ made' = [made EXCEPT ![t] = FALSE]
  /\ Goto(t, "idle")
  /\ UNCHANGED <<lru, cost, disk, history, size, source, work, overlap>>

-----------------------------------------------------------------------------
(***************************************************************************)
(* The editor: an edit, then dt_mipmap_cache_remove, the sizes one by one. *)
(***************************************************************************)
Edit ==
  /\ pc[Editor] = "idle"
  /\ history < MaxEdits
  /\ history' = history + 1
  /\ size' = [size EXCEPT ![Editor] = 1]
  /\ Goto(Editor, "test")
  /\ UNCHANGED <<lru, cost, entry, disk, source, work, made, overlap>>

\* dt_cache_testget with mode 'w' finds the entry unlocked ...
TestGet ==
  /\ pc[Editor] = "test"
  /\ size[Editor] \in Table
  /\ Unlocked(size[Editor])
  /\ entry' = [entry EXCEPT ![size[Editor]].writer = Editor]
  /\ lru' = BubbleUp(size[Editor])
  /\ Goto(Editor, "mark")
  /\ UNCHANGED <<cost, disk, history, size, source, work, made, overlap>>

\* ... or returns NULL, because it is not there or because it is locked.
TestFail ==
  /\ pc[Editor] = "test"
  /\ size[Editor] \notin Table \/ ~Unlocked(size[Editor])
  /\ Goto(Editor, "unlink")
  /\ UNCHANGED <<lru, cost, entry, disk, history, size, source, work, made, overlap>>

Mark ==
  /\ pc[Editor] = "mark"
  /\ entry' = [entry EXCEPT ![size[Editor]] =
                 [Without(@, Editor) EXCEPT !.invalidate = TRUE]]
  /\ Goto(Editor, "drop")
  /\ UNCHANGED <<lru, cost, disk, history, size, source, work, made, overlap>>

\* The loop of dt_mipmap_cache_remove goes on to the next size.
NextSize ==
  IF size[Editor] < Largest
  THEN /\ size' = [size EXCEPT ![Editor] = @ + 1]
       /\ Goto(Editor, "test")
  ELSE /\ Goto(Editor, "idle")
       /\ UNCHANGED size

Unlink ==
  /\ pc[Editor] = "unlink"
  /\ disk' = [disk EXCEPT ![size[Editor]] = NoFile]
  /\ NextSize
  /\ UNCHANGED <<lru, cost, entry, history, source, work, made, overlap>>

\* dt_cache_remove waits until the entry is not locked and not demoting.
RemoveEntry ==
  /\ pc[Editor] = "drop"
  /\ size[Editor] \in Table
  /\ Freeable(size[Editor])
  /\ lru' = LruWithout({size[Editor]})
  /\ cost' = cost - Cost[size[Editor]]
  /\ entry' = [entry EXCEPT ![size[Editor]] = Absent]
  /\ Freed({size[Editor]})
  /\ NextSize
  /\ UNCHANGED <<history, source, work, made, overlap>>

RemoveNothing ==
  /\ pc[Editor] = "drop"
  /\ size[Editor] \notin Table
  /\ NextSize
  /\ UNCHANGED <<lru, cost, entry, disk, history, source, work, made, overlap>>

Reader(t) ==
  \/ \E k \in Sizes : Ask(t, k) \/ Glance(t, k) \/ LoseLock(t, k)
  \/ Ready(t)
  \/ FillFromLarger(t)
  \/ FillFromHistory(t)
  \/ EndFill(t)
  \/ SetDemoting(t)
  \/ DropLock(t)
  \/ GetAgain(t)
  \/ ClearDemoting(t)
  \/ Release(t)

EditorStep ==
  \/ Edit
  \/ TestGet
  \/ TestFail
  \/ Mark
  \/ Unlink
  \/ RemoveEntry
  \/ RemoveNothing

Next == EditorStep \/ \E t \in Readers : Reader(t)

Spec == Init /\ [][Next]_vars

-----------------------------------------------------------------------------
(***************************************************************************)
(* Properties.                                                             *)
(***************************************************************************)

\* The readers that hold a lock on the entry of size k.
Holders(k) ==
  {t \in Readers : \/ size[t] = k /\ pc[t] \notin {"idle", "gap"}
                   \/ pc[t] = "fill" /\ source[t] = k}

\* The locks of an entry are exactly those of the threads that are between
\* a get and its release, and locks that DT_MIPMAP_BEST_EFFORT lost on an
\* empty thumbnail: no entry is freed or made anew under a thread that uses
\* it, whatever the garbage collection, the removal and the gap of a demotion
\* do, and nothing stays locked.  Nor does the flag of a demotion outlive the
\* readers that set it, for which dt_cache_remove would wait for ever.
LocksAreOwned ==
  \A k \in Sizes :
    /\ Holders(k) \cup {t \in {Editor} : pc[t] = "mark" /\ size[t] = k}
         = (entry[k].readers \cup {entry[k].writer}) \ {Lost, Nobody}
    /\ entry[k].readers # {} => entry[k].writer = Nobody
    /\ entry[k].readers \cup {entry[k].writer} # {Nobody} => k \in Table
    /\ entry[k].demoting =>
         \E t \in Readers : size[t] = k /\ pc[t] \in {"flagged", "gap", "back"}

\* The quota: an entry that is made finds at most 0.8 of it in use, or
\* nothing left that dt_cache_gc could free; the cost is that of the table.
QuotaMet ==
  [][/\ cost' = CostOf(Table')
     /\ \A k \in Table' \ Table :
          \/ 10 * (cost' - Cost[k]) <= 8 * Quota
          \/ \A i \in Table' \ {k} : ~Freeable(i)
    ]_vars

\* As long as no two readers demote their locks on one entry at once, a
\* thumbnail that a caller gets, and one that goes to disk, was generated,
\* and the thread that generates it is alone with it.  (With two, the flag
\* that the first one clears no longer protects the gap of the second: the
\* entry may be freed in it, and the second gets a new, blank one.)
ShownIsGenerated ==
  ~overlap =>
    /\ \A t \in Readers :
         /\ pc[t] = "using" => entry[size[t]].data # Blank
         /\ pc[t] = "fill" => entry[size[t]].writer = t
    /\ \A k \in Sizes : disk[k] # Blank

(***************************************************************************)
(* The inductive invariant of the proofs.                                  *)
(***************************************************************************)

\* What is not in the table has no entry.
GoneIsAbsent == \A k \in Sizes : k \notin Table => entry[k] = Absent

\* The entry that a thumbnail is copied from is another one.
SourceIsLarger ==
  \A t \in Readers : pc[t] = "fill" /\ source[t] # 0 => source[t] > size[t]

Demoters(k) == {t \in Readers : size[t] = k /\ pc[t] \in {"flagged", "gap", "back"}}

\* The flag of a demotion is up while a reader demotes, and no two readers
\* demote on one entry.
DemotionsApart ==
  /\ \A k \in Sizes : Demoters(k) # {} => entry[k].demoting
  /\ \A k \in Sizes : \A t, u \in Demoters(k) : t = u

\* A blank entry is written by the reader that made it, and the flag generate
\* is up exactly as long.
BlankIsWritten ==
  /\ \A k \in Table :
       entry[k].data = Blank =>
         \E t \in Readers : /\ entry[k].writer = t /\ size[t] = k
                            /\ pc[t] \in {"got", "fill"}
  /\ \A k \in Table : entry[k].generate <=> entry[k].data = Blank
  /\ \A t \in Readers :
       /\ pc[t] = "fill" => entry[size[t]].data = Blank
       /\ pc[t] \in {"filled", "flagged", "back", "using"} =>
            entry[size[t]].data # Blank

FilesHavePixels == \A k \in Sizes : disk[k] # Blank

CostIsSum == cost = CostOf(Table)

IInv ==
  /\ TypeOK /\ CostIsSum /\ GoneIsAbsent /\ SourceIsLarger /\ LocksAreOwned
  /\ ~overlap => DemotionsApart /\ BlankIsWritten /\ FilesHavePixels

-----------------------------------------------------------------------------
\* What darkroom.c calls dt_mipmap_cache_remove for: "be sure light table
\* will regenerate the thumbnail".  Once it has returned no thumbnail of an
\* older history is left, in the cache or on disk.
RemovedIsGone ==
  pc[Editor] = "idle" =>
    \A k \in Sizes :
      /\ k \in Table /\ entry[k].data \in Versions => entry[k].data = history
      /\ disk[k] \in Versions => disk[k] = history
=============================================================================
