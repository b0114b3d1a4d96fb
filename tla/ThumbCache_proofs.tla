-------------------------- MODULE ThumbCache_proofs --------------------------
(***************************************************************************)
(* The thumbnails of one image for every set of readers, every number of   *)
(* sizes and every quota: IInv of ThumbCache is inductive.  It gives that  *)
(* every lock of an entry has its holder and that nobody is shown a blank  *)
(* thumbnail as long as no two readers demote on one entry.  The cost is a *)
(* sum over the table, which an induction on the number of entries shows   *)
(* to be well-defined, so that a collection of garbage is seen to stop     *)
(* either under its ratio or with nothing left to free.                    *)
(***************************************************************************)
EXTENDS ThumbCache, Lemmas

-----------------------------------------------------------------------------
(* The list: what LruWithout and BubbleUp leave of it.                     *)

\* The list keeps the other sizes, each once.
LEMMA WithoutIs ==
  ASSUME TypeOK, NEW S
  PROVE  /\ LruWithout(S) \in Seq(Sizes) /\ IsInjective(LruWithout(S))
         /\ ToSet(LruWithout(S)) = Table \ S
  <1> DEFINE P == {i \in DOMAIN lru : lru[i] \notin S}
             c == Cardinality(P)
             w == AtPlaces(lru, P)
  <1>1. lru \in Seq(Sizes) /\ Len(lru) \in Nat /\ DOMAIN lru = 1 .. Len(lru)
        /\ \A i \in 1 .. Len(lru) : lru[i] \in Sizes
    BY DEF TypeOK
  <1>2. P \in SUBSET (1 .. Len(lru))
    BY <1>1
  <1>3. /\ c \in Nat
        /\ \A m \in 1 .. c : NthPlace(P, m) \in P
                             /\ Cardinality({j \in P : j <= NthPlace(P, m)}) = m
        /\ \A i \in P : \E m \in 1 .. c : NthPlace(P, m) = i
    BY <1>1, <1>2, NthPlaceIs
  <1>4. \A i \in P : lru[i] \in Sizes \ S
    BY <1>1
  <1>5. \A i, k \in P : lru[i] = lru[k] => i = k
    BY DEF TypeOK, IsInjective
  <1>6. ToSet(lru) \ S = {lru[i] : i \in P}
    BY DEF ToSet
  <1>7. LruWithout(S) = w
    BY DEF LruWithout
  <1>8. /\ w \in Seq(Sizes) /\ Len(w) = c
        /\ \A m \in 1 .. c : w[m] = lru[NthPlace(P, m)] /\ w[m] \in Sizes
    <2> HIDE DEF P
    <2> QED
      BY <1>1, <1>2, AtPlacesIs
  <1> HIDE DEF P, c, w
  <1>9. w \in Seq(Sizes) /\ DOMAIN w = 1 .. c
    BY <1>3, <1>8
  <1>10. \A m, l \in 1 .. c : w[m] = w[l] => m = l
    <2> SUFFICES ASSUME NEW m \in 1 .. c, NEW l \in 1 .. c, w[m] = w[l] PROVE m = l
      OBVIOUS
    <2>1. lru[NthPlace(P, m)] = lru[NthPlace(P, l)]
      BY <1>8
    <2>2. NthPlace(P, m) = NthPlace(P, l)
      BY <1>3, <1>5, <2>1
    <2> QED
      BY <1>3, <2>2
  <1>11. ToSet(w) = {lru[i] : i \in P}
    <2>1. \A m \in 1 .. c : w[m] \in {lru[i] : i \in P}
      BY <1>3, <1>8
    <2>2. \A i \in P : \E m \in 1 .. c : w[m] = lru[i]
      BY <1>3, <1>8
    <2> HIDE DEF w
    <2> QED
      BY <1>9, <2>1, <2>2 DEF ToSet
  <1>12. IsInjective(w)
    BY <1>9, <1>10 DEF IsInjective
  <1> QED
    BY <1>6, <1>7, <1>9, <1>11, <1>12 DEF Table

\* A size is put at the end.
LEMMA AtEndIs ==
  ASSUME NEW s \in Seq(Sizes), IsInjective(s), NEW k \in Sizes, k \notin ToSet(s)
  PROVE  /\ Append(s, k) \in Seq(Sizes) /\ IsInjective(Append(s, k))
         /\ ToSet(Append(s, k)) = ToSet(s) \cup {k}
  <1> DEFINE a == Append(s, k)
  <1>1. /\ a \in Seq(Sizes) /\ Len(a) = Len(s) + 1 /\ Len(s) \in Nat
        /\ a[Len(s) + 1] = k /\ \A i \in 1 .. Len(s) : a[i] = s[i]
        /\ DOMAIN a = 1 .. Len(s) + 1 /\ DOMAIN s = 1 .. Len(s)
    OBVIOUS
  <1> HIDE DEF a
  <1>2. \A i \in 1 .. Len(s) : s[i] # k
    BY <1>1 DEF ToSet
  <1>3. \A i \in 1 .. Len(s) + 1 : i = Len(s) + 1 \/ i \in 1 .. Len(s)
    BY <1>1
  <1>4. IsInjective(a)
    <2> SUFFICES ASSUME NEW i \in 1 .. Len(s) + 1, NEW l \in 1 .. Len(s) + 1, a[i] = a[l]
                 PROVE  i = l
      BY <1>1 DEF IsInjective
    <2> QED
      BY <1>1, <1>2, <1>3 DEF IsInjective
  <1>5. \A x : x \in ToSet(a) <=> x = k \/ x \in ToSet(s)
    <2>1. \A x : x \in ToSet(a) <=> \E i \in 1 .. Len(s) + 1 : a[i] = x
      BY <1>1 DEF ToSet
    <2>2. \A x : x \in ToSet(s) <=> \E i \in 1 .. Len(s) : s[i] = x
      BY <1>1 DEF ToSet
    <2>3. 1 .. Len(s) \subseteq 1 .. Len(s) + 1 /\ Len(s) + 1 \in 1 .. Len(s) + 1
      BY <1>1
    <2> QED
      BY <1>1, <1>3, <2>1, <2>2, <2>3
  <1> QED
    BY <1>1, <1>4, <1>5 DEF a

-----------------------------------------------------------------------------
(* What the operations of the LRU cache do.                                *)

\* The parts of an entry.
LEMMA EntryParts ==
  ASSUME TypeOK, NEW k \in Sizes
  PROVE  /\ entry[k].readers \subseteq Readers \cup {Lost}
         /\ entry[k].writer \in Threads \cup {Nobody}
         /\ entry[k].demoting \in BOOLEAN /\ entry[k].generate \in BOOLEAN
         /\ entry[k].invalidate \in BOOLEAN /\ entry[k].data \in Contents
         /\ entry[k] \in EntryType
  BY DEF TypeOK, EntryType

\* A read lock on an entry that is there.
ReadLock(t, k) ==
  /\ k \in Table /\ Readable(k)
  /\ entry' = [entry EXCEPT ![k].readers = @ \cup {t}] /\ lru' = BubbleUp(k)

ReadLocked(t, k) ==
  /\ k \in Table /\ Table' = Table /\ entry[k].writer = Nobody
  /\ \A i \in Sizes :
       /\ entry'[i].readers = IF i = k THEN entry[i].readers \cup {t}
                              ELSE entry[i].readers
       /\ entry'[i].writer = entry[i].writer
       /\ entry'[i].demoting = entry[i].demoting
       /\ entry'[i].generate = entry[i].generate
       /\ entry'[i].data = entry[i].data
       /\ i # k => entry'[i] = entry[i]

LEMMA HitIs ==
  ASSUME TypeOK, NEW t \in Readers \cup {Lost}, NEW k \in Sizes, ReadLock(t, k)
  PROVE  /\ lru' \in Seq(Sizes) /\ IsInjective(lru')
         /\ entry' \in [Sizes -> EntryType]
         /\ ReadLocked(t, k)
  <1> USE DEF ReadLock
  <1>1. /\ LruWithout({k}) \in Seq(Sizes) /\ IsInjective(LruWithout({k}))
        /\ ToSet(LruWithout({k})) = Table \ {k}
    BY WithoutIs
  <1>2. k \notin ToSet(LruWithout({k}))
    BY <1>1
  <1>3. /\ lru' \in Seq(Sizes) /\ IsInjective(lru')
        /\ ToSet(lru') = ToSet(LruWithout({k})) \cup {k}
    BY <1>1, <1>2, AtEndIs DEF BubbleUp
  <1>4. Table' = Table
    BY <1>1, <1>3 DEF Table
  <1>5. /\ entry'[k] = [entry[k] EXCEPT !.readers = entry[k].readers \cup {t}]
        /\ \A i \in Sizes : i # k => entry'[i] = entry[i]
        /\ entry' = [i \in Sizes |-> entry'[i]]
    BY DEF TypeOK
  <1>6. entry[k] \in EntryType /\ entry[k].readers \subseteq Readers \cup {Lost}
    BY EntryParts
  <1>7. /\ entry'[k] \in EntryType
        /\ entry'[k].readers = entry[k].readers \cup {t}
        /\ entry'[k].writer = entry[k].writer /\ entry'[k].demoting = entry[k].demoting
        /\ entry'[k].generate = entry[k].generate /\ entry'[k].data = entry[k].data
    BY <1>5, <1>6 DEF EntryType
  <1>8. entry' \in [Sizes -> EntryType]
    BY <1>5, <1>7 DEF TypeOK
  <1>9. ASSUME NEW i \in Sizes
        PROVE  /\ entry'[i].readers = IF i = k THEN entry[i].readers \cup {t}
                                      ELSE entry[i].readers
               /\ entry'[i].writer = entry[i].writer
               /\ entry'[i].demoting = entry[i].demoting
               /\ entry'[i].generate = entry[i].generate
               /\ entry'[i].data = entry[i].data
               /\ i # k => entry'[i] = entry[i]
    BY <1>5, <1>7
  <1> QED
    BY <1>3, <1>4, <1>8, <1>9 DEF Readable, ReadLocked

\* What is collected is in the table and may be freed.
LEMMA GarbageIs ==
  ASSUME TypeOK
  PROVE  Garbage \subseteq Table /\ \A k \in Garbage : k \in Sizes /\ Freeable(k)
  <1>1. \A i \in DOMAIN lru : lru[i] \in Sizes
    BY DEF TypeOK
  <1>2. Collected \subseteq Table /\ \A k \in Collected : k \in Sizes /\ Freeable(k)
    BY <1>1 DEF Collected, Table, ToSet
  <1> QED
    BY <1>2 DEF Garbage

LEMMA AbsentType == Absent \in EntryType
  BY ThumbAssumption DEF Absent, EntryType, Contents, Threads

\* A file that an entry leaves is of the type of files.
LEMMA DiskAfterType ==
  ASSUME TypeOK, NEW k \in Sizes
  PROVE  DiskAfter(k) \in Versions \cup {Blank, NoFile}
  BY EntryParts DEF TypeOK, DiskAfter, Contents

\* A write lock on a new entry, after a garbage collection.
Renewed(t, k, G) ==
  /\ k \notin Table /\ G \subseteq Table
  /\ \A i \in G : i \in Sizes /\ Freeable(i)
  /\ Table' = (Table \ G) \cup {k}
  /\ \A i \in Sizes :
       /\ entry'[i] = IF i = k THEN NewEntry(t, k)
                      ELSE IF i \in G THEN Absent ELSE entry[i]
       /\ disk'[i] = IF i \in G THEN DiskAfter(i) ELSE disk[i]

LEMMA MissIs ==
  ASSUME TypeOK, NEW t \in Readers, NEW k \in Sizes, GetMiss(t, k)
  PROVE  /\ lru' \in Seq(Sizes) /\ IsInjective(lru')
         /\ entry' \in [Sizes -> EntryType]
         /\ disk' \in [Sizes -> Versions \cup {Blank, NoFile}]
         /\ \E G : Renewed(t, k, G)
  <1> DEFINE G == Garbage
  <1>1. /\ k \notin Table
        /\ lru' = Append(LruWithout(G), k)
        /\ entry' = [i \in Sizes |-> IF i = k THEN NewEntry(t, k)
                                     ELSE IF i \in G THEN Absent ELSE entry[i]]
        /\ disk' = [i \in Sizes |-> IF i \in G THEN DiskAfter(i) ELSE disk[i]]
    BY DEF GetMiss, Freed
  <1>2. G \in SUBSET Table /\ \A i \in G : i \in Sizes /\ Freeable(i)
    BY GarbageIs
  <1> HIDE DEF G
  <1>3. /\ LruWithout(G) \in Seq(Sizes) /\ IsInjective(LruWithout(G))
        /\ ToSet(LruWithout(G)) = Table \ G
    BY WithoutIs
  <1>4. k \notin ToSet(LruWithout(G))
    BY <1>1, <1>3
  <1>5. /\ lru' \in Seq(Sizes) /\ IsInjective(lru')
        /\ ToSet(lru') = ToSet(LruWithout(G)) \cup {k}
    BY <1>1, <1>3, <1>4, AtEndIs
  <1>6. Table' = (Table \ G) \cup {k}
    BY <1>3, <1>5 DEF Table
  <1>7. NewEntry(t, k) \in EntryType
    <2>1. disk[k] \in Versions \cup {Blank, NoFile} /\ t \in Threads
      BY DEF TypeOK, Threads
    <2>2. (IF disk[k] = NoFile THEN Blank ELSE disk[k]) \in Contents
      BY <2>1 DEF Contents
    <2> QED
      BY <2>1, <2>2, AbsentType DEF NewEntry, EntryType
  <1>8. entry' \in [Sizes -> EntryType]
    BY <1>1, <1>7, AbsentType DEF TypeOK
  <1>9. disk' \in [Sizes -> Versions \cup {Blank, NoFile}]
    BY <1>1, DiskAfterType DEF TypeOK
  <1>10. Renewed(t, k, G)
    BY <1>1, <1>2, <1>6 DEF Renewed
  <1> QED
    BY <1>5, <1>8, <1>9, <1>10

-----------------------------------------------------------------------------
(* What the steps that leave the list alone do to an entry.                *)

\* dt_cache_release.
LEMMA WithoutType ==
  ASSUME NEW e \in EntryType, NEW t
  PROVE  /\ Without(e, t) \in EntryType
         /\ Without(e, t).readers = e.readers \ {t}
         /\ Without(e, t).writer = IF e.writer = t THEN Nobody ELSE e.writer
         /\ Without(e, t).demoting = e.demoting /\ Without(e, t).generate = e.generate
         /\ Without(e, t).data = e.data
  BY DEF Without, EntryType

LEMMA EntryExcept ==
  ASSUME TypeOK, NEW k \in Sizes, NEW e \in EntryType, entry' = [entry EXCEPT ![k] = e]
  PROVE  /\ entry' \in [Sizes -> EntryType]
         /\ \A i \in Sizes : entry'[i] = IF i = k THEN e ELSE entry[i]
  BY DEF TypeOK

\* The result of a generation is in the buffer, and the source is released.
Ended(t, result) ==
  /\ source[t] # 0 => source[t] \in Sizes /\ result = entry[source[t]].data
  /\ source[t] = 0 => result # Blank
  /\ size[t] \in Sizes
  /\ \A i \in Sizes :
       /\ entry'[i].readers = IF i = source[t] /\ i # size[t]
                              THEN entry[i].readers \ {t} ELSE entry[i].readers
       /\ entry'[i].writer = IF i = source[t] /\ i # size[t] /\ entry[i].writer = t
                             THEN Nobody ELSE entry[i].writer
       /\ entry'[i].demoting = entry[i].demoting
       /\ entry'[i].generate = (i # size[t] /\ entry[i].generate)
       /\ entry'[i].data = IF i = size[t] THEN result ELSE entry[i].data
       /\ i # size[t] /\ i # source[t] => entry'[i] = entry[i]

LEMMA EndFillIs ==
  ASSUME TypeOK, NEW t \in Readers, EndFill(t)
  PROVE  entry' \in [Sizes -> EntryType] /\ \E result \in Contents : Ended(t, result)
  <1>1. /\ size[t] \in Sizes /\ source[t] \in Sizes \cup {0} /\ 0 \notin Sizes
        /\ work[t] \in Versions
    BY DEF TypeOK, Threads, Sizes
  <1>2. PICK result \in (IF source[t] # 0 THEN {entry[source[t]].data}
                         ELSE {work[t]} \cup {e \in {Empty} : Broken}) :
          entry' = [k \in Sizes |->
                      IF k = size[t]
                      THEN [entry[k] EXCEPT !.data = result, !.generate = FALSE]
                      ELSE IF k = source[t] THEN Without(entry[k], t) ELSE entry[k]]
    BY DEF EndFill
  <1>3. /\ source[t] # 0 => source[t] \in Sizes /\ result = entry[source[t]].data
        /\ source[t] = 0 => result = work[t] \/ result = Empty
    BY <1>1, <1>2
  <1>4. result \in Contents /\ (source[t] = 0 => result # Blank)
    <2>1. Blank \notin Versions /\ Empty # Blank
      BY ThumbAssumption DEF Versions, Blank, Empty
    <2> QED
      BY <1>1, <1>3, <2>1, EntryParts DEF Contents
  <1>5. ASSUME NEW i \in Sizes
        PROVE  /\ entry'[i] \in EntryType
               /\ entry'[i].readers = IF i = source[t] /\ i # size[t]
                                      THEN entry[i].readers \ {t} ELSE entry[i].readers
               /\ entry'[i].writer =
                    IF i = source[t] /\ i # size[t] /\ entry[i].writer = t
                    THEN Nobody ELSE entry[i].writer
               /\ entry'[i].demoting = entry[i].demoting
               /\ entry'[i].generate = (i # size[t] /\ entry[i].generate)
               /\ entry'[i].data = IF i = size[t] THEN result ELSE entry[i].data
               /\ i # size[t] /\ i # source[t] => entry'[i] = entry[i]
    <2>1. entry[i] \in EntryType
      BY DEF TypeOK
    <2>2. CASE i = size[t]
      <3>1. entry'[i] = [entry[i] EXCEPT !.data = result, !.generate = FALSE]
        BY <1>2, <2>2
      <3> QED
        BY <1>4, <2>1, <2>2, <3>1 DEF EntryType
    <2>3. CASE i # size[t] /\ i = source[t]
      <3> DEFINE w == Without(entry[i], t)
      <3>1. entry'[i] = w
        BY <1>2, <2>3
      <3>2. /\ w \in EntryType /\ w.readers = entry[i].readers \ {t}
            /\ w.writer = IF entry[i].writer = t THEN Nobody ELSE entry[i].writer
            /\ w.demoting = entry[i].demoting /\ w.generate = entry[i].generate
            /\ w.data = entry[i].data
        BY <2>1, WithoutType
      <3> HIDE DEF w
      <3>3. entry[i].generate \in BOOLEAN
        BY EntryParts
      <3> QED
        BY <2>3, <3>1, <3>2, <3>3
    <2>4. CASE i # size[t] /\ i # source[t]
      <3>1. entry'[i] = entry[i]
        BY <1>2, <2>4
      <3> QED
        BY <2>1, <2>4, <3>1 DEF EntryType
    <2> QED
      BY <2>2, <2>3, <2>4
  <1>6. entry' \in [Sizes -> EntryType]
    <2>1. entry' = [i \in Sizes |-> entry'[i]]
      BY <1>2
    <2> QED
      BY <1>5, <2>1
  <1>7. Ended(t, result)
    BY <1>1, <1>3, <1>4, <1>5 DEF Ended
  <1> QED
    BY <1>4, <1>6, <1>7

\* The flag is set, the lock dropped, the flag cleared, the buffer released.
LEMMA DemotionIs ==
  ASSUME TypeOK, NEW t \in Readers, NEW k, k = size[t]
  PROVE  /\ k \in Sizes
         /\ SetDemoting(t) =>
              /\ entry' \in [Sizes -> EntryType]
              /\ \A i \in Sizes : i # k => entry'[i] = entry[i]
              /\ entry'[k].readers = entry[k].readers /\ entry'[k].writer = entry[k].writer
              /\ entry'[k].demoting /\ entry'[k].generate = entry[k].generate
              /\ entry'[k].data = entry[k].data
         /\ DropLock(t) \/ Release(t) =>
              /\ entry' \in [Sizes -> EntryType]
              /\ \A i \in Sizes : i # k => entry'[i] = entry[i]
              /\ entry'[k].readers = entry[k].readers \ {t}
              /\ entry'[k].writer = IF entry[k].writer = t THEN Nobody ELSE entry[k].writer
              /\ entry'[k].demoting = entry[k].demoting
              /\ entry'[k].generate = entry[k].generate /\ entry'[k].data = entry[k].data
         /\ ClearDemoting(t) =>
              /\ entry' \in [Sizes -> EntryType]
              /\ \A i \in Sizes : i # k => entry'[i] = entry[i]
              /\ entry'[k].readers = entry[k].readers /\ entry'[k].writer = entry[k].writer
              /\ ~entry'[k].demoting /\ entry'[k].generate = entry[k].generate
              /\ entry'[k].data = entry[k].data \/ (entry[k].data = Empty /\ entry'[k].data = Static)
  <1>1. k \in Sizes /\ entry[k] \in EntryType
    BY DEF TypeOK, Threads
  <1>2. ASSUME SetDemoting(t)
        PROVE  /\ entry' \in [Sizes -> EntryType]
               /\ \A i \in Sizes : i # k => entry'[i] = entry[i]
               /\ entry'[k].readers = entry[k].readers /\ entry'[k].writer = entry[k].writer
               /\ entry'[k].demoting /\ entry'[k].generate = entry[k].generate
               /\ entry'[k].data = entry[k].data
    <2> DEFINE e == [entry[k] EXCEPT !.demoting = TRUE]
    <2>1. entry' = [entry EXCEPT ![k] = e]
      BY <1>2 DEF SetDemoting
    <2>2. e \in EntryType /\ e.readers = entry[k].readers /\ e.writer = entry[k].writer
          /\ e.demoting = TRUE /\ e.generate = entry[k].generate /\ e.data = entry[k].data
      BY <1>1 DEF EntryType
    <2> HIDE DEF e
    <2> QED
      BY <1>1, <2>1, <2>2, EntryExcept
  <1>3. ASSUME DropLock(t) \/ Release(t)
        PROVE  /\ entry' \in [Sizes -> EntryType]
               /\ \A i \in Sizes : i # k => entry'[i] = entry[i]
               /\ entry'[k].readers = entry[k].readers \ {t}
               /\ entry'[k].writer = IF entry[k].writer = t THEN Nobody ELSE entry[k].writer
               /\ entry'[k].demoting = entry[k].demoting
               /\ entry'[k].generate = entry[k].generate /\ entry'[k].data = entry[k].data
    <2> DEFINE w == Without(entry[k], t)
    <2>1. entry' = [entry EXCEPT ![k] = w]
      BY <1>3 DEF DropLock, Release
    <2>2. /\ w \in EntryType /\ w.readers = entry[k].readers \ {t}
          /\ w.writer = IF entry[k].writer = t THEN Nobody ELSE entry[k].writer
          /\ w.demoting = entry[k].demoting /\ w.generate = entry[k].generate
          /\ w.data = entry[k].data
      BY <1>1, WithoutType
    <2> HIDE DEF w
    <2> QED
      BY <1>1, <2>1, <2>2, EntryExcept
  <1>4. ASSUME ClearDemoting(t)
        PROVE  /\ entry' \in [Sizes -> EntryType]
               /\ \A i \in Sizes : i # k => entry'[i] = entry[i]
               /\ entry'[k].readers = entry[k].readers /\ entry'[k].writer = entry[k].writer
               /\ ~entry'[k].demoting /\ entry'[k].generate = entry[k].generate
               /\ \/ entry'[k].data = entry[k].data
                  \/ entry[k].data = Empty /\ entry'[k].data = Static
    <2> DEFINE d == IF entry[k].data = Empty /\ ~made[t] THEN Static ELSE entry[k].data
               e == [entry[k] EXCEPT !.demoting = FALSE, !.data = d]
    <2>1. entry' = [entry EXCEPT ![k] = e]
      BY <1>1, <1>4 DEF ClearDemoting
    <2>2. d \in Contents
      BY <1>1, EntryParts DEF Contents
    <2>3. d = entry[k].data \/ (entry[k].data = Empty /\ d = Static)
      OBVIOUS
    <2> HIDE DEF d
    <2>4. e \in EntryType /\ e.readers = entry[k].readers /\ e.writer = entry[k].writer
          /\ e.demoting = FALSE /\ e.generate = entry[k].generate /\ e.data = d
      BY <1>1, <2>2 DEF EntryType
    <2> HIDE DEF e
    <2> QED
      BY <1>1, <2>1, <2>3, <2>4, EntryExcept
  <1> QED
    BY <1>1, <1>2, <1>3, <1>4

\* The removal takes the lock and gives it back, or frees the entry.
LEMMA RemovalIs ==
  ASSUME TypeOK, NEW k, k = size[Editor]
  PROVE  /\ k \in Sizes
         /\ TestGet =>
              /\ lru' \in Seq(Sizes) /\ IsInjective(lru') /\ Table' = Table /\ k \in Table
              /\ Unlocked(k) /\ entry' \in [Sizes -> EntryType]
              /\ \A i \in Sizes : i # k => entry'[i] = entry[i]
              /\ entry'[k].readers = entry[k].readers /\ entry'[k].writer = Editor
              /\ entry'[k].demoting = entry[k].demoting
              /\ entry'[k].generate = entry[k].generate /\ entry'[k].data = entry[k].data
         /\ Mark =>
              /\ entry' \in [Sizes -> EntryType]
              /\ \A i \in Sizes : i # k => entry'[i] = entry[i]
              /\ entry'[k].readers = entry[k].readers \ {Editor}
              /\ entry'[k].writer = IF entry[k].writer = Editor THEN Nobody
                                    ELSE entry[k].writer
              /\ entry'[k].demoting = entry[k].demoting
              /\ entry'[k].generate = entry[k].generate /\ entry'[k].data = entry[k].data
         /\ RemoveEntry =>
              /\ lru' \in Seq(Sizes) /\ IsInjective(lru') /\ Table' = Table \ {k}
              /\ Freeable(k) /\ k \in Table
              /\ entry' \in [Sizes -> EntryType]
              /\ \A i \in Sizes : entry'[i] = IF i = k THEN Absent ELSE entry[i]
              /\ disk' \in [Sizes -> Versions \cup {Blank, NoFile}]
              /\ \A i \in Sizes : disk'[i] = IF i = k THEN DiskAfter(k) ELSE disk[i]
  <1>1. k \in Sizes /\ entry[k] \in EntryType
    BY DEF TypeOK, Threads
  <1>2. /\ LruWithout({k}) \in Seq(Sizes) /\ IsInjective(LruWithout({k}))
        /\ ToSet(LruWithout({k})) = Table \ {k}
    BY WithoutIs
  <1>3. ASSUME TestGet
        PROVE  /\ lru' \in Seq(Sizes) /\ IsInjective(lru') /\ Table' = Table /\ k \in Table
               /\ Unlocked(k) /\ entry' \in [Sizes -> EntryType]
               /\ \A i \in Sizes : i # k => entry'[i] = entry[i]
               /\ entry'[k].readers = entry[k].readers /\ entry'[k].writer = Editor
               /\ entry'[k].demoting = entry[k].demoting
               /\ entry'[k].generate = entry[k].generate /\ entry'[k].data = entry[k].data
    <2>1. k \in Table /\ Unlocked(k) /\ lru' = BubbleUp(k)
          /\ entry' = [entry EXCEPT ![k].writer = Editor]
      BY <1>3 DEF TestGet
    <2>2. k \notin ToSet(LruWithout({k}))
      BY <1>2
    <2>3. /\ lru' \in Seq(Sizes) /\ IsInjective(lru')
          /\ ToSet(lru') = ToSet(LruWithout({k})) \cup {k}
      BY <1>1, <1>2, <2>1, <2>2, AtEndIs DEF BubbleUp
    <2>4. Table' = Table
      BY <1>2, <2>1, <2>3 DEF Table
    <2> DEFINE e == [entry[k] EXCEPT !.writer = Editor]
    <2>5. entry' = [entry EXCEPT ![k] = e]
      BY <2>1
    <2>6. e \in EntryType /\ e.readers = entry[k].readers /\ e.writer = Editor
          /\ e.demoting = entry[k].demoting /\ e.generate = entry[k].generate
          /\ e.data = entry[k].data
      BY <1>1 DEF EntryType, Threads
    <2> HIDE DEF e
    <2> QED
      BY <1>1, <2>1, <2>3, <2>4, <2>5, <2>6, EntryExcept
  <1>4. ASSUME Mark
        PROVE  /\ entry' \in [Sizes -> EntryType]
               /\ \A i \in Sizes : i # k => entry'[i] = entry[i]
               /\ entry'[k].readers = entry[k].readers \ {Editor}
               /\ entry'[k].writer = IF entry[k].writer = Editor THEN Nobody
                                     ELSE entry[k].writer
               /\ entry'[k].demoting = entry[k].demoting
               /\ entry'[k].generate = entry[k].generate /\ entry'[k].data = entry[k].data
    <2> DEFINE w == Without(entry[k], Editor)
               e == [w EXCEPT !.invalidate = TRUE]
    <2>1. entry' = [entry EXCEPT ![k] = e]
      BY <1>4 DEF Mark
    <2>2. /\ w \in EntryType /\ w.readers = entry[k].readers \ {Editor}
          /\ w.writer = IF entry[k].writer = Editor THEN Nobody ELSE entry[k].writer
          /\ w.demoting = entry[k].demoting /\ w.generate = entry[k].generate
          /\ w.data = entry[k].data
      BY <1>1, WithoutType
    <2> HIDE DEF w
    <2>3. /\ e \in EntryType /\ e.readers = w.readers /\ e.writer = w.writer
          /\ e.demoting = w.demoting /\ e.generate = w.generate /\ e.data = w.data
      BY <2>2 DEF EntryType
    <2> HIDE DEF e
    <2> QED
      BY <1>1, <2>1, <2>2, <2>3, EntryExcept
  <1>5. ASSUME RemoveEntry
        PROVE  /\ lru' \in Seq(Sizes) /\ IsInjective(lru') /\ Table' = Table \ {k}
               /\ Freeable(k) /\ k \in Table
               /\ entry' \in [Sizes -> EntryType]
               /\ \A i \in Sizes : entry'[i] = IF i = k THEN Absent ELSE entry[i]
               /\ disk' \in [Sizes -> Versions \cup {Blank, NoFile}]
               /\ \A i \in Sizes : disk'[i] = IF i = k THEN DiskAfter(k) ELSE disk[i]
    <2>1. /\ k \in Table /\ Freeable(k) /\ lru' = LruWithout({k})
          /\ entry' = [entry EXCEPT ![k] = Absent]
          /\ disk' = [i \in Sizes |-> IF i \in {k} THEN DiskAfter(i) ELSE disk[i]]
      BY <1>5 DEF RemoveEntry, Freed
    <2>2. lru' \in Seq(Sizes) /\ IsInjective(lru') /\ Table' = Table \ {k}
      BY <1>2, <2>1 DEF Table
    <2>3. disk' \in [Sizes -> Versions \cup {Blank, NoFile}]
      BY <2>1, DiskAfterType DEF TypeOK
    <2>4. \A i \in Sizes : disk'[i] = IF i = k THEN DiskAfter(k) ELSE disk[i]
      BY <2>1
    <2> QED
      BY <1>1, <2>1, <2>2, <2>3, <2>4, AbsentType, EntryExcept
  <1> QED
    BY <1>1, <1>3, <1>4, <1>5

-----------------------------------------------------------------------------
(* Threads.                                                                *)

PcType == {"idle", "got", "fill", "filled", "flagged", "gap", "back", "using",
           "test", "unlink", "mark", "drop"}

\* TypeOK of the threads' variables.
ThreadsTyped(p, sz, so, wo, ma) ==
  /\ p \in [Threads -> PcType] /\ sz \in [Threads -> Sizes]
  /\ so \in [Readers -> Sizes \cup {0}] /\ wo \in [Readers -> Versions]
  /\ ma \in [Readers -> BOOLEAN]

\* A step of one thread leaves the others where they are.
Others(t) ==
  /\ \A u \in Threads : u # t => pc'[u] = pc[u] /\ size'[u] = size[u]
  /\ \A u \in Readers : u # t => source'[u] = source[u]

LEMMA ReaderMoves ==
  ASSUME TypeOK, NEW t \in Readers, Reader(t)
  PROVE  /\ ThreadsTyped(pc', size', source', work', made') /\ Others(t)
         /\ history' = history /\ overlap' \in BOOLEAN /\ (overlap => overlap')
  <1> DEFINE Goal == /\ ThreadsTyped(pc', size', source', work', made') /\ Others(t)
                     /\ history' = history /\ overlap' \in BOOLEAN /\ (overlap => overlap')
  <1>1. /\ ThreadsTyped(pc, size, source, work, made)
        /\ t \in Threads /\ Readers \subseteq Threads
        /\ history \in Versions /\ 0 \in Versions /\ overlap \in BOOLEAN
    BY ThumbAssumption DEF TypeOK, PcType, ThreadsTyped, Threads, Versions
  <1> USE DEF ThreadsTyped, Others, Goto, PcType
  <1>2. ASSUME NEW k \in Sizes, Ask(t, k) PROVE Goal
    BY <1>1, <1>2 DEF Ask
  <1>3. ASSUME NEW k \in Sizes, Glance(t, k) PROVE Goal
    BY <1>1, <1>3 DEF Glance
  <1>4. ASSUME NEW k \in Sizes, LoseLock(t, k) PROVE Goal
    BY <1>1, <1>4 DEF LoseLock
  <1>5. ASSUME Ready(t) PROVE Goal
    BY <1>1, <1>5 DEF Ready
  <1>6. ASSUME FillFromLarger(t) PROVE Goal
    <2>1. \E i \in Sizes : source' = [source EXCEPT ![t] = i]
      <3>1. \A i \in Larger(size[t]) : i \in Sizes
        BY DEF Larger, Table, ToSet, TypeOK
      <3> QED
        BY <1>6, <3>1 DEF FillFromLarger
    <2>2. /\ pc' = [pc EXCEPT ![t] = "fill"] /\ made' = [made EXCEPT ![t] = TRUE]
          /\ UNCHANGED <<history, size, work, overlap>>
      BY <1>6 DEF FillFromLarger
    <2> QED
      BY <1>1, <2>1, <2>2
  <1>7. ASSUME FillFromHistory(t) PROVE Goal
    BY <1>1, <1>7 DEF FillFromHistory
  <1>8. ASSUME EndFill(t) PROVE Goal
    BY <1>1, <1>8 DEF EndFill
  <1>9. ASSUME SetDemoting(t) PROVE Goal
    <2>1. entry[size[t]].demoting \in BOOLEAN
      BY <1>1, EntryParts
    <2>2. /\ pc' = [pc EXCEPT ![t] = "flagged"]
          /\ overlap' = (overlap \/ entry[size[t]].demoting)
          /\ UNCHANGED <<history, size, source, work, made>>
      BY <1>9 DEF SetDemoting
    <2> QED
      BY <1>1, <2>1, <2>2
  <1>10. ASSUME DropLock(t) PROVE Goal
    BY <1>1, <1>10 DEF DropLock
  <1>11. ASSUME GetAgain(t) PROVE Goal
    BY <1>1, <1>11 DEF GetAgain
  <1>12. ASSUME ClearDemoting(t) PROVE Goal
    BY <1>1, <1>12 DEF ClearDemoting
  <1>13. ASSUME Release(t) PROVE Goal
    BY <1>1, <1>13 DEF Release
  <1> QED
    BY <1>2, <1>3, <1>4, <1>5, <1>6, <1>7, <1>8, <1>9, <1>10, <1>11, <1>12, <1>13
       DEF Reader

LEMMA EditorMoves ==
  ASSUME TypeOK, EditorStep
  PROVE  /\ ThreadsTyped(pc', size', source', work', made') /\ Others(Editor)
         /\ history' \in Versions /\ overlap' = overlap
         /\ source' = source
  <1> DEFINE Goal == /\ ThreadsTyped(pc', size', source', work', made') /\ Others(Editor)
                     /\ history' \in Versions /\ overlap' = overlap
                     /\ source' = source
  <1>1. /\ ThreadsTyped(pc, size, source, work, made)
        /\ Editor \in Threads /\ history \in Versions
    BY DEF TypeOK, PcType, ThreadsTyped, Threads
  <1> USE DEF ThreadsTyped, Others, Goto, PcType
  <1>2. ASSUME NextSize, UNCHANGED <<history, source, work, made, overlap>> PROVE Goal
    <2>1. CASE size[Editor] < Largest
      <3>1. /\ size' = [size EXCEPT ![Editor] = size[Editor] + 1]
            /\ pc' = [pc EXCEPT ![Editor] = "test"]
        BY <1>2, <2>1 DEF NextSize
      <3>2. size[Editor] + 1 \in Sizes
        BY <1>1, <2>1, ThumbAssumption DEF Sizes
      <3> QED
        BY <1>1, <1>2, <3>1, <3>2
    <2>2. CASE ~(size[Editor] < Largest)
      <3>1. size' = size /\ pc' = [pc EXCEPT ![Editor] = "idle"]
        BY <1>2, <2>2 DEF NextSize
      <3> QED
        BY <1>1, <1>2, <3>1
    <2> QED
      BY <2>1, <2>2
  <1>3. ASSUME Edit PROVE Goal
    <2>1. history' \in Versions /\ 1 \in Sizes
      BY <1>1, <1>3, ThumbAssumption DEF Edit, Versions, Sizes
    <2>2. /\ size' = [size EXCEPT ![Editor] = 1] /\ pc' = [pc EXCEPT ![Editor] = "test"]
          /\ UNCHANGED <<source, work, made, overlap>>
      BY <1>3 DEF Edit
    <2> QED
      BY <1>1, <2>1, <2>2
  <1>4. ASSUME TestGet \/ TestFail \/ Mark PROVE Goal
    <2>1. /\ \E at \in PcType : pc' = [pc EXCEPT ![Editor] = at]
          /\ UNCHANGED <<history, size, source, work, made, overlap>>
      BY <1>4 DEF TestGet, TestFail, Mark
    <2> QED
      BY <1>1, <2>1
  <1>5. ASSUME Unlink \/ RemoveEntry \/ RemoveNothing PROVE Goal
    <2>1. NextSize /\ UNCHANGED <<history, source, work, made, overlap>>
      BY <1>5 DEF Unlink, RemoveEntry, RemoveNothing
    <2> QED
      BY <1>2, <2>1
  <1> QED
    BY <1>3, <1>4, <1>5 DEF EditorStep

-----------------------------------------------------------------------------
(* Types.                                                                  *)

LEMMA TypeStep ==
  ASSUME TypeOK, Next
  PROVE  TypeOK'
  <1> DEFINE CacheTyped == /\ lru' \in Seq(Sizes) /\ IsInjective(lru')
                           /\ entry' \in [Sizes -> EntryType]
                           /\ disk' \in [Sizes -> Versions \cup {Blank, NoFile}]
  <1>1. /\ lru \in Seq(Sizes) /\ IsInjective(lru)
        /\ entry \in [Sizes -> EntryType]
        /\ disk \in [Sizes -> Versions \cup {Blank, NoFile}]
        /\ history \in Versions
    BY DEF TypeOK
  <1>2. ASSUME NEW t \in Readers \cup {Lost}, NEW k \in Sizes, GetHit(t, k) PROVE CacheTyped
    <2>1. ReadLock(t, k) /\ disk' = disk
      BY <1>2 DEF GetHit, ReadLock
    <2> QED
      BY <1>1, <2>1, HitIs
  <1>3. ASSUME NEW t \in Readers, NEW k \in Sizes, Get(t, k) PROVE CacheTyped
    BY <1>2, <1>3, MissIs DEF Get
  <1>4. ASSUME NEW t \in Readers, Reader(t) PROVE CacheTyped
    <2>1. size[t] \in Sizes
      BY DEF TypeOK, Threads
    <2>2. CASE \E k \in Sizes : Ask(t, k) \/ Glance(t, k) \/ LoseLock(t, k)
      BY <1>2, <1>3, <2>2 DEF Ask, Glance, LoseLock, Get
    <2>3. CASE GetAgain(t)
      BY <1>3, <2>1, <2>3 DEF GetAgain
    <2>4. CASE Ready(t) \/ FillFromHistory(t)
      BY <1>1, <2>4 DEF Ready, FillFromHistory
    <2>5. CASE FillFromLarger(t)
      <3>1. PICK i \in Larger(size[t]) :
              /\ entry' = [entry EXCEPT ![i].readers = @ \cup {t}]
              /\ lru' = BubbleUp(i)
        BY <2>5 DEF FillFromLarger
      <3>2. i \in Table /\ i \in Sizes /\ Readable(i)
        BY <3>1 DEF Larger, Table, ToSet, TypeOK
      <3>3. disk' = disk
        BY <2>5 DEF FillFromLarger
      <3> QED
        BY <1>1, <3>1, <3>2, <3>3, HitIs DEF ReadLock
    <2>6. CASE EndFill(t)
      <3>1. UNCHANGED <<lru, disk>>
        BY <2>6 DEF EndFill
      <3> QED
        BY <1>1, <2>6, <3>1, EndFillIs
    <2>7. CASE SetDemoting(t) \/ DropLock(t) \/ ClearDemoting(t) \/ Release(t)
      <3>1. UNCHANGED <<lru, disk>>
        BY <2>7 DEF SetDemoting, DropLock, ClearDemoting, Release
      <3> QED
        BY <1>1, <2>7, <3>1, DemotionIs
    <2> QED
      BY <1>4, <2>2, <2>3, <2>4, <2>5, <2>6, <2>7 DEF Reader
  <1>5. ASSUME EditorStep PROVE CacheTyped
    <2>1. CASE Edit \/ TestFail \/ RemoveNothing
      BY <1>1, <2>1 DEF Edit, TestFail, RemoveNothing
    <2>2. CASE TestGet
      <3>1. UNCHANGED disk
        BY <2>2 DEF TestGet
      <3> QED
        BY <1>1, <2>2, <3>1, RemovalIs
    <2>3. CASE Mark
      <3>1. UNCHANGED <<lru, disk>>
        BY <2>3 DEF Mark
      <3> QED
        BY <1>1, <2>3, <3>1, RemovalIs
    <2>4. CASE Unlink
      BY <1>1, <2>4 DEF Unlink
    <2>5. CASE RemoveEntry
      BY <2>5, RemovalIs
    <2> QED
      BY <1>5, <2>1, <2>2, <2>3, <2>4, <2>5 DEF EditorStep
  <1>6. CacheTyped
    BY <1>4, <1>5 DEF Next
  <1>7. ThreadsTyped(pc', size', source', work', made') /\ history' \in Versions
        /\ overlap' \in BOOLEAN
    <2>1. overlap \in BOOLEAN
      BY DEF TypeOK
    <2> QED
      BY <1>1, <2>1, ReaderMoves, EditorMoves DEF Next
  <1> QED
    BY <1>6, <1>7 DEF TypeOK, ThreadsTyped, PcType

-----------------------------------------------------------------------------
(* Locks have holders.                                                     *)

Demotes(p) == p \in {"flagged", "gap", "back"}

\* Thread u is between a get of size k and its release.
Holds(p, sz, so, u, k) ==
  \/ u \in Readers /\ sz[u] = k /\ p[u] \notin {"idle", "gap"}
  \/ u \in Readers /\ p[u] = "fill" /\ so[u] = k
  \/ u = Editor /\ p[u] = "mark" /\ sz[u] = k

LockedBy(e, u) == u \in e.readers \/ u = e.writer

\* LocksAreOwned, thread by thread.
Locks(p, sz, so, en, tab) ==
  \A k \in Sizes :
    /\ \A u \in Threads : Holds(p, sz, so, u, k) <=> LockedBy(en[k], u)
    /\ en[k].readers # {} => en[k].writer = Nobody
    /\ en[k].readers # {} \/ en[k].writer # Nobody => k \in tab
    /\ en[k].demoting => \E t \in Readers : sz[t] = k /\ Demotes(p[t])

LEMMA LocksIs ==
  ASSUME TypeOK, LocksAreOwned
  PROVE  Locks(pc, size, source, entry, Table)
  <1> SUFFICES ASSUME NEW k \in Sizes
               PROVE  /\ \A u \in Threads :
                           Holds(pc, size, source, u, k) <=> LockedBy(entry[k], u)
                      /\ entry[k].readers # {} => entry[k].writer = Nobody
                      /\ entry[k].readers # {} \/ entry[k].writer # Nobody => k \in Table
                      /\ entry[k].demoting =>
                           \E t \in Readers : size[t] = k /\ Demotes(pc[t])
    BY DEF Locks
  <1>1. /\ entry[k].readers \subseteq Readers \cup {Lost}
        /\ entry[k].writer \in Threads \cup {Nobody}
    BY EntryParts
  <1>2. /\ Editor \notin Readers /\ Nobody \notin Threads /\ Lost \notin Threads
        /\ Lost # Nobody /\ Threads = Readers \cup {Editor}
    BY ThumbAssumption DEF Threads
  <1>3. /\ Holders(k) \cup {t \in {Editor} : pc[t] = "mark" /\ size[t] = k}
             = (entry[k].readers \cup {entry[k].writer}) \ {Lost, Nobody}
        /\ entry[k].readers # {} => entry[k].writer = Nobody
        /\ entry[k].readers \cup {entry[k].writer} # {Nobody} => k \in Table
        /\ entry[k].demoting =>
             \E t \in Readers : size[t] = k /\ pc[t] \in {"flagged", "gap", "back"}
    BY DEF LocksAreOwned
  <1>4. ASSUME NEW u \in Threads
        PROVE  Holds(pc, size, source, u, k) <=> LockedBy(entry[k], u)
    <2>1. Holds(pc, size, source, u, k)
            <=> u \in Holders(k) \cup {t \in {Editor} : pc[t] = "mark" /\ size[t] = k}
      BY <1>2 DEF Holds, Holders
    <2>2. LockedBy(entry[k], u)
            <=> u \in (entry[k].readers \cup {entry[k].writer}) \ {Lost, Nobody}
      BY <1>2 DEF LockedBy
    <2> QED
      BY <1>3, <2>1, <2>2
  <1>5. entry[k].readers # {} \/ entry[k].writer # Nobody => k \in Table
    BY <1>1, <1>2, <1>3
  <1> QED
    BY <1>3, <1>4, <1>5 DEF Demotes

LEMMA LocksNext ==
  ASSUME TypeOK', Locks(pc', size', source', entry', Table')
  PROVE  LocksAreOwned'
  <1> SUFFICES ASSUME NEW k \in Sizes
               PROVE  (/\ Holders(k) \cup {t \in {Editor} : pc[t] = "mark" /\ size[t] = k}
                            = (entry[k].readers \cup {entry[k].writer}) \ {Lost, Nobody}
                       /\ entry[k].readers # {} => entry[k].writer = Nobody
                       /\ entry[k].readers \cup {entry[k].writer} # {Nobody} => k \in Table
                       /\ entry[k].demoting =>
                            \E t \in Readers :
                              size[t] = k /\ pc[t] \in {"flagged", "gap", "back"})'
    BY DEF LocksAreOwned
  <1>1. /\ entry'[k].readers \subseteq Readers \cup {Lost}
        /\ entry'[k].writer \in Threads \cup {Nobody}
    BY DEF TypeOK, EntryType
  <1>2. /\ Editor \notin Readers /\ Nobody \notin Threads /\ Lost \notin Threads
        /\ Lost # Nobody /\ Threads = Readers \cup {Editor}
    BY ThumbAssumption DEF Threads
  <1>3. /\ \A u \in Threads :
             Holds(pc', size', source', u, k) <=> LockedBy(entry'[k], u)
        /\ entry'[k].readers # {} => entry'[k].writer = Nobody
        /\ entry'[k].readers # {} \/ entry'[k].writer # Nobody => k \in Table'
        /\ entry'[k].demoting => \E t \in Readers : size'[t] = k /\ Demotes(pc'[t])
    BY DEF Locks
  <1> DEFINE H == Holders(k)' \cup {t \in {Editor} : pc'[t] = "mark" /\ size'[t] = k}
             L == (entry'[k].readers \cup {entry'[k].writer}) \ {Lost, Nobody}
  <1>4. \A u : u \in H <=> u \in Threads /\ Holds(pc', size', source', u, k)
    BY <1>2 DEF Holders, Holds
  <1>5. \A u : u \in L <=> u \in Threads /\ LockedBy(entry'[k], u)
    BY <1>1, <1>2 DEF LockedBy
  <1> HIDE DEF H, L
  <1>6. H = L
    BY <1>3, <1>4, <1>5
  <1>7. entry'[k].readers \cup {entry'[k].writer} # {Nobody} => k \in Table'
    BY <1>3
  <1> QED
    BY <1>3, <1>6, <1>7 DEF H, L, Demotes

\* A step of one thread that gives and takes only locks of its own.
LEMMA LocksKept ==
  ASSUME Locks(pc, size, source, entry, Table), NEW t \in Threads, Others(t),
         \A k \in Sizes : \A u \in Threads :
           u # t => (LockedBy(entry'[k], u) <=> LockedBy(entry[k], u)),
         \A k \in Sizes : Holds(pc', size', source', t, k) <=> LockedBy(entry'[k], t),
         \A k \in Sizes :
           /\ entry'[k].readers # {} => entry'[k].writer = Nobody
           /\ entry'[k].readers # {} \/ entry'[k].writer # Nobody => k \in Table'
           /\ entry'[k].demoting =>
                \/ entry[k].demoting /\ ~(t \in Readers /\ size[t] = k /\ Demotes(pc[t]))
                \/ t \in Readers /\ size'[t] = k /\ Demotes(pc'[t])
  PROVE  Locks(pc', size', source', entry', Table')
  <1> SUFFICES ASSUME NEW k \in Sizes
               PROVE  /\ \A u \in Threads :
                           Holds(pc', size', source', u, k) <=> LockedBy(entry'[k], u)
                      /\ entry'[k].demoting =>
                           \E u \in Readers : size'[u] = k /\ Demotes(pc'[u])
    BY DEF Locks
  <1>1. ASSUME NEW u \in Threads, u # t
        PROVE  Holds(pc', size', source', u, k) <=> LockedBy(entry'[k], u)
    <2>1. Holds(pc', size', source', u, k) <=> Holds(pc, size, source, u, k)
      BY <1>1 DEF Holds, Others
    <2>2. Holds(pc, size, source, u, k) <=> LockedBy(entry[k], u)
      BY DEF Locks
    <2> QED
      BY <1>1, <2>1, <2>2
  <1>2. ASSUME entry'[k].demoting
        PROVE  \E u \in Readers : size'[u] = k /\ Demotes(pc'[u])
    <2>1. CASE t \in Readers /\ size'[t] = k /\ Demotes(pc'[t])
      BY <2>1
    <2>2. CASE entry[k].demoting /\ ~(t \in Readers /\ size[t] = k /\ Demotes(pc[t]))
      <3>1. PICK u \in Readers : size[u] = k /\ Demotes(pc[u])
        BY <2>2 DEF Locks
      <3>2. u # t /\ u \in Threads
        BY <2>2, <3>1 DEF Threads
      <3> QED
        BY <3>1, <3>2 DEF Others
    <2> QED
      BY <1>2, <2>1, <2>2
  <1> QED
    BY <1>1, <1>2

\* The parts of entries that are made and of those that are gone.
LEMMA FreshParts ==
  ASSUME NEW t, NEW k
  PROVE  /\ Absent.readers = {} /\ Absent.writer = Nobody /\ ~Absent.demoting
         /\ NewEntry(t, k).readers = {} /\ NewEntry(t, k).writer = t
         /\ ~NewEntry(t, k).demoting
         /\ NewEntry(t, k).generate = (disk[k] = NoFile)
         /\ NewEntry(t, k).data = IF disk[k] = NoFile THEN Blank ELSE disk[k]
  BY DEF Absent, NewEntry

\* Whoever locks an entry is a thread, and the entry is in the table.
LEMMA LockFacts ==
  ASSUME TypeOK, Locks(pc, size, source, entry, Table), NEW k \in Sizes
  PROVE  /\ Nobody \notin Threads /\ Lost \notin Threads /\ Editor \notin Readers
         /\ Readers \subseteq Threads /\ Editor \in Threads
         /\ \A u \in Threads : Holds(pc, size, source, u, k) => k \in Table
         /\ Unlocked(k) => \A u \in Threads : ~LockedBy(entry[k], u)
         /\ k \notin Table => Unlocked(k)
  <1>1. /\ Nobody \notin Threads /\ Lost \notin Threads /\ Editor \notin Readers
        /\ Readers \subseteq Threads /\ Editor \in Threads
    BY ThumbAssumption DEF Threads
  <1>2. ASSUME NEW u \in Threads, Holds(pc, size, source, u, k) PROVE k \in Table
    <2>1. u \in entry[k].readers \/ u = entry[k].writer
      BY <1>2 DEF Locks, LockedBy
    <2> QED
      BY <1>1, <2>1 DEF Locks
  <1>3. Unlocked(k) => \A u \in Threads : ~LockedBy(entry[k], u)
    BY <1>1 DEF Unlocked, LockedBy
  <1>4. k \notin Table => Unlocked(k)
    BY DEF Locks, Unlocked
  <1> QED
    BY <1>1, <1>2, <1>3, <1>4

\* A reader that had no lock gets one.
LEMMA GetLocks ==
  ASSUME TypeOK, Locks(pc, size, source, entry, Table), NEW t \in Readers,
         NEW k \in Sizes, Get(t, k), Others(t), size'[t] = k,
         pc[t] \in {"idle", "gap"}, pc'[t] \in {"got", "using", "back"},
         pc[t] = "gap" => pc'[t] = "back" /\ size[t] = k
  PROVE  Locks(pc', size', source', entry', Table')
  <1>1. /\ Nobody \notin Threads /\ Lost \notin Threads /\ Editor \notin Readers
        /\ Readers \subseteq Threads
    BY LockFacts
  <1>2. \A i \in Sizes : ~LockedBy(entry[i], t)
    <2>1. \A i \in Sizes : ~Holds(pc, size, source, t, i)
      BY <1>1 DEF Holds
    <2> QED
      BY <1>1, <2>1 DEF Locks
  <1>3. \A i \in Sizes : Holds(pc', size', source', t, i) <=> i = k
    BY <1>1 DEF Holds
  <1>4. \A i \in Sizes : (size[t] = i /\ Demotes(pc[t])) => (size'[t] = i /\ Demotes(pc'[t]))
    BY DEF Demotes
  <1>5. CASE GetHit(t, k)
    <2>1. ReadLocked(t, k)
      BY <1>5, HitIs DEF GetHit, ReadLock
    <2>2. /\ k \in Table /\ Table' = Table /\ entry[k].writer = Nobody
          /\ \A i \in Sizes :
               /\ entry'[i].readers = IF i = k THEN entry[i].readers \cup {t}
                                      ELSE entry[i].readers
               /\ entry'[i].writer = entry[i].writer
               /\ entry'[i].demoting = entry[i].demoting
      BY <2>1 DEF ReadLocked
    <2>3. \A i \in Sizes : \A u \in Threads :
            LockedBy(entry'[i], u) <=> (LockedBy(entry[i], u) \/ (u = t /\ i = k))
      <3> SUFFICES ASSUME NEW i \in Sizes, NEW u \in Threads
                   PROVE  LockedBy(entry'[i], u)
                            <=> (LockedBy(entry[i], u) \/ (u = t /\ i = k))
        OBVIOUS
      <3>1. /\ entry'[i].readers = IF i = k THEN entry[i].readers \cup {t}
                                   ELSE entry[i].readers
            /\ entry'[i].writer = entry[i].writer
        BY <2>2
      <3> QED
        BY <3>1 DEF LockedBy
    <2>4. \A i \in Sizes :
            /\ entry'[i].readers # {} => entry'[i].writer = Nobody
            /\ entry'[i].readers # {} \/ entry'[i].writer # Nobody => i \in Table'
            /\ entry'[i].demoting = entry[i].demoting
      BY <2>1, <2>2 DEF Locks
    <2> QED
      BY <1>1, <1>2, <1>3, <1>4, <2>3, <2>4, LocksKept
  <1>6. CASE GetMiss(t, k)
    <2>1. PICK G : Renewed(t, k, G)
      BY <1>6, MissIs
    <2> USE DEF Renewed
    <2>2. \A i \in Sizes : i = k \/ i \in G => Unlocked(i)
      BY <2>1, LockFacts DEF Freeable
    <2>3. \A i \in Sizes : i = k \/ i \in G =>
            /\ \A u \in Threads : ~LockedBy(entry[i], u)
            /\ entry'[i].readers = {} /\ ~entry'[i].demoting
            /\ entry'[i].writer = IF i = k THEN t ELSE Nobody
      BY <2>1, <2>2, LockFacts, FreshParts
    <2>4. \A i \in Sizes : \A u \in Threads :
            LockedBy(entry'[i], u) <=> (LockedBy(entry[i], u) \/ (u = t /\ i = k))
      <3> SUFFICES ASSUME NEW i \in Sizes, NEW u \in Threads
                   PROVE  LockedBy(entry'[i], u)
                            <=> (LockedBy(entry[i], u) \/ (u = t /\ i = k))
        OBVIOUS
      <3>1. CASE i = k \/ i \in G
        BY <1>1, <2>3, <3>1 DEF LockedBy
      <3>2. CASE i # k /\ i \notin G
        <4>1. entry'[i] = entry[i]
          BY <2>1, <3>2
        <4> QED
          BY <3>2, <4>1
      <3> QED
        BY <3>1, <3>2
    <2>5. \A i \in Sizes :
            /\ entry'[i].readers # {} => entry'[i].writer = Nobody
            /\ entry'[i].readers # {} \/ entry'[i].writer # Nobody => i \in Table'
            /\ entry'[i].demoting => entry[i].demoting
      <3> SUFFICES ASSUME NEW i \in Sizes
                   PROVE  /\ entry'[i].readers # {} => entry'[i].writer = Nobody
                          /\ entry'[i].readers # {} \/ entry'[i].writer # Nobody => i \in Table'
                          /\ entry'[i].demoting => entry[i].demoting
        OBVIOUS
      <3>1. CASE i = k \/ i \in G
        BY <2>1, <2>3, <3>1
      <3>2. CASE i # k /\ i \notin G
        <4>1. entry'[i] = entry[i] /\ (i \in Table => i \in Table')
          BY <2>1, <3>2
        <4> QED
          BY <4>1 DEF Locks
      <3> QED
        BY <3>1, <3>2
    <2> QED
      BY <1>1, <1>2, <1>3, <1>4, <2>4, <2>5, LocksKept
  <1> QED
    BY <1>5, <1>6 DEF Get

\* A reader that has the lock of its entry sets the flag, drops the lock,
\* clears the flag or releases the buffer.
LEMMA DemotionLocks ==
  ASSUME TypeOK, Locks(pc, size, source, entry, Table), NEW t \in Readers, Others(t),
         SetDemoting(t) \/ DropLock(t) \/ ClearDemoting(t) \/ Release(t)
  PROVE  Locks(pc', size', source', entry', Table')
  <1> DEFINE k == size[t]
  <1>1. /\ Nobody \notin Threads /\ Lost \notin Threads /\ Editor \notin Readers
        /\ Readers \subseteq Threads /\ t \in Threads /\ k \in Sizes
    BY LockFacts DEF TypeOK, Threads
  <1>2. /\ UNCHANGED <<lru, size, source>> /\ Table' = Table
        /\ pc[t] \in {"filled", "flagged", "back", "using"}
        /\ SetDemoting(t) => pc[t] = "filled" /\ pc'[t] = "flagged"
        /\ DropLock(t) => pc[t] = "flagged" /\ pc'[t] = "gap"
        /\ ClearDemoting(t) => pc[t] = "back" /\ pc'[t] = "using"
        /\ Release(t) => pc[t] = "using" /\ pc'[t] = "idle"
    <2>1. pc \in [Threads -> PcType]
      BY DEF TypeOK, PcType
    <2>2. CASE SetDemoting(t)
      BY <1>1, <2>1, <2>2 DEF SetDemoting, DropLock, ClearDemoting, Release, Goto, Table
    <2>3. CASE DropLock(t)
      BY <1>1, <2>1, <2>3 DEF SetDemoting, DropLock, ClearDemoting, Release, Goto, Table
    <2>4. CASE ClearDemoting(t)
      BY <1>1, <2>1, <2>4 DEF SetDemoting, DropLock, ClearDemoting, Release, Goto, Table
    <2>5. CASE Release(t)
      BY <1>1, <2>1, <2>5 DEF SetDemoting, DropLock, ClearDemoting, Release, Goto, Table
    <2> QED
      BY <2>2, <2>3, <2>4, <2>5
  <1>3. \A i \in Sizes : LockedBy(entry[i], t) <=> i = k
    <2>1. \A i \in Sizes : Holds(pc, size, source, t, i) <=> i = k
      BY <1>1, <1>2 DEF Holds
    <2> QED
      BY <1>1, <2>1 DEF Locks
  <1>4. /\ \A i \in Sizes : i # k => entry'[i] = entry[i]
        /\ \/ entry'[k].readers = entry[k].readers /\ entry'[k].writer = entry[k].writer
           \/ /\ entry'[k].readers = entry[k].readers \ {t}
              /\ entry'[k].writer = IF entry[k].writer = t THEN Nobody
                                    ELSE entry[k].writer
        /\ SetDemoting(t) \/ ClearDemoting(t) =>
             entry'[k].readers = entry[k].readers /\ entry'[k].writer = entry[k].writer
        /\ DropLock(t) \/ Release(t) =>
             /\ entry'[k].readers = entry[k].readers \ {t}
             /\ entry'[k].writer = IF entry[k].writer = t THEN Nobody
                                   ELSE entry[k].writer
        /\ DropLock(t) \/ Release(t) => entry'[k].demoting = entry[k].demoting
        /\ ClearDemoting(t) => ~entry'[k].demoting
    BY DemotionIs
  <1> HIDE DEF k
  <1>5. \A i \in Sizes : \A u \in Threads :
          u # t => (LockedBy(entry'[i], u) <=> LockedBy(entry[i], u))
    <2> SUFFICES ASSUME NEW i \in Sizes, NEW u \in Threads, u # t
                 PROVE  LockedBy(entry'[i], u) <=> LockedBy(entry[i], u)
      OBVIOUS
    <2>1. CASE i = k
      BY <1>1, <1>4, <2>1 DEF LockedBy
    <2>2. CASE i # k
      BY <1>4, <2>2
    <2> QED
      BY <2>1, <2>2
  <1>6. \A i \in Sizes : Holds(pc', size', source', t, i) <=> LockedBy(entry'[i], t)
    <2> SUFFICES ASSUME NEW i \in Sizes
                 PROVE  Holds(pc', size', source', t, i) <=> LockedBy(entry'[i], t)
      OBVIOUS
    <2>1. CASE i # k
      <3>1. ~LockedBy(entry'[i], t)
        BY <1>3, <1>4, <2>1
      <3>2. ~Holds(pc', size', source', t, i)
        BY <1>1, <1>2, <2>1 DEF Holds, k
      <3> QED
        BY <3>1, <3>2
    <2>2. CASE i = k /\ (SetDemoting(t) \/ ClearDemoting(t))
      <3>1. LockedBy(entry'[i], t)
        BY <1>3, <1>4, <2>2 DEF LockedBy
      <3>2. Holds(pc', size', source', t, i)
        BY <1>1, <1>2, <2>2 DEF Holds, k
      <3> QED
        BY <3>1, <3>2
    <2>3. CASE i = k /\ (DropLock(t) \/ Release(t))
      <3>1. ~LockedBy(entry'[i], t)
        BY <1>1, <1>4, <2>3 DEF LockedBy
      <3>2. ~Holds(pc', size', source', t, i)
        BY <1>1, <1>2, <2>3 DEF Holds
      <3> QED
        BY <3>1, <3>2
    <2> QED
      BY <2>1, <2>2, <2>3
  <1>7. \A i \in Sizes :
          /\ entry'[i].readers # {} => entry'[i].writer = Nobody
          /\ entry'[i].readers # {} \/ entry'[i].writer # Nobody => i \in Table'
          /\ entry'[i].demoting =>
               \/ entry[i].demoting /\ ~(t \in Readers /\ size[t] = i /\ Demotes(pc[t]))
               \/ t \in Readers /\ size'[t] = i /\ Demotes(pc'[t])
    <2> SUFFICES ASSUME NEW i \in Sizes
                 PROVE  /\ entry'[i].readers # {} => entry'[i].writer = Nobody
                        /\ entry'[i].readers # {} \/ entry'[i].writer # Nobody => i \in Table'
                        /\ entry'[i].demoting =>
                             \/ /\ entry[i].demoting
                                /\ ~(t \in Readers /\ size[t] = i /\ Demotes(pc[t]))
                             \/ t \in Readers /\ size'[t] = i /\ Demotes(pc'[t])
      OBVIOUS
    <2>1. /\ entry[i].readers # {} => entry[i].writer = Nobody
          /\ entry[i].readers # {} \/ entry[i].writer # Nobody => i \in Table
      BY DEF Locks
    <2>2. CASE i # k
      BY <1>2, <1>4, <2>1, <2>2 DEF k
    <2>3. CASE i = k
      <3>1. /\ entry'[i].readers # {} => entry'[i].writer = Nobody
            /\ entry'[i].readers # {} \/ entry'[i].writer # Nobody => i \in Table'
        BY <1>2, <1>4, <2>1, <2>3
      <3>2. entry'[i].demoting =>
              \/ /\ entry[i].demoting
                 /\ ~(t \in Readers /\ size[t] = i /\ Demotes(pc[t]))
              \/ t \in Readers /\ size'[t] = i /\ Demotes(pc'[t])
        <4>1. CASE SetDemoting(t)
          BY <1>2, <2>3, <4>1 DEF Demotes, k
        <4>2. CASE DropLock(t)
          BY <1>2, <2>3, <4>2 DEF Demotes, k
        <4>3. CASE ClearDemoting(t)
          BY <1>4, <2>3, <4>3
        <4>4. CASE Release(t)
          <5>1. ~Demotes(pc[t])
            BY <1>2, <4>4 DEF Demotes
          <5> QED
            BY <1>4, <2>3, <4>4, <5>1
        <4> QED
          BY <4>1, <4>2, <4>3, <4>4
      <3> QED
        BY <3>1, <3>2
    <2> QED
      BY <2>2, <2>3
  <1> QED
    BY <1>1, <1>5, <1>6, <1>7, LocksKept

\* A reader takes a second lock, on the entry it copies from.
LEMMA SourceLocks ==
  ASSUME TypeOK, Locks(pc, size, source, entry, Table), NEW t \in Readers, Others(t),
         FillFromLarger(t)
  PROVE  Locks(pc', size', source', entry', Table')
  <1>1. /\ Nobody \notin Threads /\ Editor \notin Readers
        /\ Readers \subseteq Threads /\ t \in Threads /\ size[t] \in Sizes
    BY LockFacts DEF TypeOK, Threads
  <1>2. PICK i \in Larger(size[t]) :
          /\ entry' = [entry EXCEPT ![i].readers = @ \cup {t}]
          /\ lru' = BubbleUp(i)
          /\ source' = [source EXCEPT ![t] = i]
    BY DEF FillFromLarger
  <1>3. i \in Table /\ i \in Sizes /\ Readable(i) /\ i # size[t]
    <2>1. \A l \in Table : l \in Sizes
      BY DEF Table, ToSet, TypeOK
    <2>2. i \in Table /\ i > size[t] /\ Readable(i)
      BY <1>2 DEF Larger
    <2>3. i \in Int /\ size[t] \in Int
      BY <1>1, <2>1, <2>2 DEF Sizes
    <2> QED
      BY <2>1, <2>2, <2>3
  <1>4. ReadLocked(t, i)
    BY <1>2, <1>3, HitIs DEF ReadLock
  <1>5. /\ pc[t] = "got" /\ pc'[t] = "fill" /\ size' = size /\ source'[t] = i
    BY <1>1, <1>2 DEF FillFromLarger, Goto, TypeOK
  <1>6. /\ Table' = Table /\ entry[i].writer = Nobody
        /\ \A l \in Sizes :
             /\ entry'[l].readers = IF l = i THEN entry[l].readers \cup {t}
                                    ELSE entry[l].readers
             /\ entry'[l].writer = entry[l].writer
             /\ entry'[l].demoting = entry[l].demoting
    BY <1>4 DEF ReadLocked
  <1>7. \A l \in Sizes : \A u \in Threads :
          LockedBy(entry'[l], u) <=> (LockedBy(entry[l], u) \/ (u = t /\ l = i))
    <2> SUFFICES ASSUME NEW l \in Sizes, NEW u \in Threads
                 PROVE  LockedBy(entry'[l], u) <=> (LockedBy(entry[l], u) \/ (u = t /\ l = i))
      OBVIOUS
    <2>1. /\ entry'[l].readers = IF l = i THEN entry[l].readers \cup {t}
                                 ELSE entry[l].readers
          /\ entry'[l].writer = entry[l].writer
      BY <1>6
    <2> QED
      BY <2>1 DEF LockedBy
  <1>8. \A l \in Sizes : Holds(pc', size', source', t, l) <=> LockedBy(entry'[l], t)
    <2>1. \A l \in Sizes : Holds(pc, size, source, t, l) <=> l = size[t]
      BY <1>1, <1>5 DEF Holds
    <2>2. \A l \in Sizes : Holds(pc', size', source', t, l) <=> (l = size[t] \/ l = i)
      BY <1>1, <1>5 DEF Holds
    <2>3. \A l \in Sizes : Holds(pc, size, source, t, l) <=> LockedBy(entry[l], t)
      BY <1>1 DEF Locks
    <2> QED
      BY <1>1, <1>7, <2>1, <2>2, <2>3
  <1>9. \A l \in Sizes :
          /\ entry'[l].readers # {} => entry'[l].writer = Nobody
          /\ entry'[l].readers # {} \/ entry'[l].writer # Nobody => l \in Table'
          /\ entry'[l].demoting =>
               \/ entry[l].demoting /\ ~(t \in Readers /\ size[t] = l /\ Demotes(pc[t]))
               \/ t \in Readers /\ size'[t] = l /\ Demotes(pc'[t])
    <2>1. ~Demotes(pc[t])
      BY <1>5 DEF Demotes
    <2> QED
      BY <1>3, <1>6, <2>1 DEF Locks
  <1> QED
    BY <1>1, <1>7, <1>8, <1>9, LocksKept

\* The end of the generation releases it.
LEMMA FilledLocks ==
  ASSUME TypeOK, Locks(pc, size, source, entry, Table), SourceIsLarger, NEW t \in Readers,
         Others(t), EndFill(t)
  PROVE  Locks(pc', size', source', entry', Table')
  <1>1. /\ Nobody \notin Threads /\ Editor \notin Readers
        /\ Readers \subseteq Threads /\ t \in Threads /\ size[t] \in Sizes
        /\ source[t] \in Sizes \cup {0} /\ 0 \notin Sizes /\ Sizes \subseteq Int
    BY LockFacts DEF TypeOK, Threads, Sizes
  <1>2. /\ pc[t] = "fill" /\ pc'[t] = "filled" /\ size' = size /\ source'[t] = 0
        /\ UNCHANGED lru
    BY <1>1 DEF EndFill, Goto, TypeOK
  <1>3. source[t] # size[t] /\ Table' = Table
    <2>1. source[t] # 0 => source[t] > size[t]
      BY <1>2 DEF SourceIsLarger
    <2>2. size[t] \in Int /\ size[t] # 0
      BY <1>1
    <2> QED
      BY <1>1, <1>2, <2>1, <2>2 DEF Table
  <1>4. \A l \in Sizes :
          /\ entry'[l].readers = IF l = source[t] THEN entry[l].readers \ {t}
                                 ELSE entry[l].readers
          /\ entry'[l].writer = IF l = source[t] /\ entry[l].writer = t THEN Nobody
                                ELSE entry[l].writer
          /\ entry'[l].demoting = entry[l].demoting
    <2>1. \A l \in Sizes :
            /\ entry'[l].readers = IF l = source[t] /\ l # size[t]
                                   THEN entry[l].readers \ {t} ELSE entry[l].readers
            /\ entry'[l].writer =
                 IF l = source[t] /\ l # size[t] /\ entry[l].writer = t
                 THEN Nobody ELSE entry[l].writer
            /\ entry'[l].demoting = entry[l].demoting
      BY EndFillIs DEF Ended
    <2> QED
      BY <1>3, <2>1
  <1>5. \A l \in Sizes : \A u \in Threads :
          LockedBy(entry'[l], u) <=> (LockedBy(entry[l], u) /\ ~(u = t /\ l = source[t]))
    <2> SUFFICES ASSUME NEW l \in Sizes, NEW u \in Threads
                 PROVE  LockedBy(entry'[l], u)
                          <=> (LockedBy(entry[l], u) /\ ~(u = t /\ l = source[t]))
      OBVIOUS
    <2>1. /\ entry'[l].readers = IF l = source[t] THEN entry[l].readers \ {t}
                                 ELSE entry[l].readers
          /\ entry'[l].writer = IF l = source[t] /\ entry[l].writer = t THEN Nobody
                                ELSE entry[l].writer
      BY <1>4
    <2> QED
      BY <1>1, <2>1 DEF LockedBy
  <1>6. \A l \in Sizes : Holds(pc', size', source', t, l) <=> LockedBy(entry'[l], t)
    <2>1. \A l \in Sizes : Holds(pc, size, source, t, l) <=> (l = size[t] \/ l = source[t])
      BY <1>1, <1>2 DEF Holds
    <2>2. \A l \in Sizes : Holds(pc', size', source', t, l) <=> l = size[t]
      BY <1>1, <1>2 DEF Holds
    <2>3. \A l \in Sizes : Holds(pc, size, source, t, l) <=> LockedBy(entry[l], t)
      BY <1>1 DEF Locks
    <2> QED
      BY <1>1, <1>3, <1>5, <2>1, <2>2, <2>3
  <1>7. \A l \in Sizes :
          /\ entry'[l].readers # {} => entry'[l].writer = Nobody
          /\ entry'[l].readers # {} \/ entry'[l].writer # Nobody => l \in Table'
          /\ entry'[l].demoting =>
               \/ entry[l].demoting /\ ~(t \in Readers /\ size[t] = l /\ Demotes(pc[t]))
               \/ t \in Readers /\ size'[t] = l /\ Demotes(pc'[t])
    <2>1. ~Demotes(pc[t])
      BY <1>2 DEF Demotes
    <2> QED
      BY <1>3, <1>4, <2>1 DEF Locks
  <1> QED
    BY <1>1, <1>5, <1>6, <1>7, LocksKept

\* The lock that is lost is nobody's.
LEMMA LostLocks ==
  ASSUME TypeOK, Locks(pc, size, source, entry, Table), NEW k \in Sizes, ReadLock(Lost, k),
         UNCHANGED <<pc, size, source>>
  PROVE  Locks(pc', size', source', entry', Table')
  <1>1. Lost \notin Threads /\ ReadLocked(Lost, k)
    BY LockFacts, HitIs
  <1>2. \A i \in Sizes : \A u \in Threads :
          LockedBy(entry'[i], u) <=> LockedBy(entry[i], u)
    <2> SUFFICES ASSUME NEW i \in Sizes, NEW u \in Threads
                 PROVE  LockedBy(entry'[i], u) <=> LockedBy(entry[i], u)
      OBVIOUS
    <2>1. /\ entry'[i].readers = IF i = k THEN entry[i].readers \cup {Lost}
                                 ELSE entry[i].readers
          /\ entry'[i].writer = entry[i].writer
      BY <1>1 DEF ReadLocked
    <2> QED
      BY <1>1, <2>1 DEF LockedBy
  <1>3. \A i \in Sizes :
          /\ entry'[i].readers # {} => entry'[i].writer = Nobody
          /\ entry'[i].readers # {} \/ entry'[i].writer # Nobody => i \in Table'
          /\ entry'[i].demoting = entry[i].demoting
    BY <1>1 DEF ReadLocked, Locks
  <1> SUFFICES ASSUME NEW i \in Sizes
               PROVE  /\ \A u \in Threads :
                           Holds(pc, size, source, u, i) <=> LockedBy(entry'[i], u)
                      /\ entry'[i].demoting => \E u \in Readers : size[u] = i /\ Demotes(pc[u])
    BY <1>3 DEF Locks
  <1> QED
    BY <1>2, <1>3 DEF Locks

\* Where a step of the editor leaves it.
LEMMA EditorAt ==
  ASSUME TypeOK, EditorStep
  PROVE  /\ pc[Editor] = "mark" <=> Mark
         /\ pc'[Editor] = "mark" <=> TestGet
         /\ TestGet => pc[Editor] = "test" /\ size' = size
  <1>1. pc \in [Threads -> PcType] /\ Editor \in Threads
    BY DEF TypeOK, PcType, Threads
  <1> USE DEF Goto
  <1>2. ASSUME NextSize PROVE pc'[Editor] \in {"test", "idle"}
    BY <1>1, <1>2 DEF NextSize
  <1>3. CASE Edit
    BY <1>1, <1>3 DEF Edit, TestGet, Mark
  <1>4. CASE TestGet
    BY <1>1, <1>4 DEF TestGet, Mark
  <1>5. CASE TestFail
    BY <1>1, <1>5 DEF TestFail, TestGet, Mark
  <1>6. CASE Mark
    BY <1>1, <1>6 DEF TestGet, Mark
  <1>7. CASE Unlink
    BY <1>2, <1>7 DEF Unlink, TestGet, Mark
  <1>8. CASE RemoveEntry
    BY <1>2, <1>8 DEF RemoveEntry, TestGet, Mark
  <1>9. CASE RemoveNothing
    BY <1>2, <1>9 DEF RemoveNothing, TestGet, Mark
  <1> QED
    BY <1>3, <1>4, <1>5, <1>6, <1>7, <1>8, <1>9 DEF EditorStep

\* The editor locks an entry that nobody uses, unlocks it, or frees one that
\* nobody uses.
LEMMA EditorLocks ==
  ASSUME TypeOK, Locks(pc, size, source, entry, Table), Others(Editor), EditorStep,
         source' = source
  PROVE  Locks(pc', size', source', entry', Table')
  <1> DEFINE k == size[Editor]
  <1>1. /\ Nobody \notin Threads /\ Editor \notin Readers /\ Editor \in Threads
        /\ k \in Sizes
    BY LockFacts, RemovalIs
  <1>2. /\ \A i \in Sizes : Holds(pc, size, source, Editor, i)
                              <=> (pc[Editor] = "mark" /\ i = k)
        /\ \A i \in Sizes : Holds(pc', size', source', Editor, i)
                              <=> (pc'[Editor] = "mark" /\ i = size'[Editor])
    BY <1>1 DEF Holds
  <1>3. \A i \in Sizes : LockedBy(entry[i], Editor) <=> (pc[Editor] = "mark" /\ i = k)
    BY <1>1, <1>2 DEF Locks
  <1>4. /\ pc[Editor] = "mark" <=> Mark
        /\ pc'[Editor] = "mark" <=> TestGet
        /\ TestGet => pc[Editor] = "test" /\ size' = size
    BY EditorAt
  <1>5. \A i \in Sizes :
          /\ entry[i].readers # {} => entry[i].writer = Nobody
          /\ entry[i].readers # {} \/ entry[i].writer # Nobody => i \in Table
    BY DEF Locks
  <1> DEFINE Kept(i) == \A u \in Threads :
                          u # Editor => (LockedBy(entry'[i], u) <=> LockedBy(entry[i], u))
             Own(i) == Holds(pc', size', source', Editor, i) <=> LockedBy(entry'[i], Editor)
             Fine(i) ==
               /\ entry'[i].readers # {} => entry'[i].writer = Nobody
               /\ entry'[i].readers # {} \/ entry'[i].writer # Nobody => i \in Table'
               /\ entry'[i].demoting =>
                    \/ /\ entry[i].demoting
                       /\ ~(Editor \in Readers /\ size[Editor] = i /\ Demotes(pc[Editor]))
                    \/ Editor \in Readers /\ size'[Editor] = i /\ Demotes(pc'[Editor])
  <1>6. ASSUME NEW i \in Sizes, entry'[i] = entry[i], i \in Table => i \in Table',
               pc[Editor] = "mark" => i # k, pc'[Editor] = "mark" => i # size'[Editor]
        PROVE  Kept(i) /\ Own(i) /\ Fine(i)
    BY <1>1, <1>2, <1>3, <1>5, <1>6
  <1>7. CASE TestGet
    <2>1. /\ Table' = Table /\ k \in Table /\ Unlocked(k)
          /\ \A i \in Sizes : i # k => entry'[i] = entry[i]
          /\ entry'[k].readers = entry[k].readers /\ entry'[k].writer = Editor
          /\ entry'[k].demoting = entry[k].demoting
      BY <1>7, RemovalIs
    <2>2. \A i \in Sizes : i # k => Kept(i) /\ Own(i) /\ Fine(i)
      BY <1>4, <1>6, <1>7, <2>1
    <2>3. Kept(k)
      BY <1>1, <2>1 DEF LockedBy, Unlocked
    <2>4. Own(k)
      BY <1>1, <1>2, <1>4, <1>7, <2>1 DEF LockedBy
    <2>5. Fine(k)
      BY <1>1, <2>1 DEF Unlocked
    <2> HIDE DEF k, Kept, Own, Fine
    <2>6. \A i \in Sizes : Kept(i) /\ Own(i) /\ Fine(i)
      BY <2>2, <2>3, <2>4, <2>5
    <2> QED
      BY <1>1, <2>6, LocksKept DEF Kept, Own, Fine
  <1>8. CASE Mark
    <2>1. /\ \A i \in Sizes : i # k => entry'[i] = entry[i]
          /\ entry'[k].readers = entry[k].readers \ {Editor}
          /\ entry'[k].writer = IF entry[k].writer = Editor THEN Nobody
                                ELSE entry[k].writer
          /\ entry'[k].demoting = entry[k].demoting
      BY <1>8, RemovalIs
    <2>2. lru' = lru /\ Table' = Table
      BY <1>8 DEF Mark, Table
    <2>3. pc'[Editor] # "mark"
      BY <1>8, <1>1 DEF Mark, Goto, TypeOK
    <2>4. \A i \in Sizes : i # k => Kept(i) /\ Own(i) /\ Fine(i)
      BY <1>6, <2>1, <2>2, <2>3
    <2>5. Kept(k)
      BY <1>1, <2>1 DEF LockedBy
    <2>6. Own(k)
      BY <1>1, <1>2, <2>1, <2>3 DEF LockedBy
    <2>7. Fine(k)
      BY <1>1, <1>5, <2>1, <2>2
    <2> HIDE DEF k, Kept, Own, Fine
    <2>8. \A i \in Sizes : Kept(i) /\ Own(i) /\ Fine(i)
      BY <2>4, <2>5, <2>6, <2>7
    <2> QED
      BY <1>1, <2>8, LocksKept DEF Kept, Own, Fine
  <1>9. CASE RemoveEntry
    <2>1. /\ Table' = Table \ {k} /\ Freeable(k)
          /\ \A i \in Sizes : entry'[i] = IF i = k THEN Absent ELSE entry[i]
      BY <1>9, RemovalIs
    <2>2. pc[Editor] # "mark" /\ pc'[Editor] # "mark"
      BY <1>4, <1>9 DEF RemoveEntry, TestGet, Mark
    <2>3. \A i \in Sizes : i # k => Kept(i) /\ Own(i) /\ Fine(i)
      BY <1>6, <2>1, <2>2
    <2>4. entry'[k].readers = {} /\ entry'[k].writer = Nobody /\ ~entry'[k].demoting
      BY <1>1, <2>1, FreshParts
    <2>5. Unlocked(k)
      BY <2>1 DEF Freeable
    <2>6. Kept(k) /\ Own(k) /\ Fine(k)
      <3>1. Kept(k)
        BY <1>1, <2>4, <2>5 DEF LockedBy, Unlocked
      <3>2. Own(k)
        BY <1>1, <1>2, <2>2, <2>4 DEF LockedBy
      <3> QED
        BY <2>4, <3>1, <3>2
    <2> HIDE DEF k, Kept, Own, Fine
    <2>7. \A i \in Sizes : Kept(i) /\ Own(i) /\ Fine(i)
      BY <2>3, <2>6
    <2> QED
      BY <1>1, <2>7, LocksKept DEF Kept, Own, Fine
  <1>10. CASE Edit \/ TestFail \/ Unlink \/ RemoveNothing
    <2>1. UNCHANGED <<lru, entry>> /\ Table' = Table
      BY <1>10 DEF Edit, TestFail, Unlink, RemoveNothing, Table
    <2>2. pc[Editor] # "mark" /\ pc'[Editor] # "mark"
      BY <1>4, <1>10 DEF Edit, TestFail, Unlink, RemoveNothing, TestGet, Mark
    <2>3. \A i \in Sizes : Kept(i) /\ Own(i) /\ Fine(i)
      BY <1>6, <2>1, <2>2
    <2> HIDE DEF k, Kept, Own, Fine
    <2> QED
      BY <1>1, <2>3, LocksKept DEF Kept, Own, Fine
  <1> QED
    BY <1>7, <1>8, <1>9, <1>10 DEF EditorStep

\* Every step.
LEMMA LocksStep ==
  ASSUME TypeOK, LocksAreOwned, SourceIsLarger, Next
  PROVE  LocksAreOwned'
  <1>1. Locks(pc, size, source, entry, Table)
    BY LocksIs
  <1>2. ASSUME NEW t \in Readers, Reader(t)
        PROVE  Locks(pc', size', source', entry', Table')
    <2>1. /\ Others(t) /\ pc \in [Threads -> PcType] /\ size \in [Threads -> Sizes]
          /\ t \in Threads /\ size[t] \in Sizes
      BY <1>2, ReaderMoves DEF TypeOK, PcType, Threads
    <2> USE DEF Goto
    <2>2. ASSUME NEW k \in Sizes, Ask(t, k)
          PROVE  Locks(pc', size', source', entry', Table')
      BY <1>1, <2>1, <2>2, GetLocks DEF Ask
    <2>3. ASSUME NEW k \in Sizes, Glance(t, k)
          PROVE  Locks(pc', size', source', entry', Table')
      BY <1>1, <2>1, <2>3, GetLocks DEF Glance, Get
    <2>4. ASSUME NEW k \in Sizes, LoseLock(t, k)
          PROVE  Locks(pc', size', source', entry', Table')
      <3>1. ReadLock(Lost, k) /\ UNCHANGED <<pc, size, source>>
        BY <2>4 DEF LoseLock, GetHit, ReadLock
      <3> QED
        BY <1>1, <3>1, LostLocks
    <2>5. CASE GetAgain(t)
      BY <1>1, <2>1, <2>5, GetLocks DEF GetAgain
    <2>6. CASE FillFromLarger(t)
      BY <1>1, <2>1, <2>6, SourceLocks
    <2>7. CASE EndFill(t)
      BY <1>1, <2>1, <2>7, FilledLocks
    <2>8. CASE SetDemoting(t) \/ DropLock(t) \/ ClearDemoting(t) \/ Release(t)
      BY <1>1, <2>1, <2>8, DemotionLocks
    <2>9. CASE Ready(t) \/ FillFromHistory(t)
      <3>1. /\ UNCHANGED <<lru, entry, size>> /\ Table' = Table
            /\ pc[t] = "got" /\ pc'[t] \in {"fill", "filled"}
            /\ pc'[t] = "fill" => source'[t] = 0
        BY <2>1, <2>9 DEF Ready, FillFromHistory, Table, TypeOK
      <3>2. 0 \notin Sizes /\ Editor \notin Readers
        BY ThumbAssumption DEF Sizes
      <3>3. \A i \in Sizes :
              Holds(pc', size', source', t, i) <=> Holds(pc, size, source, t, i)
        BY <3>1, <3>2 DEF Holds
      <3>4. ~Demotes(pc[t])
        BY <3>1 DEF Demotes
      <3>5. \A i \in Sizes : Holds(pc', size', source', t, i) <=> LockedBy(entry'[i], t)
        BY <1>1, <2>1, <3>1, <3>3 DEF Locks
      <3>6. \A i \in Sizes :
              /\ entry'[i].readers # {} => entry'[i].writer = Nobody
              /\ entry'[i].readers # {} \/ entry'[i].writer # Nobody => i \in Table'
              /\ entry'[i].demoting =>
                   \/ entry[i].demoting /\ ~(t \in Readers /\ size[t] = i /\ Demotes(pc[t]))
                   \/ t \in Readers /\ size'[t] = i /\ Demotes(pc'[t])
        BY <1>1, <3>1, <3>4 DEF Locks
      <3>7. \A i \in Sizes : \A u \in Threads :
              u # t => (LockedBy(entry'[i], u) <=> LockedBy(entry[i], u))
        BY <3>1
      <3> QED
        BY <1>1, <2>1, <3>5, <3>6, <3>7, LocksKept
    <2> QED
      BY <1>2, <2>2, <2>3, <2>4, <2>5, <2>6, <2>7, <2>8, <2>9 DEF Reader
  <1>3. ASSUME EditorStep PROVE Locks(pc', size', source', entry', Table')
    BY <1>1, <1>3, EditorMoves, EditorLocks
  <1> QED
    BY <1>2, <1>3, TypeStep, LocksNext DEF Next

-----------------------------------------------------------------------------
(* What is not in the table, and what is copied from.                      *)

LEMMA GoneStep ==
  ASSUME TypeOK, GoneIsAbsent, LocksAreOwned, Next
  PROVE  GoneIsAbsent'
  <1> DEFINE Goal(i) == i \notin Table' => \/ i \notin Table /\ entry'[i] = entry[i]
                                           \/ entry'[i] = Absent
  <1>1. Locks(pc, size, source, entry, Table)
    BY LocksIs
  <1>2. \A i \in Sizes : \A u \in Threads : Holds(pc, size, source, u, i) => i \in Table
    BY <1>1, LockFacts
  <1>3. ASSUME NEW t \in Readers, Reader(t), NEW i \in Sizes PROVE Goal(i)
    <2>1. size[t] \in Sizes /\ t \in Threads
      BY DEF TypeOK, Threads
    <2>2. ASSUME NEW u \in Readers \cup {Lost}, NEW k \in Sizes, GetHit(u, k) PROVE Goal(i)
      <3>1. ReadLocked(u, k)
        BY <2>2, HitIs DEF GetHit, ReadLock
      <3> QED
        BY <3>1 DEF ReadLocked
    <2>3. ASSUME NEW k \in Sizes, GetMiss(t, k) PROVE Goal(i)
      <3>1. PICK G : Renewed(t, k, G)
        BY <2>3, MissIs
      <3>2. /\ Table' = (Table \ G) \cup {k}
            /\ entry'[i] = IF i = k THEN NewEntry(t, k)
                           ELSE IF i \in G THEN Absent ELSE entry[i]
        BY <3>1 DEF Renewed
      <3> QED
        BY <3>2
    <2>4. CASE \E k \in Sizes : Ask(t, k) \/ Glance(t, k) \/ LoseLock(t, k)
      BY <2>2, <2>3, <2>4 DEF Ask, Glance, LoseLock, Get
    <2>5. CASE GetAgain(t)
      BY <2>1, <2>2, <2>3, <2>5 DEF GetAgain, Get
    <2>6. CASE Ready(t) \/ FillFromHistory(t)
      BY <2>6 DEF Ready, FillFromHistory, Table
    <2>7. CASE FillFromLarger(t)
      <3>1. PICK k \in Larger(size[t]) :
              /\ entry' = [entry EXCEPT ![k].readers = @ \cup {t}]
              /\ lru' = BubbleUp(k)
        BY <2>7 DEF FillFromLarger
      <3>2. k \in Table /\ k \in Sizes /\ Readable(k)
        BY <3>1 DEF Larger, Table, ToSet, TypeOK
      <3>3. ReadLocked(t, k)
        BY <3>1, <3>2, HitIs DEF ReadLock
      <3> QED
        BY <3>3 DEF ReadLocked
    <2>8. CASE EndFill(t)
      <3>1. /\ pc[t] = "fill" /\ Table' = Table
            /\ i # size[t] /\ i # source[t] => entry'[i] = entry[i]
        BY <2>8, EndFillIs DEF EndFill, Ended, Table
      <3>2. i = size[t] \/ i = source[t] => i \in Table
        BY <1>2, <2>1, <3>1 DEF Holds
      <3> QED
        BY <3>1, <3>2
    <2>9. CASE SetDemoting(t) \/ DropLock(t) \/ ClearDemoting(t) \/ Release(t)
      <3>1. /\ pc[t] \in {"filled", "flagged", "back", "using"} /\ Table' = Table
        BY <2>9 DEF SetDemoting, DropLock, ClearDemoting, Release, Table
      <3>2. i # size[t] => entry'[i] = entry[i]
        BY <2>9, DemotionIs
      <3>3. size[t] \in Table
        BY <1>2, <2>1, <3>1 DEF Holds
      <3> QED
        BY <3>1, <3>2, <3>3
    <2> QED
      BY <1>3, <2>4, <2>5, <2>6, <2>7, <2>8, <2>9 DEF Reader
  <1>4. ASSUME EditorStep, NEW i \in Sizes PROVE Goal(i)
    <2>1. CASE Edit \/ TestFail \/ Unlink \/ RemoveNothing
      BY <2>1 DEF Edit, TestFail, Unlink, RemoveNothing, Table
    <2>2. CASE TestGet
      BY <2>2, RemovalIs
    <2>3. CASE Mark
      <3>1. pc[Editor] = "mark" /\ Table' = Table
        BY <2>3 DEF Mark, Table
      <3>2. i # size[Editor] => entry'[i] = entry[i]
        BY <2>3, RemovalIs
      <3>3. size[Editor] \in Table
        <4>1. size[Editor] \in Sizes /\ Editor \in Threads
          BY DEF TypeOK, Threads
        <4> QED
          BY <1>2, <3>1, <4>1 DEF Holds
      <3> QED
        BY <3>1, <3>2, <3>3
    <2>4. CASE RemoveEntry
      <3>1. /\ Table' = Table \ {size[Editor]}
            /\ entry'[i] = IF i = size[Editor] THEN Absent ELSE entry[i]
        BY <2>4, RemovalIs
      <3> QED
        BY <3>1
    <2> QED
      BY <1>4, <2>1, <2>2, <2>3, <2>4 DEF EditorStep
  <1>5. \A i \in Sizes : Goal(i)
    BY <1>3, <1>4 DEF Next
  <1> QED
    BY <1>5 DEF GoneIsAbsent

\* Where a step of a reader leaves it.
LEMMA ReaderAt ==
  ASSUME TypeOK, NEW t \in Readers, Reader(t)
  PROVE  /\ pc'[t] = "fill" => \/ pc[t] = "fill" /\ UNCHANGED <<pc, size, source>>
                               \/ /\ FillFromLarger(t) \/ FillFromHistory(t)
                                  /\ size' = size
         /\ source' = source \/ source'[t] = 0 \/ FillFromLarger(t)
  <1> DEFINE Goal == /\ pc'[t] = "fill" => \/ pc[t] = "fill" /\ UNCHANGED <<pc, size, source>>
                                           \/ /\ FillFromLarger(t) \/ FillFromHistory(t)
                                              /\ size' = size
                     /\ source' = source \/ source'[t] = 0 \/ FillFromLarger(t)
  <1>1. /\ pc \in [Threads -> PcType] /\ t \in Threads
        /\ source \in [Readers -> Sizes \cup {0}]
    BY DEF TypeOK, PcType, Threads
  <1> USE DEF Goto
  <1>2. ASSUME NEW k \in Sizes, Ask(t, k) \/ Glance(t, k) PROVE Goal
    BY <1>1, <1>2 DEF Ask, Glance
  <1>3. ASSUME NEW k \in Sizes, LoseLock(t, k) PROVE Goal
    BY <1>3 DEF LoseLock
  <1>4. CASE Ready(t)
    BY <1>1, <1>4 DEF Ready
  <1>5. CASE FillFromLarger(t)
    BY <1>5 DEF FillFromLarger
  <1>6. CASE FillFromHistory(t)
    BY <1>1, <1>6 DEF FillFromHistory
  <1>7. CASE EndFill(t)
    BY <1>1, <1>7 DEF EndFill
  <1>8. CASE SetDemoting(t)
    BY <1>1, <1>8 DEF SetDemoting
  <1>9. CASE DropLock(t) \/ GetAgain(t)
    BY <1>1, <1>9 DEF DropLock, GetAgain
  <1>10. CASE ClearDemoting(t) \/ Release(t)
    BY <1>1, <1>10 DEF ClearDemoting, Release
  <1> QED
    BY <1>2, <1>3, <1>4, <1>5, <1>6, <1>7, <1>8, <1>9, <1>10 DEF Reader

LEMMA SourceStep ==
  ASSUME TypeOK, SourceIsLarger, Next
  PROVE  SourceIsLarger'
  <1> SUFFICES ASSUME NEW u \in Readers, pc'[u] = "fill", source'[u] # 0
               PROVE  source'[u] > size'[u]
    BY DEF SourceIsLarger
  <1>1. Editor \notin Readers /\ Readers \subseteq Threads
    BY ThumbAssumption DEF Threads
  <1>2. ASSUME NEW t \in Threads, Others(t), u # t PROVE source'[u] > size'[u]
    BY <1>1, <1>2 DEF Others, SourceIsLarger
  <1>3. CASE EditorStep
    BY <1>1, <1>2, <1>3, EditorMoves DEF Threads
  <1>4. CASE Reader(u)
    <2>1. CASE UNCHANGED <<pc, size, source>>
      BY <2>1 DEF SourceIsLarger
    <2>2. CASE FillFromLarger(u)
      <3>1. PICK i \in Larger(size[u]) : source' = [source EXCEPT ![u] = i]
        BY <2>2 DEF FillFromLarger
      <3>2. i > size[u] /\ source'[u] = i
        BY <3>1 DEF Larger, TypeOK
      <3>3. size' = size
        BY <2>2 DEF FillFromLarger
      <3> QED
        BY <3>2, <3>3
    <2>3. CASE FillFromHistory(u)
      <3>1. source'[u] = 0
        BY <2>3 DEF FillFromHistory, TypeOK
      <3> QED
        BY <3>1
    <2> QED
      BY <1>4, <2>1, <2>2, <2>3, ReaderAt
  <1>5. ASSUME NEW t \in Readers, Reader(t), u # t PROVE source'[u] > size'[u]
    BY <1>1, <1>2, <1>5, ReaderMoves
  <1> QED
    BY <1>3, <1>4, <1>5 DEF Next

-----------------------------------------------------------------------------
(* Without overlap: one demotion at a time, and blank entries are written. *)

\* DemotionsApart, reader by reader.
Apart(p, sz, en) ==
  \A u \in Readers : Demotes(p[u]) =>
    /\ en[sz[u]].demoting
    /\ \A v \in Readers : sz[v] = sz[u] /\ Demotes(p[v]) => u = v

\* BlankIsWritten.
Filling(p) == p \in {"got", "fill"}
Shown(p) == p \in {"filled", "flagged", "back", "using"}

Written(p, sz, en, tab) ==
  /\ \A k \in tab :
       en[k].data = Blank =>
         \E u \in Readers : en[k].writer = u /\ sz[u] = k /\ Filling(p[u])
  /\ \A k \in tab : en[k].generate <=> en[k].data = Blank
  /\ \A u \in Readers :
       /\ p[u] = "fill" => en[sz[u]].data = Blank
       /\ Shown(p[u]) => en[sz[u]].data # Blank

\* IInv as long as nobody has overlapped.
Sound ==
  /\ TypeOK /\ GoneIsAbsent /\ SourceIsLarger /\ Locks(pc, size, source, entry, Table)
  /\ Apart(pc, size, entry) /\ Written(pc, size, entry, Table) /\ FilesHavePixels

LEMMA SoundIs ==
  ASSUME IInv, ~overlap
  PROVE  Sound
  <1>1. TypeOK /\ \A u \in Readers : size[u] \in Sizes
    BY DEF IInv, TypeOK, Threads
  <1>2. DemotionsApart /\ BlankIsWritten
    BY DEF IInv
  <1>3. Apart(pc, size, entry)
    BY <1>1, <1>2 DEF DemotionsApart, Demoters, Apart, Demotes
  <1>4. Written(pc, size, entry, Table)
    BY <1>2 DEF BlankIsWritten, Written, Filling, Shown
  <1> QED
    BY <1>3, <1>4, LocksIs DEF IInv, Sound

LEMMA SoundNext ==
  ASSUME Apart(pc', size', entry'), Written(pc', size', entry', Table')
  PROVE  DemotionsApart' /\ BlankIsWritten'
  <1>1. DemotionsApart'
    BY DEF DemotionsApart, Demoters, Apart, Demotes
  <1>2. BlankIsWritten'
    BY DEF BlankIsWritten, Written, Filling, Shown
  <1> QED
    BY <1>1, <1>2

\* What holds of blank entries, of entries that may be freed, and of those that
\* a reader may lock.
LEMMA BlankFacts ==
  ASSUME Sound, NEW k \in Sizes
  PROVE  /\ k \in Table /\ entry[k].writer \notin Readers => entry[k].data # Blank
         /\ k \in Table /\ Unlocked(k) => entry[k].data # Blank
         /\ k \in Table /\ entry[k].data = Blank =>
              \A u \in Threads : LockedBy(entry[k], u) =>
                u \in Readers /\ entry[k].writer = u /\ size[u] = k /\ Filling(pc[u])
         /\ ~entry[k].demoting => \A u \in Readers : size[u] = k => ~Demotes(pc[u])
         /\ k \notin Table => ~entry[k].demoting
  <1>1. /\ TypeOK /\ GoneIsAbsent /\ Locks(pc, size, source, entry, Table)
        /\ Apart(pc, size, entry) /\ Written(pc, size, entry, Table)
    BY DEF Sound
  <1>2. /\ Nobody \notin Threads /\ Readers \subseteq Threads
    BY <1>1, LockFacts
  <1>3. k \in Table /\ entry[k].writer \notin Readers => entry[k].data # Blank
    BY <1>1 DEF Written
  <1>4. k \in Table /\ Unlocked(k) => entry[k].data # Blank
    BY <1>2, <1>3 DEF Unlocked
  <1>5. ASSUME k \in Table, entry[k].data = Blank, NEW u \in Threads, LockedBy(entry[k], u)
        PROVE  u \in Readers /\ entry[k].writer = u /\ size[u] = k /\ Filling(pc[u])
    <2>1. PICK v \in Readers : entry[k].writer = v /\ size[v] = k /\ Filling(pc[v])
      BY <1>1, <1>5 DEF Written
    <2>2. entry[k].readers = {}
      BY <1>1, <1>2, <2>1 DEF Locks
    <2> QED
      BY <1>5, <2>1, <2>2 DEF LockedBy
  <1>6. ~entry[k].demoting => \A u \in Readers : size[u] = k => ~Demotes(pc[u])
    BY <1>1 DEF Apart
  <1>7. k \notin Table => ~entry[k].demoting
    BY <1>1, FreshParts DEF GoneIsAbsent
  <1> QED
    BY <1>3, <1>4, <1>5, <1>6, <1>7

\* A step of one thread that leaves the flags of the others up.
LEMMA ApartKept ==
  ASSUME Apart(pc, size, entry), NEW t \in Threads, Others(t), Readers \subseteq Threads,
         \A u \in Readers : u # t /\ Demotes(pc[u]) =>
           /\ entry'[size[u]].demoting
           /\ ~(t \in Readers /\ size'[t] = size[u] /\ Demotes(pc'[t])),
         t \in Readers /\ Demotes(pc'[t]) => entry'[size'[t]].demoting
  PROVE  Apart(pc', size', entry')
  <1> SUFFICES ASSUME NEW u \in Readers, Demotes(pc'[u])
               PROVE  /\ entry'[size'[u]].demoting
                      /\ \A v \in Readers : size'[v] = size'[u] /\ Demotes(pc'[v]) => u = v
    BY DEF Apart
  <1>1. \A v \in Readers : v # t => pc'[v] = pc[v] /\ size'[v] = size[v]
    BY DEF Others
  <1>2. CASE u = t
    BY <1>1, <1>2
  <1>3. CASE u # t
    <2>1. pc'[u] = pc[u] /\ size'[u] = size[u]
      BY <1>1, <1>3
    <2>2. entry'[size'[u]].demoting
      BY <1>3, <2>1
    <2>3. ASSUME NEW v \in Readers, size'[v] = size'[u], Demotes(pc'[v]) PROVE u = v
      <3>1. CASE v = t
        BY <1>3, <2>1, <2>3, <3>1
      <3>2. CASE v # t
        <4>1. size[v] = size[u] /\ Demotes(pc[v])
          BY <1>1, <2>1, <2>3, <3>2
        <4> QED
          BY <2>1, <4>1 DEF Apart
      <3> QED
        BY <3>1, <3>2
    <2> QED
      BY <2>2, <2>3
  <1> QED
    BY <1>2, <1>3

\* A step of one thread that fills only what it writes.
LEMMA WrittenKept ==
  ASSUME Written(pc, size, entry, Table), NEW t \in Threads, Others(t),
         Readers \subseteq Threads,
         \A k \in Table' : entry'[k].data = Blank =>
           \/ /\ k \in Table /\ entry[k].data = Blank /\ entry'[k].writer = entry[k].writer
              /\ entry[k].writer # t
           \/ t \in Readers /\ entry'[k].writer = t /\ size'[t] = k /\ Filling(pc'[t]),
         \A k \in Table' : entry'[k].generate <=> entry'[k].data = Blank,
         t \in Readers =>
           /\ pc'[t] = "fill" => entry'[size'[t]].data = Blank
           /\ Shown(pc'[t]) => entry'[size'[t]].data # Blank,
         \A u \in Readers : u # t /\ (pc[u] = "fill" \/ Shown(pc[u])) =>
           (entry'[size[u]].data = Blank <=> entry[size[u]].data = Blank)
  PROVE  Written(pc', size', entry', Table')
  <1>1. \A v \in Readers : v # t => pc'[v] = pc[v] /\ size'[v] = size[v]
    BY DEF Others
  <1>2. ASSUME NEW k \in Table', entry'[k].data = Blank
        PROVE  \E u \in Readers : entry'[k].writer = u /\ size'[u] = k /\ Filling(pc'[u])
    <2>1. CASE /\ k \in Table /\ entry[k].data = Blank /\ entry'[k].writer = entry[k].writer
               /\ entry[k].writer # t
      <3>1. PICK u \in Readers : entry[k].writer = u /\ size[u] = k /\ Filling(pc[u])
        BY <2>1 DEF Written
      <3> QED
        BY <1>1, <2>1, <3>1
    <2>2. CASE t \in Readers /\ entry'[k].writer = t /\ size'[t] = k /\ Filling(pc'[t])
      BY <2>2
    <2> QED
      BY <1>2, <2>1, <2>2
  <1>3. ASSUME NEW u \in Readers
        PROVE  /\ pc'[u] = "fill" => entry'[size'[u]].data = Blank
               /\ Shown(pc'[u]) => entry'[size'[u]].data # Blank
    <2>1. CASE u = t
      BY <2>1
    <2>2. CASE u # t
      <3>1. pc'[u] = pc[u] /\ size'[u] = size[u]
        BY <1>1, <2>2
      <3>2. /\ pc[u] = "fill" => entry[size[u]].data = Blank
            /\ Shown(pc[u]) => entry[size[u]].data # Blank
        BY DEF Written
      <3> QED
        BY <2>2, <3>1, <3>2
    <2> QED
      BY <2>1, <2>2
  <1> QED
    BY <1>2, <1>3 DEF Written

SoundAfter ==
  Apart(pc', size', entry') /\ Written(pc', size', entry', Table') /\ FilesHavePixels'

\* A reader that generates, demotes or uses an entry has it locked.
LEMMA WorkersHold ==
  ASSUME Sound, NEW u \in Readers, pc[u] = "fill" \/ Shown(pc[u]) \/ pc[u] = "got"
  PROVE  LockedBy(entry[size[u]], u) /\ size[u] \in Table /\ size[u] \in Sizes
  <1>1. u \in Threads /\ size[u] \in Sizes
    BY DEF Sound, TypeOK, Threads
  <1>2. Holds(pc, size, source, u, size[u])
    BY DEF Holds, Shown
  <1> QED
    BY <1>1, <1>2, LockFacts DEF Sound, Locks

\* A read lock, by a reader that had none.
LEMMA HitSound ==
  ASSUME Sound, NEW t \in Readers, NEW k \in Sizes, GetHit(t, k), Others(t), size'[t] = k,
         pc[t] \in {"idle", "gap"}, pc'[t] \in {"got", "using", "back"},
         pc'[t] = "back" => pc[t] = "gap" /\ size[t] = k
  PROVE  SoundAfter
  <1>1. /\ TypeOK /\ Apart(pc, size, entry) /\ Written(pc, size, entry, Table)
        /\ FilesHavePixels /\ Readers \subseteq Threads /\ Nobody \notin Threads
    BY LockFacts DEF Sound
  <1>2. ReadLocked(t, k)
    BY <1>1, HitIs DEF GetHit, ReadLock
  <1>3. /\ k \in Table /\ Table' = Table /\ entry[k].writer = Nobody
        /\ \A i \in Sizes :
             /\ entry'[i].writer = entry[i].writer
             /\ entry'[i].demoting = entry[i].demoting
             /\ entry'[i].generate = entry[i].generate
             /\ entry'[i].data = entry[i].data
    BY <1>2 DEF ReadLocked
  <1>4. /\ \A u \in Readers : size[u] \in Sizes
        /\ \A i \in Table : i \in Sizes
    BY <1>1 DEF TypeOK, Threads, Table, ToSet
  <1>5. Apart(pc', size', entry')
    <2>1. ASSUME NEW u \in Readers, u # t, Demotes(pc[u])
          PROVE  /\ entry'[size[u]].demoting
                 /\ ~(t \in Readers /\ size'[t] = size[u] /\ Demotes(pc'[t]))
      <3>1. entry'[size[u]].demoting
        BY <1>1, <1>3, <1>4, <2>1 DEF Apart
      <3>2. ASSUME size'[t] = size[u], Demotes(pc'[t]) PROVE FALSE
        <4>1. pc[t] = "gap" /\ size[t] = size[u]
          BY <3>2 DEF Demotes
        <4>2. Demotes(pc[t])
          BY <4>1 DEF Demotes
        <4> QED
          BY <1>1, <2>1, <4>1, <4>2 DEF Apart
      <3> QED
        BY <3>1, <3>2
    <2>2. ASSUME Demotes(pc'[t]) PROVE entry'[size'[t]].demoting
      <3>1. pc[t] = "gap" /\ size[t] = k
        BY <2>2 DEF Demotes
      <3>2. Demotes(pc[t])
        BY <3>1 DEF Demotes
      <3> QED
        BY <1>1, <1>3, <3>1, <3>2 DEF Apart
    <2> QED
      BY <1>1, <2>1, <2>2, ApartKept
  <1>6. Written(pc', size', entry', Table')
    <2>1. \A i \in Table' : entry'[i].data = Blank =>
            /\ i \in Table /\ entry[i].data = Blank /\ entry'[i].writer = entry[i].writer
            /\ entry[i].writer # t
      <3> SUFFICES ASSUME NEW i \in Table, entry'[i].data = Blank
                   PROVE  /\ entry[i].data = Blank /\ entry'[i].writer = entry[i].writer
                          /\ entry[i].writer # t
        BY <1>3
      <3>1. entry[i].data = Blank /\ entry'[i].writer = entry[i].writer /\ i \in Sizes
        BY <1>3, <1>4
      <3>2. entry[i].writer # t
        BY <1>1, <3>1, BlankFacts DEF LockedBy, Filling
      <3> QED
        BY <3>1, <3>2
    <2>2. \A i \in Table' : entry'[i].generate <=> entry'[i].data = Blank
      BY <1>1, <1>3, <1>4 DEF Written
    <2>3. entry[k].data # Blank
      BY <1>1, <1>3, BlankFacts
    <2>4. /\ pc'[t] = "fill" => entry'[size'[t]].data = Blank
          /\ Shown(pc'[t]) => entry'[size'[t]].data # Blank
      BY <1>3, <2>3
    <2>5. \A u \in Readers : u # t /\ (pc[u] = "fill" \/ Shown(pc[u])) =>
            (entry'[size[u]].data = Blank <=> entry[size[u]].data = Blank)
      BY <1>3, <1>4
    <2> QED
      BY <1>1, <2>1, <2>2, <2>4, <2>5, WrittenKept
  <1>7. FilesHavePixels'
    BY <1>1 DEF GetHit, FilesHavePixels
  <1> QED
    BY <1>5, <1>6, <1>7 DEF SoundAfter

\* A file that an unlocked entry leaves has pixels.
LEMMA FreedHasPixels ==
  ASSUME Sound, NEW k \in Sizes, k \in Table, Freeable(k)
  PROVE  DiskAfter(k) # Blank
  <1>1. entry[k].data # Blank /\ disk[k] # Blank
    BY BlankFacts DEF Freeable, Sound, FilesHavePixels
  <1> QED
    BY <1>1, ThumbAssumption DEF DiskAfter, NoFile, Blank

\* A new entry.
LEMMA MissSound ==
  ASSUME Sound, NEW t \in Readers, NEW k \in Sizes, GetMiss(t, k), Others(t), size'[t] = k,
         pc[t] = "idle", pc'[t] = "got"
  PROVE  SoundAfter
  <1>1. /\ TypeOK /\ Apart(pc, size, entry) /\ Written(pc, size, entry, Table)
        /\ FilesHavePixels /\ Readers \subseteq Threads /\ Nobody \notin Threads
        /\ Locks(pc, size, source, entry, Table)
    BY LockFacts DEF Sound
  <1>2. PICK G : Renewed(t, k, G)
    BY <1>1, MissIs
  <1>3. /\ k \notin Table /\ G \subseteq Table
        /\ \A i \in G : i \in Sizes /\ Freeable(i)
        /\ Table' = (Table \ G) \cup {k}
        /\ \A i \in Sizes :
             /\ entry'[i] = IF i = k THEN NewEntry(t, k)
                            ELSE IF i \in G THEN Absent ELSE entry[i]
             /\ disk'[i] = IF i \in G THEN DiskAfter(i) ELSE disk[i]
    BY <1>2 DEF Renewed
  <1>4. /\ \A u \in Readers : size[u] \in Sizes
        /\ \A i \in Table : i \in Sizes
    BY <1>1 DEF TypeOK, Threads, Table, ToSet
  <1>5. ~Demotes(pc'[t])
    BY DEF Demotes
  <1>6. Apart(pc', size', entry')
    <2>1. ASSUME NEW u \in Readers, u # t, Demotes(pc[u])
          PROVE  entry'[size[u]].demoting
      <3>1. entry[size[u]].demoting /\ size[u] \in Sizes
        BY <1>1, <1>4, <2>1 DEF Apart
      <3>2. size[u] # k
        BY <1>3, <3>1, BlankFacts
      <3>3. size[u] \notin G
        BY <1>3, <3>1 DEF Freeable
      <3> QED
        BY <1>3, <3>1, <3>2, <3>3
    <2> QED
      BY <1>1, <1>5, <2>1, ApartKept
  <1>7. /\ entry'[k].writer = t
        /\ entry'[k].generate <=> entry'[k].data = Blank
    <2>1. /\ entry'[k].writer = t /\ entry'[k].generate = (disk[k] = NoFile)
          /\ entry'[k].data = IF disk[k] = NoFile THEN Blank ELSE disk[k]
      BY <1>3, FreshParts
    <2>2. disk[k] # Blank
      BY <1>1 DEF FilesHavePixels
    <2> QED
      BY <2>1, <2>2
  <1>8. \A i \in Table' : i # k => i \in Table /\ entry'[i] = entry[i]
    BY <1>3, <1>4
  <1>9. Written(pc', size', entry', Table')
    <2>1. \A i \in Table' : entry'[i].data = Blank =>
            \/ /\ i \in Table /\ entry[i].data = Blank /\ entry'[i].writer = entry[i].writer
               /\ entry[i].writer # t
            \/ t \in Readers /\ entry'[i].writer = t /\ size'[t] = i /\ Filling(pc'[t])
      <3> SUFFICES ASSUME NEW i \in Table', entry'[i].data = Blank
                   PROVE  \/ /\ i \in Table /\ entry[i].data = Blank
                             /\ entry'[i].writer = entry[i].writer /\ entry[i].writer # t
                          \/ /\ t \in Readers /\ entry'[i].writer = t /\ size'[t] = i
                             /\ Filling(pc'[t])
        OBVIOUS
      <3>1. CASE i = k
        BY <1>7, <3>1 DEF Filling
      <3>2. CASE i # k
        <4>1. i \in Table /\ entry'[i] = entry[i] /\ i \in Sizes
          BY <1>4, <1>8, <3>2
        <4>2. entry[i].writer # t
          BY <1>1, <4>1, BlankFacts DEF LockedBy, Filling
        <4> QED
          BY <4>1, <4>2
      <3> QED
        BY <3>1, <3>2
    <2>2. \A i \in Table' : entry'[i].generate <=> entry'[i].data = Blank
      BY <1>1, <1>7, <1>8 DEF Written
    <2>3. \A u \in Readers : u # t /\ (pc[u] = "fill" \/ Shown(pc[u])) =>
            (entry'[size[u]].data = Blank <=> entry[size[u]].data = Blank)
      <3> SUFFICES ASSUME NEW u \in Readers, pc[u] = "fill" \/ Shown(pc[u])
                   PROVE  entry'[size[u]].data = Blank <=> entry[size[u]].data = Blank
        OBVIOUS
      <3>1. LockedBy(entry[size[u]], u) /\ size[u] \in Table /\ size[u] \in Sizes
        BY WorkersHold
      <3>2. ~Unlocked(size[u])
        BY <1>1, <3>1, LockFacts
      <3>3. size[u] # k /\ size[u] \notin G
        BY <1>3, <3>1, <3>2 DEF Freeable
      <3> QED
        BY <1>3, <3>1, <3>3
    <2> QED
      BY <1>1, <2>1, <2>2, <2>3, WrittenKept DEF Shown
  <1>10. FilesHavePixels'
    <2>1. \A i \in Sizes : disk'[i] # Blank
      BY <1>1, <1>3, FreedHasPixels DEF FilesHavePixels
    <2> QED
      BY <2>1 DEF FilesHavePixels
  <1> QED
    BY <1>6, <1>9, <1>10 DEF SoundAfter

\* The buffer is there, or its generation begins.
LEMMA BeginSound ==
  ASSUME Sound, NEW t \in Readers, Others(t),
         Ready(t) \/ FillFromLarger(t) \/ FillFromHistory(t)
  PROVE  SoundAfter
  <1>1. /\ TypeOK /\ Apart(pc, size, entry) /\ Written(pc, size, entry, Table)
        /\ FilesHavePixels /\ Readers \subseteq Threads /\ t \in Threads
        /\ pc \in [Threads -> PcType]
    BY LockFacts DEF Sound, TypeOK, Threads, PcType
  <1>2. /\ pc[t] = "got" /\ size' = size /\ disk' = disk
        /\ Ready(t) => pc'[t] = "filled" /\ ~entry[size[t]].generate
        /\ FillFromLarger(t) \/ FillFromHistory(t) =>
             pc'[t] = "fill" /\ entry[size[t]].generate
    <2>1. CASE Ready(t)
      BY <1>1, <2>1 DEF Ready, FillFromLarger, FillFromHistory, Goto
    <2>2. CASE FillFromLarger(t)
      BY <1>1, <2>2 DEF Ready, FillFromLarger, FillFromHistory, Goto
    <2>3. CASE FillFromHistory(t)
      BY <1>1, <2>3 DEF Ready, FillFromLarger, FillFromHistory, Goto
    <2> QED
      BY <2>1, <2>2, <2>3
  <1>3. /\ Table' = Table
        /\ \A i \in Sizes :
             /\ entry'[i].writer = entry[i].writer
             /\ entry'[i].demoting = entry[i].demoting
             /\ entry'[i].generate = entry[i].generate
             /\ entry'[i].data = entry[i].data
    <2>1. CASE Ready(t) \/ FillFromHistory(t)
      BY <2>1 DEF Ready, FillFromHistory, Table
    <2>2. CASE FillFromLarger(t)
      <3>1. PICK k \in Larger(size[t]) :
              /\ entry' = [entry EXCEPT ![k].readers = @ \cup {t}]
              /\ lru' = BubbleUp(k)
        BY <2>2 DEF FillFromLarger
      <3>2. k \in Table /\ k \in Sizes /\ Readable(k)
        BY <1>1, <3>1 DEF Larger, Table, ToSet, TypeOK
      <3>3. ReadLocked(t, k)
        BY <1>1, <3>1, <3>2, HitIs DEF ReadLock
      <3> QED
        BY <3>3 DEF ReadLocked
    <2> QED
      BY <2>1, <2>2
  <1>4. /\ \A u \in Readers : size[u] \in Sizes
        /\ \A i \in Table : i \in Sizes
    BY <1>1 DEF TypeOK, Threads, Table, ToSet
  <1>5. pc'[t] \in {"fill", "filled"} /\ ~Demotes(pc'[t])
    BY <1>2 DEF Demotes
  <1>6. Apart(pc', size', entry')
    <2>1. \A u \in Readers : Demotes(pc[u]) => entry'[size[u]].demoting
      BY <1>1, <1>3, <1>4 DEF Apart
    <2> QED
      BY <1>1, <1>5, <2>1, ApartKept
  <1>7. size[t] \in Table /\ (entry[size[t]].generate <=> entry[size[t]].data = Blank)
    BY <1>1, <1>2, WorkersHold DEF Written
  <1>8. /\ pc'[t] = "fill" => entry'[size'[t]].data = Blank
        /\ Shown(pc'[t]) => entry'[size'[t]].data # Blank
    <2>1. size'[t] = size[t] /\ entry'[size[t]].data = entry[size[t]].data
      BY <1>2, <1>3, <1>4
    <2>2. CASE Ready(t)
      BY <1>2, <1>7, <2>1, <2>2
    <2>3. CASE FillFromLarger(t) \/ FillFromHistory(t)
      BY <1>2, <1>7, <2>1, <2>3 DEF Shown
    <2> QED
      BY <2>2, <2>3
  <1>9. \A i \in Table' : entry'[i].data = Blank =>
          \/ /\ i \in Table /\ entry[i].data = Blank /\ entry'[i].writer = entry[i].writer
             /\ entry[i].writer # t
          \/ t \in Readers /\ entry'[i].writer = t /\ size'[t] = i /\ Filling(pc'[t])
    <2> SUFFICES ASSUME NEW i \in Table, entry'[i].data = Blank, entry[i].writer = t
                 PROVE  size'[t] = i /\ Filling(pc'[t])
      BY <1>3, <1>4
    <2>1. i \in Sizes /\ entry[i].data = Blank
      BY <1>3, <1>4
    <2>2. size[t] = i
      BY <1>1, <2>1, BlankFacts DEF LockedBy
    <2>3. pc'[t] = "fill"
      BY <1>2, <1>7, <2>1, <2>2
    <2> QED
      BY <1>2, <2>2, <2>3 DEF Filling
  <1>10. \A i \in Table' : entry'[i].generate <=> entry'[i].data = Blank
    BY <1>1, <1>3, <1>4 DEF Written
  <1>11. \A u \in Readers : u # t /\ (pc[u] = "fill" \/ Shown(pc[u])) =>
            (entry'[size[u]].data = Blank <=> entry[size[u]].data = Blank)
    BY <1>3, <1>4
  <1>12. Written(pc', size', entry', Table')
    BY <1>1, <1>8, <1>9, <1>10, <1>11, WrittenKept
  <1> QED
    BY <1>1, <1>2, <1>6, <1>12 DEF SoundAfter, FilesHavePixels

\* The thread that generates writes its entry alone, and copies from one that
\* has pixels.
LEMMA FillerFacts ==
  ASSUME Sound, NEW t \in Readers, pc[t] = "fill"
  PROVE  /\ entry[size[t]].writer = t /\ entry[size[t]].readers = {}
         /\ source[t] # 0 => /\ source[t] \in Sizes /\ source[t] # size[t]
                             /\ source[t] \in Table
                             /\ entry[source[t]].data # Blank
  <1>1. /\ TypeOK /\ Written(pc, size, entry, Table) /\ t \in Threads
        /\ Readers \subseteq Threads /\ Nobody \notin Threads
        /\ Locks(pc, size, source, entry, Table)
    <2>1. TypeOK /\ t \in Threads /\ size[t] \in Sizes
      BY DEF Sound, TypeOK, Threads
    <2> QED
      BY <2>1, LockFacts DEF Sound
  <1>2. LockedBy(entry[size[t]], t) /\ size[t] \in Table /\ size[t] \in Sizes
    BY WorkersHold
  <1>3. entry[size[t]].data = Blank
    BY <1>1 DEF Written
  <1>4. entry[size[t]].writer = t
    BY <1>1, <1>2, <1>3, BlankFacts
  <1>5. entry[size[t]].readers = {}
    BY <1>1, <1>2, <1>4 DEF Locks
  <1>6. ASSUME source[t] # 0
        PROVE  /\ source[t] \in Sizes /\ source[t] # size[t] /\ source[t] \in Table
               /\ entry[source[t]].data # Blank
    <2>1. source[t] \in Sizes /\ size[t] \in Int /\ source[t] \in Int
      BY <1>1, <1>2, <1>6 DEF TypeOK, Sizes
    <2>2. source[t] > size[t]
      BY <1>6 DEF Sound, SourceIsLarger
    <2>3. source[t] # size[t]
      BY <2>1, <2>2
    <2>4. Holds(pc, size, source, t, source[t])
      BY DEF Holds
    <2>5. source[t] \in Table /\ LockedBy(entry[source[t]], t)
      BY <1>1, <2>1, <2>4, LockFacts DEF Locks
    <2> QED
      BY <1>1, <2>1, <2>3, <2>5, BlankFacts
  <1> QED
    BY <1>4, <1>5, <1>6

LEMMA EndSound ==
  ASSUME Sound, NEW t \in Readers, Others(t), EndFill(t)
  PROVE  SoundAfter
  <1>1. /\ TypeOK /\ Apart(pc, size, entry) /\ Written(pc, size, entry, Table)
        /\ FilesHavePixels /\ Readers \subseteq Threads /\ t \in Threads
        /\ Nobody \notin Threads
        /\ pc \in [Threads -> PcType]
    BY LockFacts DEF Sound, TypeOK, Threads, PcType
  <1>2. /\ pc[t] = "fill" /\ pc'[t] = "filled" /\ size' = size /\ disk' = disk
        /\ Table' = Table
    BY <1>1 DEF EndFill, Goto, Table
  <1>3. /\ entry[size[t]].writer = t /\ entry[size[t]].readers = {}
        /\ source[t] # 0 => /\ source[t] \in Sizes /\ source[t] # size[t]
                            /\ source[t] \in Table
                            /\ entry[source[t]].data # Blank
    BY <1>2, FillerFacts
  <1>4. PICK result \in Contents : Ended(t, result)
    BY <1>1, EndFillIs
  <1> USE DEF Ended
  <1>5. result # Blank
    BY <1>3, <1>4
  <1>6. /\ \A u \in Readers : size[u] \in Sizes
        /\ \A i \in Table : i \in Sizes
    BY <1>1 DEF TypeOK, Threads, Table, ToSet
  <1>7. Apart(pc', size', entry')
    <2>1. \A u \in Readers : Demotes(pc[u]) => entry'[size[u]].demoting
      BY <1>1, <1>4, <1>6 DEF Apart
    <2>2. ~Demotes(pc'[t])
      BY <1>2 DEF Demotes
    <2> QED
      BY <1>1, <2>1, <2>2, ApartKept
  <1>8. \A i \in Table' : entry'[i].data = Blank =>
          /\ i \in Table /\ entry[i].data = Blank /\ entry'[i].writer = entry[i].writer
          /\ entry[i].writer # t
    <2> SUFFICES ASSUME NEW i \in Table, entry'[i].data = Blank
                 PROVE  /\ entry[i].data = Blank /\ entry'[i].writer = entry[i].writer
                        /\ entry[i].writer # t
      BY <1>2
    <2>1. i \in Sizes /\ i # size[t] /\ entry[i].data = Blank
      BY <1>4, <1>5, <1>6
    <2>2. entry[i].writer # t
      BY <1>1, <2>1, BlankFacts DEF LockedBy
    <2> QED
      BY <1>4, <2>1, <2>2
  <1>9. \A i \in Table' : entry'[i].generate <=> entry'[i].data = Blank
    <2> SUFFICES ASSUME NEW i \in Table
                 PROVE  entry'[i].generate <=> entry'[i].data = Blank
      BY <1>2
    <2>1. i \in Sizes /\ (entry[i].generate <=> entry[i].data = Blank)
      BY <1>1, <1>6 DEF Written
    <2>2. /\ entry'[i].generate = (i # size[t] /\ entry[i].generate)
          /\ entry'[i].data = IF i = size[t] THEN result ELSE entry[i].data
      BY <1>4, <2>1
    <2>3. CASE i = size[t]
      BY <1>5, <2>2, <2>3
    <2>4. CASE i # size[t]
      BY <2>1, <2>2, <2>4
    <2> QED
      BY <2>3, <2>4
  <1>10. /\ pc'[t] = "fill" => entry'[size'[t]].data = Blank
         /\ Shown(pc'[t]) => entry'[size'[t]].data # Blank
    BY <1>2, <1>4, <1>5
  <1>11. \A u \in Readers : u # t /\ (pc[u] = "fill" \/ Shown(pc[u])) =>
            (entry'[size[u]].data = Blank <=> entry[size[u]].data = Blank)
    <2> SUFFICES ASSUME NEW u \in Readers, u # t, pc[u] = "fill" \/ Shown(pc[u])
                 PROVE  entry'[size[u]].data = entry[size[u]].data
      OBVIOUS
    <2>1. LockedBy(entry[size[u]], u) /\ size[u] \in Sizes
      BY WorkersHold
    <2>2. size[u] # size[t]
      BY <1>3, <2>1 DEF LockedBy
    <2> QED
      BY <1>4, <2>1, <2>2
  <1>12. Written(pc', size', entry', Table')
    BY <1>1, <1>8, <1>9, <1>10, <1>11, WrittenKept
  <1> QED
    BY <1>1, <1>2, <1>7, <1>12 DEF SoundAfter, FilesHavePixels

\* The demotion, as long as it does not overlap, and the release.
LEMMA DemotionSound ==
  ASSUME Sound, NEW t \in Readers, Others(t), ~overlap',
         SetDemoting(t) \/ DropLock(t) \/ ClearDemoting(t) \/ Release(t)
  PROVE  SoundAfter
  <1> DEFINE k == size[t]
  <1>1. /\ TypeOK /\ Apart(pc, size, entry) /\ Written(pc, size, entry, Table)
        /\ FilesHavePixels /\ Readers \subseteq Threads /\ t \in Threads
        /\ pc \in [Threads -> PcType] /\ k \in Sizes
    BY LockFacts DEF Sound, TypeOK, Threads, PcType
  <1>2. /\ size' = size /\ disk' = disk /\ Table' = Table
        /\ SetDemoting(t) => /\ pc[t] = "filled" /\ pc'[t] = "flagged"
                             /\ ~entry[k].demoting
        /\ DropLock(t) => pc[t] = "flagged" /\ pc'[t] = "gap"
        /\ ClearDemoting(t) => pc[t] = "back" /\ pc'[t] = "using"
        /\ Release(t) => pc[t] = "using" /\ pc'[t] = "idle"
    <2>2. CASE SetDemoting(t)
      BY <1>1, <2>2 DEF SetDemoting, DropLock, ClearDemoting, Release, Goto, Table
    <2>3. CASE DropLock(t)
      BY <1>1, <2>3 DEF SetDemoting, DropLock, ClearDemoting, Release, Goto, Table
    <2>4. CASE ClearDemoting(t)
      BY <1>1, <2>4 DEF SetDemoting, DropLock, ClearDemoting, Release, Goto, Table
    <2>5. CASE Release(t)
      BY <1>1, <2>5 DEF SetDemoting, DropLock, ClearDemoting, Release, Goto, Table
    <2> QED
      BY <2>2, <2>3, <2>4, <2>5
  <1>3. /\ \A i \in Sizes : i # k => entry'[i] = entry[i]
        /\ entry'[k].generate = entry[k].generate
        /\ \/ entry'[k].data = entry[k].data
           \/ entry[k].data = Empty /\ entry'[k].data = Static
        /\ SetDemoting(t) \/ DropLock(t) \/ Release(t) =>
             (entry[k].demoting => entry'[k].demoting)
        /\ SetDemoting(t) => entry'[k].demoting
    BY <1>1, DemotionIs
  <1>4. entry'[k].data = Blank <=> entry[k].data = Blank
    BY <1>3 DEF Empty, Static, Blank
  <1>5. Shown(pc[t]) /\ entry[k].data # Blank
    <2>1. Shown(pc[t])
      BY <1>2 DEF Shown
    <2> QED
      BY <1>1, <2>1 DEF Written
  <1>6. /\ \A u \in Readers : size[u] \in Sizes
        /\ \A i \in Table : i \in Sizes
    BY <1>1 DEF TypeOK, Threads, Table, ToSet
  <1> HIDE DEF k
  <1>7. Apart(pc', size', entry')
    <2>1. ASSUME NEW u \in Readers, u # t, Demotes(pc[u])
          PROVE  /\ entry'[size[u]].demoting
                 /\ ~(t \in Readers /\ size'[t] = size[u] /\ Demotes(pc'[t]))
      <3>1. entry[size[u]].demoting /\ size[u] \in Sizes
        BY <1>1, <1>6, <2>1 DEF Apart
      <3>2. CASE size[u] # k
        BY <1>2, <1>3, <3>1, <3>2 DEF k
      <3>3. CASE size[u] = k /\ SetDemoting(t)
        BY <1>2, <3>1, <3>3
      <3>4. CASE size[u] = k /\ (DropLock(t) \/ ClearDemoting(t))
        <4>1. Demotes(pc[t]) /\ size[t] = k
          BY <1>2, <3>4 DEF Demotes, k
        <4> QED
          BY <1>1, <2>1, <3>4, <4>1 DEF Apart
      <3>5. CASE size[u] = k /\ Release(t)
        <4>1. ~Demotes(pc'[t])
          BY <1>2, <3>5 DEF Demotes
        <4> QED
          BY <1>3, <3>1, <3>5, <4>1
      <3> QED
        BY <3>2, <3>3, <3>4, <3>5
    <2>2. ASSUME Demotes(pc'[t]) PROVE entry'[size'[t]].demoting
      <3>1. SetDemoting(t) \/ DropLock(t)
        BY <1>2, <2>2 DEF Demotes
      <3>2. CASE SetDemoting(t)
        BY <1>2, <1>3, <3>2 DEF k
      <3>3. CASE DropLock(t)
        <4>1. Demotes(pc[t])
          BY <1>2, <3>3 DEF Demotes
        <4>2. entry[k].demoting
          BY <1>1, <4>1 DEF Apart, k
        <4> QED
          BY <1>2, <1>3, <3>3, <4>2 DEF k
      <3> QED
        BY <3>1, <3>2, <3>3
    <2> QED
      BY <1>1, <2>1, <2>2, ApartKept
  <1>8. \A i \in Table' : entry'[i].data = Blank =>
          /\ i \in Table /\ entry[i].data = Blank /\ entry'[i].writer = entry[i].writer
          /\ entry[i].writer # t
    <2> SUFFICES ASSUME NEW i \in Table, entry'[i].data = Blank
                 PROVE  /\ entry[i].data = Blank /\ entry'[i].writer = entry[i].writer
                        /\ entry[i].writer # t
      BY <1>2
    <2>1. i \in Sizes /\ i # k /\ entry'[i] = entry[i]
      BY <1>3, <1>4, <1>5, <1>6
    <2>2. entry[i].writer # t
      BY <1>1, <2>1, BlankFacts DEF LockedBy, k
    <2> QED
      BY <2>1, <2>2
  <1>9. \A i \in Table' : entry'[i].generate <=> entry'[i].data = Blank
    <2> SUFFICES ASSUME NEW i \in Table
                 PROVE  entry'[i].generate <=> entry'[i].data = Blank
      BY <1>2
    <2>1. i \in Sizes /\ (entry[i].generate <=> entry[i].data = Blank)
      BY <1>1, <1>6 DEF Written
    <2>2. CASE i = k
      BY <1>3, <1>4, <2>1, <2>2
    <2>3. CASE i # k
      BY <1>3, <2>1, <2>3
    <2> QED
      BY <2>2, <2>3
  <1>10. /\ pc'[t] = "fill" => entry'[size'[t]].data = Blank
         /\ Shown(pc'[t]) => entry'[size'[t]].data # Blank
    <2>1. pc'[t] # "fill" /\ size'[t] = k
      BY <1>2 DEF k
    <2> QED
      BY <1>4, <1>5, <2>1
  <1>11. \A u \in Readers : u # t /\ (pc[u] = "fill" \/ Shown(pc[u])) =>
            (entry'[size[u]].data = Blank <=> entry[size[u]].data = Blank)
    BY <1>3, <1>4, <1>6
  <1>12. Written(pc', size', entry', Table')
    BY <1>1, <1>8, <1>9, <1>10, <1>11, WrittenKept
  <1> QED
    BY <1>1, <1>2, <1>7, <1>12 DEF SoundAfter, FilesHavePixels

LEMMA EditorSound ==
  ASSUME Sound, Others(Editor), EditorStep
  PROVE  SoundAfter
  <1> DEFINE k == size[Editor]
  <1>1. /\ TypeOK /\ Apart(pc, size, entry) /\ Written(pc, size, entry, Table)
        /\ FilesHavePixels /\ Readers \subseteq Threads /\ Editor \in Threads
        /\ Editor \notin Readers /\ Nobody \notin Threads
        /\ k \in Sizes /\ Locks(pc, size, source, entry, Table)
    <2>1. TypeOK /\ Editor \in Threads /\ k \in Sizes
      BY DEF Sound, TypeOK, Threads
    <2> QED
      BY <2>1, LockFacts DEF Sound
  <1>2. /\ \A u \in Readers : size[u] \in Sizes
        /\ \A i \in Table : i \in Sizes
    BY <1>1 DEF TypeOK, Threads, Table, ToSet
  <1>3. ASSUME NEW u \in Readers, Demotes(pc[u])
        PROVE  entry[size[u]].demoting
    BY <1>1, <1>3 DEF Apart
  <1>4. ASSUME NEW i \in Table, entry[i].data = Blank
        PROVE  i \in Sizes /\ entry[i].writer # Editor
    BY <1>1, <1>2, <1>4, BlankFacts DEF LockedBy
  <1>5. CASE TestGet \/ Mark
    <2>1. /\ Table' = Table
          /\ \A i \in Sizes : i # k => entry'[i] = entry[i]
          /\ entry'[k].demoting = entry[k].demoting
          /\ entry'[k].generate = entry[k].generate /\ entry'[k].data = entry[k].data
      <3>1. CASE TestGet
        BY <1>1, <3>1, RemovalIs
      <3>2. CASE Mark
        <4>1. Table' = Table
          BY <3>2 DEF Mark, Table
        <4> QED
          BY <1>1, <3>2, <4>1, RemovalIs
      <3> QED
        BY <1>5, <3>1, <3>2
    <2>2. k \in Table => entry[k].data # Blank
      <3>1. CASE TestGet
        BY <1>1, <3>1, RemovalIs, BlankFacts
      <3>2. CASE Mark
        <4>1. Holds(pc, size, source, Editor, k)
          BY <1>1, <3>2 DEF Mark, Holds
        <4>2. LockedBy(entry[k], Editor)
          BY <1>1, <4>1 DEF Locks
        <4> QED
          BY <1>1, <4>2, BlankFacts
      <3> QED
        BY <1>5, <3>1, <3>2
    <2> HIDE DEF k
    <2>3. \A u \in Readers : Demotes(pc[u]) => entry'[size[u]].demoting
      BY <1>2, <1>3, <2>1
    <2>4. Apart(pc', size', entry')
      BY <1>1, <2>3, ApartKept
    <2>5. \A i \in Table' : entry'[i].data = Blank =>
            /\ i \in Table /\ entry[i].data = Blank /\ entry'[i].writer = entry[i].writer
            /\ entry[i].writer # Editor
      <3> SUFFICES ASSUME NEW i \in Table, entry'[i].data = Blank
                   PROVE  /\ entry[i].data = Blank /\ entry'[i].writer = entry[i].writer
                          /\ entry[i].writer # Editor
        BY <2>1
      <3>1. i # k /\ entry'[i] = entry[i]
        BY <1>2, <2>1, <2>2
      <3> QED
        BY <1>4, <3>1
    <2>6. \A i \in Table' : entry'[i].generate <=> entry'[i].data = Blank
      <3> SUFFICES ASSUME NEW i \in Table
                   PROVE  entry'[i].generate <=> entry'[i].data = Blank
        BY <2>1
      <3>1. i \in Sizes /\ (entry[i].generate <=> entry[i].data = Blank)
        BY <1>1, <1>2 DEF Written
      <3> QED
        BY <2>1, <3>1
    <2>7. \A u \in Readers : entry'[size[u]].data = entry[size[u]].data
      BY <1>2, <2>1
    <2>8. Written(pc', size', entry', Table')
      BY <1>1, <2>5, <2>6, <2>7, WrittenKept
    <2>9. FilesHavePixels'
      BY <1>1, <1>5 DEF TestGet, Mark, FilesHavePixels
    <2> QED
      BY <2>4, <2>8, <2>9 DEF SoundAfter
  <1>6. CASE RemoveEntry
    <2>1. /\ Table' = Table \ {k} /\ k \in Table /\ Freeable(k)
          /\ \A i \in Sizes : entry'[i] = IF i = k THEN Absent ELSE entry[i]
          /\ \A i \in Sizes : disk'[i] = IF i = k THEN DiskAfter(k) ELSE disk[i]
      BY <1>1, <1>6, RemovalIs
    <2>2. DiskAfter(k) # Blank
      BY <1>1, <2>1, FreedHasPixels
    <2> HIDE DEF k
    <2>3. \A u \in Readers : Demotes(pc[u]) => entry'[size[u]].demoting
      BY <1>2, <1>3, <2>1 DEF Freeable
    <2>4. Apart(pc', size', entry')
      BY <1>1, <2>3, ApartKept
    <2>5. \A i \in Table' : i \in Table /\ entry'[i] = entry[i]
      BY <1>2, <2>1
    <2>6. \A i \in Table' : entry'[i].data = Blank =>
            /\ i \in Table /\ entry[i].data = Blank /\ entry'[i].writer = entry[i].writer
            /\ entry[i].writer # Editor
      BY <1>4, <2>5
    <2>7. \A i \in Table' : entry'[i].generate <=> entry'[i].data = Blank
      BY <1>1, <2>5 DEF Written
    <2>8. \A u \in Readers : u # Editor /\ (pc[u] = "fill" \/ Shown(pc[u])) =>
            (entry'[size[u]].data = Blank <=> entry[size[u]].data = Blank)
      <3> SUFFICES ASSUME NEW u \in Readers, pc[u] = "fill" \/ Shown(pc[u])
                   PROVE  entry'[size[u]] = entry[size[u]]
        OBVIOUS
      <3>1. LockedBy(entry[size[u]], u) /\ size[u] \in Sizes /\ u \in Threads
        BY <1>1, WorkersHold
      <3>2. ~Unlocked(size[u])
        BY <1>1, <3>1, LockFacts
      <3> QED
        BY <2>1, <3>1, <3>2 DEF Freeable
    <2>9. Written(pc', size', entry', Table')
      BY <1>1, <2>6, <2>7, <2>8, WrittenKept
    <2>10. FilesHavePixels'
      BY <1>1, <2>1, <2>2 DEF FilesHavePixels
    <2> QED
      BY <2>4, <2>9, <2>10 DEF SoundAfter
  <1>7. CASE Edit \/ TestFail \/ Unlink \/ RemoveNothing
    <2>1. UNCHANGED <<lru, entry>> /\ Table' = Table
      BY <1>7 DEF Edit, TestFail, Unlink, RemoveNothing, Table
    <2>2. Apart(pc', size', entry')
      BY <1>1, <1>3, <2>1, ApartKept
    <2>3. \A i \in Table' : entry'[i].data = Blank =>
            /\ i \in Table /\ entry[i].data = Blank /\ entry'[i].writer = entry[i].writer
            /\ entry[i].writer # Editor
      BY <1>4, <2>1
    <2>4. \A i \in Table' : entry'[i].generate <=> entry'[i].data = Blank
      BY <1>1, <2>1 DEF Written
    <2>5. \A u \in Readers : entry'[size[u]].data = entry[size[u]].data
      BY <2>1
    <2>6. Written(pc', size', entry', Table')
      BY <1>1, <2>3, <2>4, <2>5, WrittenKept
    <2>7. FilesHavePixels'
      <3>1. CASE Unlink
        <4>1. disk' = [disk EXCEPT ![k] = NoFile]
          BY <3>1 DEF Unlink
        <4>2. \A i \in Sizes : disk'[i] = NoFile \/ disk'[i] = disk[i]
          BY <1>1, <4>1 DEF TypeOK
        <4> QED
          BY <1>1, <4>2 DEF FilesHavePixels, NoFile, Blank
      <3>2. CASE Edit \/ TestFail \/ RemoveNothing
        BY <1>1, <3>2 DEF Edit, TestFail, RemoveNothing, FilesHavePixels
      <3> QED
        BY <1>7, <3>1, <3>2
    <2> QED
      BY <2>2, <2>6, <2>7 DEF SoundAfter
  <1> QED
    BY <1>5, <1>6, <1>7 DEF EditorStep

LEMMA SoundStep ==
  ASSUME Sound, ~overlap', Next
  PROVE  SoundAfter
  <1>1. TypeOK /\ Apart(pc, size, entry) /\ Locks(pc, size, source, entry, Table)
    BY DEF Sound
  <1>2. ASSUME NEW t \in Readers, Reader(t) PROVE SoundAfter
    <2>1. /\ Others(t) /\ pc \in [Threads -> PcType] /\ size \in [Threads -> Sizes]
          /\ t \in Threads /\ size[t] \in Sizes
      BY <1>1, <1>2, ReaderMoves DEF TypeOK, PcType, Threads
    <2> USE DEF Goto
    <2>2. ASSUME NEW k \in Sizes, Ask(t, k) PROVE SoundAfter
      <3>1. size'[t] = k /\ pc[t] = "idle" /\ pc'[t] = "got"
        BY <2>1, <2>2 DEF Ask
      <3>2. GetHit(t, k) \/ GetMiss(t, k)
        BY <2>2 DEF Ask, Get
      <3> QED
        BY <2>1, <3>1, <3>2, HitSound, MissSound
    <2>3. ASSUME NEW k \in Sizes, Glance(t, k) PROVE SoundAfter
      <3>1. size'[t] = k /\ pc[t] = "idle" /\ pc'[t] = "using" /\ GetHit(t, k)
        BY <2>1, <2>3 DEF Glance
      <3> QED
        BY <2>1, <3>1, HitSound
    <2>4. ASSUME NEW k \in Sizes, LoseLock(t, k) PROVE SoundAfter
      <3>1. /\ UNCHANGED <<pc, size, disk>> /\ ReadLock(Lost, k)
        BY <2>4 DEF LoseLock, GetHit, ReadLock
      <3>2. ReadLocked(Lost, k)
        BY <1>1, <3>1, HitIs
      <3>3. /\ Table' = Table
            /\ \A i \in Sizes :
                 /\ entry'[i].writer = entry[i].writer
                 /\ entry'[i].demoting = entry[i].demoting
                 /\ entry'[i].generate = entry[i].generate
                 /\ entry'[i].data = entry[i].data
        BY <3>2 DEF ReadLocked
      <3>4. /\ \A u \in Readers : size[u] \in Sizes
            /\ \A i \in Table : i \in Sizes
        BY <1>1 DEF TypeOK, Threads, Table, ToSet
      <3>5. Apart(pc', size', entry')
        BY <1>1, <3>1, <3>3, <3>4 DEF Apart
      <3>6. Written(pc, size, entry, Table) /\ FilesHavePixels
        BY DEF Sound
      <3>7. Written(pc', size', entry', Table')
        BY <3>1, <3>3, <3>4, <3>6 DEF Written
      <3> QED
        BY <3>1, <3>5, <3>6, <3>7 DEF SoundAfter, FilesHavePixels
    <2>5. CASE GetAgain(t)
      <3>1. /\ size' = size /\ pc[t] = "gap" /\ pc'[t] = "back"
            /\ GetHit(t, size[t]) \/ GetMiss(t, size[t])
        BY <2>1, <2>5 DEF GetAgain, Get
      <3>2. entry[size[t]].demoting
        BY <1>1, <3>1 DEF Apart, Demotes
      <3>3. GetHit(t, size[t])
        BY <2>1, <3>1, <3>2, BlankFacts DEF GetMiss
      <3> QED
        BY <2>1, <3>1, <3>3, HitSound
    <2>6. CASE Ready(t) \/ FillFromLarger(t) \/ FillFromHistory(t)
      BY <2>1, <2>6, BeginSound
    <2>7. CASE EndFill(t)
      BY <2>1, <2>7, EndSound
    <2>8. CASE SetDemoting(t) \/ DropLock(t) \/ ClearDemoting(t) \/ Release(t)
      BY <2>1, <2>8, DemotionSound
    <2> QED
      BY <1>2, <2>2, <2>3, <2>4, <2>5, <2>6, <2>7, <2>8 DEF Reader
  <1>3. ASSUME EditorStep PROVE SoundAfter
    BY <1>1, <1>3, EditorMoves, EditorSound
  <1> QED
    BY <1>2, <1>3 DEF Next

-----------------------------------------------------------------------------
(* The cost: what CostOf, a sum over a set, is of sets that differ.        *)

\* A set of sizes is finite, and smaller without one of them.
LEMMA SizesFinite ==
  ASSUME NEW s \in SUBSET Sizes
  PROVE  /\ IsFiniteSet(s) /\ Cardinality(s) \in Nat
         /\ Cardinality(s) = 0 <=> s = {}
         /\ \A k \in s : Cardinality(s \ {k}) = Cardinality(s) - 1
  <1>1. IsFiniteSet(Sizes)
    BY ThumbAssumption, FS_Interval DEF Sizes
  <1>2. IsFiniteSet(s)
    BY <1>1, FS_Subset
  <1> QED
    BY <1>2, FS_CardinalityType, FS_EmptySet, FS_RemoveElement

\* The recursion of the sum, for the sets of at most m sizes of S.
First(s) == CHOOSE k \in s : TRUE

SumOfSome(S, f, m) ==
  \A s \in SUBSET S :
    Cardinality(s) <= m =>
      f[s] = IF s = {} THEN 0 ELSE Cost[First(s)] + f[s \ {First(s)}]

SumOf(S, f) ==
  \A s \in SUBSET S : f[s] = IF s = {} THEN 0 ELSE Cost[First(s)] + f[s \ {First(s)}]

LEMMA FirstIs ==
  ASSUME NEW s, s # {}
  PROVE  First(s) \in s
  BY DEF First

LEMMA SumExists ==
  \E f : SumOf(Sizes, f)
  <1> DEFINE G == {m \in Nat : \E f : SumOfSome(Sizes, f, m)}
  <1>1. 0 \in G
    <2> DEFINE f == [s \in SUBSET Sizes |-> 0]
    <2>1. SumOfSome(Sizes, f, 0)
      <3> SUFFICES ASSUME NEW s \in SUBSET Sizes, Cardinality(s) <= 0
                   PROVE  s = {} /\ f[s] = 0
        BY DEF SumOfSome
      <3>1. Cardinality(s) = 0
        BY SizesFinite
      <3> QED
        BY <3>1, SizesFinite
    <2> QED
      BY <2>1
  <1>2. ASSUME NEW m \in G PROVE m + 1 \in G
    <2>1. m \in Nat /\ m + 1 \in Nat
      OBVIOUS
    <2>2. PICK f : SumOfSome(Sizes, f, m)
      OBVIOUS
    <2> DEFINE g == [s \in SUBSET Sizes |->
                       IF Cardinality(s) <= m THEN f[s]
                       ELSE Cost[First(s)] + f[s \ {First(s)}]]
    <2>3. SumOfSome(Sizes, g, m + 1)
      <3> SUFFICES ASSUME NEW s \in SUBSET Sizes, Cardinality(s) <= m + 1
                   PROVE  g[s] = IF s = {} THEN 0 ELSE Cost[First(s)] + g[s \ {First(s)}]
        BY DEF SumOfSome
      <3>1. Cardinality(s) \in Nat /\ (Cardinality(s) = 0 <=> s = {})
        BY SizesFinite
      <3>2. CASE s = {}
        <4>1. Cardinality(s) <= m
          BY <2>1, <3>1, <3>2
        <4>2. f[s] = 0
          BY <2>2, <3>2, <4>1 DEF SumOfSome
        <4> QED
          BY <3>2, <4>1, <4>2
      <3>3. CASE s # {}
        <4> DEFINE r == s \ {First(s)}
        <4>1. First(s) \in s
          BY <3>3, FirstIs
        <4>2. r \in SUBSET Sizes /\ Cardinality(r) = Cardinality(s) - 1
          BY <4>1, SizesFinite
        <4>3. Cardinality(r) <= m
          BY <2>1, <3>1, <4>2
        <4>4. g[r] = f[r]
          BY <4>2, <4>3
        <4>5. g[s] = Cost[First(s)] + f[r]
          <5>1. CASE Cardinality(s) <= m
            <6>1. f[s] = Cost[First(s)] + f[r]
              BY <2>2, <3>3, <5>1 DEF SumOfSome
            <6> QED
              BY <5>1, <6>1
          <5>2. CASE ~(Cardinality(s) <= m)
            BY <5>2
          <5> QED
            BY <5>1, <5>2
        <4> HIDE DEF g
        <4> QED
          BY <3>3, <4>4, <4>5
      <3> QED
        BY <3>2, <3>3
    <2> QED
      BY <2>1, <2>3
  <1>3. G = Nat
    <2>1. G \in SUBSET Nat
      OBVIOUS
    <2> HIDE DEF G
    <2> QED
      BY <1>1, <1>2, <2>1, InductionIs
  <1>4. Cardinality(Sizes) \in Nat
    BY SizesFinite
  <1>5. PICK f : SumOfSome(Sizes, f, Cardinality(Sizes))
    BY <1>3, <1>4
  <1>6. ASSUME NEW s \in SUBSET Sizes PROVE Cardinality(s) <= Cardinality(Sizes)
    <2>1. IsFiniteSet(Sizes)
      BY SizesFinite
    <2> QED
      BY <2>1, FS_Subset
  <1> QED
    BY <1>5, <1>6 DEF SumOf, SumOfSome

\* Two such functions are equal.
LEMMA SumUnique ==
  ASSUME NEW S \in SUBSET Sizes, NEW f, NEW g, SumOf(S, f), SumOf(S, g)
  PROVE  f[S] = g[S]
  <1> DEFINE G == {m \in Nat : \A s \in SUBSET S : Cardinality(s) <= m => f[s] = g[s]}
  <1>1. 0 \in G
    <2> SUFFICES ASSUME NEW s \in SUBSET S, Cardinality(s) <= 0 PROVE f[s] = g[s]
      OBVIOUS
    <2>1. s \in SUBSET Sizes
      OBVIOUS
    <2>2. Cardinality(s) \in Nat /\ (Cardinality(s) = 0 <=> s = {})
      BY <2>1, SizesFinite
    <2>3. s = {}
      BY <2>2
    <2> QED
      BY <2>3 DEF SumOf
  <1>2. ASSUME NEW m \in G PROVE m + 1 \in G
    <2> SUFFICES ASSUME NEW s \in SUBSET S, Cardinality(s) <= m + 1 PROVE f[s] = g[s]
      OBVIOUS
    <2>1. m \in Nat /\ s \in SUBSET Sizes
      OBVIOUS
    <2>2. CASE s = {}
      BY <2>2 DEF SumOf
    <2>3. CASE s # {}
      <3> DEFINE r == s \ {First(s)}
      <3>1. First(s) \in s
        BY <2>3, FirstIs
      <3>2. r \in SUBSET S /\ Cardinality(r) = Cardinality(s) - 1 /\ Cardinality(s) \in Nat
        BY <2>1, <3>1, SizesFinite
      <3>3. Cardinality(r) <= m
        BY <2>1, <3>2
      <3>4. f[r] = g[r]
        BY <3>2, <3>3
      <3>5. f[s] = Cost[First(s)] + f[r] /\ g[s] = Cost[First(s)] + g[r]
        BY <2>3 DEF SumOf
      <3> QED
        BY <3>4, <3>5
    <2> QED
      BY <2>2, <2>3
  <1>3. G = Nat
    <2>1. G \in SUBSET Nat
      OBVIOUS
    <2> HIDE DEF G
    <2> QED
      BY <1>1, <1>2, <2>1, InductionIs
  <1>4. Cardinality(S) \in Nat
    BY SizesFinite
  <1> QED
    BY <1>3, <1>4

LEMMA CostIs ==
  ASSUME NEW f, SumOf(Sizes, f), NEW S \in SUBSET Sizes
  PROVE  CostOf(S) = f[S]
  <1> DEFINE Sums(g) == g = [s \in SUBSET S |->
                               IF s = {} THEN 0
                               ELSE Cost[CHOOSE k \in s : TRUE] + g[s \ {CHOOSE k \in s : TRUE}]]
             h == [s \in SUBSET S |-> f[s]]
             iter == CHOOSE g : Sums(g)
  <1>1. Sums(h)
    <2>1. ASSUME NEW s \in SUBSET S
          PROVE  h[s] = IF s = {} THEN 0
                        ELSE Cost[CHOOSE k \in s : TRUE] + h[s \ {CHOOSE k \in s : TRUE}]
      <3>1. s \in SUBSET Sizes /\ s \ {First(s)} \in SUBSET S
        OBVIOUS
      <3>2. f[s] = IF s = {} THEN 0 ELSE Cost[First(s)] + f[s \ {First(s)}]
        BY <3>1 DEF SumOf
      <3>3. h[s \ {First(s)}] = f[s \ {First(s)}] /\ h[s] = f[s]
        BY <3>1
      <3> HIDE DEF h
      <3> QED
        BY <3>2, <3>3 DEF First
    <2>2. h = [s \in SUBSET S |-> h[s]]
      OBVIOUS
    <2> HIDE DEF h
    <2> QED
      BY <2>1, <2>2
  <1>2. Sums(iter)
    <2> HIDE DEF Sums, h
    <2> QED
      BY <1>1
  <1>3. CostOf(S) = iter[S]
    BY Zenon DEF CostOf, SumFunctionOnSet, FoldFunctionOnSet, MapThenFoldSet
  <1> HIDE DEF iter
  <1>4. SumOf(S, iter)
    <2> SUFFICES ASSUME NEW s \in SUBSET S
                 PROVE iter[s] = IF s = {} THEN 0 ELSE Cost[First(s)] + iter[s \ {First(s)}]
      BY DEF SumOf
    <2> QED
      BY <1>2 DEF First
  <1>5. SumOf(S, f)
    BY DEF SumOf
  <1> QED
    BY <1>3, <1>4, <1>5, SumUnique

LEMMA CostOfNone == CostOf({}) = 0
  <1>1. PICK f : SumOf(Sizes, f)
    BY SumExists
  <1>2. CostOf({}) = f[{}]
    BY <1>1, CostIs
  <1> QED
    BY <1>1, <1>2 DEF SumOf

\* One size less, whichever the sum begins with.
LEMMA CostWithout ==
  ASSUME NEW S \in SUBSET Sizes, NEW k \in S
  PROVE  CostOf(S) \in Nat /\ CostOf(S) = CostOf(S \ {k}) + Cost[k]
  <1>1. PICK f : SumOf(Sizes, f)
    BY SumExists
  <1>2. \A s \in SUBSET Sizes : CostOf(s) = f[s]
    BY <1>1, CostIs
  <1>3. \A i \in Sizes : Cost[i] \in Nat
    BY ThumbAssumption DEF Sizes
  <1> DEFINE P(s) == f[s] \in Nat /\ \A i \in s : f[s] = f[s \ {i}] + Cost[i]
             G == {m \in Nat : \A s \in SUBSET Sizes : Cardinality(s) <= m => P(s)}
  <1>4. ASSUME NEW s, s = {} PROVE P(s)
    <2>1. {} \in SUBSET Sizes
      OBVIOUS
    <2>2. f[{}] = 0
      BY <1>1, <2>1 DEF SumOf
    <2> QED
      BY <1>4, <2>2
  <1>5. 0 \in G
    <2> SUFFICES ASSUME NEW s \in SUBSET Sizes, Cardinality(s) <= 0 PROVE P(s)
      OBVIOUS
    <2>1. Cardinality(s) \in Nat /\ (Cardinality(s) = 0 <=> s = {})
      BY SizesFinite
    <2>2. s = {}
      BY <2>1
    <2> QED
      BY <1>4, <2>2
  <1>6. ASSUME NEW m \in G PROVE m + 1 \in G
    <2> SUFFICES ASSUME NEW s \in SUBSET Sizes, Cardinality(s) <= m + 1, s # {} PROVE P(s)
      <3>1. m + 1 \in Nat
        OBVIOUS
      <3> HIDE DEF P
      <3> QED
        BY <1>4, <3>1
    <2> DEFINE x == First(s)
               r == s \ {x}
    <2>1. x \in s /\ x \in Sizes
      BY FirstIs
    <2>2. /\ m \in Nat /\ Cardinality(s) \in Nat
          /\ r \in SUBSET Sizes /\ Cardinality(r) = Cardinality(s) - 1
      BY <2>1, SizesFinite
    <2>3. P(r)
      <3>1. Cardinality(r) <= m
        BY <2>2
      <3> QED
        BY <2>2, <3>1
    <2>4. f[s] = Cost[x] + f[r]
      BY <1>1 DEF SumOf
    <2>5. f[s] \in Nat
      BY <1>3, <2>1, <2>3, <2>4
    <2>6. ASSUME NEW i \in s PROVE f[s] = f[s \ {i}] + Cost[i]
      <3>1. CASE i = x
        BY <1>3, <2>1, <2>3, <2>4, <3>1
      <3>2. CASE i # x
        <4> DEFINE q == s \ {i}
                   both == r \ {i}
        <4>1. i \in r /\ i \in Sizes /\ x \in q /\ q \ {x} = both
          BY <2>1, <3>2
        <4>2. q \in SUBSET Sizes /\ Cardinality(q) = Cardinality(s) - 1
          BY SizesFinite
        <4>3. P(q)
          <5>1. Cardinality(q) <= m
            BY <2>2, <4>2
          <5> QED
            BY <4>2, <5>1
        <4>4. f[r] = f[both] + Cost[i]
          BY <2>3, <4>1
        <4>5. f[q] = f[both] + Cost[x]
          BY <4>1, <4>3
        <4>6. both \in SUBSET Sizes /\ Cardinality(both) = Cardinality(r) - 1
          BY <2>2, <4>1, SizesFinite
        <4>7. f[both] \in Nat
          <5>1. Cardinality(both) <= m
            BY <2>2, <4>6
          <5> QED
            BY <4>6, <5>1
        <4>8. Cost[x] \in Nat /\ Cost[i] \in Nat
          BY <1>3, <2>1, <4>1
        <4>9. f[s] = f[q] + Cost[i]
          <5> HIDE DEF q, both, r, x, P
          <5> QED
            BY <2>4, <4>4, <4>5, <4>7, <4>8
        <4> QED
          BY <4>9
      <3> QED
        BY <3>1, <3>2
    <2> QED
      BY <2>5, <2>6
  <1>7. G = Nat
    <2>1. G \in SUBSET Nat
      OBVIOUS
    <2> HIDE DEF G
    <2> QED
      BY <1>5, <1>6, <2>1, InductionIs
  <1>8. P(S)
    <2>1. Cardinality(S) \in Nat /\ Cardinality(S) <= Cardinality(S)
      BY SizesFinite
    <2> QED
      BY <1>7, <2>1
  <1>9. S \ {k} \in SUBSET Sizes
    OBVIOUS
  <1> HIDE DEF G
  <1> QED
    BY <1>2, <1>8, <1>9

LEMMA CostWith ==
  ASSUME NEW S \in SUBSET Sizes, NEW k \in Sizes, k \notin S
  PROVE  CostOf(S \cup {k}) = CostOf(S) + Cost[k]
  <1>1. S \cup {k} \in SUBSET Sizes /\ k \in S \cup {k} /\ (S \cup {k}) \ {k} = S
    OBVIOUS
  <1>2. CostOf(S \cup {k}) = CostOf((S \cup {k}) \ {k}) + Cost[k]
    BY <1>1, CostWithout
  <1> QED
    BY <1>1, <1>2

LEMMA CostIsNat ==
  ASSUME NEW S \in SUBSET Sizes
  PROVE  CostOf(S) \in Nat
  <1>1. CASE S = {}
    BY <1>1, CostOfNone
  <1>2. CASE S # {}
    BY <1>2, CostWithout
  <1> QED
    BY <1>1, <1>2

\* What is freed is what the cost is reduced by.
LEMMA CostSplit ==
  ASSUME NEW S \in SUBSET Sizes, NEW T \in SUBSET S
  PROVE  CostOf(S) = CostOf(S \ T) + CostOf(T)
  <1> DEFINE G == {m \in Nat : \A t \in SUBSET S :
                                 Cardinality(t) <= m => CostOf(S) = CostOf(S \ t) + CostOf(t)}
  <1>1. CostOf(S) \in Nat /\ CostOf(S) = CostOf(S \ {}) + CostOf({})
    <2>1. S \ {} = S
      OBVIOUS
    <2>2. CostOf(S) \in Nat
      BY CostIsNat
    <2> QED
      BY <2>1, <2>2, CostOfNone
  <1>2. 0 \in G
    <2> SUFFICES ASSUME NEW t \in SUBSET S, Cardinality(t) <= 0
                 PROVE  CostOf(S) = CostOf(S \ t) + CostOf(t)
      OBVIOUS
    <2>1. Cardinality(t) \in Nat /\ (Cardinality(t) = 0 <=> t = {})
      BY SizesFinite
    <2>2. t = {}
      BY <2>1
    <2> QED
      BY <1>1, <2>2
  <1>3. ASSUME NEW m \in G PROVE m + 1 \in G
    <2> SUFFICES ASSUME NEW t \in SUBSET S, Cardinality(t) <= m + 1, t # {}
                 PROVE  CostOf(S) = CostOf(S \ t) + CostOf(t)
      BY <1>1
    <2>1. PICK k \in t : TRUE
      OBVIOUS
    <2> DEFINE r == t \ {k}
    <2>2. /\ m \in Nat /\ Cardinality(t) \in Nat /\ k \in Sizes /\ k \in S \ r
          /\ r \in SUBSET S /\ r \in SUBSET Sizes /\ Cardinality(r) = Cardinality(t) - 1
          /\ (S \ r) \ {k} = S \ t /\ S \ r \in SUBSET Sizes /\ S \ t \in SUBSET Sizes
      BY SizesFinite
    <2>3. CostOf(S) = CostOf(S \ r) + CostOf(r)
      <3>1. Cardinality(r) <= m
        BY <2>2
      <3> QED
        BY <2>2, <3>1
    <2>4. CostOf(S \ r) = CostOf(S \ t) + Cost[k]
      BY <2>2, CostWithout
    <2>5. CostOf(t) = CostOf(r) + Cost[k]
      BY CostWithout
    <2>6. CostOf(S \ t) \in Nat /\ CostOf(r) \in Nat /\ Cost[k] \in Nat
      BY <2>2, CostIsNat, ThumbAssumption DEF Sizes
    <2> HIDE DEF r
    <2> QED
      BY <2>3, <2>4, <2>5, <2>6
  <1>4. G = Nat
    <2>1. G \in SUBSET Nat
      OBVIOUS
    <2> HIDE DEF G
    <2> QED
      BY <1>2, <1>3, <2>1, InductionIs
  <1>5. Cardinality(T) \in Nat /\ Cardinality(T) <= Cardinality(T)
    BY SizesFinite
  <1> QED
    BY <1>4, <1>5

\* What a step does to the list and to the cost.
CostMove ==
  \/ Table' = Table /\ cost' = cost
  \/ \E k \in Table : Table' = Table \ {k} /\ cost' = cost - Cost[k]
  \/ \E k \in Sizes \ Table :
       /\ Table' = (Table \ Garbage) \cup {k}
       /\ cost' = cost - CostOf(Garbage) + Cost[k]

LEMMA CostMoves ==
  ASSUME TypeOK, Next
  PROVE  CostMove
  <1> DEFINE Same == Table' = Table /\ cost' = cost
  <1>1. Table \subseteq Sizes
    BY DEF TypeOK, Table, ToSet
  <1>2. ASSUME NEW t \in Readers \cup {Lost}, NEW k \in Sizes, GetHit(t, k) PROVE Same
    <2>1. ReadLock(t, k) /\ cost' = cost
      BY <1>2 DEF GetHit, ReadLock
    <2>2. ReadLocked(t, k)
      BY <2>1, HitIs
    <2> QED
      BY <2>1, <2>2 DEF ReadLocked
  <1>3. ASSUME NEW t \in Readers, NEW k \in Sizes, GetMiss(t, k)
        PROVE  CostMove
    <2>1. k \notin Table /\ Garbage \in SUBSET Table
      BY <1>3, GarbageIs DEF GetMiss
    <2>2. lru' = Append(LruWithout(Garbage), k) /\ cost' = cost - CostOf(Garbage) + Cost[k]
      BY <1>3 DEF GetMiss
    <2>3. /\ LruWithout(Garbage) \in Seq(Sizes) /\ IsInjective(LruWithout(Garbage))
          /\ ToSet(LruWithout(Garbage)) = Table \ Garbage
      BY WithoutIs
    <2>4. k \notin ToSet(LruWithout(Garbage))
      BY <2>1, <2>3
    <2>5. ToSet(lru') = (Table \ Garbage) \cup {k}
      BY <2>2, <2>3, <2>4, AtEndIs
    <2>6. Table' = (Table \ Garbage) \cup {k}
      BY <2>5 DEF Table
    <2> QED
      BY <2>1, <2>2, <2>6 DEF CostMove
  <1>4. ASSUME NEW k \in Table, lru' = BubbleUp(k) PROVE Table' = Table
    <2>1. /\ LruWithout({k}) \in Seq(Sizes) /\ IsInjective(LruWithout({k}))
          /\ ToSet(LruWithout({k})) = Table \ {k}
      BY WithoutIs
    <2>2. k \notin ToSet(LruWithout({k})) /\ k \in Sizes
      BY <1>1, <2>1
    <2>3. ToSet(lru') = ToSet(LruWithout({k})) \cup {k}
      BY <1>4, <2>1, <2>2, AtEndIs DEF BubbleUp
    <2> QED
      BY <2>1, <2>3 DEF Table
  <1>5. ASSUME UNCHANGED <<lru, cost>> PROVE Same
    BY <1>5 DEF Table
  <1>6. ASSUME NEW t \in Readers, Reader(t) PROVE CostMove
    <2>1. ASSUME NEW k \in Sizes, Ask(t, k) \/ Glance(t, k) \/ LoseLock(t, k)
          PROVE  CostMove
      <3>1. GetHit(t, k) \/ GetMiss(t, k) \/ GetHit(Lost, k)
        BY <2>1 DEF Ask, Glance, LoseLock, Get
      <3> QED
        BY <1>2, <1>3, <3>1 DEF CostMove
    <2>2. CASE GetAgain(t)
      <3>1. GetHit(t, size[t]) \/ GetMiss(t, size[t])
        BY <2>2 DEF GetAgain, Get
      <3>2. size[t] \in Sizes
        BY DEF TypeOK, Threads
      <3> QED
        BY <1>2, <1>3, <3>1, <3>2 DEF CostMove
    <2>3. CASE FillFromLarger(t)
      <3>1. PICK i \in Larger(size[t]) : lru' = BubbleUp(i)
        BY <2>3 DEF FillFromLarger
      <3>2. i \in Table /\ cost' = cost
        BY <2>3, <3>1 DEF FillFromLarger, Larger
      <3> QED
        BY <1>4, <3>1, <3>2 DEF CostMove
    <2>4. CASE \/ Ready(t) \/ FillFromHistory(t) \/ EndFill(t) \/ SetDemoting(t)
               \/ DropLock(t) \/ ClearDemoting(t) \/ Release(t)
      <3>1. UNCHANGED <<lru, cost>>
        BY <2>4 DEF Ready, FillFromHistory, EndFill, SetDemoting, DropLock, ClearDemoting,
                    Release
      <3> QED
        BY <1>5, <3>1 DEF CostMove
    <2> QED
      BY <1>6, <2>1, <2>2, <2>3, <2>4 DEF Reader
  <1>7. ASSUME EditorStep PROVE CostMove
    <2>1. CASE TestGet
      <3>1. size[Editor] \in Table /\ lru' = BubbleUp(size[Editor]) /\ cost' = cost
        BY <2>1 DEF TestGet
      <3> QED
        BY <1>4, <3>1 DEF CostMove
    <2>2. CASE RemoveEntry
      <3> DEFINE k == size[Editor]
      <3>1. k \in Table /\ lru' = LruWithout({k}) /\ cost' = cost - Cost[k]
        BY <2>2 DEF RemoveEntry
      <3>2. Table' = Table \ {k}
        BY <3>1, WithoutIs DEF Table
      <3> QED
        BY <3>1, <3>2 DEF CostMove
    <2>3. CASE Edit \/ TestFail \/ Mark \/ Unlink \/ RemoveNothing
      <3>1. UNCHANGED <<lru, cost>>
        BY <2>3 DEF Edit, TestFail, Mark, Unlink, RemoveNothing
      <3> QED
        BY <1>5, <3>1 DEF CostMove
    <2> QED
      BY <1>7, <2>1, <2>2, <2>3 DEF EditorStep
  <1> QED
    BY <1>6, <1>7 DEF Next

\* The cost follows the list.
LEMMA CostStep ==
  ASSUME TypeOK, CostIsSum, Next
  PROVE  CostIsSum'
  <1>1. CostMove /\ cost = CostOf(Table) /\ Table \in SUBSET Sizes
    BY CostMoves DEF CostIsSum, TypeOK, Table, ToSet
  <1>2. \A k \in Sizes : Cost[k] \in Nat
    BY ThumbAssumption DEF Sizes
  <1>3. CASE Table' = Table /\ cost' = cost
    BY <1>1, <1>3 DEF CostIsSum
  <1>4. ASSUME NEW k \in Table, Table' = Table \ {k}, cost' = cost - Cost[k]
        PROVE  CostIsSum'
    <2>1. CostOf(Table) = CostOf(Table \ {k}) + Cost[k] /\ Table \ {k} \in SUBSET Sizes
      BY <1>1, CostWithout
    <2>2. CostOf(Table \ {k}) \in Nat /\ Cost[k] \in Nat
      BY <1>1, <1>2, <2>1, CostIsNat
    <2>3. cost' = CostOf(Table \ {k})
      BY <1>1, <1>4, <2>1, <2>2
    <2> QED
      BY <1>4, <2>3 DEF CostIsSum
  <1>5. ASSUME NEW k \in Sizes \ Table,
               Table' = (Table \ Garbage) \cup {k}, cost' = cost - CostOf(Garbage) + Cost[k]
        PROVE  CostIsSum'
    <2> DEFINE G == Garbage
    <2>0. G \in SUBSET Table
      BY GarbageIs
    <2> HIDE DEF G
    <2>1. CostOf(Table) = CostOf(Table \ G) + CostOf(G)
      BY <1>1, <2>0, CostSplit
    <2>2. Table \ G \in SUBSET Sizes /\ G \in SUBSET Sizes /\ k \notin Table \ G
      BY <1>1, <2>0
    <2>3. CostOf((Table \ G) \cup {k}) = CostOf(Table \ G) + Cost[k]
      BY <2>2, CostWith
    <2>4. CostOf(Table \ G) \in Nat /\ CostOf(G) \in Nat /\ Cost[k] \in Nat
      BY <1>2, <2>2, CostIsNat
    <2>5. cost' = CostOf((Table \ G) \cup {k})
      BY <1>1, <1>5, <2>1, <2>3, <2>4 DEF G
    <2> QED
      BY <1>5, <2>5 DEF CostIsSum, G
  <1> QED
    BY <1>1, <1>3, <1>4, <1>5 DEF CostMove

\* What dt_cache_gc leaves: at most 0.8 of the quota, or nothing that is free.
LEMMA GarbageIsEnough ==
  ASSUME TypeOK, CostIsSum, NEW i \in Table \ Garbage, Freeable(i)
  PROVE  10 * (cost - CostOf(Garbage)) <= 8 * Quota
  <1>1. /\ lru \in Seq(Sizes) /\ Len(lru) \in Nat /\ DOMAIN lru = 1 .. Len(lru)
        /\ \A p \in 1 .. Len(lru) : lru[p] \in Table /\ lru[p] \in Sizes
        /\ Table \in SUBSET Sizes
    BY DEF TypeOK, Table, ToSet
  <1>2. cost \in Nat /\ Quota \in Nat
    BY <1>1, CostIsNat, ThumbAssumption DEF CostIsSum
  <1>3. CASE ~(10 * cost > 8 * Quota)
    <2>1. Garbage = {}
      BY <1>3 DEF Garbage
    <2> QED
      BY <1>2, <1>3, <2>1, CostOfNone
  <1>4. CASE 10 * cost > 8 * Quota
    <2> DEFINE L == {p \in 1 .. Len(lru) : Freeable(lru[p]) /\ lru[p] \notin Collected}
    <2>1. Garbage = Collected
      BY <1>4 DEF Garbage
    <2>2. L # {} /\ L \in SUBSET Nat
      <3>1. PICK p \in 1 .. Len(lru) : lru[p] = i
        BY <1>1 DEF Table, ToSet
      <3>2. p \in L
        BY <2>1, <3>1
      <3> QED
        BY <1>1, <3>2
    <2>3. PICK p \in L : \A q \in L : p <= q
      <3> HIDE DEF L
      <3> QED
        BY <2>2, LeastIs
    <2>4. p \in 1 .. Len(lru) /\ Freeable(lru[p]) /\ lru[p] \notin Collected
      BY <2>3
    <2> DEFINE F == FreeableBefore(p)
    <2>5. ~(10 * (cost - CostOf(F)) >= 8 * Quota)
      BY <1>1, <2>4 DEF Collected
    <2>6. F \in SUBSET Collected
      <3> SUFFICES ASSUME NEW q \in 1 .. p - 1, Freeable(lru[q]), lru[q] \notin Collected
                   PROVE  FALSE
        BY DEF FreeableBefore
      <3>1. q \in 1 .. Len(lru) /\ ~(p <= q)
        BY <1>1, <2>4
      <3>2. q \in L
        BY <3>1
      <3> QED
        BY <2>3, <3>1, <3>2
    <2>7. Collected \in SUBSET Sizes
      BY <1>1, <2>1, GarbageIs
    <2> HIDE DEF F, L
    <2>8. CostOf(Collected) = CostOf(Collected \ F) + CostOf(F)
      BY <2>6, <2>7, CostSplit
    <2>9. CostOf(F) \in Nat /\ CostOf(Collected \ F) \in Nat
      <3>1. F \in SUBSET Sizes /\ Collected \ F \in SUBSET Sizes
        BY <2>6, <2>7
      <3> QED
        BY <3>1, CostIsNat
    <2> DEFINE a == CostOf(F)
               b == CostOf(Collected \ F)
    <2>10. a \in Nat /\ b \in Nat /\ ~(10 * (cost - a) >= 8 * Quota)
      BY <2>5, <2>9
    <2> HIDE DEF a, b
    <2>11. 10 * (cost - (b + a)) <= 8 * Quota
      BY <1>2, <2>10
    <2> QED
      BY <2>1, <2>8, <2>11 DEF a, b
  <1> QED
    BY <1>3, <1>4

LEMMA QuotaStep ==
  ASSUME TypeOK, CostIsSum, Next, NEW k \in Table' \ Table
  PROVE  \/ 10 * (cost' - Cost[k]) <= 8 * Quota
         \/ \A i \in Table' \ {k} : ~Freeable(i)
  <1>1. Table \in SUBSET Sizes /\ Garbage \in SUBSET Table
    BY GarbageIs DEF TypeOK, Table, ToSet
  <1>2. PICK n \in Sizes \ Table :
          /\ Table' = (Table \ Garbage) \cup {n}
          /\ cost' = cost - CostOf(Garbage) + Cost[n]
    BY CostMoves DEF CostMove
  <1>3. n = k
    BY <1>2
  <1>4. cost' - Cost[k] = cost - CostOf(Garbage)
    <2>1. CostOf(Garbage) \in Nat /\ cost \in Nat /\ Cost[k] \in Nat
      BY <1>1, <1>3, CostIsNat, ThumbAssumption DEF CostIsSum, Sizes
    <2> QED
      BY <1>2, <1>3, <2>1
  <1>5. ASSUME NEW i \in Table' \ {k}, Freeable(i)
        PROVE  10 * (cost' - Cost[k]) <= 8 * Quota
    <2>1. i \in Table \ Garbage
      BY <1>2, <1>3
    <2>2. 10 * (cost - CostOf(Garbage)) <= 8 * Quota
      BY <1>5, <2>1, GarbageIsEnough
    <2> QED
      BY <1>4, <2>2
  <1> QED
    BY <1>5

-----------------------------------------------------------------------------
(* The theorems.                                                           *)

LEMMA InitIInv == Init => IInv
  <1> SUFFICES ASSUME Init PROVE IInv
    OBVIOUS
  <1>1. /\ 1 \in Sizes /\ 0 \in Versions /\ Editor \in Threads /\ Readers \subseteq Threads
        /\ 0 \notin Sizes /\ NoFile # Blank
    BY ThumbAssumption DEF Sizes, Versions, Threads, NoFile, Blank
  <1>2. Table = {}
    BY DEF Init, Table, ToSet
  <1>3. lru \in Seq(Sizes) /\ IsInjective(lru)
    BY DEF Init, IsInjective
  <1>4. TypeOK
    BY <1>1, <1>3, AbsentType DEF Init, TypeOK
  <1>5. GoneIsAbsent /\ SourceIsLarger /\ FilesHavePixels
    BY <1>1 DEF Init, GoneIsAbsent, SourceIsLarger, FilesHavePixels
  <1>6. \A t \in Threads : pc[t] = "idle"
    BY DEF Init
  <1>7. ASSUME NEW k \in Sizes
        PROVE  /\ Holders(k) = {} /\ {t \in {Editor} : pc[t] = "mark" /\ size[t] = k} = {}
               /\ entry[k].readers = {} /\ entry[k].writer = Nobody /\ ~entry[k].demoting
    <2>1. entry[k] = Absent
      BY DEF Init
    <2>2. source = [t \in Readers |-> 0]
      BY DEF Init
    <2> QED
      BY <1>1, <1>6, <2>1, <2>2, FreshParts DEF Holders
  <1>8. LocksAreOwned
    BY <1>7 DEF LocksAreOwned
  <1>9. DemotionsApart
    BY <1>1, <1>6 DEF DemotionsApart, Demoters
  <1>10. BlankIsWritten
    BY <1>1, <1>2, <1>6 DEF BlankIsWritten
  <1>11. CostIsSum
    BY <1>2, CostOfNone DEF Init, CostIsSum
  <1> QED
    BY <1>4, <1>5, <1>8, <1>9, <1>10, <1>11 DEF IInv

LEMMA InvariantStep == IInv /\ [Next]_vars => IInv'
  <1> SUFFICES ASSUME IInv, [Next]_vars PROVE IInv'
    OBVIOUS
  <1>1. TypeOK /\ CostIsSum /\ GoneIsAbsent /\ SourceIsLarger /\ LocksAreOwned
    BY DEF IInv
  <1>2. CASE Next
    <2>1. TypeOK' /\ CostIsSum' /\ GoneIsAbsent' /\ SourceIsLarger' /\ LocksAreOwned'
      BY <1>1, <1>2, TypeStep, CostStep, GoneStep, SourceStep, LocksStep
    <2>2. ASSUME ~overlap' PROVE DemotionsApart' /\ BlankIsWritten' /\ FilesHavePixels'
      <3>1. ~overlap
        BY <1>1, <1>2, <2>2, ReaderMoves, EditorMoves DEF Next
      <3>2. SoundAfter
        BY <1>2, <2>2, <3>1, SoundIs, SoundStep
      <3> QED
        BY <3>2, SoundNext DEF SoundAfter
    <2> QED
      BY <2>1, <2>2 DEF IInv
  <1>3. CASE UNCHANGED vars
    <2> USE <1>3 DEF vars
    <2>1. TypeOK'
      BY <1>1 DEF TypeOK
    <2>2. CostIsSum' /\ GoneIsAbsent' /\ SourceIsLarger'
      BY <1>1 DEF CostIsSum, GoneIsAbsent, SourceIsLarger, Table
    <2>3. LocksAreOwned'
      BY <1>1 DEF LocksAreOwned, Holders, Table
    <2>4. ~overlap' => DemotionsApart' /\ BlankIsWritten' /\ FilesHavePixels'
      BY DEF IInv, DemotionsApart, Demoters, BlankIsWritten, FilesHavePixels, Table
    <2> QED
      BY <2>1, <2>2, <2>3, <2>4 DEF IInv
  <1> QED
    BY <1>2, <1>3

\* The state of the cache stays consistent: its lock words, its flags of
\* demotion and generation, its threads and its files.
THEOREM InductiveInvariant == Spec => []IInv
  <1> QED
    BY InitIInv, InvariantStep, PTL DEF Spec

\* Every variable keeps its range, and the list holds a size at most once.
THEOREM TypeCorrect == Spec => []TypeOK
  <1>1. IInv => TypeOK
    BY DEF IInv
  <1> QED
    BY InductiveInvariant, <1>1, PTL

\* dt_cache_get, _release, _gc, _remove and the demotion of mipmap_cache.c: an
\* entry is locked by exactly the threads between a get and its release.
THEOREM LocksOwned == Spec => []LocksAreOwned
  <1>1. IInv => LocksAreOwned
    BY DEF IInv
  <1> QED
    BY InductiveInvariant, <1>1, PTL

\* dt_mipmap_cache_get never returns a blank buffer, and only one thread
\* generates it, unless two readers demote on one entry at once.
THEOREM ShownGenerated == Spec => []ShownIsGenerated
  <1>1. IInv => ShownIsGenerated
    <2> SUFFICES ASSUME IInv, ~overlap
                 PROVE  /\ \A t \in Readers :
                             /\ pc[t] = "using" => entry[size[t]].data # Blank
                             /\ pc[t] = "fill" => entry[size[t]].writer = t
                        /\ \A k \in Sizes : disk[k] # Blank
      BY DEF ShownIsGenerated
    <2>1. Sound
      BY SoundIs
    <2>2. \A t \in Readers : pc[t] = "using" => entry[size[t]].data # Blank
      BY DEF IInv, BlankIsWritten
    <2>3. \A t \in Readers : pc[t] = "fill" => entry[size[t]].writer = t
      BY <2>1, FillerFacts
    <2>4. \A k \in Sizes : disk[k] # Blank
      BY DEF IInv, FilesHavePixels
    <2> QED
      BY <2>2, <2>3, <2>4
  <1> QED
    BY InductiveInvariant, <1>1, PTL

\* dt_cache_get, _gc and _remove: the cost is that of the list, and a new entry
\* finds at most 0.8 of the quota in use, or nothing that could be freed.
THEOREM QuotaKept == Spec => QuotaMet
  <1> DEFINE Enough == /\ cost' = CostOf(Table')
                       /\ \A k \in Table' \ Table :
                            \/ 10 * (cost' - Cost[k]) <= 8 * Quota
                            \/ \A i \in Table' \ {k} : ~Freeable(i)
  <1>1. IInv /\ IInv' /\ [Next]_vars => [Enough]_vars
    <2> SUFFICES ASSUME IInv, IInv', Next PROVE Enough
      OBVIOUS
    <2>1. TypeOK /\ CostIsSum /\ CostIsSum'
      BY DEF IInv
    <2>2. cost' = CostOf(Table')
      BY <2>1 DEF CostIsSum
    <2>3. \A k \in Table' \ Table : \/ 10 * (cost' - Cost[k]) <= 8 * Quota
                                    \/ \A i \in Table' \ {k} : ~Freeable(i)
      BY <2>1, QuotaStep
    <2> QED
      BY <2>2, <2>3
  <1> QED
    BY <1>1, InductiveInvariant, PTL DEF Spec, QuotaMet
==============================================================================
