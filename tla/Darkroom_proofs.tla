--------------------------- MODULE Darkroom_proofs ---------------------------
(***************************************************************************)
(* Undo and redo are one timeline, of the items and of the pictures in     *)
(* them, and the darkroom shows the picture of the last edit.              *)
(*                                                                         *)
(* First part: UndoList implements UndoTimeline, for all types, periods    *)
(* and bounds.  The promise is kept for callers that undo items of every   *)
(* type, and only while no group is open.  What must be shown of an undo   *)
(* or a redo is that the marks before the new place are even in number.    *)
(* The invariant says so of the place and of the end of the line; the      *)
(* items that are handled together then hold both marks of a group or      *)
(* none, or all that are left.                                             *)
(*                                                                         *)
(* Second part: OneTimeline of HistoryStack, for all modules, stacks and   *)
(* values.  A picture depends on the last entry of each module alone, so   *)
(* that what an edit drops, a compression takes out, a reload puts below   *)
(* and a change of focus marks does not show.  The invariant says that     *)
(* the stack shows what the controls do, and that nothing can be redone    *)
(* when an edit may be merged with the one before.                         *)
(*                                                                         *)
(* Third part: RestIsSettled of PixelPipes, for all bounds.  The invariant *)
(* says where a change that no picture shows yet is known of: in a flag, a *)
(* request, a run, or a redraw that is still to come.                      *)
(***************************************************************************)
EXTENDS UndoList, HistoryStack, PixelPipes, Lemmas

AllTypes == Filters \subseteq {Types} /\ ~Concurrent

Item == [id : 0 .. MaxItems - 1, type : Types, mark : BOOLEAN, ts : 0 .. MaxClock]

\* The line and the place of the abstract specification.
LineOf(undo, redo) == Reverse(undo) \o redo

-----------------------------------------------------------------------------
(* Places of the line.                                                     *)

LEMMA ReverseIs ==
  ASSUME NEW S, NEW s \in Seq(S)
  PROVE  /\ Reverse(s) \in Seq(S) /\ Len(Reverse(s)) = Len(s)
         /\ \A i \in 1 .. Len(s) : Reverse(s)[i] = s[(Len(s) - i) + 1]
  <1>1. Len(s) \in Nat /\ \A i \in 1 .. Len(s) : (Len(s) - i) + 1 \in 1 .. Len(s)
    OBVIOUS
  <1>2. Reverse(s) = [i \in 1 .. Len(s) |-> s[(Len(s) - i) + 1]]
    BY DEF Reverse
  <1>3. Reverse(s) \in [1 .. Len(s) -> S]
    BY <1>1, <1>2
  <1>4. Reverse(s) \in Seq(S)
    BY <1>1, <1>3
  <1> QED
    BY <1>1, <1>2, <1>3, <1>4

\* An item of the line is one of the two lists.
OnLine(S, undo, redo, l) ==
  /\ l \in Seq(S) /\ Len(l) = Len(undo) + Len(redo)
  /\ \A k \in 1 .. Len(undo) : l[k] = undo[(Len(undo) - k) + 1]
  /\ \A k \in 1 .. Len(redo) : l[Len(undo) + k] = redo[k]

LEMMA LineIs ==
  ASSUME NEW S, NEW undo \in Seq(S), NEW redo \in Seq(S)
  PROVE  OnLine(S, undo, redo, LineOf(undo, redo))
  <1> DEFINE back == Reverse(undo)
  <1>1. /\ back \in Seq(S) /\ Len(back) = Len(undo)
        /\ \A k \in 1 .. Len(undo) : back[k] = undo[(Len(undo) - k) + 1]
    BY ReverseIs
  <1> HIDE DEF back
  <1> DEFINE l == back \o redo
  <1>2. l \in Seq(S) /\ Len(l) = Len(undo) + Len(redo)
    <2>1. back \in Seq(S) /\ redo \in Seq(S) /\ Len(back) = Len(undo)
      BY <1>1
    <2>2. l \in Seq(S)
      BY <2>1
    <2>3. Len(l) = Len(back) + Len(redo)
      BY <2>1
    <2> QED
      BY <2>1, <2>2, <2>3
  <1>3. ASSUME NEW k \in 1 .. Len(undo) PROVE l[k] = back[k]
    BY <1>1
  <1>4. ASSUME NEW k \in 1 .. Len(redo) PROVE l[Len(undo) + k] = redo[k]
    BY <1>1
  <1> HIDE DEF l
  <1> QED
    BY <1>1, <1>2, <1>3, <1>4 DEF LineOf, OnLine, back, l

\* Two lines with equal items are equal.
LEMMA SameLine ==
  ASSUME NEW S, NEW s \in Seq(S), NEW t \in Seq(S), Len(s) = Len(t),
         \A k \in 1 .. Len(s) : s[k] = t[k]
  PROVE  s = t
  OBVIOUS

\* Undoing the items up to j, or redoing them, leaves the line as it is.
LEMMA LineKept ==
  ASSUME NEW S, NEW undo \in Seq(S), NEW redo \in Seq(S), NEW j \in 1 .. Len(undo)
  PROVE  LET undo2 == SubSeq(undo, j + 1, Len(undo))
             redo2 == Reverse(SubSeq(undo, 1, j)) \o redo
         IN  /\ undo2 \in Seq(S) /\ redo2 \in Seq(S) /\ Len(undo2) = Len(undo) - j
             /\ LineOf(undo2, redo2) = LineOf(undo, redo)
  <1> DEFINE undo2 == SubSeq(undo, j + 1, Len(undo))
             top == SubSeq(undo, 1, j)
             back == Reverse(top)
             redo2 == back \o redo
             n == Len(undo)
             m == Len(redo)
  <1>1. n \in Nat /\ m \in Nat /\ j \in Nat /\ j <= n /\ n - j \in Nat
    OBVIOUS
  <1>2. /\ undo2 \in Seq(S) /\ Len(undo2) = n - j
        /\ \A k \in 1 .. n - j : undo2[k] = undo[j + k]
    OBVIOUS
  <1>3. /\ top \in Seq(S) /\ Len(top) = j /\ \A k \in 1 .. j : top[k] = undo[k]
    OBVIOUS
  <1> HIDE DEF undo2, top
  <1>4. /\ back \in Seq(S) /\ Len(back) = j
        /\ \A k \in 1 .. j : back[k] = top[(j - k) + 1]
    BY <1>3, ReverseIs
  <1> HIDE DEF back
  <1>5. /\ redo2 \in Seq(S) /\ Len(redo2) = j + m
        /\ \A k \in 1 .. j : redo2[k] = back[k]
        /\ \A k \in 1 .. m : redo2[j + k] = redo[k]
    BY <1>4
  <1>6. /\ LineOf(undo, redo) \in Seq(S) /\ Len(LineOf(undo, redo)) = n + m
        /\ \A k \in 1 .. n : LineOf(undo, redo)[k] = undo[(n - k) + 1]
        /\ \A k \in 1 .. m : LineOf(undo, redo)[n + k] = redo[k]
    <2>1. OnLine(S, undo, redo, LineOf(undo, redo))
      BY LineIs
    <2> QED
      BY <2>1 DEF OnLine
  <1> HIDE DEF redo2
  <1>7. /\ LineOf(undo2, redo2) \in Seq(S) /\ Len(LineOf(undo2, redo2)) = (n - j) + (j + m)
        /\ \A k \in 1 .. n - j : LineOf(undo2, redo2)[k] = undo2[((n - j) - k) + 1]
        /\ \A k \in 1 .. j + m : LineOf(undo2, redo2)[(n - j) + k] = redo2[k]
    <2>1. OnLine(S, undo2, redo2, LineOf(undo2, redo2))
      BY <1>2, <1>5, LineIs
    <2> QED
      BY <1>2, <1>5, <2>1 DEF OnLine
  <1> DEFINE old == LineOf(undo, redo)
             new == LineOf(undo2, redo2)
  <1> HIDE DEF old, new, n, m
  <1>8. ASSUME NEW k \in 1 .. n + m PROVE new[k] = old[k]
    <2>1. CASE k <= n - j
      <3>1. /\ k \in 1 .. n - j /\ k \in 1 .. n /\ ((n - j) - k) + 1 \in 1 .. n - j
            /\ j + (((n - j) - k) + 1) = (n - k) + 1
        BY <1>1, <2>1
      <3> QED
        BY <1>2, <1>6, <1>7, <3>1 DEF old, new
    <2>2. CASE ~(k <= n - j) /\ k <= n
      <3> DEFINE i == k - (n - j)
      <3>1. /\ i \in 1 .. j /\ i \in 1 .. j + m /\ (n - j) + i = k /\ k \in 1 .. n
            /\ (j - i) + 1 \in 1 .. j /\ (j - i) + 1 = (n - k) + 1
        BY <1>1, <2>2
      <3> HIDE DEF i
      <3>2. new[k] = redo2[i]
        BY <1>7, <3>1 DEF new
      <3>3. redo2[i] = undo[(n - k) + 1]
        BY <1>3, <1>4, <1>5, <3>1
      <3> QED
        BY <1>6, <3>1, <3>2, <3>3 DEF old
    <2>3. CASE ~(k <= n)
      <3> DEFINE i == k - n
      <3>1. /\ i \in 1 .. m /\ n + i = k /\ j + i \in 1 .. j + m /\ (n - j) + (j + i) = k
        BY <1>1, <2>3
      <3> HIDE DEF i
      <3>2. new[k] = redo2[j + i]
        BY <1>7, <3>1 DEF new
      <3> QED
        BY <1>5, <1>6, <3>1, <3>2 DEF old
    <2> QED
      BY <2>1, <2>2, <2>3
  <1>9. Len(new) = n + m /\ Len(old) = n + m
    <2>1. (n - j) + (j + m) = n + m
      BY <1>1
    <2> QED
      BY <1>6, <1>7, <2>1 DEF old, new
  <1>10. new = old
    BY <1>6, <1>7, <1>8, <1>9, SameLine DEF old, new
  <1> QED
    BY <1>2, <1>5, <1>10 DEF undo2, redo2, back, top, old, new, n

LEMMA TurnedIs ==
  ASSUME NEW S, NEW undo \in Seq(S), NEW redo \in Seq(S),
         NEW k \in 1 .. Len(undo) + Len(redo)
  PROVE  LineOf(undo, redo)[k] = LineOf(redo, undo)[((Len(undo) + Len(redo)) - k) + 1]
  <1> DEFINE n == Len(undo)
             m == Len(redo)
  <1>1. n \in Nat /\ m \in Nat
    OBVIOUS
  <1>2. OnLine(S, undo, redo, LineOf(undo, redo)) /\ OnLine(S, redo, undo, LineOf(redo, undo))
    BY LineIs
  <1>3. /\ \A i \in 1 .. n : LineOf(undo, redo)[i] = undo[(n - i) + 1]
        /\ \A i \in 1 .. m : LineOf(undo, redo)[n + i] = redo[i]
        /\ \A i \in 1 .. m : LineOf(redo, undo)[i] = redo[(m - i) + 1]
        /\ \A i \in 1 .. n : LineOf(redo, undo)[m + i] = undo[i]
    BY <1>2 DEF OnLine
  <1> HIDE DEF n, m
  <1>4. CASE k <= n
    <2>1. /\ k \in 1 .. n /\ (n - k) + 1 \in 1 .. n
          /\ ((n + m) - k) + 1 = m + ((n - k) + 1)
      BY <1>1, <1>4 DEF n, m
    <2> QED
      BY <1>3, <2>1 DEF n, m
  <1>5. CASE ~(k <= n)
    <2> DEFINE i == k - n
    <2>1. /\ i \in 1 .. m /\ n + i = k /\ (m - i) + 1 \in 1 .. m
          /\ ((n + m) - k) + 1 = (m - i) + 1 /\ (m - ((m - i) + 1)) + 1 = i
      BY <1>1, <1>5 DEF n, m
    <2> HIDE DEF i
    <2>2. LineOf(undo, redo)[k] = redo[i]
      BY <1>3, <2>1
    <2>3. LineOf(redo, undo)[(m - i) + 1] = redo[i]
      BY <1>3, <2>1
    <2> QED
      BY <2>1, <2>2, <2>3 DEF n, m
  <1> QED
    BY <1>4, <1>5

\* What holds of undo holds of redo: it is undo of the line that is turned.
LEMMA TurnedLine ==
  ASSUME NEW S, NEW u1 \in Seq(S), NEW d1 \in Seq(S), NEW u2 \in Seq(S), NEW d2 \in Seq(S),
         LineOf(d1, u1) = LineOf(d2, u2)
  PROVE  LineOf(u1, d1) = LineOf(u2, d2)
  <1> DEFINE N == Len(u1) + Len(d1)
             l1 == LineOf(u1, d1)
             l2 == LineOf(u2, d2)
  <1>1. N \in Nat /\ Len(u2) \in Nat /\ Len(d2) \in Nat /\ Len(u1) \in Nat /\ Len(d1) \in Nat
    OBVIOUS
  <1>2. /\ OnLine(S, d1, u1, LineOf(d1, u1)) /\ OnLine(S, d2, u2, LineOf(d2, u2))
        /\ OnLine(S, u1, d1, l1) /\ OnLine(S, u2, d2, l2)
    BY LineIs
  <1>3. Len(d1) + Len(u1) = Len(d2) + Len(u2)
    BY <1>2 DEF OnLine
  <1>4. Len(u2) + Len(d2) = N
    BY <1>1, <1>3
  <1>5. /\ \A k \in 1 .. N : l1[k] = LineOf(d1, u1)[(N - k) + 1]
        /\ \A k \in 1 .. N : l2[k] = LineOf(d2, u2)[(N - k) + 1]
    <2>1. \A k \in 1 .. Len(u2) + Len(d2) :
             l2[k] = LineOf(d2, u2)[((Len(u2) + Len(d2)) - k) + 1]
      BY TurnedIs
    <2>2. \A k \in 1 .. N : l1[k] = LineOf(d1, u1)[(N - k) + 1]
      BY TurnedIs
    <2> HIDE DEF N, l1, l2
    <2> QED
      BY <1>4, <2>1, <2>2
  <1>6. /\ l1 \in Seq(S) /\ l2 \in Seq(S) /\ Len(l1) = N /\ Len(l2) = N
    BY <1>2, <1>4 DEF OnLine
  <1> HIDE DEF N, l1, l2
  <1>7. l1 = l2
    BY <1>5, <1>6, SameLine
  <1> QED
    BY <1>7 DEF l1, l2

-----------------------------------------------------------------------------
(* Counting marks.                                                         *)

Count(s, i, j) == Cardinality(Marks(s, i, j))

EvenMarks(s) == Count(s, 1, Len(s)) % 2 = 0

LEMMA CountIs ==
  ASSUME NEW s, NEW i \in Int, NEW j \in Int
  PROVE  IsFiniteSet(Marks(s, i, j)) /\ Count(s, i, j) \in Nat
  <1>1. IsFiniteSet(i .. j)
    BY FS_Interval
  <1>2. Marks(s, i, j) \in SUBSET (i .. j)
    BY DEF Marks
  <1> QED
    BY <1>1, <1>2, FS_Subset, FS_CardinalityType DEF Count

LEMMA CountSplit ==
  ASSUME NEW s, NEW i \in Int, NEW j \in Int, NEW k \in Int, i <= k + 1, k <= j
  PROVE  Count(s, i, j) = Count(s, i, k) + Count(s, k + 1, j)
  <1> DEFINE A == Marks(s, i, k)
             B == Marks(s, k + 1, j)
  <1>1. IsFiniteSet(A) /\ IsFiniteSet(B) /\ Cardinality(A) \in Nat /\ Cardinality(B) \in Nat
    <2>1. k + 1 \in Int
      OBVIOUS
    <2> QED
      BY <2>1, CountIs DEF Count
  <1>2. Marks(s, i, j) = A \cup B
    <2>1. \A p \in Int : p \in i .. j <=> (p \in i .. k \/ p \in k + 1 .. j)
      OBVIOUS
    <2> QED
      BY <2>1 DEF Marks
  <1>3. A \cap B = {}
    <2>1. \A p \in Int : ~(p \in i .. k /\ p \in k + 1 .. j)
      OBVIOUS
    <2> QED
      BY <2>1 DEF Marks
  <1> HIDE DEF A, B
  <1>4. Cardinality(A \cup B) = Cardinality(A) + Cardinality(B) - Cardinality(A \cap B)
    BY <1>1, FS_Union
  <1>5. Cardinality(A \cap B) = 0
    BY <1>3, FS_EmptySet
  <1>6. Cardinality(A \cup B) = Cardinality(A) + Cardinality(B)
    BY <1>1, <1>4, <1>5
  <1> QED
    BY <1>2, <1>6 DEF Count, A, B

\* Items that are found elsewhere, in the same order or the other way round.
Shifted(s, t, d, j) == \A k \in 1 .. j : t[d + k] = s[k]

LEMMA CountShift ==
  ASSUME NEW s, NEW t, NEW d \in Int, NEW j \in Int, Shifted(s, t, d, j)
  PROVE  Count(t, d + 1, d + j) = Count(s, 1, j)
  <1> DEFINE A == Marks(s, 1, j)
             B == Marks(t, d + 1, d + j)
             f == [k \in A |-> d + k]
  <1>1. \A k \in A : k \in 1 .. j /\ s[k].mark
    BY DEF Marks
  <1>2. \A k \in A : f[k] \in B
    <2>1. \A k \in 1 .. j : d + k \in d + 1 .. d + j
      OBVIOUS
    <2> QED
      BY <1>1, <2>1 DEF Marks, Shifted
  <1>3. \A p \in B : \E k \in A : f[k] = p
    <2> SUFFICES ASSUME NEW p \in B PROVE p - d \in A /\ f[p - d] = p
      OBVIOUS
    <2>1. p \in d + 1 .. d + j /\ t[p].mark
      BY DEF Marks
    <2>2. p - d \in 1 .. j /\ d + (p - d) = p
      BY <2>1
    <2>3. p - d \in A
      BY <2>1, <2>2 DEF Marks, Shifted
    <2> QED
      BY <2>2, <2>3
  <1>4. \A k, l \in A : f[k] = f[l] => k = l
    BY <1>1
  <1>5. IsFiniteSet(A)
    BY CountIs
  <1>6. ExistsBijection(A, B)
    <2>1. f \in [A -> B]
      BY <1>2
    <2> HIDE DEF f, A, B
    <2>2. f \in Injection(A, B)
      BY <1>4, <2>1 DEF Injection, IsInjective
    <2>3. f \in Surjection(A, B)
      BY <1>3, <2>1 DEF Surjection
    <2>4. f \in Bijection(A, B)
      BY <2>2, <2>3 DEF Bijection
    <2> QED
      BY <2>4 DEF ExistsBijection
  <1> HIDE DEF A, B
  <1>7. Cardinality(B) = Cardinality(A)
    BY <1>5, <1>6, FS_Bijection
  <1> QED
    BY <1>7 DEF Count, A, B

LEMMA CountReflect ==
  ASSUME NEW s, NEW t, NEW d \in Int, NEW j \in Int,
         \A k \in 1 .. j : t[(d - k) + 1] = s[k]
  PROVE  Count(t, (d - j) + 1, d) = Count(s, 1, j)
  <1> DEFINE A == Marks(s, 1, j)
             B == Marks(t, (d - j) + 1, d)
             f == [k \in A |-> (d - k) + 1]
  <1>1. \A k \in A : k \in 1 .. j /\ s[k].mark
    BY DEF Marks
  <1>2. \A k \in A : f[k] \in B
    <2>1. \A k \in 1 .. j : (d - k) + 1 \in (d - j) + 1 .. d
      OBVIOUS
    <2> QED
      BY <1>1, <2>1 DEF Marks
  <1>3. \A p \in B : \E k \in A : f[k] = p
    <2> SUFFICES ASSUME NEW p \in B PROVE (d - p) + 1 \in A /\ f[(d - p) + 1] = p
      OBVIOUS
    <2>1. p \in (d - j) + 1 .. d /\ t[p].mark
      BY DEF Marks
    <2>2. (d - p) + 1 \in 1 .. j /\ (d - ((d - p) + 1)) + 1 = p
      BY <2>1
    <2>3. (d - p) + 1 \in A
      BY <2>1, <2>2 DEF Marks
    <2> QED
      BY <2>2, <2>3
  <1>4. \A k, l \in A : f[k] = f[l] => k = l
    BY <1>1
  <1>5. IsFiniteSet(A)
    BY CountIs
  <1>6. ExistsBijection(A, B)
    <2>1. f \in [A -> B]
      BY <1>2
    <2> HIDE DEF f, A, B
    <2>2. f \in Injection(A, B)
      BY <1>4, <2>1 DEF Injection, IsInjective
    <2>3. f \in Surjection(A, B)
      BY <1>3, <2>1 DEF Surjection
    <2>4. f \in Bijection(A, B)
      BY <2>2, <2>3 DEF Bijection
    <2> QED
      BY <2>4 DEF ExistsBijection
  <1> HIDE DEF A, B
  <1>7. Cardinality(B) = Cardinality(A)
    BY <1>5, <1>6, FS_Bijection
  <1> QED
    BY <1>7 DEF Count, A, B

LEMMA ParityIs ==
  ASSUME NEW a \in Nat, NEW b \in Nat
  PROVE  /\ a % 2 \in {0, 1}
         /\ a % 2 = 0 => ((a + b) % 2 = 0 <=> b % 2 = 0)
         /\ b % 2 = 0 => ((a + b) % 2 = 0 <=> a % 2 = 0)
         /\ (1 + a) % 2 = 0 <=> ~(a % 2 = 0)
  OBVIOUS

LEMMA MarkOf ==
  ASSUME NEW s, NEW k \in Int
  PROVE  Count(s, k, k) = IF s[k].mark THEN 1 ELSE 0
  <1>1. Marks(s, k, k) = IF s[k].mark THEN {k} ELSE {}
    <2>1. k .. k = {k}
      OBVIOUS
    <2> QED
      BY <2>1 DEF Marks
  <1>2. Cardinality({k}) = 1
    BY FS_Singleton
  <1>3. Cardinality({}) = 0
    BY FS_EmptySet
  <1> QED
    BY <1>1, <1>2, <1>3 DEF Count

\* A mark that is recorded opens or closes a group; a change does neither.
LEMMA RecordMarks ==
  ASSUME NEW s \in Seq(Item), NEW x \in Item
  PROVE  /\ x.mark => (EvenMarks(<<x>> \o s) <=> ~EvenMarks(s))
         /\ ~x.mark => (EvenMarks(<<x>> \o s) <=> EvenMarks(s))
  <1> DEFINE n == Len(s)
             t == <<x>> \o s
  <1>1. n \in Nat /\ Len(t) = 1 + n /\ t[1] = x /\ \A k \in 1 .. n : t[1 + k] = s[k]
    OBVIOUS
  <1> HIDE DEF n, t
  <1>2. Count(t, 1 + 1, 1 + n) = Count(s, 1, n)
    <2>1. Shifted(s, t, 1, n)
      BY <1>1 DEF Shifted
    <2> QED
      BY <1>1, <2>1, CountShift
  <1>3. Count(t, 1, 1 + n) = Count(t, 1, 1) + Count(t, 1 + 1, 1 + n)
    BY <1>1, CountSplit
  <1>4. Count(t, 1, 1) = IF x.mark THEN 1 ELSE 0
    BY <1>1, MarkOf
  <1> DEFINE c == Count(s, 1, n)
  <1>5. c \in Nat
    BY <1>1, CountIs
  <1>6. Count(t, 1, 1 + n) = (IF x.mark THEN 1 ELSE 0) + c
    BY <1>2, <1>3, <1>4
  <1> HIDE DEF c
  <1>7. /\ x.mark => (Count(t, 1, 1 + n) % 2 = 0 <=> ~(c % 2 = 0))
        /\ ~x.mark => (Count(t, 1, 1 + n) % 2 = 0 <=> c % 2 = 0)
    <2>1. (1 + c) % 2 = 0 <=> ~(c % 2 = 0)
      BY <1>5, ParityIs
    <2>2. 0 + c = c
      BY <1>5
    <2> QED
      BY <1>6, <2>1, <2>2
  <1>8. EvenMarks(t) <=> Count(t, 1, 1 + n) % 2 = 0
    BY <1>1 DEF EvenMarks
  <1>9. EvenMarks(s) <=> c % 2 = 0
    BY DEF EvenMarks, c, n
  <1> QED
    BY <1>7, <1>8, <1>9 DEF t

\* A move of whole groups leaves whole groups in both lists.
LEMMA MoveMarks ==
  ASSUME NEW undo \in Seq(Item), NEW redo \in Seq(Item), NEW j \in 1 .. Len(undo),
         EvenMarks(undo), EvenMarks(redo), Count(undo, 1, j) % 2 = 0
  PROVE  /\ EvenMarks(SubSeq(undo, j + 1, Len(undo)))
         /\ EvenMarks(Reverse(SubSeq(undo, 1, j)) \o redo)
  <1> DEFINE n == Len(undo)
             m == Len(redo)
             undo2 == SubSeq(undo, j + 1, Len(undo))
             top == SubSeq(undo, 1, j)
             back == Reverse(top)
             redo2 == back \o redo
  <1>1. n \in Nat /\ m \in Nat /\ j \in Nat /\ 1 <= j /\ j <= n /\ n - j \in Nat
    OBVIOUS
  <1>2. Len(undo2) = n - j /\ \A k \in 1 .. n - j : undo[j + k] = undo2[k]
    OBVIOUS
  <1>3. top \in Seq(Item) /\ Len(top) = j /\ \A k \in 1 .. j : top[k] = undo[k]
    OBVIOUS
  <1> HIDE DEF undo2, top
  <1>4. /\ back \in Seq(Item) /\ Len(back) = j
        /\ \A k \in 1 .. j : back[k] = top[(j - k) + 1]
    BY <1>3, ReverseIs
  <1> HIDE DEF back
  <1>5. /\ Len(redo2) = j + m
        /\ \A k \in 1 .. j : redo2[k] = back[k]
        /\ \A k \in 1 .. m : redo2[j + k] = redo[k]
    BY <1>4
  <1> HIDE DEF redo2
  <1>6. \A k \in 1 .. j : redo2[(j - k) + 1] = undo[k]
    <2> SUFFICES ASSUME NEW k \in 1 .. j PROVE redo2[(j - k) + 1] = undo[k]
      OBVIOUS
    <2>1. (j - k) + 1 \in 1 .. j /\ (j - ((j - k) + 1)) + 1 = k
      BY <1>1
    <2> QED
      BY <1>3, <1>4, <1>5, <2>1
  <1>7. EvenMarks(undo) <=> Count(undo, 1, n) % 2 = 0
    BY DEF EvenMarks
  <1>8. EvenMarks(redo) <=> Count(redo, 1, m) % 2 = 0
    BY DEF EvenMarks
  <1> HIDE DEF n, m
  <1>9. EvenMarks(undo2)
    <2>1. Count(undo, j + 1, j + (n - j)) = Count(undo2, 1, n - j)
      <3>1. Shifted(undo2, undo, j, n - j)
        BY <1>2 DEF Shifted
      <3> QED
        BY <1>1, <3>1, CountShift
    <2>2. j + (n - j) = n
      BY <1>1
    <2>3. Count(undo, 1, n) = Count(undo, 1, j) + Count(undo, j + 1, n)
      BY <1>1, CountSplit
    <2>4. Count(undo, 1, j) \in Nat /\ Count(undo, j + 1, n) \in Nat
      BY <1>1, CountIs
    <2>5. Count(undo, j + 1, n) % 2 = 0
      BY <1>7, <2>3, <2>4, ParityIs
    <2> QED
      BY <1>2, <2>1, <2>2, <2>5 DEF EvenMarks
  <1>10. EvenMarks(redo2)
    <2>1. Count(redo2, (j - j) + 1, j) = Count(undo, 1, j)
      BY <1>1, <1>6, CountReflect
    <2>2. (j - j) + 1 = 1
      BY <1>1
    <2>3. Count(redo2, j + 1, j + m) = Count(redo, 1, m)
      <3>1. Shifted(redo, redo2, j, m)
        BY <1>5 DEF Shifted
      <3> QED
        BY <1>1, <3>1, CountShift
    <2>4. Count(redo2, 1, j + m) = Count(redo2, 1, j) + Count(redo2, j + 1, j + m)
      BY <1>1, CountSplit
    <2>5. Count(redo2, 1, j) \in Nat /\ Count(redo2, j + 1, j + m) \in Nat
      BY <1>1, CountIs
    <2>6. Count(redo2, 1, j) % 2 = 0 /\ Count(redo2, j + 1, j + m) % 2 = 0
      BY <1>8, <2>1, <2>2, <2>3
    <2>7. Count(redo2, 1, j + m) % 2 = 0
      BY <2>4, <2>5, <2>6, ParityIs
    <2> QED
      BY <1>5, <2>7 DEF EvenMarks
  <1> QED
    BY <1>9, <1>10 DEF undo2, redo2, back, top

\* The changes in effect are those of the undo list.
LEMMA WholeIs ==
  ASSUME NEW undo \in Seq(Item), NEW redo \in Seq(Item), EvenMarks(undo)
  PROVE  Count(LineOf(undo, redo), 1, Len(undo)) % 2 = 0
  <1> DEFINE n == Len(undo)
             l == LineOf(undo, redo)
  <1>1. n \in Nat
    OBVIOUS
  <1>2. \A k \in 1 .. n : l[k] = undo[(n - k) + 1]
    <2>1. OnLine(Item, undo, redo, l)
      BY LineIs
    <2> QED
      BY <2>1 DEF OnLine
  <1>3. Count(undo, 1, n) % 2 = 0
    BY DEF EvenMarks
  <1> HIDE DEF n, l
  <1>4. \A k \in 1 .. n : l[(n - k) + 1] = undo[k]
    <2> SUFFICES ASSUME NEW k \in 1 .. n PROVE l[(n - k) + 1] = undo[k]
      OBVIOUS
    <2>1. (n - k) + 1 \in 1 .. n /\ (n - ((n - k) + 1)) + 1 = k
      BY <1>1
    <2> QED
      BY <1>2, <2>1
  <1>5. Count(l, (n - n) + 1, n) = Count(undo, 1, n)
    BY <1>1, <1>4, CountReflect
  <1>6. (n - n) + 1 = 1
    BY <1>1
  <1> QED
    BY <1>3, <1>5, <1>6 DEF n, l

-----------------------------------------------------------------------------
(* The items that one undo handles.                                        *)

\* Of a list of whole groups, an undo of every type takes whole groups.
LEMMA LastIs ==
  ASSUME NEW s \in Seq(Item), s # <<>>, EvenMarks(s)
  PROVE  LastOf(s, 1, Types) \in 1 .. Len(s) /\ Count(s, 1, LastOf(s, 1, Types)) % 2 = 0
  <1> DEFINE n == Len(s)
             j == LastOf(s, 1, Types)
  <1>1. n \in Nat /\ 1 <= n /\ n \in 1 .. n
    OBVIOUS
  <1>2. Count(s, 1, n) % 2 = 0
    BY DEF EvenMarks
  <1>3. CASE s[1].mark
    <2> DEFINE T == Marks(s, 2, n) \cup {n}
    <2>1. j = Min(T)
      <3>1. 1 + 1 = 2
        OBVIOUS
      <3> QED
        BY <1>3, <3>1 DEF LastOf
    <2>2. /\ T # {} /\ T \in SUBSET Nat /\ T \subseteq 1 .. n
          /\ \A k \in Marks(s, 2, n) : k \in 2 .. n
      BY <1>1 DEF Marks
    <2>3. j \in T /\ \A k \in T : j <= k
      <3> HIDE DEF T, j
      <3> QED
        BY <2>1, <2>2, MinIs
    <2> HIDE DEF j
    <2>4. CASE j = n
      BY <1>1, <1>2, <2>4 DEF j
    <2>5. CASE j # n
      <3>1. j \in Marks(s, 2, n)
        BY <2>3, <2>5
      <3>2. j \in Nat /\ 2 <= j /\ j <= n /\ j \in 1 .. n
        BY <1>1, <2>2, <3>1
      <3>3. Marks(s, 2, j) = {j}
        <4>1. j \in Marks(s, 2, j)
          BY <3>1, <3>2 DEF Marks
        <4>2. ASSUME NEW k \in Marks(s, 2, j) PROVE k = j
          <5>1. k \in 2 .. j /\ s[k].mark
            BY DEF Marks
          <5>2. k \in 2 .. n
            BY <1>1, <3>2, <5>1
          <5>3. k \in Marks(s, 2, n)
            BY <5>1, <5>2 DEF Marks
          <5>4. j <= k
            BY <2>3, <5>3
          <5> QED
            BY <3>2, <5>1, <5>4
        <4> QED
          BY <4>1, <4>2
      <3>4. Count(s, 2, j) = 1
        BY <3>3, FS_Singleton DEF Count
      <3>5. Count(s, 1, 1) = 1
        BY <1>3, MarkOf
      <3>6. Count(s, 1, j) = Count(s, 1, 1) + Count(s, 1 + 1, j)
        BY <3>2, CountSplit
      <3>7. Count(s, 1, j) = 2 /\ 2 % 2 = 0
        BY <3>4, <3>5, <3>6
      <3> QED
        BY <3>2, <3>7 DEF j
    <2> QED
      BY <2>4, <2>5
  <1>4. CASE ~s[1].mark
    <2> DEFINE T == {k \in 1 .. n : ~Continues(s, 1, k, Types)}
    <2>1. j = Min(T)
      BY <1>4 DEF LastOf
    <2>2. T # {} /\ T \in SUBSET Nat
      <3>1. ~(n < n)
        BY <1>1
      <3>2. n \in T
        BY <1>1, <3>1 DEF Continues
      <3> QED
        BY <3>2
    <2>3. j \in T
      <3> HIDE DEF T, j
      <3> QED
        BY <2>1, <2>2, MinIs
    <2> HIDE DEF j
    <2>4. j \in 1 .. n /\ j \in Nat /\ ~Continues(s, 1, j, Types)
      BY <2>3
    <2>5. CASE j = n
      BY <1>1, <1>2, <2>5 DEF j
    <2>6. CASE j # n
      <3>1. j < n /\ j + 1 \in 1 .. n
        BY <1>1, <2>4, <2>6
      <3>2. s[j + 1] \in Item
        BY <3>1
      <3>3. Matches(s[j + 1], Types)
        BY <3>2 DEF Matches, Item
      <3>4. Count(s, 1, j) % 2 # 1
        BY <2>4, <3>1, <3>3 DEF Continues, Count
      <3>5. Count(s, 1, j) \in Nat
        BY <2>4, CountIs
      <3>6. Count(s, 1, j) % 2 = 0
        BY <3>4, <3>5, ParityIs
      <3> QED
        BY <2>4, <3>6 DEF j
    <2> QED
      BY <2>5, <2>6
  <1> QED
    BY <1>3, <1>4

-----------------------------------------------------------------------------
(* The invariant.                                                          *)

\* Both lists, and the group that is open.
ListsGood(undo, redo, g) ==
  /\ undo \in Seq(Item) /\ redo \in Seq(Item)
  /\ g \in Types \cup {"none"}
  /\ EvenMarks(undo) <=> g = "none"
  /\ EvenMarks(redo)

\* A record that is disabled lies within a group, and every group is closed
\* at the level at which it was opened.
GroupGood(g, indent, disabled) ==
  /\ indent \in Nat /\ disabled \in BOOLEAN
  /\ indent > 0 <=> g # "none"
  /\ g = "none" => ~disabled

UInv ==
  /\ ListsGood(undoList, redoList, group)
  /\ GroupGood(group, groupIndent, disableNext)
  /\ recorded \in 0 .. MaxItems /\ clock \in 0 .. MaxClock

LEMMA Given ==
  ASSUME AllTypes
  PROVE  /\ MaxItems \in Nat /\ MaxIndent \in Nat /\ MaxClock \in Nat
         /\ Filters \subseteq {Types} /\ Concurrent = FALSE /\ "none" \notin Types
  BY UndoAssumption DEF AllTypes

LEMMA NoItems == <<>> \in Seq(Item) /\ EvenMarks(<<>>) /\ LineOf(<<>>, <<>>) = <<>>
  <1>1. Marks(<<>>, 1, 0) = {}
    BY DEF Marks
  <1>2. Len(<<>>) = 0 /\ <<>> \in Seq(Item)
    OBVIOUS
  <1>3. Count(<<>>, 1, 0) = 0 /\ 0 % 2 = 0
    BY <1>1, FS_EmptySet DEF Count
  <1>4. Reverse(<<>>) \in Seq(Item) /\ Len(Reverse(<<>>)) = 0
    BY <1>2, ReverseIs
  <1>5. LineOf(<<>>, <<>>) = <<>>
    BY <1>4 DEF LineOf
  <1> QED
    BY <1>2, <1>3, <1>5 DEF EvenMarks

\* A record ends the line at its place.
LEMMA RecordLine ==
  ASSUME NEW undo \in Seq(Item), NEW redo \in Seq(Item), NEW x \in Item
  PROVE  /\ LineOf(<<x>> \o undo, <<>>) = Append(SubSeq(LineOf(undo, redo), 1, Len(undo)), x)
         /\ <<x>> \o undo \in Seq(Item) /\ Len(<<x>> \o undo) = Len(undo) + 1
  <1> DEFINE n == Len(undo)
             undo2 == <<x>> \o undo
             old == LineOf(undo, redo)
             new == LineOf(undo2, <<>>)
             cut == SubSeq(old, 1, n)
             end == Append(cut, x)
  <1>1. /\ n \in Nat /\ Len(redo) \in Nat /\ undo2 \in Seq(Item) /\ Len(undo2) = n + 1
        /\ undo2[1] = x /\ \A k \in 1 .. n : undo2[k + 1] = undo[k]
    OBVIOUS
  <1> HIDE DEF undo2
  <1>2. /\ old \in Seq(Item) /\ Len(old) = n + Len(redo)
        /\ \A k \in 1 .. n : old[k] = undo[(n - k) + 1]
    <2>1. OnLine(Item, undo, redo, old)
      BY LineIs
    <2> QED
      BY <2>1 DEF OnLine
  <1>3. /\ new \in Seq(Item) /\ Len(new) = (n + 1) + 0
        /\ \A k \in 1 .. n + 1 : new[k] = undo2[((n + 1) - k) + 1]
    <2>1. <<>> \in Seq(Item) /\ Len(<<>>) = 0
      OBVIOUS
    <2>2. OnLine(Item, undo2, <<>>, new)
      BY <1>1, <2>1, LineIs
    <2> QED
      BY <1>1, <2>1, <2>2 DEF OnLine
  <1> HIDE DEF n, old, new
  <1>4. cut \in Seq(Item) /\ Len(cut) = n /\ \A k \in 1 .. n : cut[k] = old[k]
    BY <1>1, <1>2
  <1> HIDE DEF cut
  <1>5. /\ end \in Seq(Item) /\ Len(end) = n + 1 /\ end[n + 1] = x
        /\ \A k \in 1 .. n : end[k] = cut[k]
    BY <1>1, <1>4
  <1> HIDE DEF end
  <1>6. ASSUME NEW k \in 1 .. n + 1 PROVE new[k] = end[k]
    <2>1. CASE k = n + 1
      <3>1. ((n + 1) - k) + 1 = 1
        BY <1>1, <2>1
      <3> QED
        BY <1>1, <1>3, <1>5, <2>1, <3>1
    <2>2. CASE k # n + 1
      <3>1. k \in 1 .. n /\ (n - k) + 1 \in 1 .. n /\ ((n + 1) - k) + 1 = ((n - k) + 1) + 1
        BY <1>1, <2>2
      <3>2. new[k] = undo2[((n - k) + 1) + 1]
        BY <1>3, <3>1
      <3>3. undo2[((n - k) + 1) + 1] = undo[(n - k) + 1]
        BY <1>1, <3>1
      <3> QED
        BY <1>2, <1>4, <1>5, <3>1, <3>2, <3>3
    <2> QED
      BY <2>1, <2>2
  <1>7. Len(new) = n + 1
    BY <1>1, <1>3
  <1>8. new = end
    BY <1>3, <1>5, <1>6, <1>7, SameLine
  <1> QED
    BY <1>1, <1>8 DEF new, end, cut, old, undo2, n

-----------------------------------------------------------------------------
(* What each step does to the lists.                                       *)

\* A step of the abstract specification, from the lists before to those after.
RecordStep(undo, redo, undo2, redo2) ==
  /\ \E x \in Item :
       LineOf(undo2, redo2) = Append(SubSeq(LineOf(undo, redo), 1, Len(undo)), x)
  /\ Len(undo2) = Len(undo) + 1

MoveStep(undo, redo, undo2, redo2) ==
  /\ Len(undo2) \in 0 .. Len(LineOf(undo, redo)) /\ Len(undo2) # Len(undo)
  /\ Count(LineOf(undo, redo), 1, Len(undo2)) % 2 = 0
  /\ LineOf(undo2, redo2) = LineOf(undo, redo)

LEMMA OneRecord ==
  ASSUME NEW undo, NEW redo, NEW g, ListsGood(undo, redo, g), NEW x \in Item,
         NEW g2 \in Types \cup {"none"},
         x.mark => (g2 = "none" <=> g # "none"), ~x.mark => g2 = g
  PROVE  /\ ListsGood(<<x>> \o undo, <<>>, g2)
         /\ RecordStep(undo, redo, <<x>> \o undo, <<>>)
  <1>1. undo \in Seq(Item) /\ redo \in Seq(Item) /\ (EvenMarks(undo) <=> g = "none")
    BY DEF ListsGood
  <1>2. /\ x.mark => (EvenMarks(<<x>> \o undo) <=> ~EvenMarks(undo))
        /\ ~x.mark => (EvenMarks(<<x>> \o undo) <=> EvenMarks(undo))
    BY <1>1, RecordMarks
  <1>3. x.mark \in BOOLEAN
    BY DEF Item
  <1>4. EvenMarks(<<x>> \o undo) <=> g2 = "none"
    BY <1>1, <1>2, <1>3
  <1>5. /\ LineOf(<<x>> \o undo, <<>>) = Append(SubSeq(LineOf(undo, redo), 1, Len(undo)), x)
        /\ <<x>> \o undo \in Seq(Item) /\ Len(<<x>> \o undo) = Len(undo) + 1
    BY <1>1, RecordLine
  <1>6. ListsGood(<<x>> \o undo, <<>>, g2)
    BY <1>4, <1>5, NoItems DEF ListsGood
  <1>7. RecordStep(undo, redo, <<x>> \o undo, <<>>)
    BY <1>5 DEF RecordStep
  <1> QED
    BY <1>6, <1>7

\* An undo; a redo is the same with the lists swapped.
LEMMA OneMove ==
  ASSUME AllTypes, NEW from, NEW to, ListsGood(from, to, "none"),
         NEW i \in DOMAIN from, IsFirst(from, i, Types),
         NEW j, j = LastOf(from, i, Types)
  PROVE  LET from2 == Rest(from, i, j)
             to2 == Reverse(SubSeq(from, i, j)) \o to
         IN  /\ ListsGood(from2, to2, "none")
             /\ LineOf(from2, to2) = LineOf(from, to)
             /\ Len(from2) \in 0 .. Len(from) - 1
  <1> DEFINE n == Len(from)
             from2 == SubSeq(from, j + 1, n)
             to2 == Reverse(SubSeq(from, 1, j)) \o to
  <1>1. from \in Seq(Item) /\ to \in Seq(Item) /\ EvenMarks(from) /\ EvenMarks(to)
    BY DEF ListsGood
  <1>2. i \in 1 .. n /\ n \in Nat /\ from # <<>>
    BY <1>1
  <1>3. i = 1
    <2>1. SUFFICES ASSUME i # 1 PROVE FALSE
      OBVIOUS
    <2>2. 1 \in 1 .. i - 1 /\ 1 \in 1 .. n
      BY <1>2, <2>1
    <2>3. from[1] \in Item
      BY <1>1, <2>2
    <2>4. Matches(from[1], Types)
      BY <2>3 DEF Matches, Item
    <2> QED
      BY <2>2, <2>4 DEF IsFirst
  <1>4. j \in 1 .. n /\ Count(from, 1, j) % 2 = 0
    BY <1>1, <1>2, <1>3, LastIs
  <1>5. /\ from2 \in Seq(Item) /\ to2 \in Seq(Item) /\ Len(from2) = n - j
        /\ LineOf(from2, to2) = LineOf(from, to)
    BY <1>1, <1>4, LineKept
  <1>6. EvenMarks(from2) /\ EvenMarks(to2)
    BY <1>1, <1>4, MoveMarks
  <1>7. Rest(from, i, j) = from2
    <2>1. SubSeq(from, 1, i - 1) = <<>>
      BY <1>1, <1>3
    <2>2. <<>> \o from2 = from2
      BY <1>5
    <2> QED
      BY <2>1, <2>2 DEF Rest
  <1>8. n - j \in 0 .. n - 1
    BY <1>2, <1>4
  <1> HIDE DEF n, from2, to2
  <1>9. ListsGood(from2, to2, "none")
    BY <1>5, <1>6 DEF ListsGood
  <1> QED
    BY <1>3, <1>5, <1>7, <1>8, <1>9 DEF n, from2, to2

LEMMA MoveIs ==
  ASSUME NEW undo, NEW redo, NEW undo2, NEW redo2,
         ListsGood(undo, redo, "none"), ListsGood(undo2, redo2, "none"),
         LineOf(undo2, redo2) = LineOf(undo, redo), Len(undo2) # Len(undo)
  PROVE  MoveStep(undo, redo, undo2, redo2)
  <1>1. undo2 \in Seq(Item) /\ redo2 \in Seq(Item) /\ EvenMarks(undo2)
    BY DEF ListsGood
  <1>2. Count(LineOf(undo, redo), 1, Len(undo2)) % 2 = 0
    BY <1>1, WholeIs
  <1>3. Len(LineOf(undo, redo)) = Len(undo2) + Len(redo2)
    BY <1>1, LineIs DEF OnLine
  <1>4. Len(undo2) \in Nat /\ Len(redo2) \in Nat
    BY <1>1
  <1>5. Len(undo2) \in 0 .. Len(undo2) + Len(redo2)
    BY <1>4
  <1> QED
    BY <1>2, <1>3, <1>5 DEF MoveStep

\* What a step does to the line: one step of the abstract specification, or
\* none.
LineStep ==
  \/ RecordStep(undoList, redoList, undoList', redoList')
  \/ MoveStep(undoList, redoList, undoList', redoList')
  \/ undoList' = <<>> /\ redoList' = <<>>
  \/ undoList' = undoList /\ redoList' = redoList

UInvNext ==
  /\ ListsGood(undoList', redoList', group')
  /\ GroupGood(group', groupIndent', disableNext')
  /\ recorded' \in 0 .. MaxItems /\ clock' \in 0 .. MaxClock

LEMMA UInvPrimed == UInvNext <=> UInv'
  BY DEF UInvNext, UInv

LEMMA RecordedIs ==
  ASSUME AllTypes, UInv, NEW type \in Types, NEW mark \in BOOLEAN, Recorded(type, mark),
         group' \in Types \cup {"none"}, ~disableNext,
         mark => (group' = "none" <=> group # "none"), ~mark => group' = group
  PROVE  /\ ListsGood(undoList', redoList', group')
         /\ RecordStep(undoList, redoList, undoList', redoList')
         /\ recorded' \in 0 .. MaxItems
  <1> DEFINE x == [id |-> recorded, type |-> type, mark |-> mark, ts |-> clock]
  <1>1. /\ recorded < MaxItems /\ recorded' = recorded + 1
        /\ undoList' = <<x>> \o undoList /\ redoList' = <<>>
    BY DEF Recorded
  <1>2. recorded \in 0 .. MaxItems - 1 /\ recorded' \in 0 .. MaxItems /\ clock \in 0 .. MaxClock
    BY <1>1, Given DEF UInv
  <1>3. x \in Item /\ x.mark = mark
    BY <1>2 DEF Item
  <1>4. ListsGood(undoList, redoList, group)
    BY DEF UInv
  <1> HIDE DEF x
  <1>5. /\ ListsGood(<<x>> \o undoList, <<>>, group')
        /\ RecordStep(undoList, redoList, <<x>> \o undoList, <<>>)
    BY <1>3, <1>4, OneRecord
  <1> QED
    BY <1>1, <1>2, <1>5

LEMMA RecordOk ==
  ASSUME AllTypes, UInv, NEW type \in Types, Record(type)
  PROVE  UInvNext /\ LineStep
  <1>1. /\ Recorded(type, FALSE) /\ disableNext' = FALSE
        /\ group' = group /\ groupIndent' = groupIndent /\ clock' = clock
    BY DEF Record
  <1>2. /\ ListsGood(undoList, redoList, group) /\ GroupGood(group, groupIndent, disableNext)
        /\ recorded \in 0 .. MaxItems /\ clock \in 0 .. MaxClock
    BY DEF UInv
  <1>3. GroupGood(group', groupIndent', disableNext')
    BY <1>1, <1>2 DEF GroupGood
  <1>4. CASE disableNext
    <2>1. undoList' = undoList /\ redoList' = redoList /\ recorded' = recorded
      BY <1>1, <1>4 DEF Recorded
    <2> QED
      BY <1>1, <1>2, <1>3, <2>1 DEF UInvNext, LineStep
  <1>5. CASE ~disableNext
    <2>1. group \in Types \cup {"none"}
      BY <1>2 DEF ListsGood
    <2>2. /\ ListsGood(undoList', redoList', group')
          /\ RecordStep(undoList, redoList, undoList', redoList')
          /\ recorded' \in 0 .. MaxItems
      BY <1>1, <1>5, <2>1, RecordedIs
    <2> QED
      BY <1>1, <1>2, <1>3, <2>2 DEF UInvNext, LineStep
  <1> QED
    BY <1>4, <1>5

LEMMA StartGroupOk ==
  ASSUME AllTypes, UInv, NEW type \in Types, StartGroup(type)
  PROVE  UInvNext /\ LineStep
  <1>1. groupIndent' = groupIndent + 1 /\ clock' = clock
    BY DEF StartGroup
  <1>2. /\ ListsGood(undoList, redoList, group) /\ GroupGood(group, groupIndent, disableNext)
        /\ recorded \in 0 .. MaxItems /\ clock \in 0 .. MaxClock
    BY DEF UInv
  <1>3. groupIndent \in Nat /\ groupIndent + 1 \in Nat /\ groupIndent + 1 > 0
    BY <1>2 DEF GroupGood
  <1>4. CASE group = "none"
    <2>1. group' = type /\ Recorded(type, TRUE) /\ disableNext' = FALSE
      BY <1>4 DEF StartGroup
    <2>2. ~disableNext /\ type # "none"
      BY <1>2, <1>4, Given DEF GroupGood
    <2>3. GroupGood(group', groupIndent', disableNext')
      BY <1>1, <1>3, <2>1, <2>2 DEF GroupGood
    <2>4. /\ ListsGood(undoList', redoList', group')
          /\ RecordStep(undoList, redoList, undoList', redoList')
          /\ recorded' \in 0 .. MaxItems
      BY <1>4, <2>1, <2>2, RecordedIs
    <2> QED
      BY <1>1, <1>2, <2>3, <2>4 DEF UInvNext, LineStep
  <1>5. CASE group # "none"
    <2>1. /\ undoList' = undoList /\ redoList' = redoList /\ group' = group
          /\ disableNext' = disableNext /\ recorded' = recorded
      BY <1>5 DEF StartGroup
    <2>2. GroupGood(group', groupIndent', disableNext')
      BY <1>1, <1>2, <1>3, <1>5, <2>1 DEF GroupGood
    <2> QED
      BY <1>1, <1>2, <2>1, <2>2 DEF UInvNext, LineStep
  <1> QED
    BY <1>4, <1>5

LEMMA EndGroupOk ==
  ASSUME AllTypes, UInv, EndGroup
  PROVE  UInvNext /\ LineStep
  <1>1. /\ groupIndent > 0 /\ ~disableNext /\ groupIndent' = groupIndent - 1
        /\ disableNext' = disableNext /\ clock' = clock
    BY DEF EndGroup
  <1>2. /\ ListsGood(undoList, redoList, group) /\ GroupGood(group, groupIndent, disableNext)
        /\ recorded \in 0 .. MaxItems /\ clock \in 0 .. MaxClock
    BY DEF UInv
  <1>3. groupIndent \in Nat /\ group # "none" /\ group \in Types
    BY <1>1, <1>2 DEF GroupGood, ListsGood
  <1>4. CASE groupIndent = 1
    <2>1. Recorded(group, TRUE) /\ group' = "none"
      BY <1>4 DEF EndGroup
    <2>2. GroupGood(group', groupIndent', disableNext')
      BY <1>1, <1>2, <1>4, <2>1 DEF GroupGood
    <2>3. /\ ListsGood(undoList', redoList', group')
          /\ RecordStep(undoList, redoList, undoList', redoList')
          /\ recorded' \in 0 .. MaxItems
      BY <1>1, <1>3, <2>1, RecordedIs
    <2> QED
      BY <1>1, <1>2, <2>2, <2>3 DEF UInvNext, LineStep
  <1>5. CASE groupIndent # 1
    <2>1. /\ undoList' = undoList /\ redoList' = redoList /\ group' = group
          /\ recorded' = recorded
      BY <1>5 DEF EndGroup
    <2>2. groupIndent - 1 \in Nat /\ groupIndent - 1 > 0
      BY <1>1, <1>3, <1>5
    <2>3. GroupGood(group', groupIndent', disableNext')
      BY <1>1, <1>2, <1>3, <2>1, <2>2 DEF GroupGood
    <2> QED
      BY <1>1, <1>2, <2>1, <2>3 DEF UInvNext, LineStep
  <1> QED
    BY <1>4, <1>5

LEMMA UndoOk ==
  ASSUME AllTypes, UInv, NEW filter \in Filters, Undo(filter)
  PROVE  UInvNext /\ LineStep
  <1>1. filter = Types /\ group = "none"
    BY Given DEF Undo, Reachable
  <1>2. /\ ListsGood(undoList, redoList, "none") /\ GroupGood(group, groupIndent, disableNext)
        /\ recorded \in 0 .. MaxItems /\ clock \in 0 .. MaxClock
    BY <1>1 DEF UInv
  <1>3. PICK i \in DOMAIN undoList :
          /\ IsFirst(undoList, i, Types)
          /\ undoList' = Rest(undoList, i, LastOf(undoList, i, Types))
          /\ redoList' = Reverse(SubSeq(undoList, i, LastOf(undoList, i, Types))) \o redoList
    BY <1>1 DEF Undo
  <1>4. /\ group' = group /\ groupIndent' = groupIndent /\ disableNext' = disableNext
        /\ recorded' = recorded /\ clock' = clock
    BY DEF Undo
  <1>5. /\ ListsGood(undoList', redoList', "none")
        /\ LineOf(undoList', redoList') = LineOf(undoList, redoList)
        /\ Len(undoList') \in 0 .. Len(undoList) - 1
    BY <1>2, <1>3, OneMove
  <1>6. Len(undoList') # Len(undoList)
    <2>1. Len(undoList) \in Nat
      BY <1>2 DEF ListsGood
    <2> QED
      BY <1>5, <2>1
  <1>7. MoveStep(undoList, redoList, undoList', redoList')
    BY <1>2, <1>5, <1>6, MoveIs
  <1> QED
    BY <1>1, <1>2, <1>4, <1>5, <1>7 DEF UInvNext, LineStep

LEMMA RedoOk ==
  ASSUME AllTypes, UInv, NEW filter \in Filters, Redo(filter)
  PROVE  UInvNext /\ LineStep
  <1>1. filter = Types /\ group = "none"
    BY Given DEF Redo, Reachable
  <1>2. /\ ListsGood(undoList, redoList, "none") /\ GroupGood(group, groupIndent, disableNext)
        /\ recorded \in 0 .. MaxItems /\ clock \in 0 .. MaxClock
    BY <1>1 DEF UInv
  <1>3. PICK i \in DOMAIN redoList :
          /\ IsFirst(redoList, i, Types)
          /\ redoList' = Rest(redoList, i, LastOf(redoList, i, Types))
          /\ undoList' = Reverse(SubSeq(redoList, i, LastOf(redoList, i, Types))) \o undoList
    BY <1>1 DEF Redo
  <1>4. /\ group' = group /\ groupIndent' = groupIndent /\ disableNext' = disableNext
        /\ recorded' = recorded /\ clock' = clock
    BY DEF Redo
  <1>5. ListsGood(redoList, undoList, "none")
    BY <1>2 DEF ListsGood
  <1>6. /\ ListsGood(redoList', undoList', "none")
        /\ LineOf(redoList', undoList') = LineOf(redoList, undoList)
        /\ Len(redoList') \in 0 .. Len(redoList) - 1
    BY <1>3, <1>5, OneMove
  <1>7. ListsGood(undoList', redoList', "none")
    BY <1>6 DEF ListsGood
  <1>8. /\ undoList \in Seq(Item) /\ redoList \in Seq(Item)
        /\ undoList' \in Seq(Item) /\ redoList' \in Seq(Item)
    BY <1>2, <1>7 DEF ListsGood
  <1>9. LineOf(undoList', redoList') = LineOf(undoList, redoList)
    BY <1>6, <1>8, TurnedLine
  <1>10. Len(undoList') # Len(undoList)
    <2>1. /\ OnLine(Item, undoList, redoList, LineOf(undoList, redoList))
          /\ OnLine(Item, undoList', redoList', LineOf(undoList', redoList'))
      BY <1>8, LineIs
    <2>2. Len(undoList) + Len(redoList) = Len(undoList') + Len(redoList')
      BY <1>9, <2>1 DEF OnLine
    <2>3. /\ Len(undoList) \in Nat /\ Len(redoList) \in Nat
          /\ Len(undoList') \in Nat /\ Len(redoList') \in Nat
      BY <1>8
    <2> QED
      BY <1>6, <2>2, <2>3
  <1>11. MoveStep(undoList, redoList, undoList', redoList')
    BY <1>2, <1>7, <1>9, <1>10, MoveIs
  <1> QED
    BY <1>1, <1>2, <1>4, <1>7, <1>11 DEF UInvNext, LineStep

LEMMA OthersOk ==
  ASSUME AllTypes, UInv, DisableNext \/ Clear \/ Tick \/ UNCHANGED undoVars
  PROVE  UInvNext /\ LineStep
  <1>1. /\ ListsGood(undoList, redoList, group) /\ GroupGood(group, groupIndent, disableNext)
        /\ recorded \in 0 .. MaxItems /\ clock \in 0 .. MaxClock
    BY DEF UInv
  <1>2. CASE DisableNext
    <2>1. /\ group # "none" /\ disableNext' = TRUE /\ undoList' = undoList
          /\ redoList' = redoList /\ group' = group /\ groupIndent' = groupIndent
          /\ recorded' = recorded /\ clock' = clock
      BY <1>2 DEF DisableNext
    <2>2. GroupGood(group', groupIndent', disableNext')
      BY <1>1, <2>1 DEF GroupGood
    <2> QED
      BY <1>1, <2>1, <2>2 DEF UInvNext, LineStep
  <1>3. CASE Clear
    <2>1. /\ group = "none" /\ disableNext' = FALSE /\ undoList' = <<>> /\ redoList' = <<>>
          /\ group' = group /\ groupIndent' = groupIndent
          /\ recorded' = recorded /\ clock' = clock
      BY <1>3, Given DEF Clear, Reachable
    <2>2. GroupGood(group', groupIndent', disableNext')
      BY <1>1, <2>1 DEF GroupGood
    <2>3. ListsGood(<<>>, <<>>, "none")
      BY NoItems DEF ListsGood
    <2> QED
      BY <1>1, <2>1, <2>2, <2>3 DEF UInvNext, LineStep
  <1>4. CASE Tick
    <2>1. /\ clock < MaxClock /\ clock' = clock + 1 /\ undoList' = undoList
          /\ redoList' = redoList /\ group' = group /\ groupIndent' = groupIndent
          /\ disableNext' = disableNext /\ recorded' = recorded
      BY <1>4 DEF Tick
    <2>2. clock' \in 0 .. MaxClock
      BY <1>1, <2>1, Given
    <2> QED
      BY <1>1, <2>1, <2>2 DEF UInvNext, LineStep
  <1>5. CASE UNCHANGED undoVars
    <2>1. /\ undoList' = undoList /\ redoList' = redoList /\ group' = group
          /\ groupIndent' = groupIndent /\ disableNext' = disableNext
          /\ recorded' = recorded /\ clock' = clock
      BY <1>5 DEF undoVars
    <2> QED
      BY <1>1, <2>1 DEF UInvNext, LineStep
  <1> QED
    BY <1>2, <1>3, <1>4, <1>5

LEMMA StepOk ==
  ASSUME AllTypes, UInv, [UndoNext]_undoVars
  PROVE  UInv' /\ LineStep
  <1>1. CASE \E type \in Types : Record(type) \/ StartGroup(type)
    BY <1>1, RecordOk, StartGroupOk, UInvPrimed
  <1>2. CASE EndGroup
    BY <1>2, EndGroupOk, UInvPrimed
  <1>3. CASE \E filter \in Filters : Undo(filter) \/ Redo(filter)
    BY <1>3, UndoOk, RedoOk, UInvPrimed
  <1>4. CASE DisableNext \/ Clear \/ Tick \/ UNCHANGED undoVars
    BY <1>4, OthersOk, UInvPrimed
  <1> QED
    BY <1>1, <1>2, <1>3, <1>4 DEF UndoNext

LEMMA UInvInit ==
  ASSUME AllTypes, UndoInit
  PROVE  UInv
  <1>1. ListsGood(undoList, redoList, group)
    BY NoItems DEF UndoInit, ListsGood
  <1>2. GroupGood(group, groupIndent, disableNext)
    <2>1. ~(0 > 0) /\ 0 \in Nat
      OBVIOUS
    <2>2. group = "none" /\ groupIndent = 0 /\ disableNext = FALSE
      BY DEF UndoInit
    <2> QED
      BY <2>1, <2>2 DEF GroupGood
  <1> QED
    BY <1>1, <1>2, Given DEF UndoInit, UInv

-----------------------------------------------------------------------------
(* The refinement.                                                         *)

LEMMA TimelineInit ==
  ASSUME UndoInit
  PROVE  Timeline!Init
  <1>1. LineOf(undoList, redoList) = <<>> /\ Len(undoList) = 0
    BY NoItems DEF UndoInit
  <1> QED
    BY <1>1 DEF Timeline!Init, LineOf

LEMMA TimelineStep ==
  ASSUME LineStep
  PROVE  [Timeline!Next]_(Timeline!vars)
  <1> DEFINE line == Reverse(undoList) \o redoList
             line2 == Reverse(undoList') \o redoList'
  <1>0. line = LineOf(undoList, redoList) /\ line2 = LineOf(undoList', redoList')
    BY DEF LineOf
  <1>1. CASE RecordStep(undoList, redoList, undoList', redoList')
    <2>1. /\ \E x \in Item : line2 = Append(SubSeq(line, 1, Len(undoList)), x)
          /\ Len(undoList') = Len(undoList) + 1
      BY <1>0, <1>1 DEF RecordStep
    <2>2. Timeline!Record
      BY <2>1 DEF Timeline!Record, Item
    <2> QED
      BY <2>2 DEF Timeline!Next
  <1>2. CASE MoveStep(undoList, redoList, undoList', redoList')
    <2>1. /\ Len(undoList') \in 0 .. Len(line) /\ Len(undoList') # Len(undoList)
          /\ Count(line, 1, Len(undoList')) % 2 = 0
          /\ line2 = line
      BY <1>0, <1>2 DEF MoveStep
    <2>2. Timeline!Whole(Len(undoList'))
      <3>1. Marks(line, 1, Len(undoList')) = {k \in 1 .. Len(undoList') : line[k].mark}
        BY DEF Marks
      <3> DEFINE marks == {k \in 1 .. Len(undoList') : line[k].mark}
      <3>2. Cardinality(marks) % 2 = 0
        BY <2>1, <3>1 DEF Count
      <3>3. Timeline!Cardinality(marks) = Cardinality(marks)
        <4> HIDE DEF marks
        <4> QED
          BY Zenon DEF Timeline!Cardinality, Cardinality
      <3>4. Timeline!Cardinality(marks) % 2 = 0
        BY <3>2, <3>3
      <3> QED
        BY <3>4 DEF Timeline!Whole
    <2>3. Timeline!Move
      BY <2>1, <2>2 DEF Timeline!Move
    <2> QED
      BY <2>3 DEF Timeline!Next
  <1>3. CASE undoList' = <<>> /\ redoList' = <<>>
    <2>1. line2 = <<>> /\ Len(undoList') = 0
      BY <1>0, <1>3, NoItems
    <2>2. Timeline!Forget
      BY <2>1 DEF Timeline!Forget
    <2> QED
      BY <2>2 DEF Timeline!Next
  <1>4. CASE undoList' = undoList /\ redoList' = redoList
    BY <1>4 DEF Timeline!vars
  <1> QED
    BY <1>1, <1>2, <1>3, <1>4 DEF LineStep

\* Whatever the types, the period and the bounds: when every undo is asked for
\* with all types and none comes within a group, the two lists of
\* dt_undo_record, dt_undo_undo and dt_undo_redo are one timeline.
THEOREM Refinement == AllTypes => (UndoSpec => ImplementsTimeline)
  <1> SUFFICES ASSUME AllTypes PROVE UndoSpec => ImplementsTimeline
    OBVIOUS
  <1>1. UndoInit => UInv /\ Timeline!Init
    BY UInvInit, TimelineInit
  <1>2. UInv /\ [UndoNext]_undoVars => UInv' /\ [Timeline!Next]_(Timeline!vars)
    BY StepOk, TimelineStep
  <1> QED
    BY <1>1, <1>2, PTL DEF UndoSpec, ImplementsTimeline, Timeline!Spec

-----------------------------------------------------------------------------
(* The picture of a stack.                                                 *)

Params == [value : 0 .. MaxValue, on : BOOLEAN]

ParamsOf(e) == [value |-> e.value, on |-> e.on]

Default(m) == [value |-> 0, on |-> m \in DefaultOn]

NoEntry(s, cnt, m) == \A i \in 1 .. cnt : s[i].module # m

LastEntry(s, cnt, m, i) ==
  i \in 1 .. cnt /\ s[i].module = m /\ \A j \in 1 .. cnt : s[j].module = m => j <= i

LEMMA ReplayIs ==
  ASSUME NEW s \in Seq(Entry), NEW cnt \in 0 .. Len(s), NEW m \in Iops
  PROVE  /\ Replay(s, cnt)[m] \in Params
         /\ NoEntry(s, cnt, m) => Replay(s, cnt)[m] = Default(m)
         /\ \A i : LastEntry(s, cnt, m, i) => Replay(s, cnt)[m] = ParamsOf(s[i])
         /\ NoEntry(s, cnt, m) \/ \E i : LastEntry(s, cnt, m, i)
  <1> DEFINE P == {i \in 1 .. cnt : s[i].module = m}
  <1>1. /\ cnt \in Nat /\ cnt <= Len(s) /\ MaxValue \in Nat
        /\ \A i \in 1 .. cnt : s[i] \in Entry
    BY StackAssumption
  <1>2. Replay(s, cnt)[m] = IF P = {} THEN Default(m) ELSE ParamsOf(s[Max(P)])
    BY DEF Replay, Default, ParamsOf
  <1>3. P \in SUBSET (1 .. cnt)
    OBVIOUS
  <1>4. P # {} => LastEntry(s, cnt, m, Max(P))
    <2> SUFFICES ASSUME P # {} PROVE LastEntry(s, cnt, m, Max(P))
      OBVIOUS
    <2>1. Max(P) \in P /\ \A i \in P : i <= Max(P)
      <3> HIDE DEF P
      <3> QED
        BY <1>1, <1>3, MaxIs
    <2> QED
      BY <2>1 DEF LastEntry
  <1>5. NoEntry(s, cnt, m) <=> P = {}
    BY DEF NoEntry
  <1>6. ASSUME NEW i, LastEntry(s, cnt, m, i) PROVE P # {} /\ i = Max(P)
    <2>1. i \in P /\ \A j \in P : j <= i
      BY <1>6 DEF LastEntry
    <2>2. Max(P) \in P /\ i <= Max(P)
      <3> HIDE DEF P
      <3> QED
        BY <1>1, <1>3, <2>1, MaxIs
    <2>3. Max(P) <= i
      BY <2>1, <2>2
    <2>4. i \in Int /\ Max(P) \in Int
      BY <2>1, <2>2
    <2> HIDE DEF P
    <2> QED
      BY <2>1, <2>2, <2>3, <2>4
  <1>7. Default(m) \in Params
    BY <1>1 DEF Default, Params
  <1>8. \A i \in 1 .. cnt : ParamsOf(s[i]) \in Params
    BY <1>1 DEF ParamsOf, Params, Entry
  <1> HIDE DEF P
  <1>9. P # {} => Max(P) \in 1 .. cnt
    BY <1>4 DEF LastEntry
  <1> QED
    BY <1>2, <1>4, <1>5, <1>6, <1>7, <1>8, <1>9

\* Two stacks show the same value of a module when their last entries of it do.
LEMMA SameReplay ==
  ASSUME NEW s \in Seq(Entry), NEW cnt \in 0 .. Len(s),
         NEW t \in Seq(Entry), NEW d \in 0 .. Len(t), NEW m \in Iops,
         NoEntry(s, cnt, m) =>
           NoEntry(t, d, m) \/ \E k : LastEntry(t, d, m, k) /\ ParamsOf(t[k]) = Default(m),
         \A i : LastEntry(s, cnt, m, i) =>
           \E k : LastEntry(t, d, m, k) /\ ParamsOf(t[k]) = ParamsOf(s[i])
  PROVE  Replay(t, d)[m] = Replay(s, cnt)[m]
  <1>1. CASE NoEntry(s, cnt, m)
    BY <1>1, ReplayIs
  <1>2. CASE ~NoEntry(s, cnt, m)
    <2>1. PICK i : LastEntry(s, cnt, m, i)
      BY <1>2, ReplayIs
    <2>2. PICK k : LastEntry(t, d, m, k) /\ ParamsOf(t[k]) = ParamsOf(s[i])
      BY <2>1
    <2> QED
      BY <2>1, <2>2, ReplayIs
  <1> QED
    BY <1>1, <1>2

LEMMA ReplayType ==
  ASSUME NEW s \in Seq(Entry), NEW cnt \in 0 .. Len(s)
  PROVE  Replay(s, cnt) \in [Iops -> Params]
  <1>1. \A m \in Iops : Replay(s, cnt)[m] \in Params
    BY ReplayIs
  <1>2. Replay(s, cnt) = [m \in Iops |-> Replay(s, cnt)[m]]
    BY DEF Replay
  <1> HIDE DEF Replay
  <1> QED
    BY <1>1, <1>2

LEMMA EqualPictures ==
  ASSUME NEW f \in [Iops -> Params], NEW g \in [Iops -> Params],
         \A m \in Iops : f[m] = g[m]
  PROVE  f = g
  OBVIOUS

\* Links that are taken out do not show, as long as the last entry of the
\* module stays and none above the end does.
LEMMA ReplayAtPlaces ==
  ASSUME NEW s \in Seq(Entry), NEW cnt \in 0 .. Len(s), NEW m \in Iops,
         NEW P \in SUBSET (1 .. Len(s)),
         \A i \in P : s[i].module = m => i <= cnt,
         \A i : LastEntry(s, cnt, m, i) => i \in P
  PROVE  Replay(AtPlaces(s, P), Cardinality(P))[m] = Replay(s, cnt)[m]
  <1> DEFINE w == AtPlaces(s, P)
             c == Cardinality(P)
             nth(k) == NthPlace(P, k)
  <1>1. /\ Len(s) \in Nat /\ cnt \in Nat
        /\ \A i \in P : i \in Int /\ 1 <= i /\ (s[i].module = m => i \in 1 .. cnt)
    OBVIOUS
  <1>2. /\ w \in Seq(Entry) /\ Len(w) = c
        /\ \A k \in 1 .. c : w[k] = s[nth(k)]
    BY AtPlacesIs
  <1>3. /\ c \in Nat /\ \A k \in 1 .. c : nth(k) \in P
        /\ \A i \in P : \E k \in 1 .. c : nth(k) = i
        /\ \A j, k \in 1 .. c : j < k => nth(j) < nth(k)
    BY <1>1, NthPlaceIs
  <1> HIDE DEF w, c, nth
  <1>4. ASSUME NoEntry(s, cnt, m) PROVE NoEntry(w, c, m)
    <2> SUFFICES ASSUME NEW k \in 1 .. c, w[k].module = m PROVE FALSE
      BY DEF NoEntry
    <2>1. nth(k) \in P /\ s[nth(k)].module = m
      BY <1>2, <1>3
    <2>2. nth(k) \in 1 .. cnt
      BY <1>1, <2>1
    <2> QED
      BY <1>4, <2>1, <2>2 DEF NoEntry
  <1>5. ASSUME NEW i, LastEntry(s, cnt, m, i)
        PROVE  \E k : LastEntry(w, c, m, k) /\ ParamsOf(w[k]) = ParamsOf(s[i])
    <2>1. i \in P /\ i \in 1 .. cnt /\ s[i].module = m
      BY <1>5 DEF LastEntry
    <2>2. PICK k \in 1 .. c : nth(k) = i
      BY <1>3, <2>1
    <2>3. ASSUME NEW j \in 1 .. c, w[j].module = m PROVE j <= k
      <3>1. nth(j) \in P /\ s[nth(j)].module = m
        BY <1>2, <1>3, <2>3
      <3>2. nth(j) \in 1 .. cnt
        BY <1>1, <3>1
      <3>3. nth(j) <= nth(k)
        BY <1>5, <2>2, <3>1, <3>2 DEF LastEntry
      <3>4. nth(j) \in Int /\ nth(k) \in Int
        BY <1>1, <1>3
      <3>5. ~(nth(k) < nth(j))
        BY <3>3, <3>4
      <3>6. ~(k < j)
        BY <1>3, <3>5
      <3> QED
        BY <1>3, <3>6
    <2>4. w[k] = s[i]
      BY <1>2, <2>2
    <2>5. LastEntry(w, c, m, k)
      BY <2>1, <2>3, <2>4 DEF LastEntry
    <2> QED
      BY <2>4, <2>5
  <1>6. c \in 0 .. Len(w)
    BY <1>2, <1>3
  <1> QED
    BY <1>2, <1>4, <1>5, <1>6, SameReplay DEF w, c

\* Changing the top entry, or pushing one, shows in its module alone.
LEMMA ReplayTop ==
  ASSUME NEW s \in Seq(Entry), NEW t \in Seq(Entry), NEW n \in Nat \ {0}, Len(t) = n,
         \A k \in 1 .. n - 1 : t[k] = s[k],
         Len(s) = n - 1 \/ (Len(s) = n /\ s[n].module = t[n].module),
         NEW m \in Iops
  PROVE  Replay(t, n)[m] = IF m = t[n].module THEN ParamsOf(t[n]) ELSE Replay(s, Len(s))[m]
  <1> DEFINE l == Len(s)
  <1>1. l \in Nat /\ l <= n /\ n \in Int /\ n \in 1 .. n /\ n \in 0 .. Len(t) /\ l \in 0 .. Len(s)
    OBVIOUS
  <1>2. \A k \in 1 .. n : k # n => k \in 1 .. n - 1 /\ k \in 1 .. l
    <2> SUFFICES ASSUME NEW k \in 1 .. n, k # n PROVE k \in 1 .. n - 1 /\ k \in 1 .. l
      OBVIOUS
    <2>1. k <= n - 1
      OBVIOUS
    <2>2. n - 1 <= l
      BY <1>1
    <2> QED
      BY <1>1, <2>1, <2>2
  <1>3. CASE m = t[n].module
    <2>1. LastEntry(t, n, m, n)
      BY <1>1, <1>3 DEF LastEntry
    <2> QED
      BY <1>1, <1>3, <2>1, ReplayIs
  <1>4. CASE m # t[n].module
    <2>1. \A k \in 1 .. n : t[k].module = m => k \in 1 .. l /\ t[k] = s[k]
      BY <1>2, <1>4
    <2>2. \A k \in 1 .. l : s[k].module = m => k \in 1 .. n /\ t[k] = s[k]
      <3> SUFFICES ASSUME NEW k \in 1 .. l, s[k].module = m PROVE k \in 1 .. n /\ t[k] = s[k]
        OBVIOUS
      <3>1. k \in 1 .. n
        BY <1>1
      <3>2. k # n
        BY <1>1, <1>4
      <3> QED
        BY <1>2, <3>1, <3>2
    <2> HIDE DEF l
    <2>3. NoEntry(s, l, m) => NoEntry(t, n, m)
      BY <2>1 DEF NoEntry
    <2>4. ASSUME NEW i, LastEntry(s, l, m, i)
          PROVE  LastEntry(t, n, m, i) /\ t[i] = s[i]
      BY <2>1, <2>2, <2>4 DEF LastEntry
    <2>5. \A i : LastEntry(s, l, m, i) =>
                   \E k : LastEntry(t, n, m, k) /\ ParamsOf(t[k]) = ParamsOf(s[i])
      BY <2>4
    <2>6. Replay(t, n)[m] = Replay(s, l)[m]
      BY <1>1, <2>3, <2>5, SameReplay
    <2> QED
      BY <1>4, <2>6 DEF l
  <1> QED
    BY <1>3, <1>4

\* The entries that a reload reads.
Unfocused(s) == [i \in DOMAIN s |-> [s[i] EXCEPT !.focus = FALSE]]

LEMMA UnfocusedIs ==
  ASSUME NEW s \in Seq(Entry), NEW cnt \in 0 .. Len(s)
  PROVE  /\ Unfocused(s) \in Seq(Entry) /\ Len(Unfocused(s)) = Len(s)
         /\ Replay(Unfocused(s), cnt) = Replay(s, cnt)
  <1> DEFINE t == Unfocused(s)
  <1>1. Len(s) \in Nat /\ \A i \in 1 .. Len(s) : s[i] \in Entry
    OBVIOUS
  <1>2. \A i \in 1 .. Len(s) : /\ [s[i] EXCEPT !.focus = FALSE] \in Entry
                               /\ [s[i] EXCEPT !.focus = FALSE].module = s[i].module
                               /\ ParamsOf([s[i] EXCEPT !.focus = FALSE]) = ParamsOf(s[i])
    BY <1>1 DEF Entry, ParamsOf
  <1>3. t = [i \in 1 .. Len(s) |-> [s[i] EXCEPT !.focus = FALSE]]
    BY DEF Unfocused
  <1>4. t \in Seq(Entry) /\ Len(t) = Len(s)
    BY <1>1, <1>2, <1>3
  <1>5. \A i \in 1 .. Len(s) : t[i].module = s[i].module /\ ParamsOf(t[i]) = ParamsOf(s[i])
    BY <1>2, <1>3
  <1> HIDE DEF t
  <1>6. cnt \in Nat /\ \A i \in 1 .. cnt : i \in 1 .. Len(s)
    BY <1>1
  <1>7. ASSUME NEW m \in Iops PROVE Replay(t, cnt)[m] = Replay(s, cnt)[m]
    <2>1. NoEntry(s, cnt, m) => NoEntry(t, cnt, m)
      BY <1>5, <1>6 DEF NoEntry
    <2>2. \A i : LastEntry(s, cnt, m, i) =>
                   LastEntry(t, cnt, m, i) /\ ParamsOf(t[i]) = ParamsOf(s[i])
      BY <1>5, <1>6 DEF LastEntry
    <2>3. cnt \in 0 .. Len(t)
      BY <1>4
    <2> QED
      BY <1>4, <2>1, <2>2, <2>3, SameReplay
  <1>8. Replay(t, cnt) = Replay(s, cnt)
    <2>1. cnt \in 0 .. Len(t)
      BY <1>4
    <2> QED
      BY <1>4, <1>7, <2>1, ReplayType, EqualPictures
  <1> QED
    BY <1>4, <1>8 DEF t

\* The modules on by default that are put below a stack show as they do
\* without an entry.
LEMMA WithDefaultsIs ==
  ASSUME NEW s \in Seq(Entry), NEW cnt \in 0 .. Len(s)
  PROVE  LET w == WithDefaults(s)
             end == cnt + Len(w) - Len(s)
         IN  /\ w \in Seq(Entry) /\ end \in 0 .. Len(w)
             /\ Replay(w, end) = Replay(s, cnt)
  <1> DEFINE Missing(e) == /\ e.module \in DefaultOn
                           /\ \A i \in DOMAIN s : s[i].module # e.module
             defaults == [i \in DOMAIN FreshStack |->
                            [module |-> FreshStack[i].module, value |-> 0, on |-> TRUE,
                             focus |-> FALSE]]
             P == {i \in DOMAIN FreshStack : Missing(FreshStack[i])}
             a == AtPlaces(defaults, P)
             d == Cardinality(P)
             w == a \o s
  <1>1. /\ FreshStack \in Seq(Entry) /\ Len(FreshStack) \in Nat /\ MaxValue \in Nat
        /\ DOMAIN FreshStack = 1 .. Len(FreshStack)
        /\ \A i \in 1 .. Len(FreshStack) : FreshStack[i] \in Entry
    BY StackAssumption
  <1>2. /\ defaults \in Seq(Entry) /\ Len(defaults) = Len(FreshStack)
        /\ \A i \in 1 .. Len(FreshStack) :
             /\ defaults[i].module = FreshStack[i].module
             /\ ParamsOf(defaults[i]) = [value |-> 0, on |-> TRUE]
    <2> DEFINE D(e) == [module |-> e.module, value |-> 0, on |-> TRUE, focus |-> FALSE]
    <2>1. ASSUME NEW e \in Entry
          PROVE  D(e) \in Entry /\ D(e).module = e.module /\ ParamsOf(D(e)) = [value |-> 0, on |-> TRUE]
      BY <1>1 DEF Entry, ParamsOf
    <2>2. defaults = [i \in 1 .. Len(FreshStack) |-> D(FreshStack[i])]
      BY <1>1
    <2> HIDE DEF D, defaults
    <2>3. defaults \in Seq(Entry) /\ Len(defaults) = Len(FreshStack)
      BY <1>1, <2>1, <2>2
    <2> QED
      BY <1>1, <2>1, <2>2, <2>3
  <1>3. P \in SUBSET (1 .. Len(defaults))
    BY <1>1, <1>2
  <1>4. WithDefaults(s) = w
    BY DEF WithDefaults
  <1>5. ASSUME NEW i \in P
        PROVE  /\ defaults[i].module \in DefaultOn
               /\ \A j \in 1 .. Len(s) : s[j].module # defaults[i].module
               /\ ParamsOf(defaults[i]) = [value |-> 0, on |-> TRUE]
    <2>1. i \in 1 .. Len(FreshStack) /\ Missing(FreshStack[i]) /\ DOMAIN s = 1 .. Len(s)
      BY <1>1
    <2> HIDE DEF defaults
    <2> QED
      BY <1>2, <2>1
  <1> HIDE DEF P, defaults, Missing
  <1>6. Len(defaults) \in Nat
    BY <1>1, <1>2
  <1>7. /\ a \in Seq(Entry) /\ Len(a) = d /\ d \in Nat
        /\ \A k \in 1 .. d : a[k] = defaults[NthPlace(P, k)] /\ NthPlace(P, k) \in P
    <2>1. d \in Nat /\ \A k \in 1 .. d : NthPlace(P, k) \in P
      BY <1>3, <1>6, NthPlaceIs
    <2>2. /\ a \in Seq(Entry) /\ Len(a) = d
          /\ \A k \in 1 .. d : a[k] = defaults[NthPlace(P, k)]
      BY <1>2, <1>3, AtPlacesIs
    <2> QED
      BY <2>1, <2>2
  <1>8. \A k \in 1 .. d : /\ a[k].module \in DefaultOn
                          /\ \A j \in 1 .. Len(s) : s[j].module # a[k].module
                          /\ ParamsOf(a[k]) = [value |-> 0, on |-> TRUE]
    BY <1>5, <1>7
  <1> HIDE DEF a, d
  <1>9. /\ w \in Seq(Entry) /\ Len(w) = d + Len(s)
        /\ \A k \in 1 .. d : w[k] = a[k]
        /\ \A k \in 1 .. Len(s) : w[d + k] = s[k]
    BY <1>7
  <1> HIDE DEF w
  <1>10. Len(s) \in Nat /\ cnt \in Nat /\ cnt <= Len(s) /\ d + cnt \in 0 .. Len(w)
        /\ (cnt + Len(w)) - Len(s) = d + cnt
    BY <1>7, <1>9
  <1>11. ASSUME NEW k \in 1 .. d + cnt
         PROVE  k \in 1 .. d \/ \E j \in 1 .. cnt : k = d + j
    <2>1. ~(k <= d) => k - d \in 1 .. cnt /\ k = d + (k - d)
      BY <1>7, <1>10
    <2> QED
      BY <1>7, <1>10, <2>1
  <1>12. ASSUME NEW m \in Iops PROVE Replay(w, d + cnt)[m] = Replay(s, cnt)[m]
    <2>1. CASE NoEntry(s, cnt, m)
      <3>1. ASSUME NEW k, LastEntry(w, d + cnt, m, k)
            PROVE  ParamsOf(w[k]) = Default(m)
        <4>1. k \in 1 .. d + cnt /\ w[k].module = m
          BY <3>1 DEF LastEntry
        <4>2. CASE k \in 1 .. d
          <5>1. a[k].module = m /\ ParamsOf(w[k]) = [value |-> 0, on |-> TRUE] /\ m \in DefaultOn
            BY <1>8, <1>9, <4>1, <4>2
          <5> QED
            BY <5>1 DEF Default
        <4>3. ASSUME NEW j \in 1 .. cnt, k = d + j PROVE FALSE
          <5>1. j \in 1 .. Len(s)
            BY <1>10
          <5>2. s[j].module = m
            BY <1>9, <4>1, <4>3, <5>1
          <5> QED
            BY <2>1, <5>2 DEF NoEntry
        <4> QED
          BY <1>11, <4>1, <4>2, <4>3
      <3>2. NoEntry(w, d + cnt, m) \/ \E k : LastEntry(w, d + cnt, m, k)
        BY <1>9, <1>10, ReplayIs
      <3>3. ~\E i : LastEntry(s, cnt, m, i)
        BY <2>1 DEF NoEntry, LastEntry
      <3>4. NoEntry(w, d + cnt, m)
            \/ \E k : LastEntry(w, d + cnt, m, k) /\ ParamsOf(w[k]) = Default(m)
        BY <3>1, <3>2
      <3>5. \A i : LastEntry(s, cnt, m, i) =>
                     \E k : LastEntry(w, d + cnt, m, k) /\ ParamsOf(w[k]) = ParamsOf(s[i])
        BY <3>3
      <3> QED
        BY <1>9, <1>10, <3>4, <3>5, SameReplay
    <2>2. CASE ~NoEntry(s, cnt, m)
      <3>1. ASSUME NEW i, LastEntry(s, cnt, m, i)
            PROVE  LastEntry(w, d + cnt, m, d + i) /\ w[d + i] = s[i]
        <4>1. /\ i \in 1 .. cnt /\ i \in 1 .. Len(s) /\ s[i].module = m
              /\ \A j \in 1 .. cnt : s[j].module = m => j <= i
          BY <1>10, <3>1 DEF LastEntry
        <4>2. w[d + i] = s[i] /\ d + i \in 1 .. d + cnt
          <5>1. w[d + i] = s[i]
            BY <1>9, <4>1
          <5>2. i \in Int /\ 1 <= i /\ i <= cnt /\ d \in Nat /\ cnt \in Nat
            BY <1>7, <1>10, <4>1
          <5>3. d + i \in 1 .. d + cnt
            BY <5>2
          <5> QED
            BY <5>1, <5>3
        <4>3. ASSUME NEW k \in 1 .. d + cnt, w[k].module = m PROVE k <= d + i
          <5>1. CASE k \in 1 .. d
            <6>1. k \in Int /\ k <= d /\ i \in Int /\ 1 <= i
              BY <1>7, <4>1, <5>1
            <6> QED
              BY <1>7, <6>1
          <5>2. ASSUME NEW j \in 1 .. cnt, k = d + j PROVE k <= d + i
            <6>1. j \in 1 .. Len(s)
              BY <1>10
            <6>2. s[j].module = m
              BY <1>9, <4>3, <5>2, <6>1
            <6>3. j <= i
              BY <4>1, <6>2
            <6> QED
              BY <1>7, <1>10, <4>1, <5>2, <6>3
          <5> QED
            BY <1>11, <5>1, <5>2
        <4> QED
          BY <4>1, <4>2, <4>3 DEF LastEntry
      <3>2. \A i : LastEntry(s, cnt, m, i) =>
                     \E k : LastEntry(w, d + cnt, m, k) /\ ParamsOf(w[k]) = ParamsOf(s[i])
        BY <3>1
      <3> QED
        BY <1>9, <1>10, <2>2, <3>2, SameReplay
    <2> QED
      BY <2>1, <2>2
  <1>13. Replay(w, d + cnt) = Replay(s, cnt)
    BY <1>9, <1>10, <1>12, ReplayType, EqualPictures
  <1> QED
    BY <1>4, <1>9, <1>10, <1>13

-----------------------------------------------------------------------------
(* The invariant.                                                          *)

Snap == {n \in [stack : Seq(Entry), end : Nat] : n.end <= Len(n.stack)}

\* What the stack shows is what the controls do, except for modules on by
\* default, whose entries WithoutObsolete may have kept.
Shows(s, end, p) ==
  /\ s \in Seq(Entry) /\ end \in 0 .. Len(s) /\ p \in [Iops -> Params]
  /\ \A m \in Iops \ DefaultOn : p[m] = Replay(s, end)[m]

\* An edit that may be merged with the one before has nothing to redo.
HInv ==
  /\ Shows(stack, stackEnd, params) /\ focusHash \in BOOLEAN
  /\ undoable \in Seq(Snap) /\ redoable \in Seq(Snap)
  /\ lastTarget # "none" => redoable = <<>>

LEMMA SnapshotIs ==
  ASSUME HInv
  PROVE  Snapshot \in Snap /\ PictureOf(Snapshot) = PictureShown
         /\ PictureShown \in [Iops -> Params]
  <1>1. /\ stack \in Seq(Entry) /\ stackEnd \in 0 .. Len(stack)
        /\ \A m \in Iops \ DefaultOn : params[m] = Replay(stack, stackEnd)[m]
    BY DEF HInv, Shows
  <1>2. Snapshot \in Snap
    BY <1>1 DEF Snapshot, Snap
  <1>3. PictureOf(Snapshot) = Replay(stack, stackEnd)
    BY DEF Snapshot, PictureOf
  <1>4. Replay(stack, stackEnd) \in [Iops -> Params]
    BY <1>1, ReplayType
  <1>5. /\ PictureShown \in [Iops -> Params]
        /\ \A m \in Iops : PictureShown[m] = Replay(stack, stackEnd)[m]
    BY <1>1, <1>4 DEF PictureShown
  <1> QED
    BY <1>2, <1>3, <1>4, <1>5, EqualPictures

\* A reload: the controls and the picture are those of the stack that is read.
LEMMA ReloadedIs ==
  ASSUME NEW s \in Seq(Entry), NEW end \in 0 .. Len(s), Reloaded(s, end)
  PROVE  /\ Shows(stack', stackEnd', params')
         /\ PictureShown' = Replay(s, end)
         /\ focusHash' = FALSE /\ lastTarget' = "none"
  <1>1. /\ stack' = Unfocused(s) /\ stackEnd' = end /\ params' = Replay(s, end)
        /\ focusHash' = FALSE /\ lastTarget' = "none"
    BY DEF Reloaded, Unfocused
  <1>2. /\ Unfocused(s) \in Seq(Entry) /\ Len(Unfocused(s)) = Len(s)
        /\ Replay(Unfocused(s), end) = Replay(s, end)
    BY UnfocusedIs
  <1>3. Replay(s, end) \in [Iops -> Params]
    BY ReplayType
  <1>4. PictureShown' = [m \in Iops |-> IF m \in DefaultOn THEN Replay(stack', stackEnd')[m]
                                        ELSE params'[m]]
    BY DEF PictureShown
  <1>5. /\ PictureShown' \in [Iops -> Params]
        /\ \A m \in Iops : PictureShown'[m] = Replay(s, end)[m]
    BY <1>1, <1>2, <1>3, <1>4
  <1>6. PictureShown' = Replay(s, end)
    BY <1>3, <1>5, EqualPictures
  <1> QED
    BY <1>1, <1>2, <1>3, <1>6 DEF Shows

\* An edit: the links that are dropped do not show in the controls.
LEMMA AddItemIs ==
  ASSUME HInv, NEW m \in Iops, NEW p \in Params, AddItem(m, p)
  PROVE  Shows(stack', stackEnd', params')
  <1> DEFINE OnlyDefault(i) == /\ stack[i].module \in DefaultOn
                               /\ \A j \in 1 .. stackEnd : stack[j].module # stack[i].module
             P == {i \in 1 .. Len(stack) : i <= stackEnd \/ OnlyDefault(i)}
             base == WithoutObsolete
             n == Len(base)
             item == [module |-> m, value |-> p.value, on |-> p.on, focus |-> focusHash]
             top == [base[n] EXCEPT !.module = m, !.value = p.value, !.on = p.on]
  <1>1. /\ stack \in Seq(Entry) /\ Len(stack) \in Nat /\ stackEnd \in 0 .. Len(stack)
        /\ params \in [Iops -> Params] /\ focusHash \in BOOLEAN
        /\ \A k \in Iops \ DefaultOn : params[k] = Replay(stack, stackEnd)[k]
    BY DEF HInv, Shows
  <1>2. base = AtPlaces(stack, P) /\ P \in SUBSET (1 .. Len(stack))
    BY DEF WithoutObsolete
  <1>3. base \in Seq(Entry) /\ n = Cardinality(P) /\ n \in Nat
    <2> HIDE DEF P
    <2> QED
      BY <1>1, <1>2, AtPlacesIs, NthPlaceIs
  <1>4. ASSUME NEW k \in Iops \ DefaultOn PROVE Replay(base, n)[k] = params[k]
    <2>1. \A i \in P : stack[i].module = k => i <= stackEnd
      OBVIOUS
    <2>2. \A i \in 1 .. stackEnd : i \in P
      BY <1>1
    <2> HIDE DEF P
    <2>3. \A i : LastEntry(stack, stackEnd, k, i) => i \in P
      BY <2>2 DEF LastEntry
    <2>4. Replay(AtPlaces(stack, P), Cardinality(P))[k] = Replay(stack, stackEnd)[k]
      BY <1>1, <1>2, <2>1, <2>3, ReplayAtPlaces
    <2> QED
      BY <1>1, <1>2, <1>3, <2>4
  <1> HIDE DEF P
  <1>5. /\ params' = [params EXCEPT ![m] = p] /\ stackEnd' = Len(stack')
        /\ stack' = IF n > 0 /\ InPlace(base[n], m, p.value)
                    THEN [base EXCEPT ![n].module = m, ![n].value = p.value, ![n].on = p.on]
                    ELSE Append(base, item)
    BY DEF AddItem
  <1>6. p.value \in 0 .. MaxValue /\ p.on \in BOOLEAN /\ p = [value |-> p.value, on |-> p.on]
    BY DEF Params
  <1>7. item \in Entry /\ item.module = m /\ ParamsOf(item) = p
    BY <1>1, <1>6 DEF Entry, ParamsOf
  <1> HIDE DEF base, item, top
  <1>8. /\ stack' \in Seq(Entry) /\ Len(stack') \in Nat \ {0}
        /\ \A i \in 1 .. Len(stack') - 1 : stack'[i] = base[i]
        /\ \/ n = Len(stack') - 1
           \/ n = Len(stack') /\ base[Len(stack')].module = stack'[Len(stack')].module
        /\ stack'[Len(stack')].module = m /\ ParamsOf(stack'[Len(stack')]) = p
    <2>1. CASE n > 0 /\ InPlace(base[n], m, p.value)
      <3>1. n \in 1 .. n /\ base[n] \in Entry /\ base[n].module = m
        BY <1>3, <2>1 DEF InPlace
      <3>2. top \in Entry /\ top.module = m /\ ParamsOf(top) = p
        BY <1>6, <3>1 DEF top, Entry, ParamsOf
      <3>3. stack' = [base EXCEPT ![n] = top]
        BY <1>5, <2>1 DEF top
      <3> HIDE DEF n
      <3>4. stack' \in Seq(Entry) /\ Len(stack') = n
        BY <1>3, <3>1, <3>2, <3>3 DEF n
      <3>5. stack'[n] = top /\ \A i \in 1 .. n - 1 : stack'[i] = base[i]
        BY <1>3, <3>1, <3>3 DEF n
      <3> QED
        BY <1>3, <2>1, <3>1, <3>2, <3>4, <3>5
    <2>2. CASE ~(n > 0 /\ InPlace(base[n], m, p.value))
      <3>1. stack' = Append(base, item)
        BY <1>5, <2>2
      <3>2. stack' \in Seq(Entry) /\ Len(stack') = n + 1
        BY <1>3, <1>7, <3>1
      <3>3. stack'[n + 1] = item /\ \A i \in 1 .. n : stack'[i] = base[i]
        BY <1>3, <1>7, <3>1
      <3> HIDE DEF n
      <3> QED
        BY <1>3, <1>7, <3>2, <3>3
    <2> QED
      BY <2>1, <2>2
  <1>9. ASSUME NEW k \in Iops
        PROVE  Replay(stack', stackEnd')[k] = IF k = m THEN p ELSE Replay(base, n)[k]
    <2> DEFINE l == Len(stack')
               t == stack'
    <2>1. /\ t \in Seq(Entry) /\ l \in Nat \ {0} /\ Len(t) = l
          /\ \A i \in 1 .. l - 1 : t[i] = base[i]
          /\ Len(base) = l - 1 \/ (Len(base) = l /\ base[l].module = t[l].module)
          /\ t[l].module = m /\ ParamsOf(t[l]) = p
      <3>1. n = l - 1 \/ n = l
        BY <1>8
      <3> QED
        BY <1>8
    <2>2. stackEnd' = l
      BY <1>5
    <2> HIDE DEF l, t
    <2>3. Replay(t, l)[k] = IF k = t[l].module THEN ParamsOf(t[l]) ELSE Replay(base, Len(base))[k]
      BY <1>3, <2>1, ReplayTop
    <2> QED
      BY <2>1, <2>2, <2>3 DEF t
  <1>10. params' \in [Iops -> Params]
         /\ \A k \in Iops : params'[k] = IF k = m THEN p ELSE params[k]
    BY <1>1, <1>5
  <1>11. \A k \in Iops \ DefaultOn : params'[k] = Replay(stack', stackEnd')[k]
    BY <1>4, <1>9, <1>10
  <1>12. stackEnd' \in 0 .. Len(stack')
    BY <1>5, <1>8
  <1> QED
    BY <1>8, <1>10, <1>11, <1>12 DEF Shows

\* Compressing: of each module the last entry below the end stays.
LEMMA CompressedIs ==
  ASSUME NEW s \in Seq(Entry), NEW end \in 0 .. Len(s), NEW P \in SUBSET (1 .. end),
         \A i \in 1 .. end : i \in P <=> \A j \in i + 1 .. end : s[j].module # s[i].module
  PROVE  LET w == WithDefaults(AtPlaces(s, P))
         IN  w \in Seq(Entry) /\ Replay(w, Len(w)) = Replay(s, end)
  <1> DEFINE a == AtPlaces(s, P)
             c == Cardinality(P)
             w == WithDefaults(a)
  <1>1. P \in SUBSET (1 .. Len(s)) /\ Len(s) \in Nat /\ end \in Nat
    OBVIOUS
  <1>2. a \in Seq(Entry) /\ Len(a) = c /\ c \in Nat
    BY <1>1, AtPlacesIs, NthPlaceIs
  <1>3. ASSUME NEW m \in Iops PROVE Replay(a, c)[m] = Replay(s, end)[m]
    <2>1. \A i \in P : s[i].module = m => i <= end
      OBVIOUS
    <2>2. ASSUME NEW i, LastEntry(s, end, m, i) PROVE i \in P
      <3>1. i \in 1 .. end /\ s[i].module = m
            /\ \A j \in 1 .. end : s[j].module = m => j <= i
        BY <2>2 DEF LastEntry
      <3>2. \A j \in i + 1 .. end : j \in 1 .. end /\ ~(j <= i)
        BY <1>1, <3>1
      <3> QED
        BY <3>1, <3>2
    <2> QED
      BY <1>1, <2>1, <2>2, ReplayAtPlaces
  <1>4. Replay(a, c) = Replay(s, end)
    BY <1>2, <1>3, ReplayType, EqualPictures
  <1> HIDE DEF a, c
  <1>5. w \in Seq(Entry) /\ Replay(w, c + Len(w) - Len(a)) = Replay(a, c)
    <2>1. c \in 0 .. Len(a)
      BY <1>2
    <2> QED
      BY <1>2, <2>1, WithDefaultsIs
  <1> HIDE DEF w
  <1>6. c + Len(w) - Len(a) = Len(w)
    BY <1>2, <1>5
  <1> QED
    BY <1>4, <1>5, <1>6 DEF w, a

-----------------------------------------------------------------------------
(* The line of pictures.                                                   *)

PictureLine(u, x, r) == Reverse(u) \o <<x>> \o r

OnPictureLine(S, u, x, r, l) ==
  /\ l \in Seq(S) /\ Len(l) = (Len(u) + 1) + Len(r)
  /\ \A k \in 1 .. Len(u) : l[k] = u[(Len(u) - k) + 1]
  /\ l[Len(u) + 1] = x
  /\ \A k \in 1 .. Len(r) : l[(Len(u) + 1) + k] = r[k]

LEMMA PictureLineIs ==
  ASSUME NEW S, NEW u \in Seq(S), NEW x \in S, NEW r \in Seq(S)
  PROVE  OnPictureLine(S, u, x, r, PictureLine(u, x, r))
  <1> DEFINE back == Reverse(u)
             b == back \o <<x>>
             n == Len(u)
             l == b \o r
  <1>1. /\ back \in Seq(S) /\ Len(back) = n /\ n \in Nat
        /\ \A k \in 1 .. n : back[k] = u[(n - k) + 1]
    BY ReverseIs
  <1> HIDE DEF back
  <1>2. /\ b \in Seq(S) /\ Len(b) = n + 1 /\ b[n + 1] = x
        /\ \A k \in 1 .. n : b[k] = back[k]
    BY <1>1
  <1> HIDE DEF b
  <1>3. l \in Seq(S) /\ Len(l) = (n + 1) + Len(r)
    BY <1>1, <1>2
  <1>4. \A k \in 1 .. n + 1 : l[k] = b[k]
    BY <1>1, <1>2
  <1>5. \A k \in 1 .. Len(r) : l[(n + 1) + k] = r[k]
    BY <1>1, <1>2
  <1>6. \A k \in 1 .. n : l[k] = u[(n - k) + 1]
    <2>1. \A k \in 1 .. n : k \in 1 .. n + 1
      BY <1>1
    <2> QED
      BY <1>1, <1>2, <1>4, <2>1
  <1>7. l[n + 1] = x
    <2>1. n + 1 \in 1 .. n + 1
      BY <1>1
    <2> QED
      BY <1>2, <1>4, <2>1
  <1>8. PictureLine(u, x, r) = l
    BY DEF PictureLine, b, back
  <1> HIDE DEF l
  <1> QED
    BY <1>3, <1>5, <1>6, <1>7, <1>8 DEF OnPictureLine

LEMMA SamePart ==
  ASSUME NEW S, NEW s \in Seq(S), NEW t \in Seq(S), NEW n \in Nat,
         n <= Len(s), n <= Len(t), \A k \in 1 .. n : s[k] = t[k]
  PROVE  SubSeq(s, 1, n) = SubSeq(t, 1, n)
  <1>1. /\ SubSeq(s, 1, n) \in Seq(S) /\ Len(SubSeq(s, 1, n)) = n
        /\ \A k \in 1 .. n : SubSeq(s, 1, n)[k] = s[k]
    OBVIOUS
  <1>2. /\ SubSeq(t, 1, n) \in Seq(S) /\ Len(SubSeq(t, 1, n)) = n
        /\ \A k \in 1 .. n : SubSeq(t, 1, n)[k] = t[k]
    OBVIOUS
  <1> DEFINE a == SubSeq(s, 1, n)
             b == SubSeq(t, 1, n)
  <1> HIDE DEF a, b
  <1>3. a \in Seq(S) /\ b \in Seq(S) /\ Len(a) = Len(b) /\ \A k \in 1 .. Len(a) : a[k] = b[k]
    BY <1>1, <1>2 DEF a, b
  <1>4. a = b
    BY <1>3, SameLine
  <1> QED
    BY <1>4 DEF a, b

\* An undo moves the place back.
LEMMA UndoneLine ==
  ASSUME NEW S, NEW u \in Seq(S), NEW x \in S, NEW r \in Seq(S), u # <<>>
  PROVE  PictureLine(Tail(u), Head(u), <<x>> \o r) = PictureLine(u, x, r)
  <1> DEFINE n == Len(u)
             v == Tail(u)
             q == <<x>> \o r
             l == PictureLine(u, x, r)
             t == PictureLine(v, Head(u), q)
  <1>1. /\ n \in Nat \ {0} /\ v \in Seq(S) /\ Len(v) = n - 1 /\ Head(u) \in S /\ Head(u) = u[1]
        /\ \A k \in 1 .. n - 1 : v[k] = u[k + 1]
    OBVIOUS
  <1>2. /\ q \in Seq(S) /\ Len(q) = Len(r) + 1 /\ q[1] = x
        /\ \A k \in 1 .. Len(r) : q[k + 1] = r[k]
    OBVIOUS
  <1>3. OnPictureLine(S, u, x, r, l)
    BY PictureLineIs
  <1> HIDE DEF v, q
  <1>4. OnPictureLine(S, v, Head(u), q, t)
    BY <1>1, <1>2, PictureLineIs
  <1> HIDE DEF l, t
  <1>5. /\ l \in Seq(S) /\ Len(l) = (n + 1) + Len(r) /\ l[n + 1] = x
        /\ \A k \in 1 .. n : l[k] = u[(n - k) + 1]
        /\ \A k \in 1 .. Len(r) : l[(n + 1) + k] = r[k]
    BY <1>3 DEF OnPictureLine
  <1>6. /\ t \in Seq(S) /\ Len(t) = ((n - 1) + 1) + (Len(r) + 1) /\ t[(n - 1) + 1] = u[1]
        /\ \A k \in 1 .. n - 1 : t[k] = v[((n - 1) - k) + 1]
        /\ \A k \in 1 .. Len(r) + 1 : t[((n - 1) + 1) + k] = q[k]
    BY <1>1, <1>2, <1>4 DEF OnPictureLine
  <1>7. Len(r) \in Nat /\ n \in Nat /\ n # 0 /\ (n - 1) + 1 = n /\ Len(t) = Len(l)
    BY <1>1, <1>5, <1>6
  <1> HIDE DEF n
  <1>8. ASSUME NEW k \in 1 .. Len(l) PROVE t[k] = l[k]
    <2>1. CASE k \in 1 .. n - 1
      <3>1. ((n - 1) - k) + 1 \in 1 .. n - 1 /\ (((n - 1) - k) + 1) + 1 = (n - k) + 1
            /\ k \in 1 .. n
        BY <1>7, <2>1
      <3>2. v[((n - 1) - k) + 1] = u[(n - k) + 1]
        BY <1>1, <3>1
      <3> QED
        BY <1>5, <1>6, <2>1, <3>1, <3>2
    <2>2. CASE k = n
      <3>1. n \in 1 .. n /\ (n - n) + 1 = 1
        BY <1>7
      <3> QED
        BY <1>5, <1>6, <1>7, <2>2, <3>1
    <2>3. CASE k = n + 1
      <3>1. 1 \in 1 .. Len(r) + 1
        BY <1>7
      <3> QED
        BY <1>2, <1>5, <1>6, <1>7, <2>3, <3>1
    <2>4. CASE k > n + 1
      <3> DEFINE j == k - (n + 1)
      <3>1. /\ j \in 1 .. Len(r) /\ k = (n + 1) + j /\ j + 1 \in 1 .. Len(r) + 1
            /\ k = n + (j + 1)
        BY <1>5, <1>7, <2>4
      <3> HIDE DEF j
      <3>2. t[n + (j + 1)] = q[j + 1]
        BY <1>6, <1>7, <3>1
      <3>3. l[(n + 1) + j] = r[j]
        BY <1>5, <3>1
      <3> QED
        BY <1>2, <3>1, <3>2, <3>3
    <2> QED
      BY <1>5, <1>7, <2>1, <2>2, <2>3, <2>4
  <1>9. t = l
    BY <1>5, <1>6, <1>7, <1>8, SameLine
  <1> QED
    BY <1>9 DEF t, l, v, q

\* A redo is an undo backwards.
LEMMA RedoneLine ==
  ASSUME NEW S, NEW u \in Seq(S), NEW x \in S, NEW r \in Seq(S), r # <<>>
  PROVE  PictureLine(<<x>> \o u, Head(r), Tail(r)) = PictureLine(u, x, r)
  <1> DEFINE v == <<x>> \o u
  <1>1. v \in Seq(S) /\ v # <<>> /\ Head(v) = x
    OBVIOUS
  <1>2. Tail(v) = u
    <2>1. Tail(v) \in Seq(S) /\ Len(Tail(v)) = Len(u)
          /\ \A k \in 1 .. Len(u) : Tail(v)[k] = u[k]
      OBVIOUS
    <2> HIDE DEF v
    <2> QED
      BY <2>1, SameLine
  <1>3. Head(r) \in S /\ Tail(r) \in Seq(S)
    OBVIOUS
  <1>4. <<Head(r)>> \o Tail(r) = r
    <2> DEFINE w == <<Head(r)>> \o Tail(r)
    <2>1. w \in Seq(S) /\ Len(w) = Len(r) /\ \A k \in 1 .. Len(r) : w[k] = r[k]
      OBVIOUS
    <2> HIDE DEF w
    <2>2. w = r
      BY <2>1, SameLine
    <2> QED
      BY <2>2 DEF w
  <1> HIDE DEF v
  <1>5. PictureLine(Tail(v), Head(v), <<Head(r)>> \o Tail(r)) = PictureLine(v, Head(r), Tail(r))
    BY <1>1, <1>3, UndoneLine
  <1> QED
    BY <1>1, <1>2, <1>4, <1>5 DEF v

\* A record keeps what comes before it.
LEMMA RecordedLine ==
  ASSUME NEW S, NEW u \in Seq(S), NEW x \in S, NEW r \in Seq(S), NEW y \in S
  PROVE  LET l == PictureLine(u, x, r)
             t == PictureLine(<<x>> \o u, y, <<>>)
             n == Len(u) + 1
         IN  Len(t) = n + 1 /\ SubSeq(t, 1, n) = SubSeq(l, 1, n)
  <1> DEFINE n == Len(u)
             v == <<x>> \o u
             l == PictureLine(u, x, r)
             t == PictureLine(v, y, <<>>)
  <1>1. /\ n \in Nat /\ v \in Seq(S) /\ Len(v) = n + 1 /\ v[1] = x
        /\ \A k \in 1 .. n : v[k + 1] = u[k]
    OBVIOUS
  <1>2. OnPictureLine(S, u, x, r, l)
    BY PictureLineIs
  <1> HIDE DEF v
  <1>3. OnPictureLine(S, v, y, <<>>, t)
    <2>1. <<>> \in Seq(S)
      OBVIOUS
    <2> QED
      BY <1>1, <2>1, PictureLineIs
  <1> HIDE DEF l, t
  <1>4. /\ l \in Seq(S) /\ Len(l) = (n + 1) + Len(r) /\ l[n + 1] = x
        /\ \A k \in 1 .. n : l[k] = u[(n - k) + 1]
    BY <1>2 DEF OnPictureLine
  <1>5. /\ t \in Seq(S) /\ Len(t) = ((n + 1) + 1) + 0
        /\ \A k \in 1 .. n + 1 : t[k] = v[((n + 1) - k) + 1]
    <2>1. Len(<<>>) = 0
      OBVIOUS
    <2> QED
      BY <1>1, <1>3, <2>1 DEF OnPictureLine
  <1> HIDE DEF n
  <1>6. ASSUME NEW k \in 1 .. n + 1 PROVE t[k] = l[k]
    <2>1. CASE k = n + 1
      <3>1. ((n + 1) - k) + 1 = 1
        BY <1>1, <2>1
      <3> QED
        BY <1>1, <1>4, <1>5, <2>1, <3>1
    <2>2. CASE k \in 1 .. n
      <3>1. (n - k) + 1 \in 1 .. n /\ ((n + 1) - k) + 1 = ((n - k) + 1) + 1
        BY <1>1, <2>2
      <3> QED
        BY <1>1, <1>4, <1>5, <2>2, <3>1
    <2> QED
      BY <1>1, <2>1, <2>2
  <1>7. n + 1 \in Nat /\ n + 1 <= Len(l) /\ n + 1 <= Len(t) /\ Len(t) = (n + 1) + 1
    <2>1. Len(r) \in Nat
      OBVIOUS
    <2> QED
      BY <1>1, <1>4, <1>5, <2>1
  <1>8. SubSeq(t, 1, n + 1) = SubSeq(l, 1, n + 1)
    BY <1>4, <1>5, <1>6, <1>7, SamePart
  <1> QED
    BY <1>7, <1>8 DEF n, l, t, v

\* A merged edit replaces the last picture.
LEMMA MergedLine ==
  ASSUME NEW S, NEW u \in Seq(S), NEW x \in S, NEW y \in S
  PROVE  LET l == PictureLine(u, x, <<>>)
             t == PictureLine(u, y, <<>>)
             n == Len(u) + 1
         IN  Len(l) = n /\ Len(t) = n /\ SubSeq(t, 1, n - 1) = SubSeq(l, 1, n - 1)
  <1> DEFINE n == Len(u)
             l == PictureLine(u, x, <<>>)
             t == PictureLine(u, y, <<>>)
  <1>1. n \in Nat /\ Len(<<>>) = 0 /\ <<>> \in Seq(S)
    OBVIOUS
  <1>2. OnPictureLine(S, u, x, <<>>, l) /\ OnPictureLine(S, u, y, <<>>, t)
    BY <1>1, PictureLineIs
  <1> HIDE DEF l, t
  <1>3. /\ l \in Seq(S) /\ t \in Seq(S) /\ Len(l) = n + 1 /\ Len(t) = n + 1
        /\ \A k \in 1 .. n : t[k] = l[k]
    BY <1>1, <1>2 DEF OnPictureLine
  <1> HIDE DEF n
  <1>4. SubSeq(t, 1, n) = SubSeq(l, 1, n)
    <2>1. n <= Len(l) /\ n <= Len(t)
      BY <1>1, <1>3
    <2> QED
      BY <1>1, <1>3, <2>1, SamePart
  <1>5. (n + 1) - 1 = n
    BY <1>1
  <1> QED
    BY <1>3, <1>4, <1>5 DEF n, l, t

-----------------------------------------------------------------------------
(* What each operation does to the line.                                   *)

Pictures == [Iops -> Params]

LEMMA PictureOfIs == ASSUME NEW n \in Snap PROVE PictureOf(n) \in Pictures
  <1>1. n.stack \in Seq(Entry) /\ n.end \in 0 .. Len(n.stack)
    BY DEF Snap
  <1> QED
    BY <1>1, ReplayType DEF PictureOf, Pictures

LEMMA PicturesIs ==
  ASSUME NEW s \in Seq(Snap)
  PROVE  /\ PicturesOf(s) \in Seq(Pictures) /\ Len(PicturesOf(s)) = Len(s)
         /\ \A k \in 1 .. Len(s) : PicturesOf(s)[k] = PictureOf(s[k])
  <1>1. /\ Len(s) \in Nat /\ DOMAIN s = 1 .. Len(s)
        /\ \A k \in 1 .. Len(s) : s[k] \in Snap
    OBVIOUS
  <1>2. \A k \in 1 .. Len(s) : PictureOf(s[k]) \in Pictures
    BY <1>1, PictureOfIs
  <1>3. PicturesOf(s) = [k \in 1 .. Len(s) |-> PictureOf(s[k])]
    BY <1>1 DEF PicturesOf
  <1> QED
    BY <1>1, <1>2, <1>3

LEMMA PicturesOfTail ==
  ASSUME NEW s \in Seq(Snap), s # <<>>
  PROVE  /\ PicturesOf(s) # <<>> /\ Head(PicturesOf(s)) = PictureOf(Head(s))
         /\ Tail(PicturesOf(s)) = PicturesOf(Tail(s))
  <1> DEFINE n == Len(s)
             p == PicturesOf(s)
             t == Tail(s)
             q == PicturesOf(t)
  <1>1. /\ n \in Nat \ {0} /\ t \in Seq(Snap) /\ Len(t) = n - 1 /\ Head(s) = s[1]
        /\ \A k \in 1 .. n - 1 : t[k] = s[k + 1]
    OBVIOUS
  <1>2. /\ p \in Seq(Pictures) /\ Len(p) = n
        /\ \A k \in 1 .. n : p[k] = PictureOf(s[k])
    BY PicturesIs
  <1> HIDE DEF t, p
  <1>3. /\ q \in Seq(Pictures) /\ Len(q) = n - 1
        /\ \A k \in 1 .. n - 1 : q[k] = PictureOf(t[k])
    BY <1>1, PicturesIs
  <1> HIDE DEF q, n
  <1>4. p # <<>> /\ Head(p) = p[1] /\ 1 \in 1 .. n
    BY <1>1, <1>2
  <1>5. /\ Tail(p) \in Seq(Pictures) /\ Len(Tail(p)) = n - 1
        /\ \A k \in 1 .. n - 1 : Tail(p)[k] = p[k + 1]
    BY <1>1, <1>2, <1>4
  <1>6. \A k \in 1 .. n - 1 : k + 1 \in 1 .. n
    BY <1>1
  <1>7. \A k \in 1 .. n - 1 : Tail(p)[k] = q[k]
    BY <1>1, <1>2, <1>3, <1>5, <1>6
  <1> DEFINE w == Tail(p)
  <1> HIDE DEF w
  <1>8. w = q
    BY <1>3, <1>5, <1>7, SameLine DEF w
  <1> QED
    BY <1>1, <1>2, <1>4, <1>8 DEF w, p, q, t

LEMMA PicturesOfPushed ==
  ASSUME NEW s \in Seq(Snap), NEW n \in Snap
  PROVE  PicturesOf(<<n>> \o s) = <<PictureOf(n)>> \o PicturesOf(s)
  <1> DEFINE t == <<n>> \o s
             p == PicturesOf(t)
             q == PicturesOf(s)
             l == Len(s)
  <1>1. /\ t \in Seq(Snap) /\ Len(t) = l + 1 /\ t[1] = n /\ l \in Nat
        /\ \A k \in 1 .. l : t[k + 1] = s[k]
    OBVIOUS
  <1> HIDE DEF t
  <1>2. /\ p \in Seq(Pictures) /\ Len(p) = l + 1
        /\ \A k \in 1 .. l + 1 : p[k] = PictureOf(t[k])
    BY <1>1, PicturesIs
  <1>3. /\ q \in Seq(Pictures) /\ Len(q) = l
        /\ \A k \in 1 .. l : q[k] = PictureOf(s[k])
    BY PicturesIs
  <1>4. PictureOf(n) \in Pictures
    BY PictureOfIs
  <1> HIDE DEF p, q, l
  <1> DEFINE w == <<PictureOf(n)>> \o q
  <1>5. /\ w \in Seq(Pictures) /\ Len(w) = l + 1 /\ w[1] = PictureOf(n)
        /\ \A k \in 1 .. l : w[k + 1] = q[k]
    BY <1>3, <1>4
  <1> HIDE DEF w
  <1>6. ASSUME NEW k \in 1 .. l + 1 PROVE p[k] = w[k]
    <2>1. CASE k = 1
      BY <1>1, <1>2, <1>5, <2>1
    <2>2. CASE k # 1
      <3> DEFINE j == k - 1
      <3>1. j \in 1 .. l /\ j + 1 = k
        BY <1>1, <2>2
      <3> HIDE DEF j
      <3> QED
        BY <1>1, <1>2, <1>3, <1>5, <3>1
    <2> QED
      BY <2>1, <2>2
  <1>7. p = w
    BY <1>2, <1>5, <1>6, SameLine
  <1> QED
    BY <1>7 DEF p, w, q, t

LEMMA NoPictures == PicturesOf(<<>>) = <<>>
  BY DEF PicturesOf

LineParts == /\ PicturesOf(undoable) \in Seq(Pictures) /\ PicturesOf(redoable) \in Seq(Pictures)
             /\ PictureShown \in Pictures /\ PictureOf(Snapshot) = PictureShown
             /\ Line = PictureLine(PicturesOf(undoable), PictureShown, PicturesOf(redoable))
             /\ Place = Len(PicturesOf(undoable)) + 1 /\ Place \in Nat
             /\ undoable \in Seq(Snap) /\ redoable \in Seq(Snap) /\ Snapshot \in Snap

LEMMA LineIsPictures == ASSUME HInv PROVE LineParts
  <1>1. undoable \in Seq(Snap) /\ redoable \in Seq(Snap)
    BY DEF HInv
  <1>2. Snapshot \in Snap /\ PictureOf(Snapshot) = PictureShown /\ PictureShown \in Pictures
    BY SnapshotIs DEF Pictures
  <1>3. /\ PicturesOf(undoable) \in Seq(Pictures) /\ PicturesOf(redoable) \in Seq(Pictures)
        /\ Len(PicturesOf(undoable)) = Len(undoable) /\ Len(undoable) \in Nat
    BY <1>1, PicturesIs
  <1> QED
    BY <1>1, <1>2, <1>3 DEF LineParts, Line, Place, PictureLine

\* The step as OneTimeline has it.
RecordedPicture == /\ Place' = Place + 1 /\ Len(Line') = Place'
            /\ SubSeq(Line', 1, Place) = SubSeq(Line, 1, Place)

MergedPicture == /\ Place' = Place /\ Len(Line) = Place /\ Len(Line') = Place
          /\ SubSeq(Line', 1, Place - 1) = SubSeq(Line, 1, Place - 1)

\* A change of the stack that is recorded.
LEMMA PictureRecorded ==
  ASSUME HInv, RecordStack, Shows(stack', stackEnd', params'), focusHash' \in BOOLEAN
  PROVE  HInv' /\ RecordedPicture
  <1> DEFINE u == PicturesOf(undoable)
             x == PictureShown
             r == PicturesOf(redoable)
             y == PictureShown'
  <1>1. LineParts
    BY LineIsPictures
  <1>2. undoable' = <<Snapshot>> \o undoable /\ redoable' = <<>>
    BY DEF RecordStack
  <1>3. undoable' \in Seq(Snap) /\ redoable' \in Seq(Snap) /\ Len(undoable') = Len(undoable) + 1
    BY <1>1, <1>2 DEF LineParts
  <1>4. HInv'
    BY <1>2, <1>3 DEF HInv
  <1>5. LineParts'
    BY <1>4, LineIsPictures, PTL
  <1>6. PicturesOf(undoable)' = <<x>> \o u /\ PicturesOf(redoable)' = <<>>
    BY <1>1, <1>2, PicturesOfPushed, NoPictures DEF LineParts
  <1>7. Line' = PictureLine(<<x>> \o u, y, <<>>) /\ y \in Pictures
    BY <1>5, <1>6 DEF LineParts
  <1>8. /\ u \in Seq(Pictures) /\ r \in Seq(Pictures) /\ x \in Pictures
        /\ Line = PictureLine(u, x, r) /\ Place = Len(u) + 1
    BY <1>1 DEF LineParts
  <1>9. Place' = Place + 1
    BY <1>3 DEF Place
  <1> HIDE DEF u, x, r, y
  <1>10. Len(Line') = (Len(u) + 1) + 1 /\ SubSeq(Line', 1, Len(u) + 1) = SubSeq(Line, 1, Len(u) + 1)
    BY <1>7, <1>8, RecordedLine
  <1> QED
    BY <1>4, <1>8, <1>9, <1>10 DEF RecordedPicture

\* An edit that is merged with the one before.
LEMMA PictureMerged ==
  ASSUME HInv, lastTarget # "none", UNCHANGED <<undoable, redoable, lastTarget>>,
         Shows(stack', stackEnd', params'), focusHash' \in BOOLEAN
  PROVE  HInv' /\ MergedPicture
  <1> DEFINE u == PicturesOf(undoable)
             x == PictureShown
             y == PictureShown'
  <1>1. LineParts /\ redoable = <<>>
    BY LineIsPictures DEF HInv
  <1>2. HInv'
    BY DEF HInv
  <1>3. LineParts'
    BY <1>2, LineIsPictures, PTL
  <1>4. PicturesOf(undoable)' = u /\ PicturesOf(redoable) = <<>> /\ PicturesOf(redoable)' = <<>>
    BY <1>1, NoPictures DEF PicturesOf
  <1>5. /\ u \in Seq(Pictures) /\ x \in Pictures /\ y \in Pictures
        /\ Line = PictureLine(u, x, <<>>) /\ Line' = PictureLine(u, y, <<>>)
        /\ Place = Len(u) + 1
    BY <1>1, <1>3, <1>4 DEF LineParts
  <1>6. Place' = Place
    BY DEF Place
  <1> HIDE DEF u, x, y
  <1>7. /\ Len(Line) = Len(u) + 1 /\ Len(Line') = Len(u) + 1
        /\ SubSeq(Line', 1, (Len(u) + 1) - 1) = SubSeq(Line, 1, (Len(u) + 1) - 1)
    BY <1>5, MergedLine
  <1> QED
    BY <1>2, <1>5, <1>6, <1>7 DEF MergedPicture

Kept == Line' = Line \/ RecordedPicture \/ MergedPicture

LEMMA EditKept ==
  ASSUME HInv, NEW m \in Iops, NEW p \in Params, NEW target,
         RecordTarget(target), AddItem(m, p), UNCHANGED focusHash
  PROVE  HInv' /\ Kept
  <1>1. Shows(stack', stackEnd', params') /\ focusHash' \in BOOLEAN
    BY AddItemIs DEF HInv
  <1>2. CASE RecordStack
    BY <1>1, <1>2, PictureRecorded DEF Kept
  <1>3. CASE target # "none" /\ target = lastTarget /\ UNCHANGED <<undoable, redoable, lastTarget>>
    BY <1>1, <1>3, PictureMerged DEF Kept
  <1> QED
    BY <1>2, <1>3 DEF RecordTarget

LEMMA SelectKept ==
  ASSUME HInv, NEW n \in 0 .. Len(stack), SelectItem(n)
  PROVE  HInv' /\ Kept
  <1>1. stack \in Seq(Entry) /\ Replay(stack, n) \in [Iops -> Params] /\ focusHash \in BOOLEAN
    BY ReplayType DEF HInv, Shows
  <1>2. /\ RecordStack /\ stackEnd' = n /\ params' = Replay(stack, n)
        /\ stack' = stack /\ focusHash' = focusHash
    BY DEF SelectItem
  <1>3. Shows(stack', stackEnd', params')
    BY <1>1, <1>2 DEF Shows
  <1> QED
    BY <1>1, <1>2, <1>3, PictureRecorded DEF Kept

LEMMA FocusKept ==
  ASSUME HInv, FocusModule
  PROVE  HInv' /\ Kept
  <1>1. /\ focusHash' = TRUE
        /\ UNCHANGED <<stack, stackEnd, params, lastTarget, undoable, redoable>>
    BY DEF FocusModule
  <1>2. HInv'
    BY <1>1 DEF HInv, Shows
  <1>3. Line' = Line
    BY <1>1 DEF Line, PictureShown, PicturesOf
  <1> QED
    BY <1>2, <1>3 DEF Kept

\* A change that is recorded and ends in a reload.
LEMMA ReloadKept ==
  ASSUME HInv, RecordStack, NEW s \in Seq(Entry), Reloaded(s, Len(s))
  PROVE  HInv' /\ Kept /\ PictureShown' = Replay(s, Len(s))
  <1>1. Len(s) \in 0 .. Len(s)
    OBVIOUS
  <1>2. /\ Shows(stack', stackEnd', params') /\ focusHash' \in BOOLEAN
        /\ PictureShown' = Replay(s, Len(s))
    BY <1>1, ReloadedIs
  <1> QED
    BY <1>2, PictureRecorded DEF Kept

LEMMA ShownIs ==
  ASSUME HInv
  PROVE  /\ stack \in Seq(Entry) /\ stackEnd \in 0 .. Len(stack)
         /\ PictureShown = Replay(stack, stackEnd)
  BY SnapshotIs DEF HInv, Shows, PictureOf, Snapshot

LEMMA CompressKept ==
  ASSUME HInv, Compress
  PROVE  HInv' /\ Kept /\ PictureShown' = PictureShown
  <1> DEFINE P == {i \in 1 .. stackEnd : \A j \in i + 1 .. stackEnd :
                                           stack[j].module # stack[i].module}
             s == WithDefaults(AtPlaces(stack, P))
  <1>1. /\ stack \in Seq(Entry) /\ stackEnd \in 0 .. Len(stack)
        /\ PictureShown = Replay(stack, stackEnd)
    BY ShownIs
  <1>2. RecordStack /\ Reloaded(s, Len(s))
    BY DEF Compress
  <1>3. /\ P \in SUBSET (1 .. stackEnd)
        /\ \A i \in 1 .. stackEnd : i \in P <=> \A j \in i + 1 .. stackEnd :
                                                  stack[j].module # stack[i].module
    OBVIOUS
  <1>4. s \in Seq(Entry) /\ Replay(s, Len(s)) = Replay(stack, stackEnd)
    <2> HIDE DEF P
    <2> QED
      BY <1>1, <1>3, CompressedIs
  <1> HIDE DEF s
  <1> QED
    BY <1>1, <1>2, <1>4, ReloadKept

LEMMA TruncateKept ==
  ASSUME HInv, Truncate
  PROVE  HInv' /\ Kept /\ PictureShown' = PictureShown
  <1> DEFINE a == SubSeq(stack, 1, stackEnd)
             s == WithDefaults(a)
  <1>1. /\ stack \in Seq(Entry) /\ stackEnd \in 0 .. Len(stack)
        /\ PictureShown = Replay(stack, stackEnd)
    BY ShownIs
  <1>2. RecordStack /\ Reloaded(s, Len(s))
    BY DEF Truncate
  <1>3. /\ a \in Seq(Entry) /\ Len(a) = stackEnd
        /\ \A k \in 1 .. stackEnd : a[k] = stack[k]
    BY <1>1
  <1> HIDE DEF a
  <1>4. ASSUME NEW m \in Iops PROVE Replay(a, stackEnd)[m] = Replay(stack, stackEnd)[m]
    <2>1. NoEntry(stack, stackEnd, m) => NoEntry(a, stackEnd, m)
      BY <1>3 DEF NoEntry
    <2>2. \A i : LastEntry(stack, stackEnd, m, i) =>
                   LastEntry(a, stackEnd, m, i) /\ ParamsOf(a[i]) = ParamsOf(stack[i])
      BY <1>3 DEF LastEntry
    <2>3. stackEnd \in 0 .. Len(a)
      BY <1>1, <1>3
    <2> QED
      BY <1>1, <1>3, <2>1, <2>2, <2>3, SameReplay
  <1>5. stackEnd \in 0 .. Len(a)
    BY <1>1, <1>3
  <1>6. Replay(a, stackEnd) = Replay(stack, stackEnd)
    BY <1>1, <1>3, <1>4, <1>5, ReplayType, EqualPictures
  <1>7. s \in Seq(Entry) /\ Replay(s, stackEnd + Len(s) - Len(a)) = Replay(a, stackEnd)
    BY <1>3, <1>5, WithDefaultsIs
  <1> HIDE DEF s
  <1>8. stackEnd + Len(s) - Len(a) = Len(s)
    BY <1>1, <1>3, <1>7
  <1> QED
    BY <1>1, <1>2, <1>6, <1>7, <1>8, ReloadKept

LEMMA DiscardKept ==
  ASSUME HInv, Discard
  PROVE  HInv' /\ Kept
  <1>1. FreshStack \in Seq(Entry)
    BY StackAssumption
  <1> QED
    BY <1>1, ReloadKept DEF Discard

\* An item that is swapped with the stack brings back its picture.
LEMMA SwappedIs ==
  ASSUME NEW n \in Snap, Swapped(n)
  PROVE  /\ Shows(stack', stackEnd', params') /\ focusHash' \in BOOLEAN
         /\ lastTarget' = "none" /\ PictureShown' = PictureOf(n)
  <1> DEFINE w == WithDefaults(n.stack)
             end == n.end + Len(w) - Len(n.stack)
  <1>1. n.stack \in Seq(Entry) /\ n.end \in 0 .. Len(n.stack)
    BY DEF Snap
  <1>2. w \in Seq(Entry) /\ end \in 0 .. Len(w) /\ Replay(w, end) = Replay(n.stack, n.end)
    BY <1>1, WithDefaultsIs
  <1>3. Reloaded(w, end)
    BY DEF Swapped
  <1> HIDE DEF w, end
  <1> QED
    BY <1>2, <1>3, ReloadedIs DEF PictureOf

LEMMA UndoKept ==
  ASSUME HInv, UndoStack
  PROVE  HInv' /\ Kept
  <1> DEFINE u == PicturesOf(undoable)
             x == PictureShown
             r == PicturesOf(redoable)
  <1>1. LineParts
    BY LineIsPictures
  <1>2. /\ undoable # <<>> /\ Swapped(Head(undoable))
        /\ undoable' = Tail(undoable) /\ redoable' = <<Snapshot>> \o redoable
    BY DEF UndoStack
  <1>3. Head(undoable) \in Snap /\ Tail(undoable) \in Seq(Snap) /\ redoable' \in Seq(Snap)
    BY <1>1, <1>2 DEF LineParts
  <1>4. /\ Shows(stack', stackEnd', params') /\ focusHash' \in BOOLEAN
        /\ lastTarget' = "none" /\ PictureShown' = PictureOf(Head(undoable))
    BY <1>2, <1>3, SwappedIs
  <1>5. HInv'
    BY <1>2, <1>3, <1>4 DEF HInv
  <1>6. LineParts'
    BY <1>5, LineIsPictures, PTL
  <1>7. /\ u # <<>> /\ PictureShown' = Head(u)
        /\ PicturesOf(undoable)' = Tail(u) /\ PicturesOf(redoable)' = <<x>> \o r
    BY <1>1, <1>2, <1>4, PicturesOfTail, PicturesOfPushed DEF LineParts
  <1>8. Line' = PictureLine(Tail(u), Head(u), <<x>> \o r)
    BY <1>6, <1>7 DEF LineParts
  <1>9. /\ u \in Seq(Pictures) /\ r \in Seq(Pictures) /\ x \in Pictures
        /\ Line = PictureLine(u, x, r)
    BY <1>1 DEF LineParts
  <1> HIDE DEF u, x, r
  <1>10. Line' = Line
    BY <1>7, <1>8, <1>9, UndoneLine
  <1> QED
    BY <1>5, <1>10 DEF Kept

LEMMA RedoKept ==
  ASSUME HInv, RedoStack
  PROVE  HInv' /\ Kept
  <1> DEFINE u == PicturesOf(undoable)
             x == PictureShown
             r == PicturesOf(redoable)
  <1>1. LineParts
    BY LineIsPictures
  <1>2. /\ redoable # <<>> /\ Swapped(Head(redoable))
        /\ redoable' = Tail(redoable) /\ undoable' = <<Snapshot>> \o undoable
    BY DEF RedoStack
  <1>3. Head(redoable) \in Snap /\ Tail(redoable) \in Seq(Snap) /\ undoable' \in Seq(Snap)
    BY <1>1, <1>2 DEF LineParts
  <1>4. /\ Shows(stack', stackEnd', params') /\ focusHash' \in BOOLEAN
        /\ lastTarget' = "none" /\ PictureShown' = PictureOf(Head(redoable))
    BY <1>2, <1>3, SwappedIs
  <1>5. HInv'
    BY <1>2, <1>3, <1>4 DEF HInv
  <1>6. LineParts'
    BY <1>5, LineIsPictures, PTL
  <1>7. /\ r # <<>> /\ PictureShown' = Head(r)
        /\ PicturesOf(redoable)' = Tail(r) /\ PicturesOf(undoable)' = <<x>> \o u
    BY <1>1, <1>2, <1>4, PicturesOfTail, PicturesOfPushed DEF LineParts
  <1>8. Line' = PictureLine(<<x>> \o u, Head(r), Tail(r))
    BY <1>6, <1>7 DEF LineParts
  <1>9. /\ u \in Seq(Pictures) /\ r \in Seq(Pictures) /\ x \in Pictures
        /\ Line = PictureLine(u, x, r)
    BY <1>1 DEF LineParts
  <1> HIDE DEF u, x, r
  <1>10. Line' = Line
    BY <1>7, <1>8, <1>9, RedoneLine
  <1> QED
    BY <1>5, <1>10 DEF Kept

LEMMA InitHInv == StackInit => HInv
  <1> SUFFICES ASSUME StackInit PROVE HInv
    OBVIOUS
  <1>1. /\ stack = FreshStack /\ stackEnd = Len(FreshStack) /\ params = Replay(stack, stackEnd)
        /\ focusHash = FALSE /\ lastTarget = "none" /\ undoable = <<>> /\ redoable = <<>>
    BY DEF StackInit
  <1>2. stack \in Seq(Entry) /\ stackEnd \in 0 .. Len(stack)
    BY <1>1, StackAssumption
  <1>3. params \in [Iops -> Params]
    BY <1>1, <1>2, ReplayType
  <1>4. Shows(stack, stackEnd, params)
    BY <1>1, <1>2, <1>3 DEF Shows
  <1>5. <<>> \in Seq(Snap)
    OBVIOUS
  <1> QED
    BY <1>1, <1>4, <1>5 DEF HInv

\* Every operation keeps the invariant and the line; compressing and
\* truncating keep the picture.
LEMMA StackStep ==
  HInv /\ [StackNext]_stackVars =>
    /\ HInv'
    /\ [Kept /\ (Compress \/ Truncate => PictureShown' = PictureShown)]_stackVars
  <1> SUFFICES ASSUME HInv, [StackNext]_stackVars
               PROVE  /\ HInv'
                      /\ [/\ Kept
                          /\ Compress \/ Truncate => PictureShown' = PictureShown]_stackVars
    OBVIOUS
  <1>1. CASE UNCHANGED stackVars
    BY <1>1 DEF HInv, Shows, stackVars
  <1>2. CASE StackNext
    <2>1. Compress \/ Truncate => PictureShown' = PictureShown
      BY CompressKept, TruncateKept
    <2>2. HInv' /\ Kept
      <3>1. ASSUME NEW m \in Iops, NEW v \in 0 .. MaxValue, EditControl(m, v)
            PROVE  HInv' /\ Kept
        <4>1. [value |-> v, on |-> TRUE] \in Params
          BY DEF Params
        <4> QED
          BY <3>1, <4>1, EditKept DEF EditControl
      <3>2. ASSUME NEW m \in Iops, ToggleModule(m)
            PROVE  HInv' /\ Kept
        <4>1. params[m] \in Params
          BY DEF HInv, Shows
        <4>2. [params[m] EXCEPT !.on = ~@] \in Params
          BY <4>1 DEF Params
        <4> QED
          BY <3>2, <4>2, EditKept DEF ToggleModule
      <3> QED
        BY <1>2, <3>1, <3>2, FocusKept, SelectKept, CompressKept, TruncateKept, DiscardKept,
           UndoKept, RedoKept DEF StackNext
    <2> QED
      BY <2>1, <2>2
  <1> QED
    BY <1>1, <1>2

\* The snapshots on the undo and redo lists (libs/history.c) lead back to every
\* picture that was recorded, and compressing or truncating the stack changes
\* no picture.
THEOREM PicturesKept == StackSpec => OneTimeline
  <1>1. HInv /\ [StackNext]_stackVars =>
          /\ HInv'
          /\ [/\ \/ Line' = Line
                 \/ /\ Place' = Place + 1 /\ Len(Line') = Place'
                    /\ SubSeq(Line', 1, Place) = SubSeq(Line, 1, Place)
                 \/ /\ Place' = Place /\ Len(Line) = Place /\ Len(Line') = Place
                    /\ SubSeq(Line', 1, Place - 1) = SubSeq(Line, 1, Place - 1)
              /\ Compress \/ Truncate => PictureShown' = PictureShown]_stackVars
    BY StackStep DEF Kept, RecordedPicture, MergedPicture
  <1> QED
    BY <1>1, InitHInv, PTL DEF StackSpec, OneTimeline
-----------------------------------------------------------------------------
(* The two pictures of the darkroom.                                       *)

LEMMA PipesInitially == PipesInit => PipesInv
  <1> SUFFICES ASSUME PipesInit
               PROVE  PipesInv
    OBVIOUS
  <1> USE DEF PipesInit
  <1>1. PipesTypeOK
    <2>1. picture \in [Pipes -> [of : Nat, view : Nat]]
      OBVIOUS
    <2>2. /\ status \in [Pipes -> {"valid", "dirty", "running"}]
          /\ at \in [Pipes -> {"idle", "begin", "restart", "change", "fit", "process",
                              "aborted", "completed", "end"}]
      OBVIOUS
    <2>3. /\ seen \in [Pipes -> Nat] /\ nodes \in [Pipes -> Nat]
          /\ {history, view, stamp} \subseteq Nat /\ region \in Nat
      OBVIOUS
    <2>4. /\ changed \in [Pipes -> BOOLEAN] /\ asked \in [Pipes -> BOOLEAN]
          /\ missed \in [Pipes -> BOOLEAN] /\ redraw \in BOOLEAN /\ zoomed \in BOOLEAN
      OBVIOUS
    <2> QED
      BY <2>1, <2>2, <2>3, <2>4 DEF PipesTypeOK
  <1>2. DirtyIsAsked /\ RunningWorks /\ PendingIsKnown
    BY DEF DirtyIsAsked, RunningWorks, PendingIsKnown, Pending
  <1>3. BehindIsAsked
    BY DEF BehindIsAsked, Other, Pipes
  <1>4. NodesAreCurrent /\ PictureOfNodes /\ PictureOfView
    BY DEF NodesAreCurrent, PictureOfNodes, PictureOfView, Pipes
  <1> QED
    BY <1>1, <1>2, <1>3, <1>4 DEF PipesInv

LEMMA PipesTypes ==
  ASSUME PipesInv, PipesNext
  PROVE  PipesTypeOK'
  <1> USE DEF PipesInv, PipesTypeOK, guiVars, flagVars, workVars
  <1>1. "full" \in Pipes /\ "preview" \in Pipes
    BY DEF Pipes
  <1>2. CASE Edit
    BY <1>1, <1>2 DEF Edit
  <1>3. CASE Pan
    BY <1>1, <1>3 DEF Pan
  <1>4. CASE DirtyCenter
    BY <1>1, <1>4 DEF DirtyCenter
  <1>5. CASE DirtyAll
    BY <1>5 DEF DirtyAll
  <1>6. CASE StampAll
    BY <1>6 DEF StampAll
  <1>7. CASE StampCenter
    BY <1>1, <1>7 DEF StampCenter
  <1>8. CASE Paint
    BY <1>1, <1>8 DEF Paint
  <1>9. CASE AskFull
    BY <1>1, <1>9 DEF AskFull, FullRequest
  <1>10. CASE AskPreview
    BY <1>1, <1>10 DEF AskPreview, PreviewRequest
  <1>11. ASSUME NEW p \in Pipes, PipeStep(p)
         PROVE  PipesTypeOK'
    <2> USE DEF Goes, Pending, Again
    <2>1. CASE TakeJob(p)
      BY <2>1 DEF TakeJob
    <2>2. CASE Begin(p)
      BY <2>2 DEF Begin
    <2>3. CASE Restart(p)
      BY <2>3 DEF Restart
    <2>4. CASE Synch(p)
      BY <2>4 DEF Synch
    <2>5. CASE Fit(p)
      BY <2>5 DEF Fit
    <2>6. CASE Abort(p)
      BY <2>6 DEF Abort
    <2>7. CASE Complete(p)
      BY <2>7 DEF Complete
    <2>8. CASE Settle(p)
      BY <2>8 DEF Settle
    <2>9. CASE CallValid(p)
      BY <2>9 DEF CallValid
    <2> QED
      BY <1>11, <2>1, <2>2, <2>3, <2>4, <2>5, <2>6, <2>7, <2>8, <2>9 DEF PipeStep
  <1> QED
    BY <1>2, <1>3, <1>4, <1>5, <1>6, <1>7, <1>8, <1>9, <1>10, <1>11 DEF PipesNext, GuiStep

\* PipesInv without the types.
PipesRest ==
  /\ DirtyIsAsked /\ RunningWorks /\ PendingIsKnown /\ BehindIsAsked
  /\ NodesAreCurrent /\ PictureOfNodes /\ PictureOfView

LEMMA MainLoopSteps ==
  ASSUME PipesInv, Edit \/ Pan \/ DirtyCenter \/ GuiStep
  PROVE  PipesRest'
  <1> USE DEF PipesInv, PipesTypeOK, guiVars, flagVars, workVars, PipesRest, Pending,
              WillAsk, Works, Pipes, Other, DirtyIsAsked, RunningWorks, PendingIsKnown,
              BehindIsAsked, NodesAreCurrent, PictureOfNodes, PictureOfView
  <1>2. CASE Edit
    BY <1>2 DEF Edit
  <1>3. CASE Pan
    BY <1>3 DEF Pan
  <1>4. CASE DirtyCenter
    BY <1>4 DEF DirtyCenter
  <1>5. CASE DirtyAll
    BY <1>5 DEF DirtyAll
  <1>6. CASE StampAll
    BY <1>6 DEF StampAll
  <1>7. CASE StampCenter
    BY <1>7 DEF StampCenter
  <1>8. CASE Paint
    BY <1>8 DEF Paint
  <1>9. CASE AskFull
    BY <1>9 DEF AskFull, FullRequest
  <1>10. CASE AskPreview
    BY <1>10 DEF AskPreview, PreviewRequest
  <1> QED
    BY <1>2, <1>3, <1>4, <1>5, <1>6, <1>7, <1>8, <1>9, <1>10 DEF GuiStep

LEMMA WorkerSteps ==
  ASSUME PipesInv, NEW p \in Pipes, PipeStep(p)
  PROVE  PipesRest'
  <1> USE DEF PipesInv, PipesTypeOK, guiVars, flagVars, workVars, PipesRest, Pending,
              WillAsk, Works, Pipes, Other, DirtyIsAsked, RunningWorks, PendingIsKnown,
              BehindIsAsked, NodesAreCurrent, PictureOfNodes, PictureOfView, Goes, Again
  <1>1. CASE TakeJob(p)
    BY <1>1 DEF TakeJob
  <1>2. CASE Begin(p)
    BY <1>2 DEF Begin
  <1>3. CASE Restart(p)
    BY <1>3 DEF Restart
  <1>4. CASE Synch(p)
    BY <1>4 DEF Synch
  <1>5. CASE Fit(p)
    BY <1>5 DEF Fit
  <1>6. CASE Abort(p)
    BY <1>6 DEF Abort
  <1>7. CASE Complete(p)
    BY <1>7 DEF Complete
  <1>8. CASE Settle(p)
    BY <1>8 DEF Settle
  <1>9. CASE CallValid(p)
    BY <1>9 DEF CallValid
  <1> QED
    BY <1>1, <1>2, <1>3, <1>4, <1>5, <1>6, <1>7, <1>8, <1>9 DEF PipeStep

LEMMA PipesStutter ==
  ASSUME PipesInv, UNCHANGED pixelVars
  PROVE  PipesInv'
  BY DEF PipesInv, PipesTypeOK, DirtyIsAsked, RunningWorks, PendingIsKnown, BehindIsAsked,
         NodesAreCurrent, PictureOfNodes, PictureOfView, Pending, WillAsk, Works,
         pixelVars, guiVars, flagVars, workVars

LEMMA PipesKept == PipesInv /\ [PipesNext]_pixelVars => PipesInv'
  <1>1. ASSUME PipesInv, PipesNext
        PROVE  PipesTypeOK' /\ PipesRest'
    <2>1. PipesTypeOK'
      BY <1>1, PipesTypes
    <2>2. PipesRest'
      BY <1>1, MainLoopSteps, WorkerSteps DEF PipesNext
    <2> QED
      BY <2>1, <2>2
  <1> QED
    BY <1>1, PipesStutter DEF PipesInv, PipesRest

\* The flags, the requests and the runs know of every change, whatever the main
\* loop and the two workers do in between (develop.c, pixelpipe_hb.c).
THEOREM PipesInductive == PipesSpec => []PipesInv
  BY PipesInitially, PipesKept, PTL DEF PipesSpec

LEMMA RestOfInvariant == PipesInv => RestIsSettled
  <1> SUFFICES ASSUME PipesInv, AtRest
               PROVE  /\ seen["full"] = seen["preview"]
                      /\ \A p \in Pipes : IsCurrent(p) \/ missed[p]
    BY DEF RestIsSettled
  <1>1. "full" \in Pipes /\ "preview" \in Pipes /\ seen \in [Pipes -> Nat]
    BY DEF PipesInv, PipesTypeOK, Pipes
  <1>2. \A p \in Pipes : ~WillAsk(p) /\ ~asked[p] /\ ~Works(p)
    BY DEF AtRest, WillAsk
  <1>3. seen["full"] = seen["preview"]
    BY <1>1, <1>2 DEF PipesInv, BehindIsAsked, Other
  <1>4. ASSUME NEW p \in Pipes, ~missed[p]
        PROVE  IsCurrent(p)
    <2>1. ~Pending(p)
      BY <1>2, <1>4 DEF PipesInv, PendingIsKnown, DirtyIsAsked, AtRest
    <2>2. picture[p].of = history
      BY <1>4, <2>1, <1>2 DEF PipesInv, PictureOfNodes, NodesAreCurrent, Pending, Works
    <2>3. picture[p].view = IF p = "full" THEN view ELSE 0
      BY <1>2, <2>1 DEF PipesInv, PictureOfView, Pipes, AtRest, Works
    <2>4. picture[p] \in [of : Nat, view : Nat]
      BY DEF PipesInv, PipesTypeOK
    <2> QED
      BY <2>2, <2>3, <2>4 DEF IsCurrent
  <1> QED
    BY <1>3, <1>4

\* Where no step is left, a picture that is not of the last edit was called valid
\* over one that had just come (develop.c:520), and no pipe is older than the
\* other.
THEOREM PipesSettle == PipesSpec => []RestIsSettled
  BY PipesInductive, RestOfInvariant, PTL
=============================================================================
