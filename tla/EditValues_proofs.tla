-------------------------- MODULE EditValues_proofs --------------------------
(***************************************************************************)
(* The values of a run for all settings, ranges, presets and operations:   *)
(* the shadow that the model reads is a replay of what was applied, and    *)
(* the controls of darktable are what the same operations make of the      *)
(* snapshot.  The folds of the model are shown to be traces of one write   *)
(* after the other, and the sort of a batch to be a renumbering, which is  *)
(* the identity on what the bridge has sorted already.  At the end, the    *)
(* guardrails of the tool loop (ToolBudget).                               *)
(***************************************************************************)
EXTENDS EditValues, ToolBudget, Lemmas

LEMMA MaxOfRange ==
  ASSUME NEW n \in Nat \ {0}
  PROVE  Max(1 .. n) = n /\ (1 .. n) \ {n} = 1 .. n - 1
  <1>1. Max(1 .. n) \in 1 .. n /\ \A i \in 1 .. n : i <= Max(1 .. n)
    <2>1. 1 .. n \in SUBSET (1 .. n) /\ 1 .. n # {}
      OBVIOUS
    <2> QED
      BY <2>1, MaxIs
  <1>2. n \in 1 .. n
    OBVIOUS
  <1>3. Max(1 .. n) = n
    BY <1>1, <1>2
  <1> QED
    BY <1>3

-----------------------------------------------------------------------------
(* Folds: what FoldLeft computes of the writes of either side.             *)

Write(side, vals, o) ==
  IF side = "bridge" THEN ServerWrite(vals, o) ELSE ClientWrite(vals, o)

\* The recursive function in FoldLeft, on the sets of places up to n.
Iterates(side, b, q, n, f) ==
  f = [s \in SUBSET (1 .. n) |->
         IF s = {} THEN b ELSE Write(side, f[s \ {Max(s)}], q[Max(s)])]

LEMMA IterExists ==
  ASSUME NEW side, NEW b, NEW q, NEW n \in Nat
  PROVE  \E f : Iterates(side, b, q, n, f)
  <1> DEFINE G == {m \in Nat : \E f : Iterates(side, b, q, m, f)}
  <1>1. 0 \in G
    <2>1. \A s \in SUBSET (1 .. 0) : s = {}
      OBVIOUS
    <2>2. Iterates(side, b, q, 0, [s \in SUBSET (1 .. 0) |-> b])
      BY <2>1 DEF Iterates
    <2> QED
      BY <2>2
  <1>2. ASSUME NEW m \in G PROVE m + 1 \in G
    <2>1. m \in Nat /\ m + 1 \in Nat
      OBVIOUS
    <2>2. PICK f : Iterates(side, b, q, m, f)
      OBVIOUS
    <2> DEFINE D == SUBSET (1 .. m + 1)
               g == [s \in D |->
                       IF m + 1 \in s THEN Write(side, f[s \ {m + 1}], q[m + 1]) ELSE f[s]]
    <2>3. ASSUME NEW s \in D
          PROVE  g[s] = IF s = {} THEN b ELSE Write(side, g[s \ {Max(s)}], q[Max(s)])
      <3>1. CASE m + 1 \in s
        <4>1. Max(s) \in s /\ \A i \in s : i <= Max(s)
          <5>1. s \in SUBSET (1 .. (m + 1)) /\ s # {}
            BY <3>1
          <5> QED
            BY <2>1, <5>1, MaxIs
        <4>2. Max(s) = m + 1
          <5>1. Max(s) \in 1 .. m + 1 /\ m + 1 <= Max(s)
            BY <3>1, <4>1
          <5> QED
            BY <2>1, <5>1
        <4>3. s \ {m + 1} \in D /\ m + 1 \notin s \ {m + 1}
          OBVIOUS
        <4>4. g[s \ {m + 1}] = f[s \ {m + 1}]
          BY <4>3
        <4>5. g[s] = Write(side, f[s \ {m + 1}], q[m + 1])
          BY <3>1
        <4> HIDE DEF g, D
        <4> QED
          BY <3>1, <4>2, <4>4, <4>5
      <3>2. CASE m + 1 \notin s
        <4>1. s \in SUBSET (1 .. m)
          BY <2>1, <3>2
        <4>2. f[s] = IF s = {} THEN b ELSE Write(side, f[s \ {Max(s)}], q[Max(s)])
          BY <2>2, <4>1 DEF Iterates
        <4>3. s \ {Max(s)} \in D /\ m + 1 \notin s \ {Max(s)}
          BY <3>2
        <4>4. g[s \ {Max(s)}] = f[s \ {Max(s)}]
          BY <4>3
        <4>5. g[s] = f[s]
          BY <3>2
        <4> HIDE DEF g, D
        <4> QED
          BY <4>2, <4>4, <4>5
      <3> QED
        BY <3>1, <3>2
    <2>4. Iterates(side, b, q, m + 1, g)
      <3>1. g = [s \in D |-> g[s]]
        OBVIOUS
      <3>2. g = [s \in D |-> IF s = {} THEN b ELSE Write(side, g[s \ {Max(s)}], q[Max(s)])]
        <4> HIDE DEF g, D
        <4> QED
          BY <2>3, <3>1
      <3> QED
        BY <3>2 DEF Iterates
    <2> QED
      BY <2>1, <2>4
  <1>3. G = Nat
    <2>1. G \in SUBSET Nat
      OBVIOUS
    <2> HIDE DEF G
    <2> QED
      BY <1>1, <1>2, <2>1, InductionIs
  <1> QED
    BY <1>3

\* The results of the first 0, 1, ... operations of q.
Trace(side, b, q, v) ==
  v[0] = b /\ \A k \in 1 .. Len(q) : v[k] = Write(side, v[k - 1], q[k])

LEMMA IterIsTrace ==
  ASSUME NEW side, NEW b, NEW q, Len(q) \in Nat, NEW f, Iterates(side, b, q, Len(q), f)
  PROVE  Trace(side, b, q, [k \in 0 .. Len(q) |-> f[1 .. k]])
  <1> DEFINE v == [k \in 0 .. Len(q) |-> f[1 .. k]]
  <1>1. v[0] = b
    <2>1. 1 .. 0 = {} /\ 1 .. 0 \in SUBSET (1 .. Len(q)) /\ 0 \in 0 .. Len(q)
      OBVIOUS
    <2> QED
      BY <2>1 DEF Iterates
  <1>2. ASSUME NEW k \in 1 .. Len(q) PROVE v[k] = Write(side, v[k - 1], q[k])
    <2>1. k \in Nat \ {0} /\ k - 1 \in 0 .. Len(q) /\ k \in 0 .. Len(q)
      OBVIOUS
    <2>2. 1 .. k \in SUBSET (1 .. Len(q)) /\ 1 .. k # {}
      BY <2>1
    <2>3. f[1 .. k] = Write(side, f[(1 .. k) \ {Max(1 .. k)}], q[Max(1 .. k)])
      BY <2>2 DEF Iterates
    <2>4. f[1 .. k] = Write(side, f[1 .. k - 1], q[k])
      BY <2>1, <2>3, MaxOfRange
    <2>5. v[k] = f[1 .. k] /\ v[k - 1] = f[1 .. k - 1]
      BY <2>1
    <2> QED
      BY <2>4, <2>5
  <1> QED
    BY <1>1, <1>2 DEF Trace

\* FoldLeft is the last of them.
Fold(side, b, q) ==
  IF side = "bridge" THEN FoldLeft(ServerWrite, b, q) ELSE FoldLeft(ClientWrite, b, q)

LEMMA FoldIs ==
  ASSUME NEW side \in {"bridge", "darktable"}, NEW b, NEW S, NEW q \in Seq(S)
  PROVE  \E v : Trace(side, b, q, v) /\ Fold(side, b, q) = v[Len(q)]
  <1>1. Len(q) \in Nat /\ DOMAIN q = 1 .. Len(q)
    OBVIOUS
  <1>2. \E f : Iterates(side, b, q, Len(q), f) /\ Fold(side, b, q) = f[1 .. Len(q)]
    <2>1. CASE side = "bridge"
      <3>1. \E f : f = [s \in SUBSET (1 .. Len(q)) |->
                          IF s = {} THEN b ELSE ServerWrite(f[s \ {Max(s)}], q[Max(s)])]
        <4>1. PICK f : Iterates(side, b, q, Len(q), f)
          BY <1>1, IterExists
        <4>2. \A vals, o : Write(side, vals, o) = ServerWrite(vals, o)
          BY <2>1 DEF Write
        <4>3. f = [s \in SUBSET (1 .. Len(q)) |->
                     IF s = {} THEN b ELSE ServerWrite(f[s \ {Max(s)}], q[Max(s)])]
          BY <4>1, <4>2 DEF Iterates
        <4> QED
          BY <4>3
      <3> DEFINE f == CHOOSE g : g = [s \in SUBSET (1 .. Len(q)) |->
                          IF s = {} THEN b ELSE ServerWrite(g[s \ {Max(s)}], q[Max(s)])]
      <3>2. f = [s \in SUBSET (1 .. Len(q)) |->
                   IF s = {} THEN b ELSE ServerWrite(f[s \ {Max(s)}], q[Max(s)])]
        BY <3>1
      <3>3. FoldLeft(ServerWrite, b, q) = f[1 .. Len(q)]
        BY <1>1 DEF FoldLeft, MapThenFoldSet
      <3> HIDE DEF f
      <3> QED
        BY <2>1, <3>2, <3>3 DEF Iterates, Write, Fold
    <2>2. CASE side = "darktable"
      <3>1. \E f : f = [s \in SUBSET (1 .. Len(q)) |->
                          IF s = {} THEN b ELSE ClientWrite(f[s \ {Max(s)}], q[Max(s)])]
        <4>1. PICK f : Iterates(side, b, q, Len(q), f)
          BY <1>1, IterExists
        <4>2. \A vals, o : Write(side, vals, o) = ClientWrite(vals, o)
          BY <2>2 DEF Write
        <4>3. f = [s \in SUBSET (1 .. Len(q)) |->
                     IF s = {} THEN b ELSE ClientWrite(f[s \ {Max(s)}], q[Max(s)])]
          BY <4>1, <4>2 DEF Iterates
        <4> QED
          BY <4>3
      <3> DEFINE f == CHOOSE g : g = [s \in SUBSET (1 .. Len(q)) |->
                          IF s = {} THEN b ELSE ClientWrite(g[s \ {Max(s)}], q[Max(s)])]
      <3>2. f = [s \in SUBSET (1 .. Len(q)) |->
                   IF s = {} THEN b ELSE ClientWrite(f[s \ {Max(s)}], q[Max(s)])]
        BY <3>1
      <3>3. FoldLeft(ClientWrite, b, q) = f[1 .. Len(q)]
        BY <1>1 DEF FoldLeft, MapThenFoldSet
      <3> HIDE DEF f
      <3> QED
        BY <2>2, <3>2, <3>3 DEF Iterates, Write, Fold
    <2> QED
      BY <2>1, <2>2
  <1>3. PICK f : Iterates(side, b, q, Len(q), f) /\ Fold(side, b, q) = f[1 .. Len(q)]
    BY <1>2
  <1> DEFINE v == [k \in 0 .. Len(q) |-> f[1 .. k]]
  <1>4. Trace(side, b, q, v)
    BY <1>1, <1>3, IterIsTrace
  <1>5. v[Len(q)] = f[1 .. Len(q)]
    BY <1>1
  <1> HIDE DEF v
  <1> QED
    BY <1>3, <1>4, <1>5

\* Two traces agree as far as their operations do.
Agree(q, r, n) == /\ n \in Nat /\ Len(q) \in Nat /\ Len(r) \in Nat
                  /\ n <= Len(q) /\ n <= Len(r)
                  /\ \A i \in 1 .. n : q[i] = r[i]

LEMMA TraceAgrees ==
  ASSUME NEW side, NEW b, NEW q, NEW r, NEW v, NEW w, NEW n,
         Agree(q, r, n), Trace(side, b, q, v), Trace(side, b, r, w)
  PROVE  v[n] = w[n]
  <1> n \in Nat /\ Len(q) \in Nat /\ Len(r) \in Nat /\ n <= Len(q) /\ n <= Len(r)
    BY DEF Agree
  <1> \A i \in 1 .. n : q[i] = r[i]
    BY DEF Agree
  <1> DEFINE G == {m \in Nat : m <= n => v[m] = w[m]}
  <1>1. 0 \in G
    BY DEF Trace
  <1>2. ASSUME NEW m \in G PROVE m + 1 \in G
    <2>1. m \in Nat /\ m + 1 \in Nat /\ (m + 1) - 1 = m
      OBVIOUS
    <2>2. CASE m + 1 <= n
      <3>1. m + 1 \in 1 .. n /\ m + 1 \in 1 .. Len(q) /\ m + 1 \in 1 .. Len(r) /\ m <= n
        BY <2>1, <2>2
      <3>2. v[m] = w[m] /\ q[m + 1] = r[m + 1]
        BY <3>1
      <3>3. v[m + 1] = Write(side, v[(m + 1) - 1], q[m + 1])
            /\ w[m + 1] = Write(side, w[(m + 1) - 1], r[m + 1])
        BY <3>1 DEF Trace
      <3>4. v[m + 1] = w[m + 1]
        BY <2>1, <3>2, <3>3
      <3> QED
        BY <2>1, <3>4
    <2> QED
      BY <2>1, <2>2
  <1>3. G = Nat
    <2>1. G \in SUBSET Nat
      OBVIOUS
    <2> HIDE DEF G
    <2> QED
      BY <1>1, <1>2, <2>1, InductionIs
  <1> QED
    BY <1>3

\* The fold of a sequence is the last element of any of its traces.
LEMMA FoldOfTrace ==
  ASSUME NEW side \in {"bridge", "darktable"}, NEW b, NEW S, NEW q \in Seq(S),
         NEW v, Trace(side, b, q, v)
  PROVE  \A n \in 0 .. Len(q) : Fold(side, b, SubSeq(q, 1, n)) = v[n]
  <1> TAKE n \in 0 .. Len(q)
  <1> DEFINE p == SubSeq(q, 1, n)
  <1>1. p \in Seq(S) /\ Len(p) = n /\ \A i \in 1 .. n : p[i] = q[i]
    OBVIOUS
  <1>2. n \in Nat /\ Len(q) \in Nat /\ n <= Len(q)
    OBVIOUS
  <1> HIDE DEF p
  <1>3. PICK w : Trace(side, b, p, w) /\ Fold(side, b, p) = w[Len(p)]
    BY <1>1, FoldIs
  <1>4. w[n] = v[n]
    <2>1. Agree(p, q, n)
      BY <1>1, <1>2 DEF Agree
    <2> QED
      BY <1>3, <2>1, TraceAgrees
  <1> QED
    BY <1>1, <1>3, <1>4 DEF p

LEMMA FoldNil ==
  ASSUME NEW side \in {"bridge", "darktable"}, NEW b
  PROVE  Fold(side, b, << >>) = b
  <1>1. << >> \in Seq({}) /\ Len(<< >>) = 0
    OBVIOUS
  <1>2. PICK v : Trace(side, b, << >>, v) /\ Fold(side, b, << >>) = v[Len(<< >>)]
    BY <1>1, FoldIs
  <1> QED
    BY <1>1, <1>2 DEF Trace

LEMMA FoldAppend ==
  ASSUME NEW side \in {"bridge", "darktable"}, NEW b, NEW S, NEW q \in Seq(S), NEW o \in S
  PROVE  Fold(side, b, Append(q, o)) = Write(side, Fold(side, b, q), o)
  <1> DEFINE r == Append(q, o)
  <1>1. /\ r \in Seq(S) /\ Len(q) \in Nat /\ Len(r) = Len(q) + 1 /\ r[Len(q) + 1] = o
        /\ \A i \in 1 .. Len(q) : q[i] = r[i]
    OBVIOUS
  <1> HIDE DEF r
  <1>2. PICK v : Trace(side, b, q, v) /\ Fold(side, b, q) = v[Len(q)]
    BY FoldIs
  <1>3. PICK w : Trace(side, b, r, w) /\ Fold(side, b, r) = w[Len(r)]
    BY <1>1, FoldIs
  <1>4. Len(q) <= Len(q) /\ Len(q) <= Len(r) /\ Len(r) \in Nat
        /\ Len(q) + 1 \in 1 .. Len(r) /\ (Len(q) + 1) - 1 = Len(q)
    BY <1>1
  <1>5. v[Len(q)] = w[Len(q)]
    <2>1. Agree(q, r, Len(q))
      BY <1>1, <1>4 DEF Agree
    <2> QED
      BY <1>2, <1>3, <2>1, TraceAgrees
  <1>6. w[Len(q) + 1] = Write(side, w[(Len(q) + 1) - 1], r[Len(q) + 1])
    BY <1>3, <1>4 DEF Trace
  <1> QED
    BY <1>1, <1>2, <1>3, <1>4, <1>5, <1>6 DEF r

\* Applying a list in two parts is applying it at once.
LEMMA FoldFrom ==
  ASSUME NEW side \in {"bridge", "darktable"}, NEW b, NEW S, NEW q \in Seq(S),
         NEW m \in 0 .. Len(q), NEW n \in m .. Len(q)
  PROVE  Fold(side, Fold(side, b, SubSeq(q, 1, m)), SubSeq(q, m + 1, n))
           = Fold(side, b, SubSeq(q, 1, n))
  <1> DEFINE mid == Fold(side, b, SubSeq(q, 1, m))
             r == SubSeq(q, m + 1, n)
  <1>1. PICK v : Trace(side, b, q, v)
    BY FoldIs
  <1>2. mid = v[m] /\ Fold(side, b, SubSeq(q, 1, n)) = v[n]
    <2>1. n \in 0 .. Len(q)
      OBVIOUS
    <2> QED
      BY <1>1, <2>1, FoldOfTrace
  <1>3. /\ r \in Seq(S) /\ Len(r) = n - m /\ n - m \in Nat
        /\ \A i \in 1 .. n - m : r[i] = q[m + i]
    OBVIOUS
  <1>4. PICK w : Trace(side, mid, r, w) /\ Fold(side, mid, r) = w[Len(r)]
    <2> HIDE DEF mid, r
    <2> QED
      BY <1>3, FoldIs
  <1> DEFINE G == {d \in Nat : d <= n - m => w[d] = v[m + d]}
  <1>5. 0 \in G
    <2>1. w[0] = mid
      BY <1>4 DEF Trace
    <2>2. m + 0 = m
      OBVIOUS
    <2> QED
      BY <1>2, <2>1, <2>2
  <1>6. ASSUME NEW d \in G PROVE d + 1 \in G
    <2>1. d \in Nat /\ d + 1 \in Nat
      OBVIOUS
    <2> HIDE DEF mid, r
    <2>2. CASE d + 1 <= n - m
      <3>1. /\ d <= n - m /\ d + 1 \in 1 .. n - m /\ (d + 1) - 1 = d
            /\ m + (d + 1) \in 1 .. Len(q) /\ (m + (d + 1)) - 1 = m + d
        BY <2>1, <2>2
      <3>2. w[d] = v[m + d] /\ r[d + 1] = q[m + (d + 1)]
        BY <1>3, <3>1
      <3>3. w[d + 1] = Write(side, w[(d + 1) - 1], r[d + 1])
        BY <1>3, <1>4, <3>1 DEF Trace
      <3>4. v[m + (d + 1)] = Write(side, v[(m + (d + 1)) - 1], q[m + (d + 1)])
        BY <1>1, <3>1 DEF Trace
      <3>5. w[d + 1] = v[m + (d + 1)]
        BY <3>1, <3>2, <3>3, <3>4
      <3> QED
        BY <2>1, <3>5
    <2> QED
      BY <2>1, <2>2
  <1>7. G = Nat
    <2>1. G \in SUBSET Nat
      OBVIOUS
    <2> HIDE DEF G
    <2> QED
      BY <1>5, <1>6, <2>1, InductionIs
  <1>8. w[n - m] = v[m + (n - m)] /\ m + (n - m) = n
    <2>1. n - m \in G /\ n - m <= n - m
      BY <1>3, <1>7
    <2> QED
      BY <2>1
  <1> HIDE DEF mid, r
  <1>9. Fold(side, mid, r) = Fold(side, b, SubSeq(q, 1, n))
    BY <1>2, <1>3, <1>4, <1>8
  <1> QED
    BY <1>9 DEF mid, r

\* A set of values that no operation of the list leaves holds the result.
LEMMA FoldStays ==
  ASSUME NEW side \in {"bridge", "darktable"}, NEW b, NEW S, NEW q \in Seq(S),
         NEW Good, b \in Good,
         \A vals \in Good : \A i \in 1 .. Len(q) : Write(side, vals, q[i]) \in Good
  PROVE  Fold(side, b, q) \in Good
  <1>1. PICK v : Trace(side, b, q, v) /\ Fold(side, b, q) = v[Len(q)]
    BY FoldIs
  <1> DEFINE G == {m \in Nat : m <= Len(q) => v[m] \in Good}
  <1>2. 0 \in G
    BY <1>1 DEF Trace
  <1>3. ASSUME NEW m \in G PROVE m + 1 \in G
    <2>1. m \in Nat /\ m + 1 \in Nat /\ (m + 1) - 1 = m
      OBVIOUS
    <2>2. CASE m + 1 <= Len(q)
      <3>1. m + 1 \in 1 .. Len(q) /\ v[m] \in Good
        BY <2>1, <2>2
      <3>2. v[m + 1] = Write(side, v[(m + 1) - 1], q[m + 1])
        BY <1>1, <3>1 DEF Trace
      <3>3. v[m + 1] \in Good
        BY <2>1, <3>1, <3>2
      <3> QED
        BY <2>1, <3>3
    <2> QED
      BY <2>1, <2>2
  <1>4. G = Nat
    <2>1. G \in SUBSET Nat
      OBVIOUS
    <2> HIDE DEF G
    <2> QED
      BY <1>2, <1>3, <2>1, InductionIs
  <1>5. Len(q) \in Nat
    OBVIOUS
  <1> QED
    BY <1>1, <1>4, <1>5

-----------------------------------------------------------------------------
(* Sorting on some places of a sequence.                                   *)

Before(P, before, i) == {j \in P : <<j, i>> \in before}

StrictOrder(P, before) ==
  /\ \A i \in P : <<i, i>> \notin before
  /\ \A i, j \in P : i = j \/ <<i, j>> \in before \/ <<j, i>> \in before
  /\ \A i, j, k \in P : <<i, j>> \in before /\ <<j, k>> \in before => <<i, k>> \in before

Counted(P, before) ==
  /\ \A i \in P : Cardinality(Before(P, before, i)) \in 0 .. Cardinality(P) - 1
  /\ \A i, j \in P : <<i, j>> \in before
       => Cardinality(Before(P, before, i)) < Cardinality(Before(P, before, j))
  /\ \A m \in 0 .. Cardinality(P) - 1 :
       \E i \in P : Cardinality(Before(P, before, i)) = m

\* In a strict order of finitely many places, each number smaller than that of
\* the places is the number of places before just one of them.
LEMMA CountedIs ==
  ASSUME NEW n \in Nat, NEW P \in SUBSET (1 .. n), NEW before, StrictOrder(P, before)
  PROVE  IsFiniteSet(P) /\ Counted(P, before)
  <1> DEFINE c == Cardinality(P)
             down(i) == Before(P, before, i)
             T == 0 .. c - 1
             f == [i \in P |-> Cardinality(down(i))]
  <1>1. IsFiniteSet(P)
    <2>1. IsFiniteSet(1 .. n)
      BY FS_Interval
    <2> QED
      BY <2>1, FS_Subset
  <1>2. c \in Nat
    BY <1>1, FS_CardinalityType
  <1>3. ASSUME NEW i \in P
        PROVE  /\ IsFiniteSet(down(i)) /\ Cardinality(down(i)) \in Nat
               /\ IsFiniteSet(down(i) \cup {i})
               /\ Cardinality(down(i) \cup {i}) = Cardinality(down(i)) + 1
    <2>1. down(i) \in SUBSET P /\ i \notin down(i)
      BY DEF Before, StrictOrder
    <2> HIDE DEF down
    <2>2. IsFiniteSet(down(i)) /\ Cardinality(down(i)) \in Nat
      BY <1>1, <2>1, FS_Subset, FS_CardinalityType
    <2> QED
      BY <2>1, <2>2, FS_AddElement
  <1>4. ASSUME NEW i \in P PROVE Cardinality(down(i)) \in T
    <2>1. down(i) \cup {i} \in SUBSET P
      BY DEF Before
    <2> HIDE DEF down
    <2>2. Cardinality(down(i) \cup {i}) <= c
      BY <1>1, <2>1, FS_Subset
    <2>3. Cardinality(down(i)) + 1 <= c
      BY <1>3, <2>2
    <2>4. Cardinality(down(i)) \in Nat
      BY <1>3
    <2> DEFINE d == Cardinality(down(i))
    <2> HIDE DEF c, d
    <2>5. d \in 0 .. c - 1
      BY <1>2, <2>3, <2>4 DEF d
    <2> QED
      BY <2>5 DEF d
  <1>5. ASSUME NEW i \in P, NEW j \in P, <<i, j>> \in before
        PROVE  Cardinality(down(i)) < Cardinality(down(j))
    <2>1. down(i) \cup {i} \in SUBSET down(j)
      BY <1>5 DEF Before, StrictOrder
    <2> HIDE DEF down
    <2>2. IsFiniteSet(down(j)) /\ Cardinality(down(j)) \in Nat
      BY <1>3
    <2>3. Cardinality(down(i) \cup {i}) <= Cardinality(down(j))
      BY <2>1, <2>2, FS_Subset
    <2>4. Cardinality(down(i)) + 1 <= Cardinality(down(j)) /\ Cardinality(down(i)) \in Nat
      BY <1>3, <2>3
    <2> QED
      BY <2>2, <2>4
  <1>6. f \in Injection(P, T)
    <2>1. f \in [P -> T]
      BY <1>4
    <2>2. ASSUME NEW i \in P, NEW j \in P, f[i] = f[j] PROVE i = j
      <3>1. Cardinality(down(i)) = Cardinality(down(j)) /\ Cardinality(down(i)) \in Nat
        BY <1>3, <2>2
      <3> HIDE DEF down, f
      <3>2. ~(<<i, j>> \in before) /\ ~(<<j, i>> \in before)
        BY <1>5, <3>1
      <3> QED
        BY <3>2 DEF StrictOrder
    <2> HIDE DEF f, T
    <2> QED
      BY <2>1, <2>2 DEF Injection, IsInjective
  <1>7. IsFiniteSet(T) /\ Cardinality(T) = c
    <2> HIDE DEF c
    <2>1. 0 \in Int /\ c - 1 \in Int
      BY <1>2
    <2>2. IsFiniteSet(T) /\ Cardinality(T) = IF 0 > c - 1 THEN 0 ELSE (c - 1) - 0 + 1
      BY <2>1, FS_Interval
    <2> HIDE DEF T
    <2> QED
      BY <1>2, <2>2
  <1>8. f \in Surjection(P, T)
    <2> HIDE DEF f, T
    <2> QED
      BY <1>6, <1>7, FS_Injection
  <1>9. \A m \in T : \E i \in P : Cardinality(down(i)) = m
    BY <1>8 DEF Surjection
  <1> HIDE DEF f
  <1> QED
    BY <1>1, <1>4, <1>5, <1>9 DEF Counted

\* The order of the indices is one of them.
ByIndex(P) == {e \in P \X P : e[1] < e[2]}

LEMMA ByIndexIs ==
  ASSUME NEW n \in Nat, NEW P \in SUBSET (1 .. n)
  PROVE  /\ StrictOrder(P, ByIndex(P))
         /\ \A p \in P : Before(P, ByIndex(P), p) = {q \in P : q < p}
  <1>1. \A i, j \in P : <<i, j>> \in ByIndex(P) <=> i < j
    BY DEF ByIndex
  <1>2. StrictOrder(P, ByIndex(P))
    <2>1. \A i \in P : ~(i < i)
      OBVIOUS
    <2>2. \A i, j \in P : i = j \/ i < j \/ j < i
      OBVIOUS
    <2>3. \A i, j, k \in P : (i < j /\ j < k) => i < k
      OBVIOUS
    <2> QED
      BY <1>1, <2>1, <2>2, <2>3 DEF StrictOrder
  <1> QED
    BY <1>1, <1>2 DEF Before

Sorted(P, before) ==
  /\ \A p \in P : FromPlace(P, before, p) \in P
  /\ \A p, q \in P : p < q => <<FromPlace(P, before, p), FromPlace(P, before, q)>> \in before
  /\ \A i \in P : \E p \in P : FromPlace(P, before, p) = i

\* What goes to the places, one after the other, is in the given order; all of
\* it goes somewhere, and stays where it is when it is in that order already.
LEMMA FromPlaceIs ==
  ASSUME NEW n \in Nat, NEW P \in SUBSET (1 .. n), NEW before, StrictOrder(P, before)
  PROVE  /\ Sorted(P, before)
         /\ (\A i, j \in P : i < j => <<i, j>> \in before)
              => \A p \in P : FromPlace(P, before, p) = p
  <1> DEFINE rk(i) == Cardinality(Before(P, before, i))
             pos(p) == Cardinality(Before(P, ByIndex(P), p))
             from(p) == FromPlace(P, before, p)
             T == 0 .. Cardinality(P) - 1
  <1>1. StrictOrder(P, ByIndex(P)) /\ \A p \in P : Before(P, ByIndex(P), p) = {q \in P : q < p}
    BY ByIndexIs
  <1>2. Counted(P, before) /\ Counted(P, ByIndex(P))
    BY <1>1, CountedIs
  <1>3. /\ \A i \in P : rk(i) \in T
        /\ \A i, j \in P : <<i, j>> \in before => rk(i) < rk(j)
        /\ \A m \in T : \E i \in P : rk(i) = m
    BY <1>2 DEF Counted
  <1>4. /\ \A i \in P : pos(i) \in T
        /\ \A i, j \in P : i < j => pos(i) < pos(j)
        /\ \A m \in T : \E i \in P : pos(i) = m
    BY <1>2 DEF Counted, ByIndex
  <1>5. \A p \in P : from(p) = CHOOSE i \in P : rk(i) = pos(p)
    BY <1>1 DEF FromPlace, Before
  <1>6. \A p \in P : from(p) \in P /\ rk(from(p)) = pos(p)
    <2> HIDE DEF rk, pos, from, T
    <2> QED
      BY <1>3, <1>4, <1>5
  <1>7. \A i \in T : i \in Int
    OBVIOUS
  <1>8. \A i, j \in P : rk(i) = rk(j) => i = j
    <2> HIDE DEF rk, pos, from, T
    <2>1. \A i, j \in P : rk(i) = rk(j) => (~(rk(i) < rk(j)) /\ ~(rk(j) < rk(i)))
      BY <1>3, <1>7
    <2> QED
      BY <1>3, <2>1 DEF StrictOrder
  <1>9. \A p, q \in P : p < q => <<from(p), from(q)>> \in before
    <2> SUFFICES ASSUME NEW p \in P, NEW q \in P, p < q PROVE <<from(p), from(q)>> \in before
      OBVIOUS
    <2> HIDE DEF rk, pos, from, T
    <2>1. rk(from(p)) < rk(from(q)) /\ rk(from(p)) \in Int /\ rk(from(q)) \in Int
      BY <1>3, <1>4, <1>6, <1>7
    <2>2. from(p) # from(q)
      BY <2>1
    <2>3. ~(<<from(q), from(p)>> \in before)
      <3>1. from(p) \in P /\ from(q) \in P
        BY <1>6
      <3>2. <<from(q), from(p)>> \in before => rk(from(q)) < rk(from(p))
        BY <1>3, <3>1
      <3>3. ~(rk(from(q)) < rk(from(p)))
        BY <2>1
      <3> QED
        BY <3>2, <3>3
    <2> QED
      BY <1>6, <2>2, <2>3 DEF StrictOrder
  <1>10. ASSUME NEW i \in P PROVE \E p \in P : from(p) = i
    <2> HIDE DEF rk, pos, from, T
    <2>1. PICK p \in P : pos(p) = rk(i)
      BY <1>3, <1>4
    <2>2. rk(from(p)) = rk(i) /\ from(p) \in P
      BY <1>6, <2>1
    <2> QED
      BY <1>8, <2>2
  <1>11. ASSUME \A i, j \in P : i < j => <<i, j>> \in before, NEW p \in P PROVE from(p) = p
    <2>1. Before(P, before, p) = {q \in P : q < p}
      <3>1. ASSUME NEW j \in P PROVE <<j, p>> \in before <=> j < p
        <4>1. j < p => <<j, p>> \in before
          BY <1>11
        <4>2. j = p => ~(<<j, p>> \in before)
          BY DEF StrictOrder
        <4>3. p < j => <<p, j>> \in before
          BY <1>11
        <4>4. <<p, j>> \in before => ~(<<j, p>> \in before)
          BY DEF StrictOrder
        <4>5. j < p \/ j = p \/ p < j
          OBVIOUS
        <4>6. j < p => (j # p /\ ~(p < j))
          OBVIOUS
        <4> QED
          BY <4>1, <4>2, <4>3, <4>4, <4>5, <4>6
      <3> QED
        BY <3>1 DEF Before
    <2>2. rk(p) = pos(p)
      BY <1>1, <2>1
    <2> HIDE DEF rk, pos, from, T
    <2> QED
      BY <1>6, <1>8, <2>2
  <1> HIDE DEF rk, pos, T
  <1> QED
    BY <1>6, <1>9, <1>10, <1>11 DEF Sorted

\* The reordering moves white-balance operations, among their own places.
Reordered(ops, w) ==
  /\ w \in Seq(Operations) /\ Len(w) = Len(ops)
  /\ \A p \in 1 .. Len(ops) : IF IsWhiteBalance(ops[p]) THEN IsWhiteBalance(w[p])
                                                        ELSE w[p] = ops[p]
  /\ \A p \in 1 .. Len(ops) : \E i \in 1 .. Len(ops) : w[p] = ops[i]
  /\ \A i \in 1 .. Len(ops) : \E p \in 1 .. Len(ops) : w[p] = ops[i]

RanksRise(ops) ==
  \A i, j \in WhiteBalanceIn(ops) : i < j => Rank(ops[i]) <= Rank(ops[j])

LEMMA RankType ==
  ASSUME NEW o \in Operations, IsWhiteBalance(o)
  PROVE  Rank(o) \in Int /\ Leaf[o.setting] \in Int
  BY EditValuesAssumption DEF Rank, IsWhiteBalance

\* w is ops, with the operations on white balance in the order of `before`.
SortedOn(ops, P, before, w) ==
  /\ Reordered(ops, w)
  /\ (\A i, j \in P : i < j => <<i, j>> \in before) => w = ops
  /\ \A p, q \in P : p < q =>
       \E i, j \in P : <<i, j>> \in before /\ w[p] = ops[i] /\ w[q] = ops[j]

LEMMA SortOnIs ==
  ASSUME NEW ops \in Seq(Operations), NEW P, P = WhiteBalanceIn(ops),
         NEW before, StrictOrder(P, before)
  PROVE  SortedOn(ops, P, before, SortOn(ops, P, before))
  <1> DEFINE w == SortOn(ops, P, before)
             from(p) == FromPlace(P, before, p)
  <1>1. Len(ops) \in Nat /\ DOMAIN ops = 1 .. Len(ops)
        /\ ops = [p \in 1 .. Len(ops) |-> ops[p]]
    OBVIOUS
  <1>2. P \in SUBSET (1 .. Len(ops)) /\ \A p \in 1 .. Len(ops) : p \in P <=> IsWhiteBalance(ops[p])
    BY <1>1 DEF WhiteBalanceIn
  <1>3. w = [p \in 1 .. Len(ops) |-> IF p \in P THEN ops[from(p)] ELSE ops[p]]
    BY <1>1 DEF SortOn
  <1> HIDE DEF w
  <1>4. Sorted(P, before)
    BY <1>1, <1>2, FromPlaceIs
  <1>5. (\A i, j \in P : i < j => <<i, j>> \in before) => \A p \in P : from(p) = p
    BY <1>1, <1>2, FromPlaceIs
  <1>6. /\ \A p \in P : from(p) \in P
        /\ \A p, q \in P : p < q => <<from(p), from(q)>> \in before
        /\ \A i \in P : \E p \in P : from(p) = i
    BY <1>4 DEF Sorted
  <1> HIDE DEF from
  <1>7. \A p \in P : w[p] = ops[from(p)] /\ w[p] \in Operations /\ IsWhiteBalance(w[p])
    BY <1>1, <1>2, <1>3, <1>6
  <1>8. \A p \in (1 .. Len(ops)) \ P : w[p] = ops[p] /\ w[p] \in Operations
    BY <1>1, <1>3
  <1>9. w \in Seq(Operations) /\ Len(w) = Len(ops)
    <2>1. w \in [1 .. Len(ops) -> Operations]
      BY <1>3, <1>7, <1>8
    <2>2. w \in Seq(Operations)
      BY <1>1, <2>1
    <2> QED
      BY <1>1, <2>1, <2>2
  <1>10. Reordered(ops, w)
    <2>1. \A p \in 1 .. Len(ops) : \E i \in 1 .. Len(ops) : w[p] = ops[i]
      BY <1>2, <1>6, <1>7, <1>8
    <2>2. \A i \in 1 .. Len(ops) : \E p \in 1 .. Len(ops) : w[p] = ops[i]
      <3> TAKE i \in 1 .. Len(ops)
      <3>1. CASE i \in P
        BY <1>2, <1>6, <1>7, <3>1
      <3>2. CASE i \notin P
        BY <1>8, <3>2
      <3> QED
        BY <3>1, <3>2
    <2>3. \A p \in 1 .. Len(ops) : IF IsWhiteBalance(ops[p]) THEN IsWhiteBalance(w[p])
                                                           ELSE w[p] = ops[p]
      BY <1>2, <1>7, <1>8
    <2> QED
      BY <1>9, <2>1, <2>2, <2>3 DEF Reordered
  <1>11. (\A i, j \in P : i < j => <<i, j>> \in before) => w = ops
    <2> SUFFICES ASSUME \A p \in P : from(p) = p PROVE w = ops
      BY <1>5
    <2>1. \A p \in 1 .. Len(ops) : (IF p \in P THEN ops[from(p)] ELSE ops[p]) = ops[p]
      OBVIOUS
    <2> QED
      BY <1>1, <1>3, <2>1
  <1>12. \A p, q \in P : p < q =>
           \E i, j \in P : <<i, j>> \in before /\ w[p] = ops[i] /\ w[q] = ops[j]
    BY <1>6, <1>7
  <1> QED
    BY <1>10, <1>11, <1>12 DEF SortedOn, w

ServerBefore(ops) ==
  LET P == WhiteBalanceIn(ops)
      rank(i) == Rank(ops[i])
      leaf(i) == Leaf[ops[i].setting]
  IN  {e \in P \X P :
         \/ rank(e[1]) < rank(e[2])
         \/ rank(e[1]) = rank(e[2]) /\ leaf(e[1]) < leaf(e[2])
         \/ /\ rank(e[1]) = rank(e[2]) /\ leaf(e[1]) = leaf(e[2])
            /\ e[1] < e[2]}

ExecutionBefore(ops) ==
  LET P == WhiteBalanceIn(ops)
      rank(i) == Rank(ops[i])
  IN  {e \in P \X P :
         \/ rank(e[1]) < rank(e[2])
         \/ rank(e[1]) = rank(e[2]) /\ e[1] < e[2]}

LEMMA PlacesIs ==
  ASSUME NEW ops \in Seq(Operations), NEW i \in WhiteBalanceIn(ops)
  PROVE  /\ i \in 1 .. Len(ops) /\ i \in Int /\ IsWhiteBalance(ops[i])
         /\ Rank(ops[i]) \in Int /\ Leaf[ops[i].setting] \in Int
  <1>1. i \in 1 .. Len(ops) /\ ops[i] \in Operations /\ IsWhiteBalance(ops[i])
    BY DEF WhiteBalanceIn
  <1> QED
    BY <1>1, RankType

\* The server's order of the operations of one call.
LEMMA ServerOrderIs ==
  ASSUME NEW ops \in Seq(Operations)
  PROVE  Reordered(ops, ServerOrder(ops)) /\ RanksRise(ServerOrder(ops))
  <1> DEFINE P == WhiteBalanceIn(ops)
             before == ServerBefore(ops)
             rank(i) == Rank(ops[i])
             leaf(i) == Leaf[ops[i].setting]
             w == ServerOrder(ops)
  <1>1. \A i \in P : i \in Int /\ rank(i) \in Int /\ leaf(i) \in Int
    BY PlacesIs
  <1>2. \A i, j \in P : <<i, j>> \in before <=>
          \/ rank(i) < rank(j)
          \/ rank(i) = rank(j) /\ leaf(i) < leaf(j)
          \/ rank(i) = rank(j) /\ leaf(i) = leaf(j) /\ i < j
    BY DEF ServerBefore
  <1> HIDE DEF before, rank, leaf, P, w
  <1>3. StrictOrder(P, before)
    <2>1. \A i \in P : ~(<<i, i>> \in before)
      BY <1>1, <1>2
    <2>2. \A i, j \in P : i = j \/ <<i, j>> \in before \/ <<j, i>> \in before
      <3> TAKE i \in P, j \in P
      <3>1. /\ i \in Int /\ j \in Int /\ rank(i) \in Int /\ rank(j) \in Int
            /\ leaf(i) \in Int /\ leaf(j) \in Int
        BY <1>1
      <3>2. \/ i = j
            \/ \/ rank(i) < rank(j)
               \/ rank(i) = rank(j) /\ leaf(i) < leaf(j)
               \/ rank(i) = rank(j) /\ leaf(i) = leaf(j) /\ i < j
            \/ \/ rank(j) < rank(i)
               \/ rank(j) = rank(i) /\ leaf(j) < leaf(i)
               \/ rank(j) = rank(i) /\ leaf(j) = leaf(i) /\ j < i
        BY <3>1
      <3> QED
        BY <1>2, <3>2
    <2>3. \A i, j, k \in P : <<i, j>> \in before /\ <<j, k>> \in before => <<i, k>> \in before
      <3> SUFFICES ASSUME NEW i \in P, NEW j \in P, NEW k \in P,
                          <<i, j>> \in before, <<j, k>> \in before
                   PROVE  <<i, k>> \in before
        OBVIOUS
      <3>1. /\ i \in Int /\ j \in Int /\ k \in Int
            /\ rank(i) \in Int /\ rank(j) \in Int /\ rank(k) \in Int
            /\ leaf(i) \in Int /\ leaf(j) \in Int /\ leaf(k) \in Int
        BY <1>1
      <3>2. /\ \/ rank(i) < rank(j)
               \/ rank(i) = rank(j) /\ leaf(i) < leaf(j)
               \/ rank(i) = rank(j) /\ leaf(i) = leaf(j) /\ i < j
            /\ \/ rank(j) < rank(k)
               \/ rank(j) = rank(k) /\ leaf(j) < leaf(k)
               \/ rank(j) = rank(k) /\ leaf(j) = leaf(k) /\ j < k
        BY <1>2
      <3>3. \/ rank(i) < rank(k)
            \/ rank(i) = rank(k) /\ leaf(i) < leaf(k)
            \/ rank(i) = rank(k) /\ leaf(i) = leaf(k) /\ i < k
        BY <3>1, <3>2
      <3> QED
        BY <1>2, <3>3
    <2> QED
      BY <2>1, <2>2, <2>3 DEF StrictOrder
  <1>4. w = SortOn(ops, P, before)
    BY DEF ServerOrder, ServerBefore, w, P, before
  <1>5. /\ Reordered(ops, w)
        /\ \A p, q \in P : p < q =>
             \E i, j \in P : <<i, j>> \in before /\ w[p] = ops[i] /\ w[q] = ops[j]
    <2>1. SortedOn(ops, P, before, w)
      BY <1>3, <1>4, SortOnIs DEF P
    <2> QED
      BY <2>1 DEF SortedOn
  <1>6. WhiteBalanceIn(w) = P
    <2>1. DOMAIN w = 1 .. Len(ops) /\ DOMAIN ops = 1 .. Len(ops)
      BY <1>5 DEF Reordered
    <2>2. \A p \in 1 .. Len(ops) : IsWhiteBalance(w[p]) <=> IsWhiteBalance(ops[p])
      BY <1>5 DEF Reordered
    <2> QED
      BY <2>1, <2>2 DEF WhiteBalanceIn, P
  <1>7. RanksRise(w)
    <2> SUFFICES ASSUME NEW p \in P, NEW q \in P, p < q PROVE Rank(w[p]) <= Rank(w[q])
      BY <1>6 DEF RanksRise
    <2>1. PICK i \in P, j \in P : <<i, j>> \in before /\ w[p] = ops[i] /\ w[q] = ops[j]
      BY <1>5
    <2>2. rank(i) <= rank(j)
      BY <1>1, <1>2, <2>1
    <2> QED
      BY <2>1, <2>2 DEF rank
  <1> QED
    BY <1>5, <1>7 DEF w

\* That of darktable changes nothing where the ranks rise already.
LEMMA ExecutionOrderIs ==
  ASSUME NEW ops \in Seq(Operations)
  PROVE  /\ Reordered(ops, ExecutionOrder(ops))
         /\ RanksRise(ops) => ExecutionOrder(ops) = ops
  <1> DEFINE P == WhiteBalanceIn(ops)
             before == ExecutionBefore(ops)
             rank(i) == Rank(ops[i])
             w == ExecutionOrder(ops)
  <1>1. \A i \in P : i \in Int /\ rank(i) \in Int
    BY PlacesIs
  <1>2. \A i, j \in P : <<i, j>> \in before <=>
          \/ rank(i) < rank(j)
          \/ rank(i) = rank(j) /\ i < j
    BY DEF ExecutionBefore
  <1>3. RanksRise(ops) => \A i, j \in P : i < j => rank(i) <= rank(j)
    BY DEF RanksRise
  <1> HIDE DEF before, rank, P, w
  <1>4. StrictOrder(P, before)
    <2>1. \A i \in P : ~(<<i, i>> \in before)
      BY <1>1, <1>2
    <2>2. \A i, j \in P : i = j \/ <<i, j>> \in before \/ <<j, i>> \in before
      <3> TAKE i \in P, j \in P
      <3>1. i \in Int /\ j \in Int /\ rank(i) \in Int /\ rank(j) \in Int
        BY <1>1
      <3>2. \/ i = j
            \/ rank(i) < rank(j) \/ (rank(i) = rank(j) /\ i < j)
            \/ rank(j) < rank(i) \/ (rank(j) = rank(i) /\ j < i)
        BY <3>1
      <3> QED
        BY <1>2, <3>2
    <2>3. \A i, j, k \in P : <<i, j>> \in before /\ <<j, k>> \in before => <<i, k>> \in before
      <3> SUFFICES ASSUME NEW i \in P, NEW j \in P, NEW k \in P,
                          <<i, j>> \in before, <<j, k>> \in before
                   PROVE  <<i, k>> \in before
        OBVIOUS
      <3>1. /\ i \in Int /\ j \in Int /\ k \in Int
            /\ rank(i) \in Int /\ rank(j) \in Int /\ rank(k) \in Int
        BY <1>1
      <3>2. /\ rank(i) < rank(j) \/ (rank(i) = rank(j) /\ i < j)
            /\ rank(j) < rank(k) \/ (rank(j) = rank(k) /\ j < k)
        BY <1>2
      <3>3. rank(i) < rank(k) \/ (rank(i) = rank(k) /\ i < k)
        BY <3>1, <3>2
      <3> QED
        BY <1>2, <3>3
    <2> QED
      BY <2>1, <2>2, <2>3 DEF StrictOrder
  <1>5. w = SortOn(ops, P, before)
    BY DEF ExecutionOrder, ExecutionBefore, w, P, before
  <1>6. Reordered(ops, w) /\ ((\A i, j \in P : i < j => <<i, j>> \in before) => w = ops)
    <2>1. SortedOn(ops, P, before, w)
      BY <1>4, <1>5, SortOnIs DEF P
    <2> QED
      BY <2>1 DEF SortedOn
  <1>7. RanksRise(ops) => \A i, j \in P : i < j => <<i, j>> \in before
    <2> SUFFICES ASSUME RanksRise(ops), NEW i \in P, NEW j \in P, i < j
                 PROVE  rank(i) < rank(j) \/ (rank(i) = rank(j) /\ i < j)
      BY <1>2
    <2>1. rank(i) <= rank(j) /\ rank(i) \in Int /\ rank(j) \in Int
      BY <1>1, <1>3
    <2> QED
      BY <2>1
  <1> QED
    BY <1>6, <1>7 DEF w

-----------------------------------------------------------------------------
(* The writes of the two sides.                                            *)

Held == {v \in Values : InRange(v)}

LEMMA RangeIs ==
  /\ \A s \in Settings : Lowest[s] \in Int /\ Highest[s] \in Int /\ Lowest[s] <= Highest[s]
  /\ Base \in Held
  /\ Preset \in Settings
  <1>1. ASSUME NEW s \in Settings
        PROVE  Lowest[s] \in Int /\ Highest[s] \in Int /\ Lowest[s] <= Highest[s]
    <2>1. Lowest[s] \in Int /\ Highest[s] \in Int /\ Base[s] \in Lowest[s] .. Highest[s]
      BY EditValuesAssumption
    <2> QED
      BY <2>1
  <1> QED
    BY <1>1, EditValuesAssumption DEF Held, Values, InRange

LEMMA ClampIs ==
  ASSUME NEW s \in Settings, NEW v \in Int
  PROVE  Clamp(s, v) \in Lowest[s] .. Highest[s]
  BY RangeIs DEF Clamp

LEMMA ResolvedIs ==
  ASSUME NEW vals \in Held, NEW o \in Operations
  PROVE  Resolved(vals, o) \in Int
  <1>1. o.setting \in Settings /\ o.value \in Int
    BY EditValuesAssumption
  <1>2. vals[o.setting] \in Int
    BY <1>1 DEF Held, Values
  <1> QED
    BY <1>1, <1>2 DEF Resolved

\* An operation that the bridge accepts keeps the numbers of either side in
\* their ranges.
LEMMA WriteInRange ==
  ASSUME NEW side, NEW vals \in Held, NEW o \in Operations, ServerAccepts(o)
  PROVE  Write(side, vals, o) \in Held
  <1> DEFINE t == o.setting
             range(s) == Lowest[s] .. Highest[s]
  <1>1. t \in Settings /\ o.value \in Int /\ Kind[t] \in {"float", "choice", "bool"}
    BY EditValuesAssumption
  <1>2. Clamp(t, Resolved(vals, o)) \in range(t)
    BY <1>1, ResolvedIs, ClampIs
  <1>3. Kind[t] # "float" => o.value \in range(t)
    BY DEF ServerAccepts
  <1>4. \A s \in Settings : vals[s] \in range(s)
    BY DEF Held, InRange
  <1>5. \A s \in Settings : range(s) \subseteq Int
    BY RangeIs
  <1>6. vals \in [Settings -> Int]
    BY DEF Held, Values
  <1>7. ServerWrite(vals, o) \in Held
    <2> DEFINE new == IF Kind[t] = "float" THEN Clamp(t, Resolved(vals, o)) ELSE o.value
               w == [vals EXCEPT ![t] = new]
    <2>1. new \in range(t)
      BY <1>2, <1>3
    <2> HIDE DEF new, range, t
    <2>2. \A s \in Settings : w[s] \in range(s)
      BY <1>1, <1>4, <1>6, <2>1
    <2>3. w \in [Settings -> Int]
      BY <1>1, <1>5, <1>6, <2>1
    <2>4. w = ServerWrite(vals, o)
      BY DEF ServerWrite, new, t
    <2> HIDE DEF w
    <2> QED
      BY <2>2, <2>3, <2>4 DEF Held, Values, InRange, range
  <1>8. ClientWrite(vals, o) \in Held
    <2> DEFINE w == ClientWrite(vals, o)
               kept == Kept(vals, o)
               counts == kept # vals[t] \/ t \in Always
               new(s) ==
                 IF s = t THEN kept
                 ELSE IF ~counts THEN vals[s]
                 ELSE IF t \in DOMAIN Follow /\ s \in DOMAIN Follow[t][kept]
                 THEN Follow[t][kept][s]
                 ELSE IF s = Preset /\ IsWhiteBalance(o) /\ Kind[t] = "float"
                 THEN UserDefined
                 ELSE IF t \in DOMAIN Switch /\ s = Switch[t] THEN 1
                 ELSE vals[s]
    <2>1. w = [s \in Settings |-> new(s)]
      BY DEF ClientWrite
    <2>2. kept \in range(t)
      <3>1. CASE Kind[t] = "float"
        BY <1>1, <1>2, <3>1, EditValuesAssumption DEF Kept
      <3>2. CASE Kind[t] # "float"
        BY <1>3, <3>2 DEF Kept
      <3> QED
        BY <3>1, <3>2
    <2> HIDE DEF kept, counts
    <2>3. ASSUME NEW s \in Settings PROVE new(s) \in range(s)
      <3>1. t \in DOMAIN Follow /\ s \in DOMAIN Follow[t][kept] => Follow[t][kept][s] \in range(s)
        BY <2>2, EditValuesAssumption
      <3>2. s = Preset => UserDefined \in range(s)
        BY EditValuesAssumption
      <3>3. t \in DOMAIN Switch /\ s = Switch[t] => 1 \in range(s)
        <4>1. t \in DOMAIN Switch /\ s = Switch[t] => Lowest[s] = 0 /\ Highest[s] = 1
          BY EditValuesAssumption
        <4> QED
          BY <4>1
      <3>4. vals[s] \in range(s)
        BY <1>4
      <3> HIDE DEF range, t
      <3> QED
        BY <2>2, <3>1, <3>2, <3>3, <3>4
    <2> HIDE DEF new, range, w
    <2>4. \A s \in Settings : w[s] \in range(s)
      BY <2>1, <2>3
    <2>5. w \in [Settings -> Int]
      BY <1>5, <2>1, <2>3
    <2>6. w \in Held
      BY <2>4, <2>5 DEF Held, Values, InRange, range
    <2> QED
      BY <2>6 DEF w
  <1> QED
    BY <1>7, <1>8 DEF Write

\* What a write of darktable does to a setting of which it is not the setting.
LEMMA OthersIs ==
  ASSUME NEW w \in Held, NEW p \in Operations, ServerAccepts(p),
         NEW s \in Settings \ (WhiteBalance \cup Followers), s # p.setting
  PROVE  \/ ClientWrite(w, p)[s] = w[s]
         \/ s \in Switches /\ ClientWrite(w, p)[s] = 1
  <1> DEFINE t == p.setting
             new == Kept(w, p)
  <1>1. t \in Settings /\ p.value \in Int /\ Kind[t] \in {"float", "choice", "bool"}
    BY EditValuesAssumption
  <1>2. new \in Lowest[t] .. Highest[t]
    <2>1. CASE Kind[t] = "float"
      <3>1. Clamp(t, Resolved(w, p)) \in Lowest[t] .. Highest[t]
        BY <1>1, ResolvedIs, ClampIs
      <3> QED
        BY <1>1, <2>1, <3>1, EditValuesAssumption DEF Kept
    <2>2. CASE Kind[t] # "float"
      BY <2>2 DEF Kept, ServerAccepts
    <2> QED
      BY <2>1, <2>2
  <1>3. ~(t \in DOMAIN Follow /\ s \in DOMAIN Follow[t][new])
    <2> HIDE DEF new, t
    <2> QED
      BY <1>2 DEF Followers
  <1>4. s # Preset
    BY EditValuesAssumption
  <1>5. t \in DOMAIN Switch /\ s = Switch[t] => s \in Switches
    BY DEF Switches
  <1> QED
    BY <1>3, <1>4, <1>5 DEF ClientWrite

\* Clamping to one range brings two numbers no further apart.
LEMMA ClampsNear ==
  ASSUME NEW s \in Settings, NEW a \in Int, NEW b \in Int, NEW e \in Nat,
         b - a \in -e .. e
  PROVE  Clamp(s, b) - Clamp(s, a) \in -e .. e
  BY RangeIs DEF Clamp

\* One more rounding may add one more error.
LEMMA ErrorGrows ==
  ASSUME NEW n \in Nat, NEW e \in Nat
  PROVE  /\ n * e \in Nat /\ (n + 1) * e = n * e + e
  <1>1. n * e \in Nat
    OBVIOUS
  <1>2. (n + 1) * e = n * e + e
    OBVIOUS
  <1> QED
    BY <1>1, <1>2

\* Outside of white balance both sides write the same, up to one rounding and
\* to the switches that darktable turns on.
LEMMA WritesNear ==
  ASSUME NEW v \in Held, NEW w \in Held, NEW n \in Nat, NearBy(v, w, n),
         NEW o \in Operations, NEW p \in Operations, ServerAccepts(o), ServerAccepts(p),
         IF IsWhiteBalance(o) THEN IsWhiteBalance(p) ELSE p = o
  PROVE  NearBy(ServerWrite(v, o), ClientWrite(w, p), n + 1)
  <1> SUFFICES ASSUME NEW s \in Settings \ (WhiteBalance \cup Followers)
               PROVE  IF s \in Switches
                      THEN ServerWrite(v, o)[s] <= ClientWrite(w, p)[s]
                      ELSE ClientWrite(w, p)[s] - ServerWrite(v, o)[s]
                             \in -((n + 1) * Error[s]) .. (n + 1) * Error[s]
    BY DEF NearBy
  <1> DEFINE e == Error[s]
             ne == n * Error[s]
             se == (n + 1) * Error[s]
  <1>1. /\ o.setting \in Settings /\ p.setting \in Settings
        /\ o.value \in Int /\ Kind[s] \in {"float", "choice", "bool"}
        /\ v \in [Settings -> Int] /\ v[s] \in Int /\ w[s] \in Int
        /\ v[s] \in Lowest[s] .. Highest[s]
        /\ e \in Nat
    BY EditValuesAssumption DEF Held, Values, InRange
  <1>2. ne \in Nat /\ se = ne + e
    <2>1. Error[s] \in Nat
      BY <1>1
    <2> QED
      BY <2>1, ErrorGrows
  <1>3. IF s \in Switches THEN v[s] <= w[s] ELSE w[s] - v[s] \in -ne .. ne
    BY DEF NearBy
  <1>4. s \in Switches => Kind[s] = "bool" /\ v[s] <= 1
    <2> SUFFICES ASSUME s \in Switches PROVE Kind[s] = "bool" /\ v[s] <= 1
      OBVIOUS
    <2>1. Kind[s] = "bool" /\ Lowest[s] = 0 /\ Highest[s] = 1
      BY EditValuesAssumption DEF Switches
    <2> QED
      BY <1>1, <2>1
  <1> HIDE DEF e, ne, se
  <1>5. CASE s # o.setting /\ s # p.setting
    <2>1. ServerWrite(v, o)[s] = v[s]
      BY <1>1, <1>5 DEF ServerWrite
    <2>2. \/ ClientWrite(w, p)[s] = w[s]
          \/ s \in Switches /\ ClientWrite(w, p)[s] = 1
      BY <1>5, OthersIs
    <2>3. CASE s \in Switches
      BY <1>1, <1>3, <1>4, <2>1, <2>2, <2>3
    <2>4. CASE s \notin Switches
      <3>1. w[s] - v[s] \in -se .. se
        BY <1>1, <1>2, <1>3, <2>4
      <3> QED
        BY <2>1, <2>2, <2>4, <3>1 DEF se
    <2> QED
      BY <2>3, <2>4
  <1>6. CASE p = o /\ s = o.setting
    <2>1. /\ ServerWrite(v, o)[s] = IF Kind[s] = "float" THEN Clamp(s, Resolved(v, o)) ELSE o.value
          /\ ClientWrite(w, p)[s] = Kept(w, o)
      BY <1>1, <1>6 DEF ServerWrite, ClientWrite
    <2>2. CASE Kind[s] # "float"
      <3>1. ServerWrite(v, o)[s] = o.value /\ ClientWrite(w, p)[s] = o.value
        BY <1>6, <2>1, <2>2 DEF Kept
      <3>2. o.value - o.value \in -se .. se /\ o.value <= o.value
        BY <1>1, <1>2
      <3> QED
        BY <3>1, <3>2 DEF se
    <2>3. CASE Kind[s] = "float"
      <3> DEFINE a == Resolved(v, o)
                 b == Resolved(w, o)
      <3>1. s \notin Switches
        BY <1>4, <2>3
      <3>2. a \in Int /\ b \in Int
        BY ResolvedIs
      <3>3. b - a \in -ne .. ne
        BY <1>1, <1>2, <1>3, <1>6, <3>1 DEF Resolved
      <3> HIDE DEF a, b
      <3>4. Clamp(s, b) - Clamp(s, a) \in -ne .. ne
        BY <1>2, <3>2, <3>3, ClampsNear
      <3>5. /\ Clamp(s, a) \in Int /\ Clamp(s, b) \in Lowest[s] .. Highest[s]
            /\ Lowest[s] \in Int /\ Highest[s] \in Int
        BY <3>2, ClampIs, RangeIs
      <3>6. /\ Stored[s][Clamp(s, b)] \in Int
            /\ Stored[s][Clamp(s, b)] - Clamp(s, b) \in -e .. e
        <4>1. /\ Stored[s][Clamp(s, b)] \in Lowest[s] .. Highest[s]
              /\ Stored[s][Clamp(s, b)] - Clamp(s, b) \in -Error[s] .. Error[s]
          BY <2>3, <3>5, EditValuesAssumption
        <4> QED
          BY <3>5, <4>1 DEF e
      <3>7. Stored[s][Clamp(s, b)] - Clamp(s, a) \in -se .. se
        BY <1>1, <1>2, <3>4, <3>5, <3>6
      <3>8. /\ ServerWrite(v, o)[s] = Clamp(s, a)
            /\ ClientWrite(w, p)[s] = Stored[s][Clamp(s, b)]
        BY <1>6, <2>1, <2>3 DEF Kept, a, b
      <3> QED
        BY <3>1, <3>7, <3>8 DEF se
    <2> QED
      BY <2>2, <2>3
  <1>7. (s # o.setting /\ s # p.setting) \/ (p = o /\ s = o.setting)
    BY DEF IsWhiteBalance
  <1> QED
    BY <1>5, <1>6, <1>7

AllAccepted(q) == \A i \in 1 .. Len(q) : ServerAccepts(q[i])

LEMMA FoldHeld ==
  ASSUME NEW side \in {"bridge", "darktable"}, NEW b \in Held,
         NEW q \in Seq(Operations), AllAccepted(q)
  PROVE  Fold(side, b, q) \in Held
  <1>1. \A vals \in Held : \A i \in 1 .. Len(q) : Write(side, vals, q[i]) \in Held
    <2> TAKE vals \in Held
    <2> TAKE i \in 1 .. Len(q)
    <2>1. q[i] \in Operations /\ ServerAccepts(q[i])
      BY DEF AllAccepted
    <2> QED
      BY <2>1, WriteInRange
  <1> QED
    BY <1>1, FoldStays

LEMMA ReorderedAccepted ==
  ASSUME NEW q \in Seq(Operations), NEW w, Reordered(q, w)
  PROVE  AllAccepted(q) => AllAccepted(w)
  BY DEF AllAccepted, Reordered

\* So a batch does, in whatever order darktable applies it.
LEMMA FoldsNear ==
  ASSUME NEW b \in Held, NEW c \in Held, NEW n \in Nat, NearBy(b, c, n),
         NEW q \in Seq(Operations), AllAccepted(q), NEW r, Reordered(q, r)
  PROVE  NearBy(Fold("bridge", b, q), Fold("darktable", c, r), n + Len(q))
  <1>1. /\ r \in Seq(Operations) /\ Len(r) = Len(q) /\ Len(q) \in Nat
        /\ \A p \in 1 .. Len(q) : IF IsWhiteBalance(q[p]) THEN IsWhiteBalance(r[p])
                                                        ELSE r[p] = q[p]
    BY DEF Reordered
  <1>2. AllAccepted(r)
    BY ReorderedAccepted
  <1>3. PICK v : Trace("bridge", b, q, v) /\ Fold("bridge", b, q) = v[Len(q)]
    BY FoldIs
  <1>4. PICK w : Trace("darktable", c, r, w) /\ Fold("darktable", c, r) = w[Len(r)]
    BY <1>1, FoldIs
  <1> DEFINE Same(m) == v[m] \in Held /\ w[m] \in Held /\ NearBy(v[m], w[m], n + m)
             G == {m \in Nat : m <= Len(q) => Same(m)}
  <1>5. 0 \in G
    <2>1. v[0] = b /\ w[0] = c /\ n + 0 = n
      BY <1>3, <1>4 DEF Trace
    <2> QED
      BY <2>1
  <1>6. ASSUME NEW m \in G PROVE m + 1 \in G
    <2>1. m \in Nat /\ m + 1 \in Nat /\ (m + 1) - 1 = m
      OBVIOUS
    <2>2. CASE m + 1 <= Len(q)
      <3> DEFINE k == m + 1
                 o == q[k]
                 p == r[k]
      <3>1. k \in 1 .. Len(q) /\ k \in 1 .. Len(r) /\ Same(m)
        BY <1>1, <2>1, <2>2
      <3>2. /\ o \in Operations /\ ServerAccepts(o) /\ p \in Operations /\ ServerAccepts(p)
            /\ IF IsWhiteBalance(o) THEN IsWhiteBalance(p) ELSE p = o
        BY <1>1, <1>2, <3>1 DEF AllAccepted
      <3>3. v[k] = Write("bridge", v[m], o) /\ w[k] = Write("darktable", w[m], p)
        BY <1>3, <1>4, <2>1, <3>1 DEF Trace
      <3> HIDE DEF k, o, p
      <3>4. v[k] \in Held /\ w[k] \in Held
        BY <3>1, <3>2, <3>3, WriteInRange
      <3>5. v[k] = ServerWrite(v[m], o) /\ w[k] = ClientWrite(w[m], p)
        BY <3>3 DEF Write
      <3>6. NearBy(v[k], w[k], n + k)
        <4>1. n + m \in Nat /\ (n + m) + 1 = n + k
          BY <2>1 DEF k
        <4>2. NearBy(v[k], w[k], (n + m) + 1)
          BY <3>1, <3>2, <3>5, <4>1, WritesNear
        <4> QED
          BY <4>1, <4>2
      <3>7. Same(k)
        BY <3>4, <3>6
      <3> QED
        BY <2>1, <3>7 DEF k
    <2> QED
      BY <2>1, <2>2
  <1>7. G = Nat
    <2>1. G \in SUBSET Nat
      OBVIOUS
    <2> HIDE DEF G
    <2> QED
      BY <1>5, <1>6, <2>1, InductionIs
  <1>8. Same(Len(q))
    <2>1. Len(q) \in G /\ Len(q) <= Len(q)
      <3> HIDE DEF G
      <3> QED
        BY <1>1, <1>7
    <2> HIDE DEF Same
    <2> QED
      BY <2>1
  <1> QED
    BY <1>1, <1>3, <1>4, <1>8

\* A batch goes through the simulation when all of it is accepted.
LEMMA AcceptedIs ==
  ASSUME NEW ops \in Seq(Operations), Len(Accepted(ops)) = Len(ops)
  PROVE  AllAccepted(ops)
  <1> SUFFICES ASSUME NEW k \in 1 .. Len(ops), ~ServerAccepts(ops[k]) PROVE FALSE
    BY DEF AllAccepted
  <1> DEFINE S == {o \in Operations : ServerAccepts(o)}
             I == {i \in 1 .. Len(ops) : ops[i] \notin S}
             refused == SelectInSeq(ops, LAMBDA o : o \notin S)
  <1>1. I \in SUBSET Nat /\ I \in SUBSET (1 .. Len(ops)) /\ k \in I
    OBVIOUS
  <1>2. refused = IF I # {} THEN Min(I) ELSE 0
    BY DEF SelectInSeq
  <1>3. Min(I) \in I
    <2> HIDE DEF I
    <2>1. PICK n \in I : \A m \in I : n <= m
      BY <1>1, LeastIs
    <2> QED
      BY <2>1 DEF Min
  <1>4. Accepted(ops) = IF refused = 0 THEN ops ELSE SubSeq(ops, 1, refused - 1)
    BY DEF Accepted, BeforeRefusal
  <1> HIDE DEF refused, I
  <1>5. refused \in 1 .. Len(ops)
    BY <1>1, <1>2, <1>3
  <1>6. Accepted(ops) = SubSeq(ops, 1, refused - 1)
    BY <1>4, <1>5
  <1>7. Len(SubSeq(ops, 1, refused - 1)) = refused - 1 /\ Len(ops) \in Nat
    BY <1>5
  <1> QED
    BY <1>5, <1>6, <1>7

-----------------------------------------------------------------------------
(* The invariant, as a predicate of the values that a step leaves.         *)

CallsRise(q, starts) ==
  \A i, j \in WhiteBalanceIn(q) :
    i < j /\ (~ \E b \in starts : i <= b /\ b < j) => Rank(q[i]) <= Rank(q[j])

ServerGood(sh, app, pen, starts, pl) ==
  /\ sh \in Held /\ app \in Seq(Operations) /\ pen \in Seq(Operations) /\ pl \in BOOLEAN
  /\ starts \subseteq 0 .. MaxOps /\ starts \subseteq 0 .. Len(app)
  /\ AllAccepted(app \o pen) /\ CallsRise(app \o pen, starts)
  /\ sh = Fold("bridge", Base, app)

ClientGood(app, img, ad, c, req, m) ==
  /\ img \in Held /\ ad \in BOOLEAN /\ c \in 0 .. Len(app) /\ m \in BOOLEAN
  /\ req \in {"active", "canceling", "ended"}
  /\ NearBy(Fold("bridge", Base, SubSeq(app, 1, c)), img, c)
  /\ ~m => img = Fold("darktable", Base, SubSeq(app, 1, c))

Server == ServerGood(shadow, applied, pending, callStarts, plan)
Client == ClientGood(applied, image, adaptation, count, request, merged)

LEMMA IInvIs == /\ IInv <=> (Server /\ Client)
                /\ IInv' <=> (Server' /\ Client')
  <1>1. /\ \A b, q : Fold("bridge", b, q) = FoldLeft(ServerWrite, b, q)
        /\ \A b, q : Fold("darktable", b, q) = FoldLeft(ClientWrite, b, q)
    BY DEF Fold
  <1>2. /\ TypeOK <=>
             /\ shadow \in Held /\ image \in Held
             /\ applied \in Seq(Operations) /\ pending \in Seq(Operations)
             /\ callStarts \subseteq 0 .. MaxOps
             /\ plan \in BOOLEAN /\ adaptation \in BOOLEAN /\ merged \in BOOLEAN
             /\ count \in 0 .. Len(applied)
             /\ request \in {"active", "canceling", "ended"}
        /\ TypeOK' <=>
             /\ shadow' \in Held /\ image' \in Held
             /\ applied' \in Seq(Operations) /\ pending' \in Seq(Operations)
             /\ callStarts' \subseteq 0 .. MaxOps
             /\ plan' \in BOOLEAN /\ adaptation' \in BOOLEAN /\ merged' \in BOOLEAN
             /\ count' \in 0 .. Len(applied')
             /\ request' \in {"active", "canceling", "ended"}
    BY DEF TypeOK, Held, Values, InRange
  <1>3. /\ applied \in Seq(Operations) /\ pending \in Seq(Operations)
             => (TakenAccepted <=> AllAccepted(applied \o pending))
        /\ applied' \in Seq(Operations) /\ pending' \in Seq(Operations)
             => (TakenAccepted' <=> AllAccepted(applied' \o pending'))
    <2>1. \A p, q \in Seq(Operations) : DOMAIN (p \o q) = 1 .. Len(p \o q)
      OBVIOUS
    <2>2. ASSUME applied \in Seq(Operations), pending \in Seq(Operations)
          PROVE  TakenAccepted <=> AllAccepted(applied \o pending)
      BY <2>1, <2>2 DEF TakenAccepted, Taken, AllAccepted
    <2>3. ASSUME applied' \in Seq(Operations), pending' \in Seq(Operations)
          PROVE  TakenAccepted' <=> AllAccepted(applied' \o pending')
      <3>1. DOMAIN (applied' \o pending') = 1 .. Len(applied' \o pending')
        BY <2>1, <2>3
      <3> QED
        BY <3>1 DEF TakenAccepted, Taken, AllAccepted
    <2> QED
      BY <2>2, <2>3
  <1>4. /\ CallsSorted <=> CallsRise(applied \o pending, callStarts)
        /\ CallsSorted' <=> CallsRise(applied' \o pending', callStarts')
    BY DEF CallsSorted, CallsRise, OneCall, Taken, WhiteBalanceIn, Rank, IsWhiteBalance
  <1>5. /\ ShadowIsReplay <=> shadow = Fold("bridge", Base, applied)
        /\ ShadowIsReplay' <=> shadow' = Fold("bridge", Base, applied')
    BY <1>1 DEF ShadowIsReplay
  <1>6. /\ ImageFollows <=> NearBy(Fold("bridge", Base, SubSeq(applied, 1, count)), image, count)
        /\ ImageFollows' <=> NearBy(Fold("bridge", Base, SubSeq(applied', 1, count')), image', count')
    BY <1>1 DEF ImageFollows, AfterFirst
  <1>7. /\ OrderKeptPerCall <=> (~merged => image = Fold("darktable", Base, SubSeq(applied, 1, count)))
        /\ OrderKeptPerCall' <=>
             (~merged' => image' = Fold("darktable", Base, SubSeq(applied', 1, count')))
    BY <1>1 DEF OrderKeptPerCall, InOrder
  <1>8. IInv <=> (Server /\ Client)
    BY <1>2, <1>3, <1>4, <1>5, <1>6, <1>7 DEF IInv, Server, Client, ServerGood, ClientGood
  <1>9. IInv' <=> (Server' /\ Client')
    BY <1>2, <1>3, <1>4, <1>5, <1>6, <1>7 DEF IInv, Server, Client, ServerGood, ClientGood
  <1> QED
    BY <1>8, <1>9

LEMMA GoodInit == Init => Server /\ Client
  <1> SUFFICES ASSUME Init PROVE Server /\ Client
    OBVIOUS
  <1>1. /\ shadow = Base /\ image = Base /\ Base \in Held
        /\ applied = << >> /\ pending = << >> /\ callStarts = {} /\ plan = FALSE
        /\ adaptation \in BOOLEAN /\ count = 0 /\ request = "active" /\ merged = FALSE
    BY RangeIs DEF Init
  <1>2. << >> \in Seq(Operations) /\ Len(<< >>) = 0 /\ << >> \o << >> = << >>
        /\ SubSeq(<< >>, 1, 0) = << >>
    OBVIOUS
  <1>3. Fold("bridge", Base, << >>) = Base /\ Fold("darktable", Base, << >>) = Base
    BY FoldNil
  <1>4. AllAccepted(<< >>) /\ CallsRise(<< >>, {}) /\ NearBy(Base, Base, 0)
    <2>1. AllAccepted(<< >>) /\ CallsRise(<< >>, {})
      BY DEF AllAccepted, CallsRise, WhiteBalanceIn
    <2>2. ASSUME NEW s \in Settings
          PROVE  Base[s] <= Base[s] /\ Base[s] - Base[s] \in -(0 * Error[s]) .. 0 * Error[s]
      <3>1. Base[s] \in Int /\ Error[s] \in Nat
        BY EditValuesAssumption
      <3> QED
        BY <3>1
    <2> QED
      BY <2>1, <2>2 DEF NearBy
  <1>5. Server
    BY <1>1, <1>2, <1>3, <1>4 DEF Server, ServerGood
  <1>6. Client
    <2>1. 0 \in 0 .. Len(<< >>)
      OBVIOUS
    <2>2. ClientGood(<< >>, Base, adaptation, 0, "active", FALSE)
      BY <1>1, <1>2, <1>3, <1>4, <2>1 DEF ClientGood
    <2> QED
      BY <1>1, <2>2 DEF Client
  <1> QED
    BY <1>5, <1>6

\* A call that passes its simulation: sorted, and of its own call.
LEMMA CallTaken ==
  ASSUME NEW sh, NEW app, NEW starts, NEW pl, ServerGood(sh, app, << >>, starts, pl),
         NEW w \in Seq(Operations), AllAccepted(w), RanksRise(w),
         Len(app) + Len(w) <= MaxOps
  PROVE  ServerGood(sh, app, w, starts \cup {Len(app)}, pl)
  <1> DEFINE q == app \o w
             m == Len(app)
             all == starts \cup {m}
  <1>1. /\ app \in Seq(Operations) /\ m \in Nat /\ Len(w) \in Nat /\ MaxOps \in Nat
        /\ app \o << >> = app
        /\ AllAccepted(app) /\ CallsRise(app, starts)
    <2>1. app \in Seq(Operations)
      BY DEF ServerGood
    <2>2. app \o << >> = app
      BY <2>1
    <2> QED
      BY <2>1, <2>2, EditValuesAssumption DEF ServerGood
  <1>2. /\ q \in Seq(Operations) /\ Len(q) = m + Len(w) /\ DOMAIN q = 1 .. m + Len(w)
        /\ DOMAIN app = 1 .. m /\ DOMAIN w = 1 .. Len(w)
        /\ \A i \in 1 .. m : q[i] = app[i]
        /\ \A i \in m + 1 .. m + Len(w) : q[i] = w[i - m] /\ i - m \in 1 .. Len(w)
    BY <1>1
  <1>3. m \in 0 .. MaxOps /\ m \in 0 .. m
    BY <1>1
  <1> HIDE DEF q, m
  <1>4. AllAccepted(q)
    <2> SUFFICES ASSUME NEW i \in 1 .. Len(q) PROVE ServerAccepts(q[i])
      BY DEF AllAccepted
    <2>1. CASE i <= m
      <3>1. i \in 1 .. m
        BY <1>1, <2>1
      <3> QED
        BY <1>1, <1>2, <3>1 DEF AllAccepted, m
    <2>2. CASE ~(i <= m)
      <3>1. i \in m + 1 .. m + Len(w)
        BY <1>1, <1>2, <2>2
      <3> QED
        BY <1>2, <3>1 DEF AllAccepted
    <2> QED
      BY <2>1, <2>2
  <1>5. CallsRise(q, all)
    <2> SUFFICES ASSUME NEW i \in WhiteBalanceIn(q), NEW j \in WhiteBalanceIn(q), i < j,
                        ~ \E b \in all : i <= b /\ b < j
                 PROVE  Rank(q[i]) <= Rank(q[j])
      BY DEF CallsRise
    <2>1. i \in 1 .. m + Len(w) /\ j \in 1 .. m + Len(w)
          /\ IsWhiteBalance(q[i]) /\ IsWhiteBalance(q[j])
      BY <1>2 DEF WhiteBalanceIn
    <2>2. ~(i <= m /\ m < j)
      OBVIOUS
    <2>3. CASE j <= m
      <3>1. i \in 1 .. m /\ j \in 1 .. m
        BY <1>1, <2>1, <2>3
      <3>2. i \in WhiteBalanceIn(app) /\ j \in WhiteBalanceIn(app)
        BY <1>2, <2>1, <3>1 DEF WhiteBalanceIn
      <3>3. Rank(app[i]) <= Rank(app[j])
        BY <1>1, <3>2 DEF CallsRise
      <3> QED
        BY <1>2, <3>1, <3>3
    <2>4. CASE ~(j <= m)
      <3>1. i \in m + 1 .. m + Len(w) /\ j \in m + 1 .. m + Len(w) /\ i - m < j - m
        BY <1>1, <2>1, <2>2, <2>4
      <3>2. i - m \in WhiteBalanceIn(w) /\ j - m \in WhiteBalanceIn(w)
        BY <1>2, <2>1, <3>1 DEF WhiteBalanceIn
      <3>3. Rank(w[i - m]) <= Rank(w[j - m])
        BY <3>1, <3>2 DEF RanksRise
      <3> QED
        BY <1>2, <3>1, <3>3
    <2> QED
      BY <2>3, <2>4
  <1>6. all \subseteq 0 .. MaxOps /\ all \subseteq 0 .. m
    BY <1>3 DEF ServerGood, m
  <1> QED
    BY <1>1, <1>4, <1>5, <1>6 DEF ServerGood, q, m

\* A step of the bridge: the head of the pending operations is written.
LEMMA StepTaken ==
  ASSUME NEW sh, NEW app, NEW pen, NEW starts, NEW pl,
         ServerGood(sh, app, pen, starts, pl), pen # << >>
  PROVE  ServerGood(ServerWrite(sh, Head(pen)), Append(app, Head(pen)), Tail(pen), starts, pl)
  <1> DEFINE o == Head(pen)
             app2 == Append(app, o)
             pen2 == Tail(pen)
             sh2 == ServerWrite(sh, o)
  <1>1. /\ app \in Seq(Operations) /\ pen \in Seq(Operations) /\ sh \in Held
        /\ sh = Fold("bridge", Base, app) /\ pl \in BOOLEAN
        /\ starts \subseteq 0 .. MaxOps /\ starts \subseteq 0 .. Len(app)
        /\ AllAccepted(app \o pen) /\ CallsRise(app \o pen, starts)
    BY DEF ServerGood
  <1>2. /\ o \in Operations /\ app2 \in Seq(Operations) /\ pen2 \in Seq(Operations)
        /\ Len(app2) = Len(app) + 1 /\ Len(app) \in Nat
        /\ Len(app) + 1 \in 1 .. Len(app \o pen) /\ (app \o pen)[Len(app) + 1] = o
    BY <1>1
  <1>3. app2 \o pen2 = app \o pen
    BY <1>1
  <1>4. ServerAccepts(o)
    BY <1>1, <1>2 DEF AllAccepted
  <1>5. Write("bridge", sh, o) = sh2
    BY DEF Write
  <1> HIDE DEF o, app2, pen2, sh2
  <1>6. sh2 \in Held
    BY <1>1, <1>2, <1>4, <1>5, WriteInRange
  <1>7. sh2 = Fold("bridge", Base, app2)
    <2>1. Fold("bridge", Base, Append(app, o)) = Write("bridge", Fold("bridge", Base, app), o)
      BY <1>1, <1>2, FoldAppend
    <2> QED
      BY <1>1, <1>5, <2>1 DEF app2
  <1>8. starts \subseteq 0 .. Len(app2)
    BY <1>1, <1>2
  <1> QED
    BY <1>1, <1>2, <1>3, <1>6, <1>7, <1>8 DEF ServerGood, o, app2, pen2, sh2

\* The steps of the bridge leave what darktable has applied as it was.
LEMMA PrefixKept ==
  ASSUME NEW app \in Seq(Operations), NEW o \in Operations, NEW img, NEW ad, NEW c, NEW req,
         NEW m, ClientGood(app, img, ad, c, req, m)
  PROVE  ClientGood(Append(app, o), img, ad, c, req, m)
  <1>1. c \in 0 .. Len(app)
    BY DEF ClientGood
  <1>2. c \in 0 .. Len(Append(app, o))
    BY <1>1
  <1>3. SubSeq(Append(app, o), 1, c) = SubSeq(app, 1, c)
    BY <1>1
  <1> QED
    BY <1>2, <1>3 DEF ClientGood

\* What a batch of darktable leaves of the image.
Batch(app, img, c, n, ok, starts, m, img2, m2) ==
  /\ ok => /\ img2 \in Held
           /\ NearBy(Fold("bridge", Base, SubSeq(app, 1, n)), img2, n)
           /\ ~m2 => img2 = Fold("darktable", Base, SubSeq(app, 1, n))
  /\ ~ok => img2 = img
  /\ n = c => img2 = img

LEMMA PartIs ==
  ASSUME NEW app \in Seq(Operations), NEW c \in 0 .. Len(app), NEW n \in c .. Len(app)
  PROVE  /\ SubSeq(app, c + 1, n) \in Seq(Operations)
         /\ Len(SubSeq(app, c + 1, n)) = n - c /\ n - c \in Nat
         /\ \A i \in 1 .. n - c : SubSeq(app, c + 1, n)[i] = app[c + i] /\ c + i \in c + 1 .. n
  OBVIOUS

LEMMA BatchIs ==
  ASSUME NEW sh, NEW app, NEW pen, NEW starts, NEW pl,
         ServerGood(sh, app, pen, starts, pl),
         NEW img, NEW ad, NEW c, NEW req, NEW m, ClientGood(app, img, ad, c, req, m),
         NEW n \in c .. Len(app),
         NEW r, r = ExecutionOrder(SubSeq(app, c + 1, n)),
         NEW img2, img2 = Fold("darktable", img, Executed(r)),
         NEW m2, m2 = (m \/ \E b \in starts : c < b /\ b < n),
         NEW ok, ok = (\A i \in c + 1 .. n : ClientAccepts(app[i]))
  PROVE  Batch(app, img, c, n, ok, starts, m, img2, m2)
  <1> DEFINE q == SubSeq(app, c + 1, n)
             before == Fold("bridge", Base, SubSeq(app, 1, c))
  <1>1. /\ app \in Seq(Operations) /\ pen \in Seq(Operations)
        /\ AllAccepted(app \o pen) /\ CallsRise(app \o pen, starts)
        /\ starts \subseteq 0 .. Len(app)
    BY DEF ServerGood
  <1>2. /\ img \in Held /\ c \in 0 .. Len(app) /\ NearBy(before, img, c)
        /\ ~m => img = Fold("darktable", Base, SubSeq(app, 1, c))
    BY DEF ClientGood
  <1>3. /\ q \in Seq(Operations) /\ Len(q) = n - c /\ n - c \in Nat
        /\ \A i \in 1 .. n - c : q[i] = app[c + i] /\ c + i \in c + 1 .. n
    BY <1>1, <1>2, PartIs
  <1>4. /\ Len(app) \in Nat /\ DOMAIN (app \o pen) = 1 .. Len(app \o pen)
        /\ \A i \in 1 .. Len(app) : i \in 1 .. Len(app \o pen) /\ (app \o pen)[i] = app[i]
    BY <1>1
  <1>5. \A i \in 1 .. Len(app) : ServerAccepts(app[i])
    BY <1>1, <1>4 DEF AllAccepted
  <1> HIDE DEF q, before
  <1>6. Reordered(q, r) /\ (RanksRise(q) => r = q)
    BY <1>3, ExecutionOrderIs DEF q
  <1>7. \A i \in 1 .. n - c : c + i \in 1 .. Len(app)
    BY <1>2, <1>3
  <1>8. AllAccepted(q)
    BY <1>3, <1>5, <1>7 DEF AllAccepted
  <1>9. /\ r \in Seq(Operations) /\ Len(r) = n - c /\ DOMAIN r = 1 .. n - c
        /\ \A p \in 1 .. n - c : \E i \in 1 .. n - c : r[p] = q[i]
        /\ \A i \in 1 .. n - c : \E p \in 1 .. n - c : r[p] = q[i]
    BY <1>3, <1>6 DEF Reordered
  <1>10. ASSUME ok PROVE Executed(r) = r
    <2>1. \A i \in 1 .. n - c : ClientAccepts(q[i])
      BY <1>3, <1>10
    <2>2. \A p \in DOMAIN r : ClientAccepts(r[p])
      BY <1>9, <2>1
    <2> QED
      BY <2>2 DEF Executed
  <1>11. ASSUME ~ok PROVE Executed(r) = << >>
    <2>1. PICK i \in c + 1 .. n : ~ClientAccepts(app[i])
      BY <1>11
    <2>2. i - c \in 1 .. n - c /\ c + (i - c) = i
      BY <1>2, <2>1
    <2>3. q[i - c] = app[i]
      BY <1>3, <2>2
    <2>4. PICK p \in 1 .. n - c : r[p] = q[i - c]
      BY <1>9, <2>2
    <2>5. ~ClientAccepts(r[p]) /\ p \in DOMAIN r
      BY <1>9, <2>1, <2>3, <2>4
    <2> QED
      BY <2>5 DEF Executed
  <1>12. ASSUME ~ok PROVE img2 = img
    BY <1>11, <1>12, FoldNil
  <1>13. ASSUME n = c PROVE img2 = img
    <2>1. Len(r) = 0
      BY <1>9, <1>13
    <2>2. r = << >>
      BY <1>9, <2>1
    <2>3. Executed(r) = << >>
      BY <2>2 DEF Executed
    <2> QED
      BY <2>3, FoldNil
  <1>14. before \in Held
    <2>1. SubSeq(app, 1, c) \in Seq(Operations) /\ AllAccepted(SubSeq(app, 1, c))
      <3>1. /\ SubSeq(app, 1, c) \in Seq(Operations) /\ Len(SubSeq(app, 1, c)) = c
            /\ \A i \in 1 .. c : SubSeq(app, 1, c)[i] = app[i] /\ i \in 1 .. Len(app)
        BY <1>1, <1>2
      <3> QED
        BY <1>5, <3>1 DEF AllAccepted
    <2> QED
      BY <2>1, FoldHeld, RangeIs DEF before
  <1>15. \A side \in {"bridge", "darktable"} :
            Fold(side, Fold(side, Base, SubSeq(app, 1, c)), q) = Fold(side, Base, SubSeq(app, 1, n))
    BY <1>1, <1>2, FoldFrom DEF q
  <1>16. ASSUME ok
         PROVE  /\ img2 \in Held
                /\ NearBy(Fold("bridge", Base, SubSeq(app, 1, n)), img2, n)
    <2>1. img2 = Fold("darktable", img, r) /\ AllAccepted(r)
      BY <1>3, <1>6, <1>8, <1>10, <1>16, ReorderedAccepted
    <2>2. img2 \in Held
      BY <1>2, <1>9, <2>1, FoldHeld
    <2>3. NearBy(Fold("bridge", before, q), img2, n)
      <3>1. c \in Nat /\ c + Len(q) = n
        BY <1>2, <1>3
      <3>2. NearBy(Fold("bridge", before, q), img2, c + Len(q))
        BY <1>2, <1>3, <1>6, <1>8, <1>14, <2>1, <3>1, FoldsNear
      <3> QED
        BY <3>1, <3>2
    <2>4. Fold("bridge", before, q) = Fold("bridge", Base, SubSeq(app, 1, n))
      BY <1>15 DEF before
    <2> QED
      BY <2>2, <2>3, <2>4
  <1>17. ASSUME ok, ~m2 PROVE img2 = Fold("darktable", Base, SubSeq(app, 1, n))
    <2>1. ~m /\ ~ \E b \in starts : c < b /\ b < n
      BY <1>17
    <2>2. RanksRise(q)
      <3> SUFFICES ASSUME NEW i \in WhiteBalanceIn(q), NEW j \in WhiteBalanceIn(q), i < j
                   PROVE  Rank(q[i]) <= Rank(q[j])
        BY DEF RanksRise
      <3>1. i \in 1 .. n - c /\ j \in 1 .. n - c /\ IsWhiteBalance(q[i]) /\ IsWhiteBalance(q[j])
        BY <1>3 DEF WhiteBalanceIn
      <3>2. q[i] = app[c + i] /\ q[j] = app[c + j]
        BY <1>3, <3>1
      <3>3. /\ c + i \in 1 .. Len(app) /\ c + j \in 1 .. Len(app)
        BY <1>7, <3>1
      <3>4. c + i \in WhiteBalanceIn(app \o pen) /\ c + j \in WhiteBalanceIn(app \o pen)
        BY <1>4, <3>1, <3>2, <3>3 DEF WhiteBalanceIn
      <3>5. c + i < c + j /\ c < c + i /\ c + j <= n
        BY <1>2, <3>1
      <3>6. ASSUME NEW b \in starts, c + i <= b, b < c + j PROVE FALSE
        <4>1. b \in Int /\ c \in Int /\ n \in Int /\ c + i \in Int /\ c + j \in Int
          BY <1>1, <1>2, <1>3, <3>3
        <4>2. c < b /\ b < n
          BY <3>5, <3>6, <4>1
        <4> QED
          BY <2>1, <4>2
      <3>7. Rank((app \o pen)[c + i]) <= Rank((app \o pen)[c + j])
        BY <1>1, <3>4, <3>5, <3>6 DEF CallsRise
      <3> QED
        BY <1>4, <3>2, <3>3, <3>7
    <2>3. img2 = Fold("darktable", img, q)
      BY <1>6, <1>10, <1>17, <2>2
    <2>4. img = Fold("darktable", Base, SubSeq(app, 1, c))
      BY <1>2, <2>1
    <2> QED
      BY <1>15, <2>3, <2>4
  <1> QED
    BY <1>12, <1>13, <1>16, <1>17 DEF Batch

-----------------------------------------------------------------------------
(* The steps.                                                              *)

ServerSame == UNCHANGED serverVars
ClientSame == UNCHANGED clientVars

LEMMA ServerKept == Server /\ ServerSame => Server'
  BY DEF Server, ServerSame, serverVars

\* An apply_operations call that is accepted brings its operations, sorted.
LEMMA ApplyOperationsIs ==
  ASSUME Server, NEW ops \in SeqOf(Operations, MaxBatch), ApplyOperations(ops)
  PROVE  Server' /\ ClientSame /\ applied' = applied
  <1> DEFINE w == ServerOrder(ops)
  <1>1. /\ pending = << >> /\ Len(applied) + Len(ops) <= MaxOps
        /\ shadow' = shadow /\ applied' = applied /\ plan' = plan /\ ClientSame
        /\ \/ /\ Len(Accepted(w)) = Len(w) /\ pending' = w
              /\ callStarts' = callStarts \cup {Len(applied)}
           \/ pending' = pending /\ callStarts' = callStarts
    BY DEF ApplyOperations, AfterSimulation, ClientSame
  <1>2. ops \in Seq(Operations)
    BY DEF SeqOf
  <1>3. Reordered(ops, w) /\ RanksRise(w)
    BY <1>2, ServerOrderIs
  <1>4. w \in Seq(Operations) /\ Len(w) = Len(ops)
    BY <1>3 DEF Reordered
  <1> HIDE DEF w
  <1>5. CASE Len(Accepted(w)) = Len(w) /\ pending' = w
             /\ callStarts' = callStarts \cup {Len(applied)}
    <2>1. AllAccepted(w)
      BY <1>4, <1>5, AcceptedIs
    <2>2. ServerGood(shadow, applied, << >>, callStarts, plan)
      BY <1>1 DEF Server
    <2>3. ServerGood(shadow, applied, w, callStarts \cup {Len(applied)}, plan)
      BY <1>1, <1>3, <1>4, <2>1, <2>2, CallTaken
    <2> QED
      BY <1>1, <1>5, <2>3 DEF Server
  <1>6. CASE pending' = pending /\ callStarts' = callStarts
    <2>1. ServerSame
      BY <1>1, <1>6 DEF ServerSame, serverVars
    <2> QED
      BY <1>1, <2>1, ServerKept
  <1> QED
    BY <1>1, <1>5, <1>6

LEMMA ApplyStepIs ==
  ASSUME Server, Client, ApplyStep
  PROVE  Server' /\ Client' /\ image' = image
  <1>1. /\ pending # << >> /\ shadow' = ServerWrite(shadow, Head(pending))
        /\ applied' = Append(applied, Head(pending)) /\ pending' = Tail(pending)
        /\ callStarts' = callStarts /\ plan' = plan /\ ClientSame
    BY DEF ApplyStep, ClientSame
  <1>2. Server'
    <2>1. ServerGood(ServerWrite(shadow, Head(pending)), Append(applied, Head(pending)),
                     Tail(pending), callStarts, plan)
      BY <1>1, StepTaken DEF Server
    <2> QED
      BY <1>1, <2>1 DEF Server
  <1>3. Client'
    <2>1. applied \in Seq(Operations) /\ Head(pending) \in Operations
      BY <1>1 DEF Server, ServerGood
    <2>2. ClientGood(Append(applied, Head(pending)), image, adaptation, count, request, merged)
      BY <2>1, PrefixKept DEF Client
    <2> QED
      BY <1>1, <2>2 DEF Client, ClientSame, clientVars
  <1> QED
    BY <1>1, <1>2, <1>3 DEF ClientSame, clientVars

\* A batch of darktable: what Execute leaves of the image.
LEMMA ExecuteIs ==
  ASSUME Server, Client, NEW n \in count .. Len(applied), Execute(n)
  PROVE  Batch(applied, image, count, n, Succeeds(n), callStarts, merged, image', merged')
         /\ merged' \in BOOLEAN /\ (merged => merged')
  <1> DEFINE r == ExecutionOrder(SubSeq(applied, count + 1, n))
  <1>1. /\ image' = FoldLeft(ClientWrite, image, Executed(r))
        /\ merged' = (merged \/ \E b \in callStarts : count < b /\ b < n)
    BY DEF Execute, Unapplied
  <1>2. image' = Fold("darktable", image, Executed(r))
    BY <1>1 DEF Fold
  <1>3. Succeeds(n) = (\A i \in count + 1 .. n : ClientAccepts(applied[i]))
    BY DEF Succeeds
  <1>4. merged \in BOOLEAN
    BY DEF Client, ClientGood
  <1>5. /\ ServerGood(shadow, applied, pending, callStarts, plan)
        /\ ClientGood(applied, image, adaptation, count, request, merged)
    BY DEF Server, Client
  <1> HIDE DEF r
  <1>6. Batch(applied, image, count, n, Succeeds(n), callStarts, merged, image', merged')
    <2>1. r = ExecutionOrder(SubSeq(applied, count + 1, n))
      BY DEF r
    <2> QED
      BY <1>1, <1>2, <1>3, <1>5, <2>1, BatchIs
  <1> QED
    BY <1>1, <1>4, <1>6

\* A batch that is applied takes the count along; one that is not changes nothing.
LEMMA BatchGood ==
  ASSUME Server, Client, NEW n \in count .. Len(applied), NEW img, NEW m \in BOOLEAN,
         NEW ok \in BOOLEAN, NEW req \in {"active", "canceling", "ended"},
         merged => m,
         Batch(applied, image, count, n, ok, callStarts, merged, img, m)
  PROVE  /\ ClientGood(applied, img, adaptation, IF ok THEN n ELSE count, req, m)
         /\ (IF ok THEN n ELSE count) = count => img = image
  <1>1. ClientGood(applied, image, adaptation, count, request, merged) /\ Len(applied) \in Nat
    BY DEF Server, Client, ServerGood
  <1>2. count \in 0 .. Len(applied)
    BY <1>1 DEF ClientGood
  <1>3. n \in 0 .. Len(applied)
    BY <1>1, <1>2
  <1>4. CASE ok
    <2>1. /\ img \in Held
          /\ NearBy(Fold("bridge", Base, SubSeq(applied, 1, n)), img, n)
          /\ ~m => img = Fold("darktable", Base, SubSeq(applied, 1, n))
      BY <1>4 DEF Batch
    <2>2. ClientGood(applied, img, adaptation, n, req, m)
      BY <1>1, <1>3, <2>1 DEF ClientGood
    <2>3. n = count => img = image
      BY DEF Batch
    <2> QED
      BY <1>4, <2>2, <2>3
  <1>5. CASE ~ok
    <2>1. img = image
      BY <1>5 DEF Batch
    <2>2. ClientGood(applied, image, adaptation, count, req, m)
      BY <1>1 DEF ClientGood
    <2> QED
      BY <1>5, <2>1, <2>2
  <1> QED
    BY <1>4, <1>5

LEMMA ProgressIs ==
  ASSUME Server, Client, NEW n \in DOMAIN applied, Progress(n)
  PROVE  Server' /\ Client' /\ (count' = count => image' = image)
  <1>1. /\ count < n /\ Execute(n) /\ adaptation' = adaptation /\ ServerSame
        /\ IF Succeeds(n) THEN count' = n /\ request' = request
                          ELSE request' = "canceling" /\ count' = count
        /\ Succeeds(n) \in BOOLEAN
    BY DEF Progress, ServerSame, Succeeds
  <1>2. applied \in Seq(Operations) /\ count \in 0 .. Len(applied)
        /\ request \in {"active", "canceling", "ended"}
    BY DEF Server, Client, ServerGood, ClientGood
  <1>3. n \in count .. Len(applied)
    BY <1>1, <1>2
  <1>4. /\ Batch(applied, image, count, n, Succeeds(n), callStarts, merged, image', merged')
        /\ merged' \in BOOLEAN /\ (merged => merged')
    BY <1>1, <1>3, ExecuteIs
  <1>5. request' \in {"active", "canceling", "ended"}
    BY <1>1, <1>2
  <1>6. count' = IF Succeeds(n) THEN n ELSE count
    BY <1>1
  <1>7. /\ ClientGood(applied, image', adaptation, count', request', merged')
        /\ count' = count => image' = image
    BY <1>1, <1>3, <1>4, <1>5, <1>6, BatchGood
  <1>8. Server' /\ applied' = applied
    BY <1>1, ServerKept DEF ServerSame, serverVars
  <1> QED
    BY <1>1, <1>7, <1>8 DEF Client

LEMMA FinalPlanIs ==
  ASSUME Server, Client, FinalPlan
  PROVE  Server' /\ Client' /\ (count' = count => image' = image)
  <1> DEFINE n == Len(applied)
  <1>1. /\ Execute(n) /\ adaptation' = adaptation /\ ServerSame
        /\ count' = IF Succeeds(n) THEN n ELSE count
        /\ request' \in {"active", "canceling", "ended"}
        /\ Succeeds(n) \in BOOLEAN
    BY DEF FinalPlan, ServerSame, Succeeds
  <1>2. applied \in Seq(Operations) /\ count \in 0 .. Len(applied)
    BY DEF Server, Client, ServerGood, ClientGood
  <1>3. n \in count .. Len(applied)
    BY <1>2
  <1> HIDE DEF n
  <1>4. /\ Batch(applied, image, count, n, Succeeds(n), callStarts, merged, image', merged')
        /\ merged' \in BOOLEAN /\ (merged => merged')
    BY <1>1, <1>3, ExecuteIs
  <1>5. /\ ClientGood(applied, image', adaptation, count', request', merged')
        /\ count' = count => image' = image
    BY <1>1, <1>3, <1>4, BatchGood
  <1>6. Server' /\ applied' = applied
    BY <1>1, ServerKept DEF ServerSame, serverVars
  <1> QED
    BY <1>1, <1>5, <1>6 DEF Client

LEMMA StepGood ==
  ASSUME Server, Client, [Next]_vars
  PROVE  Server' /\ Client' /\ (count' = count => image' = image)
  <1>1. ASSUME NEW ops \in SeqOf(Operations, MaxBatch), ApplyOperations(ops)
        PROVE  Server' /\ Client' /\ image' = image
    <2>1. Server' /\ ClientSame /\ applied' = applied
      BY <1>1, ApplyOperationsIs
    <2> QED
      BY <2>1 DEF Client, ClientSame, clientVars
  <1>2. CASE ApplyStep
    BY <1>2, ApplyStepIs
  <1>3. CASE Finish
    <2>1. /\ plan' = TRUE /\ shadow' = shadow /\ applied' = applied /\ pending' = pending
          /\ callStarts' = callStarts /\ ClientSame
      BY <1>3 DEF Finish, ClientSame
    <2>2. Server'
      BY <2>1 DEF Server, ServerGood
    <2> QED
      BY <2>1, <2>2 DEF Client, ClientSame, clientVars
  <1>4. ASSUME NEW n \in DOMAIN applied, Progress(n)
        PROVE  Server' /\ Client' /\ (count' = count => image' = image)
    BY <1>4, ProgressIs
  <1>5. CASE FinalPlan
    BY <1>5, FinalPlanIs
  <1>6. CASE CanceledResult
    <2>1. /\ ServerSame /\ request' = "ended" /\ image' = image /\ adaptation' = adaptation
          /\ count' = count /\ merged' = merged
      BY <1>6 DEF CanceledResult, ServerSame
    <2>2. Server' /\ applied' = applied
      BY <2>1, ServerKept DEF ServerSame, serverVars
    <2> QED
      BY <2>1, <2>2 DEF Client, ClientGood
  <1>7. CASE ToggleAdaptation
    <2>1. /\ ServerSame /\ request' = request /\ image' = image /\ adaptation' = ~adaptation
          /\ count' = count /\ merged' = merged
      BY <1>7 DEF ToggleAdaptation, ServerSame
    <2>2. Server' /\ applied' = applied
      BY <2>1, ServerKept DEF ServerSame, serverVars
    <2>3. adaptation' \in BOOLEAN
      BY <2>1
    <2> QED
      BY <2>1, <2>2, <2>3 DEF Client, ClientGood
  <1>8. CASE UNCHANGED vars
    <2>1. ServerSame /\ ClientSame
      BY <1>8 DEF vars, ServerSame, ClientSame
    <2> QED
      BY <2>1, ServerKept DEF Client, ServerSame, ClientSame, serverVars, clientVars
  <1> QED
    BY <1>1, <1>2, <1>3, <1>4, <1>5, <1>6, <1>7, <1>8 DEF Next

-----------------------------------------------------------------------------
(* The theorems.                                                           *)

\* The invariant of the values, whatever is asked for, refused, clamped and
\* applied in whatever batches.
THEOREM InductiveInvariant == Spec => []IInv
  <1>1. Init => IInv
    BY GoodInit, IInvIs
  <1>2. IInv /\ [Next]_vars => IInv'
    BY StepGood, IInvIs
  <1> QED
    BY <1>1, <1>2, PTL DEF Spec

\* The numbers of both sides stay in the ranges of the snapshot.
THEOREM TypeCorrect == Spec => []TypeOK
  <1>1. IInv => TypeOK
    BY DEF IInv
  <1> QED
    BY <1>1, InductiveInvariant, PTL

\* What the model is told is the snapshot with what was applied on top
\* (_apply_operations_tool_call simulates on a copy).
THEOREM ShadowReplayed == Spec => []ShadowIsReplay
  <1>1. IInv => ShadowIsReplay
    BY DEF IInv
  <1> QED
    BY <1>1, InductiveInvariant, PTL

\* Once darktable has applied all operations, whatever its batches were, each
\* slider is as near to the shadow as its roundings allow, other controls are
\* where the bridge noted them, and modules noted as switched on are on.
THEOREM ShadowNear == Spec => []ShadowNearImage
  <1>1. IInv => ShadowNearImage
    <2> SUFFICES ASSUME IInv, count = Len(applied) PROVE NearBy(shadow, image, count)
      BY DEF ShadowNearImage
    <2>1. Server /\ Client
      BY IInvIs
    <2>2. SubSeq(applied, 1, Len(applied)) = applied
      BY <2>1 DEF Server, ServerGood
    <2> QED
      BY <2>1, <2>2 DEF Server, Client, ServerGood, ClientGood
  <1> QED
    BY <1>1, InductiveInvariant, PTL

\* The sort of darktable (_ordered_operations_for_execution) changes nothing in
\* a batch that holds no operations of two calls.
THEOREM OrderKept == Spec => []OrderKeptPerCall
  <1>1. IInv => OrderKeptPerCall
    BY DEF IInv
  <1> QED
    BY <1>1, InductiveInvariant, PTL

\* A batch of which one operation is refused leaves the image as it was.
THEOREM BatchesAreWhole == Spec => AllOrNothing
  <1>1. IInv /\ [Next]_vars => [count' = count => image' = image]_vars
    BY StepGood, IInvIs
  <1> QED
    BY <1>1, InductiveInvariant, PTL DEF Spec, AllOrNothing

-----------------------------------------------------------------------------
(* The guardrails, for every budget and every limit.                       *)

\* The budget is a number, whatever the passes.
LEMMA BudgetType == MaxToolCalls \in Nat /\ MaxToolCalls >= 1
  BY ToolBudgetAssumption DEF MaxToolCalls

\* Every kind of call keeps the inductive invariant.
LEMMA StepKeepsBudgetInv == BudgetInv /\ [BudgetNext]_budgetVars => BudgetInv'
  <1> SUFFICES ASSUME BudgetInv, [BudgetNext]_budgetVars PROVE BudgetInv'
    OBVIOUS
  <1> USE ToolBudgetAssumption, BudgetType DEF BudgetInv, BudgetTypeOK, AnswersBounded
  <1>1. CASE RefuseOverBudget
    BY <1>1 DEF RefuseOverBudget
  <1>2. CASE RefuseLook
    BY <1>2 DEF RefuseLook
  <1>3. CASE RefuseRead
    BY <1>3 DEF RefuseRead
  <1>4. CASE Read
    BY <1>4 DEF Read, OverBudget, LooksTooLong, ReadsTooOften
  <1>5. CASE OtherTool
    BY <1>5 DEF OtherTool, OverBudget, LooksTooLong
  <1>6. CASE Apply
    <2>1. PICK n \in 0 .. MaxSteps : edits' = edits + n
      BY <1>6 DEF Apply
    <2>2. edits' \in Nat /\ (edits' = 0 => edits = 0)
      BY <2>1
    <2> QED
      BY <1>6, <2>2 DEF Apply, OverBudget
  <1>7. CASE UNCHANGED budgetVars
    BY <1>7 DEF budgetVars
  <1> QED
    BY <1>1, <1>2, <1>3, <1>4, <1>5, <1>6, <1>7 DEF BudgetNext, ToolCall, TurnOver

LEMMA InitBudgetInv == BudgetInit => BudgetInv
  BY ToolBudgetAssumption, BudgetType DEF BudgetInit, BudgetInv, BudgetTypeOK, AnswersBounded

\* No turn gets more answers than its budget, more looks in a row than the
\* streak, or more looks before the first edit than the limit.
THEOREM Bounded == BudgetSpec => []AnswersBounded
  <1>1. BudgetInv => AnswersBounded
    BY DEF BudgetInv
  <1> QED
    BY <1>1, InitBudgetInv, StepKeepsBudgetInv, PTL DEF BudgetSpec
==============================================================================
