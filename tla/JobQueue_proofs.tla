--------------------------- MODULE JobQueue_proofs ---------------------------
(***************************************************************************)
(* darktable's job control for every number of jobs, queued jobs, workers  *)
(* and callers: IInv of JobQueue is inductive.  It gives that every job    *)
(* object has one owner, that the pending jobs are counted right and that  *)
(* no second copy of a thumbnail job is there.                             *)
(***************************************************************************)
EXTENDS JobQueue, SequenceTheorems, FiniteSetTheorems, TLAPS

-----------------------------------------------------------------------------
(* Lists of jobs without repetition (the queues).                          *)

LEMMA RangeIs ==
  ASSUME NEW s \in Seq(Jobs)
  PROVE  /\ \A j : j \in Range(s) <=> \E i \in 1 .. Len(s) : s[i] = j
         /\ Range(s) \subseteq Jobs
         /\ IsInjective(s) <=> \A i, k \in 1 .. Len(s) : s[i] = s[k] => i = k
         /\ Len(s) \in Nat
  BY DEF Range, IsInjective

\* A FIFO queue grows at its end.
LEMMA AppendLinks ==
  ASSUME NEW s \in Seq(Jobs), IsInjective(s), NEW j \in Jobs, j \notin Range(s)
  PROVE  /\ Append(s, j) \in Seq(Jobs) /\ IsInjective(Append(s, j))
         /\ Range(Append(s, j)) = Range(s) \cup {j}
  <1> DEFINE a == Append(s, j)
  <1>1. /\ a \in Seq(Jobs) /\ Len(a) = Len(s) + 1 /\ Len(s) \in Nat
        /\ a[Len(s) + 1] = j /\ \A i \in 1 .. Len(s) : a[i] = s[i]
    OBVIOUS
  <1> HIDE DEF a
  <1>2. \A i, k \in 1 .. Len(a) : a[i] = a[k] => i = k
    BY <1>1, RangeIs
  <1>3. \A x : x \in Range(a) <=> x \in Range(s) \cup {j}
    <2>1. ASSUME NEW x, x \in Range(a) PROVE x \in Range(s) \cup {j}
      BY <1>1, <2>1, RangeIs
    <2>2. j \in Range(a)
      <3>1. Len(s) + 1 \in 1 .. Len(a)
        BY <1>1
      <3> QED
        BY <1>1, <3>1, RangeIs
    <2>3. ASSUME NEW x, x \in Range(s) PROVE x \in Range(a)
      <3>1. PICK i \in 1 .. Len(s) : s[i] = x
        BY <2>3, RangeIs
      <3>2. i \in 1 .. Len(a) /\ a[i] = x
        BY <1>1, <3>1
      <3> QED
        BY <1>1, <3>2, RangeIs
    <2> QED
      BY <2>1, <2>2, <2>3
  <1>4. IsInjective(a) /\ Range(a) = Range(s) \cup {j}
    BY <1>1, <1>2, <1>3, RangeIs
  <1> QED
    BY <1>1, <1>4 DEF a

\* The head of a queue is taken.
LEMMA TailLinks ==
  ASSUME NEW s \in Seq(Jobs), IsInjective(s), s # <<>>
  PROVE  /\ Tail(s) \in Seq(Jobs) /\ IsInjective(Tail(s))
         /\ Range(Tail(s)) = Range(s) \ {Head(s)}
         /\ Head(s) \in Range(s) /\ Head(s) \in Jobs
  <1> DEFINE a == Tail(s)
  <1>1. Len(s) \in Nat /\ Len(s) > 0
    BY EmptySeq
  <1>2. /\ a \in Seq(Jobs) /\ Len(a) = Len(s) - 1 /\ Head(s) = s[1]
        /\ \A i \in 1 .. Len(a) : a[i] = s[i + 1]
    BY <1>1
  <1> HIDE DEF a
  <1>3. \A i, k \in 1 .. Len(a) : a[i] = a[k] => i = k
    <2>1. \A i \in 1 .. Len(a) : i + 1 \in 1 .. Len(s)
      BY <1>1, <1>2
    <2> QED
      BY <1>1, <1>2, <2>1, RangeIs
  <1>4. Head(s) \in Range(s)
    <2>1. 1 \in 1 .. Len(s)
      BY <1>1
    <2> QED
      BY <1>2, <2>1, RangeIs
  <1>5. \A x : x \in Range(a) <=> x \in Range(s) \ {Head(s)}
    <2>1. ASSUME NEW x, x \in Range(a) PROVE x \in Range(s) \ {Head(s)}
      <3>1. PICK i \in 1 .. Len(a) : a[i] = x
        BY <1>2, <2>1, RangeIs
      <3>2. i + 1 \in 1 .. Len(s) /\ s[i + 1] = x /\ 1 \in 1 .. Len(s) /\ i + 1 # 1
        BY <1>1, <1>2, <3>1
      <3> QED
        BY <1>2, <3>2, RangeIs
    <2>2. ASSUME NEW x, x \in Range(s), x # Head(s) PROVE x \in Range(a)
      <3>1. PICK i \in 1 .. Len(s) : s[i] = x
        BY <2>2, RangeIs
      <3>2. i # 1
        BY <1>2, <2>2, <3>1
      <3>3. i - 1 \in 1 .. Len(a) /\ a[i - 1] = x
        BY <1>1, <1>2, <3>1, <3>2
      <3> QED
        BY <1>2, <3>3, RangeIs
    <2> QED
      BY <2>1, <2>2
  <1>6. IsInjective(a) /\ Range(a) = Range(s) \ {Head(s)}
    BY <1>2, <1>3, <1>5, RangeIs
  <1> QED
    BY <1>2, <1>4, <1>6, RangeIs DEF a

\* The first m jobs of a queue.
LEMMA PrefixIs ==
  ASSUME NEW s \in Seq(Jobs), NEW m \in Nat, m <= Len(s)
  PROVE  /\ SubSeq(s, 1, m) \in Seq(Jobs) /\ Len(SubSeq(s, 1, m)) = m
         /\ \A i \in 1 .. m : SubSeq(s, 1, m)[i] = s[i]
  <1>1. Len(s) \in Nat /\ \A i \in 1 .. m : s[i] \in Jobs
    OBVIOUS
  <1>2. /\ SubSeq(s, 1, m) \in Seq(Jobs)
        /\ Len(SubSeq(s, 1, m)) = IF 1 <= m THEN m - 1 + 1 ELSE 0
        /\ \A i \in 1 .. m - 1 + 1 : SubSeq(s, 1, m)[i] = s[1 + i - 1]
    BY <1>1, SubSeqProperties
  <1>3. m - 1 + 1 = m /\ \A i \in 1 .. m : 1 + i - 1 = i
    OBVIOUS
  <1> QED
    BY <1>2, <1>3

\* A new job goes on top of the stack, and the oldest one leaves a full stack.
LEMMA CappedLinks ==
  ASSUME NEW s \in Seq(Jobs), IsInjective(s), NEW j \in Jobs, j \notin Range(s)
  PROVE  /\ Capped(j, s) \in Seq(Jobs) /\ IsInjective(Capped(j, s))
         /\ Range(Capped(j, s)) = (Range(s) \cup {j}) \ PushedOut(s)
         /\ PushedOut(s) = {} \/ \E i \in Range(s) : PushedOut(s) = {i}
         /\ Len(Capped(j, s)) <= IF Len(s) < MaxJobs THEN Len(s) + 1 ELSE Len(s)
  <1> DEFINE n == IF Len(s) < MaxJobs THEN Len(s) ELSE Len(s) - 1
             c == Capped(j, s)
  <1>1. Len(s) \in Nat /\ MaxJobs \in Nat \ {0}
    BY JobsAssumption
  <1>2. n \in Nat /\ n <= Len(s)
    BY <1>1
  <1>4. \E f \in Seq(Jobs) : /\ c = <<j>> \o f /\ Len(f) = n
                             /\ \A i \in 1 .. n : f[i] = s[i]
    <2>1. CASE Len(s) < MaxJobs
      <3>1. c = <<j>> \o s /\ n = Len(s)
        BY <2>1 DEF Capped
      <3> QED
        BY <3>1
    <2>2. CASE ~(Len(s) < MaxJobs)
      <3>1. c = <<j>> \o SubSeq(s, 1, Len(s) - 1) /\ n = Len(s) - 1 /\ Len(s) > 0
        BY <1>1, <2>2 DEF Capped, Front
      <3>2. Len(s) - 1 \in Nat /\ Len(s) - 1 <= Len(s)
        BY <1>1, <3>1
      <3> QED
        BY <3>1, <3>2, PrefixIs
    <2> QED
      BY <2>1, <2>2
  <1> HIDE DEF c
  <1>5. PICK f \in Seq(Jobs) : /\ c = <<j>> \o f /\ Len(f) = n
                               /\ \A i \in 1 .. n : f[i] = s[i]
    BY <1>4
  <1>6. /\ <<j>> \in Seq(Jobs) /\ Len(<<j>>) = 1 /\ <<j>>[1] = j
    OBVIOUS
  <1>7. /\ c \in Seq(Jobs) /\ Len(c) = n + 1
        /\ c[1] = j /\ \A i \in 2 .. n + 1 : c[i] = s[i - 1]
    <2>1. /\ c \in Seq(Jobs) /\ Len(c) = n + 1
          /\ \A i \in 1 .. n + 1 : c[i] = IF i <= 1 THEN <<j>>[i] ELSE f[i - 1]
      BY <1>2, <1>5, <1>6, ConcatProperties
    <2>2. \A i \in 2 .. n + 1 : i \in 1 .. n + 1 /\ i - 1 \in 1 .. n /\ ~(i <= 1)
      BY <1>2
    <2>3. c[1] = j
      BY <1>2, <1>6, <2>1
    <2> QED
      BY <1>5, <2>1, <2>2, <2>3
  <1> HIDE DEF n
  <1>8. \A i \in 1 .. Len(s) : s[i] # j
    BY RangeIs
  <1>9. \A i, k \in 1 .. Len(c) : c[i] = c[k] => i = k
    <2> SUFFICES ASSUME NEW i \in 1 .. n + 1, NEW k \in 1 .. n + 1, c[i] = c[k]
                 PROVE  i = k
      BY <1>7
    <2>1. CASE i = 1 \/ k = 1
      BY <1>1, <1>2, <1>7, <1>8, <2>1
    <2>2. CASE i # 1 /\ k # 1
      <3>1. i \in 2 .. n + 1 /\ k \in 2 .. n + 1
        BY <1>2, <2>2
      <3>2. s[i - 1] = s[k - 1] /\ i - 1 \in 1 .. Len(s) /\ k - 1 \in 1 .. Len(s)
        BY <1>1, <1>2, <1>7, <3>1
      <3>3. i - 1 = k - 1
        BY <3>2, RangeIs
      <3> QED
        BY <3>3
    <2> QED
      BY <2>1, <2>2
  <1>10. \A x : x \in Range(c) <=> x = j \/ \E i \in 1 .. n : s[i] = x
    <2>1. ASSUME NEW x, x \in Range(c) PROVE x = j \/ \E i \in 1 .. n : s[i] = x
      <3>1. PICK i \in 1 .. n + 1 : c[i] = x
        BY <1>7, <2>1, RangeIs
      <3>2. i = 1 \/ (i \in 2 .. n + 1 /\ i - 1 \in 1 .. n)
        BY <1>2
      <3> QED
        BY <1>7, <3>1, <3>2
    <2>2. j \in Range(c)
      <3>1. 1 \in 1 .. Len(c)
        BY <1>2, <1>7
      <3> QED
        BY <1>7, <3>1, RangeIs
    <2>3. ASSUME NEW i \in 1 .. n PROVE s[i] \in Range(c)
      <3>1. i + 1 \in 1 .. Len(c) /\ i + 1 \in 2 .. n + 1 /\ (i + 1) - 1 = i
        BY <1>2, <1>7
      <3>2. c[i + 1] = s[i]
        BY <1>7, <3>1
      <3> QED
        BY <1>7, <3>1, <3>2, RangeIs
    <2> QED
      BY <2>1, <2>2, <2>3
  <1>11. CASE Len(s) < MaxJobs
    <2>1. n = Len(s) /\ PushedOut(s) = {}
      BY <1>11 DEF n, PushedOut
    <2>2. \A x : x \in Range(c) <=> x = j \/ x \in Range(s)
      BY <1>10, <2>1, RangeIs
    <2> QED
      BY <1>7, <1>9, <1>11, <2>1, <2>2, RangeIs DEF c
  <1>12. CASE ~(Len(s) < MaxJobs)
    <2>1. n = Len(s) - 1 /\ PushedOut(s) = {s[Len(s)]} /\ Len(s) \in 1 .. Len(s)
      BY <1>1, <1>12 DEF n, PushedOut
    <2>2. s[Len(s)] \in Range(s)
      BY <2>1, RangeIs
    <2>3. \A x : (\E i \in 1 .. n : s[i] = x) <=> x \in Range(s) \ {s[Len(s)]}
      <3>1. ASSUME NEW i \in 1 .. n PROVE s[i] \in Range(s) \ {s[Len(s)]}
        <4>1. i \in 1 .. Len(s) /\ i # Len(s)
          BY <1>1, <2>1
        <4> QED
          BY <2>1, <4>1, RangeIs
      <3>2. ASSUME NEW x, x \in Range(s), x # s[Len(s)]
            PROVE  \E i \in 1 .. n : s[i] = x
        <4>1. PICK i \in 1 .. Len(s) : s[i] = x
          BY <3>2, RangeIs
        <4>2. i \in 1 .. n
          BY <1>1, <2>1, <3>2, <4>1
        <4> QED
          BY <4>1, <4>2
      <3> QED
        BY <3>1, <3>2
    <2>4. j # s[Len(s)]
      BY <1>8, <2>1
    <2>5. \A x : x \in Range(c) <=> x \in (Range(s) \cup {j}) \ PushedOut(s)
      BY <1>10, <2>1, <2>3, <2>4
    <2>6. Range(c) = (Range(s) \cup {j}) \ PushedOut(s)
      BY <2>5
    <2>7. Len(c) = Len(s)
      BY <1>1, <1>7, <2>1
    <2> QED
      BY <1>1, <1>7, <1>9, <1>12, <2>1, <2>2, <2>6, <2>7, RangeIs DEF c
  <1> QED
    BY <1>11, <1>12

\* The copy at place i of the stack goes to the top.
BubbledUp(s, i) == <<s[i]>> \o (SubSeq(s, 1, i - 1) \o SubSeq(s, i + 1, Len(s)))

LEMMA BubbledLinks ==
  ASSUME NEW s \in Seq(Jobs), IsInjective(s), NEW i \in 1 .. Len(s)
  PROVE  /\ BubbledUp(s, i) \in Seq(Jobs) /\ IsInjective(BubbledUp(s, i))
         /\ Range(BubbledUp(s, i)) = Range(s)
         /\ Len(BubbledUp(s, i)) = Len(s)
  <1> DEFINE front == SubSeq(s, 1, i - 1)
             back == SubSeq(s, i + 1, Len(s))
             b == BubbledUp(s, i)
             P(k) == IF k = 1 THEN i ELSE IF k <= i THEN k - 1 ELSE k
  <1>1. Len(s) \in Nat /\ i \in Nat /\ 1 <= i /\ i <= Len(s) /\ s[i] \in Jobs
    OBVIOUS
  <1>2. /\ front \in Seq(Jobs) /\ Len(front) = i - 1
        /\ \A k \in 1 .. i - 1 : front[k] = s[k]
    <2>1. i - 1 \in Nat /\ i - 1 <= Len(s)
      BY <1>1
    <2> QED
      BY <2>1, PrefixIs
  <1>3. /\ back \in Seq(Jobs) /\ Len(back) = Len(s) - i
        /\ \A k \in 1 .. Len(s) - i : back[k] = s[i + k]
    <2>1. \A k \in i + 1 .. Len(s) : s[k] \in Jobs
      BY <1>1
    <2>2. i + 1 \in Int /\ Len(s) \in Int
      BY <1>1
    <2>3. /\ back \in Seq(Jobs)
          /\ Len(back) = IF i + 1 <= Len(s) THEN Len(s) - (i + 1) + 1 ELSE 0
          /\ \A k \in 1 .. Len(s) - (i + 1) + 1 : back[k] = s[(i + 1) + k - 1]
      BY <2>1, <2>2, SubSeqProperties
    <2> HIDE DEF back
    <2>4. Len(back) = Len(s) - i
      BY <1>1, <2>3
    <2>5. ASSUME NEW k \in 1 .. Len(s) - i PROVE back[k] = s[i + k]
      <3>1. k \in 1 .. Len(s) - (i + 1) + 1 /\ (i + 1) + k - 1 = i + k
        BY <1>1
      <3> QED
        BY <2>3, <3>1
    <2> QED
      BY <2>3, <2>4, <2>5
  <1>4. b = <<s[i]>> \o (front \o back)
    BY DEF BubbledUp
  <1> HIDE DEF front, back, b
  <1>5. /\ front \o back \in Seq(Jobs) /\ Len(front \o back) = Len(s) - 1
        /\ \A k \in 1 .. Len(s) - 1 :
             (front \o back)[k] = IF k <= i - 1 THEN s[k] ELSE s[k + 1]
    <2>1. /\ front \o back \in Seq(Jobs) /\ Len(front \o back) = Len(s) - 1
          /\ \A k \in 1 .. Len(s) - 1 :
               (front \o back)[k] = IF k <= i - 1 THEN front[k] ELSE back[k - (i - 1)]
      BY <1>1, <1>2, <1>3, ConcatProperties
    <2>2. ASSUME NEW k \in 1 .. Len(s) - 1
          PROVE  (front \o back)[k] = IF k <= i - 1 THEN s[k] ELSE s[k + 1]
      <3>1. CASE k <= i - 1
        <4>1. k \in 1 .. i - 1
          BY <1>1, <3>1
        <4> QED
          BY <1>2, <2>1, <3>1, <4>1
      <3>2. CASE ~(k <= i - 1)
        <4>1. k - (i - 1) \in 1 .. Len(s) - i /\ i + (k - (i - 1)) = k + 1
          BY <1>1, <3>2
        <4> QED
          BY <1>3, <2>1, <3>2, <4>1
      <3> QED
        BY <3>1, <3>2
    <2> QED
      BY <2>1, <2>2
  <1>6. \A k \in 1 .. Len(s) : P(k) \in 1 .. Len(s)
    BY <1>1
  <1>7. b \in Seq(Jobs) /\ Len(b) = Len(s) /\ \A k \in 1 .. Len(s) : b[k] = s[P(k)]
    <2>1. <<s[i]>> \in Seq(Jobs) /\ Len(<<s[i]>>) = 1 /\ <<s[i]>>[1] = s[i]
      BY <1>1
    <2>2. b \in Seq(Jobs) /\ Len(b) = 1 + (Len(s) - 1)
          /\ \A k \in 1 .. 1 + (Len(s) - 1) :
               b[k] = IF k <= 1 THEN <<s[i]>>[k] ELSE (front \o back)[k - 1]
      BY <1>4, <1>5, <2>1, ConcatProperties
    <2>3. Len(b) = Len(s) /\ 1 .. 1 + (Len(s) - 1) = 1 .. Len(s)
      BY <1>1, <2>2
    <2>4. ASSUME NEW k \in 1 .. Len(s) PROVE b[k] = s[P(k)]
      <3>1. CASE k = 1
        BY <2>1, <2>2, <2>3, <3>1
      <3>2. CASE k # 1
        <4>1. k - 1 \in 1 .. Len(s) - 1 /\ ~(k <= 1)
              /\ ((k - 1) + 1) = k /\ (k - 1 <= i - 1 <=> k <= i)
          BY <1>1, <3>2
        <4>2. b[k] = IF k - 1 <= i - 1 THEN s[k - 1] ELSE s[k]
          BY <1>5, <2>2, <2>3, <4>1
        <4> QED
          BY <3>2, <4>1, <4>2
      <3> QED
        BY <3>1, <3>2
    <2> QED
      BY <2>2, <2>3, <2>4
  <1>8. \A k, l \in 1 .. Len(s) : P(k) = P(l) => k = l
    BY <1>1
  <1>9. \A k \in 1 .. Len(s) : \E l \in 1 .. Len(s) : P(l) = k
    <2> TAKE k \in 1 .. Len(s)
    <2>1. CASE k = i
      <3>1. 1 \in 1 .. Len(s) /\ P(1) = k
        BY <1>1, <2>1
      <3> QED
        BY <3>1
    <2>2. CASE k < i
      <3>1. k + 1 \in 1 .. Len(s) /\ P(k + 1) = k
        BY <1>1, <2>2
      <3> QED
        BY <3>1
    <2>3. CASE k > i
      <3>1. P(k) = k
        BY <1>1, <2>3
      <3> QED
        BY <3>1
    <2> QED
      BY <1>1, <2>1, <2>2, <2>3
  <1> HIDE DEF P
  <1>10. ASSUME NEW k \in 1 .. Len(s), NEW l \in 1 .. Len(s), b[k] = b[l]
         PROVE  k = l
    <2>1. s[P(k)] = s[P(l)] /\ P(k) \in 1 .. Len(s) /\ P(l) \in 1 .. Len(s)
      BY <1>6, <1>7, <1>10
    <2>2. P(k) = P(l)
      BY <2>1, RangeIs
    <2> QED
      BY <1>8, <2>2
  <1>11. \A x : x \in Range(b) <=> x \in Range(s)
    <2>1. ASSUME NEW x, x \in Range(b) PROVE x \in Range(s)
      BY <1>6, <1>7, <2>1, RangeIs
    <2>2. ASSUME NEW x, x \in Range(s) PROVE x \in Range(b)
      <3>1. PICK k \in 1 .. Len(s) : s[k] = x
        BY <2>2, RangeIs
      <3>2. PICK l \in 1 .. Len(s) : P(l) = k
        BY <1>9
      <3>3. b[l] = x
        BY <1>7, <3>1, <3>2
      <3> QED
        BY <1>7, <3>3, RangeIs
    <2> QED
      BY <2>1, <2>2
  <1>12. IsInjective(b) /\ Range(b) = Range(s)
    BY <1>7, <1>10, <1>11, RangeIs
  <1> QED
    BY <1>7, <1>12 DEF b

-----------------------------------------------------------------------------
(* Types.                                                                  *)

PcType == {"loop", "idle", "waiting", "taken", "start", "executing", "leave",
           "dispose", "ended"}

LEMMA SetQueuedType ==
  ASSUME TypeOK, NEW j \in Jobs, NEW p \in 0 .. PriorityRange - 1, NEW D,
         SetQueued(j, p, D)
  PROVE  /\ jstate' \in [Jobs -> JobState]
         /\ priority' \in [Jobs -> 0 .. PriorityRange - 1]
         /\ progress' \subseteq Cancellable /\ cancelled' \subseteq Jobs
  <1>1. 0 \in 0 .. PriorityRange - 1
    BY JobsAssumption
  <1>2. /\ jstate' = [i \in Jobs |-> IF i = j THEN "QUEUED"
                                     ELSE IF i \in D THEN "none" ELSE jstate[i]]
        /\ priority' = [i \in Jobs |-> IF i = j THEN p
                                       ELSE IF i \in D THEN 0 ELSE priority[i]]
        /\ progress' = (progress \ D) \cup {i \in {j} : HasButton(i)}
        /\ cancelled' = cancelled \ D
    BY DEF SetQueued
  <1>3. jstate' \in [Jobs -> JobState]
    BY <1>2 DEF TypeOK, JobState
  <1>4. priority' \in [Jobs -> 0 .. PriorityRange - 1]
    BY <1>1, <1>2 DEF TypeOK
  <1>5. progress' \subseteq Cancellable /\ cancelled' \subseteq Jobs
    BY <1>2 DEF TypeOK, HasButton
  <1> QED
    BY <1>3, <1>4, <1>5

\* dt_control_job_dispose.
LEMMA DisposeType ==
  ASSUME TypeOK, NEW D, Dispose(D)
  PROVE  /\ jstate' \in [Jobs -> JobState]
         /\ priority' \in [Jobs -> 0 .. PriorityRange - 1]
         /\ progress' \subseteq Cancellable /\ cancelled' \subseteq Jobs
  <1>1. 0 \in 0 .. PriorityRange - 1
    BY JobsAssumption
  <1> QED
    BY <1>1 DEF TypeOK, JobState, Dispose

\* The condition variable wakes those that wait for it and nobody else.
LEMMA BroadcastType ==
  ASSUME TypeOK, Broadcast
  PROVE  /\ pc' \in [Threads -> PcType]
         /\ \A t \in Threads : \/ pc'[t] = pc[t]
                               \/ pc[t] = "waiting" /\ pc'[t] = "loop"
         /\ missed' \subseteq Threads
  BY DEF TypeOK, PcType, Broadcast

\* The priorities of the jobs that were passed over, as an unsigned char.
LEMMA AgedType ==
  ASSUME TypeOK, NEW q
  PROVE  Aged(q) \in [Jobs -> 0 .. PriorityRange - 1]
  <1>1. ASSUME NEW j \in Jobs
        PROVE  (priority[j] + 1) % PriorityRange \in 0 .. PriorityRange - 1
    <2>1. priority[j] + 1 \in Int /\ PriorityRange \in Nat \ {0}
      BY JobsAssumption DEF TypeOK
    <2> QED
      BY <2>1
  <1> QED
    BY <1>1 DEF Aged, TypeOK

\* Adding a job of a queue.
LEMMA AddTypes ==
  ASSUME TypeOK, NEW c \in Callers, NEW j \in Jobs, Add(c, j)
  PROVE  TypeOK'
  <1>1. /\ FgPriority \in 0 .. PriorityRange - 1 /\ 0 \in 0 .. PriorityRange - 1
        /\ [do |-> "notify", victim |-> NoJob] \in ToDo
        /\ [do |-> "notify", victim |-> j] \in ToDo
        /\ [do |-> "discard", victim |-> j] \in ToDo
    BY JobsAssumption DEF ToDo
  <1>2. SystemFg \in Queues /\ queues[SystemFg] \in Seq(Jobs)
    BY DEF TypeOK, SystemFg, Queues
  <1>3. CASE AddScheduled(c, j)
    BY <1>1, <1>3 DEF kickVars, AddScheduled, TypeOK, jobVars, threadVars
  <1>4. CASE AddQueuedAgain(c, j)
    <2> DEFINE s == queues[SystemFg]
    <2>1. PICK i \in QueuedCopies(j) :
            /\ queues' = [queues EXCEPT ![SystemFg] =
                 <<s[i]>> \o (SubSeq(s, 1, i - 1) \o SubSeq(s, i + 1, Len(s)))]
            /\ jstate' = [jstate EXCEPT ![s[i]] = "QUEUED"]
            /\ call' = [call EXCEPT ![c] = [do |-> "notify", victim |-> j]]
      BY <1>4 DEF AddQueuedAgain
    <2>2. i \in 1 .. Len(s)
      BY <1>4 DEF QueuedCopies, AddQueuedAgain
    <2>3. UNCHANGED <<target, running, pending, exportScheduled, scheduled, slot,
                      priority, progress, cancelled, own, pc, kicker, missed>>
      BY <1>4 DEF kickVars, AddQueuedAgain, threadVars
    <2> HIDE DEF s
    <2>4. \A k \in 1 .. Len(s) : s[k] \in Jobs
      BY <1>2 DEF s
    <2>5. SubSeq(s, 1, i - 1) \in Seq(Jobs) /\ SubSeq(s, i + 1, Len(s)) \in Seq(Jobs)
      <3>1. Len(s) \in Nat /\ i \in Nat /\ 1 <= i /\ i <= Len(s)
        BY <1>2, <2>2 DEF s
      <3>2. (\A k \in 1 .. i - 1 : s[k] \in Jobs) /\ 1 \in Int /\ i - 1 \in Int
        BY <2>4, <3>1
      <3>3. (\A k \in i + 1 .. Len(s) : s[k] \in Jobs) /\ i + 1 \in Int /\ Len(s) \in Int
        BY <2>4, <3>1
      <3> QED
        BY <3>2, <3>3, SubSeqProperties
    <2>6. <<s[i]>> \o (SubSeq(s, 1, i - 1) \o SubSeq(s, i + 1, Len(s))) \in Seq(Jobs)
      BY <2>2, <2>4, <2>5
    <2>7. queues' \in [Queues -> Seq(Jobs)]
      BY <2>1, <2>6 DEF TypeOK
    <2>8. jstate' \in [Jobs -> JobState]
      BY <2>1 DEF TypeOK, JobState
    <2> QED
      BY <1>1, <2>1, <2>3, <2>7, <2>8 DEF TypeOK
  <1>5. CASE AddOnTop(c, j)
    <2> DEFINE s == queues[SystemFg]
    <2>1. /\ queues' = [queues EXCEPT ![SystemFg] = Capped(j, s)]
          /\ SetQueued(j, FgPriority, PushedOut(s))
          /\ pending' = pending + 1 - Cardinality(PushedOut(s))
          /\ call' = [call EXCEPT ![c] = [do |-> "notify", victim |-> NoJob]]
          /\ UNCHANGED <<target, running, exportScheduled, scheduled, slot, own, pc,
                         kicker, missed>>
      BY <1>5 DEF kickVars, AddOnTop, threadVars
    <2>2. Capped(j, s) \in Seq(Jobs)
      <3>1. CASE Len(s) < MaxJobs
        BY <1>2, <3>1 DEF Capped
      <3>2. CASE ~(Len(s) < MaxJobs)
        <4>1. Len(s) - 1 \in Nat /\ Len(s) - 1 <= Len(s)
          BY <1>2, <3>2, JobsAssumption
        <4> QED
          BY <1>2, <3>2, <4>1, PrefixIs DEF Capped, Front
      <3> QED
        BY <3>1, <3>2
    <2> HIDE DEF s
    <2>3. Cardinality(PushedOut(s)) \in Nat
      <3>1. PushedOut(s) = {} \/ PushedOut(s) = {s[Len(s)]}
        BY DEF PushedOut
      <3>2. CASE PushedOut(s) = {}
        <4>1. Cardinality(PushedOut(s)) = 0
          BY <3>2, FS_EmptySet
        <4> QED
          BY <4>1
      <3>3. CASE PushedOut(s) = {s[Len(s)]}
        <4>1. Cardinality(PushedOut(s)) = 1
          BY <3>3, FS_Singleton
        <4> QED
          BY <4>1
      <3> QED
        BY <3>1, <3>2, <3>3
    <2>4. queues' \in [Queues -> Seq(Jobs)] /\ pending' \in Int
      <3>1. queues \in [Queues -> Seq(Jobs)] /\ pending \in Int
        BY DEF TypeOK
      <3>2. queues' \in [Queues -> Seq(Jobs)]
        BY <2>1, <2>2, <3>1
      <3>3. pending' \in Int
        BY <2>1, <2>3, <3>1
      <3> QED
        BY <3>2, <3>3
    <2> QED
      BY <1>1, <2>1, <2>4, SetQueuedType DEF TypeOK
  <1>6. CASE AddLast(c, j)
    <2>1. /\ target[j] \in Queues \ {SystemFg}
          /\ queues' = [queues EXCEPT ![target[j]] = Append(@, j)]
          /\ SetQueued(j, IF target[j] = UserFg THEN FgPriority ELSE 0, {})
          /\ pending' = pending + 1
          /\ call' = [call EXCEPT ![c] = [do |-> "notify", victim |-> NoJob]]
          /\ UNCHANGED <<target, running, exportScheduled, scheduled, slot, own, pc,
                         kicker, missed>>
      BY <1>6 DEF kickVars, AddLast, threadVars
    <2>2. queues' \in [Queues -> Seq(Jobs)]
      BY <2>1 DEF TypeOK
    <2>3. /\ jstate' \in [Jobs -> JobState]
          /\ priority' \in [Jobs -> 0 .. PriorityRange - 1]
          /\ progress' \subseteq Cancellable /\ cancelled' \subseteq Jobs
      BY <1>1, <2>1, SetQueuedType
    <2> QED
      BY <1>1, <2>1, <2>2, <2>3 DEF TypeOK
  <1>7. CASE AddReserved(c, j)
    <2>1. /\ slot' = [slot EXCEPT ![target[j]] = j]
          /\ SetQueued(j, 0, {slot[target[j]]} \ {NoJob})
          /\ call' = [call EXCEPT ![c] = [do |-> "notify", victim |-> NoJob]]
          /\ UNCHANGED <<target, running, queues, pending, exportScheduled, scheduled,
                         own, pc, kicker, missed>>
      BY <1>7 DEF kickVars, AddReserved, threadVars, queueVars
    <2>2. slot' \in [Reserved -> Jobs \cup {NoJob}]
      BY <2>1 DEF TypeOK
    <2>3. /\ jstate' \in [Jobs -> JobState]
          /\ priority' \in [Jobs -> 0 .. PriorityRange - 1]
          /\ progress' \subseteq Cancellable /\ cancelled' \subseteq Jobs
      BY <1>1, <2>1, SetQueuedType
    <2> QED
      BY <1>1, <2>1, <2>2, <2>3 DEF TypeOK
  <1> QED
    BY <1>3, <1>4, <1>5, <1>6, <1>7 DEF Add

\* A step of a thread.
LEMMA ThreadTypes ==
  ASSUME TypeOK, NEW t \in Threads, ThreadStep(t)
  PROVE  TypeOK'
  <1>1. pc \in [Threads -> PcType] /\ own \in [Threads -> Jobs \cup {NoJob}]
    BY DEF TypeOK, PcType
  <1>2. ASSUME FindNothing(t) \/ Wait(t) \/ CheckState(t) \/ End(t) PROVE TypeOK'
    <2>1. \E p \in PcType : pc' = [pc EXCEPT ![t] = p]
      BY <1>2 DEF kickVars, FindNothing, Wait, CheckState, End, PcType
    <2>2. UNCHANGED <<target, queues, pending, exportScheduled, scheduled, slot, jstate,
                      priority, progress, own, kicker, missed, call, cancelled, running>>
      BY <1>2 DEF kickVars, FindNothing, Wait, CheckState, End, queueVars, jobVars
    <2>3. pc' \in [Threads -> PcType]
      BY <1>1, <2>1
    <2> QED
      BY <2>2, <2>3 DEF TypeOK, PcType
  <1>3. CASE Start(t)
    <2>1. /\ jstate' = [jstate EXCEPT ![own[t]] = "RUNNING"]
          /\ pc' = [pc EXCEPT ![t] = "executing"]
          /\ UNCHANGED <<target, running, queues, pending, exportScheduled, scheduled,
               slot, priority, progress, cancelled, own, kicker, missed, call>>
      BY <1>3 DEF kickVars, Start, queueVars
    <2>2. pc' \in [Threads -> PcType] /\ jstate' \in [Jobs -> JobState]
      BY <1>1, <2>1 DEF PcType, TypeOK, JobState
    <2> QED
      BY <2>1, <2>2 DEF TypeOK, PcType
  <1>4. CASE Finish(t)
    <2>1. /\ jstate' = [jstate EXCEPT ![own[t]] = "FINISHED"]
          /\ progress' \subseteq progress
          /\ \E p \in PcType : pc' = [pc EXCEPT ![t] = p]
          /\ UNCHANGED <<target, running, queues, pending, exportScheduled, scheduled,
               slot, priority, cancelled, own, kicker, missed, call>>
      BY <1>4 DEF kickVars, Finish, queueVars, PcType
    <2>2. pc' \in [Threads -> PcType] /\ jstate' \in [Jobs -> JobState]
      BY <1>1, <2>1 DEF PcType, TypeOK, JobState
    <2> QED
      BY <2>1, <2>2 DEF TypeOK, PcType
  <1>5. CASE Free(t)
    <2>1. /\ Dispose({own[t]})
          /\ pending' = IF t \in Workers THEN pending - 1 ELSE pending
          /\ own' = [own EXCEPT ![t] = NoJob]
          /\ pc' = [pc EXCEPT ![t] = "loop"]
          /\ UNCHANGED <<target, running, queues, exportScheduled, scheduled, slot,
               kicker, missed, call>>
      BY <1>5 DEF kickVars, Free
    <2>2. pc' \in [Threads -> PcType] /\ own' \in [Threads -> Jobs \cup {NoJob}]
      BY <1>1, <2>1 DEF PcType
    <2>3. pending' \in Int
      BY <2>1 DEF TypeOK
    <2> QED
      BY <2>1, <2>2, <2>3, DisposeType DEF TypeOK, PcType
  <1>6. CASE t \in Workers /\ Schedule(t)
    <2>1. PICK q \in Queues :
            /\ Wins(q)
            /\ queues' = [queues EXCEPT ![q] = Tail(@)]
            /\ exportScheduled' = (exportScheduled \/ q = UserExport)
            /\ scheduled' = [scheduled EXCEPT ![t] = Head(queues[q])]
            /\ own' = [own EXCEPT ![t] = Head(queues[q])]
            /\ priority' = Aged(q)
      BY <1>6 DEF kickVars, Schedule
    <2>2. /\ pc' = [pc EXCEPT ![t] = "taken"]
          /\ UNCHANGED <<target, running, pending, slot, jstate, progress, kicker, missed,
                         call, cancelled>>
      BY <1>6 DEF kickVars, Schedule
    <2>3. queues[q] \in Seq(Jobs) /\ queues[q] # <<>>
      BY <2>1 DEF TypeOK, Wins, Open
    <2>4. Head(queues[q]) \in Jobs /\ Tail(queues[q]) \in Seq(Jobs)
      BY <2>3
    <2>5. queues' \in [Queues -> Seq(Jobs)]
      BY <2>1, <2>4 DEF TypeOK
    <2>6. /\ scheduled' \in [Workers -> Jobs \cup {NoJob}]
          /\ own' \in [Threads -> Jobs \cup {NoJob}]
          /\ pc' \in [Threads -> PcType]
      BY <1>1, <2>1, <2>2, <2>4 DEF TypeOK, PcType
    <2>7. exportScheduled' \in BOOLEAN
      BY <2>1 DEF TypeOK
    <2>8. priority' \in [Jobs -> 0 .. PriorityRange - 1]
      BY <2>1, AgedType
    <2> QED
      BY <2>2, <2>5, <2>6, <2>7, <2>8 DEF TypeOK, PcType
  <1>7. CASE t \in Workers /\ Leave(t)
    <2>1. /\ scheduled' = [scheduled EXCEPT ![t] = NoJob]
          /\ exportScheduled' = (exportScheduled /\ target[own[t]] # UserExport)
          /\ pc' = [pc EXCEPT ![t] = "dispose"]
          /\ UNCHANGED <<target, running, queues, pending, slot, jstate, priority,
               progress, cancelled, own, kicker, missed, call>>
      BY <1>7 DEF kickVars, Leave, jobVars
    <2>2. scheduled' \in [Workers -> Jobs \cup {NoJob}] /\ pc' \in [Threads -> PcType]
      BY <1>1, <2>1 DEF TypeOK, PcType
    <2>3. exportScheduled' \in BOOLEAN
      BY <2>1 DEF TypeOK
    <2> QED
      BY <2>1, <2>2, <2>3 DEF TypeOK, PcType
  <1>8. CASE t \in Reserved /\ TakeSlot(t)
    <2>1. /\ own' = [own EXCEPT ![t] = slot[t]]
          /\ slot' = [slot EXCEPT ![t] = NoJob]
          /\ pc' = [pc EXCEPT ![t] = "taken"]
          /\ UNCHANGED <<target, running, queues, pending, exportScheduled, scheduled,
               jstate, priority, progress, cancelled, kicker, missed, call>>
      BY <1>8 DEF kickVars, TakeSlot, jobVars, queueVars
    <2>2. /\ slot' \in [Reserved -> Jobs \cup {NoJob}]
          /\ own' \in [Threads -> Jobs \cup {NoJob}]
          /\ pc' \in [Threads -> PcType]
      BY <1>1, <1>8, <2>1 DEF TypeOK, PcType
    <2> QED
      BY <2>1, <2>2 DEF TypeOK, PcType
  <1> QED
    BY <1>2, <1>3, <1>4, <1>5, <1>6, <1>7, <1>8 DEF ThreadStep

\* The steps of the callers, the kicker and the main thread.
LEMMA OtherTypes ==
  ASSUME TypeOK,
         \/ \E c \in Callers : Notify(c) \/ DisposeCopy(c)
         \/ \E j \in Jobs : Cancel(j)
         \/ Kick \/ KickerLoops \/ Quit \/ Shutdown
  PROVE  TypeOK'
  <1>1. ASSUME NEW c \in Callers, Notify(c) PROVE TypeOK'
    <2>1. /\ Broadcast
          /\ call' = [call EXCEPT ![c] = IF @.victim = NoJob THEN Ready
                                         ELSE [@ EXCEPT !.do = "dispose"]]
          /\ UNCHANGED <<target, running, queues, pending, exportScheduled, scheduled,
               slot, jstate, priority, progress, cancelled, own, kicker>>
      BY <1>1 DEF Notify, queueVars, jobVars
    <2>2. Ready \in ToDo /\ \A x \in ToDo : [x EXCEPT !.do = "dispose"] \in ToDo
      BY DEF Ready, ToDo
    <2>3. call' \in [Callers -> ToDo]
      BY <2>1, <2>2 DEF TypeOK
    <2> QED
      BY <2>1, <2>3, BroadcastType DEF TypeOK, PcType
  <1>2. ASSUME NEW c \in Callers, DisposeCopy(c) PROVE TypeOK'
    <2>1. /\ pending' = IF call[c].do = "discard" THEN pending - 1 ELSE pending
          /\ call' = [call EXCEPT ![c] = Ready]
          /\ UNCHANGED <<target, running, queues, exportScheduled, scheduled, slot,
               jstate, priority, progress, cancelled, own, pc, kicker, missed>>
      BY <1>2 DEF kickVars, DisposeCopy, jobVars, threadVars
    <2>2. Ready \in ToDo
      BY DEF Ready, ToDo
    <2> QED
      BY <2>1, <2>2 DEF TypeOK
  <1>3. ASSUME NEW j \in Jobs, Cancel(j) PROVE TypeOK'
    BY <1>3 DEF kickVars, Cancel, TypeOK, JobState, queueVars, threadVars
  <1>4. CASE Kick
    <2>1. /\ Broadcast /\ kicker' \in {"asleep", "awake", "ended"}
          /\ UNCHANGED <<target, running, queues, pending, exportScheduled, scheduled,
               slot, jstate, priority, progress, cancelled, own, call>>
      BY <1>4 DEF Kick, queueVars, jobVars
    <2> QED
      BY <2>1, BroadcastType DEF TypeOK, PcType
  <1>5. CASE KickerLoops \/ Quit
    BY <1>5 DEF KickerLoops, Quit, TypeOK, queueVars, jobVars, threadVars, kickVars
  <1>6. CASE Shutdown
    <2>1. /\ Broadcast /\ running' = "DISABLED"
          /\ UNCHANGED <<target, queues, pending, exportScheduled, scheduled,
               slot, jstate, priority, progress, cancelled, own, kicker, call>>
      BY <1>6 DEF Shutdown, queueVars, jobVars
    <2> QED
      BY <2>1, BroadcastType DEF TypeOK, PcType
  <1> QED
    BY <1>1, <1>2, <1>3, <1>4, <1>5, <1>6

LEMMA TypeStep ==
  ASSUME TypeOK, Next
  PROVE  TypeOK'
  BY AddTypes, ThreadTypes, OtherTypes DEF Next

-----------------------------------------------------------------------------
(* Threads have a job while they work on it.                               *)

\* ThreadsHoldJobs, for given values of the variables.
Holds(p, o, sc) ==
  /\ \A t \in Threads : o[t] # NoJob <=> p[t] \in Taking \cup {"dispose"}
  /\ \A w \in Workers : sc[w] = IF p[w] \in Taking THEN o[w] ELSE NoJob

LEMMA ThreadsHoldStep ==
  ASSUME TypeOK, ThreadsHoldJobs, Next
  PROVE  ThreadsHoldJobs'
  <1>1. /\ pc \in [Threads -> PcType] /\ own \in [Threads -> Jobs \cup {NoJob}]
        /\ scheduled \in [Workers -> Jobs \cup {NoJob}]
        /\ Workers \subseteq Threads /\ NoJob \notin Jobs
    BY JobsAssumption DEF TypeOK, PcType, Threads
  <1>2. Holds(pc, own, scheduled) /\ (Holds(pc', own', scheduled') => ThreadsHoldJobs')
    BY DEF ThreadsHoldJobs, Holds
  <1>3. CASE UNCHANGED <<pc, own, scheduled>>
    BY <1>2, <1>3
  <1>4. CASE Broadcast /\ UNCHANGED <<own, scheduled>>
    <2>1. \A t \in Threads : pc'[t] = pc[t] \/ (pc[t] = "waiting" /\ pc'[t] = "loop")
      BY <1>4, BroadcastType
    <2> QED
      BY <1>1, <1>2, <1>4, <2>1 DEF Holds, Taking
  <1>5. ASSUME NEW t \in Threads, ThreadStep(t) PROVE ThreadsHoldJobs'
    <2>1. CASE FindNothing(t) \/ Wait(t) \/ End(t)
      <3>1. \E p \in {"idle", "waiting", "ended"} : pc' = [pc EXCEPT ![t] = p]
        BY <2>1 DEF FindNothing, Wait, End
      <3>2. pc[t] \in {"loop", "idle"} /\ UNCHANGED <<own, scheduled>>
        BY <2>1 DEF FindNothing, Wait, End, queueVars
      <3> QED
        BY <1>1, <1>2, <3>1, <3>2 DEF Holds, Taking
    <2>2. CASE CheckState(t)
      <3>1. \E p \in {"start", "leave", "dispose"} :
              pc' = [pc EXCEPT ![t] = p] /\ (p = "dispose" => t \in Reserved)
        BY <2>2 DEF CheckState
      <3>2. pc[t] = "taken" /\ UNCHANGED <<own, scheduled>>
        BY <2>2 DEF CheckState, queueVars
      <3>3. t \in Reserved => t \notin Workers
        BY JobsAssumption
      <3> QED
        BY <1>1, <1>2, <3>1, <3>2, <3>3 DEF Holds, Taking
    <2>3. CASE Start(t)
      <3>1. pc[t] = "start" /\ pc' = [pc EXCEPT ![t] = "executing"]
            /\ UNCHANGED <<own, scheduled>>
        BY <2>3 DEF Start, queueVars
      <3> QED
        BY <1>1, <1>2, <3>1 DEF Holds, Taking
    <2>4. CASE Finish(t)
      <3>1. \E p \in {"leave", "dispose"} :
              pc' = [pc EXCEPT ![t] = p] /\ (p = "dispose" => t \in Reserved)
        BY <2>4 DEF Finish
      <3>2. pc[t] = "executing" /\ UNCHANGED <<own, scheduled>>
        BY <2>4 DEF Finish, queueVars
      <3>3. t \in Reserved => t \notin Workers
        BY JobsAssumption
      <3> QED
        BY <1>1, <1>2, <3>1, <3>2, <3>3 DEF Holds, Taking
    <2>5. CASE Free(t)
      <3>1. /\ pc[t] = "dispose" /\ pc' = [pc EXCEPT ![t] = "loop"]
            /\ own' = [own EXCEPT ![t] = NoJob] /\ UNCHANGED scheduled
        BY <2>5 DEF Free
      <3> QED
        BY <1>1, <1>2, <3>1 DEF Holds, Taking
    <2>6. CASE t \in Workers /\ Schedule(t)
      <3>1. PICK q \in Queues : /\ queues[q] # <<>>
                                /\ scheduled' = [scheduled EXCEPT ![t] = Head(queues[q])]
                                /\ own' = [own EXCEPT ![t] = Head(queues[q])]
        BY <2>6 DEF Schedule, Wins, Open
      <3>2. pc' = [pc EXCEPT ![t] = "taken"]
        BY <2>6 DEF Schedule
      <3>3. Head(queues[q]) \in Jobs
        BY <3>1 DEF TypeOK
      <3> QED
        BY <1>1, <1>2, <2>6, <3>1, <3>2, <3>3 DEF Holds, Taking
    <2>7. CASE t \in Workers /\ Leave(t)
      <3>1. /\ pc[t] = "leave" /\ pc' = [pc EXCEPT ![t] = "dispose"]
            /\ scheduled' = [scheduled EXCEPT ![t] = NoJob] /\ UNCHANGED own
        BY <2>7 DEF Leave
      <3> QED
        BY <1>1, <1>2, <2>7, <3>1 DEF Holds, Taking
    <2>8. CASE t \in Reserved /\ TakeSlot(t)
      <3>1. /\ slot[t] # NoJob /\ pc' = [pc EXCEPT ![t] = "taken"]
            /\ own' = [own EXCEPT ![t] = slot[t]] /\ UNCHANGED scheduled
        BY <2>8 DEF TakeSlot, queueVars
      <3>2. t \notin Workers
        BY <2>8, JobsAssumption
      <3> QED
        BY <1>1, <1>2, <3>1, <3>2 DEF Holds, Taking
    <2> QED
      BY <1>5, <2>1, <2>2, <2>3, <2>4, <2>5, <2>6, <2>7, <2>8 DEF ThreadStep
  <1>6. ASSUME NEW c \in Callers, NEW j \in Jobs, Add(c, j) PROVE ThreadsHoldJobs'
    BY <1>3, <1>6 DEF Add, AddScheduled, AddQueuedAgain, AddOnTop, AddLast, AddReserved,
       threadVars, queueVars
  <1>7. ASSUME NEW c \in Callers, Notify(c) \/ DisposeCopy(c) PROVE ThreadsHoldJobs'
    BY <1>3, <1>4, <1>7 DEF Notify, DisposeCopy, threadVars, queueVars
  <1>8. ASSUME NEW j \in Jobs, Cancel(j) PROVE ThreadsHoldJobs'
    BY <1>3, <1>8 DEF Cancel, threadVars, queueVars
  <1>9. CASE Kick \/ KickerLoops \/ Quit \/ Shutdown
    BY <1>3, <1>4, <1>9 DEF Kick, KickerLoops, Quit, Shutdown, threadVars, queueVars
  <1> QED
    BY <1>5, <1>6, <1>7, <1>8, <1>9 DEF Next

-----------------------------------------------------------------------------
(* Owners.                                                                 *)

\* The jobs that the queues point to, and that no queue points twice to one.
Linked == [q \in Queues |-> Links(q)]
Straight == \A q \in Queues : IsInjective(queues[q])

\* OwnersDiffer and LiveIsOwned, for given links, slots and jobs of threads.
Owners(L, sl, ow, live) ==
  /\ \A q \in Queues : \A j \in L[q] : j \in Jobs /\ target[j] = q
  /\ \A r \in Reserved : sl[r] # NoJob => target[sl[r]] = r
  /\ \A w \in Workers : ow[w] # NoJob => /\ target[ow[w]] \in Queues
                                         /\ ow[w] \notin L[target[ow[w]]]
  /\ \A r \in Reserved : ow[r] # NoJob => target[ow[r]] = r /\ sl[r] # ow[r]
  /\ \A t, u \in Threads : ow[t] = ow[u] /\ ow[t] # NoJob => t = u
  /\ \A j \in Jobs : j \in live <=> \/ \E q \in Queues : j \in L[q]
                                    \/ \E r \in Reserved : sl[r] = j
                                    \/ \E t \in Threads : ow[t] = j

LEMMA OwnersIs ==
  ASSUME TypeOK, OwnersDiffer, LiveIsOwned
  PROVE  Owners(Linked, slot, own, Live) /\ Straight
  <1>1. /\ slot \in [Reserved -> Jobs \cup {NoJob}] /\ NoJob \notin Jobs
        /\ own \in [Threads -> Jobs \cup {NoJob}] /\ Threads = Workers \cup Reserved
    BY JobsAssumption DEF TypeOK, Threads
  <1>2. \A q \in Queues : Linked[q] = Links(q) /\ Links(q) \subseteq Jobs
    BY RangeIs DEF Linked, Links, TypeOK
  <1>3. \A j \in Jobs : j \in Live <=> \/ \E q \in Queues : j \in Linked[q]
                                       \/ \E r \in Reserved : slot[r] = j
                                       \/ \E t \in Threads : own[t] = j
    BY <1>1, <1>2 DEF LiveIsOwned
  <1> QED
    BY <1>1, <1>2, <1>3 DEF Owners, OwnersDiffer, Straight

LEMMA OwnersNext ==
  ASSUME TypeOK', target' = target, Owners(Linked', slot', own', Live'), Straight'
  PROVE  OwnersDiffer' /\ LiveIsOwned'
  <1>1. /\ slot' \in [Reserved -> Jobs \cup {NoJob}] /\ NoJob \notin Jobs
        /\ own' \in [Threads -> Jobs \cup {NoJob}] /\ Threads = Workers \cup Reserved
    BY JobsAssumption DEF TypeOK, Threads
  <1>2. \A q \in Queues : Linked'[q] = Links(q)' /\ Links(q)' \subseteq Jobs
    BY RangeIs DEF Linked, Links, TypeOK
  <1>3. OwnersDiffer'
    BY <1>1, <1>2 DEF Owners, OwnersDiffer, Straight
  <1>4. LiveIsOwned'
    BY <1>1, <1>2 DEF LiveIsOwned, Owners
  <1> QED
    BY <1>3, <1>4

\* What a step may do to the owners.
Same == Linked' = Linked /\ UNCHANGED <<slot, own>> /\ Live' = Live /\ Straight'
Put(j, D) ==
  /\ j \notin Live /\ target[j] \in Queues /\ D \subseteq Linked[target[j]]
  /\ Linked' = [Linked EXCEPT ![target[j]] = (@ \cup {j}) \ D]
  /\ Live' = (Live \cup {j}) \ D /\ UNCHANGED <<slot, own>> /\ Straight'
PutSlot(j) ==
  /\ j \notin Live /\ target[j] \in Reserved
  /\ slot' = [slot EXCEPT ![target[j]] = j]
  /\ Live' = (Live \cup {j}) \ {slot[target[j]]}
  /\ Linked' = Linked /\ UNCHANGED own /\ Straight'
Take(w, j) ==
  /\ own[w] = NoJob /\ target[j] \in Queues /\ j \in Linked[target[j]]
  /\ Linked' = [Linked EXCEPT ![target[j]] = @ \ {j}]
  /\ own' = [own EXCEPT ![w] = j] /\ UNCHANGED slot /\ Live' = Live /\ Straight'
FromSlot(r) ==
  /\ own[r] = NoJob /\ slot[r] # NoJob
  /\ own' = [own EXCEPT ![r] = slot[r]] /\ slot' = [slot EXCEPT ![r] = NoJob]
  /\ Linked' = Linked /\ Live' = Live /\ Straight'
Drop(t) ==
  /\ own[t] # NoJob /\ own' = [own EXCEPT ![t] = NoJob]
  /\ Live' = Live \ {own[t]} /\ Linked' = Linked /\ UNCHANGED slot /\ Straight'

\* None of these lets two owners have one job, or a job have none.
LEMMA OwnersKept ==
  ASSUME TypeOK, Owners(Linked, slot, own, Live),
         \/ Same
         \/ \E j \in Jobs : PutSlot(j) \/ \E D : Put(j, D)
         \/ \E w \in Workers, j \in Jobs : Take(w, j)
         \/ \E r \in Reserved : FromSlot(r)
         \/ \E t \in Threads : Drop(t)
  PROVE  Owners(Linked', slot', own', Live')
  <1>1. /\ slot \in [Reserved -> Jobs \cup {NoJob}] /\ NoJob \notin Jobs
        /\ own \in [Threads -> Jobs \cup {NoJob}] /\ Threads = Workers \cup Reserved
        /\ Workers \cap Reserved = {} /\ Queues \cap Reserved = {}
        /\ DOMAIN Linked = Queues /\ Live \subseteq Jobs
    BY JobsAssumption DEF TypeOK, Threads, Linked, Live
  <1> DEFINE L == Linked
             live == Live
             L2 == Linked'
             live2 == Live'
  <1>2. Owners(L, slot, own, live)
    OBVIOUS
  <1>3. DOMAIN L = Queues /\ L = [q \in Queues |-> L[q]]
    BY DEF Linked
  <1>4. CASE Same
    BY <1>4 DEF Same
  <1>5. ASSUME NEW j \in Jobs, NEW D, Put(j, D)
        PROVE  Owners(L2, slot', own', live2)
    <2>1. /\ j \notin live /\ target[j] \in Queues /\ D \subseteq L[target[j]]
          /\ L2 = [L EXCEPT ![target[j]] = (@ \cup {j}) \ D]
          /\ live2 = (live \cup {j}) \ D /\ UNCHANGED <<slot, own>>
      BY <1>5 DEF Put
    <2> HIDE DEF L, live, L2, live2
    <2>2. \A q \in Queues : L2[q] = IF q = target[j] THEN (L[q] \cup {j}) \ D ELSE L[q]
      BY <1>3, <2>1
    <2>3. \A d \in D : d \in L[target[j]] /\ d # j
      BY <1>2, <2>1 DEF Owners
    <2>4. \A x \in Jobs : x \in D => /\ \A r \in Reserved : slot[r] # x
                                     /\ \A t \in Threads : own[t] # x
      BY <1>1, <1>2, <2>1, <2>3 DEF Owners
    <2> QED
      BY <1>1, <1>2, <2>1, <2>2, <2>3, <2>4 DEF Owners
  <1>6. ASSUME NEW j \in Jobs, PutSlot(j)
        PROVE  Owners(L2, slot', own', live2)
    <2>1. /\ j \notin live /\ target[j] \in Reserved
          /\ slot' = [slot EXCEPT ![target[j]] = j]
          /\ live2 = (live \cup {j}) \ {slot[target[j]]}
          /\ L2 = L /\ UNCHANGED own
      BY <1>6 DEF PutSlot
    <2> HIDE DEF L, live, L2, live2
    <2> QED
      BY <1>1, <1>2, <2>1 DEF Owners
  <1>7. ASSUME NEW w \in Workers, NEW j \in Jobs, Take(w, j)
        PROVE  Owners(L2, slot', own', live2)
    <2>1. /\ own[w] = NoJob /\ target[j] \in Queues /\ j \in L[target[j]]
          /\ L2 = [L EXCEPT ![target[j]] = @ \ {j}]
          /\ own' = [own EXCEPT ![w] = j] /\ UNCHANGED slot /\ live2 = live
      BY <1>7 DEF Take
    <2> HIDE DEF L, live, L2, live2
    <2>2. \A q \in Queues : L2[q] = IF q = target[j] THEN L[q] \ {j} ELSE L[q]
      BY <1>3, <2>1
    <2>3. \A t \in Threads : own[t] # j
      BY <1>1, <1>2, <2>1 DEF Owners
    <2>4. /\ \A q \in Queues : \A x \in L2[q] : x \in Jobs /\ target[x] = q
          /\ \A r \in Reserved : slot[r] # NoJob => target[slot[r]] = r
      BY <1>2, <2>2 DEF Owners
    <2>5. \A t \in Threads : own'[t] = IF t = w THEN j ELSE own[t]
      BY <1>1, <2>1
    <2>6. ASSUME NEW v \in Workers, own'[v] # NoJob
          PROVE  target[own'[v]] \in Queues /\ own'[v] \notin L2[target[own'[v]]]
      <3>1. CASE v = w
        BY <1>1, <2>1, <2>2, <2>5, <3>1
      <3>2. CASE v # w
        <4>1. target[own[v]] \in Queues /\ own[v] \notin L[target[own[v]]]
              /\ own'[v] = own[v]
          BY <1>1, <1>2, <2>5, <2>6, <3>2 DEF Owners
        <4> QED
          BY <2>2, <4>1
      <3> QED
        BY <3>1, <3>2
    <2>7. \A r \in Reserved : own'[r] # NoJob => target[own'[r]] = r /\ slot[r] # own'[r]
      <3>1. \A r \in Reserved : own'[r] = own[r]
        BY <1>1, <2>5
      <3> QED
        BY <1>2, <3>1 DEF Owners
    <2>8. \A t, u \in Threads : own'[t] = own'[u] /\ own'[t] # NoJob => t = u
      BY <1>2, <2>3, <2>5 DEF Owners
    <2>9. \A x \in Jobs : x \in live2 <=> \/ \E q \in Queues : x \in L2[q]
                                          \/ \E r \in Reserved : slot[r] = x
                                          \/ \E t \in Threads : own'[t] = x
      <3> TAKE x \in Jobs
      <3>1. x \in live <=> \/ \E q \in Queues : x \in L[q]
                           \/ \E r \in Reserved : slot[r] = x
                           \/ \E t \in Threads : own[t] = x
        BY <1>2 DEF Owners
      <3>2. CASE x = j
        BY <1>1, <2>1, <3>1, <3>2
      <3>3. CASE x # j
        <4>1. (\E q \in Queues : x \in L2[q]) <=> \E q \in Queues : x \in L[q]
          BY <2>2, <3>3
        <4>2. (\E t \in Threads : own'[t] = x) <=> \E t \in Threads : own[t] = x
          BY <1>1, <2>1, <3>3
        <4> QED
          BY <2>1, <3>1, <4>1, <4>2
      <3> QED
        BY <3>2, <3>3
    <2> QED
      BY <2>1, <2>4, <2>6, <2>7, <2>8, <2>9 DEF Owners
  <1>8. ASSUME NEW r \in Reserved, FromSlot(r)
        PROVE  Owners(L2, slot', own', live2)
    <2>1. /\ own[r] = NoJob /\ slot[r] # NoJob
          /\ own' = [own EXCEPT ![r] = slot[r]] /\ slot' = [slot EXCEPT ![r] = NoJob]
          /\ L2 = L /\ live2 = live
      BY <1>8 DEF FromSlot
    <2> HIDE DEF L, live, L2, live2
    <2>2. \A t \in Threads : own[t] # slot[r]
      BY <1>1, <1>2, <2>1 DEF Owners
    <2> QED
      BY <1>1, <1>2, <2>1, <2>2 DEF Owners
  <1>9. ASSUME NEW t \in Threads, Drop(t)
        PROVE  Owners(L2, slot', own', live2)
    <2>1. /\ own[t] # NoJob /\ own' = [own EXCEPT ![t] = NoJob]
          /\ live2 = live \ {own[t]} /\ L2 = L /\ UNCHANGED slot
      BY <1>9 DEF Drop
    <2> HIDE DEF L, live, L2, live2
    <2>2. (\A q \in Queues : own[t] \notin L[q]) /\ \A r \in Reserved : slot[r] # own[t]
      BY <1>1, <1>2, <2>1 DEF Owners
    <2> QED
      BY <1>1, <1>2, <2>1, <2>2 DEF Owners
  <1> QED
    BY <1>4, <1>5, <1>6, <1>7, <1>8, <1>9

\* One queue changes.
LEMMA LinkedExcept ==
  ASSUME TypeOK, Straight, NEW p \in Queues, NEW s, IsInjective(s),
         queues' = [queues EXCEPT ![p] = s]
  PROVE  /\ Linked' = [Linked EXCEPT ![p] = Range(s)] /\ Straight'
         /\ Linked[p] = Range(queues[p])
  <1>1. \A q \in Queues : queues'[q] = IF q = p THEN s ELSE queues[q]
    BY DEF TypeOK
  <1>2. Straight'
    BY <1>1 DEF Straight
  <1>3. \A q \in Queues : Range(queues'[q]) = IF q = p THEN Range(s) ELSE Range(queues[q])
    BY <1>1
  <1>4. /\ Linked = [q \in Queues |-> Range(queues[q])]
        /\ Linked' = [q \in Queues |-> Range(queues'[q])]
    BY DEF Linked, Links
  <1>5. Linked' = [Linked EXCEPT ![p] = Range(s)] /\ Linked[p] = Range(queues[p])
    BY <1>3, <1>4
  <1> QED
    BY <1>2, <1>5

\* No queue changes.
LEMMA LinkedSame ==
  ASSUME Straight, UNCHANGED queues
  PROVE  Linked' = Linked /\ Straight'
  BY DEF Linked, Links, Straight

\* What exists after a job is queued and the jobs D are disposed of.
LEMMA SetQueuedLive ==
  ASSUME TypeOK, NEW j \in Jobs, NEW p, NEW D, j \notin D, SetQueued(j, p, D)
  PROVE  /\ Live' = (Live \cup {j}) \ D
         /\ ProgressIsLive => ProgressIsLive'
  <1>1. /\ jstate' = [i \in Jobs |-> IF i = j THEN "QUEUED"
                                     ELSE IF i \in D THEN "none" ELSE jstate[i]]
        /\ progress' = (progress \ D) \cup {i \in {j} : HasButton(i)}
    BY DEF SetQueued
  <1>2. Live' = (Live \cup {j}) \ D
    BY <1>1 DEF Live
  <1> QED
    BY <1>1, <1>2 DEF ProgressIsLive

\* Adding a job (dt_control_add_job, dt_control_add_job_res).
LEMMA AddIs ==
  ASSUME TypeOK, Owners(Linked, slot, own, Live), Straight, ProgressIsLive,
         NEW c \in Callers, NEW j \in Jobs
  PROVE  /\ AddScheduled(c, j) => Same
         /\ AddQueuedAgain(c, j) => Same
         /\ AddOnTop(c, j) => Put(j, PushedOut(queues[SystemFg]))
         /\ AddLast(c, j) => Put(j, {})
         /\ AddReserved(c, j) => PutSlot(j)
         /\ Add(c, j) => ProgressIsLive' /\ UNCHANGED target
  <1>1. /\ SystemFg \in Queues /\ \A q \in Queues : queues[q] \in Seq(Jobs)
        /\ NoJob \notin Jobs
    BY JobsAssumption DEF TypeOK, SystemFg, Queues
  <1>2. \A q \in Queues : Linked[q] = Range(queues[q]) /\ IsInjective(queues[q])
    BY DEF Linked, Links, Straight
  <1>3. CanAdd(c, j) => j \notin Live
    BY DEF CanAdd, Live
  <1>4. ASSUME AddScheduled(c, j) PROVE Same /\ ProgressIsLive' /\ UNCHANGED target
    <2>1. UNCHANGED <<target, queues, slot, own, jstate, progress>>
      BY <1>4 DEF AddScheduled, jobVars, threadVars
    <2> QED
      BY <2>1, LinkedSame DEF Same, Live, ProgressIsLive
  <1>5. ASSUME AddQueuedAgain(c, j) PROVE Same /\ ProgressIsLive' /\ UNCHANGED target
    <2> DEFINE s == queues[SystemFg]
    <2>1. PICK i \in QueuedCopies(j) :
            /\ queues' = [queues EXCEPT ![SystemFg] = BubbledUp(s, i)]
            /\ jstate' = [jstate EXCEPT ![s[i]] = "QUEUED"]
      BY <1>5 DEF AddQueuedAgain, BubbledUp
    <2>2. i \in 1 .. Len(s)
      BY <1>5 DEF QueuedCopies, AddQueuedAgain
    <2>3. UNCHANGED <<target, slot, own, progress>>
      BY <1>5 DEF AddQueuedAgain, threadVars
    <2>4. s \in Seq(Jobs) /\ IsInjective(s) /\ Linked[SystemFg] = Range(s)
      BY <1>1, <1>2
    <2> HIDE DEF s
    <2>5. IsInjective(BubbledUp(s, i)) /\ Range(BubbledUp(s, i)) = Range(s)
      BY <2>2, <2>4, BubbledLinks
    <2>6. Linked' = [Linked EXCEPT ![SystemFg] = Range(s)] /\ Straight'
      BY <1>1, <2>1, <2>5, LinkedExcept
    <2>7. Linked' = Linked
      BY <2>4, <2>6 DEF Linked
    <2>8. s[i] \in Jobs /\ s[i] \in Live
      <3>1. s[i] \in Linked[SystemFg]
        BY <2>2, <2>4, RangeIs
      <3> QED
        BY <1>1, <3>1 DEF Owners
    <2>9. Live' = Live
      BY <2>1, <2>8 DEF Live, TypeOK
    <2> QED
      BY <2>3, <2>6, <2>7, <2>9 DEF Same, ProgressIsLive
  <1>6. ASSUME AddOnTop(c, j)
        PROVE  Put(j, PushedOut(queues[SystemFg])) /\ ProgressIsLive' /\ UNCHANGED target
    <2> DEFINE s == queues[SystemFg]
    <2>1. /\ target[j] = SystemFg /\ j \notin Live
          /\ queues' = [queues EXCEPT ![SystemFg] = Capped(j, s)]
          /\ SetQueued(j, FgPriority, PushedOut(s))
          /\ UNCHANGED <<target, slot, own>>
      BY <1>3, <1>6 DEF AddOnTop, threadVars
    <2>2. s \in Seq(Jobs) /\ IsInjective(s) /\ Linked[SystemFg] = Range(s)
      BY <1>1, <1>2
    <2> HIDE DEF s
    <2>3. j \notin Range(s)
      BY <1>1, <2>1, <2>2 DEF Owners
    <2>4. /\ IsInjective(Capped(j, s))
          /\ Range(Capped(j, s)) = (Range(s) \cup {j}) \ PushedOut(s)
          /\ PushedOut(s) = {} \/ \E i \in Range(s) : PushedOut(s) = {i}
      BY <2>2, <2>3, CappedLinks
    <2>5. PushedOut(s) \subseteq Range(s) /\ j \notin PushedOut(s)
      BY <2>3, <2>4
    <2>6. Linked' = [Linked EXCEPT ![SystemFg] = (Range(s) \cup {j}) \ PushedOut(s)]
          /\ Straight'
      BY <1>1, <2>1, <2>4, LinkedExcept
    <2>7. Live' = (Live \cup {j}) \ PushedOut(s) /\ ProgressIsLive'
      BY <2>1, <2>5, SetQueuedLive
    <2>8. Put(j, PushedOut(s))
      BY <1>1, <2>1, <2>2, <2>5, <2>6, <2>7 DEF Put
    <2> QED
      BY <2>1, <2>7, <2>8 DEF s
  <1>7. ASSUME AddLast(c, j) PROVE Put(j, {}) /\ ProgressIsLive' /\ UNCHANGED target
    <2> DEFINE s == queues[target[j]]
    <2>1. /\ target[j] \in Queues /\ j \notin Live
          /\ queues' = [queues EXCEPT ![target[j]] = Append(s, j)]
          /\ SetQueued(j, IF target[j] = UserFg THEN FgPriority ELSE 0, {})
          /\ UNCHANGED <<target, slot, own>>
      BY <1>3, <1>7 DEF AddLast, threadVars
    <2>2. s \in Seq(Jobs) /\ IsInjective(s) /\ Linked[target[j]] = Range(s)
      BY <1>1, <1>2, <2>1
    <2> HIDE DEF s
    <2>3. j \notin Range(s)
      BY <2>1, <2>2 DEF Owners
    <2>4. IsInjective(Append(s, j)) /\ Range(Append(s, j)) = Range(s) \cup {j}
      BY <2>2, <2>3, AppendLinks
    <2>5. Linked' = [Linked EXCEPT ![target[j]] = Range(s) \cup {j}] /\ Straight'
      BY <2>1, <2>4, LinkedExcept
    <2>6. Live' = (Live \cup {j}) \ {} /\ ProgressIsLive'
      BY <2>1, SetQueuedLive
    <2>7. Put(j, {})
      BY <2>1, <2>2, <2>5, <2>6 DEF Put
    <2> QED
      BY <2>1, <2>6, <2>7
  <1>8. ASSUME AddReserved(c, j) PROVE PutSlot(j) /\ ProgressIsLive' /\ UNCHANGED target
    <2>1. /\ target[j] \in Reserved /\ j \notin Live
          /\ slot' = [slot EXCEPT ![target[j]] = j]
          /\ SetQueued(j, 0, {slot[target[j]]} \ {NoJob})
          /\ UNCHANGED <<target, queues, own>>
      BY <1>3, <1>8 DEF AddReserved, threadVars, queueVars
    <2>2. slot[target[j]] # j
      BY <2>1 DEF Owners
    <2>3. /\ Live' = (Live \cup {j}) \ ({slot[target[j]]} \ {NoJob})
          /\ ProgressIsLive'
      BY <2>1, <2>2, SetQueuedLive
    <2>4. Live' = (Live \cup {j}) \ {slot[target[j]]}
      BY <1>1, <2>3 DEF Live
    <2> QED
      BY <2>1, <2>3, <2>4, LinkedSame DEF PutSlot
  <1> QED
    BY <1>4, <1>5, <1>6, <1>7, <1>8 DEF Add

\* The steps of the threads.
LEMMA ThreadIs ==
  ASSUME TypeOK, Owners(Linked, slot, own, Live), Straight, ThreadsHoldJobs,
         ProgressIsLive, NEW t \in Threads
  PROVE  /\ FindNothing(t) \/ Wait(t) \/ CheckState(t) \/ End(t) => Same
         /\ Start(t) \/ Finish(t) \/ (t \in Workers /\ Leave(t)) => Same
         /\ t \in Workers /\ Schedule(t) => \E j \in Jobs : Take(t, j)
         /\ t \in Reserved /\ TakeSlot(t) => FromSlot(t)
         /\ Free(t) => Drop(t)
         /\ ThreadStep(t) => ProgressIsLive' /\ UNCHANGED target
  <1>1. /\ \A q \in Queues : queues[q] \in Seq(Jobs)
        /\ own \in [Threads -> Jobs \cup {NoJob}] /\ NoJob \notin Jobs
        /\ jstate \in [Jobs -> JobState]
    BY JobsAssumption DEF TypeOK
  <1>2. \A q \in Queues : Linked[q] = Range(queues[q]) /\ IsInjective(queues[q])
    BY DEF Linked, Links, Straight
  <1>3. own[t] # NoJob => own[t] \in Live
    BY <1>1 DEF Owners
  <1>4. own[t] # NoJob <=> pc[t] \in Taking \cup {"dispose"}
    BY DEF ThreadsHoldJobs
  <1>5. ASSUME FindNothing(t) \/ Wait(t) \/ CheckState(t) \/ End(t)
        PROVE  Same /\ ProgressIsLive' /\ UNCHANGED target
    <2>1. UNCHANGED <<target, queues, slot, own, jstate, progress>>
      BY <1>5 DEF FindNothing, Wait, CheckState, End, queueVars, jobVars
    <2> QED
      BY <2>1, LinkedSame DEF Same, Live, ProgressIsLive
  <1>6. ASSUME t \in Workers /\ Leave(t)
        PROVE  Same /\ ProgressIsLive' /\ UNCHANGED target
    <2>1. UNCHANGED <<target, queues, slot, own, jstate, progress>>
      BY <1>6 DEF Leave, jobVars
    <2> QED
      BY <2>1, LinkedSame DEF Same, Live, ProgressIsLive
  <1>7. ASSUME Start(t) \/ Finish(t)
        PROVE  Same /\ ProgressIsLive' /\ UNCHANGED target
    <2>1. /\ \E x \in {"RUNNING", "FINISHED"} : jstate' = [jstate EXCEPT ![own[t]] = x]
          /\ progress' \subseteq progress
          /\ UNCHANGED <<target, queues, slot, own>>
      BY <1>7 DEF Start, Finish, queueVars
    <2>2. pc[t] \in {"start", "executing"}
      BY <1>7 DEF Start, Finish
    <2>3. own[t] \in Live
      BY <1>3, <1>4, <2>2 DEF Taking
    <2>4. Live' = Live
      BY <1>1, <2>1, <2>3 DEF Live
    <2> QED
      BY <2>1, <2>4, LinkedSame DEF Same, ProgressIsLive
  <1>8. ASSUME t \in Workers /\ Schedule(t)
        PROVE  (\E j \in Jobs : Take(t, j)) /\ ProgressIsLive' /\ UNCHANGED target
    <2>1. PICK q \in Queues : /\ queues[q] # <<>>
                              /\ queues' = [queues EXCEPT ![q] = Tail(@)]
                              /\ own' = [own EXCEPT ![t] = Head(queues[q])]
      BY <1>8 DEF Schedule, Wins, Open
    <2>2. pc[t] = "loop" /\ UNCHANGED <<target, slot, jstate, progress>>
      BY <1>8 DEF Schedule
    <2> DEFINE s == queues[q]
               j == Head(s)
    <2>3. s \in Seq(Jobs) /\ IsInjective(s) /\ s # <<>> /\ Linked[q] = Range(s)
      BY <1>1, <1>2, <2>1
    <2>4. queues' = [queues EXCEPT ![q] = Tail(s)]
      BY <2>1
    <2>5. /\ IsInjective(Tail(s)) /\ Range(Tail(s)) = Range(s) \ {j}
          /\ j \in Range(s) /\ j \in Jobs
      BY <2>3, TailLinks
    <2>6. Linked' = [Linked EXCEPT ![q] = Range(s) \ {j}] /\ Straight'
      <3> HIDE DEF s
      <3> QED
        BY <2>4, <2>5, LinkedExcept
    <2>7. own' = [own EXCEPT ![t] = j]
      BY <2>1
    <2> HIDE DEF s, j
    <2>8. own[t] = NoJob
      BY <1>4, <2>2 DEF Taking
    <2>9. target[j] = q
      BY <2>3, <2>5 DEF Owners
    <2>10. Live' = Live /\ ProgressIsLive'
      BY <2>2 DEF Live, ProgressIsLive
    <2>11. Take(t, j)
      BY <2>2, <2>3, <2>5, <2>6, <2>7, <2>8, <2>9, <2>10 DEF Take
    <2> QED
      BY <2>2, <2>5, <2>10, <2>11
  <1>9. ASSUME t \in Reserved /\ TakeSlot(t)
        PROVE  FromSlot(t) /\ ProgressIsLive' /\ UNCHANGED target
    <2>1. /\ pc[t] = "loop" /\ slot[t] # NoJob
          /\ own' = [own EXCEPT ![t] = slot[t]] /\ slot' = [slot EXCEPT ![t] = NoJob]
          /\ UNCHANGED <<target, queues, jstate, progress>>
      BY <1>9 DEF TakeSlot, queueVars, jobVars
    <2>2. own[t] = NoJob
      BY <1>4, <2>1 DEF Taking
    <2> QED
      BY <2>1, <2>2, LinkedSame DEF FromSlot, Live, ProgressIsLive
  <1>10. ASSUME Free(t) PROVE Drop(t) /\ ProgressIsLive' /\ UNCHANGED target
    <2>1. /\ pc[t] = "dispose" /\ Dispose({own[t]})
          /\ own' = [own EXCEPT ![t] = NoJob] /\ UNCHANGED <<target, queues, slot>>
      BY <1>10 DEF Free
    <2>2. own[t] # NoJob
      BY <1>4, <2>1
    <2>3. /\ jstate' = [j \in Jobs |-> IF j \in {own[t]} THEN "none" ELSE jstate[j]]
          /\ progress' = progress \ {own[t]}
      BY <2>1 DEF Dispose
    <2>4. Live' = Live \ {own[t]}
      BY <2>3 DEF Live
    <2>5. ProgressIsLive'
      BY <2>3, <2>4 DEF ProgressIsLive
    <2> QED
      BY <2>1, <2>2, <2>4, <2>5, LinkedSame DEF Drop
  <1> QED
    BY <1>5, <1>6, <1>7, <1>8, <1>9, <1>10 DEF ThreadStep

\* The other steps leave the owners alone.
LEMMA OtherIs ==
  ASSUME TypeOK, Straight, ProgressIsLive,
         \/ \E c \in Callers : Notify(c) \/ DisposeCopy(c)
         \/ \E j \in Jobs : Cancel(j)
         \/ Kick \/ KickerLoops \/ Quit \/ Shutdown
  PROVE  Same /\ ProgressIsLive' /\ UNCHANGED target
  <1>1. CASE UNCHANGED <<target, queues, slot, own, jstate, progress>>
    BY <1>1, LinkedSame DEF Same, Live, ProgressIsLive
  <1>2. ASSUME NEW j \in Jobs, Cancel(j) PROVE Same /\ ProgressIsLive' /\ UNCHANGED target
    <2>1. /\ j \in progress /\ jstate' = [jstate EXCEPT ![j] = "CANCELLED"]
          /\ progress' \subseteq progress /\ UNCHANGED <<target, queues, slot, own>>
      BY <1>2 DEF Cancel, queueVars, threadVars
    <2>2. Live' = Live
      BY <2>1 DEF ProgressIsLive, Live, TypeOK
    <2> QED
      BY <2>1, <2>2, LinkedSame DEF Same, ProgressIsLive
  <1>3. ASSUME NEW c \in Callers, Notify(c) \/ DisposeCopy(c)
        PROVE  UNCHANGED <<target, queues, slot, own, jstate, progress>>
    BY <1>3 DEF Notify, DisposeCopy, queueVars, jobVars, threadVars
  <1>4. CASE Kick \/ KickerLoops \/ Quit \/ Shutdown
    BY <1>1, <1>4 DEF Kick, KickerLoops, Quit, Shutdown, queueVars, jobVars, threadVars
  <1> QED
    BY <1>1, <1>2, <1>3, <1>4

LEMMA OwnersStep ==
  ASSUME TypeOK, OwnersDiffer, LiveIsOwned, ThreadsHoldJobs, ProgressIsLive, TypeOK',
         Next
  PROVE  OwnersDiffer' /\ LiveIsOwned' /\ ProgressIsLive' /\ UNCHANGED target
  <1>1. Owners(Linked, slot, own, Live) /\ Straight
    BY OwnersIs
  <1>2. ASSUME \/ Same
               \/ \E j \in Jobs : PutSlot(j) \/ \E D : Put(j, D)
               \/ \E w \in Workers, j \in Jobs : Take(w, j)
               \/ \E r \in Reserved : FromSlot(r)
               \/ \E t \in Threads : Drop(t),
               ProgressIsLive', UNCHANGED target
        PROVE  OwnersDiffer' /\ LiveIsOwned' /\ ProgressIsLive' /\ UNCHANGED target
    <2>1. Straight'
      BY <1>2 DEF Same, Put, PutSlot, Take, FromSlot, Drop
    <2>2. Owners(Linked', slot', own', Live')
      BY <1>1, <1>2, OwnersKept
    <2> QED
      BY <1>2, <2>1, <2>2, OwnersNext
  <1>3. ASSUME NEW c \in Callers, NEW j \in Jobs, Add(c, j)
        PROVE  OwnersDiffer' /\ LiveIsOwned' /\ ProgressIsLive' /\ UNCHANGED target
    BY <1>1, <1>2, <1>3, AddIs DEF Add
  <1>4. ASSUME NEW t \in Threads, ThreadStep(t)
        PROVE  OwnersDiffer' /\ LiveIsOwned' /\ ProgressIsLive' /\ UNCHANGED target
    BY <1>1, <1>2, <1>4, ThreadIs DEF ThreadStep
  <1> QED
    BY <1>1, <1>2, <1>3, <1>4, OtherIs DEF Next

-----------------------------------------------------------------------------
(* The pending jobs are counted.                                           *)

Queued == {j \in Live : target[j] \in Queues}
Discarding == {c \in Callers : call[c].do = "discard"}

LEMMA CountsAreFinite ==
  /\ IsFiniteSet(Queued) /\ Cardinality(Queued) \in Nat
  /\ IsFiniteSet(Discarding) /\ Cardinality(Discarding) \in Nat
  <1>1. IsFiniteSet(Queued)
    BY JobsAssumption, FS_Subset DEF Queued, Live
  <1>2. IsFiniteSet(Discarding)
    BY JobsAssumption, FS_Subset DEF Discarding
  <1> QED
    BY <1>1, <1>2, FS_CardinalityType

\* How many queued jobs there are after a step.
LEMMA QueuedCount ==
  ASSUME TypeOK, Owners(Linked, slot, own, Live), target' = target
  PROVE  /\ Same => Queued' = Queued
         /\ \A j \in Jobs : PutSlot(j) => Queued' = Queued
         /\ \A j \in Jobs : Put(j, {}) =>
              Cardinality(Queued') = Cardinality(Queued) + 1
         /\ \A j, i \in Jobs : Put(j, {i}) => Cardinality(Queued') = Cardinality(Queued)
         /\ \A w \in Workers, j \in Jobs : Take(w, j) => Queued' = Queued
         /\ \A r \in Reserved : FromSlot(r) => Queued' = Queued
         /\ \A w \in Workers : Drop(w) =>
              Cardinality(Queued') = Cardinality(Queued) - 1
         /\ \A r \in Reserved : Drop(r) => Queued' = Queued
  <1>1. /\ slot \in [Reserved -> Jobs \cup {NoJob}] /\ NoJob \notin Jobs
        /\ own \in [Threads -> Jobs \cup {NoJob}] /\ Threads = Workers \cup Reserved
        /\ Workers \cap Reserved = {} /\ Queues \cap Reserved = {}
        /\ Live \subseteq Jobs
    BY JobsAssumption DEF TypeOK, Threads, Live
  <1>2. IsFiniteSet(Queued) /\ Cardinality(Queued) \in Nat
    BY CountsAreFinite
  <1>3. Same \/ (\E w \in Workers, j \in Jobs : Take(w, j)) \/ (\E r \in Reserved : FromSlot(r))
          => Queued' = Queued
    BY DEF Same, Take, FromSlot, Queued
  <1>4. ASSUME NEW j \in Jobs, PutSlot(j) PROVE Queued' = Queued
    <2>1. /\ target[j] \in Reserved /\ Live' = (Live \cup {j}) \ {slot[target[j]]}
      BY <1>4 DEF PutSlot
    <2>2. slot[target[j]] # NoJob => target[slot[target[j]]] \notin Queues
      BY <1>1, <2>1 DEF Owners
    <2> QED
      BY <1>1, <2>1, <2>2 DEF Queued
  <1>5. ASSUME NEW j \in Jobs, Put(j, {}) PROVE Cardinality(Queued') = Cardinality(Queued) + 1
    <2>1. j \notin Live /\ target[j] \in Queues /\ Live' = Live \cup {j}
      BY <1>5 DEF Put
    <2>2. Queued' = Queued \cup {j} /\ j \notin Queued
      BY <2>1 DEF Queued
    <2> QED
      BY <1>2, <2>2, FS_AddElement
  <1>6. ASSUME NEW j \in Jobs, NEW i \in Jobs, Put(j, {i})
        PROVE  Cardinality(Queued') = Cardinality(Queued)
    <2>1. /\ j \notin Live /\ target[j] \in Queues /\ i \in Linked[target[j]]
          /\ Live' = (Live \cup {j}) \ {i}
      BY <1>6 DEF Put
    <2>2. i \in Live /\ target[i] = target[j]
      BY <2>1 DEF Owners
    <2>3. /\ Queued' = (Queued \cup {j}) \ {i}
          /\ j \notin Queued /\ i \in Queued \cup {j}
      BY <2>1, <2>2 DEF Queued
    <2>4. /\ IsFiniteSet(Queued \cup {j})
          /\ Cardinality(Queued \cup {j}) = Cardinality(Queued) + 1
      BY <1>2, <2>3, FS_AddElement
    <2>5. Cardinality((Queued \cup {j}) \ {i}) = Cardinality(Queued \cup {j}) - 1
      BY <2>3, <2>4, FS_RemoveElement
    <2> QED
      BY <1>2, <2>3, <2>4, <2>5
  <1>7. ASSUME NEW w \in Workers, Drop(w)
        PROVE  Cardinality(Queued') = Cardinality(Queued) - 1
    <2>1. own[w] # NoJob /\ Live' = Live \ {own[w]}
      BY <1>7 DEF Drop
    <2>2. own[w] \in Live /\ target[own[w]] \in Queues
      BY <1>1, <2>1 DEF Owners
    <2>3. Queued' = Queued \ {own[w]} /\ own[w] \in Queued
      BY <2>1, <2>2 DEF Queued
    <2> QED
      BY <1>2, <2>3, FS_RemoveElement
  <1>8. ASSUME NEW r \in Reserved, Drop(r) PROVE Queued' = Queued
    <2>1. own[r] # NoJob /\ Live' = Live \ {own[r]}
      BY <1>8 DEF Drop
    <2>2. target[own[r]] \notin Queues
      BY <1>1, <2>1 DEF Owners
    <2> QED
      BY <2>1, <2>2 DEF Queued
  <1> QED
    BY <1>3, <1>4, <1>5, <1>6, <1>7, <1>8

\* How many callers are about to discard a job after a step.
LEMMA DiscardingCount ==
  ASSUME TypeOK, NEW c \in Callers, NEW x, call' = [call EXCEPT ![c] = x]
  PROVE  /\ call[c].do # "discard" /\ x.do # "discard" => Discarding' = Discarding
         /\ call[c].do # "discard" /\ x.do = "discard" =>
              Cardinality(Discarding') = Cardinality(Discarding) + 1
         /\ call[c].do = "discard" /\ x.do # "discard" =>
              Cardinality(Discarding') = Cardinality(Discarding) - 1
  <1>1. \A d \in Callers : call'[d] = IF d = c THEN x ELSE call[d]
    BY DEF TypeOK
  <1>2. IsFiniteSet(Discarding) /\ Cardinality(Discarding) \in Nat
    BY CountsAreFinite
  <1>3. ASSUME call[c].do # "discard", x.do # "discard" PROVE Discarding' = Discarding
    BY <1>1, <1>3 DEF Discarding
  <1>4. ASSUME call[c].do # "discard", x.do = "discard"
        PROVE  Cardinality(Discarding') = Cardinality(Discarding) + 1
    <2>1. Discarding' = Discarding \cup {c} /\ c \notin Discarding
      BY <1>1, <1>4 DEF Discarding
    <2> QED
      BY <1>2, <2>1, FS_AddElement
  <1>5. ASSUME call[c].do = "discard", x.do # "discard"
        PROVE  Cardinality(Discarding') = Cardinality(Discarding) - 1
    <2>1. Discarding' = Discarding \ {c} /\ c \in Discarding
      BY <1>1, <1>5 DEF Discarding
    <2> QED
      BY <1>2, <2>1, FS_RemoveElement
  <1> QED
    BY <1>3, <1>4, <1>5

LEMMA PendingStep ==
  ASSUME TypeOK, OwnersDiffer, LiveIsOwned, ThreadsHoldJobs, ProgressIsLive,
         PendingIsLive, target' = target, Next
  PROVE  PendingIsLive'
  <1>1. Owners(Linked, slot, own, Live) /\ Straight
    BY OwnersIs
  <1>2. /\ pending = Cardinality(Queued) + Cardinality(Discarding)
        /\ pending' = Cardinality(Queued') + Cardinality(Discarding') => PendingIsLive'
    BY DEF PendingIsLive, Queued, Discarding
  <1>3. Cardinality(Queued) \in Nat /\ Cardinality(Discarding) \in Nat
    BY CountsAreFinite
  <1>4. UNCHANGED call => Discarding' = Discarding
    BY DEF Discarding
  <1>5. ASSUME NEW c \in Callers, NEW j \in Jobs, Add(c, j) PROVE PendingIsLive'
    <2>1. call[c].do # "discard"
      BY <1>5 DEF Add, AddScheduled, AddQueuedAgain, AddOnTop, AddLast, AddReserved,
         CanAdd, Ready
    <2>2. CASE AddScheduled(c, j)
      <3> DEFINE x == [do |-> "discard", victim |-> j]
      <3>1. pending' = pending + 1 /\ call' = [call EXCEPT ![c] = x] /\ x.do = "discard"
        BY <2>2 DEF AddScheduled
      <3> HIDE DEF x
      <3>2. Cardinality(Discarding') = Cardinality(Discarding) + 1
        BY <2>1, <3>1, DiscardingCount
      <3>3. Queued' = Queued
        BY <1>1, <2>2, AddIs, QueuedCount
      <3> QED
        BY <1>2, <1>3, <3>1, <3>2, <3>3
    <2>3. ASSUME \E v \in Jobs \cup {NoJob} :
                   call' = [call EXCEPT ![c] = [do |-> "notify", victim |-> v]]
          PROVE  Discarding' = Discarding
      BY <2>1, <2>3, DiscardingCount
    <2>4. CASE AddQueuedAgain(c, j)
      <3>1. /\ UNCHANGED pending
            /\ call' = [call EXCEPT ![c] = [do |-> "notify", victim |-> j]]
        BY <2>4 DEF AddQueuedAgain
      <3>2. Queued' = Queued
        BY <1>1, <2>4, AddIs, QueuedCount
      <3> QED
        BY <1>2, <2>3, <3>1, <3>2
    <2>5. CASE AddOnTop(c, j)
      <3> DEFINE s == queues[SystemFg]
      <3>1. /\ pending' = pending + 1 - Cardinality(PushedOut(s))
            /\ call' = [call EXCEPT ![c] = [do |-> "notify", victim |-> NoJob]]
        BY <2>5 DEF AddOnTop
      <3>2. Put(j, PushedOut(s))
        BY <1>1, <2>5, AddIs
      <3>3. s \in Seq(Jobs)
        BY DEF TypeOK, SystemFg, Queues
      <3> HIDE DEF s
      <3>4. PushedOut(s) = {} \/ \E i \in Jobs : PushedOut(s) = {i}
        <4>1. CASE Len(s) < MaxJobs
          BY <4>1 DEF PushedOut
        <4>2. CASE ~(Len(s) < MaxJobs)
          <5>1. Len(s) \in 1 .. Len(s)
            BY <3>3, <4>2, JobsAssumption
          <5> QED
            BY <3>3, <4>2, <5>1 DEF PushedOut
        <4> QED
          BY <4>1, <4>2
      <3>5. CASE PushedOut(s) = {}
        <4>1. Cardinality(PushedOut(s)) = 0
          BY <3>5, FS_EmptySet
        <4>2. Cardinality(Queued') = Cardinality(Queued) + 1
          BY <1>1, <3>2, <3>5, QueuedCount
        <4>3. Discarding' = Discarding
          BY <2>3, <3>1
        <4>4. pending' = pending + 1
          BY <1>2, <1>3, <3>1, <4>1
        <4> QED
          BY <1>2, <1>3, <4>2, <4>3, <4>4
      <3>6. ASSUME NEW i \in Jobs, PushedOut(s) = {i} PROVE PendingIsLive'
        <4>1. Cardinality(PushedOut(s)) = 1
          BY <3>6, FS_Singleton
        <4>2. Cardinality(Queued') = Cardinality(Queued)
          BY <1>1, <3>2, <3>6, QueuedCount
        <4>3. Discarding' = Discarding
          BY <2>3, <3>1
        <4>4. pending' = pending
          BY <1>2, <1>3, <3>1, <4>1
        <4> QED
          BY <1>2, <1>3, <4>2, <4>3, <4>4
      <3> QED
        BY <3>4, <3>5, <3>6
    <2>6. CASE AddLast(c, j)
      <3>1. /\ pending' = pending + 1
            /\ call' = [call EXCEPT ![c] = [do |-> "notify", victim |-> NoJob]]
        BY <2>6 DEF AddLast
      <3>2. Cardinality(Queued') = Cardinality(Queued) + 1
        BY <1>1, <2>6, AddIs, QueuedCount
      <3>3. Discarding' = Discarding
        BY <2>3, <3>1
      <3> QED
        BY <1>2, <1>3, <3>1, <3>2, <3>3
    <2>7. CASE AddReserved(c, j)
      <3>1. /\ UNCHANGED pending
            /\ call' = [call EXCEPT ![c] = [do |-> "notify", victim |-> NoJob]]
        BY <2>7 DEF AddReserved, queueVars
      <3>2. Queued' = Queued
        BY <1>1, <2>7, AddIs, QueuedCount
      <3> QED
        BY <1>2, <2>3, <3>1, <3>2
    <2> QED
      BY <1>5, <2>2, <2>4, <2>5, <2>6, <2>7 DEF Add
  <1>6. ASSUME NEW t \in Threads, ThreadStep(t) PROVE PendingIsLive'
    <2>1. CASE \/ FindNothing(t) \/ Wait(t) \/ CheckState(t) \/ End(t) \/ Start(t)
               \/ Finish(t) \/ (t \in Workers /\ Leave(t))
      <3>1. UNCHANGED <<pending, call>>
        BY <2>1 DEF FindNothing, Wait, CheckState, End, Start, Finish, Leave, queueVars
      <3>2. Queued' = Queued
        BY <1>1, <2>1, ThreadIs, QueuedCount
      <3> QED
        BY <1>2, <1>4, <3>1, <3>2
    <2>2. CASE t \in Workers /\ Schedule(t)
      <3>1. UNCHANGED <<pending, call>>
        BY <2>2 DEF Schedule
      <3>2. Queued' = Queued
        BY <1>1, <2>2, ThreadIs, QueuedCount
      <3> QED
        BY <1>2, <1>4, <3>1, <3>2
    <2>3. CASE t \in Reserved /\ TakeSlot(t)
      <3>1. UNCHANGED <<pending, call>>
        BY <2>3 DEF TakeSlot, queueVars
      <3>2. Queued' = Queued
        BY <1>1, <2>3, ThreadIs, QueuedCount
      <3> QED
        BY <1>2, <1>4, <3>1, <3>2
    <2>4. CASE Free(t)
      <3>1. /\ UNCHANGED call
            /\ pending' = IF t \in Workers THEN pending - 1 ELSE pending
        BY <2>4 DEF Free
      <3>2. Drop(t)
        BY <1>1, <2>4, ThreadIs
      <3>3. CASE t \in Workers
        <4>1. Cardinality(Queued') = Cardinality(Queued) - 1
          BY <1>1, <3>2, <3>3, QueuedCount
        <4>2. pending' = pending - 1
          BY <3>1, <3>3
        <4> QED
          BY <1>2, <1>3, <1>4, <3>1, <4>1, <4>2
      <3>4. CASE t \notin Workers
        <4>1. t \in Reserved
          BY <3>4 DEF Threads
        <4>2. Queued' = Queued /\ pending' = pending
          BY <1>1, <3>1, <3>2, <3>4, <4>1, QueuedCount
        <4> QED
          BY <1>2, <1>4, <3>1, <4>2
      <3> QED
        BY <3>3, <3>4
    <2> QED
      BY <1>6, <2>1, <2>2, <2>3, <2>4 DEF ThreadStep
  <1>7. ASSUME NEW c \in Callers, Notify(c) PROVE PendingIsLive'
    <2>1. /\ UNCHANGED pending /\ call[c].do = "notify" /\ call[c] \in ToDo
          /\ call' = [call EXCEPT ![c] = IF call[c].victim = NoJob THEN Ready
                                         ELSE [call[c] EXCEPT !.do = "dispose"]]
      BY <1>7 DEF Notify, queueVars, TypeOK
    <2> DEFINE x == IF call[c].victim = NoJob THEN Ready
                    ELSE [call[c] EXCEPT !.do = "dispose"]
    <2>2. x.do # "discard"
      BY <2>1 DEF Ready, ToDo
    <2>3. call' = [call EXCEPT ![c] = x]
      BY <2>1
    <2> HIDE DEF x
    <2>4. Discarding' = Discarding
      BY <2>1, <2>2, <2>3, DiscardingCount
    <2>5. Queued' = Queued
      BY <1>1, <1>7, OtherIs, QueuedCount
    <2> QED
      BY <1>2, <2>1, <2>4, <2>5
  <1>8. ASSUME NEW c \in Callers, DisposeCopy(c) PROVE PendingIsLive'
    <2>1. /\ call[c].do \in {"discard", "dispose"}
          /\ pending' = IF call[c].do = "discard" THEN pending - 1 ELSE pending
          /\ call' = [call EXCEPT ![c] = Ready] /\ Ready.do # "discard"
      BY <1>8 DEF DisposeCopy, Ready
    <2>2. Queued' = Queued
      BY <1>1, <1>8, OtherIs, QueuedCount
    <2>3. CASE call[c].do = "discard"
      <3>1. Cardinality(Discarding') = Cardinality(Discarding) - 1
        BY <2>1, <2>3, DiscardingCount
      <3>2. pending' = pending - 1
        BY <2>1, <2>3
      <3> QED
        BY <1>2, <1>3, <2>2, <3>1, <3>2
    <2>4. CASE call[c].do # "discard"
      <3>1. Discarding' = Discarding
        BY <2>1, <2>4, DiscardingCount
      <3> QED
        BY <1>2, <2>1, <2>2, <2>4, <3>1
    <2> QED
      BY <2>3, <2>4
  <1>9. ASSUME (\E j \in Jobs : Cancel(j)) \/ Kick \/ KickerLoops \/ Quit \/ Shutdown
        PROVE  PendingIsLive'
    <2>1. UNCHANGED <<pending, call>>
      BY <1>9 DEF Cancel, Kick, KickerLoops, Quit, Shutdown, queueVars
    <2>2. Queued' = Queued
      BY <1>1, <1>9, OtherIs, QueuedCount
    <2> QED
      BY <1>2, <1>4, <2>1, <2>2
  <1> QED
    BY <1>5, <1>6, <1>7, <1>8, <1>9 DEF Next

-----------------------------------------------------------------------------
(* Copies.                                                                 *)

\* A worker that is about to free a job keeps it, and a job that is added has
\* no equal besides.
LEMMA CopiesKept ==
  ASSUME TypeOK, CopiesLeave, target' = target,
         \A w \in Workers : own[w] # NoJob /\ scheduled[w] = NoJob =>
           own'[w] = own[w] /\ scheduled'[w] = NoJob,
         NEW new, Live' \subseteq Live \cup {new},
         \A i \in Live : i # new /\ Equal(i, new) /\ target[i] = SystemFg =>
           \E w \in Workers : own[w] = i /\ scheduled[w] = NoJob
  PROVE  CopiesLeave'
  <1>1. Live \subseteq Jobs /\ NoJob \notin Jobs
    BY JobsAssumption DEF Live
  <1> SUFFICES ASSUME NEW i \in Live', NEW j \in Live', i # j,
                      Work[i] = Work[j], target[i] = target[j], target[i] = SystemFg
               PROVE  \E w \in Workers : own'[w] \in {i, j} /\ scheduled'[w] = NoJob
    BY DEF CopiesLeave, Equal
  <1>2. \E w \in Workers : /\ own[w] \in {i, j} /\ own[w] # NoJob
                           /\ scheduled[w] = NoJob
    <2>1. CASE i \in Live /\ j \in Live
      <3>1. Equal(i, j)
        BY DEF Equal
      <3>2. PICK w \in Workers : own[w] \in {i, j} /\ scheduled[w] = NoJob
        BY <2>1, <3>1 DEF CopiesLeave
      <3> QED
        BY <1>1, <2>1, <3>2
    <2>2. CASE i = new
      <3>1. j \in Live /\ j # new /\ Equal(j, new) /\ target[j] = SystemFg
        BY <2>2 DEF Equal
      <3> QED
        BY <1>1, <3>1
    <2>3. CASE j = new
      <3>1. i \in Live /\ i # new /\ Equal(i, new) /\ target[i] = SystemFg
        BY <2>3 DEF Equal
      <3> QED
        BY <1>1, <3>1
    <2> QED
      BY <2>1, <2>2, <2>3
  <1> QED
    BY <1>2

LEMMA CopiesStep ==
  ASSUME TypeOK, OwnersDiffer, LiveIsOwned, ThreadsHoldJobs, ProgressIsLive,
         CopiesLeave, target' = target, Next
  PROVE  CopiesLeave'
  <1>1. Owners(Linked, slot, own, Live) /\ Straight
    BY OwnersIs
  <1>2. /\ slot \in [Reserved -> Jobs \cup {NoJob}] /\ NoJob \notin Jobs
        /\ own \in [Threads -> Jobs \cup {NoJob}] /\ Threads = Workers \cup Reserved
        /\ scheduled \in [Workers -> Jobs \cup {NoJob}]
        /\ Workers \cap Reserved = {} /\ Queues \cap Reserved = {} /\ SystemFg \in Queues
        /\ Live \subseteq Jobs
    BY JobsAssumption DEF TypeOK, Threads, Live, SystemFg, Queues
  <1>3. ASSUME Live' \subseteq Live,
               \A w \in Workers : own[w] # NoJob /\ scheduled[w] = NoJob =>
                 own'[w] = own[w] /\ scheduled'[w] = NoJob
        PROVE  CopiesLeave'
    <2> SUFFICES ASSUME NEW i \in Live', NEW k \in Live', i # k, Equal(i, k)',
                        target'[i] = SystemFg
                 PROVE  \E w \in Workers : own'[w] \in {i, k} /\ scheduled'[w] = NoJob
      BY DEF CopiesLeave
    <2>1. i \in Live /\ k \in Live /\ Equal(i, k) /\ target[i] = SystemFg
      BY <1>3 DEF Equal
    <2>2. PICK w \in Workers : own[w] \in {i, k} /\ scheduled[w] = NoJob
      BY <2>1 DEF CopiesLeave
    <2> QED
      BY <1>2, <1>3, <2>1, <2>2
<1>4. ASSUME Same, UNCHANGED scheduled PROVE CopiesLeave'
    BY <1>3, <1>4 DEF Same
  <1>5. ASSUME NEW j \in Jobs, UNCHANGED <<own, scheduled>>, Live' \subseteq Live \cup {j},
               target[j] # SystemFg
        PROVE  CopiesLeave'
    <2>1. \A i \in Live : ~(Equal(i, j) /\ target[i] = SystemFg)
      BY <1>5 DEF Equal
    <2> QED
      BY <1>5, <2>1, CopiesKept
  <1>6. ASSUME NEW c \in Callers, NEW j \in Jobs, Add(c, j) PROVE CopiesLeave'
    <2>1. UNCHANGED scheduled
      BY <1>6 DEF Add, AddScheduled, AddQueuedAgain, AddOnTop, AddLast, AddReserved,
         queueVars
    <2>2. CASE AddScheduled(c, j) \/ AddQueuedAgain(c, j)
      BY <1>1, <1>4, <2>1, <2>2, AddIs
    <2>3. CASE AddOnTop(c, j)
      <3>1. /\ target[j] = SystemFg /\ ScheduledCopies(j) = {} /\ QueuedCopies(j) = {}
        BY <2>3 DEF AddOnTop
      <3>2. UNCHANGED own /\ Live' \subseteq Live \cup {j}
        BY <1>1, <2>3, AddIs DEF Put
      <3>3. ASSUME NEW i \in Live, i # j, Equal(i, j), target[i] = SystemFg
            PROVE  \E w \in Workers : own[w] = i /\ scheduled[w] = NoJob
        <4>1. Equal(j, i)
          BY <3>3 DEF Equal
        <4>2. ~ \E q \in Queues : i \in Linked[q]
          <5>1. SUFFICES ASSUME NEW q \in Queues, i \in Linked[q] PROVE FALSE
            OBVIOUS
          <5>2. q = SystemFg /\ i \in Range(queues[SystemFg])
                /\ queues[SystemFg] \in Seq(Jobs)
            BY <1>1, <1>2, <3>3, <5>1 DEF Owners, Linked, Links, TypeOK
          <5>3. PICK k \in 1 .. Len(queues[SystemFg]) : queues[SystemFg][k] = i
            BY <5>2, RangeIs
          <5>4. k \in QueuedCopies(j)
            BY <3>1, <4>1, <5>3 DEF QueuedCopies
          <5> QED
            BY <3>1, <5>4
        <4>3. \A r \in Reserved : slot[r] # i /\ own[r] # i
          BY <1>1, <1>2, <3>3 DEF Owners
        <4>4. PICK t \in Threads : own[t] = i
          BY <1>1, <1>2, <4>2, <4>3 DEF Owners
        <4>5. t \in Workers
          BY <1>2, <4>3, <4>4
        <4>6. scheduled[t] = own[t] \/ scheduled[t] = NoJob
          BY <4>5 DEF ThreadsHoldJobs
        <4>7. scheduled[t] # own[t]
          <5>1. SUFFICES ASSUME scheduled[t] = i PROVE FALSE
            BY <4>4
          <5>2. t \in ScheduledCopies(j)
            BY <1>2, <3>3, <4>1, <4>5, <5>1 DEF ScheduledCopies
          <5> QED
            BY <3>1, <5>2
        <4> QED
          BY <4>4, <4>5, <4>6, <4>7
      <3> QED
        BY <2>1, <3>2, <3>3, CopiesKept
    <2>4. CASE AddLast(c, j)
      <3>1. target[j] # SystemFg
        BY <2>4 DEF AddLast
      <3>2. UNCHANGED own /\ Live' \subseteq Live \cup {j}
        BY <1>1, <2>4, AddIs DEF Put
      <3> QED
        BY <1>5, <2>1, <3>1, <3>2
    <2>5. CASE AddReserved(c, j)
      <3>1. UNCHANGED own /\ Live' \subseteq Live \cup {j} /\ target[j] \in Reserved
        BY <1>1, <2>5, AddIs DEF PutSlot
      <3> QED
        BY <1>2, <1>5, <2>1, <3>1
    <2> QED
      BY <1>6, <2>2, <2>3, <2>4, <2>5 DEF Add
  <1>7. ASSUME NEW t \in Threads, ThreadStep(t) PROVE CopiesLeave'
    <2>1. CASE \/ FindNothing(t) \/ Wait(t) \/ CheckState(t) \/ End(t) \/ Start(t)
               \/ Finish(t)
      <3>1. UNCHANGED scheduled
        BY <2>1 DEF FindNothing, Wait, CheckState, End, Start, Finish, queueVars
      <3> QED
        BY <1>1, <1>4, <2>1, <3>1, ThreadIs
    <2>2. CASE t \in Workers /\ Leave(t)
      <3>1. scheduled' = [scheduled EXCEPT ![t] = NoJob]
        BY <2>2 DEF Leave
      <3>2. Same
        BY <1>1, <2>2, ThreadIs
      <3> QED
        BY <1>2, <1>3, <3>1, <3>2 DEF Same
    <2>3. CASE t \in Workers /\ Schedule(t)
      <3>1. \E x : scheduled' = [scheduled EXCEPT ![t] = x]
        BY <2>3 DEF Schedule
      <3>2. own[t] = NoJob /\ (\E x : own' = [own EXCEPT ![t] = x]) /\ Live' = Live
        BY <1>1, <2>3, ThreadIs DEF Take
      <3> QED
        BY <1>2, <1>3, <3>1, <3>2
    <2>4. CASE t \in Reserved /\ TakeSlot(t)
      <3>1. UNCHANGED scheduled
        BY <2>4 DEF TakeSlot, queueVars
      <3>2. (\E x : own' = [own EXCEPT ![t] = x]) /\ Live' = Live
        BY <1>1, <2>4, ThreadIs DEF FromSlot
      <3> QED
        BY <1>2, <1>3, <2>4, <3>1, <3>2
    <2>5. CASE Free(t)
      <3>1. UNCHANGED scheduled
        BY <2>5 DEF Free
      <3>2. /\ own' = [own EXCEPT ![t] = NoJob] /\ Live' = Live \ {own[t]}
        BY <1>1, <2>5, ThreadIs DEF Drop
      <3> SUFFICES ASSUME NEW i \in Live', NEW k \in Live', i # k, Equal(i, k)',
                          target'[i] = SystemFg
                   PROVE  \E w \in Workers : own'[w] \in {i, k} /\ scheduled'[w] = NoJob
        BY DEF CopiesLeave
      <3>3. i \in Live /\ k \in Live /\ Equal(i, k) /\ target[i] = SystemFg
            /\ own[t] \notin {i, k}
        BY <3>2 DEF Equal
      <3>4. PICK w \in Workers : own[w] \in {i, k} /\ scheduled[w] = NoJob
        BY <3>3 DEF CopiesLeave
      <3>5. w # t
        BY <3>3, <3>4
      <3> QED
        BY <1>2, <3>1, <3>2, <3>4, <3>5
    <2> QED
      BY <1>7, <2>1, <2>2, <2>3, <2>4, <2>5 DEF ThreadStep
  <1>8. ASSUME \/ \E c \in Callers : Notify(c) \/ DisposeCopy(c)
               \/ \E j \in Jobs : Cancel(j)
               \/ Kick \/ KickerLoops \/ Quit \/ Shutdown
        PROVE  CopiesLeave'
    <2>1. UNCHANGED scheduled
      BY <1>8 DEF Notify, DisposeCopy, Cancel, Kick, KickerLoops, Quit, Shutdown, queueVars
    <2> QED
      BY <1>1, <1>4, <1>8, <2>1, OtherIs
  <1> QED
    BY <1>6, <1>7, <1>8 DEF Next

\* One export at a time (jobs.h: "only one of these jobs will ever be scheduled
\* at a time").
LEMMA ExportStep ==
  ASSUME TypeOK, OwnersDiffer, LiveIsOwned, ThreadsHoldJobs, OneExport,
         target' = target, Next
  PROVE  OneExport'
  <1>1. /\ scheduled \in [Workers -> Jobs \cup {NoJob}] /\ NoJob \notin Jobs
        /\ Workers \subseteq Threads /\ UserExport \in Queues
    BY JobsAssumption DEF TypeOK, Threads, UserExport, Queues
  <1>2. UNCHANGED <<exportScheduled, scheduled>> => OneExport'
    BY DEF OneExport, HasExport
  <1>3. ASSUME NEW w \in Workers, Schedule(w) PROVE OneExport'
    <2>1. PICK q \in Queues :
            /\ queues[q] # <<>> /\ ~(exportScheduled /\ q = UserExport)
            /\ exportScheduled' = (exportScheduled \/ q = UserExport)
            /\ scheduled' = [scheduled EXCEPT ![w] = Head(queues[q])]
      BY <1>3 DEF Schedule, Wins, Open
    <2>2. scheduled[w] = NoJob
      BY <1>3 DEF Schedule, ThreadsHoldJobs, Taking
    <2>3. queues[q] \in Seq(Jobs) /\ IsInjective(queues[q])
      BY DEF TypeOK, OwnersDiffer
    <2>4. Head(queues[q]) \in Jobs /\ target[Head(queues[q])] = q
      BY <2>1, <2>3, TailLinks DEF OwnersDiffer, Links
    <2> DEFINE j == Head(queues[q])
    <2>5. \A v \in Workers : scheduled'[v] = IF v = w THEN j ELSE scheduled[v]
      BY <1>1, <2>1
    <2>6. j # NoJob /\ target[j] = q
      BY <1>1, <2>4
    <2> HIDE DEF j
    <2>7. \A v \in Workers : HasExport(v)' <=> IF v = w THEN q = UserExport
                                               ELSE HasExport(v)
      BY <2>5, <2>6 DEF HasExport
    <2>8. ~HasExport(w) /\ (q = UserExport => ~exportScheduled)
      BY <2>1, <2>2 DEF HasExport
    <2>9. exportScheduled' <=> \E v \in Workers : HasExport(v)'
      BY <2>1, <2>7, <2>8 DEF OneExport
    <2>10. \A u, v \in Workers : HasExport(u)' /\ HasExport(v)' => u = v
      BY <2>7, <2>8 DEF OneExport
    <2> QED
      BY <2>9, <2>10 DEF OneExport
  <1>4. ASSUME NEW w \in Workers, Leave(w) PROVE OneExport'
    <2>1. /\ scheduled' = [scheduled EXCEPT ![w] = NoJob]
          /\ exportScheduled' = (exportScheduled /\ target[own[w]] # UserExport)
      BY <1>4 DEF Leave
    <2>2. own[w] # NoJob /\ scheduled[w] = own[w]
      BY <1>1, <1>4 DEF Leave, ThreadsHoldJobs, Taking
    <2>3. \A v \in Workers : scheduled'[v] = IF v = w THEN NoJob ELSE scheduled[v]
      BY <1>1, <2>1
    <2>4. \A v \in Workers : HasExport(v)' <=> v # w /\ HasExport(v)
      BY <2>3 DEF HasExport
    <2>5. HasExport(w) <=> target[own[w]] = UserExport
      BY <2>2 DEF HasExport
    <2>6. exportScheduled' <=> \E v \in Workers : HasExport(v)'
      BY <2>1, <2>4, <2>5 DEF OneExport
    <2>7. \A u, v \in Workers : HasExport(u)' /\ HasExport(v)' => u = v
      BY <2>4 DEF OneExport
    <2> QED
      BY <2>6, <2>7 DEF OneExport
  <1>5. ASSUME NEW t \in Threads, ThreadStep(t) PROVE OneExport'
    BY <1>2, <1>3, <1>4, <1>5 DEF ThreadStep, FindNothing, Wait, CheckState, End, Start,
       Finish, Free, TakeSlot, queueVars
  <1>6. ASSUME NEW c \in Callers, NEW j \in Jobs, Add(c, j) PROVE OneExport'
    BY <1>2, <1>6 DEF Add, AddScheduled, AddQueuedAgain, AddOnTop, AddLast, AddReserved,
       queueVars
  <1>7. ASSUME \/ \E c \in Callers : Notify(c) \/ DisposeCopy(c)
               \/ \E j \in Jobs : Cancel(j)
               \/ Kick \/ KickerLoops \/ Quit \/ Shutdown
        PROVE  OneExport'
    BY <1>2, <1>7 DEF Notify, DisposeCopy, Cancel, Kick, KickerLoops, Quit, Shutdown, queueVars
  <1> QED
    BY <1>5, <1>6, <1>7 DEF Next

-----------------------------------------------------------------------------
(* The inductive invariant.                                                *)

LEMMA InitIInv == Init => IInv
  <1> SUFFICES ASSUME Init PROVE IInv
    OBVIOUS
  <1>1. /\ queues = [q \in Queues |-> <<>>] /\ slot = [r \in Reserved |-> NoJob]
        /\ own = [t \in Threads |-> NoJob] /\ scheduled = [w \in Workers |-> NoJob]
        /\ jstate = [j \in Jobs |-> "none"] /\ progress = {} /\ pending = 0
        /\ pc = [t \in Threads |-> IF t \in Crew[target] THEN "loop" ELSE "ended"]
        /\ call = [c \in Callers |-> Ready] /\ ~exportScheduled
    BY DEF Init
  <1>2. NoJob \notin Jobs /\ Workers \subseteq Threads /\ Reserved \subseteq Threads
    BY JobsAssumption DEF Threads
  <1>3. \A q \in Queues : queues[q] = <<>> /\ Links(q) = {} /\ IsInjective(queues[q])
    BY <1>1 DEF Links, Range, IsInjective
  <1>4. TypeOK
    <2>1. /\ target \in Targets /\ running = "RUNNING" /\ kicker = "asleep" /\ missed = {}
          /\ priority = [j \in Jobs |-> 0] /\ cancelled = {}
          /\ exportScheduled = FALSE
      BY DEF Init
    <2>2. 0 \in 0 .. PriorityRange - 1 /\ Ready \in ToDo
      BY JobsAssumption DEF Ready, ToDo
    <2>3. queues \in [Queues -> Seq(Jobs)] /\ pending \in Int
      BY <1>1
    <2>4. priority \in [Jobs -> 0 .. PriorityRange - 1] /\ call \in [Callers -> ToDo]
      BY <1>1, <2>1, <2>2
    <2>5. pc \in [Threads -> {"loop", "idle", "waiting", "taken", "start",
                              "executing", "leave", "dispose", "ended"}]
      BY <1>1
    <2> QED
      BY <1>1, <2>1, <2>3, <2>4, <2>5 DEF TypeOK, JobState
  <1>5. ThreadsHoldJobs
    BY <1>1, <1>2 DEF ThreadsHoldJobs, Taking
  <1>6. OwnersDiffer
    BY <1>1, <1>2, <1>3 DEF OwnersDiffer
  <1>7. Live = {}
    BY <1>1 DEF Live
  <1>8. LiveIsOwned
    BY <1>1, <1>2, <1>3, <1>7 DEF LiveIsOwned
  <1>9. PendingIsLive
    <2>1. Queued = {} /\ Discarding = {}
      BY <1>1, <1>7 DEF Queued, Discarding, Ready
    <2>2. Cardinality(Queued) = 0 /\ Cardinality(Discarding) = 0
      BY <2>1, FS_EmptySet
    <2>3. pending = Cardinality(Queued) + Cardinality(Discarding)
      BY <1>1, <2>2
    <2> QED
      BY <2>3 DEF PendingIsLive, Queued, Discarding
  <1>10. ProgressIsLive /\ CopiesLeave /\ OneExport
    BY <1>1, <1>7 DEF ProgressIsLive, CopiesLeave, OneExport, HasExport
  <1> QED
    BY <1>4, <1>5, <1>6, <1>8, <1>9, <1>10 DEF IInv

LEMMA InvariantStep == IInv /\ [Next]_vars => IInv'
  <1> SUFFICES ASSUME IInv, [Next]_vars PROVE IInv'
    OBVIOUS
  <1>1. /\ TypeOK /\ ThreadsHoldJobs /\ OwnersDiffer /\ LiveIsOwned /\ ProgressIsLive
        /\ PendingIsLive /\ CopiesLeave /\ OneExport
    BY DEF IInv
  <1>2. CASE Next
    <2>1. TypeOK' /\ ThreadsHoldJobs'
      BY <1>1, <1>2, TypeStep, ThreadsHoldStep
    <2>2. OwnersDiffer' /\ LiveIsOwned' /\ ProgressIsLive' /\ target' = target
      BY <1>1, <1>2, <2>1, OwnersStep
    <2>3. PendingIsLive' /\ CopiesLeave' /\ OneExport'
      BY <1>1, <1>2, <2>2, PendingStep, CopiesStep, ExportStep
    <2> QED
      BY <2>1, <2>2, <2>3 DEF IInv
  <1>3. CASE UNCHANGED vars
    <2>1. UNCHANGED <<target, running, queues, pending, exportScheduled, scheduled,
                      slot, jstate, priority, progress, own, pc, kicker, missed, call,
                      cancelled>>
      BY <1>3 DEF vars
    <2>2. TypeOK' /\ ThreadsHoldJobs'
      BY <1>1, <2>1 DEF TypeOK, ThreadsHoldJobs
    <2>3. Live' = Live /\ \A q : Links(q)' = Links(q)
      BY <2>1 DEF Live, Links
    <2>4. OwnersDiffer' /\ LiveIsOwned' /\ ProgressIsLive'
      BY <1>1, <2>1, <2>3 DEF OwnersDiffer, LiveIsOwned, ProgressIsLive
    <2>5. PendingIsLive' /\ CopiesLeave' /\ OneExport'
      BY <1>1, <2>1, <2>3 DEF PendingIsLive, CopiesLeave, Equal, OneExport, HasExport
    <2> QED
      BY <2>2, <2>4, <2>5 DEF IInv
  <1> QED
    BY <1>2, <1>3

\* The inductive invariant of the job control (control/jobs.c).
THEOREM InductiveInvariant == Spec => []IInv
  <1> QED
    BY InitIInv, InvariantStep, PTL DEF Spec

\* All variables of the job control keep their types.
THEOREM TypeCorrect == Spec => []TypeOK
  <1>1. IInv => TypeOK
    BY DEF IInv
  <1> QED
    BY <1>1, InductiveInvariant, PTL

-----------------------------------------------------------------------------
(* What follows from it.                                                   *)

\* A set with at most one member is counted as 0 or 1.
LEMMA AtMostOne ==
  ASSUME NEW S, \A x, y \in S : x = y
  PROVE  Cardinality(S) = IF S = {} THEN 0 ELSE 1
  <1>1. CASE S = {}
    BY <1>1, FS_EmptySet
  <1>2. CASE S # {}
    <2>1. PICK x \in S : TRUE
      BY <1>2
    <2>2. S = {x}
      BY <2>1
    <2> QED
      BY <1>2, <2>2, FS_Singleton
  <1> QED
    BY <1>1, <1>2

\* The links to a job are those of the queues that lead to it.
LEMMA PlacesAre ==
  ASSUME TypeOK, NEW j \in Jobs
  PROVE  /\ \A x : x \in Places(j) <=>
              \E q \in Queues : \E i \in 1 .. Len(queues[q]) :
                x = <<q, i>> /\ queues[q][i] = j
         /\ Places(j) # {} <=> \E q \in Queues : j \in Links(q)
  <1>1. \A q \in Queues : queues[q] \in Seq(Jobs) /\ DOMAIN queues[q] = 1 .. Len(queues[q])
    BY DEF TypeOK
  <1>2. \A x : x \in Places(j) <=>
          \E q \in Queues : \E i \in 1 .. Len(queues[q]) :
                x = <<q, i>> /\ queues[q][i] = j
    BY <1>1 DEF Places
  <1>3. \A q \in Queues : j \in Links(q) <=> \E i \in 1 .. Len(queues[q]) : queues[q][i] = j
    BY <1>1, RangeIs DEF Links
  <1> QED
    BY <1>2, <1>3

\* No job object is leaked, freed twice or used after it was freed
\* (dt_control_job_dispose, from the queues, the slots and the threads).
THEOREM OwnersAreUnique == Spec => []OneOwner
  <1>1. ASSUME IInv PROVE OneOwner
    <2>1. TypeOK /\ OwnersDiffer /\ LiveIsOwned
      BY <1>1 DEF IInv
    <2>2. /\ slot \in [Reserved -> Jobs \cup {NoJob}] /\ NoJob \notin Jobs
          /\ own \in [Threads -> Jobs \cup {NoJob}] /\ Threads = Workers \cup Reserved
          /\ Workers \cap Reserved = {} /\ Queues \cap Reserved = {}
      BY <2>1, JobsAssumption DEF TypeOK, Threads
    <2> SUFFICES ASSUME NEW j \in Jobs
                 PROVE  Cardinality(Places(j)) + Cardinality({r \in Reserved : slot[r] = j})
                          + Cardinality({t \in Threads : own[t] = j})
                        = IF jstate[j] = "none" THEN 0 ELSE 1
      BY DEF OneOwner
    <2> DEFINE slots == {r \in Reserved : slot[r] = j}
               threads == {t \in Threads : own[t] = j}
    <2>3. \A x, y \in Places(j) : x = y
      <3> SUFFICES ASSUME NEW x \in Places(j), NEW y \in Places(j) PROVE x = y
        OBVIOUS
      <3>a. PICK q \in Queues : \E i \in 1 .. Len(queues[q]) : x = <<q, i>> /\ queues[q][i] = j
        BY <2>1, PlacesAre
      <3>1. PICK i \in 1 .. Len(queues[q]) : x = <<q, i>> /\ queues[q][i] = j
        BY <3>a
      <3>b. PICK p \in Queues : \E k \in 1 .. Len(queues[p]) : y = <<p, k>> /\ queues[p][k] = j
        BY <2>1, PlacesAre
      <3>2. PICK k \in 1 .. Len(queues[p]) : y = <<p, k>> /\ queues[p][k] = j
        BY <3>b
      <3>3. queues[q] \in Seq(Jobs) /\ queues[p] \in Seq(Jobs) /\ IsInjective(queues[q])
        BY <2>1 DEF TypeOK, OwnersDiffer
      <3>4. j \in Links(q) /\ j \in Links(p)
        BY <3>1, <3>2, <3>3, RangeIs DEF Links
      <3>5. p = q
        BY <2>1, <3>4 DEF OwnersDiffer
      <3>6. i = k
        BY <3>1, <3>2, <3>3, <3>5, RangeIs
      <3> QED
        BY <3>1, <3>2, <3>5, <3>6
    <2>4. \A x, y \in slots : x = y
      BY <2>1, <2>2 DEF OwnersDiffer
    <2>5. \A x, y \in threads : x = y
      BY <2>1, <2>2 DEF OwnersDiffer
    <2>6. /\ Places(j) # {} => slots = {} /\ threads = {}
          /\ slots # {} => threads = {}
      <3>1. Places(j) # {} => target[j] \in Queues /\ j \in Links(target[j])
        BY <2>1, PlacesAre DEF OwnersDiffer
      <3>2. \A r \in Reserved : slot[r] = j => target[j] = r
        BY <2>1, <2>2 DEF OwnersDiffer
      <3>3. \A w \in Workers : own[w] = j => target[j] \in Queues /\ j \notin Links(target[j])
        BY <2>1, <2>2 DEF OwnersDiffer
      <3>4. \A r \in Reserved : own[r] = j => target[j] = r /\ slot[r] # j
        BY <2>1, <2>2 DEF OwnersDiffer
      <3> QED
        BY <2>2, <3>1, <3>2, <3>3, <3>4
    <2>7. jstate[j] # "none" <=> (Places(j) # {} \/ slots # {} \/ threads # {})
      <3>1. jstate[j] # "none" <=> j \in Live
        BY DEF Live
      <3> QED
        BY <2>1, <3>1, PlacesAre DEF LiveIsOwned
    <2>8. /\ Cardinality(Places(j)) = IF Places(j) = {} THEN 0 ELSE 1
          /\ Cardinality(slots) = IF slots = {} THEN 0 ELSE 1
          /\ Cardinality(threads) = IF threads = {} THEN 0 ELSE 1
      BY <2>3, <2>4, <2>5, AtMostOne
    <2> HIDE DEF slots, threads
    <2> QED
      BY <2>6, <2>7, <2>8 DEF slots, threads
  <1> QED
    BY <1>1, InductiveInvariant, PTL

\* dt_control_jobs_pending is right whenever the quit dialog asks.
THEOREM PendingExact == Spec => []PendingIsExact
  <1>1. ASSUME IInv PROVE PendingIsExact
    <2>1. TypeOK /\ OwnersDiffer /\ LiveIsOwned /\ PendingIsLive
      BY <1>1 DEF IInv
    <2>2. /\ slot \in [Reserved -> Jobs \cup {NoJob}] /\ NoJob \notin Jobs
          /\ own \in [Threads -> Jobs \cup {NoJob}] /\ Threads = Workers \cup Reserved
          /\ Workers \cap Reserved = {} /\ Queues \cap Reserved = {}
      BY <2>1, JobsAssumption DEF TypeOK, Threads
    <2>3. ASSUME NEW j \in Jobs
          PROVE  (j \in Live /\ target[j] \in Queues)
                   <=> (Places(j) # {} \/ \E w \in Workers : own[w] = j)
      <3>1. \A q \in Queues : j \in Links(q) => target[j] = q
        BY <2>1 DEF OwnersDiffer
      <3>2. \A r \in Reserved : slot[r] = j \/ own[r] = j => target[j] = r
        BY <2>1, <2>2 DEF OwnersDiffer
      <3>3. \A w \in Workers : own[w] = j => target[j] \in Queues
        BY <2>1, <2>2 DEF OwnersDiffer
      <3>4. Places(j) # {} <=> \E q \in Queues : j \in Links(q)
        BY <2>1, PlacesAre
      <3> QED
        BY <2>1, <2>2, <3>1, <3>2, <3>3, <3>4 DEF LiveIsOwned
    <2>4. \A j : j \in Counted <=> \/ j \in Jobs /\ Places(j) # {}
                                   \/ \E w \in Workers : own[w] = j /\ j # NoJob
      BY DEF Counted
    <2>5. Counted = {j \in Live : target[j] \in Queues}
      <3>1. Live \subseteq Jobs
        BY DEF Live
      <3>2. \A w \in Workers : own[w] # NoJob => own[w] \in Jobs
        BY <2>2
      <3> QED
        BY <2>2, <2>3, <2>4, <3>1, <3>2
    <2> QED
      BY <2>1, <2>5 DEF PendingIsLive, PendingIsExact
  <1> QED
    BY <1>1, InductiveInvariant, PTL

\* There is no further copy of a thumbnail job, and one export at a time
\* (dt_control_add_job, _control_schedule_job).
THEOREM NoCopies == Spec => []NoSecondCopy
  <1>1. ASSUME IInv PROVE NoSecondCopy
    <2>1. TypeOK /\ CopiesLeave /\ OneExport
      BY <1>1 DEF IInv
    <2>2. \A i, j \in Jobs :
            (/\ i # j /\ Equal(i, j) /\ target[i] = SystemFg
             /\ jstate[i] # "none" /\ jstate[j] # "none")
            => \E w \in Workers : own[w] \in {i, j} /\ scheduled[w] = NoJob
      BY <2>1 DEF CopiesLeave, Live
    <2> DEFINE exports == {w \in Workers : HasExport(w)}
    <2>3. \A v, w \in exports : v = w
      BY <2>1 DEF OneExport
    <2>4. exports # {} <=> exportScheduled
      BY <2>1 DEF OneExport
    <2>5. Cardinality(exports) = IF exportScheduled THEN 1 ELSE 0
      BY <2>3, <2>4, AtMostOne
    <2> QED
      BY <2>2, <2>5 DEF NoSecondCopy, HasExport
  <1> QED
    BY <1>1, InductiveInvariant, PTL

=============================================================================
