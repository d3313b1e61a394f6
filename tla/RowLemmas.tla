------------------------------- MODULE RowLemmas -------------------------------
(***************************************************************************)
(* What the operations on the rows of a list do to the set of texts shown, *)
(* and what index sets, which tell two lists of rows apart, say of them:   *)
(* the ranks that unshift and shift count, the rows two lists share, where *)
(* insertions, removals and moves take the indices.                        *)
(***************************************************************************)
EXTENDS IndexSets, SequencesExt, FiniteSetsExt, TLAPS, FiniteSetTheorems, SequenceTheorems,
        WellFoundedInduction

\* An arrangement of a finite set shows each of its elements once.
LEMMA ArrangementFacts ==
    ASSUME NEW S, IsFiniteSet(S), NEW rows \in SetToSeqs(S)
    PROVE  /\ rows \in Seq(S)
           /\ ToSet(rows) = S
           /\ IsInjective(rows)
<1> DEFINE n == Cardinality(S)
<1>1. n \in Nat
  BY FS_CardinalityType
<1>2. /\ rows \in [1..n -> S]
      /\ \A i, j \in 1..n : i # j => rows[i] # rows[j]
  BY DEF SetToSeqs
<1>3. rows \in Injection(1..n, S)
  BY <1>2 DEF Injection, IsInjective
<1>4. Cardinality(1..n) = n
  BY <1>1, FS_Interval
<1>5. rows \in Surjection(1..n, S)
  BY <1>3, <1>4, FS_Injection
<1>6. ToSet(rows) = S
  BY <1>2, <1>5 DEF Surjection, ToSet
<1>7. rows \in Seq(S)
  BY <1>1, <1>2
<1>8. IsInjective(rows)
  BY <1>2 DEF IsInjective
<1> QED
  BY <1>6, <1>7, <1>8

\* Removing a row moves the rows below it up.
LEMMA RemoveAtRows ==
    ASSUME NEW T, NEW rows \in Seq(T), NEW i \in DOMAIN rows
    PROVE  /\ RemoveAt(rows, i) \in Seq(T)
           /\ Len(RemoveAt(rows, i)) = Len(rows) - 1
           /\ \A j \in 1..(Len(rows) - 1) :
                RemoveAt(rows, i)[j] = IF j < i THEN rows[j] ELSE rows[j + 1]
<1> DEFINE n == Len(rows)
           front == SubSeq(rows, 1, i - 1)
           back == SubSeq(rows, i + 1, n)
           less == RemoveAt(rows, i)
<1>1. /\ n \in Nat
      /\ DOMAIN rows = 1..n
      /\ i \in 1..n
  BY LenProperties
<1>2. \A j \in 1..n : rows[j] \in T
  BY ElementOfSeq
<1>3. /\ front \in Seq(T)
      /\ Len(front) = i - 1
      /\ \A j \in 1..(i - 1) : front[j] = rows[j]
  <2>1. \A j \in 1..(i - 1) : rows[j] \in T
    BY <1>1, <1>2
  <2>2. 1 \in Int /\ i - 1 \in Int
    BY <1>1
  <2>3. /\ front \in Seq(T)
        /\ Len(front) = IF 1 <= i - 1 THEN (i - 1) - 1 + 1 ELSE 0
        /\ \A j \in 1..((i - 1) - 1 + 1) : front[j] = rows[1 + j - 1]
    BY <2>1, <2>2, SubSeqProperties
  <2> QED
    BY <1>1, <2>3
<1>4. /\ back \in Seq(T)
      /\ Len(back) = n - i
      /\ \A j \in 1..(n - i) : back[j] = rows[i + j]
  <2>1. \A j \in (i + 1)..n : rows[j] \in T
    BY <1>1, <1>2
  <2>2. i + 1 \in Int /\ n \in Int
    BY <1>1
  <2> HIDE DEF n
  <2>3. /\ back \in Seq(T)
        /\ Len(back) = IF i + 1 <= n THEN n - (i + 1) + 1 ELSE 0
        /\ \A j \in 1..(n - (i + 1) + 1) : back[j] = rows[(i + 1) + j - 1]
    BY <2>1, <2>2, SubSeqProperties
  <2> QED
    BY <1>1, <2>3
<1> HIDE DEF front, back
<1>5. less = front \o back
  BY DEF RemoveAt, front, back
<1> HIDE DEF less
<1>6. /\ less \in Seq(T)
      /\ Len(less) = n - 1
      /\ \A j \in 1..(n - 1) : less[j] = IF j < i THEN rows[j] ELSE rows[j + 1]
  <2>1. /\ less \in Seq(T)
        /\ Len(less) = Len(front) + Len(back)
        /\ \A j \in 1..(Len(front) + Len(back)) :
              less[j] = IF j <= Len(front) THEN front[j] ELSE back[j - Len(front)]
    BY <1>3, <1>4, <1>5, ConcatProperties
  <2> HIDE DEF n
  <2>2. Len(less) = n - 1
    BY <1>1, <1>3, <1>4, <2>1
  <2>3. ASSUME NEW j \in 1..(n - 1)
        PROVE  less[j] = IF j < i THEN rows[j] ELSE rows[j + 1]
    <3>1. less[j] = IF j <= i - 1 THEN front[j] ELSE back[j - (i - 1)]
      BY <1>1, <1>3, <1>4, <2>1
    <3>2. CASE j < i
      BY <1>1, <1>3, <3>1, <3>2
    <3>3. CASE ~(j < i)
      <4>1. /\ j - (i - 1) \in 1..(n - i)
            /\ i + (j - (i - 1)) = j + 1
        BY <1>1, <3>3
      <4>2. back[j - (i - 1)] = rows[j + 1]
        BY <1>4, <4>1
      <4> QED
        BY <1>1, <3>1, <3>3, <4>2
    <3> QED
      BY <3>2, <3>3
  <2> QED
    BY <2>1, <2>2, <2>3
<1> QED
  BY <1>6 DEF less

\* Removing a row takes its text away, and from a list without repetitions no
\* row shows it any more.
LEMMA RemoveAtFacts ==
    ASSUME NEW T, NEW rows \in Seq(T), NEW i \in DOMAIN rows
    PROVE  /\ RemoveAt(rows, i) \in Seq(T)
           /\ rows[i] \in T
           /\ ToSet(rows) = ToSet(RemoveAt(rows, i)) \cup {rows[i]}
           /\ IsInjective(rows) =>
                /\ ToSet(RemoveAt(rows, i)) = ToSet(rows) \ {rows[i]}
                /\ IsInjective(RemoveAt(rows, i))
<1> DEFINE n == Len(rows)
           less == RemoveAt(rows, i)
<1>1. /\ n \in Nat
      /\ DOMAIN rows = 1..n
      /\ i \in 1..n
      /\ rows[i] \in T
  BY LenProperties, ElementOfSeq
<1>6. /\ less \in Seq(T)
      /\ Len(less) = n - 1
      /\ \A j \in 1..(n - 1) : less[j] = IF j < i THEN rows[j] ELSE rows[j + 1]
  BY RemoveAtRows
<1> HIDE DEF less
<1>7. DOMAIN less = 1..(n - 1)
  BY <1>6, LenProperties
<1>8. ASSUME IsInjective(rows)
      PROVE  ToSet(less) = ToSet(rows) \ {rows[i]} /\ IsInjective(less)
  <2>1. \A j, k \in 1..n : rows[j] = rows[k] => j = k
    BY <1>1, <1>8 DEF IsInjective
  <2>2. IsInjective(less)
    BY <1>1, <1>6, <1>7, <2>1 DEF IsInjective
  <2>3. ASSUME NEW j \in 1..(n - 1)
        PROVE  less[j] \in ToSet(rows) \ {rows[i]}
    BY <1>1, <1>6, <2>1 DEF ToSet
  <2>4. ASSUME NEW k \in 1..n, rows[k] # rows[i]
        PROVE  \E j \in 1..(n - 1) : less[j] = rows[k]
    <3>1. CASE k < i
      BY <1>1, <1>6, <3>1
    <3>2. CASE k > i
      <4>1. k - 1 \in 1..(n - 1) /\ less[k - 1] = rows[k]
        BY <1>1, <1>6, <3>2
      <4> QED
        BY <4>1
    <3> QED
      BY <1>1, <2>4, <3>1, <3>2
  <2>5. ToSet(less) = ToSet(rows) \ {rows[i]}
    <3>1. ToSet(less) \subseteq ToSet(rows) \ {rows[i]}
      BY <1>7, <2>3 DEF ToSet
    <3>2. ASSUME NEW x \in ToSet(rows) \ {rows[i]}
          PROVE  x \in ToSet(less)
      <4>1. PICK k \in 1..n : x = rows[k]
        BY <1>1 DEF ToSet
      <4> QED
        BY <1>7, <2>4, <3>2, <4>1 DEF ToSet
    <3> QED
      BY <3>1, <3>2
  <2> QED
    BY <2>2, <2>5
<1>9. ToSet(rows) = ToSet(less) \cup {rows[i]}
  <2>1. ASSUME NEW j \in 1..(n - 1)
        PROVE  less[j] \in ToSet(rows)
    BY <1>1, <1>6 DEF ToSet
  <2>2. ASSUME NEW k \in 1..n, k # i
        PROVE  \E j \in 1..(n - 1) : less[j] = rows[k]
    <3>1. CASE k < i
      BY <1>1, <1>6, <3>1
    <3>2. CASE k > i
      <4>1. k - 1 \in 1..(n - 1) /\ less[k - 1] = rows[k]
        BY <1>1, <1>6, <3>2
      <4> QED
        BY <4>1
    <3> QED
      BY <1>1, <2>2, <3>1, <3>2
  <2>3. ToSet(less) \cup {rows[i]} \subseteq ToSet(rows)
    BY <1>1, <1>7, <2>1 DEF ToSet
  <2>4. ToSet(rows) \subseteq ToSet(less) \cup {rows[i]}
    BY <1>1, <1>7, <2>2 DEF ToSet
  <2> QED
    BY <2>3, <2>4
<1> QED
  BY <1>1, <1>6, <1>8, <1>9 DEF less

\* A row appended to a list that does not show its text.
LEMMA AppendFacts ==
    ASSUME NEW T, NEW rows \in Seq(T), NEW c \in T
    PROVE  /\ Append(rows, c) \in Seq(T)
           /\ ToSet(Append(rows, c)) = ToSet(rows) \cup {c}
           /\ IsInjective(rows) /\ c \notin ToSet(rows) => IsInjective(Append(rows, c))
<1>1. /\ Len(rows) \in Nat
      /\ DOMAIN rows = 1..Len(rows)
  BY LenProperties
<1> DEFINE more == Append(rows, c)
<1>2. /\ more \in Seq(T)
      /\ Len(more) = Len(rows) + 1
      /\ \A j \in 1..Len(rows) : more[j] = rows[j]
      /\ more[Len(rows) + 1] = c
  OBVIOUS
<1>3. DOMAIN more = 1..(Len(rows) + 1)
  BY <1>2, LenProperties
<1> HIDE DEF more
<1>4. ToSet(more) = ToSet(rows) \cup {c}
  BY <1>1, <1>2, <1>3 DEF ToSet
<1>5. IsInjective(rows) /\ c \notin ToSet(rows) => IsInjective(more)
  BY <1>1, <1>2, <1>3 DEF ToSet, IsInjective
<1> QED
  BY <1>2, <1>4, <1>5 DEF more

\* Taking the first row of a list.
LEMMA TailFacts ==
    ASSUME NEW T, NEW rows \in Seq(T), rows # <<>>
    PROVE  /\ Head(rows) \in T
           /\ Head(rows) = rows[1]
           /\ Tail(rows) \in Seq(T)
           /\ Len(Tail(rows)) = Len(rows) - 1
           /\ \A j \in 1..(Len(rows) - 1) : Tail(rows)[j] = rows[j + 1]
           /\ ToSet(rows) = ToSet(Tail(rows)) \cup {Head(rows)}
<1> DEFINE n == Len(rows)
           less == Tail(rows)
<1>1. /\ n \in Nat \ {0}
      /\ DOMAIN rows = 1..n
      /\ Head(rows) \in T
      /\ Head(rows) = rows[1]
      /\ less \in Seq(T)
      /\ Len(less) = n - 1
      /\ \A j \in 1..(n - 1) : less[j] = rows[j + 1]
  BY LenProperties, EmptySeq, HeadTailProperties
<1>2. DOMAIN less = 1..(n - 1)
  BY <1>1, LenProperties
<1> HIDE DEF n, less
<1>3. ToSet(less) \cup {rows[1]} \subseteq ToSet(rows)
  BY <1>1, <1>2 DEF ToSet
<1>4. ASSUME NEW k \in 1..n, k # 1
      PROVE  rows[k] \in ToSet(less)
  <2>1. k - 1 \in 1..(n - 1) /\ less[k - 1] = rows[k]
    BY <1>1, <1>4
  <2> QED
    BY <1>2, <2>1 DEF ToSet
<1>5. ToSet(rows) \subseteq ToSet(less) \cup {rows[1]}
  BY <1>1, <1>4 DEF ToSet
<1> QED
  BY <1>1, <1>3, <1>5 DEF n, less

\* Moving the first of the rows to come to the end of a list loses none.
LEMMA MoveHeadFacts ==
    ASSUME NEW T, NEW rows \in Seq(T), NEW rest \in Seq(T), rest # <<>>
    PROVE  Append(rows, Head(rest)) \o Tail(rest) = rows \o rest
<1> DEFINE n == Len(rows)
           more == Append(rows, Head(rest))
           left == more \o Tail(rest)
           right == rows \o rest
<1>1. /\ n \in Nat
      /\ Len(rest) \in Nat
      /\ Head(rest) \in T
      /\ Head(rest) = rest[1]
      /\ Tail(rest) \in Seq(T)
      /\ Len(Tail(rest)) = Len(rest) - 1
      /\ \A j \in 1..(Len(rest) - 1) : Tail(rest)[j] = rest[j + 1]
  BY LenProperties, TailFacts
<1>2. /\ more \in Seq(T)
      /\ Len(more) = n + 1
      /\ \A j \in 1..n : more[j] = rows[j]
      /\ more[n + 1] = rest[1]
  BY <1>1
<1> HIDE DEF more
<1>3. /\ left \in Seq(T)
      /\ Len(left) = n + Len(rest)
      /\ \A j \in 1..(n + Len(rest)) :
           left[j] = IF j <= n + 1 THEN more[j] ELSE Tail(rest)[j - (n + 1)]
  <2>1. /\ left \in Seq(T)
        /\ Len(left) = Len(more) + Len(Tail(rest))
        /\ \A j \in 1..(Len(more) + Len(Tail(rest))) :
             left[j] = IF j <= Len(more) THEN more[j] ELSE Tail(rest)[j - Len(more)]
    BY <1>1, <1>2, ConcatProperties
  <2> QED
    BY <1>1, <1>2, <2>1
<1>4. /\ right \in Seq(T)
      /\ Len(right) = n + Len(rest)
      /\ \A j \in 1..(n + Len(rest)) : right[j] = IF j <= n THEN rows[j] ELSE rest[j - n]
  BY <1>1, ConcatProperties
<1> HIDE DEF left, right
<1>5. ASSUME NEW j \in 1..(n + Len(rest))
      PROVE  left[j] = right[j]
  <2>1. CASE j <= n
    BY <1>1, <1>2, <1>3, <1>4, <2>1
  <2>2. CASE j = n + 1
    BY <1>1, <1>2, <1>3, <1>4, <2>2
  <2>3. CASE j > n + 1
    <3>1. /\ j - (n + 1) \in 1..(Len(rest) - 1)
          /\ (j - (n + 1)) + 1 = j - n
      BY <1>1, <2>3
    <3>2. left[j] = Tail(rest)[j - (n + 1)]
      BY <1>1, <1>3, <2>3
    <3>3. Tail(rest)[j - (n + 1)] = rest[j - n]
      BY <1>1, <3>1
    <3>4. right[j] = rest[j - n]
      BY <1>1, <1>4, <2>3
    <3> QED
      BY <3>2, <3>3, <3>4
  <2> QED
    BY <1>1, <2>1, <2>2, <2>3
<1>6. left = right
  BY <1>3, <1>4, <1>5, SeqEqual
<1> QED
  BY <1>6 DEF left, right, more

\* Putting one row in the place of another.
LEMMA ReplaceFacts ==
    ASSUME NEW T, NEW rows \in Seq(T), NEW i \in DOMAIN rows, NEW x \in T
    PROVE  /\ [rows EXCEPT ![i] = x] \in Seq(T)
           /\ Len([rows EXCEPT ![i] = x]) = Len(rows)
           /\ \A j \in 1..Len(rows) :
                [rows EXCEPT ![i] = x][j] = IF j = i THEN x ELSE rows[j]
           /\ ToSet([rows EXCEPT ![i] = x]) \cup {rows[i]} = ToSet(rows) \cup {x}
<1> DEFINE n == Len(rows)
           new == [rows EXCEPT ![i] = x]
<1>1. /\ n \in Nat
      /\ DOMAIN rows = 1..n
      /\ \A j \in 1..n : rows[j] \in T
  BY LenProperties, ElementOfSeq
<1>2. /\ DOMAIN new = 1..n
      /\ \A j \in 1..n : new[j] = IF j = i THEN x ELSE rows[j]
  BY <1>1
<1>3. new \in Seq(T) /\ Len(new) = n
  BY <1>1, ExceptSeq
<1>4. ToSet(new) \cup {rows[i]} = ToSet(rows) \cup {x}
  BY <1>1, <1>2 DEF ToSet
<1> QED
  BY <1>2, <1>3, <1>4

\* The rows of a list, and a list whose rows are all of another type.
LEMMA RowsFacts ==
    ASSUME NEW T, NEW rows \in Seq(T)
    PROVE  /\ Len(rows) \in Nat
           /\ DOMAIN rows = 1..Len(rows)
           /\ \A j \in DOMAIN rows : rows[j] \in T /\ rows[j] \in ToSet(rows)
           /\ ToSet(rows) \subseteq T
           /\ rows = <<>> <=> Len(rows) = 0
           /\ \A S : ToSet(rows) \subseteq S => rows \in Seq(S)
<1>1. /\ Len(rows) \in Nat
      /\ DOMAIN rows = 1..Len(rows)
      /\ \A j \in DOMAIN rows : rows[j] \in T /\ rows[j] \in ToSet(rows)
      /\ ToSet(rows) \subseteq T
      /\ rows = <<>> <=> Len(rows) = 0
  BY LenProperties, ElementOfSeq, EmptySeq DEF ToSet
<1>2. ASSUME NEW S, ToSet(rows) \subseteq S
      PROVE  rows \in Seq(S)
  <2>1. \A j \in 1..Len(rows) : rows[j] \in S
    BY <1>1, <1>2
  <2>2. rows = [j \in 1..Len(rows) |-> rows[j]]
    BY LenProperties
  <2> QED
    BY <1>1, <2>1, <2>2, IsASeq
<1> QED
  BY <1>1, <1>2

\* A function over the numbers of the rows of a list is a list as long.
LEMMA MappedFacts ==
    ASSUME NEW T, NEW S, NEW rows \in Seq(T), NEW f \in [DOMAIN rows -> S]
    PROVE  /\ f \in Seq(S)
           /\ Len(f) = Len(rows)
           /\ DOMAIN f = DOMAIN rows
<1>1. Len(rows) \in Nat /\ DOMAIN rows = 1..Len(rows)
  BY LenProperties
<1>2. \A j \in 1..Len(rows) : f[j] \in S
  BY <1>1
<1>3. f = [j \in 1..Len(rows) |-> f[j]]
  BY <1>1
<1>4. f \in Seq(S)
  BY <1>1, <1>2, <1>3, IsASeq
<1>5. Len(f) \in Nat /\ DOMAIN f = 1..Len(f)
  BY <1>4, LenProperties
<1> QED
  BY <1>1, <1>4, <1>5

\* Without its last row.
LEMMA FrontFacts ==
    ASSUME NEW T, NEW rows \in Seq(T), rows # <<>>
    PROVE  /\ Len(rows) \in DOMAIN rows
           /\ Front(rows) = RemoveAt(rows, Len(rows))
<1> DEFINE n == Len(rows)
<1>1. /\ n \in Nat \ {0}
      /\ DOMAIN rows = 1..n
  BY RowsFacts
<1>2. \A j \in 1..(n - 1) : rows[j] \in T
  BY <1>1, RowsFacts
<1>3. 1 \in Int /\ n - 1 \in Int /\ n + 1 \in Int /\ n \in Int /\ ~(n + 1 <= n)
  BY <1>1
<1> HIDE DEF n
<1>4. SubSeq(rows, 1, n - 1) \in Seq(T)
  BY <1>2, <1>3, SubSeqProperties
<1>5. SubSeq(rows, n + 1, n) = <<>>
  <2>1. \A j \in (n + 1)..n : rows[j] \in T
    BY <1>3
  <2>2. /\ SubSeq(rows, n + 1, n) \in Seq(T)
        /\ Len(SubSeq(rows, n + 1, n)) = 0
    BY <1>3, <2>1, SubSeqProperties
  <2> QED
    BY <2>2, EmptySeq
<1>6. SubSeq(rows, 1, n - 1) \o <<>> = SubSeq(rows, 1, n - 1)
  BY <1>4, ConcatEmptySeq
<1> QED
  BY <1>1, <1>5, <1>6 DEF Front, RemoveAt, n

-----------------------------------------------------------------------------
(* Two lists, one behind the other                                           *)

LEMMA LineFacts ==
    ASSUME NEW T, NEW front \in Seq(T), NEW back \in Seq(T)
    PROVE  /\ front \o back \in Seq(T)
           /\ Len(front \o back) = Len(front) + Len(back)
           /\ \A k \in 1..(Len(front) + Len(back)) :
                (front \o back)[k] = IF k <= Len(front) THEN front[k]
                                                        ELSE back[k - Len(front)]
           /\ ToSet(front \o back) = ToSet(front) \cup ToSet(back)
<1> DEFINE m == Len(front)
           n == Len(back)
           line == front \o back
<1>1. /\ m \in Nat /\ n \in Nat
      /\ DOMAIN front = 1..m /\ DOMAIN back = 1..n
      /\ line \in Seq(T)
      /\ Len(line) = m + n
      /\ \A k \in 1..(m + n) : line[k] = IF k <= m THEN front[k] ELSE back[k - m]
  BY LenProperties, ConcatProperties
<1>2. DOMAIN line = 1..(m + n)
  BY <1>1, LenProperties
<1> HIDE DEF m, n, line
<1>3. ToSet(line) \subseteq ToSet(front) \cup ToSet(back)
  <2>1. ASSUME NEW k \in 1..(m + n)
        PROVE  line[k] \in ToSet(front) \cup ToSet(back)
    <3>1. CASE k <= m
      <4>1. k \in 1..m /\ line[k] = front[k]
        BY <1>1, <3>1
      <4> QED
        BY <1>1, <4>1 DEF ToSet
    <3>2. CASE ~(k <= m)
      <4>1. k - m \in 1..n
        BY <1>1, <3>2
      <4> QED
        BY <1>1, <3>2, <4>1 DEF ToSet
    <3> QED
      BY <3>1, <3>2
  <2> QED
    BY <1>2, <2>1 DEF ToSet
<1>4. ASSUME NEW k \in 1..m
      PROVE  front[k] \in ToSet(line)
  <2>1. k \in 1..(m + n) /\ k <= m
    BY <1>1
  <2>2. line[k] = front[k]
    BY <1>1, <2>1
  <2> QED
    BY <1>2, <2>1, <2>2 DEF ToSet
<1>5. ASSUME NEW k \in 1..n
      PROVE  back[k] \in ToSet(line)
  <2>1. k + m \in 1..(m + n) /\ ~(k + m <= m) /\ (k + m) - m = k
    BY <1>1
  <2>2. line[k + m] = back[k]
    BY <1>1, <2>1
  <2> QED
    BY <1>2, <2>1, <2>2 DEF ToSet
<1>6. ToSet(front) \cup ToSet(back) \subseteq ToSet(line)
  BY <1>1, <1>4, <1>5 DEF ToSet
<1> QED
  BY <1>1, <1>3, <1>6 DEF m, n, line

\* A row appended to the list behind is the last of the line.
LEMMA LineAppend ==
    ASSUME NEW T, NEW front \in Seq(T), NEW back \in Seq(T), NEW x \in T
    PROVE  front \o Append(back, x) = Append(front \o back, x)
<1> DEFINE m == Len(front)
           n == Len(back)
           line == front \o back
           more == Append(back, x)
           left == front \o more
           right == Append(line, x)
<1>1. m \in Nat /\ n \in Nat
  BY LenProperties
<1>2. /\ more \in Seq(T)
      /\ Len(more) = n + 1
      /\ \A k \in 1..n : more[k] = back[k]
      /\ more[n + 1] = x
  BY <1>1
<1> HIDE DEF more
<1>3. /\ left \in Seq(T)
      /\ Len(left) = m + Len(more)
      /\ \A k \in 1..(m + Len(more)) : left[k] = IF k <= m THEN front[k] ELSE more[k - m]
  BY <1>2, LineFacts
<1>4. /\ line \in Seq(T)
      /\ Len(line) = m + n
      /\ \A k \in 1..(m + n) : line[k] = IF k <= m THEN front[k] ELSE back[k - m]
  BY LineFacts
<1> HIDE DEF line
<1>5. /\ right \in Seq(T)
      /\ Len(right) = m + n + 1
      /\ \A k \in 1..(m + n) : right[k] = line[k]
      /\ right[m + n + 1] = x
  <2>1. /\ right \in Seq(T)
        /\ Len(right) = Len(line) + 1
        /\ \A k \in 1..Len(line) : right[k] = line[k]
        /\ right[Len(line) + 1] = x
    BY <1>4
  <2> HIDE DEF right
  <2> QED
    BY <1>4, <2>1
<1> HIDE DEF m, n, left, right
<1>6. ASSUME NEW k \in 1..(m + n + 1)
      PROVE  left[k] = right[k]
  <2>1. left[k] = IF k <= m THEN front[k] ELSE more[k - m]
    BY <1>1, <1>2, <1>3
  <2>2. CASE k = m + n + 1
    <3>1. k - m = n + 1 /\ ~(k <= m)
      BY <1>1, <2>2
    <3> QED
      BY <1>2, <1>5, <2>1, <2>2, <3>1
  <2>3. CASE k \in 1..(m + n)
    <3>1. right[k] = IF k <= m THEN front[k] ELSE back[k - m]
      BY <1>4, <1>5, <2>3
    <3>2. k > m => k - m \in 1..n
      BY <1>1, <2>3
    <3> QED
      BY <1>1, <1>2, <2>1, <2>3, <3>1, <3>2
  <2> QED
    BY <1>1, <2>2, <2>3
<1>7. left = right
  <2>1. Len(left) = m + n + 1 /\ Len(right) = m + n + 1
    BY <1>1, <1>2, <1>3, <1>5
  <2> QED
    BY <1>3, <1>5, <1>6, <2>1, SeqEqual
<1> QED
  BY <1>7 DEF left, right, more, line

\* The first of the line is the first of the list in front.
LEMMA LineTail ==
    ASSUME NEW T, NEW front \in Seq(T), NEW back \in Seq(T), front # <<>>
    PROVE  /\ front \o back # <<>>
           /\ Head(front \o back) = Head(front)
           /\ Tail(front \o back) = Tail(front) \o back
<1> DEFINE m == Len(front)
           n == Len(back)
           left == Tail(front \o back)
           right == Tail(front) \o back
<1>1. /\ m \in Nat \ {0} /\ n \in Nat
      /\ Head(front) = front[1]
      /\ Tail(front) \in Seq(T)
      /\ Len(Tail(front)) = m - 1
      /\ \A k \in 1..(m - 1) : Tail(front)[k] = front[k + 1]
  BY LenProperties, EmptySeq, TailFacts
<1>2. /\ front \o back \in Seq(T)
      /\ Len(front \o back) = m + n
      /\ \A k \in 1..(m + n) : (front \o back)[k] = IF k <= m THEN front[k] ELSE back[k - m]
  BY LineFacts
<1>3. front \o back # <<>>
  BY <1>1, <1>2, RowsFacts
<1>4. /\ Head(front \o back) = (front \o back)[1]
      /\ left \in Seq(T)
      /\ Len(left) = (m + n) - 1
      /\ \A k \in 1..((m + n) - 1) : left[k] = (front \o back)[k + 1]
  BY <1>2, <1>3, TailFacts
<1>5. /\ right \in Seq(T)
      /\ Len(right) = (m - 1) + n
      /\ \A k \in 1..((m - 1) + n) :
           right[k] = IF k <= m - 1 THEN Tail(front)[k] ELSE back[k - (m - 1)]
  BY <1>1, LineFacts
<1> HIDE DEF m, n, left, right
<1>6. ASSUME NEW k \in 1..((m + n) - 1)
      PROVE  left[k] = right[k]
  <2>1. k + 1 \in 1..(m + n) /\ k \in 1..((m - 1) + n) /\ (k + 1) - m = k - (m - 1)
    BY <1>1
  <2>2. CASE k <= m - 1
    <3>1. k + 1 <= m /\ k \in 1..(m - 1)
      BY <1>1, <2>2
    <3> QED
      BY <1>1, <1>2, <1>4, <1>5, <2>1, <2>2, <3>1
  <2>3. CASE ~(k <= m - 1)
    <3>1. ~(k + 1 <= m)
      BY <1>1, <2>3
    <3> QED
      BY <1>2, <1>4, <1>5, <2>1, <2>3, <3>1
  <2> QED
    BY <2>2, <2>3
<1>7. left = right
  BY <1>1, <1>4, <1>5, <1>6, SeqEqual
<1>8. Head(front \o back) = Head(front)
  BY <1>1, <1>2, <1>4
<1> QED
  BY <1>3, <1>7, <1>8 DEF left, right

\* A row replaced in the list behind is replaced in the line.
LEMMA LineReplace ==
    ASSUME NEW T, NEW front \in Seq(T), NEW back \in Seq(T),
           NEW i \in DOMAIN back, NEW x \in T
    PROVE  /\ Len(front) + i \in DOMAIN (front \o back)
           /\ (front \o back)[Len(front) + i] = back[i]
           /\ front \o [back EXCEPT ![i] = x] = [front \o back EXCEPT ![Len(front) + i] = x]
<1> DEFINE m == Len(front)
           n == Len(back)
           line == front \o back
           new == [back EXCEPT ![i] = x]
           left == front \o new
           right == [line EXCEPT ![m + i] = x]
<1>1. /\ m \in Nat /\ n \in Nat
      /\ i \in 1..n
      /\ new \in Seq(T)
      /\ Len(new) = n
      /\ \A k \in 1..n : new[k] = IF k = i THEN x ELSE back[k]
  BY LenProperties, ReplaceFacts
<1>2. /\ line \in Seq(T)
      /\ Len(line) = m + n
      /\ \A k \in 1..(m + n) : line[k] = IF k <= m THEN front[k] ELSE back[k - m]
  BY LineFacts
<1>3. /\ left \in Seq(T)
      /\ Len(left) = m + n
      /\ \A k \in 1..(m + n) : left[k] = IF k <= m THEN front[k] ELSE new[k - m]
  BY <1>1, LineFacts
<1> HIDE DEF m, n, line, new, left
<1>4. m + i \in DOMAIN line /\ line[m + i] = back[i]
  <2>1. DOMAIN line = 1..(m + n)
    BY <1>2, LenProperties
  <2>2. m + i \in 1..(m + n) /\ ~(m + i <= m) /\ (m + i) - m = i
    BY <1>1
  <2> QED
    BY <1>2, <2>1, <2>2
<1>5. /\ right \in Seq(T)
      /\ Len(right) = m + n
      /\ \A k \in 1..(m + n) : right[k] = IF k = m + i THEN x ELSE line[k]
  BY <1>2, <1>4, ReplaceFacts
<1> HIDE DEF right
<1>6. ASSUME NEW k \in 1..(m + n)
      PROVE  left[k] = right[k]
  <2>1. CASE k <= m
    <3>1. k # m + i
      BY <1>1, <2>1
    <3> QED
      BY <1>2, <1>3, <1>5, <2>1, <3>1
  <2>2. CASE ~(k <= m)
    <3>1. k - m \in 1..n /\ (k - m = i <=> k = m + i)
      BY <1>1, <2>2
    <3> QED
      BY <1>1, <1>2, <1>3, <1>5, <2>2, <3>1
  <2> QED
    BY <2>1, <2>2
<1>7. left = right
  BY <1>1, <1>3, <1>5, <1>6, SeqEqual
<1> QED
  BY <1>4, <1>7 DEF m, line, new, left, right

\* The first row of the list behind goes to the end of the one in front, as x.
LEMMA LineMove ==
    ASSUME NEW T, NEW front \in Seq(T), NEW back \in Seq(T), back # <<>>, NEW x \in T
    PROVE  /\ Append(front, x) \o Tail(back) = [front \o back EXCEPT ![Len(front) + 1] = x]
           /\ RemoveAt(back, 1) = Tail(back)
<1>1. /\ Tail(back) \in Seq(T) /\ Head(back) = back[1]
      /\ Len(Tail(back)) = Len(back) - 1
      /\ \A j \in 1..(Len(back) - 1) : Tail(back)[j] = back[j + 1]
      /\ Len(back) \in Nat \ {0} /\ 1 \in DOMAIN back
  BY TailFacts, EmptySeq, LenProperties
<1>2. RemoveAt(back, 1) = Tail(back)
  <2>1. /\ RemoveAt(back, 1) \in Seq(T)
        /\ Len(RemoveAt(back, 1)) = Len(back) - 1
        /\ \A j \in 1..(Len(back) - 1) :
             RemoveAt(back, 1)[j] = IF j < 1 THEN back[j] ELSE back[j + 1]
    BY <1>1, RemoveAtRows
  <2>2. \A j \in 1..(Len(back) - 1) : RemoveAt(back, 1)[j] = Tail(back)[j]
    BY <1>1, <2>1
  <2> QED
    BY <1>1, <2>1, <2>2, SeqEqual
<1> DEFINE new == [back EXCEPT ![1] = x]
<1>3. /\ new \in Seq(T)
      /\ Len(new) = Len(back)
      /\ \A j \in 1..Len(back) : new[j] = IF j = 1 THEN x ELSE back[j]
  BY <1>1, ReplaceFacts
<1>4. new # <<>> /\ Head(new) = x /\ Tail(new) = Tail(back)
  <2>1. new # <<>>
    BY <1>1, <1>3, RowsFacts
  <2>2. /\ Head(new) = new[1]
        /\ Tail(new) \in Seq(T)
        /\ Len(Tail(new)) = Len(new) - 1
        /\ \A j \in 1..(Len(new) - 1) : Tail(new)[j] = new[j + 1]
    BY <1>3, <2>1, TailFacts
  <2> HIDE DEF new
  <2>3. \A j \in 1..(Len(back) - 1) : Tail(new)[j] = Tail(back)[j]
    BY <1>1, <1>3, <2>2
  <2>4. Tail(new) = Tail(back)
    BY <1>1, <1>3, <2>2, <2>3, SeqEqual
  <2> QED
    BY <1>1, <1>3, <2>1, <2>2, <2>4
<1>5. front \o new = [front \o back EXCEPT ![Len(front) + 1] = x]
  <2>1. \A i \in DOMAIN back :
           front \o [back EXCEPT ![i] = x] = [front \o back EXCEPT ![Len(front) + i] = x]
    BY LineReplace
  <2> QED
    BY <1>1, <2>1
<1> HIDE DEF new
<1>6. Append(front, x) \o Tail(back) = front \o new
  BY <1>3, <1>4, MoveHeadFacts
<1> QED
  BY <1>2, <1>5, <1>6
-----------------------------------------------------------------------------
(* Counting the rows of a kind                                               *)

Places(rows, S) == {i \in DOMAIN rows : rows[i] \in S}
HowMany(rows, S) == Cardinality(Places(rows, S))

LEMMA CountFacts ==
    ASSUME NEW T, NEW rows \in Seq(T), NEW S
    PROVE  /\ IsFiniteSet(Places(rows, S))
           /\ HowMany(rows, S) \in Nat
           /\ HowMany(rows, S) = 0 <=> \A i \in DOMAIN rows : rows[i] \notin S
           /\ \A i, j \in DOMAIN rows :
                rows[i] \in S /\ rows[j] \in S /\ i # j => HowMany(rows, S) >= 2
<1> DEFINE A == Places(rows, S)
<1>1. IsFiniteSet(DOMAIN rows)
  BY RowsFacts, FS_Interval
<1>2. IsFiniteSet(A)
  BY <1>1, FS_Subset DEF Places
<1>3. Cardinality(A) \in Nat /\ (Cardinality(A) = 0 <=> A = {})
  BY <1>2, FS_CardinalityType, FS_EmptySet
<1> HIDE DEF A
<1>4. ASSUME NEW i \in A, NEW j \in A, i # j
      PROVE  Cardinality(A) >= 2
  <2>1. /\ IsFiniteSet(A \ {i})
        /\ Cardinality(A \ {i}) = Cardinality(A) - 1
    BY <1>2, FS_RemoveElement
  <2>2. Cardinality(A \ {i}) \in Nat /\ Cardinality(A \ {i}) # 0
    <3>1. A \ {i} # {}
      BY <1>4
    <3> QED
      BY <2>1, <3>1, FS_CardinalityType, FS_EmptySet
  <2> QED
    BY <1>3, <2>1, <2>2
<1> QED
  BY <1>2, <1>3, <1>4 DEF A, Places, HowMany

LEMMA CountSame ==
    ASSUME NEW rows, NEW new, NEW S, DOMAIN new = DOMAIN rows,
           \A i \in DOMAIN rows : new[i] \in S <=> rows[i] \in S
    PROVE  HowMany(new, S) = HowMany(rows, S)
<1>1. Places(new, S) = Places(rows, S)
  BY DEF Places
<1> QED
  BY <1>1 DEF HowMany

LEMMA CountAppend ==
    ASSUME NEW T, NEW rows \in Seq(T), NEW x \in T, NEW S
    PROVE  HowMany(Append(rows, x), S) = HowMany(rows, S) + (IF x \in S THEN 1 ELSE 0)
<1> DEFINE n == Len(rows)
           more == Append(rows, x)
           A == Places(rows, S)
<1>1. /\ n \in Nat
      /\ DOMAIN rows = 1..n
      /\ more \in Seq(T)
      /\ Len(more) = n + 1
      /\ \A j \in 1..n : more[j] = rows[j]
      /\ more[n + 1] = x
  BY LenProperties
<1>2. DOMAIN more = 1..(n + 1)
  BY <1>1, LenProperties
<1> HIDE DEF n, more
<1>3. IsFiniteSet(A) /\ Cardinality(A) \in Nat /\ n + 1 \notin A
  <2>1. IsFiniteSet(A)
    BY CountFacts
  <2>2. n + 1 \notin A
    BY <1>1 DEF Places
  <2> QED
    BY <2>1, <2>2, FS_CardinalityType
<1>4. Places(more, S) = IF x \in S THEN A \cup {n + 1} ELSE A
  BY <1>1, <1>2 DEF Places
<1> HIDE DEF A
<1>5. Cardinality(A \cup {n + 1}) = Cardinality(A) + 1
  BY <1>3, FS_AddElement
<1> QED
  BY <1>3, <1>4, <1>5 DEF HowMany, A, more

LEMMA CountReplace ==
    ASSUME NEW T, NEW rows \in Seq(T), NEW i \in DOMAIN rows, NEW x \in T, NEW S,
           x \in S <=> rows[i] \in S
    PROVE  HowMany([rows EXCEPT ![i] = x], S) = HowMany(rows, S)
BY CountSame

LEMMA CountRemoveAt ==
    ASSUME NEW T, NEW rows \in Seq(T), NEW i \in DOMAIN rows, NEW S
    PROVE  HowMany(rows, S) =
               HowMany(RemoveAt(rows, i), S) + (IF rows[i] \in S THEN 1 ELSE 0)
<1> DEFINE n == Len(rows)
           less == RemoveAt(rows, i)
           A == Places(rows, S)
           B == Places(less, S)
           f == [j \in B |-> IF j < i THEN j ELSE j + 1]
<1>1. /\ n \in Nat
      /\ i \in 1..n
      /\ DOMAIN rows = 1..n
      /\ less \in Seq(T)
      /\ Len(less) = n - 1
      /\ \A j \in 1..(n - 1) : less[j] = IF j < i THEN rows[j] ELSE rows[j + 1]
  BY RowsFacts, RemoveAtRows
<1>2. DOMAIN less = 1..(n - 1)
  BY <1>1, LenProperties
<1> HIDE DEF n, less
<1>3. /\ \A j : j \in A <=> j \in 1..n /\ rows[j] \in S
      /\ \A j : j \in B <=> j \in 1..(n - 1) /\ (IF j < i THEN rows[j] ELSE rows[j + 1]) \in S
  BY <1>1, <1>2 DEF Places
<1>4. IsFiniteSet(A) /\ IsFiniteSet(B)
  BY <1>1, CountFacts
<1> HIDE DEF A, B
<1>5. f \in Bijection(B, A \ {i})
  <2>1. ASSUME NEW j \in B
        PROVE  (IF j < i THEN j ELSE j + 1) \in A \ {i}
    BY <1>1, <1>3
  <2>2. f \in [B -> A \ {i}]
    BY <2>1
  <2>3. ASSUME NEW j \in B, NEW k \in B, f[j] = f[k]
        PROVE  j = k
    <3>1. (IF j < i THEN j ELSE j + 1) = (IF k < i THEN k ELSE k + 1)
      BY <2>3
    <3>2. j \in Nat /\ k \in Nat /\ i \in Nat
      BY <1>1, <1>3
    <3> QED
      BY <3>1, <3>2
  <2>4. ASSUME NEW k \in A \ {i}
        PROVE  \E j \in B : f[j] = k
    <3>1. CASE k < i
      BY <1>1, <1>3, <3>1
    <3>2. CASE ~(k < i)
      <4>1. k - 1 \in B /\ ~(k - 1 < i) /\ (k - 1) + 1 = k
        BY <1>1, <1>3, <3>2
      <4> QED
        BY <4>1
    <3> QED
      BY <3>1, <3>2
  <2> HIDE DEF f
  <2> QED
    BY <2>2, <2>3, <2>4 DEF Bijection, Injection, IsInjective, Surjection
<1>6. Cardinality(A \ {i}) = Cardinality(B)
  BY <1>4, <1>5, FS_Bijection DEF ExistsBijection
<1>7. /\ Cardinality(A \ {i}) = IF i \in A THEN Cardinality(A) - 1 ELSE Cardinality(A)
      /\ Cardinality(A) \in Nat
  BY <1>4, FS_RemoveElement, FS_CardinalityType
<1>8. i \in A <=> rows[i] \in S
  BY <1>1, <1>3
<1> QED
  BY <1>6, <1>7, <1>8 DEF HowMany, A, B, less

LEMMA CountTail ==
    ASSUME NEW T, NEW rows \in Seq(T), rows # <<>>, NEW S
    PROVE  HowMany(rows, S) = HowMany(Tail(rows), S) + (IF Head(rows) \in S THEN 1 ELSE 0)
<1>1. 1 \in DOMAIN rows /\ Head(rows) = rows[1] /\ rows[1] \in T
  BY RowsFacts
<1>2. RemoveAt(rows, 1) = Tail(rows)
  <2>1. <<>> \in Seq(T)
    BY EmptySeq
  <2> QED
    BY <1>1, <2>1, LineMove
<1>3. \A i \in DOMAIN rows : HowMany(rows, S) =
         HowMany(RemoveAt(rows, i), S) + (IF rows[i] \in S THEN 1 ELSE 0)
  BY CountRemoveAt
<1> QED
  BY <1>1, <1>2, <1>3

-----------------------------------------------------------------------------
(* The rank of an index among those that are not in a set                    *)

Free(S, i) == (0 .. (i - 1)) \ S

LEMMA LeastNatural ==
    ASSUME NEW T \in SUBSET Nat, T # {}
    PROVE  \E x \in T : \A y \in T : x <= y
<1>1. PICK x \in T : \A y \in T : ~ (<<y, x>> \in OpToRel(<, Nat))
  BY NatLessThanWellFounded, WFMin
<1>2. ASSUME NEW y \in T
      PROVE  x <= y
  <2>1. <<y, x>> \in Nat \X Nat /\ <<y, x>>[1] = y /\ <<y, x>>[2] = x
    OBVIOUS
  <2>2. ~(y < x)
    BY <1>1, <2>1 DEF OpToRel
  <2> QED
    BY <2>2
<1> QED
  BY <1>2

LEMMA UnshiftIsFree ==
    ASSUME NEW S \in SUBSET Nat, NEW i \in Nat
    PROVE  /\ IsFiniteSet(Free(S, i))
           /\ unshift(S, i) = Cardinality(Free(S, i))
           /\ unshift(S, i) \in 0..i
<1> DEFINE A == 0 .. (i - 1)
           B == {x \in S : 0 <= x /\ x < i}
<1>1. IsFiniteSet(A) /\ Cardinality(A) = i
  BY FS_Interval
<1>2. A \cap S = B
  <2>1. \A x \in Nat : x \in 0 .. (i - 1) <=> 0 <= x /\ x < i
    OBVIOUS
  <2> QED
    BY <2>1
<1>3. IsFiniteSet(A \ S) /\ Cardinality(A \ S) = i - Cardinality(B)
  <2>1. IsFiniteSet(A \ S) /\ Cardinality(A \ S) = Cardinality(A) - Cardinality(A \cap S)
    BY <1>1, FS_Difference
  <2> QED
    BY <1>1, <1>2, <2>1
<1>4. Cardinality(B) \in Nat /\ Cardinality(A \ S) \in Nat
  BY <1>1, <1>2, <1>3, FS_Intersection, FS_CardinalityType
<1> QED
  BY <1>3, <1>4 DEF Free, unshift, count

LEMMA UnshiftNext ==
    ASSUME NEW S \in SUBSET Nat, NEW i \in Nat
    PROVE  unshift(S, i + 1) = unshift(S, i) + (IF i \in S THEN 0 ELSE 1)
<1>1. i + 1 \in Nat
  OBVIOUS
<1>2. CASE i \in S
  <2>1. Free(S, i + 1) = Free(S, i)
    BY <1>2 DEF Free
  <2> QED
    BY <1>1, <1>2, <2>1, UnshiftIsFree
<1>3. CASE i \notin S
  <2>1. Free(S, i + 1) = Free(S, i) \cup {i} /\ i \notin Free(S, i)
    BY <1>3 DEF Free
  <2> QED
    BY <1>1, <1>3, <2>1, UnshiftIsFree, FS_AddElement
<1> QED
  BY <1>2, <1>3

\* Ranks grow with the indices, and differ for those outside the set.
LEMMA UnshiftGrows ==
    ASSUME NEW S \in SUBSET Nat, NEW i \in Nat, NEW j \in Nat, i < j
    PROVE  /\ unshift(S, i) <= unshift(S, j)
           /\ i \notin S => unshift(S, i) < unshift(S, j)
<1>1. /\ IsFiniteSet(Free(S, i)) /\ IsFiniteSet(Free(S, j))
      /\ unshift(S, i) = Cardinality(Free(S, i)) /\ unshift(S, j) = Cardinality(Free(S, j))
      /\ unshift(S, i) \in Nat /\ unshift(S, j) \in Nat
  BY UnshiftIsFree
<1>2. Free(S, i) \subseteq Free(S, j)
  BY DEF Free
<1>3. unshift(S, i) <= unshift(S, j)
  BY <1>1, <1>2, FS_Subset
<1>4. ASSUME i \notin S PROVE unshift(S, i) # unshift(S, j)
  <2>1. i \in Free(S, j) /\ i \notin Free(S, i)
    BY <1>4 DEF Free
  <2>2. Free(S, i) # Free(S, j)
    BY <2>1
  <2> QED
    BY <1>1, <1>2, <2>2, FS_Subset
<1> QED
  BY <1>1, <1>3, <1>4

LEMMA UnshiftInjective ==
    ASSUME NEW S \in SUBSET Nat, NEW i \in Nat, NEW j \in Nat,
           i \notin S, j \notin S, unshift(S, i) = unshift(S, j)
    PROVE  i = j
<1>1. unshift(S, i) \in Nat /\ unshift(S, j) \in Nat
  BY UnshiftIsFree
<1>2. ~(i < j)
  BY <1>1, UnshiftGrows
<1>3. ~(j < i)
  BY <1>1, UnshiftGrows
<1> QED
  BY <1>2, <1>3

\* shift finds the index of a rank.
LEMMA ShiftFacts ==
    ASSUME NEW S \in SUBSET Nat, IsFiniteSet(S), NEW r \in Nat
    PROVE  /\ shift(S, r) \in Nat
           /\ shift(S, r) \notin S
           /\ unshift(S, shift(S, r)) = r
<1> DEFINE n == Cardinality(S)
           T == {k \in Nat : unshift(S, k) > r}
<1>1. n \in Nat
  BY FS_CardinalityType
<1>2. r + n + 1 \in T
  <2>1. r + n + 1 \in Nat
    BY <1>1
  <2>2. {x \in S : 0 <= x /\ x < r + n + 1} \in SUBSET S
    OBVIOUS
  <2>3. count(S, 0, r + n + 1) \in Nat /\ count(S, 0, r + n + 1) <= n
    BY <1>1, <2>2, FS_Subset, FS_CardinalityType DEF count
  <2>4. unshift(S, r + n + 1) > r
    BY <1>1, <2>3 DEF unshift
  <2> QED
    BY <2>1, <2>4
<1>3. PICK k \in T : \A l \in T : k <= l
  BY <1>2, LeastNatural
<1>4. k # 0
  BY <1>3, UnshiftIsFree
<1>5. k - 1 \in Nat /\ k - 1 \notin T
  BY <1>3, <1>4
<1>6. unshift(S, k - 1) \in Nat /\ unshift(S, k - 1) <= r
  BY <1>5, UnshiftIsFree
<1>7. unshift(S, (k - 1) + 1) = unshift(S, k - 1) + (IF k - 1 \in S THEN 0 ELSE 1)
  BY <1>5, UnshiftNext
<1>8. unshift(S, k) \in Nat /\ unshift(S, k) > r
  BY <1>3, UnshiftIsFree
<1>9. k - 1 \notin S /\ unshift(S, k - 1) = r
  BY <1>5, <1>6, <1>7, <1>8
<1>10. k - 1 \in r .. (r + n)
  <2>1. unshift(S, k - 1) \in 0..(k - 1)
    BY <1>5, UnshiftIsFree
  <2>2. {x \in S : 0 <= x /\ x < k - 1} \in SUBSET S
    OBVIOUS
  <2>3. count(S, 0, k - 1) \in Nat /\ count(S, 0, k - 1) <= n
    BY <1>1, <2>2, FS_Subset, FS_CardinalityType DEF count
  <2>4. r = (k - 1) - count(S, 0, k - 1)
    BY <1>9 DEF unshift
  <2> QED
    BY <1>1, <1>5, <1>9, <2>1, <2>3, <2>4
<1>11. \E j \in r .. (r + n) : j \notin S /\ unshift(S, j) = r
  BY <1>9, <1>10
<1>12. shift(S, r) \in r .. (r + n) /\ shift(S, r) \notin S /\ unshift(S, shift(S, r)) = r
  BY <1>11 DEF shift
<1> QED
  BY <1>1, <1>12

LEMMA ShiftUnshift ==
    ASSUME NEW S \in SUBSET Nat, IsFiniteSet(S), NEW i \in Nat, i \notin S
    PROVE  shift(S, unshift(S, i)) = i
<1>1. unshift(S, i) \in Nat
  BY UnshiftIsFree
<1>2. /\ shift(S, unshift(S, i)) \in Nat /\ shift(S, unshift(S, i)) \notin S
      /\ unshift(S, shift(S, unshift(S, i))) = unshift(S, i)
  BY <1>1, ShiftFacts
<1> QED
  BY <1>2, UnshiftInjective

\* An index put into the set or taken out moves the ranks behind it.
LEMMA UnshiftAdd ==
    ASSUME NEW S \in SUBSET Nat, NEW x \in Nat, x \notin S, NEW i \in Nat
    PROVE  unshift(S \cup {x}, i) = unshift(S, i) - (IF x < i THEN 1 ELSE 0)
<1>1. S \cup {x} \in SUBSET Nat
  OBVIOUS
<1>2. Free(S \cup {x}, i) = Free(S, i) \ {x}
  BY DEF Free
<1>3. x \in Free(S, i) <=> x < i
  BY DEF Free
<1>4. IsFiniteSet(Free(S, i)) /\ unshift(S, i) = Cardinality(Free(S, i)) /\ unshift(S, i) \in Nat
  BY UnshiftIsFree
<1>5. unshift(S \cup {x}, i) = Cardinality(Free(S, i) \ {x})
  BY <1>1, <1>2, UnshiftIsFree
<1> QED
  BY <1>3, <1>4, <1>5, FS_RemoveElement

LEMMA UnshiftRemove ==
    ASSUME NEW S \in SUBSET Nat, NEW x \in S, NEW i \in Nat
    PROVE  unshift(S \ {x}, i) = unshift(S, i) + (IF x < i THEN 1 ELSE 0)
<1>1. S \ {x} \in SUBSET Nat /\ x \notin S \ {x} /\ (S \ {x}) \cup {x} = S
  OBVIOUS
<1>2. unshift(S, i) = unshift(S \ {x}, i) - (IF x < i THEN 1 ELSE 0)
  BY <1>1, UnshiftAdd
<1>3. unshift(S, i) \in Nat /\ unshift(S \ {x}, i) \in Nat
  BY <1>1, UnshiftIsFree
<1> QED
  BY <1>2, <1>3

\* Sets that agree below an index give it the same rank.
LEMMA UnshiftSame ==
    ASSUME NEW S \in SUBSET Nat, NEW R \in SUBSET Nat, NEW i \in Nat,
           \A x \in 0..(i - 1) : x \in S <=> x \in R
    PROVE  unshift(S, i) = unshift(R, i)
<1>1. Free(S, i) = Free(R, i)
  BY DEF Free
<1> QED
  BY <1>1, UnshiftIsFree

-----------------------------------------------------------------------------
(* Entries that come and go one at a time                                    *)

LEMMA InsertedSet ==
    ASSUME NEW S \in SUBSET Nat, NEW i \in Nat
    PROVE  /\ insert_at(S, i, 1) \in SUBSET Nat
           /\ \A x \in Nat : x \in insert_at(S, i, 1) <=>
                  x = i \/ (x < i /\ x \in S) \/ (x > i /\ x - 1 \in S)
<1>1. insert_at(S, i, 1) = {IF x < i THEN x ELSE x + 1 : x \in S} \cup {i}
  <2>1. i .. (i + 1 - 1) = {i}
    OBVIOUS
  <2> QED
    BY <2>1 DEF insert_at, shift_for_insert_at
<1> QED
  BY <1>1

LEMMA ErasedSet ==
    ASSUME NEW S \in SUBSET Nat, NEW i \in Nat
    PROVE  /\ erase_at(S, i) \in SUBSET Nat
           /\ \A x \in Nat : x \in erase_at(S, i) <=>
                  (x < i /\ x \in S) \/ (x >= i /\ x + 1 \in S)
<1>1. erase_at(S, i) = {IF x < i THEN x ELSE x - 1 : x \in S \ {i}}
  BY DEF erase_at
<1>2. ASSUME NEW x \in Nat, (x < i /\ x \in S) \/ (x >= i /\ x + 1 \in S)
      PROVE  x \in erase_at(S, i)
  <2>1. CASE x < i /\ x \in S
    BY <1>1, <2>1
  <2>2. CASE x >= i /\ x + 1 \in S
    <3>1. x + 1 \in S \ {i} /\ ~(x + 1 < i) /\ (x + 1) - 1 = x
      BY <2>2
    <3> QED
      BY <1>1, <3>1
  <2> QED
    BY <1>2, <2>1, <2>2
<1>3. ASSUME NEW y \in S \ {i}
      PROVE  /\ (IF y < i THEN y ELSE y - 1) \in Nat
             /\ \A x \in Nat : x = (IF y < i THEN y ELSE y - 1) =>
                    (x < i /\ x \in S) \/ (x >= i /\ x + 1 \in S)
  <2>1. CASE y < i
    BY <2>1
  <2>2. CASE y > i
    BY <2>2
  <2> QED
    BY <2>1, <2>2
<1> QED
  BY <1>1, <1>2, <1>3

LEMMA InsertedRanks ==
    ASSUME NEW S \in SUBSET Nat, NEW i \in Nat, NEW j \in Nat
    PROVE  unshift(insert_at(S, i, 1), j) =
               IF j <= i THEN unshift(S, j) ELSE unshift(S, j - 1)
<1> DEFINE I == insert_at(S, i, 1)
           T == {k \in Nat : k > i /\ unshift(I, k) # unshift(S, k - 1)}
<1>1. /\ I \in SUBSET Nat
      /\ \A x \in Nat : x \in I <=> x = i \/ (x < i /\ x \in S) \/ (x > i /\ x - 1 \in S)
  BY InsertedSet
<1> HIDE DEF I
<1>2. ASSUME NEW k \in Nat, k <= i
      PROVE  unshift(I, k) = unshift(S, k)
  BY <1>1, <1>2, UnshiftSame
<1>3. ASSUME T # {}
      PROVE  FALSE
  <2>1. PICK k \in T : \A l \in T : k <= l
    BY <1>3, LeastNatural
  <2>2. k \in Nat /\ k > i /\ k - 1 \in Nat /\ unshift(I, k) # unshift(S, k - 1)
    BY <2>1
  <2>3. unshift(I, (k - 1) + 1) = unshift(I, k - 1) + (IF k - 1 \in I THEN 0 ELSE 1)
    BY <1>1, <2>2, UnshiftNext
  <2>4. unshift(I, k - 1) \in Nat
    BY <1>1, <2>2, UnshiftIsFree
  <2>5. CASE k - 1 = i
    BY <1>1, <1>2, <2>2, <2>3, <2>4, <2>5
  <2>6. CASE k - 1 > i
    <3>1. k - 1 \notin T /\ k - 2 \in Nat
      BY <2>1, <2>2, <2>6
    <3>2. unshift(I, k - 1) = unshift(S, (k - 1) - 1)
      BY <2>2, <2>6, <3>1
    <3>3. unshift(S, (k - 2) + 1) = unshift(S, k - 2) + (IF k - 2 \in S THEN 0 ELSE 1)
      BY <3>1, UnshiftNext
    <3>4. k - 1 \in I <=> k - 2 \in S
      BY <1>1, <2>2, <2>6
    <3>5. (k - 1) - 1 = k - 2 /\ (k - 2) + 1 = k - 1 /\ (k - 1) + 1 = k
      BY <2>2
    <3> QED
      BY <2>2, <2>3, <3>2, <3>3, <3>4, <3>5
  <2> QED
    BY <2>2, <2>5, <2>6
<1>4. j > i => unshift(I, j) = unshift(S, j - 1)
  BY <1>3
<1> QED
  BY <1>2, <1>4 DEF I

LEMMA ErasedRanks ==
    ASSUME NEW S \in SUBSET Nat, NEW i \in Nat, NEW j \in Nat
    PROVE  unshift(erase_at(S, i), j) =
               IF j <= i THEN unshift(S, j)
               ELSE unshift(S, j + 1) - (IF i \in S THEN 0 ELSE 1)
<1> DEFINE E == erase_at(S, i)
           T == {k \in Nat : /\ k >= i
                             /\ unshift(E, k) # unshift(S, k + 1) - (IF i \in S THEN 0 ELSE 1)}
<1>1. /\ E \in SUBSET Nat
      /\ \A x \in Nat : x \in E <=> (x < i /\ x \in S) \/ (x >= i /\ x + 1 \in S)
  BY ErasedSet
<1> HIDE DEF E
<1>2. ASSUME NEW k \in Nat, k <= i
      PROVE  unshift(E, k) = unshift(S, k)
  BY <1>1, <1>2, UnshiftSame
<1>3. ASSUME T # {}
      PROVE  FALSE
  <2>1. PICK k \in T : \A l \in T : k <= l
    BY <1>3, LeastNatural
  <2>2. k \in Nat /\ k >= i
        /\ unshift(E, k) # unshift(S, k + 1) - (IF i \in S THEN 0 ELSE 1)
    BY <2>1
  <2>3. unshift(S, k + 1) = unshift(S, k) + (IF k \in S THEN 0 ELSE 1)
    BY <2>2, UnshiftNext
  <2>4. unshift(S, k) \in Nat
    BY <2>2, UnshiftIsFree
  <2>5. k # i
    BY <1>2, <2>2, <2>3, <2>4
  <2>6. k - 1 \in Nat /\ k - 1 >= i /\ k - 1 \notin T /\ (k - 1) + 1 = k
    BY <2>1, <2>2, <2>5
  <2>7. unshift(E, k - 1) = unshift(S, k) - (IF i \in S THEN 0 ELSE 1)
    BY <2>6
  <2>8. unshift(E, k) = unshift(E, k - 1) + (IF k - 1 \in E THEN 0 ELSE 1)
    BY <1>1, <2>6, UnshiftNext
  <2>9. k - 1 \in E <=> k \in S
    BY <1>1, <2>6
  <2> QED
    BY <2>2, <2>3, <2>4, <2>7, <2>8, <2>9
<1>4. j > i => unshift(E, j) = unshift(S, j + 1) - (IF i \in S THEN 0 ELSE 1)
  BY <1>3
<1> QED
  BY <1>2, <1>4 DEF E

\* The k-th smallest of a finite set.
LEMMA AscendingFacts ==
    ASSUME NEW S \in SUBSET Nat, IsFiniteSet(S)
    PROVE  /\ DOMAIN Increasing(S) = 1 .. Cardinality(S)
           /\ Cardinality(S) \in Nat
           /\ \A k \in DOMAIN Increasing(S) :
                  /\ Increasing(S)[k] \in S
                  /\ Cardinality({y \in S : y < Increasing(S)[k]}) = k - 1
           /\ \A x \in S : \E k \in DOMAIN Increasing(S) : Increasing(S)[k] = x
           /\ \A k, l \in DOMAIN Increasing(S) :
                  k < l => Increasing(S)[k] < Increasing(S)[l]
<1> DEFINE n == Cardinality(S)
           below(x) == {y \in S : y < x}
           rank == [x \in S |-> Cardinality(below(x)) + 1]
<1>1. n \in Nat
  BY FS_CardinalityType
<1>2. ASSUME NEW x \in S
      PROVE  IsFiniteSet(below(x)) /\ rank[x] \in 1..n /\ Cardinality(below(x)) \in Nat
  <2>1. below(x) \in SUBSET S /\ below(x) # S
    <3>1. x \notin below(x)
      OBVIOUS
    <3> QED
      BY <3>1
  <2>2. /\ IsFiniteSet(below(x)) /\ Cardinality(below(x)) <= n
        /\ n # Cardinality(below(x))
    BY <2>1, FS_Subset
  <2>3. Cardinality(below(x)) \in Nat
    BY <2>2, FS_CardinalityType
  <2> QED
    BY <1>1, <2>2, <2>3
<1>3. ASSUME NEW x \in S, NEW y \in S, x < y
      PROVE  rank[x] < rank[y]
  <2>1. below(x) \in SUBSET below(y) /\ x \in below(y) /\ x \notin below(x)
    <3>1. x \in Int /\ y \in Int /\ \A z \in S : z \in Int
      OBVIOUS
    <3>2. \A z \in S : z < x => z < y
      BY <1>3, <3>1
    <3>3. ~(x < x)
      BY <3>1
    <3>4. below(x) \in SUBSET below(y)
      BY <3>2
    <3>5. x \in below(y)
      BY <1>3
    <3>6. x \notin below(x)
      BY <3>3
    <3> QED
      BY <3>4, <3>5, <3>6
  <2>2. below(x) # below(y)
    BY <2>1
  <2>3. Cardinality(below(x)) <= Cardinality(below(y)) /\ Cardinality(below(y)) # Cardinality(below(x))
    BY <1>2, <2>1, <2>2, FS_Subset
  <2> QED
    BY <1>2, <2>3
<1>4. rank \in Injection(S, 1..n)
  <2>1. rank \in [S -> 1..n]
    BY <1>2
  <2>2. ASSUME NEW x \in S, NEW y \in S, rank[x] = rank[y]
        PROVE  x = y
    <3>1. rank[x] \in Nat /\ rank[y] \in Nat
      BY <1>2
    <3>2. ~(x < y) /\ ~(y < x)
      BY <1>3, <2>2, <3>1
    <3> QED
      BY <3>2
  <2> QED
    BY <2>1, <2>2 DEF Injection, IsInjective
<1>5. rank \in Surjection(S, 1..n)
  <2>1. IsFiniteSet(1..n) /\ Cardinality(1..n) = n
    BY <1>1, FS_Interval
  <2> QED
    BY <1>4, <2>1, FS_Injection
<1>6. ASSUME NEW k \in 1..n
      PROVE  \E x \in S : Cardinality(below(x)) = k - 1
  <2>1. PICK x \in S : rank[x] = k
    BY <1>5 DEF Surjection
  <2>2. Cardinality(below(x)) + 1 = k /\ Cardinality(below(x)) \in Nat
    BY <1>2, <2>1
  <2>3. Cardinality(below(x)) = k - 1
    BY <2>2
  <2> QED
    BY <2>3
<1> DEFINE a == Increasing(S)
<1>7. a = [k \in 1..n |-> CHOOSE x \in S : Cardinality({y \in S : y < x}) = k - 1]
  BY DEF Increasing
<1> HIDE DEF a
<1>8. ASSUME NEW k \in 1..n
      PROVE  a[k] \in S /\ Cardinality(below(a[k])) = k - 1
  BY <1>6, <1>7
<1>9. ASSUME NEW k \in 1..n
      PROVE  a[k] \in S /\ rank[a[k]] = k
  BY <1>8
<1>10. ASSUME NEW x \in S
       PROVE  rank[x] \in 1..n /\ a[rank[x]] = x
  <2>1. a[rank[x]] \in S /\ rank[a[rank[x]]] = rank[x]
    BY <1>2, <1>9
  <2> QED
    BY <1>2, <1>4, <2>1 DEF Injection, IsInjective
<1>11. ASSUME NEW k \in 1..n, NEW l \in 1..n, k < l
       PROVE  a[k] < a[l]
  <2>4. a[k] \in S /\ a[l] \in S /\ rank[a[k]] = k /\ rank[a[l]] = l
    BY <1>9
  <2>1. ~(a[l] < a[k])
    <3>1. SUFFICES ASSUME a[l] < a[k] PROVE FALSE
      OBVIOUS
    <3>2. rank[a[l]] < rank[a[k]]
      BY <1>3, <2>4, <3>1
    <3>3. l < k
      BY <2>4, <3>2
    <3> QED
      BY <1>11, <3>3
  <2>2. a[l] # a[k]
    <3>1. rank[a[l]] # rank[a[k]]
      BY <1>11, <2>4
    <3> QED
      BY <3>1
  <2>3. a[k] \in Nat /\ a[l] \in Nat
    BY <1>9
  <2> QED
    BY <2>1, <2>2, <2>3
<1>12. DOMAIN a = 1..n
  BY <1>7
<1> QED
  BY <1>1, <1>8, <1>10, <1>11, <1>12 DEF a

\* What is chosen of a sequence keeps its order.
LEMMA ChosenFacts ==
    ASSUME NEW T, NEW s \in Seq(T), NEW K \in SUBSET DOMAIN s
    PROVE  /\ Chosen(s, K) \in Seq(T)
           /\ \A k \in DOMAIN Chosen(s, K) :
                  /\ Increasing(K)[k] \in K
                  /\ Chosen(s, K)[k] = s[Increasing(K)[k]]
           /\ \A i \in K : \E k \in DOMAIN Chosen(s, K) :
                  Increasing(K)[k] = i /\ Chosen(s, K)[k] = s[i]
           /\ \A k, l \in DOMAIN Chosen(s, K) : k # l => Increasing(K)[k] # Increasing(K)[l]
           /\ Len(Chosen(s, K)) = Cardinality(K)
           /\ DOMAIN Chosen(s, K) = DOMAIN Increasing(K)
<1> DEFINE at == Increasing(K)
           n == Cardinality(K)
<1>1. Len(s) \in Nat /\ DOMAIN s = 1..Len(s) /\ \A i \in DOMAIN s : s[i] \in T
  BY RowsFacts
<1>2. K \in SUBSET Nat /\ IsFiniteSet(K)
  <2>1. IsFiniteSet(1..Len(s)) /\ K \in SUBSET (1..Len(s))
    BY <1>1, FS_Interval
  <2>2. IsFiniteSet(K)
    BY <2>1, FS_Subset
  <2> QED
    BY <1>1, <2>1, <2>2
<1>3. /\ DOMAIN at = 1..n /\ n \in Nat
      /\ \A k \in DOMAIN at : at[k] \in K
      /\ \A x \in K : \E k \in DOMAIN at : at[k] = x
      /\ \A k, l \in DOMAIN at : k < l => at[k] < at[l]
  BY <1>2, AscendingFacts
<1> HIDE DEF at
<1>4. Chosen(s, K) = [k \in 1..n |-> s[at[k]]]
  BY <1>3 DEF Chosen, at
<1>5. \A k \in 1..n : s[at[k]] \in T
  BY <1>1, <1>3
<1>6. Chosen(s, K) \in Seq(T) /\ Len(Chosen(s, K)) = n
  BY <1>3, <1>4, <1>5
<1>7. ASSUME NEW k \in 1..n, NEW l \in 1..n, k # l
      PROVE  at[k] # at[l]
  <2>1. at[k] \in Nat /\ at[l] \in Nat
    BY <1>2, <1>3
  <2>2. k < l \/ l < k
    BY <1>7
  <2> QED
    BY <1>3, <2>1, <2>2
<1> QED
  BY <1>3, <1>4, <1>6, <1>7 DEF at

-----------------------------------------------------------------------------
(* Two lists told apart by index sets and moves                              *)

MoveRecord == [from : Nat, to : Nat]

\* D taken out of s leaves what I taken out of t leaves.
Same(D, I, s, t) ==
    /\ unshift(D, Len(s)) = unshift(I, Len(t))
    /\ \A i \in Positions(s) \ D, j \in Positions(t) \ I :
           unshift(D, i) = unshift(I, j) => At0(s, i) = At0(t, j)

\* A move is a deletion and an insertion of the same entry.
MovesFit(moves, D, I, s, t) ==
    /\ \A k \in DOMAIN moves :
           /\ moves[k].from \in D \cap Positions(s) /\ moves[k].to \in I
           /\ At0(s, moves[k].from) = At0(t, moves[k].to)
    /\ \A k, l \in DOMAIN moves :
           k # l => moves[k].from # moves[l].from /\ moves[k].to # moves[l].to

\* The entries of t that come from s, other than those of I but with those of P, are
\* modified if they are new in T.
Targets(moves) == {moves[k].to : k \in DOMAIN moves}

LEMMA PositionFacts ==
    ASSUME NEW T, NEW s \in Seq(T)
    PROVE  /\ Len(s) \in Nat
           /\ Positions(s) \in SUBSET Nat /\ IsFiniteSet(Positions(s))
           /\ \A i \in Nat : i \in Positions(s) <=> i < Len(s)
           /\ \A i \in Positions(s) : At0(s, i) \in T /\ i + 1 \in DOMAIN s
<1>1. Len(s) \in Nat /\ DOMAIN s = 1..Len(s) /\ \A i \in DOMAIN s : s[i] \in T
  BY RowsFacts
<1>2. IsFiniteSet(0..(Len(s) - 1))
  BY <1>1, FS_Interval
<1> QED
  BY <1>1, <1>2 DEF Positions, At0

LEMMA RankOrder ==
    ASSUME NEW S \in SUBSET Nat, NEW i \in Nat, NEW j \in Nat, i \notin S
    PROVE  /\ i < j <=> unshift(S, i) < unshift(S, j)
           /\ j \notin S => (i = j <=> unshift(S, i) = unshift(S, j))
<1>1. unshift(S, i) \in Nat /\ unshift(S, j) \in Nat
  BY UnshiftIsFree
<1>2. i < j => unshift(S, i) < unshift(S, j)
  BY UnshiftGrows
<1>3. j < i => unshift(S, j) <= unshift(S, i)
  BY UnshiftGrows
<1>4. j \notin S /\ j < i => unshift(S, j) < unshift(S, i)
  BY UnshiftGrows
<1> QED
  BY <1>1, <1>2, <1>3, <1>4

\* Every entry that stays has its place in the other list.
LEMMA SameFacts ==
    ASSUME NEW D \in SUBSET Nat, NEW I \in SUBSET Nat, IsFiniteSet(D), IsFiniteSet(I),
           NEW s \in Seq(Nat), NEW t \in Seq(Nat), Same(D, I, s, t)
    PROVE  /\ \A j \in Positions(t) \ I :
                  LET i == shift(D, unshift(I, j))
                  IN  /\ i \in Positions(s) \ D /\ unshift(D, i) = unshift(I, j)
                      /\ At0(s, i) = At0(t, j)
           /\ \A i \in Positions(s) \ D :
                  LET j == shift(I, unshift(D, i))
                  IN  /\ j \in Positions(t) \ I /\ unshift(D, i) = unshift(I, j)
                      /\ At0(s, i) = At0(t, j)
<1>1. /\ Len(s) \in Nat /\ Len(t) \in Nat
      /\ Positions(s) \in SUBSET Nat /\ Positions(t) \in SUBSET Nat
      /\ \A i \in Nat : i \in Positions(s) <=> i < Len(s)
      /\ \A i \in Nat : i \in Positions(t) <=> i < Len(t)
  BY PositionFacts
<1>2. ASSUME NEW j \in Positions(t) \ I
      PROVE  LET i == shift(D, unshift(I, j))
             IN  /\ i \in Positions(s) \ D /\ unshift(D, i) = unshift(I, j)
                 /\ At0(s, i) = At0(t, j)
  <2>1. j \in Nat /\ j \notin I /\ j < Len(t) /\ unshift(I, j) \in Nat
    BY <1>1, UnshiftIsFree
  <2>2. PICK i \in Nat : i = shift(D, unshift(I, j)) /\ i \notin D /\ unshift(D, i) = unshift(I, j)
    BY <2>1, ShiftFacts
  <2>3. unshift(D, i) < unshift(D, Len(s))
    BY <1>1, <2>1, <2>2, RankOrder DEF Same
  <2>4. i < Len(s)
    BY <1>1, <2>2, <2>3, RankOrder
  <2> QED
    BY <1>1, <2>2, <2>4 DEF Same
<1>3. ASSUME NEW i \in Positions(s) \ D
      PROVE  LET j == shift(I, unshift(D, i))
             IN  /\ j \in Positions(t) \ I /\ unshift(D, i) = unshift(I, j)
                 /\ At0(s, i) = At0(t, j)
  <2>1. i \in Nat /\ i \notin D /\ i < Len(s) /\ unshift(D, i) \in Nat
    BY <1>1, UnshiftIsFree
  <2>2. PICK j \in Nat : j = shift(I, unshift(D, i)) /\ j \notin I /\ unshift(I, j) = unshift(D, i)
    BY <2>1, ShiftFacts
  <2>3. unshift(I, j) < unshift(I, Len(t))
    BY <1>1, <2>1, <2>2, RankOrder DEF Same
  <2>4. j < Len(t)
    BY <1>1, <2>2, <2>3, RankOrder
  <2> QED
    BY <1>1, <2>2, <2>4 DEF Same
<1> QED
  BY <1>2, <1>3

\* u is t with an entry more at i, and t with the one at i less.
Longer(t, i, u) ==
    /\ Len(u) = Len(t) + 1
    /\ \A j \in 0..(i - 1) : At0(u, j) = At0(t, j)
    /\ \A j \in i..(Len(t) - 1) : At0(u, j + 1) = At0(t, j)

Shorter(t, i, u) ==
    /\ Len(u) = Len(t) - 1
    /\ \A j \in 0..(i - 1) : At0(u, j) = At0(t, j)
    /\ \A j \in i..(Len(t) - 2) : At0(u, j) = At0(t, j + 1)

LEMMA SameInserted ==
    ASSUME NEW D \in SUBSET Nat, NEW I \in SUBSET Nat,
           NEW s \in Seq(Nat), NEW t \in Seq(Nat), Same(D, I, s, t),
           NEW i \in 0..Len(t), NEW u \in Seq(Nat), Longer(t, i, u)
    PROVE  Same(D, insert_at(I, i, 1), s, u)
<1> DEFINE J == insert_at(I, i, 1)
<1>1. /\ Len(s) \in Nat /\ Len(t) \in Nat /\ Len(u) = Len(t) + 1 /\ i \in Nat
      /\ Positions(s) \in SUBSET Nat /\ Positions(u) \in SUBSET Nat
      /\ \A k \in Nat : k \in Positions(u) <=> k < Len(t) + 1
      /\ \A k \in Nat : k \in Positions(t) <=> k < Len(t)
  <2>1. Len(s) \in Nat /\ Positions(s) \in SUBSET Nat
    BY PositionFacts
  <2>2. Len(t) \in Nat /\ \A k \in Nat : k \in Positions(t) <=> k < Len(t)
    BY PositionFacts
  <2>3. Positions(u) \in SUBSET Nat /\ \A k \in Nat : k \in Positions(u) <=> k < Len(u)
    BY PositionFacts
  <2>4. Len(u) = Len(t) + 1
    BY DEF Longer
  <2> QED
    BY <2>1, <2>2, <2>3, <2>4
<1>2. /\ J \in SUBSET Nat
      /\ \A x \in Nat : x \in J <=> x = i \/ (x < i /\ x \in I) \/ (x > i /\ x - 1 \in I)
  BY <1>1, InsertedSet
<1>3. \A j \in Nat : unshift(J, j) = IF j <= i THEN unshift(I, j) ELSE unshift(I, j - 1)
  BY <1>1, InsertedRanks
<1> HIDE DEF J
<1>4. unshift(D, Len(s)) = unshift(J, Len(u))
  BY <1>1, <1>3 DEF Same
<1>5. ASSUME NEW k \in Positions(s) \ D, NEW j \in Positions(u) \ J,
             unshift(D, k) = unshift(J, j)
      PROVE  At0(s, k) = At0(u, j)
  <2>1. j \in Nat /\ j # i /\ j < Len(t) + 1
    BY <1>1, <1>2
  <2>2. CASE j < i
    <3>1. j \in Positions(t) \ I /\ unshift(D, k) = unshift(I, j)
      BY <1>1, <1>2, <1>3, <1>5, <2>1, <2>2
    <3>2. At0(u, j) = At0(t, j)
      BY <1>1, <2>1, <2>2 DEF Longer
    <3> QED
      BY <3>1, <3>2 DEF Same
  <2>3. CASE j > i
    <3>1. j - 1 \in Positions(t) \ I /\ unshift(D, k) = unshift(I, j - 1)
      BY <1>1, <1>2, <1>3, <1>5, <2>1, <2>3
    <3>2. At0(u, (j - 1) + 1) = At0(t, j - 1) /\ (j - 1) + 1 = j
      BY <1>1, <2>1, <2>3 DEF Longer
    <3> QED
      BY <3>1, <3>2 DEF Same
  <2> QED
    BY <1>1, <2>1, <2>2, <2>3
<1> QED
  BY <1>4, <1>5 DEF Same, J

LEMMA SameErased ==
    ASSUME NEW D \in SUBSET Nat, NEW I \in SUBSET Nat, IsFiniteSet(D), IsFiniteSet(I),
           NEW s \in Seq(Nat), NEW t \in Seq(Nat), Same(D, I, s, t),
           NEW i \in Positions(t), NEW u \in Seq(Nat), Shorter(t, i, u)
    PROVE  Same(IF i \in I THEN D ELSE add_shifted(D, unshift(I, i)), erase_at(I, i), s, u)
<1> DEFINE J == erase_at(I, i)
           d == shift(D, unshift(I, i))
           n == Len(t)
<1>1. /\ Len(s) \in Nat /\ n \in Nat /\ Len(u) = n - 1 /\ i \in Nat /\ i < n
      /\ Positions(s) \in SUBSET Nat /\ Positions(u) \in SUBSET Nat
      /\ \A k \in Nat : k \in Positions(u) <=> k < n - 1
      /\ \A k \in Nat : k \in Positions(t) <=> k < n
      /\ \A k \in Nat : k \in Positions(s) <=> k < Len(s)
  BY PositionFacts DEF Shorter
<1>2. /\ J \in SUBSET Nat
      /\ \A x \in Nat : x \in J <=> (x < i /\ x \in I) \/ (x >= i /\ x + 1 \in I)
  BY <1>1, ErasedSet
<1>3. \A j \in Nat : unshift(J, j) =
          IF j <= i THEN unshift(I, j) ELSE unshift(I, j + 1) - (IF i \in I THEN 0 ELSE 1)
  BY <1>1, ErasedRanks
<1>4. \A k \in Nat : unshift(I, k) \in Nat /\ unshift(D, k) \in Nat
  BY UnshiftIsFree
<1>5. unshift(I, i) = unshift(I, i + 1) - (IF i \in I THEN 0 ELSE 1)
  <2>1. unshift(I, i + 1) = unshift(I, i) + (IF i \in I THEN 0 ELSE 1)
    BY <1>1, UnshiftNext
  <2>2. unshift(I, i) \in Nat
    BY <1>1, <1>4
  <2> QED
    BY <2>1, <2>2
<1>6. unshift(D, Len(s)) = unshift(I, n)
  BY DEF Same
<1>7. unshift(J, n - 1) = unshift(I, n) - (IF i \in I THEN 0 ELSE 1)
  <2>1. n - 1 \in Nat /\ (n - 1) + 1 = n
    BY <1>1
  <2>2. unshift(J, n - 1) = IF n - 1 <= i THEN unshift(I, n - 1)
                            ELSE unshift(I, (n - 1) + 1) - (IF i \in I THEN 0 ELSE 1)
    BY <1>3, <2>1
  <2>3. CASE n - 1 = i
    <3>1. unshift(J, n - 1) = unshift(I, i) /\ n = i + 1
      BY <1>1, <2>1, <2>2, <2>3
    <3> QED
      BY <1>5, <3>1
  <2>4. CASE n - 1 > i
    <3>1. ~(n - 1 <= i)
      BY <1>1, <2>4
    <3> QED
      BY <2>1, <2>2, <3>1
  <2> QED
    BY <1>1, <2>3, <2>4
<1> HIDE DEF J
<1>8. ASSUME NEW j \in Positions(u) \ J
      PROVE  \E k \in Positions(t) \ I :
                 /\ k # i /\ At0(u, j) = At0(t, k)
                 /\ unshift(J, j) = unshift(I, k) - (IF i \notin I /\ k > i THEN 1 ELSE 0)
  <2>1. j \in Nat /\ j < n - 1
    BY <1>1
  <2>2. CASE j < i
    <3>1. j \in Positions(t) \ I /\ j # i /\ ~(j > i) /\ unshift(J, j) = unshift(I, j)
      BY <1>1, <1>2, <1>3, <2>1, <2>2
    <3>2. At0(u, j) = At0(t, j)
      BY <1>1, <2>1, <2>2 DEF Shorter
    <3>3. unshift(I, j) \in Nat
      BY <1>4, <2>1
    <3> QED
      BY <3>1, <3>2, <3>3
  <2>3. CASE j >= i
    <3>1. j + 1 \in Positions(t) \ I /\ j + 1 # i /\ j + 1 > i
      BY <1>1, <1>2, <2>1, <2>3
    <3>2. At0(u, j) = At0(t, j + 1)
      BY <1>1, <2>1, <2>3 DEF Shorter
    <3>3. unshift(J, j) = unshift(I, j + 1) - (IF i \notin I THEN 1 ELSE 0)
      <4>1. unshift(J, j) = IF j <= i THEN unshift(I, j)
                            ELSE unshift(I, j + 1) - (IF i \in I THEN 0 ELSE 1)
        BY <1>3, <2>1
      <4>2. CASE j = i
        <5>1. unshift(J, j) = unshift(I, i) /\ unshift(I, j + 1) = unshift(I, i + 1)
          BY <1>1, <4>1, <4>2
        <5> QED
          BY <1>5, <5>1
      <4>3. CASE j > i
        <5>1. ~(j <= i)
          BY <1>1, <2>1, <4>3
        <5> QED
          BY <4>1, <5>1
      <4> QED
        BY <1>1, <2>1, <2>3, <4>2, <4>3
    <3> QED
      BY <3>1, <3>2, <3>3
  <2> QED
    BY <1>1, <2>1, <2>2, <2>3
<1>9. CASE i \in I
  <2>1. ASSUME NEW k \in Positions(s) \ D, NEW j \in Positions(u) \ J,
               unshift(D, k) = unshift(J, j)
        PROVE  At0(s, k) = At0(u, j)
    <3>1. PICK l \in Positions(t) \ I : At0(u, j) = At0(t, l) /\ unshift(J, j) = unshift(I, l) - 0
      BY <1>8, <1>9
    <3>2. unshift(I, l) \in Nat
      BY <1>1, <1>4, <3>1, PositionFacts
    <3> QED
      BY <2>1, <3>1, <3>2 DEF Same
  <2>2. unshift(D, Len(s)) = unshift(J, Len(u))
    BY <1>1, <1>4, <1>6, <1>7, <1>9
  <2> QED
    BY <1>9, <2>1, <2>2 DEF Same, J
<1>10. CASE i \notin I
  <2>1. d \in Positions(s) /\ d \in Nat /\ d \notin D /\ unshift(D, d) = unshift(I, i)
    <3>1. i \in Positions(t) \ I
      BY <1>10
    <3>2. d \in Positions(s) \ D /\ unshift(D, d) = unshift(I, i)
      BY <3>1, SameFacts
    <3> QED
      BY <1>1, <3>2
  <2> HIDE DEF d
  <2>2. D \cup {d} \in SUBSET Nat
        /\ \A k \in Nat : unshift(D \cup {d}, k) = unshift(D, k) - (IF d < k THEN 1 ELSE 0)
    BY <2>1, UnshiftAdd
  <2>3. unshift(D \cup {d}, Len(s)) = unshift(J, Len(u))
    BY <1>1, <1>4, <1>6, <1>7, <1>10, <2>1, <2>2
  <2>4. ASSUME NEW k \in Positions(s) \ (D \cup {d}), NEW j \in Positions(u) \ J,
               unshift(D \cup {d}, k) = unshift(J, j)
        PROVE  At0(s, k) = At0(u, j)
    <3>1. PICK l \in Positions(t) \ I :
              /\ l # i /\ At0(u, j) = At0(t, l)
              /\ unshift(J, j) = unshift(I, l) - (IF l > i THEN 1 ELSE 0)
      BY <1>8, <1>10
    <3>2. k \in Nat /\ l \in Nat /\ k \notin D /\ k # d
      BY <1>1, <3>1, PositionFacts
    <3>3. /\ d < k <=> unshift(I, i) < unshift(D, k)
          /\ unshift(D, k) # unshift(I, i)
      BY <2>1, <3>2, RankOrder
    <3>4. /\ i < l <=> unshift(I, i) < unshift(I, l)
          /\ unshift(I, l) # unshift(I, i)
      BY <1>1, <1>10, <3>1, <3>2, RankOrder
    <3>5. unshift(D, k) = unshift(I, l)
      <4>1. unshift(D, k) - (IF d < k THEN 1 ELSE 0) = unshift(I, l) - (IF l > i THEN 1 ELSE 0)
        BY <2>2, <2>4, <3>1, <3>2
      <4>2. unshift(D, k) \in Nat /\ unshift(I, l) \in Nat /\ unshift(I, i) \in Nat
        BY <1>1, <1>4, <3>2
      <4>3. l > i <=> i < l
        BY <1>1, <3>2
      <4> QED
        BY <3>3, <3>4, <4>1, <4>2, <4>3
    <3> QED
      BY <3>1, <3>2, <3>5 DEF Same
  <2>5. add_shifted(D, unshift(I, i)) = D \cup {d}
    BY DEF add_shifted, d
  <2> QED
    BY <1>10, <2>3, <2>4, <2>5 DEF Same, J
<1> QED
  BY <1>9, <1>10

-----------------------------------------------------------------------------
(* Lists of moves                                                            *)

LEMMA MoveFields ==
    ASSUME NEW m \in MoveRecord, NEW x \in Nat
    PROVE  /\ m.from \in Nat /\ m.to \in Nat
           /\ [m EXCEPT !.to = x] \in MoveRecord
           /\ [m EXCEPT !.to = x].from = m.from /\ [m EXCEPT !.to = x].to = x
           /\ [m EXCEPT !.from = x] \in MoveRecord
           /\ [m EXCEPT !.from = x].from = x /\ [m EXCEPT !.from = x].to = m.to
BY DEF MoveRecord

\* Moves whose rows go elsewhere.
Redirected(moves, f) == [k \in DOMAIN moves |-> [moves[k] EXCEPT !.to = f[moves[k].to]]]

\* f takes the rows that moved in t to rows of u among J, and D grows to E.
Carries(f, moves, D, t, E, J, u) ==
    /\ f \in [Nat -> Nat] /\ D \subseteq E
    /\ \A k \in DOMAIN moves :
           f[moves[k].to] \in J /\ At0(u, f[moves[k].to]) = At0(t, moves[k].to)
    /\ \A k, l \in DOMAIN moves :
           f[moves[k].to] = f[moves[l].to] => moves[k].to = moves[l].to

LEMMA MovesCarried ==
    ASSUME NEW moves \in Seq(MoveRecord), NEW D, NEW I, NEW E, NEW J,
           NEW s, NEW t, NEW u, NEW f,
           MovesFit(moves, D, I, s, t), Carries(f, moves, D, t, E, J, u)
    PROVE  /\ Redirected(moves, f) \in Seq(MoveRecord)
           /\ MovesFit(Redirected(moves, f), E, J, s, u)
<1> DEFINE new == Redirected(moves, f)
<1>1. \A k \in DOMAIN moves : moves[k] \in MoveRecord
  BY RowsFacts
<1>2. ASSUME NEW k \in DOMAIN moves
      PROVE  /\ [moves[k] EXCEPT !.to = f[moves[k].to]] \in MoveRecord
             /\ [moves[k] EXCEPT !.to = f[moves[k].to]].from = moves[k].from
             /\ [moves[k] EXCEPT !.to = f[moves[k].to]].to = f[moves[k].to]
  <2>1. moves[k] \in MoveRecord /\ moves[k].to \in Nat
    BY <1>1, MoveFields
  <2>2. f[moves[k].to] \in Nat
    BY <2>1 DEF Carries
  <2> QED
    BY <2>1, <2>2, MoveFields
<1>3. /\ DOMAIN new = DOMAIN moves
      /\ \A k \in DOMAIN moves :
             new[k] \in MoveRecord /\ new[k].from = moves[k].from /\ new[k].to = f[moves[k].to]
  BY <1>2 DEF Redirected
<1>4. new \in [DOMAIN moves -> MoveRecord]
  BY <1>2 DEF Redirected
<1>5. new \in Seq(MoveRecord)
  BY <1>4, MappedFacts
<1> HIDE DEF new
<1>6. MovesFit(new, E, J, s, u)
  <2>1. ASSUME NEW k \in DOMAIN new
        PROVE  /\ new[k].from \in E \cap Positions(s) /\ new[k].to \in J
               /\ At0(s, new[k].from) = At0(u, new[k].to)
    BY <1>3 DEF MovesFit, Carries
  <2>2. ASSUME NEW k \in DOMAIN new, NEW l \in DOMAIN new, k # l
        PROVE  new[k].from # new[l].from /\ new[k].to # new[l].to
    <3>1. moves[k].from # moves[l].from /\ moves[k].to # moves[l].to
      BY <1>3, <2>2 DEF MovesFit
    <3> QED
      BY <1>3, <3>1 DEF Carries
  <2> QED
    BY <2>1, <2>2 DEF MovesFit
<1> QED
  BY <1>5, <1>6 DEF new

LEMMA TargetsRedirected ==
    ASSUME NEW moves \in Seq(MoveRecord), NEW f \in [Nat -> Nat],
           NEW j \in Targets(Redirected(moves, f))
    PROVE  \E x \in Targets(moves) : j = f[x]
<1> DEFINE new == Redirected(moves, f)
<1>1. DOMAIN new = DOMAIN moves
  BY DEF Redirected
<1>2. PICK k \in DOMAIN new : j = new[k].to
  BY DEF Targets
<1>3. moves[k] \in MoveRecord /\ moves[k].to \in Nat
  BY <1>1, <1>2, RowsFacts, MoveFields
<1>4. f[moves[k].to] \in Nat
  BY <1>3
<1>5. new[k] = [moves[k] EXCEPT !.to = f[moves[k].to]]
  BY <1>1 DEF Redirected
<1>6. new[k].to = f[moves[k].to]
  BY <1>3, <1>4, <1>5, MoveFields
<1> QED
  BY <1>1, <1>2, <1>6 DEF Targets

LEMMA MovesChosen ==
    ASSUME NEW moves \in Seq(MoveRecord), NEW K \in SUBSET DOMAIN moves,
           NEW D, NEW I, NEW s, NEW t, MovesFit(moves, D, I, s, t)
    PROVE  /\ Chosen(moves, K) \in Seq(MoveRecord)
           /\ MovesFit(Chosen(moves, K), D, I, s, t)
           /\ Targets(Chosen(moves, K)) = {moves[k].to : k \in K}
           /\ \A l \in DOMAIN Chosen(moves, K) : \E k \in K : Chosen(moves, K)[l] = moves[k]
<1> DEFINE c == Chosen(moves, K)
           at == Increasing(K)
<1>1. /\ c \in Seq(MoveRecord)
      /\ \A k \in DOMAIN c : at[k] \in K /\ c[k] = moves[at[k]]
      /\ \A i \in K : \E k \in DOMAIN c : at[k] = i /\ c[k] = moves[i]
      /\ \A k, l \in DOMAIN c : k # l => at[k] # at[l]
  BY ChosenFacts
<1> HIDE DEF c, at
<1>2. MovesFit(c, D, I, s, t)
  <2>1. \A k \in DOMAIN c : at[k] \in DOMAIN moves
    BY <1>1
  <2>2. ASSUME NEW k \in DOMAIN c
        PROVE  /\ c[k].from \in D \cap Positions(s) /\ c[k].to \in I
               /\ At0(s, c[k].from) = At0(t, c[k].to)
    BY <1>1, <2>1 DEF MovesFit
  <2>3. ASSUME NEW k \in DOMAIN c, NEW l \in DOMAIN c, k # l
        PROVE  c[k].from # c[l].from /\ c[k].to # c[l].to
    <3>1. at[k] # at[l] /\ c[k] = moves[at[k]] /\ c[l] = moves[at[l]]
      BY <1>1, <2>3
    <3> QED
      BY <2>1, <3>1 DEF MovesFit
  <2> QED
    BY <2>2, <2>3 DEF MovesFit
<1>3. Targets(c) = {moves[k].to : k \in K}
  BY <1>1 DEF Targets
<1> QED
  BY <1>1, <1>2, <1>3 DEF c

LEMMA MovesJoined ==
    ASSUME NEW p \in Seq(MoveRecord), NEW q \in Seq(MoveRecord), NEW D, NEW I, NEW s, NEW t,
           MovesFit(p, D, I, s, t), MovesFit(q, D, I, s, t),
           \A k \in DOMAIN p, l \in DOMAIN q : p[k].from # q[l].from /\ p[k].to # q[l].to
    PROVE  /\ p \o q \in Seq(MoveRecord)
           /\ MovesFit(p \o q, D, I, s, t)
           /\ Targets(p \o q) = Targets(p) \cup Targets(q)
<1> DEFINE m == Len(p)
           n == Len(q)
           r == p \o q
<1>1. m \in Nat /\ n \in Nat /\ DOMAIN p = 1..m /\ DOMAIN q = 1..n
  BY RowsFacts
<1>2. /\ r \in Seq(MoveRecord) /\ DOMAIN r = 1..(m + n)
      /\ \A k \in 1..(m + n) : r[k] = IF k <= m THEN p[k] ELSE q[k - m]
  <2>1. /\ r \in Seq(MoveRecord) /\ Len(r) = m + n
        /\ \A k \in 1..(m + n) : r[k] = IF k <= m THEN p[k] ELSE q[k - m]
    BY LineFacts
  <2> QED
    BY <2>1, RowsFacts
<1> HIDE DEF r, m, n
<1>3. ASSUME NEW k \in DOMAIN r
      PROVE  \/ k \in DOMAIN p /\ r[k] = p[k] /\ k <= m
             \/ k - m \in DOMAIN q /\ r[k] = q[k - m] /\ k > m
  BY <1>1, <1>2
<1>4. ASSUME NEW k \in DOMAIN r
      PROVE  /\ r[k].from \in D \cap Positions(s) /\ r[k].to \in I
             /\ At0(s, r[k].from) = At0(t, r[k].to)
  BY <1>3 DEF MovesFit
<1>5. ASSUME NEW k \in DOMAIN r, NEW l \in DOMAIN r, k # l
      PROVE  r[k].from # r[l].from /\ r[k].to # r[l].to
  <2>1. CASE k \in DOMAIN p /\ r[k] = p[k] /\ l \in DOMAIN p /\ r[l] = p[l]
    BY <1>5, <2>1 DEF MovesFit
  <2>2. CASE k - m \in DOMAIN q /\ r[k] = q[k - m] /\ l - m \in DOMAIN q /\ r[l] = q[l - m]
    <3>1. k - m # l - m
      BY <1>1, <1>2, <1>5
    <3> QED
      BY <2>2, <3>1 DEF MovesFit
  <2>3. CASE k \in DOMAIN p /\ r[k] = p[k] /\ l - m \in DOMAIN q /\ r[l] = q[l - m]
    BY <2>3
  <2>4. CASE k - m \in DOMAIN q /\ r[k] = q[k - m] /\ l \in DOMAIN p /\ r[l] = p[l]
    BY <2>4
  <2> QED
    BY <1>3, <2>1, <2>2, <2>3, <2>4
<1>6. MovesFit(r, D, I, s, t)
  BY <1>4, <1>5 DEF MovesFit
<1>7. Targets(r) = Targets(p) \cup Targets(q)
  <2>1. ASSUME NEW k \in DOMAIN r
        PROVE  r[k].to \in Targets(p) \cup Targets(q)
    BY <1>3 DEF Targets
  <2>2. ASSUME NEW k \in DOMAIN p
        PROVE  k \in DOMAIN r /\ r[k].to = p[k].to
    BY <1>1, <1>2
  <2>3. ASSUME NEW k \in DOMAIN q
        PROVE  k + m \in DOMAIN r /\ r[k + m].to = q[k].to
    <3>1. k + m \in 1..(m + n) /\ ~(k + m <= m) /\ (k + m) - m = k
      BY <1>1
    <3> QED
      BY <1>2, <3>1
  <2> QED
    BY <2>1, <2>2, <2>3 DEF Targets
<1> QED
  BY <1>2, <1>6, <1>7 DEF r

-----------------------------------------------------------------------------
(* An entry more, an entry less                                              *)

LEMMA DistinctEntries ==
    ASSUME NEW t \in Seq(Nat)
    PROVE  IsInjective(t) <=>
               \A i, j \in Positions(t) : At0(t, i) = At0(t, j) => i = j
<1>1. Len(t) \in Nat /\ DOMAIN t = 1..Len(t) /\ Positions(t) = 0..(Len(t) - 1)
  BY RowsFacts DEF Positions
<1>2. ASSUME IsInjective(t), NEW i \in Positions(t), NEW j \in Positions(t),
             At0(t, i) = At0(t, j)
      PROVE  i = j
  <2>1. i + 1 \in DOMAIN t /\ j + 1 \in DOMAIN t /\ i \in Nat /\ j \in Nat
    BY <1>1
  <2>2. i + 1 = j + 1
    BY <1>2, <2>1 DEF At0, IsInjective
  <2> QED
    BY <2>1, <2>2
<1>3. ASSUME \A i, j \in Positions(t) : At0(t, i) = At0(t, j) => i = j
      PROVE  IsInjective(t)
  <2>1. ASSUME NEW k \in DOMAIN t, NEW l \in DOMAIN t, t[k] = t[l]
        PROVE  k = l
    <3>1. /\ k - 1 \in Positions(t) /\ l - 1 \in Positions(t) /\ k \in Nat /\ l \in Nat
          /\ (k - 1) + 1 = k /\ (l - 1) + 1 = l
      BY <1>1
    <3>2. k - 1 = l - 1
      BY <1>3, <2>1, <3>1 DEF At0
    <3> QED
      BY <3>1, <3>2
  <2> QED
    BY <2>1 DEF IsInjective
<1> QED
  BY <1>2, <1>3

LEMMA InsertedEntry ==
    ASSUME NEW t \in Seq(Nat), NEW i \in 0..Len(t), NEW e \in Nat
    PROVE  LET u == InsertAt(t, i + 1, e)
           IN  u \in Seq(Nat) /\ Longer(t, i, u) /\ At0(u, i) = e
<1> DEFINE n == Len(t)
           front == SubSeq(t, 1, i)
           back == SubSeq(t, i + 1, n)
           one == <<e>>
           u == InsertAt(t, i + 1, e)
<1>1. n \in Nat /\ i \in Nat /\ i <= n /\ \A k \in 1..n : t[k] \in Nat
  <2>1. n \in Nat /\ DOMAIN t = 1..n /\ \A k \in DOMAIN t : t[k] \in Nat
    BY RowsFacts
  <2> QED
    BY <2>1
<1>2. /\ front \in Seq(Nat) /\ Len(front) = i /\ \A k \in 1..i : front[k] = t[k]
  <2>1. 1 \in Int /\ i \in Int /\ \A k \in 1..i : t[k] \in Nat
    BY <1>1
  <2>2. /\ front \in Seq(Nat)
        /\ Len(front) = IF 1 <= i THEN i - 1 + 1 ELSE 0
        /\ \A k \in 1..(i - 1 + 1) : front[k] = t[1 + k - 1]
    BY <2>1, SubSeqProperties
  <2>3. i - 1 + 1 = i /\ Len(front) = i
    BY <1>1, <2>2
  <2>4. ASSUME NEW k \in 1..i
        PROVE  front[k] = t[k]
    <3>1. front[k] = t[1 + k - 1] /\ 1 + k - 1 = k
      BY <2>2, <2>3
    <3> QED
      BY <3>1
  <2> QED
    BY <2>2, <2>3, <2>4
<1>3. /\ back \in Seq(Nat) /\ Len(back) = n - i /\ \A k \in 1..(n - i) : back[k] = t[i + k]
  <2>1. i + 1 \in Int /\ n \in Int /\ \A k \in (i + 1)..n : t[k] \in Nat
    BY <1>1
  <2>2. /\ back \in Seq(Nat)
        /\ Len(back) = IF i + 1 <= n THEN n - (i + 1) + 1 ELSE 0
        /\ \A k \in 1..(n - (i + 1) + 1) : back[k] = t[(i + 1) + k - 1]
    BY <2>1, SubSeqProperties
  <2>3. n - (i + 1) + 1 = n - i /\ Len(back) = n - i
    BY <1>1, <2>2
  <2>4. ASSUME NEW k \in 1..(n - i)
        PROVE  back[k] = t[i + k]
    <3>1. back[k] = t[(i + 1) + k - 1]
      BY <2>2, <2>3
    <3>2. (i + 1) + k - 1 = i + k
      BY <1>1
    <3> QED
      BY <3>1, <3>2
  <2> QED
    BY <2>2, <2>3, <2>4
<1>4. one \in Seq(Nat) /\ Len(one) = 1 /\ one[1] = e
  OBVIOUS
<1>5. u = (front \o one) \o back
  <2>1. (i + 1) - 1 = i
    BY <1>1
  <2> QED
    BY <2>1 DEF InsertAt
<1> HIDE DEF n, front, back, one, u
<1>6. /\ front \o one \in Seq(Nat) /\ Len(front \o one) = i + 1
      /\ \A k \in 1..(i + 1) : (front \o one)[k] = IF k <= i THEN t[k] ELSE e
  <2>1. /\ front \o one \in Seq(Nat) /\ Len(front \o one) = i + 1
        /\ \A k \in 1..(i + 1) : (front \o one)[k] = IF k <= i THEN front[k] ELSE one[k - i]
    <3>1. /\ front \o one \in Seq(Nat) /\ Len(front \o one) = Len(front) + Len(one)
          /\ \A k \in 1..(Len(front) + Len(one)) :
                 (front \o one)[k] = IF k <= Len(front) THEN front[k] ELSE one[k - Len(front)]
      BY <1>2, <1>4, LineFacts
    <3> QED
      BY <1>2, <1>4, <3>1
  <2>2. ASSUME NEW k \in 1..(i + 1)
        PROVE  (front \o one)[k] = IF k <= i THEN t[k] ELSE e
    <3>1. CASE k <= i
      <4>1. k \in 1..i
        BY <1>1, <3>1
      <4> QED
        BY <1>2, <2>1, <3>1, <4>1
    <3>2. CASE ~(k <= i)
      <4>1. k - i = 1
        BY <1>1, <3>2
      <4> QED
        BY <1>4, <2>1, <3>2, <4>1
    <3> QED
      BY <3>1, <3>2
  <2> QED
    BY <2>1, <2>2
<1>7. /\ u \in Seq(Nat) /\ Len(u) = (i + 1) + (n - i)
      /\ \A k \in 1..((i + 1) + (n - i)) :
             u[k] = IF k <= i + 1 THEN (front \o one)[k] ELSE back[k - (i + 1)]
  <2>1. /\ u \in Seq(Nat) /\ Len(u) = Len(front \o one) + Len(back)
        /\ \A k \in 1..(Len(front \o one) + Len(back)) :
               u[k] = IF k <= Len(front \o one) THEN (front \o one)[k]
                      ELSE back[k - Len(front \o one)]
    BY <1>3, <1>5, <1>6, LineFacts
  <2> QED
    BY <1>3, <1>6, <2>1
<1>8. Len(u) = n + 1 /\ (i + 1) + (n - i) = n + 1
  BY <1>1, <1>7
<1>9. ASSUME NEW k \in 1..(n + 1)
      PROVE  u[k] = IF k <= i THEN t[k] ELSE IF k = i + 1 THEN e ELSE t[k - 1]
  <2>1. u[k] = IF k <= i + 1 THEN (front \o one)[k] ELSE back[k - (i + 1)]
    BY <1>7, <1>8
  <2>2. CASE k <= i + 1
    BY <1>1, <1>6, <2>1, <2>2
  <2>3. CASE k > i + 1
    <3>1. /\ ~(k <= i + 1) /\ ~(k <= i) /\ k # i + 1 /\ k - (i + 1) \in 1..(n - i)
          /\ i + (k - (i + 1)) = k - 1
      BY <1>1, <2>3
    <3> QED
      BY <1>3, <2>1, <3>1
  <2> QED
    BY <1>1, <2>2, <2>3
<1>10. At0(u, i) = e
  <2>1. i + 1 \in 1..(n + 1) /\ ~(i + 1 <= i)
    BY <1>1
  <2> QED
    BY <1>9, <2>1 DEF At0
<1>11. ASSUME NEW j \in 0..(i - 1)
       PROVE  At0(u, j) = At0(t, j)
  <2>1. j + 1 \in 1..(n + 1) /\ j + 1 <= i
    BY <1>1
  <2> QED
    BY <1>9, <2>1 DEF At0
<1>12. ASSUME NEW j \in i..(n - 1)
       PROVE  At0(u, j + 1) = At0(t, j)
  <2>1. (j + 1) + 1 \in 1..(n + 1) /\ ~((j + 1) + 1 <= i) /\ (j + 1) + 1 # i + 1
        /\ ((j + 1) + 1) - 1 = j + 1
    BY <1>1
  <2> QED
    BY <1>9, <2>1 DEF At0
<1>13. Longer(t, i, u)
  BY <1>8, <1>11, <1>12 DEF Longer, n
<1> QED
  BY <1>7, <1>10, <1>13 DEF u

LEMMA RemovedEntry ==
    ASSUME NEW t \in Seq(Nat), NEW i \in Positions(t)
    PROVE  LET u == RemoveAt(t, i + 1)
           IN  u \in Seq(Nat) /\ Shorter(t, i, u)
<1> DEFINE u == RemoveAt(t, i + 1)
           n == Len(t)
<1>1. i \in Nat /\ n \in Nat /\ i < n /\ i + 1 \in DOMAIN t
  BY PositionFacts
<1>2. /\ u \in Seq(Nat) /\ Len(u) = n - 1
      /\ \A j \in 1..(n - 1) : u[j] = IF j < i + 1 THEN t[j] ELSE t[j + 1]
  BY <1>1, RemoveAtRows
<1> HIDE DEF u
<1>3. ASSUME NEW j \in 0..(i - 1)
      PROVE  At0(u, j) = At0(t, j)
  <2>1. j + 1 \in 1..(n - 1) /\ j + 1 < i + 1
    BY <1>1
  <2> QED
    BY <1>2, <2>1 DEF At0
<1>4. ASSUME NEW j \in i..(n - 2)
      PROVE  At0(u, j) = At0(t, j + 1)
  <2>1. j + 1 \in 1..(n - 1) /\ ~(j + 1 < i + 1)
    BY <1>1
  <2> QED
    BY <1>2, <2>1 DEF At0
<1> QED
  BY <1>2, <1>3, <1>4 DEF Shorter, u

\* A new entry keeps the entries distinct; so does one less.
LEMMA LongerDistinct ==
    ASSUME NEW t \in Seq(Nat), NEW i \in 0..Len(t), NEW u \in Seq(Nat), Longer(t, i, u),
           IsInjective(t), At0(u, i) \notin ToSet(t)
    PROVE  IsInjective(u)
<1>1. /\ Len(t) \in Nat /\ i \in Nat /\ i <= Len(t)
      /\ \A j \in Nat : j \in Positions(u) <=> j < Len(t) + 1
      /\ \A j \in Nat : j \in Positions(t) <=> j < Len(t)
      /\ Positions(u) \in SUBSET Nat
  <2>1. Len(t) \in Nat /\ \A j \in Nat : j \in Positions(t) <=> j < Len(t)
    BY PositionFacts
  <2>2. Positions(u) \in SUBSET Nat /\ \A j \in Nat : j \in Positions(u) <=> j < Len(u)
    BY PositionFacts
  <2>3. Len(u) = Len(t) + 1
    BY DEF Longer
  <2> QED
    BY <2>1, <2>2, <2>3
<1> DEFINE back(j) == IF j < i THEN j ELSE j - 1
<1>2. ASSUME NEW j \in Positions(u), j # i
      PROVE  back(j) \in Positions(t) /\ At0(u, j) = At0(t, back(j))
  <2>1. j \in Nat /\ j < Len(t) + 1
    BY <1>1
  <2>2. CASE j < i
    BY <1>1, <2>1, <2>2 DEF Longer
  <2>3. CASE j > i
    <3>1. j - 1 \in i..(Len(t) - 1) /\ (j - 1) + 1 = j /\ back(j) = j - 1
      BY <1>1, <2>1, <2>3
    <3>2. At0(u, j) = At0(t, j - 1)
      BY <3>1 DEF Longer
    <3> QED
      BY <1>1, <3>1, <3>2
  <2> QED
    BY <1>1, <1>2, <2>1, <2>2, <2>3
<1>3. ASSUME NEW j \in Positions(t)
      PROVE  At0(t, j) \in ToSet(t)
  BY PositionFacts, RowsFacts DEF At0
<1>4. ASSUME NEW j \in Positions(u), NEW k \in Positions(u), At0(u, j) = At0(u, k)
      PROVE  j = k
  <2>1. j \in Nat /\ k \in Nat
    BY <1>1
  <2>2. CASE j = i /\ k # i
    BY <1>2, <1>3, <1>4, <2>2
  <2>3. CASE j # i /\ k = i
    BY <1>2, <1>3, <1>4, <2>3
  <2>4. CASE j # i /\ k # i
    <3>1. /\ back(j) \in Positions(t) /\ back(k) \in Positions(t)
          /\ At0(t, back(j)) = At0(t, back(k))
      BY <1>2, <1>4, <2>4
    <3>2. back(j) = back(k)
      BY <3>1, DistinctEntries
    <3> QED
      BY <1>1, <2>1, <2>4, <3>2
  <2> QED
    BY <2>2, <2>3, <2>4
<1> QED
  BY <1>4, DistinctEntries

LEMMA ShorterDistinct ==
    ASSUME NEW t \in Seq(Nat), NEW i \in Positions(t), NEW u \in Seq(Nat), Shorter(t, i, u),
           IsInjective(t)
    PROVE  /\ IsInjective(u)
           /\ At0(t, i) \notin ToSet(u)
<1>1. /\ Len(t) \in Nat /\ i \in Nat /\ i < Len(t)
      /\ \A j \in Nat : j \in Positions(u) <=> j < Len(t) - 1
      /\ \A j \in Nat : j \in Positions(t) <=> j < Len(t)
      /\ Positions(u) \in SUBSET Nat
  <2>1. /\ Len(t) \in Nat /\ Positions(t) \in SUBSET Nat
        /\ \A j \in Nat : j \in Positions(t) <=> j < Len(t)
    BY PositionFacts
  <2>2. Positions(u) \in SUBSET Nat /\ \A j \in Nat : j \in Positions(u) <=> j < Len(u)
    BY PositionFacts
  <2>3. Len(u) = Len(t) - 1
    BY DEF Shorter
  <2> QED
    BY <2>1, <2>2, <2>3
<1> DEFINE back(j) == IF j < i THEN j ELSE j + 1
<1>2. ASSUME NEW j \in Positions(u)
      PROVE  back(j) \in Positions(t) /\ back(j) # i /\ At0(u, j) = At0(t, back(j))
  <2>1. j \in Nat /\ j < Len(t) - 1
    BY <1>1
  <2>2. CASE j < i
    BY <1>1, <2>1, <2>2 DEF Shorter
  <2>3. CASE j >= i
    <3>1. j \in i..(Len(t) - 2) /\ back(j) = j + 1 /\ j + 1 # i
      BY <1>1, <2>1, <2>3
    <3>2. At0(u, j) = At0(t, j + 1)
      BY <3>1 DEF Shorter
    <3> QED
      BY <1>1, <2>1, <3>1, <3>2
  <2> QED
    BY <1>1, <2>1, <2>2, <2>3
<1>3. ASSUME NEW j \in Positions(u), NEW k \in Positions(u), At0(u, j) = At0(u, k)
      PROVE  j = k
  <2>1. j \in Nat /\ k \in Nat
    BY <1>1
  <2>2. /\ back(j) \in Positions(t) /\ back(k) \in Positions(t)
        /\ At0(t, back(j)) = At0(t, back(k))
    BY <1>2, <1>3
  <2>3. back(j) = back(k)
    BY <2>2, DistinctEntries
  <2> QED
    BY <1>1, <2>1, <2>3
<1>4. At0(t, i) \notin ToSet(u)
  <2>1. SUFFICES ASSUME At0(t, i) \in ToSet(u) PROVE FALSE
    OBVIOUS
  <2>2. PICK k \in DOMAIN u : u[k] = At0(t, i)
    BY <2>1 DEF ToSet
  <2>3. k - 1 \in Positions(u) /\ (k - 1) + 1 = k
    <3>1. DOMAIN u = 1..Len(u) /\ Len(u) \in Nat
      BY RowsFacts
    <3> QED
      BY <2>2, <3>1 DEF Positions
  <2>4. At0(u, k - 1) = At0(t, i)
    BY <2>2, <2>3 DEF At0
  <2>5. back(k - 1) \in Positions(t) /\ back(k - 1) # i /\ At0(t, back(k - 1)) = At0(t, i)
    BY <1>2, <2>3, <2>4
  <2> QED
    BY <2>5, DistinctEntries
<1> QED
  BY <1>3, <1>4, DistinctEntries

-----------------------------------------------------------------------------
(* Where an insertion, a removal and a move take the indices                 *)

\* Where an index is after an insertion and after a removal at i.
Later(i) == [x \in Nat |-> IF x >= i THEN x + 1 ELSE x]

Earlier(i) == [x \in Nat |-> IF x > i THEN x - 1 ELSE x]

LEMMA LaterFacts ==
    ASSUME NEW i \in Nat
    PROVE  /\ Later(i) \in [Nat -> Nat]
           /\ \A x \in Nat : Later(i)[x] = IF x >= i THEN x + 1 ELSE x
           /\ \A x, y \in Nat : Later(i)[x] = Later(i)[y] => x = y
           /\ \A S \in SUBSET Nat :
                  /\ shift_for_insert_at(S, i, 1) \in SUBSET Nat
                  /\ \A x \in Nat : Later(i)[x] \in shift_for_insert_at(S, i, 1) <=> x \in S
                  /\ \A x \in shift_for_insert_at(S, i, 1) : \E y \in S : x = Later(i)[y]
                  /\ i \notin shift_for_insert_at(S, i, 1)
                  /\ insert_at(S, i, 1) = shift_for_insert_at(S, i, 1) \cup {i}
<1>1. \A x \in Nat : (IF x >= i THEN x + 1 ELSE x) \in Nat
  OBVIOUS
<1>2. /\ Later(i) \in [Nat -> Nat]
      /\ \A x \in Nat : Later(i)[x] = IF x >= i THEN x + 1 ELSE x
  BY <1>1 DEF Later
<1> DEFINE f == Later(i)
<1> HIDE DEF f
<1>3. \A x, y \in Nat : f[x] = f[y] => x = y
  BY <1>2 DEF f
<1>4. ASSUME NEW S \in SUBSET Nat
      PROVE  LET R == shift_for_insert_at(S, i, 1) IN
             /\ R \in SUBSET Nat
             /\ \A x \in Nat : f[x] \in R <=> x \in S
             /\ \A x \in R : \E y \in S : x = f[y]
             /\ i \notin R
             /\ insert_at(S, i, 1) = R \cup {i}
  <2> DEFINE R == shift_for_insert_at(S, i, 1)
  <2>1. R = {IF x < i THEN x ELSE x + 1 : x \in S}
    BY DEF shift_for_insert_at
  <2>2. ASSUME NEW x \in S
        PROVE  f[x] = IF x < i THEN x ELSE x + 1
    BY <1>2 DEF f
  <2>3. R = {f[x] : x \in S}
    BY <2>1, <2>2
  <2>4. insert_at(S, i, 1) = R \cup {i}
    <3>1. i .. (i + 1 - 1) = {i}
      OBVIOUS
    <3> QED
      BY <3>1 DEF insert_at
  <2> HIDE DEF R
  <2>5. \A x \in S : f[x] \in Nat /\ f[x] # i
    BY <1>2 DEF f
  <2>6. \A x \in Nat : f[x] \in R <=> x \in S
    BY <1>3, <2>3
  <2> QED
    BY <2>3, <2>4, <2>5, <2>6 DEF R
<1> QED
  BY <1>2, <1>3, <1>4 DEF f

LEMMA EarlierFacts ==
    ASSUME NEW i \in Nat
    PROVE  /\ Earlier(i) \in [Nat -> Nat]
           /\ \A x \in Nat : Earlier(i)[x] = IF x > i THEN x - 1 ELSE x
           /\ \A x, y \in Nat \ {i} : Earlier(i)[x] = Earlier(i)[y] => x = y
           /\ \A S \in SUBSET Nat :
                  /\ erase_at(S, i) \in SUBSET Nat
                  /\ \A x \in Nat \ {i} : Earlier(i)[x] \in erase_at(S, i) <=> x \in S
                  /\ \A x \in erase_at(S, i) : \E y \in S \ {i} : x = Earlier(i)[y]
<1>1. \A x \in Nat : (IF x > i THEN x - 1 ELSE x) \in Nat
  OBVIOUS
<1>2. /\ Earlier(i) \in [Nat -> Nat]
      /\ \A x \in Nat : Earlier(i)[x] = IF x > i THEN x - 1 ELSE x
  BY <1>1 DEF Earlier
<1> DEFINE f == Earlier(i)
<1> HIDE DEF f
<1>3. \A x, y \in Nat \ {i} : f[x] = f[y] => x = y
  BY <1>2 DEF f
<1>4. ASSUME NEW S \in SUBSET Nat
      PROVE  LET R == erase_at(S, i) IN
             /\ R \in SUBSET Nat
             /\ \A x \in Nat \ {i} : f[x] \in R <=> x \in S
             /\ \A x \in R : \E y \in S \ {i} : x = f[y]
  <2> DEFINE R == erase_at(S, i)
  <2>1. R = {IF x < i THEN x ELSE x - 1 : x \in S \ {i}}
    BY DEF erase_at
  <2>2. ASSUME NEW x \in S \ {i}
        PROVE  f[x] = IF x < i THEN x ELSE x - 1
    BY <1>2 DEF f
  <2>3. R = {f[x] : x \in S \ {i}}
    BY <2>1, <2>2
  <2> HIDE DEF R
  <2>5. \A x \in S : f[x] \in Nat
    BY <1>2 DEF f
  <2>6. \A x \in Nat \ {i} : f[x] \in R <=> x \in S
    BY <1>3, <2>3
  <2> QED
    BY <2>3, <2>5, <2>6 DEF R
<1> QED
  BY <1>2, <1>3, <1>4 DEF f

LEMMA LongerFacts ==
    ASSUME NEW t \in Seq(Nat), NEW i \in 0..Len(t), NEW u \in Seq(Nat), Longer(t, i, u)
    PROVE  /\ i \in Nat /\ i \in Positions(u)
           /\ \A x \in Positions(t) :
                  Later(i)[x] \in Positions(u) /\ At0(u, Later(i)[x]) = At0(t, x)
           /\ \A j \in Positions(u) : j # i => \E x \in Positions(t) : Later(i)[x] = j
<1>1. /\ Len(t) \in Nat /\ Positions(t) \in SUBSET Nat
      /\ \A j \in Nat : j \in Positions(t) <=> j < Len(t)
  BY PositionFacts
<1>2. /\ Len(u) = Len(t) + 1 /\ Positions(u) \in SUBSET Nat
      /\ \A j \in Nat : j \in Positions(u) <=> j < Len(u)
  BY PositionFacts DEF Longer
<1>3. i \in Nat /\ i <= Len(t)
  BY <1>1
<1>4. \A x \in Nat : Later(i)[x] = IF x >= i THEN x + 1 ELSE x
  BY <1>3, LaterFacts
<1>5. ASSUME NEW x \in Positions(t)
      PROVE  Later(i)[x] \in Positions(u) /\ At0(u, Later(i)[x]) = At0(t, x)
  <2>1. x \in Nat /\ x < Len(t)
    BY <1>1
  <2>2. CASE x >= i
    <3>1. x \in i..(Len(t) - 1) /\ Later(i)[x] = x + 1 /\ x + 1 < Len(u)
      BY <1>1, <1>2, <1>3, <1>4, <2>1, <2>2
    <3> QED
      BY <1>2, <2>1, <3>1 DEF Longer
  <2>3. CASE x < i
    <3>2. Later(i)[x] = IF x >= i THEN x + 1 ELSE x
      BY <1>4, <2>1
    <3>1. x \in 0..(i - 1) /\ Later(i)[x] = x /\ x < Len(u)
      BY <1>1, <1>2, <1>3, <2>1, <2>3, <3>2
    <3> QED
      BY <1>2, <2>1, <3>1 DEF Longer
  <2> QED
    BY <1>3, <2>1, <2>2, <2>3
<1>6. ASSUME NEW j \in Positions(u), j # i
      PROVE  \E x \in Positions(t) : Later(i)[x] = j
  <2>1. j \in Nat /\ j < Len(t) + 1
    BY <1>2
  <2>2. CASE j < i
    <3>1. ~(j >= i) /\ j \in Positions(t)
      BY <1>1, <1>3, <2>1, <2>2
    <3>2. Later(i)[j] = j
      BY <1>4, <2>1, <3>1
    <3> QED
      BY <3>1, <3>2
  <2>3. CASE j > i
    <3>1. j - 1 \in Nat /\ j - 1 >= i /\ j - 1 < Len(t) /\ (j - 1) + 1 = j
      BY <1>1, <1>3, <2>1, <2>3
    <3> QED
      BY <1>1, <1>4, <3>1
  <2> QED
    BY <1>3, <1>6, <2>1, <2>2, <2>3
<1> QED
  BY <1>1, <1>2, <1>3, <1>5, <1>6

LEMMA ShorterFacts ==
    ASSUME NEW t \in Seq(Nat), NEW i \in Positions(t), NEW u \in Seq(Nat), Shorter(t, i, u)
    PROVE  /\ i \in Nat
           /\ \A x \in Positions(t) \ {i} :
                  Earlier(i)[x] \in Positions(u) /\ At0(u, Earlier(i)[x]) = At0(t, x)
           /\ \A j \in Positions(u) : \E x \in Positions(t) \ {i} : Earlier(i)[x] = j
<1>1. /\ Len(t) \in Nat /\ Positions(t) \in SUBSET Nat
      /\ \A j \in Nat : j \in Positions(t) <=> j < Len(t)
  BY PositionFacts
<1>2. /\ Len(u) = Len(t) - 1 /\ Positions(u) \in SUBSET Nat
      /\ \A j \in Nat : j \in Positions(u) <=> j < Len(u)
  BY PositionFacts DEF Shorter
<1>3. i \in Nat /\ i < Len(t)
  BY <1>1
<1>4. \A x \in Nat : Earlier(i)[x] = IF x > i THEN x - 1 ELSE x
  BY <1>3, EarlierFacts
<1>5. ASSUME NEW x \in Positions(t) \ {i}
      PROVE  Earlier(i)[x] \in Positions(u) /\ At0(u, Earlier(i)[x]) = At0(t, x)
  <2>1. x \in Nat /\ x < Len(t) /\ x # i
    BY <1>1
  <2>2. CASE x > i
    <3>1. /\ x - 1 \in i..(Len(t) - 2) /\ Earlier(i)[x] = x - 1 /\ x - 1 < Len(u)
          /\ (x - 1) + 1 = x /\ x - 1 \in Nat
      BY <1>1, <1>2, <1>3, <1>4, <2>1, <2>2
    <3>2. At0(u, x - 1) = At0(t, (x - 1) + 1)
      BY <3>1 DEF Shorter
    <3> QED
      BY <1>2, <3>1, <3>2
  <2>3. CASE x < i
    <3>1. x \in 0..(i - 1) /\ Earlier(i)[x] = x /\ x < Len(u)
      BY <1>1, <1>2, <1>3, <1>4, <2>1, <2>3
    <3> QED
      BY <1>2, <2>1, <3>1 DEF Shorter
  <2> QED
    BY <1>3, <2>1, <2>2, <2>3
<1>6. ASSUME NEW j \in Positions(u)
      PROVE  \E x \in Positions(t) \ {i} : Earlier(i)[x] = j
  <2>1. j \in Nat /\ j < Len(t) - 1
    BY <1>2
  <2>2. CASE j < i
    BY <1>1, <1>3, <1>4, <2>1, <2>2
  <2>3. CASE j >= i
    <3>1. j + 1 \in Nat /\ j + 1 > i /\ j + 1 < Len(t) /\ (j + 1) - 1 = j /\ j + 1 # i
      BY <1>1, <1>3, <2>1, <2>3
    <3> QED
      BY <1>1, <1>4, <3>1
  <2> QED
    BY <1>3, <2>1, <2>2, <2>3
<1> QED
  BY <1>3, <1>5, <1>6

-----------------------------------------------------------------------------
(* The same rows on both sides of a step                                     *)

LEMMA TargetsIn ==
    ASSUME NEW moves \in Seq(MoveRecord), NEW D, NEW I, NEW s, NEW t, MovesFit(moves, D, I, s, t)
    PROVE  Targets(moves) \subseteq I
BY DEF MovesFit, Targets

LEMMA FiniteMore ==
    ASSUME NEW D \in SUBSET Nat, IsFiniteSet(D), NEW r \in Nat
    PROVE  /\ add_shifted(D, r) = D \cup {shift(D, r)} /\ IsFiniteSet(add_shifted(D, r))
           /\ add_shifted(D, r) \in SUBSET Nat
BY ShiftFacts, FS_AddElement DEF add_shifted

\* Where an index is after the entry at `from` has moved to `to`.
Passed(from, to) ==
    [k \in Nat |-> IF k = from THEN to
                   ELSE IF k >= to /\ k < from THEN k + 1
                   ELSE IF k <= to /\ k > from THEN k - 1 ELSE k]

LEMMA PassedFacts ==
    ASSUME NEW from \in Nat, NEW to \in Nat
    PROVE  /\ Passed(from, to) \in [Nat -> Nat] /\ Passed(from, to)[from] = to
           /\ \A k \in Nat : Passed(from, to)[k] =
                  IF k = from THEN to
                  ELSE IF k >= to /\ k < from THEN k + 1
                  ELSE IF k <= to /\ k > from THEN k - 1 ELSE k
           /\ \A k \in Nat \ {from} : Passed(from, to)[k] = Later(to)[Earlier(from)[k]]
           /\ \A k, l \in Nat : Passed(from, to)[k] = Passed(from, to)[l] => k = l
<1> DEFINE f == Passed(from, to)
<1>1. ASSUME NEW k \in Nat
      PROVE  (IF k = from THEN to
              ELSE IF k >= to /\ k < from THEN k + 1
              ELSE IF k <= to /\ k > from THEN k - 1 ELSE k) \in Nat
  OBVIOUS
<1>2. f \in [Nat -> Nat]
  BY <1>1 DEF Passed
<1>3. \A k \in Nat : f[k] = IF k = from THEN to
                            ELSE IF k >= to /\ k < from THEN k + 1
                            ELSE IF k <= to /\ k > from THEN k - 1 ELSE k
  BY DEF Passed
<1> HIDE DEF f
<1>4. f[from] = to
  BY <1>3
<1>5. ASSUME NEW k \in Nat \ {from}
      PROVE  f[k] = Later(to)[Earlier(from)[k]]
  <2>1. /\ Earlier(from) \in [Nat -> Nat]
        /\ Earlier(from)[k] = IF k > from THEN k - 1 ELSE k
    BY EarlierFacts
  <2> DEFINE e == Earlier(from)[k]
  <2>2. e \in Nat
    BY <2>1
  <2>3. Later(to)[e] = IF e >= to THEN e + 1 ELSE e
    BY <2>2, LaterFacts
  <2>4. e = IF k > from THEN k - 1 ELSE k
    BY <2>1
  <2> HIDE DEF e
  <2>5. f[k] = IF e >= to THEN e + 1 ELSE e
    BY <1>3, <2>2, <2>4
  <2> QED
    BY <2>3, <2>5 DEF e
<1>6. ASSUME NEW k \in Nat, NEW l \in Nat, f[k] = f[l]
      PROVE  k = l
  BY <1>3, <1>6
<1> QED
  BY <1>2, <1>3, <1>4, <1>5, <1>6 DEF f

\* u is t with the entry at `from` gone to `to`.
Passes(t, from, to, u) ==
    /\ Len(u) = Len(t)
    /\ \A k \in Positions(t) : At0(u, Passed(from, to)[k]) = At0(t, k)

LEMMA PassesFacts ==
    ASSUME NEW t \in Seq(Nat), NEW from \in Positions(t), NEW to \in Positions(t),
           NEW u \in Seq(Nat), Passes(t, from, to, u)
    PROVE  /\ from \in Nat /\ to \in Nat
           /\ Positions(u) = Positions(t)
           /\ \A k \in Positions(t) : Passed(from, to)[k] \in Positions(t)
           /\ \A j \in Positions(u) : \E k \in Positions(t) : Passed(from, to)[k] = j
           /\ \E v \in Seq(Nat) : /\ Shorter(t, from, v) /\ Longer(v, to, u)
                                  /\ to \in 0..Len(v)
<1> DEFINE f == Passed(from, to)
           n == Len(t)
<1>1. /\ n \in Nat /\ Positions(t) \in SUBSET Nat
      /\ \A j \in Nat : j \in Positions(t) <=> j < n
  BY PositionFacts
<1>2. Positions(u) = Positions(t) /\ Len(u) = n
  BY DEF Passes, Positions
<1>3. from \in Nat /\ to \in Nat /\ from < n /\ to < n
  BY <1>1
<1>4. /\ f \in [Nat -> Nat] /\ f[from] = to
      /\ \A k \in Nat : f[k] = IF k = from THEN to
                            ELSE IF k >= to /\ k < from THEN k + 1
                            ELSE IF k <= to /\ k > from THEN k - 1 ELSE k
      /\ \A k \in Nat \ {from} : f[k] = Later(to)[Earlier(from)[k]]
  BY <1>3, PassedFacts
<1> HIDE DEF f
<1>5. ASSUME NEW k \in Positions(t)
      PROVE  f[k] \in Positions(t)
  <2>1. k \in Nat /\ k < n /\ f[k] \in Nat
    BY <1>1, <1>4
  <2>2. f[k] < n
    <3>1. f[k] = IF k = from THEN to
                            ELSE IF k >= to /\ k < from THEN (k) + 1
                            ELSE IF k <= to /\ k > from THEN (k) - 1 ELSE k
      BY <1>4, <2>1
    <3> QED
      BY <1>1, <1>3, <2>1, <3>1
  <2> QED
    BY <1>1, <2>1, <2>2
<1>6. ASSUME NEW j \in Positions(u)
      PROVE  \E k \in Positions(t) : f[k] = j
  <2>1. j \in Nat /\ j < n
    BY <1>1, <1>2
  <2>2. CASE j = to
    BY <1>4, <2>2
  <2>3. CASE j > to /\ j <= from
    <3>1. j - 1 \in Nat /\ j - 1 < n
      BY <1>1, <1>3, <2>1, <2>3
    <3>2. f[j - 1] = IF j - 1 = from THEN to
                            ELSE IF j - 1 >= to /\ j - 1 < from THEN (j - 1) + 1
                            ELSE IF j - 1 <= to /\ j - 1 > from THEN (j - 1) - 1 ELSE j - 1
      BY <1>4, <3>1
    <3>3. f[j - 1] = j
      BY <1>3, <2>1, <2>3, <3>1, <3>2
    <3> QED
      BY <1>1, <3>1, <3>3
  <2>4. CASE j < to /\ j >= from
    <3>1. j + 1 \in Nat /\ j + 1 < n
      BY <1>1, <1>3, <2>1, <2>4
    <3>2. f[j + 1] = IF j + 1 = from THEN to
                            ELSE IF j + 1 >= to /\ j + 1 < from THEN (j + 1) + 1
                            ELSE IF j + 1 <= to /\ j + 1 > from THEN (j + 1) - 1 ELSE j + 1
      BY <1>4, <3>1
    <3>3. f[j + 1] = j
      BY <1>3, <2>1, <2>4, <3>1, <3>2
    <3> QED
      BY <1>1, <3>1, <3>3
  <2>5. CASE ~(j = to) /\ ~(j > to /\ j <= from) /\ ~(j < to /\ j >= from)
    <3>2. f[j] = IF j = from THEN to
                            ELSE IF j >= to /\ j < from THEN (j) + 1
                            ELSE IF j <= to /\ j > from THEN (j) - 1 ELSE j
      BY <1>4, <2>1
    <3>1. f[j] = j
      BY <1>3, <2>1, <2>5, <3>2
    <3> QED
      BY <1>2, <3>1
  <2> QED
    BY <2>2, <2>3, <2>4, <2>5
<1> DEFINE v == RemoveAt(t, from + 1)
<1>7. v \in Seq(Nat) /\ Shorter(t, from, v)
  BY RemovedEntry
<1> HIDE DEF v
<1>8. \A j \in Positions(v) :
          \E x \in Positions(t) \ {from} : Earlier(from)[x] = j /\ At0(v, j) = At0(t, x)
  BY <1>7, ShorterFacts, SMTT(30)
<1>9. Len(v) = n - 1 /\ \A j \in Nat : j \in Positions(v) <=> j < n - 1
  <2>1. \A j \in Nat : j \in Positions(v) <=> j < Len(v)
    BY <1>7, PositionFacts
  <2> QED
    BY <1>7, <2>1 DEF Shorter
<1>10. ASSUME NEW j \in Positions(v)
       PROVE  At0(u, Later(to)[j]) = At0(v, j)
  <2>1. PICK x \in Positions(t) \ {from} : Earlier(from)[x] = j /\ At0(v, j) = At0(t, x)
    BY <1>8
  <2>2. f[x] = Later(to)[j]
    BY <1>1, <1>4, <2>1
  <2>3. At0(u, f[x]) = At0(t, x)
    BY DEF Passes, f
  <2> QED
    BY <2>1, <2>2, <2>3
<1>11. \A j \in Nat : Later(to)[j] = IF j >= to THEN j + 1 ELSE j
  BY <1>3, LaterFacts
<1>12. Longer(v, to, u)
  <2>1. ASSUME NEW j \in 0..(to - 1)
        PROVE  At0(u, j) = At0(v, j)
    <3>1. j \in Nat /\ j \in Positions(v) /\ ~(j >= to)
      BY <1>1, <1>3, <1>9
    <3> QED
      BY <1>10, <1>11, <3>1
  <2>2. ASSUME NEW j \in to..(Len(v) - 1)
        PROVE  At0(u, j + 1) = At0(v, j)
    <3>1. j \in Nat /\ j \in Positions(v) /\ j >= to
      BY <1>1, <1>3, <1>9
    <3> QED
      BY <1>10, <1>11, <3>1
  <2>3. Len(u) = Len(v) + 1
    BY <1>1, <1>2, <1>9
  <2> QED
    BY <2>1, <2>2, <2>3 DEF Longer
<1>13. to \in 0..Len(v)
  BY <1>1, <1>3, <1>9
<1> QED
  BY <1>2, <1>3, <1>5, <1>6, <1>7, <1>12, <1>13 DEF f

LEMMA PassesDistinct ==
    ASSUME NEW t \in Seq(Nat), NEW from \in Positions(t), NEW to \in Positions(t),
           NEW u \in Seq(Nat), Passes(t, from, to, u), IsInjective(t)
    PROVE  IsInjective(u)
<1>1. ASSUME NEW i \in Positions(u), NEW j \in Positions(u), At0(u, i) = At0(u, j)
      PROVE  i = j
  <2>1. PICK k \in Positions(t) : Passed(from, to)[k] = i
    BY PassesFacts
  <2>2. PICK l \in Positions(t) : Passed(from, to)[l] = j
    BY PassesFacts
  <2>3. At0(t, k) = At0(t, l)
    BY <1>1, <2>1, <2>2 DEF Passes
  <2>4. k = l
    BY <2>3, DistinctEntries
  <2> QED
    BY <2>1, <2>2, <2>4
<1> QED
  BY <1>1, DistinctEntries

LEMMA SameBack ==
    ASSUME NEW D \in SUBSET Nat, NEW I \in SUBSET Nat, IsFiniteSet(D), IsFiniteSet(I),
           NEW s \in Seq(Nat), NEW t \in Seq(Nat), Same(D, I, s, t), NEW j \in Positions(t) \ I
    PROVE  /\ shift(D, unshift(I, j)) \in Positions(s) \ D
           /\ unshift(D, shift(D, unshift(I, j))) = unshift(I, j)
           /\ At0(s, shift(D, unshift(I, j))) = At0(t, j)
BY SameFacts

LEMMA FirstIs ==
    ASSUME NEW n \in Nat
    PROVE  /\ first(n) \in SUBSET Nat /\ IsFiniteSet(first(n))
           /\ \A x \in Nat : x \in first(n) <=> x < n
           /\ \A k \in Nat : k <= n => unshift(first(n), k) = 0
<1>1. first(n) = 0..(n - 1)
  BY DEF first
<1>2. IsFiniteSet(first(n)) /\ first(n) \in SUBSET Nat /\ \A x \in Nat : x \in first(n) <=> x < n
  BY <1>1, FS_Interval
<1>3. ASSUME NEW k \in Nat, k <= n
      PROVE  unshift(first(n), k) = 0
  <2>1. Free(first(n), k) = {}
    BY <1>1, <1>3 DEF Free
  <2> QED
    BY <1>2, <2>1, UnshiftIsFree, FS_EmptySet
<1> QED
  BY <1>2, <1>3

LEMMA NoneFree ==
    ASSUME NEW k \in Nat
    PROVE  unshift({}, k) = k
<1>1. Free({}, k) = 0..(k - 1)
  BY DEF Free
<1>2. Cardinality(0..(k - 1)) = k
  BY FS_Interval
<1> QED
  BY <1>1, <1>2, UnshiftIsFree

\* The size clear is given is enough.
LEMMA ClearedSize ==
    ASSUME NEW D \in SUBSET Nat, NEW I \in SUBSET Nat, IsFiniteSet(D),
           NEW s \in Seq(Nat), NEW t \in Seq(Nat), Same(D, I, s, t), I \subseteq Positions(t)
    PROVE  /\ Len(t) + Cardinality(D) - Cardinality(I) \in Nat
           /\ Len(s) <= Len(t) + Cardinality(D) - Cardinality(I)
<1> DEFINE A == {x \in D : 0 <= x /\ x < Len(s)}
           B == {x \in I : 0 <= x /\ x < Len(t)}
<1>1. Len(s) \in Nat /\ Len(t) \in Nat /\ IsFiniteSet(Positions(t))
      /\ Positions(t) \in SUBSET Nat /\ \A x \in Nat : x \in Positions(t) <=> x < Len(t)
  BY PositionFacts
<1>2. B = I /\ IsFiniteSet(I) /\ Cardinality(I) \in Nat
  <2>1. IsFiniteSet(I) /\ Cardinality(I) \in Nat
    BY <1>1, FS_Subset, FS_CardinalityType
  <2>2. \A x \in I : 0 <= x /\ x < Len(t)
    BY <1>1
  <2> QED
    BY <2>1, <2>2
<1>3. Cardinality(A) \in Nat /\ Cardinality(D) \in Nat /\ Cardinality(A) <= Cardinality(D)
  <2>1. A \in SUBSET D
    OBVIOUS
  <2> QED
    BY <2>1, FS_Subset, FS_CardinalityType
<1>4. unshift(D, Len(s)) = Len(s) - Cardinality(A)
  BY DEF unshift, count
<1>5. unshift(I, Len(t)) = Len(t) - Cardinality(I)
  BY <1>2 DEF unshift, count
<1>6. unshift(D, Len(s)) = unshift(I, Len(t))
  BY DEF Same
<1>7. unshift(D, Len(s)) \in Nat
  BY <1>1, UnshiftIsFree
<1> HIDE DEF A, B
<1> QED
  BY <1>1, <1>2, <1>3, <1>4, <1>5, <1>6, <1>7

LEMMA NothingSame ==
    ASSUME NEW s \in Seq(Nat), NEW t \in Seq(Nat)
    PROVE  /\ Same({}, {}, t, t)
           /\ Same({}, {}, s, t) => s = t
<1>1. Len(s) \in Nat /\ Len(t) \in Nat /\ Positions(t) \in SUBSET Nat /\ Positions(s) \in SUBSET Nat
      /\ \A x \in Nat : x \in Positions(t) <=> x < Len(t)
  BY PositionFacts
<1>2. \A k \in Nat : unshift({}, k) = k
  BY NoneFree
<1>3. Same({}, {}, t, t)
  BY <1>1, <1>2 DEF Same
<1>4. ASSUME Same({}, {}, s, t)
      PROVE  s = t
  <2>1. Len(s) = Len(t)
    BY <1>1, <1>2, <1>4 DEF Same
  <2>2. Positions(s) = Positions(t)
    BY <2>1 DEF Positions
  <2>3. \A i \in Positions(s) : At0(s, i) = At0(t, i)
    BY <1>1, <1>2, <1>4, <2>2 DEF Same
  <2>4. ASSUME NEW k \in 1..Len(s)
        PROVE  s[k] = t[k]
    <3>1. k - 1 \in Positions(s) /\ (k - 1) + 1 = k
      BY <1>1 DEF Positions
    <3> QED
      BY <2>3, <3>1 DEF At0
  <2> QED
    BY <2>1, <2>4, SeqEqual
<1> QED
  BY <1>3, <1>4

LEMMA RowRank ==
    ASSUME NEW D \in SUBSET Nat, NEW I \in SUBSET Nat, IsFiniteSet(D),
           NEW j \in Nat, j \notin D, \A x \in 0..(j - 1) : x \in D <=> x \in I
    PROVE  shift(D, unshift(I, j)) = j
<1>1. unshift(I, j) = unshift(D, j)
  BY UnshiftSame
<1> QED
  BY <1>1, ShiftUnshift

\* Up to a row that stays, the deletions are the insertions.
LEMMA RowsAgree ==
    ASSUME NEW D \in SUBSET Nat, NEW I \in SUBSET Nat, NEW s \in Seq(Nat), NEW t \in Seq(Nat),
           Positions(s) \ D = Positions(t) \ I, NEW j \in Positions(t) \ I
    PROVE  /\ j \in Nat /\ j \notin D /\ j \in Positions(s)
           /\ \A x \in 0..j : x \in D <=> x \in I
<1>1. /\ Len(t) \in Nat /\ Positions(t) \in SUBSET Nat
      /\ \A x \in Nat : x \in Positions(t) <=> x < Len(t)
  BY PositionFacts
<1>2. /\ Len(s) \in Nat /\ Positions(s) \in SUBSET Nat
      /\ \A x \in Nat : x \in Positions(s) <=> x < Len(s)
  BY PositionFacts
<1>3. j \in Nat /\ j \notin D /\ j \in Positions(s) /\ j < Len(t) /\ j < Len(s)
  BY <1>1, <1>2
<1>4. ASSUME NEW x \in 0..j
      PROVE  x \in D <=> x \in I
  <2>1. x \in Nat /\ x < Len(t) /\ x < Len(s)
    BY <1>1, <1>2, <1>3
  <2>2. x \in Positions(s) /\ x \in Positions(t)
    BY <1>1, <1>2, <2>1
  <2> QED
    BY <2>2
<1> QED
  BY <1>3, <1>4

LEMMA MinMaxOf ==
    ASSUME NEW i \in Nat, NEW j \in Nat, i < j
    PROVE  Min({i, j}) = i /\ Max({i, j}) = j
<1>1. \A x \in {i, j} : (\A y \in {i, j} : x <= y) => x = i
  OBVIOUS
<1>2. i \in {i, j} /\ \A y \in {i, j} : i <= y
  OBVIOUS
<1>3. \A x \in {i, j} : (\A y \in {i, j} : x >= y) => x = j
  OBVIOUS
<1>4. j \in {i, j} /\ \A y \in {i, j} : j >= y
  OBVIOUS
<1>5. Min({i, j}) = i
  BY <1>1, <1>2 DEF Min
<1>6. Max({i, j}) = j
  BY <1>3, <1>4 DEF Max
<1> QED
  BY <1>5, <1>6

-----------------------------------------------------------------------------
(* Folds over sets of indices                                                *)

LEMMA LargestOf ==
    ASSUME NEW n \in Nat, NEW s \in SUBSET (1..n), s # {}
    PROVE  Max(s) \in s /\ \A x \in s : x <= Max(s)
<1> DEFINE T == {y \in Nat : \A x \in s : x <= y}
<1>1. T \in SUBSET Nat /\ n \in T
  OBVIOUS
<1>2. PICK y \in T : \A z \in T : y <= z
  BY <1>1, LeastNatural
<1>3. y \in Nat /\ \A x \in s : x <= y
  OBVIOUS
<1>4. y \in s
  <2>1. SUFFICES ASSUME y \notin s PROVE FALSE
    OBVIOUS
  <2>2. \A x \in s : x \in Nat /\ x >= 1 /\ x <= y /\ x # y
    BY <1>3, <2>1
  <2>3. PICK w \in s : TRUE
    OBVIOUS
  <2>4. y - 1 \in Nat /\ \A x \in s : x <= y - 1
    BY <1>3, <2>2, <2>3
  <2>5. y - 1 \in T
    BY <2>4
  <2> HIDE DEF T
  <2> QED
    BY <1>2, <1>3, <2>5
<1>5. y \in s /\ \A x \in s : y >= x
  BY <1>3, <1>4
<1>6. Max(s) \in s /\ \A x \in s : Max(s) >= x
  BY <1>5 DEF Max
<1> QED
  BY <1>6

LEMMA LargestIs ==
    ASSUME NEW n \in Nat, NEW s \in SUBSET (1..n), NEW k \in s, \A x \in s : x <= k
    PROVE  Max(s) = k
<1> DEFINE m == Max(s)
<1>1. m \in s /\ k <= m
  BY LargestOf
<1> HIDE DEF m
<1>2. m <= k
  BY <1>1
<1>3. m \in 1..n /\ k \in 1..n
  BY <1>1
<1>4. m = k
  BY <1>1, <1>2, <1>3
<1> QED
  BY <1>4 DEF m

\* g folds F over every set of indices, from the first to the last.
Folds(g, X, base, n, F) ==
    /\ g \in [SUBSET (1..n) -> X]
    /\ \A s \in SUBSET (1..n) :
           g[s] = IF s = {} THEN base ELSE F[<<g[s \ {Max(s)}], Max(s)>>]

\* The function that FoldLeft chooses exists.
LEMMA FoldExists ==
    ASSUME NEW X, NEW base \in X, NEW n \in Nat, NEW F \in [X \X (1..n) -> X]
    PROVE  \E g : Folds(g, X, base, n, F)
<1> DEFINE Good(k) == \E g \in [SUBSET (1..k) -> X] : \A s \in SUBSET (1..k) :
                          g[s] = IF s = {} THEN base ELSE F[<<g[s \ {Max(s)}], Max(s)>>]
           Bad == {k \in 0..n : ~Good(k)}
<1>1. Good(0)
  <2>1. \A s \in SUBSET (1..0) : s = {}
    OBVIOUS
  <2>2. [s \in SUBSET (1..0) |-> base] \in [SUBSET (1..0) -> X]
    OBVIOUS
  <2> QED
    BY <2>1, <2>2
<1>2. ASSUME NEW k \in 1..n, Good(k - 1)
      PROVE  Good(k)
  <2>1. PICK g \in [SUBSET (1..(k - 1)) -> X] : \A s \in SUBSET (1..(k - 1)) :
                 g[s] = IF s = {} THEN base ELSE F[<<g[s \ {Max(s)}], Max(s)>>]
    BY <1>2
  <2> DEFINE h == [s \in SUBSET (1..k) |-> IF k \in s THEN F[<<g[s \ {k}], k>>] ELSE g[s]]
  <2>2. ASSUME NEW s \in SUBSET (1..k)
        PROVE  s \ {k} \in SUBSET (1..(k - 1))
    OBVIOUS
  <2>3. ASSUME NEW s \in SUBSET (1..k), k \notin s
        PROVE  s \in SUBSET (1..(k - 1))
    BY <2>3
  <2>4. h \in [SUBSET (1..k) -> X]
    <3>1. ASSUME NEW s \in SUBSET (1..k)
          PROVE  (IF k \in s THEN F[<<g[s \ {k}], k>>] ELSE g[s]) \in X
      <4>1. CASE k \in s
        <5>1. g[s \ {k}] \in X
          BY <2>1, <2>2
        <5>2. <<g[s \ {k}], k>> \in X \X (1..n)
          BY <5>1
        <5> QED
          BY <4>1, <5>2
      <4>2. CASE k \notin s
        BY <2>1, <2>3, <4>2
      <4> QED
        BY <4>1, <4>2
    <3> QED
      BY <3>1
  <2>5. ASSUME NEW s \in SUBSET (1..k)
        PROVE  h[s] = IF s = {} THEN base ELSE F[<<h[s \ {Max(s)}], Max(s)>>]
    <3>1. CASE k \in s
      <4>1. k \in Nat /\ \A x \in s : x <= k
        OBVIOUS
      <4>2. Max(s) = k
        BY <3>1, <4>1, LargestIs
      <4>3. h[s] = F[<<g[s \ {k}], k>>]
        BY <3>1
      <4>4. h[s \ {k}] = g[s \ {k}]
        OBVIOUS
      <4> HIDE DEF h
      <4> QED
        BY <3>1, <4>2, <4>3, <4>4
    <3>2. CASE k \notin s
      <4>1. h[s] = g[s] /\ s \in SUBSET (1..(k - 1))
        BY <2>3, <3>2
      <4>2. h[s \ {Max(s)}] = g[s \ {Max(s)}]
        BY <3>2
      <4> HIDE DEF h
      <4> QED
        BY <2>1, <4>1, <4>2
    <3> QED
      BY <3>1, <3>2
  <2> HIDE DEF h
  <2> QED
    BY <2>4, <2>5
<1>3. Bad = {}
  <2>1. SUFFICES ASSUME Bad # {} PROVE FALSE
    OBVIOUS
  <2>2. Bad \in SUBSET Nat
    OBVIOUS
  <2>3. PICK k \in Bad : \A l \in Bad : k <= l
    BY <2>1, <2>2, LeastNatural
  <2>4. k \in 0..n /\ ~Good(k)
    OBVIOUS
  <2> HIDE DEF Good
  <2>5. k # 0
    BY <1>1, <2>4
  <2>6. k \in 1..n /\ k - 1 \in 0..n /\ k - 1 < k
    BY <2>4, <2>5
  <2>7. k - 1 \notin Bad
    BY <2>3, <2>6
  <2>8. Good(k - 1)
    BY <2>6, <2>7
  <2> QED
    BY <1>2, <2>4, <2>6, <2>8
<1>4. Good(n)
  <2>1. n \in 0..n
    OBVIOUS
  <2> HIDE DEF Good
  <2> QED
    BY <1>3, <2>1
<1> QED
  BY <1>4 DEF Folds

\* What holds first and is kept by each step holds in the end.
LEMMA StepByStep ==
    ASSUME NEW n \in Nat, NEW P \in [0..n -> BOOLEAN], P[0],
           \A k \in 1..n : P[k - 1] => P[k]
    PROVE  P[n]
<1> DEFINE Bad == {k \in 0..n : ~P[k]}
<1>1. SUFFICES ASSUME ~P[n] PROVE FALSE
  OBVIOUS
<1>2. Bad \in SUBSET Nat /\ n \in Bad
  BY <1>1
<1>3. PICK k \in Bad : \A l \in Bad : k <= l
  BY <1>2, LeastNatural
<1>4. k \in 0..n /\ ~P[k] /\ k # 0
  OBVIOUS
<1>5. k \in 1..n /\ k - 1 \in 0..n /\ k - 1 < k
  BY <1>4
<1>6. k - 1 \notin Bad
  BY <1>3, <1>5
<1> QED
  BY <1>4, <1>5, <1>6

\* An entry that need not have been deleted and inserted.
LEMMA SameRemovedPair ==
    ASSUME NEW D \in SUBSET Nat, NEW I \in SUBSET Nat,
           NEW s \in Seq(Nat), NEW t \in Seq(Nat), Same(D, I, s, t),
           NEW x \in D \cap Positions(s), NEW y \in I \cap Positions(t),
           unshift(D, x) = unshift(I, y), At0(s, x) = At0(t, y)
    PROVE  Same(D \ {x}, I \ {y}, s, t)
<1> DEFINE E == D \ {x}
           J == I \ {y}
           r == unshift(D, x)
<1>1. /\ Len(s) \in Nat /\ Positions(s) \in SUBSET Nat
      /\ \A i \in Nat : i \in Positions(s) <=> i < Len(s)
  BY PositionFacts
<1>2. /\ Len(t) \in Nat /\ Positions(t) \in SUBSET Nat
      /\ \A i \in Nat : i \in Positions(t) <=> i < Len(t)
  BY PositionFacts
<1>3. x \in Nat /\ y \in Nat /\ x < Len(s) /\ y < Len(t)
  BY <1>1, <1>2
<1>4. \A i \in Nat : unshift(E, i) = unshift(D, i) + (IF x < i THEN 1 ELSE 0)
  BY UnshiftRemove
<1>5. \A i \in Nat : unshift(J, i) = unshift(I, i) + (IF y < i THEN 1 ELSE 0)
  BY UnshiftRemove
<1>6. \A i \in Nat : unshift(D, i) \in Nat /\ unshift(I, i) \in Nat
  BY UnshiftIsFree
<1>7. ASSUME NEW i \in Nat, i \notin D, i # x
      PROVE  /\ x < i => unshift(D, i) >= r
             /\ ~(x < i) => unshift(D, i) < r
  <2>1. x < i => unshift(D, x) <= unshift(D, i)
    BY <1>3, UnshiftGrows
  <2>2. i < x => unshift(D, i) < unshift(D, x)
    BY <1>3, <1>7, UnshiftGrows
  <2> QED
    BY <1>3, <1>6, <1>7, <2>1, <2>2
<1>8. ASSUME NEW j \in Nat, j \notin I, j # y
      PROVE  /\ y < j => unshift(I, j) >= r
             /\ ~(y < j) => unshift(I, j) < r
  <2>1. y < j => unshift(I, y) <= unshift(I, j)
    BY <1>3, UnshiftGrows
  <2>2. j < y => unshift(I, j) < unshift(I, y)
    BY <1>3, <1>8, UnshiftGrows
  <2> QED
    BY <1>3, <1>6, <1>8, <2>1, <2>2
<1>9. r \in Nat /\ unshift(E, x) = r /\ unshift(J, y) = r
  <2>1. unshift(E, x) = unshift(D, x) + (IF x < x THEN 1 ELSE 0) /\ unshift(D, x) \in Nat
    BY <1>3, <1>4, <1>6
  <2>2. unshift(J, y) = unshift(I, y) + (IF y < y THEN 1 ELSE 0) /\ unshift(I, y) \in Nat
    BY <1>3, <1>5, <1>6
  <2> HIDE DEF E, J
  <2> QED
    BY <1>3, <2>1, <2>2
<1> HIDE DEF r
<1>10. unshift(E, Len(s)) = unshift(J, Len(t))
  BY <1>1, <1>2, <1>3, <1>4, <1>5 DEF Same
<1>11. ASSUME NEW i \in Positions(s) \ E, NEW j \in Positions(t) \ J, unshift(E, i) = unshift(J, j)
       PROVE  At0(s, i) = At0(t, j)
  <2>1. i \in Nat /\ j \in Nat /\ (i = x \/ i \notin D) /\ (j = y \/ j \notin I)
    BY <1>1, <1>2
  <2> HIDE DEF E, J
  <2>2. CASE i = x
    <3>1. CASE j = y
      BY <2>2, <3>1
    <3>2. CASE j # y
      <4>1. unshift(J, j) = r
        BY <1>9, <1>11, <2>2
      <4>2. unshift(J, j) = unshift(I, j) + (IF y < j THEN 1 ELSE 0) /\ unshift(I, j) \in Nat
        BY <1>5, <1>6, <2>1
      <4>3. /\ y < j => unshift(I, j) >= r
            /\ ~(y < j) => unshift(I, j) < r
        BY <1>8, <2>1, <3>2
      <4> QED
        BY <1>9, <4>1, <4>2, <4>3
    <3> QED
      BY <3>1, <3>2
  <2>3. CASE i # x
    <3>1. unshift(E, i) = unshift(D, i) + (IF x < i THEN 1 ELSE 0) /\ unshift(D, i) \in Nat
      BY <1>4, <1>6, <2>1
    <3>2. /\ x < i => unshift(D, i) >= r
          /\ ~(x < i) => unshift(D, i) < r
      BY <1>7, <2>1, <2>3
    <3>3. CASE j = y
      <4>1. unshift(E, i) = r
        BY <1>9, <1>11, <3>3
      <4> QED
        BY <1>9, <3>1, <3>2, <4>1
    <3>4. CASE j # y
      <4>1. unshift(J, j) = unshift(I, j) + (IF y < j THEN 1 ELSE 0) /\ unshift(I, j) \in Nat
        BY <1>5, <1>6, <2>1
      <4>2. /\ y < j => unshift(I, j) >= r
            /\ ~(y < j) => unshift(I, j) < r
        BY <1>8, <2>1, <3>4
      <4>3. unshift(D, i) = unshift(I, j)
        <5>1. unshift(E, i) = unshift(J, j)
          BY <1>11
        <5>2. CASE x < i /\ y < j
          BY <3>1, <4>1, <5>1, <5>2
        <5>3. CASE ~(x < i) /\ ~(y < j)
          BY <3>1, <4>1, <5>1, <5>3
        <5>4. CASE x < i /\ ~(y < j)
          BY <1>9, <3>1, <3>2, <4>1, <4>2, <5>1, <5>4
        <5>5. CASE ~(x < i) /\ y < j
          BY <1>9, <3>1, <3>2, <4>1, <4>2, <5>1, <5>5
        <5> QED
          BY <5>2, <5>3, <5>4, <5>5
      <4>4. i \in Positions(s) \ D /\ j \in Positions(t) \ I
        BY <2>1, <2>3, <3>4
      <4> QED
        BY <4>3, <4>4 DEF Same
    <3> QED
      BY <3>3, <3>4
  <2> QED
    BY <2>2, <2>3
<1> QED
  BY <1>10, <1>11 DEF Same

-----------------------------------------------------------------------------
(* From the rows without one set to those without another                    *)

\* Where the rows without A are among the rows without B.
Through(A, B) == [v \in Nat \ A |-> shift(B, unshift(A, v))]

\* B and where the rows C are among the rows without it.
MissingToo(A, B, C) == B \cup {Through(A, B)[v] : v \in C \ A}

\* What is before n is before m.
Splits(A, B, n, m) == \A v \in Nat \ A : v < n <=> Through(A, B)[v] < m

LEMMA ThroughFacts ==
    ASSUME NEW A \in SUBSET Nat, NEW B \in SUBSET Nat, IsFiniteSet(A), IsFiniteSet(B)
    PROVE  /\ Through(A, B) \in [Nat \ A -> Nat \ B]
           /\ \A v \in Nat \ A : unshift(B, Through(A, B)[v]) = unshift(A, v)
           /\ \A v, w \in Nat \ A : v < w <=> Through(A, B)[v] < Through(A, B)[w]
           /\ \A v, w \in Nat \ A : Through(A, B)[v] = Through(A, B)[w] => v = w
           /\ Through(A, B) \in Surjection(Nat \ A, Nat \ B)
<1> DEFINE f == Through(A, B)
<1>1. ASSUME NEW v \in Nat \ A
      PROVE  f[v] \in Nat \ B /\ unshift(B, f[v]) = unshift(A, v)
  <2>1. unshift(A, v) \in Nat
    BY UnshiftIsFree
  <2>2. f[v] = shift(B, unshift(A, v))
    BY DEF Through
  <2> QED
    BY <2>1, <2>2, ShiftFacts
<1>2. f = [v \in Nat \ A |-> f[v]]
  BY DEF Through
<1>3. f \in [Nat \ A -> Nat \ B]
  BY <1>1, <1>2
<1> HIDE DEF f
<1>4. ASSUME NEW v \in Nat \ A, NEW w \in Nat \ A
      PROVE  v < w <=> f[v] < f[w]
  <2>1. v < w <=> unshift(A, v) < unshift(A, w)
    BY RankOrder
  <2>2. f[v] \in Nat /\ f[w] \in Nat /\ f[v] \notin B
    BY <1>1
  <2>3. f[v] < f[w] <=> unshift(B, f[v]) < unshift(B, f[w])
    BY <2>2, RankOrder
  <2> QED
    BY <1>1, <2>1, <2>3
<1>5. ASSUME NEW v \in Nat \ A, NEW w \in Nat \ A, f[v] = f[w]
      PROVE  v = w
  <2>1. unshift(A, v) = unshift(A, w)
    BY <1>1, <1>5
  <2> QED
    BY <2>1, UnshiftInjective
<1>6. ASSUME NEW x \in Nat \ B
      PROVE  \E v \in Nat \ A : f[v] = x
  <2>1. unshift(B, x) \in Nat
    BY UnshiftIsFree
  <2>2. PICK v \in Nat : v \notin A /\ unshift(A, v) = unshift(B, x)
    BY <2>1, ShiftFacts
  <2>3. unshift(B, f[v]) = unshift(B, x) /\ f[v] \in Nat /\ f[v] \notin B
    BY <1>1, <2>2
  <2>4. f[v] = x
    BY <2>3, UnshiftInjective
  <2> QED
    BY <2>2, <2>4
<1> QED
  BY <1>1, <1>3, <1>4, <1>5, <1>6 DEF f, Surjection

\* The rank of a row when the rows C are missing too.
LEMMA ThroughRanks ==
    ASSUME NEW A \in SUBSET Nat, NEW B \in SUBSET Nat, NEW C \in SUBSET Nat,
           IsFiniteSet(A), IsFiniteSet(B), NEW n \in Nat, NEW m \in Nat,
           Splits(A, B, n, m)
    PROVE  unshift(MissingToo(A, B, C), m) = unshift(A \cup C, n)
<1> DEFINE f == Through(A, B)
           R == MissingToo(A, B, C)
           X == Free(A \cup C, n)
           Y == Free(R, m)
           g == [v \in X |-> f[v]]
<1>1. /\ f \in [Nat \ A -> Nat \ B]
      /\ \A v, w \in Nat \ A : f[v] = f[w] => v = w
      /\ \A x \in Nat \ B : \E v \in Nat \ A : f[v] = x
  <2>1. f \in [Nat \ A -> Nat \ B]
    BY ThroughFacts
  <2>2. \A v, w \in Nat \ A : f[v] = f[w] => v = w
    BY ThroughFacts
  <2>3. f \in Surjection(Nat \ A, Nat \ B)
    BY ThroughFacts
  <2> HIDE DEF f
  <2> QED
    BY <2>1, <2>2, <2>3 DEF Surjection
<1>2. /\ R \in SUBSET Nat
      /\ \A x : x \in R <=> x \in B \/ \E v \in C \ A : x = f[v]
  <2>1. \A v \in C \ A : v \in Nat \ A
    OBVIOUS
  <2>2. \A v \in C \ A : f[v] \in Nat
    BY <1>1, <2>1
  <2> HIDE DEF f
  <2>3. R = B \cup {f[v] : v \in C \ A}
    BY DEF f, MissingToo
  <2> QED
    BY <2>2, <2>3
<1>3. \A v \in Nat \ A : v < n <=> f[v] < m
  BY DEF Splits
<1> HIDE DEF f, R
<1>4. /\ IsFiniteSet(X) /\ unshift(A \cup C, n) = Cardinality(X)
      /\ IsFiniteSet(Y) /\ unshift(R, m) = Cardinality(Y)
  BY <1>2, UnshiftIsFree
<1>5. /\ \A v : v \in X <=> v \in Nat /\ v < n /\ v \notin A /\ v \notin C
      /\ \A x : x \in Y <=> x \in Nat /\ x < m /\ x \notin R
  BY DEF Free
<1> HIDE DEF X, Y
<1>6. ASSUME NEW v \in X
      PROVE  g[v] = f[v] /\ f[v] \in Y
  <2>1. v \in Nat \ A /\ v < n /\ v \notin C
    BY <1>5
  <2>2. f[v] \in Nat /\ f[v] \notin B /\ f[v] < m
    BY <1>1, <1>3, <2>1
  <2>3. f[v] \notin R
    <3>1. SUFFICES ASSUME f[v] \in R PROVE FALSE
      OBVIOUS
    <3>2. PICK w \in C \ A : f[v] = f[w]
      BY <1>2, <2>2, <3>1
    <3>3. v = w
      BY <1>1, <2>1, <3>2
    <3> QED
      BY <2>1, <3>3
  <2> QED
    BY <1>5, <2>2, <2>3
<1>7. g \in [X -> Y]
  BY <1>6
<1>8. \A v, w \in X : g[v] = g[w] => v = w
  <2>1. \A v \in X : v \in Nat \ A
    BY <1>5
  <2> QED
    BY <1>1, <1>6, <2>1
<1>9. \A x \in Y : \E v \in X : g[v] = x
  <2>1. ASSUME NEW x \in Y PROVE \E v \in X : g[v] = x
    <3>1. x \in Nat /\ x < m /\ x \notin R /\ x \notin B
      BY <1>2, <1>5
    <3>2. PICK v \in Nat \ A : f[v] = x
      BY <1>1, <3>1
    <3>3. v < n
      BY <1>3, <3>1, <3>2
    <3>4. v \notin C
      BY <1>2, <3>1, <3>2
    <3>5. v \in X
      BY <1>5, <3>2, <3>3, <3>4
    <3> QED
      BY <1>6, <3>2, <3>5
  <2> QED
    BY <2>1
<1> HIDE DEF g
<1>10. ExistsBijection(X, Y)
  <2>1. g \in Injection(X, Y)
    BY <1>7, <1>8 DEF Injection, IsInjective
  <2>2. g \in Surjection(X, Y)
    BY <1>7, <1>9 DEF Surjection
  <2> QED
    BY <2>1, <2>2 DEF ExistsBijection, Bijection
<1>11. Cardinality(Y) = Cardinality(X)
  BY <1>4, <1>10, FS_Bijection
<1> QED
  BY <1>4, <1>11 DEF R

LEMMA SameTurned ==
    ASSUME NEW D, NEW I, NEW s, NEW t, Same(D, I, s, t)
    PROVE  Same(I, D, t, s)
BY DEF Same

\* The entries that stay are the same entries.
LEMMA ThroughSame ==
    ASSUME NEW D \in SUBSET Nat, NEW I \in SUBSET Nat, IsFiniteSet(D), IsFiniteSet(I),
           NEW s \in Seq(Nat), NEW t \in Seq(Nat), Same(D, I, s, t)
    PROVE  /\ Splits(I, D, Len(t), Len(s))
           /\ \A v \in Positions(t) \ I :
                  /\ Through(I, D)[v] \in Positions(s) \ D
                  /\ At0(s, Through(I, D)[v]) = At0(t, v)
<1> DEFINE f == Through(I, D)
<1>1. /\ f \in [Nat \ I -> Nat \ D]
      /\ \A v \in Nat \ I : unshift(D, f[v]) = unshift(I, v)
  BY ThroughFacts
<1> HIDE DEF f
<1>2. /\ Len(s) \in Nat /\ Positions(s) \in SUBSET Nat
      /\ \A i \in Nat : i \in Positions(s) <=> i < Len(s)
  BY PositionFacts
<1>3. /\ Len(t) \in Nat /\ Positions(t) \in SUBSET Nat
      /\ \A i \in Nat : i \in Positions(t) <=> i < Len(t)
  BY PositionFacts
<1>4. ASSUME NEW v \in Nat \ I
      PROVE  v < Len(t) <=> f[v] < Len(s)
  <2>1. f[v] \in Nat /\ f[v] \notin D
    BY <1>1
  <2>2. v < Len(t) <=> unshift(I, v) < unshift(I, Len(t))
    BY <1>3, RankOrder
  <2>3. f[v] < Len(s) <=> unshift(D, f[v]) < unshift(D, Len(s))
    BY <1>2, <2>1, RankOrder
  <2> QED
    BY <1>1, <2>2, <2>3 DEF Same
<1>5. ASSUME NEW v \in Positions(t) \ I
      PROVE  f[v] \in Positions(s) \ D /\ At0(s, f[v]) = At0(t, v)
  <2>1. v \in Nat \ I /\ v < Len(t)
    BY <1>3
  <2>2. f[v] \in Nat \ D /\ f[v] < Len(s) /\ unshift(D, f[v]) = unshift(I, v)
    BY <1>1, <1>4, <2>1
  <2>3. f[v] \in Positions(s) \ D
    BY <1>2, <2>2
  <2> QED
    BY <2>2, <2>3 DEF Same
<1> QED
  BY <1>4, <1>5 DEF f, Splits

\* The rows of s without R are those of t without B.
Placed(R, s, B, t) ==
    /\ unshift(R, Len(s)) = unshift(B, Len(t))
    /\ \A i \in Positions(s) \ R : \E v \in Positions(t) :
           v \notin B /\ At0(s, i) = At0(t, v) /\ unshift(R, i) = unshift(B, v)

LEMMA PlaceThrough ==
    ASSUME NEW D \in SUBSET Nat, NEW I \in SUBSET Nat, IsFiniteSet(D), IsFiniteSet(I),
           NEW C \in SUBSET Nat, NEW s \in Seq(Nat), NEW t \in Seq(Nat), Same(D, I, s, t)
    PROVE  /\ MissingToo(I, D, C) \in SUBSET Nat
           /\ Placed(MissingToo(I, D, C), s, I \cup C, t)
<1> DEFINE f == Through(I, D)
           R == MissingToo(I, D, C)
<1>1. /\ f \in Surjection(Nat \ I, Nat \ D)
      /\ \A v, w \in Nat \ I : v < w <=> f[v] < f[w]
  BY ThroughFacts
<1>2. /\ Splits(I, D, Len(t), Len(s))
      /\ \A v \in Positions(t) \ I : f[v] \in Positions(s) \ D /\ At0(s, f[v]) = At0(t, v)
  BY ThroughSame
<1>3. /\ Len(s) \in Nat /\ Positions(s) \in SUBSET Nat
      /\ \A i \in Nat : i \in Positions(s) <=> i < Len(s)
  BY PositionFacts
<1>4. /\ Len(t) \in Nat /\ Positions(t) \in SUBSET Nat
      /\ \A i \in Nat : i \in Positions(t) <=> i < Len(t)
  BY PositionFacts
<1>5. unshift(R, Len(s)) = unshift(I \cup C, Len(t))
  BY <1>2, <1>3, <1>4, ThroughRanks
<1>6. \A v \in Nat \ I : f[v] \in Nat
  <2> HIDE DEF f
  <2> QED
    BY <1>1 DEF Surjection
<1>7. /\ R \in SUBSET Nat
      /\ \A v \in C \ I : f[v] \in R
      /\ \A i \in D : i \in R
  <2>1. R = D \cup {f[v] : v \in C \ I}
    BY DEF MissingToo
  <2> HIDE DEF f, R
  <2>2. \A v \in C \ I : v \in Nat \ I
    OBVIOUS
  <2> QED
    BY <1>6, <2>1, <2>2
<1>8. ASSUME NEW i \in Positions(s) \ R
      PROVE  \E v \in Positions(t) :
                 v \notin I \cup C /\ At0(s, i) = At0(t, v) /\ unshift(R, i) = unshift(I \cup C, v)
  <2> HIDE DEF R
  <2>1. i \in Nat /\ i < Len(s) /\ i \notin R /\ i \notin D
    BY <1>3, <1>7
  <2>2. PICK v \in Nat \ I : f[v] = i
    <3> HIDE DEF f
    <3> QED
      BY <1>1, <2>1 DEF Surjection
  <2>3. v \notin C
    BY <1>7, <2>1, <2>2
  <2>4. v \in Positions(t) /\ At0(s, i) = At0(t, v)
    BY <1>2, <1>4, <2>1, <2>2 DEF Splits
  <2>5. unshift(R, f[v]) = unshift(I \cup C, v)
    <3> DEFINE x == f[v]
    <3>1. Splits(I, D, v, x)
      BY <1>1, <2>2 DEF Splits
    <3>2. v \in Nat /\ x \in Nat
      BY <1>6, <2>2
    <3> HIDE DEF x, f
    <3>3. unshift(R, x) = unshift(I \cup C, v)
      BY <3>1, <3>2, ThroughRanks DEF R
    <3> QED
      BY <3>3 DEF x
  <2> QED
    BY <2>2, <2>3, <2>4, <2>5
<1> QED
  BY <1>5, <1>7, <1>8 DEF Placed

\* The places, counted from one, that Without keeps.
Remaining(s, D) == {i + 1 : i \in Positions(s) \ D}

LEMMA RemainingRanks ==
    ASSUME NEW s \in Seq(Nat), NEW D \in SUBSET Nat, NEW n \in Nat, n <= Len(s)
    PROVE  Cardinality({y \in Remaining(s, D) : y < n + 1}) = unshift(D, n)
<1> DEFINE X == Free(D, n)
           Y == {y \in Remaining(s, D) : y < n + 1}
           f == [x \in X |-> x + 1]
<1>1. IsFiniteSet(X) /\ unshift(D, n) = Cardinality(X)
  BY UnshiftIsFree
<1>2. Len(s) \in Nat /\ Positions(s) = 0..(Len(s) - 1)
  BY PositionFacts DEF Positions
<1>3. \A x : x \in X <=> x \in Nat /\ x < n /\ x \notin D
  BY DEF Free
<1>4. \A y : y \in Y <=> \E i \in Positions(s) : i \notin D /\ y = i + 1 /\ y < n + 1
  BY DEF Remaining
<1> HIDE DEF X, Y
<1>5. \A x \in X : x + 1 \in Y
  <2>1. ASSUME NEW x \in X PROVE x + 1 \in Y
    <3>1. x \in Nat /\ x < n /\ x \notin D
      BY <1>3
    <3>2. x \in Positions(s) /\ x + 1 < n + 1
      BY <1>2, <3>1
    <3> QED
      BY <1>4, <3>1, <3>2
  <2> QED
    BY <2>1
<1>6. \A y \in Y : \E x \in X : x + 1 = y
  <2>1. ASSUME NEW y \in Y PROVE \E x \in X : x + 1 = y
    <3>1. PICK i \in Positions(s) : i \notin D /\ y = i + 1 /\ y < n + 1
      BY <1>4
    <3>2. i \in Nat /\ i < n
      BY <1>2, <3>1
    <3> QED
      BY <1>3, <3>1, <3>2
  <2> QED
    BY <2>1
<1>7. X \in SUBSET Nat
  BY <1>3
<1>8. ExistsBijection(X, Y)
  <2>1. \A x, z \in X : f[x] = f[z] => x = z
    BY <1>7
  <2>2. f \in [X -> Y]
    BY <1>5
  <2>3. \A y \in Y : \E x \in X : f[x] = y
    BY <1>6
  <2> HIDE DEF f
  <2>4. f \in Injection(X, Y)
    BY <2>1, <2>2 DEF Injection, IsInjective
  <2>5. f \in Surjection(X, Y)
    BY <2>2, <2>3 DEF Surjection
  <2> QED
    BY <2>4, <2>5 DEF ExistsBijection, Bijection
<1>9. Cardinality(Y) = Cardinality(X)
  BY <1>1, <1>8, FS_Bijection
<1> QED
  BY <1>1, <1>9 DEF Y

-----------------------------------------------------------------------------
(* Recursion on a size                                                       *)

LEMMA CountIsInt ==
    ASSUME NEW S \in SUBSET Nat, NEW from \in Int, NEW to \in Int
    PROVE  count(S, from, to) \in Int
<1>1. IsFiniteSet(0..(to - 1))
  <2>1. 0 \in Int /\ to - 1 \in Int
    OBVIOUS
  <2> QED
    BY <2>1, FS_Interval
<1>2. {x \in S : from <= x /\ x < to} \in SUBSET (0..(to - 1))
  <2>1. \A x \in Nat : from <= x /\ x < to => x \in 0..(to - 1)
    OBVIOUS
  <2> QED
    BY <2>1
<1>3. IsFiniteSet({x \in S : from <= x /\ x < to})
  BY <1>1, <1>2, FS_Subset
<1>4. Cardinality({x \in S : from <= x /\ x < to}) \in Nat
  BY <1>3, FS_CardinalityType
<1> QED
  BY <1>4 DEF count

\* F computes a value of r from the values of what is smaller than r by f.
Recursion(R, V, size, n, F) ==
    /\ V # {} /\ n \in Nat
    /\ size \in [R -> 0..n] /\ F \in [R \X [R -> V] -> V]
    /\ \A r \in R, g, h \in [R -> V] :
           (\A q \in R : size[q] < size[r] => g[q] = h[q]) => F[<<r, g>>] = F[<<r, h>>]

LEMMA RecursionExists ==
    ASSUME NEW R, NEW V, NEW n, NEW size, NEW F, Recursion(R, V, size, n, F)
    PROVE  \E f : f \in [R -> V] /\ \A r \in R : f[r] = F[<<r, f>>]
<1> DEFINE Done(k) == \E f \in [R -> V] : \A r \in R : size[r] < k => f[r] = F[<<r, f>>]
           P == [k \in 0..(n + 1) |-> Done(k)]
<1>0. V # {} /\ n \in Nat
  BY DEF Recursion
<1>1. /\ \A r \in R : size[r] \in 0..n
      /\ \A r \in R, f \in [R -> V] : F[<<r, f>>] \in V
      /\ \A r \in R, g, h \in [R -> V] :
             (\A q \in R : size[q] < size[r] => g[q] = h[q]) => F[<<r, g>>] = F[<<r, h>>]
  BY DEF Recursion
<1>2. Done(0)
  <2>1. PICK v : v \in V
    BY <1>0
  <2>2. [r \in R |-> v] \in [R -> V]
    BY <2>1
  <2>3. \A r \in R : ~(size[r] < 0)
    BY <1>0, <1>1
  <2> QED
    BY <2>2, <2>3
<1>3. ASSUME NEW k \in 0..n, Done(k)
      PROVE  Done(k + 1)
  <2>0. k \in Nat /\ k + 1 \in Nat
    BY <1>0
  <2>1. PICK f \in [R -> V] : \A r \in R : size[r] < k => f[r] = F[<<r, f>>]
    BY <1>3
  <2> DEFINE h == [r \in R |-> IF size[r] = k THEN F[<<r, f>>] ELSE f[r]]
  <2>2. h \in [R -> V]
    BY <1>1
  <2>3. ASSUME NEW q \in R, size[q] < k PROVE f[q] = h[q]
    <3>1. size[q] # k
      BY <1>0, <1>1, <2>0, <2>3
    <3> QED
      BY <3>1
  <2>4. ASSUME NEW r \in R, size[r] < k + 1
        PROVE  h[r] = F[<<r, h>>]
    <3>1. size[r] \in Nat /\ size[r] <= k
      BY <1>0, <1>1, <2>0, <2>4
    <3>2. \A q \in R : size[q] < size[r] => f[q] = h[q]
      <4>1. ASSUME NEW q \in R, size[q] < size[r] PROVE f[q] = h[q]
        <5>1. size[q] < k
          BY <1>0, <1>1, <2>0, <3>1, <4>1
        <5> QED
          BY <2>3, <5>1
      <4> QED
        BY <4>1
    <3>3. F[<<r, f>>] = F[<<r, h>>]
      <4> HIDE DEF h
      <4> QED
        BY <1>1, <2>1, <2>2, <3>2
    <3>4. CASE size[r] = k
      <4>1. h[r] = F[<<r, f>>]
        BY <3>4
      <4> HIDE DEF h
      <4> QED
        BY <3>3, <4>1
    <3>5. CASE size[r] # k
      <4>1. h[r] = f[r]
        BY <3>5
      <4>2. size[r] < k
        BY <2>0, <3>1, <3>5
      <4> HIDE DEF h
      <4> QED
        BY <2>1, <3>3, <4>1, <4>2
    <3> QED
      BY <3>4, <3>5
  <2> HIDE DEF h
  <2> QED
    BY <2>2, <2>4
<1>4. P \in [0..(n + 1) -> BOOLEAN] /\ \A k \in 0..(n + 1) : P[k] <=> Done(k)
  OBVIOUS
<1> HIDE DEF P, Done
<1>5. P[n + 1]
  <2>1. n + 1 \in Nat /\ P[0]
    BY <1>0, <1>2, <1>4
  <2>2. \A k \in 1..(n + 1) : P[k - 1] => P[k]
    <3>1. ASSUME NEW k \in 1..(n + 1), P[k - 1] PROVE P[k]
      <4>1. k - 1 \in 0..n /\ k - 1 \in 0..(n + 1) /\ k \in 0..(n + 1) /\ (k - 1) + 1 = k
        BY <1>0
      <4>2. Done(k - 1)
        BY <1>4, <3>1, <4>1
      <4>3. Done((k - 1) + 1)
        BY <1>3, <4>1, <4>2
      <4> QED
        BY <1>4, <4>1, <4>3
    <3> QED
      BY <3>1
  <2> QED
    BY <1>4, <2>1, <2>2, StepByStep
<1>6. Done(n + 1)
  BY <1>0, <1>4, <1>5
<1>7. \A r \in R : size[r] < n + 1
  BY <1>0, <1>1
<1> QED
  BY <1>6, <1>7 DEF Done
=============================================================================
