------------------------ MODULE CollectionChangesProofs ------------------------
(***************************************************************************)
(* Proofs about the changes of a collection: what the ChangeBuilder        *)
(* records, parses and merges turns the entries the observer last saw into *)
(* those there are, and what it is told of modifications is complete.      *)
(*                                                                         *)
(* Follows(b, s, S, t, T) says that the changes b lead from the entries s, *)
(* of which those of S were modified, to the entries t, of which those of  *)
(* T are; TableFollows says it of the changes of a table before            *)
(* parse_complete has made moves of them.  Each operation of the builder   *)
(* extends what follows by the step it records, parse_complete and         *)
(* clean_up_stale_moves keep it, and merge composes two of them.           *)
(*                                                                         *)
(* The second half is about the results of a query.  The rows of two       *)
(* results that stay are the same in the same order (Aligned), once the    *)
(* rows found before are numbered as the table numbers them now            *)
(* (Numbered): those that calculate_moves_unsorted did not move, or those  *)
(* of the matching blocks of calculate_moves_sorted.                       *)
(***************************************************************************)
EXTENDS QueryResults, RowLemmas, WellFoundedInduction

-----------------------------------------------------------------------------
(* What a builder says about two lists of entries                            *)

Mappings == UNION {[K -> Nat] : K \in SUBSET Nat}

Builders ==
    [ deletions : SUBSET Nat, insertions : SUBSET Nat, modifications : SUBSET Nat,
      moves : Seq(MoveRecord), mapping : Mappings ]

ModsFit(M, I, P, t, S, T) ==
    \A j \in Positions(t) :
        j \notin I \/ j \in P => (At0(t, j) \in T <=> At0(t, j) \in S \/ j \in M)

BuilderFits(b, t) ==
    /\ b \in Builders /\ IsFiniteSet(b.deletions)
    /\ b.insertions \subseteq Positions(t) /\ b.modifications \subseteq Positions(t)

\* b leads from the entries s, of which S were modified before, to t and T.
Follows(b, s, S, t, T) ==
    /\ BuilderFits(b, t)
    /\ Same(b.deletions, b.insertions, s, t)
    /\ MovesFit(b.moves, b.deletions, b.insertions, s, t)
    /\ b.mapping = NoMapping
    /\ ModsFit(b.modifications, b.insertions, Targets(b.moves), t, S, T)

-----------------------------------------------------------------------------
(* Moves                                                                     *)

LEMMA MoveIs ==
    ASSUME NEW x \in Nat, NEW y \in Nat
    PROVE  Move(x, y) \in MoveRecord /\ Move(x, y).from = x /\ Move(x, y).to = y
BY DEF MoveRecord, Move

\* The entry at i is modified.
LEMMA ModsModified ==
    ASSUME NEW M, NEW I, NEW P, NEW t \in Seq(Nat), NEW S, NEW T, ModsFit(M, I, P, t, S, T),
           IsInjective(t), NEW i \in Positions(t)
    PROVE  ModsFit(add(M, i), I, P, t, S, T \cup {At0(t, i)})
<1>1. ASSUME NEW j \in Positions(t), At0(t, j) = At0(t, i)
      PROVE  j = i
  <2>1. j + 1 \in DOMAIN t /\ i + 1 \in DOMAIN t /\ j \in Nat /\ i \in Nat
    BY PositionFacts
  <2>2. j + 1 = i + 1
    BY <1>1, <2>1 DEF At0, IsInjective
  <2> QED
    BY <2>1, <2>2
<1> QED
  BY <1>1 DEF ModsFit, add

-----------------------------------------------------------------------------
(* What the operations of the builder record of a list                       *)

LEMMA BuilderIs ==
    ASSUME NEW b, NEW D \in SUBSET Nat, NEW I \in SUBSET Nat, NEW M \in SUBSET Nat,
           NEW moves \in Seq(MoveRecord), NEW mapping \in Mappings,
           b = [deletions |-> D, insertions |-> I, modifications |-> M,
                moves |-> moves, mapping |-> mapping]
    PROVE  /\ b \in Builders
           /\ b.deletions = D /\ b.insertions = I /\ b.modifications = M
           /\ b.moves = moves /\ b.mapping = mapping
BY DEF Builders

LEMMA NoMappingIs ==
    /\ NoMapping \in Mappings /\ DOMAIN NoMapping = {}
    /\ \A f \in Mappings : DOMAIN f = {} => f = NoMapping
<1>1. \A f \in Mappings : f = [k \in DOMAIN f |-> f[k]]
  BY DEF Mappings
<1> QED
  <2>1. NoMapping \in [{} -> Nat] /\ DOMAIN NoMapping = {}
    BY DEF NoMapping
  <2>2. NoMapping \in Mappings
    BY <2>1 DEF Mappings
  <2>3. ASSUME NEW f \in Mappings, DOMAIN f = {}
        PROVE  f = NoMapping
    <3>1. f = [k \in DOMAIN f |-> f[k]]
      BY <1>1
    <3>2. [k \in DOMAIN f |-> f[k]] = [k \in {} |-> npos]
      BY <2>3
    <3> QED
      BY <3>1, <3>2 DEF NoMapping
  <2> QED
    BY <2>1, <2>2, <2>3

LEMMA FieldsOf ==
    ASSUME NEW b \in Builders
    PROVE  /\ b.deletions \in SUBSET Nat /\ b.insertions \in SUBSET Nat
           /\ b.modifications \in SUBSET Nat
           /\ b.moves \in Seq(MoveRecord) /\ b.mapping \in Mappings
BY DEF Builders

\* What an insertion into the list does to the changes.
LEMMA InsertFollows ==
    ASSUME NEW b, NEW s \in Seq(Nat), NEW S, NEW t \in Seq(Nat), NEW T, Follows(b, s, S, t, T),
           NEW i \in 0..Len(t), NEW u \in Seq(Nat), Longer(t, i, u)
    PROVE  Follows(insert(b, i, 1), s, S, u, T)
<1> DEFINE f == Later(i)
           D == b.deletions
           I == b.insertions
           M == b.modifications
           J == insert_at(I, i, 1)
           N == shift_for_insert_at(M, i, 1)
           moves == Redirected(b.moves, f)
           c == insert(b, i, 1)
<1>1. /\ b \in Builders /\ IsFiniteSet(D) /\ I \subseteq Positions(t) /\ M \subseteq Positions(t)
      /\ Same(D, I, s, t) /\ MovesFit(b.moves, D, I, s, t) /\ b.mapping = NoMapping
      /\ ModsFit(M, I, Targets(b.moves), t, S, T)
  BY DEF Follows, BuilderFits
<1>2. /\ D \in SUBSET Nat /\ I \in SUBSET Nat /\ M \in SUBSET Nat
      /\ b.moves \in Seq(MoveRecord)
  BY <1>1, FieldsOf
<1>3. /\ i \in Nat /\ i \in Positions(u)
      /\ \A x \in Positions(t) : f[x] \in Positions(u) /\ At0(u, f[x]) = At0(t, x)
      /\ \A j \in Positions(u) : j # i => \E x \in Positions(t) : f[x] = j
  BY LongerFacts
<1>4. /\ f \in [Nat -> Nat]
      /\ \A x \in Nat : f[x] = IF x >= i THEN x + 1 ELSE x
      /\ \A x, y \in Nat : f[x] = f[y] => x = y
      /\ J \in SUBSET Nat /\ N \in SUBSET Nat
      /\ \A x \in Nat : f[x] \in J <=> f[x] = i \/ x \in I
      /\ \A x \in Nat : f[x] \in N <=> x \in M
      /\ \A x \in J : x = i \/ \E y \in I : x = f[y]
      /\ \A x \in N : \E y \in M : x = f[y]
      /\ i \in J /\ i \notin N
  <2>1. /\ f \in [Nat -> Nat]
        /\ \A x \in Nat : f[x] = IF x >= i THEN x + 1 ELSE x
        /\ \A x, y \in Nat : f[x] = f[y] => x = y
    BY <1>3, LaterFacts
  <2>2. \A R \in SUBSET Nat :
            /\ shift_for_insert_at(R, i, 1) \in SUBSET Nat
            /\ \A x \in Nat : f[x] \in shift_for_insert_at(R, i, 1) <=> x \in R
            /\ \A x \in shift_for_insert_at(R, i, 1) : \E y \in R : x = f[y]
            /\ i \notin shift_for_insert_at(R, i, 1)
            /\ insert_at(R, i, 1) = shift_for_insert_at(R, i, 1) \cup {i}
    BY <1>3, LaterFacts
  <2> HIDE DEF f
  <2>3. /\ N \in SUBSET Nat /\ i \notin N
        /\ \A x \in Nat : f[x] \in N <=> x \in M
        /\ \A x \in N : \E y \in M : x = f[y]
    BY <1>2, <2>2
  <2>4. /\ J \in SUBSET Nat /\ i \in J
        /\ \A x \in Nat : f[x] \in J <=> f[x] = i \/ x \in I
        /\ \A x \in J : x = i \/ \E y \in I : x = f[y]
    <3> DEFINE R == shift_for_insert_at(I, i, 1)
    <3>1. /\ R \in SUBSET Nat /\ J = R \cup {i}
          /\ \A x \in Nat : f[x] \in R <=> x \in I
          /\ \A x \in R : \E y \in I : x = f[y]
      BY <1>2, <2>2
    <3> HIDE DEF R, J
    <3> QED
      BY <1>3, <3>1
  <2> QED
    BY <2>1, <2>3, <2>4
<1>5. \A x \in Positions(t) : x \in Nat /\ f[x] # i
  <2>1. Positions(t) \in SUBSET Nat
    BY PositionFacts
  <2>2. ASSUME NEW x \in Nat PROVE f[x] # i
    <3>1. f[x] = IF x >= i THEN x + 1 ELSE x
      BY <1>4
    <3> QED
      BY <1>3, <3>1
  <2> QED
    BY <2>1, <2>2
<1>6. c = [deletions |-> D, insertions |-> J, modifications |-> N,
           moves |-> moves, mapping |-> NoMapping]
  <2>1. \A k \in DOMAIN b.moves : b.moves[k].to \in Nat
    BY <1>2, RowsFacts, MoveFields
  <2>2. MapMoves(b.moves, LAMBDA k : IF k >= i THEN k + 1 ELSE k) = moves
    BY <1>4, <2>1 DEF MapMoves, Redirected
  <2>3. DOMAIN b.mapping = {}
    BY <1>1, NoMappingIs
  <2>4. [p \in {IF k >= i THEN k + 1 ELSE k : k \in DOMAIN b.mapping} |->
            b.mapping[CHOOSE k \in DOMAIN b.mapping : (IF k >= i THEN k + 1 ELSE k) = p]]
        = NoMapping
    BY <2>3 DEF NoMapping
  <2> HIDE DEF D, J, N, moves, f
  <2> QED
    BY <2>2, <2>4 DEF insert, D, J, N
<1> HIDE DEF c, f, D, I, M, J, N
<1>7. /\ moves \in Seq(MoveRecord)
      /\ MovesFit(moves, D, J, s, u)
  <2>1. ASSUME NEW k \in DOMAIN b.moves
        PROVE  f[b.moves[k].to] \in J /\ At0(u, f[b.moves[k].to]) = At0(t, b.moves[k].to)
    <3>1. b.moves[k].to \in I /\ b.moves[k].to \in Positions(t)
      BY <1>1 DEF MovesFit
    <3> QED
      BY <1>2, <1>3, <1>4, <3>1
  <2>2. ASSUME NEW k \in DOMAIN b.moves, NEW l \in DOMAIN b.moves,
               f[b.moves[k].to] = f[b.moves[l].to]
        PROVE  b.moves[k].to = b.moves[l].to
    <3>1. b.moves[k].to \in Nat /\ b.moves[l].to \in Nat
      BY <1>2, RowsFacts, MoveFields
    <3> QED
      BY <1>4, <2>2, <3>1
  <2>3. Carries(f, b.moves, D, t, D, J, u)
    BY <1>4, <2>1, <2>2 DEF Carries
  <2>4. MovesFit(b.moves, D, I, s, t) /\ b.moves \in Seq(MoveRecord)
    BY <1>1, <1>2
  <2> QED
    BY <2>3, <2>4, MovesCarried
<1>8. /\ c \in Builders /\ c.deletions = D /\ c.insertions = J /\ c.modifications = N
      /\ c.moves = moves /\ c.mapping = NoMapping
  BY <1>2, <1>4, <1>6, <1>7, BuilderIs, NoMappingIs
<1>9. Same(D, J, s, u)
  BY <1>1, <1>2, SameInserted DEF J
<1>10. J \subseteq Positions(u) /\ N \subseteq Positions(u)
  <2>1. \A y \in Positions(t) : f[y] \in Positions(u)
    BY <1>3
  <2>2. ASSUME NEW x \in J PROVE x \in Positions(u)
    <3>1. x = i \/ \E y \in I : x = f[y]
      BY <1>4
    <3>2. \A y \in I : y \in Positions(t)
      BY <1>1
    <3> QED
      BY <1>3, <2>1, <3>1, <3>2
  <2>3. ASSUME NEW x \in N PROVE x \in Positions(u)
    <3>1. PICK y \in M : x = f[y]
      BY <1>4
    <3>2. y \in Positions(t)
      BY <1>1
    <3> QED
      BY <2>1, <3>1, <3>2
  <2> QED
    BY <2>2, <2>3
<1>11. ModsFit(N, J, Targets(moves), u, S, T)
  <2>1. ASSUME NEW j \in Positions(u), j \notin J \/ j \in Targets(moves)
        PROVE  \E k \in Positions(t) : /\ k \notin I \/ k \in Targets(b.moves)
                                       /\ At0(u, j) = At0(t, k)
                                       /\ j \in N <=> k \in M
    <3>1. CASE j \in Targets(moves)
      <4>0. /\ f \in [Nat -> Nat] /\ b.moves \in Seq(MoveRecord)
            /\ j \in Targets(Redirected(b.moves, f))
        BY <1>2, <1>4, <3>1
      <4>1. PICK x \in Targets(b.moves) : j = f[x]
        BY <4>0, TargetsRedirected, Zenon
      <4>2. x \in Positions(t)
        BY <1>1, <1>2, <4>1, TargetsIn
      <4> QED
        BY <1>2, <1>3, <1>4, <1>5, <4>1, <4>2
    <3>2. CASE j \notin J
      <4>1. PICK x \in Positions(t) : f[x] = j
        BY <1>3, <1>4, <3>2
      <4> QED
        BY <1>3, <1>4, <1>5, <3>2, <4>1
    <3> QED
      BY <2>1, <3>1, <3>2
  <2> QED
    BY <1>1, <2>1 DEF ModsFit
<1> HIDE DEF moves
<1> QED
  BY <1>1, <1>7, <1>8, <1>9, <1>10, <1>11 DEF Follows, BuilderFits, c

\* What is erased from the list stays erased; what was moved there is not moved any more.
LEMMA EraseFollows ==
    ASSUME NEW b, NEW s \in Seq(Nat), NEW S, NEW t \in Seq(Nat), NEW T, Follows(b, s, S, t, T),
           NEW i \in Positions(t), NEW u \in Seq(Nat), Shorter(t, i, u)
    PROVE  Follows(erase(b, i), s, S, u, T)
<1> DEFINE f == Earlier(i)
           D == b.deletions
           I == b.insertions
           M == b.modifications
           J == erase_at(I, i)
           N == erase_at(M, i)
           E == IF i \in I THEN D ELSE add_shifted(D, unshift(I, i))
           K == {k \in DOMAIN b.moves : b.moves[k].to # i}
           kept == Chosen(b.moves, K)
           moves == Redirected(kept, f)
           c == erase(b, i)
<1>1. /\ b \in Builders /\ IsFiniteSet(D) /\ I \subseteq Positions(t) /\ M \subseteq Positions(t)
      /\ Same(D, I, s, t) /\ MovesFit(b.moves, D, I, s, t) /\ b.mapping = NoMapping
      /\ ModsFit(M, I, Targets(b.moves), t, S, T)
  BY DEF Follows, BuilderFits
<1>2. /\ D \in SUBSET Nat /\ I \in SUBSET Nat /\ M \in SUBSET Nat
      /\ b.moves \in Seq(MoveRecord)
  BY <1>1, FieldsOf
<1>3. /\ i \in Nat
      /\ \A x \in Positions(t) \ {i} : f[x] \in Positions(u) /\ At0(u, f[x]) = At0(t, x)
      /\ \A j \in Positions(u) : \E x \in Positions(t) \ {i} : f[x] = j
  BY ShorterFacts
<1>4. /\ f \in [Nat -> Nat]
      /\ \A x \in Nat : f[x] = IF x > i THEN x - 1 ELSE x
      /\ \A x, y \in Nat \ {i} : f[x] = f[y] => x = y
      /\ J \in SUBSET Nat /\ N \in SUBSET Nat
      /\ \A x \in Nat \ {i} : f[x] \in J <=> x \in I
      /\ \A x \in Nat \ {i} : f[x] \in N <=> x \in M
      /\ \A x \in J : \E y \in I \ {i} : x = f[y]
      /\ \A x \in N : \E y \in M \ {i} : x = f[y]
  <2>1. /\ f \in [Nat -> Nat]
        /\ \A x \in Nat : f[x] = IF x > i THEN x - 1 ELSE x
        /\ \A x, y \in Nat \ {i} : f[x] = f[y] => x = y
    BY <1>3, EarlierFacts
  <2>2. \A R \in SUBSET Nat :
            /\ erase_at(R, i) \in SUBSET Nat
            /\ \A x \in Nat \ {i} : f[x] \in erase_at(R, i) <=> x \in R
            /\ \A x \in erase_at(R, i) : \E y \in R \ {i} : x = f[y]
    BY <1>3, EarlierFacts
  <2> HIDE DEF f
  <2> QED
    BY <1>2, <2>1, <2>2
<1>5. Positions(t) \in SUBSET Nat /\ IsFiniteSet(I)
  <2>1. Positions(t) \in SUBSET Nat /\ IsFiniteSet(Positions(t))
    BY PositionFacts
  <2> QED
    BY <1>1, <2>1, FS_Subset
<1>6. /\ kept \in Seq(MoveRecord) /\ MovesFit(kept, D, I, s, t)
      /\ Targets(kept) = {b.moves[k].to : k \in K}
      /\ \A l \in DOMAIN kept : \E k \in K : kept[l] = b.moves[k]
  <2>1. K \in SUBSET DOMAIN b.moves
    OBVIOUS
  <2> HIDE DEF K
  <2> QED
    BY <1>1, <1>2, <2>1, MovesChosen
<1>7. \A l \in DOMAIN kept : kept[l].to \in Nat /\ kept[l].to # i
  BY <1>2, <1>6, RowsFacts, MoveFields
<1>8. unshift(I, i) \in Nat /\ unshift(I, i) # npos
  <2>1. unshift(I, i) \in Nat
    BY <1>2, <1>3, UnshiftIsFree
  <2> QED
    BY <2>1 DEF npos
<1>9. c = [b EXCEPT !.deletions = E, !.insertions = J, !.modifications = N, !.moves = moves]
  <2>1. MapMoves(kept, LAMBDA k : IF k > i THEN k - 1 ELSE k) = moves
    BY <1>4, <1>7 DEF MapMoves, Redirected
  <2>2. MovesKept(b, i) = kept
    BY DEF MovesKept
  <2>3. E = IF erase_or_unshift(I, i) = npos THEN D
            ELSE add_shifted(D, erase_or_unshift(I, i))
    BY <1>8 DEF erase_or_unshift
  <2> HIDE DEF E, J, N, moves, f, kept
  <2> QED
    BY <2>1, <2>2, <2>3 DEF erase, J, N
<1>10. E \in SUBSET Nat /\ IsFiniteSet(E) /\ D \subseteq E
  BY <1>1, <1>2, <1>8, FiniteMore
<1> HIDE DEF c, f, D, I, M, J, N, E, kept
<1>11. /\ moves \in Seq(MoveRecord)
       /\ MovesFit(moves, E, J, s, u)
  <2>1. ASSUME NEW k \in DOMAIN kept
        PROVE  f[kept[k].to] \in J /\ At0(u, f[kept[k].to]) = At0(t, kept[k].to)
    <3>1. kept[k].to \in I /\ kept[k].to \in Positions(t) /\ kept[k].to # i
      BY <1>1, <1>6, <1>7 DEF MovesFit
    <3> QED
      BY <1>2, <1>3, <1>4, <3>1
  <2>2. \A k, l \in DOMAIN kept : f[kept[k].to] = f[kept[l].to] => kept[k].to = kept[l].to
    <3>1. ASSUME NEW k \in DOMAIN kept, NEW l \in DOMAIN kept, f[kept[k].to] = f[kept[l].to]
          PROVE  kept[k].to = kept[l].to
      <4>1. kept[k].to \in Nat \ {i} /\ kept[l].to \in Nat \ {i}
        BY <1>7
      <4> QED
        BY <1>4, <3>1, <4>1
    <3> QED
      BY <3>1
  <2>3. Carries(f, kept, D, t, E, J, u)
    BY <1>4, <1>10, <2>1, <2>2 DEF Carries
  <2>4. MovesFit(kept, D, I, s, t) /\ kept \in Seq(MoveRecord)
    BY <1>6
  <2> QED
    BY <2>3, <2>4, MovesCarried
<1>12. /\ c \in Builders /\ c.deletions = E /\ c.insertions = J /\ c.modifications = N
       /\ c.moves = moves /\ c.mapping = NoMapping
  <2> HIDE DEF moves
  <2>1. b = [deletions |-> D, insertions |-> I, modifications |-> M,
             moves |-> b.moves, mapping |-> NoMapping]
    BY <1>1 DEF Builders, D, I, M
  <2> DEFINE old_moves == b.moves
  <2> HIDE DEF old_moves
  <2>3. b = [deletions |-> D, insertions |-> I, modifications |-> M,
             moves |-> old_moves, mapping |-> NoMapping]
    BY <2>1 DEF old_moves
  <2>2. c = [deletions |-> E, insertions |-> J, modifications |-> N,
             moves |-> moves, mapping |-> NoMapping]
    BY <1>9, <2>3
  <2> QED
    BY <1>4, <1>10, <1>11, <2>2, BuilderIs, NoMappingIs
<1>13. Same(E, J, s, u)
  BY <1>1, <1>2, <1>5, SameErased DEF E, J
<1>14. J \subseteq Positions(u) /\ N \subseteq Positions(u)
  <2>1. \A y \in Positions(t) \ {i} : f[y] \in Positions(u)
    BY <1>3
  <2>2. ASSUME NEW x \in J PROVE x \in Positions(u)
    <3>1. PICK y \in I \ {i} : x = f[y]
      BY <1>4
    <3>2. y \in Positions(t) \ {i}
      BY <1>1
    <3> QED
      BY <2>1, <3>1, <3>2
  <2>3. ASSUME NEW x \in N PROVE x \in Positions(u)
    <3>1. PICK y \in M \ {i} : x = f[y]
      BY <1>4
    <3>2. y \in Positions(t) \ {i}
      BY <1>1
    <3> QED
      BY <2>1, <3>1, <3>2
  <2> QED
    BY <2>2, <2>3
<1>15. ModsFit(N, J, Targets(moves), u, S, T)
  <2>1. ASSUME NEW j \in Positions(u), j \notin J \/ j \in Targets(moves)
        PROVE  \E k \in Positions(t) : /\ k \notin I \/ k \in Targets(b.moves)
                                       /\ At0(u, j) = At0(t, k)
                                       /\ j \in N <=> k \in M
    <3>1. CASE j \in Targets(moves)
      <4>0. /\ f \in [Nat -> Nat] /\ kept \in Seq(MoveRecord)
            /\ j \in Targets(Redirected(kept, f))
        BY <1>4, <1>6, <3>1
      <4>1. PICK x \in Targets(kept) : j = f[x]
        BY <4>0, TargetsRedirected, Zenon
      <4>2. x \in Targets(b.moves) /\ x # i
        BY <1>6, <4>1 DEF Targets
      <4>3. x \in Positions(t)
        BY <1>1, <1>2, <4>2, TargetsIn
      <4> QED
        BY <1>3, <1>4, <1>5, <4>1, <4>2, <4>3
    <3>2. CASE j \notin J
      <4>1. PICK x \in Positions(t) \ {i} : f[x] = j
        BY <1>3
      <4> QED
        BY <1>3, <1>4, <1>5, <3>2, <4>1
    <3> QED
      BY <2>1, <3>1, <3>2
  <2> QED
    BY <1>1, <2>1 DEF ModsFit
<1> HIDE DEF moves
<1> QED
  BY <1>10, <1>12, <1>11, <1>13, <1>14, <1>15 DEF Follows, BuilderFits, c

\* What is moved within the list is a new move, or the same move to another place.
LEMMA MoveFollows ==
    ASSUME NEW b, NEW s \in Seq(Nat), NEW S, NEW t \in Seq(Nat), NEW T, Follows(b, s, S, t, T),
           NEW from \in Positions(t), NEW to \in Positions(t),
           NEW u \in Seq(Nat), Passes(t, from, to, u)
    PROVE  Follows(move(b, from, to), s, S, u, T)
<1> DEFINE f == Passed(from, to)
           D == b.deletions
           I == b.insertions
           M == b.modifications
           less == erase_at(I, from)
           J == insert_at(less, to, 1)
           rest == erase_at(M, from)
           N == IF from \in M THEN insert_at(rest, to, 1) ELSE shift_for_insert_at(rest, to, 1)
           E == IF from \in I THEN D ELSE add_shifted(D, unshift(I, from))
           d == shift(D, unshift(I, from))
           new == IF from \in I THEN <<>> ELSE <<Move(d, to)>>
           carried == Redirected(b.moves, f)
           moves == carried \o new
           c == move(b, from, to)
<1>1. /\ b \in Builders /\ IsFiniteSet(D) /\ I \subseteq Positions(t) /\ M \subseteq Positions(t)
      /\ Same(D, I, s, t) /\ MovesFit(b.moves, D, I, s, t) /\ b.mapping = NoMapping
      /\ ModsFit(M, I, Targets(b.moves), t, S, T)
  BY DEF Follows, BuilderFits
<1>2. /\ D \in SUBSET Nat /\ I \in SUBSET Nat /\ M \in SUBSET Nat
      /\ b.moves \in Seq(MoveRecord)
  BY <1>1, FieldsOf
<1>3. /\ from \in Nat /\ to \in Nat
      /\ Positions(u) = Positions(t)
      /\ \A k \in Positions(t) : f[k] \in Positions(t)
      /\ \A j \in Positions(u) : \E k \in Positions(t) : f[k] = j
  BY PassesFacts
<1>4. PICK v \in Seq(Nat) : Shorter(t, from, v) /\ Longer(v, to, u) /\ to \in 0..Len(v)
  BY PassesFacts
<1>5. \A k \in Positions(t) : At0(u, f[k]) = At0(t, k)
  BY DEF Passes
<1>6. /\ f \in [Nat -> Nat] /\ f[from] = to
      /\ \A k \in Nat : f[k] = IF k = from THEN to
                            ELSE IF k >= to /\ k < from THEN k + 1
                            ELSE IF k <= to /\ k > from THEN k - 1 ELSE k
      /\ \A k \in Nat \ {from} : f[k] = Later(to)[Earlier(from)[k]]
      /\ \A k, l \in Nat : f[k] = f[l] => k = l
  <2>1. /\ f \in [Nat -> Nat] /\ f[from] = to
        /\ \A k \in Nat : f[k] = IF k = from THEN to
                              ELSE IF k >= to /\ k < from THEN k + 1
                              ELSE IF k <= to /\ k > from THEN k - 1 ELSE k
        /\ \A k \in Nat \ {from} : f[k] = Later(to)[Earlier(from)[k]]
    <3>1. f \in [Nat -> Nat] /\ f[from] = to
      BY <1>3, PassedFacts
    <3>2. \A k \in Nat : f[k] = IF k = from THEN to
                              ELSE IF k >= to /\ k < from THEN k + 1
                              ELSE IF k <= to /\ k > from THEN k - 1 ELSE k
      BY <1>3, PassedFacts, SMTT(60)
    <3>3. \A k \in Nat \ {from} : f[k] = Later(to)[Earlier(from)[k]]
      BY <1>3, PassedFacts
    <3> QED
      BY <3>1, <3>2, <3>3
  <2>2. \A k, l \in Nat : f[k] = f[l] => k = l
    BY <1>3, PassedFacts
  <2> QED
    BY <2>1, <2>2
<1>7. Positions(t) \in SUBSET Nat /\ IsFiniteSet(I)
  <2>1. Positions(t) \in SUBSET Nat /\ IsFiniteSet(Positions(t))
    BY PositionFacts
  <2> QED
    BY <1>1, <2>1, FS_Subset
<1>8. ASSUME NEW R \in SUBSET Nat
      PROVE  LET A == erase_at(R, from)
                 B == shift_for_insert_at(A, to, 1)
             IN  /\ B \in SUBSET Nat /\ to \notin B
                 /\ insert_at(A, to, 1) = B \cup {to}
                 /\ \A k \in Nat \ {from} : f[k] \in B <=> k \in R
                 /\ \A x \in B : \E k \in R \ {from} : x = f[k]
  <2> DEFINE A == erase_at(R, from)
             B == shift_for_insert_at(A, to, 1)
  <2>1. /\ Earlier(from) \in [Nat -> Nat] /\ A \in SUBSET Nat
        /\ \A x \in Nat \ {from} : Earlier(from)[x] \in A <=> x \in R
        /\ \A x \in A : \E y \in R \ {from} : x = Earlier(from)[y]
    BY <1>3, EarlierFacts
  <2> HIDE DEF A
  <2>2. /\ B \in SUBSET Nat /\ to \notin B /\ insert_at(A, to, 1) = B \cup {to}
        /\ \A x \in Nat : Later(to)[x] \in B <=> x \in A
        /\ \A x \in B : \E y \in A : x = Later(to)[y]
    BY <1>3, <2>1, LaterFacts
  <2> HIDE DEF B
  <2>3. ASSUME NEW k \in Nat \ {from}
        PROVE  f[k] \in B <=> k \in R
    <3>1. Earlier(from)[k] \in Nat /\ f[k] = Later(to)[Earlier(from)[k]]
      BY <1>6, <2>1
    <3> QED
      BY <2>1, <2>2, <3>1
  <2>4. ASSUME NEW x \in B
        PROVE  \E k \in R \ {from} : x = f[k]
    <3>1. PICK y \in A : x = Later(to)[y]
      BY <2>2
    <3>2. PICK k \in R \ {from} : y = Earlier(from)[k]
      BY <2>1
    <3>3. x = f[k]
      BY <1>6, <3>1, <3>2
    <3> QED
      BY <3>3
  <2> QED
    BY <2>2, <2>3, <2>4 DEF A, B
<1>9. /\ J \in SUBSET Nat /\ to \in J
      /\ \A k \in Nat \ {from} : f[k] \in J <=> k \in I
      /\ \A x \in J : x = to \/ \E k \in I : x = f[k]
  <2> DEFINE B == shift_for_insert_at(less, to, 1)
  <2>1. /\ B \in SUBSET Nat /\ J = B \cup {to}
        /\ \A k \in Nat \ {from} : f[k] \in B <=> k \in I
        /\ \A x \in B : \E k \in I \ {from} : x = f[k]
    BY <1>2, <1>8
  <2>2. \A k \in Nat \ {from} : f[k] # to
    BY <1>3, <1>6
  <2> HIDE DEF B, J, f
  <2> QED
    BY <1>3, <2>1, <2>2
<1>10. /\ N \in SUBSET Nat
       /\ \A k \in Nat : f[k] \in N <=> k \in M
       /\ \A x \in N : \E k \in M : x = f[k]
  <2> DEFINE B == shift_for_insert_at(rest, to, 1)
  <2>1. /\ B \in SUBSET Nat /\ to \notin B /\ N = IF from \in M THEN B \cup {to} ELSE B
        /\ \A k \in Nat \ {from} : f[k] \in B <=> k \in M
        /\ \A x \in B : \E k \in M \ {from} : x = f[k]
    BY <1>2, <1>8
  <2>2. \A k \in Nat \ {from} : f[k] # to
    BY <1>3, <1>6
  <2> HIDE DEF B, N, f, M
  <2>3. CASE from \in M
    <3>1. N = B \cup {to}
      BY <2>1, <2>3
    <3>2. N \in SUBSET Nat
      BY <1>3, <2>1, <3>1
    <3>3. ASSUME NEW k \in Nat
          PROVE  f[k] \in N <=> k \in M
      BY <1>6, <2>1, <2>2, <2>3, <3>1
    <3>4. \A x \in N : \E k \in M : x = f[k]
      BY <1>6, <2>1, <2>3, <3>1
    <3> QED
      BY <3>2, <3>3, <3>4
  <2>4. CASE from \notin M
    <3>1. N = B
      BY <2>1, <2>4
    <3>2. ASSUME NEW k \in Nat
          PROVE  f[k] \in N <=> k \in M
      BY <1>6, <2>1, <2>4, <3>1
    <3> QED
      BY <2>1, <3>1, <3>2
  <2> QED
    BY <2>3, <2>4
<1>11. unshift(I, from) \in Nat /\ unshift(I, from) # npos
  <2>1. unshift(I, from) \in Nat
    BY <1>2, <1>3, UnshiftIsFree
  <2> QED
    BY <2>1 DEF npos
<1>12. E \in SUBSET Nat /\ IsFiniteSet(E) /\ D \subseteq E
  BY <1>1, <1>2, <1>11, FiniteMore
<1>13. c = [b EXCEPT !.deletions = E, !.insertions = J, !.modifications = N, !.moves = moves]
  <2>1. \A k \in DOMAIN b.moves : b.moves[k].to \in Nat
    BY <1>2, RowsFacts, MoveFields
  <2>2. MapMoves(b.moves, LAMBDA k : IF k = from THEN to
                                     ELSE IF k >= to /\ k < from THEN k + 1
                                     ELSE IF k <= to /\ k > from THEN k - 1 ELSE k) = carried
    BY <1>6, <2>1 DEF MapMoves, Redirected
  <2>3. (\E k \in DOMAIN b.moves : b.moves[k].to = from) => from \in I
    BY <1>1 DEF MovesFit
  <2> DEFINE r == erase_or_unshift(I, from)
             fresh == ~(\E k \in DOMAIN b.moves : b.moves[k].to = from) /\ r # npos
  <2>4. r = IF from \in I THEN npos ELSE unshift(I, from)
    BY DEF erase_or_unshift
  <2>5. fresh <=> from \notin I
    BY <1>11, <2>3, <2>4
  <2>6. E = IF fresh THEN add_shifted(D, r) ELSE D
    BY <2>4, <2>5
  <2>7. new = IF fresh THEN <<Move(shift(D, r), to)>> ELSE <<>>
    BY <2>4, <2>5
  <2> HIDE DEF E, new, carried, f
  <2> QED
    BY <2>2, <2>6, <2>7 DEF move
<1> HIDE DEF c, f, D, I, M, J, N, E, d, new, moves
<1>14. carried \in Seq(MoveRecord) /\ MovesFit(carried, E, J, s, u)
  <2>1. ASSUME NEW k \in DOMAIN b.moves
        PROVE  /\ b.moves[k].to \in Nat
               /\ f[b.moves[k].to] \in J /\ At0(u, f[b.moves[k].to]) = At0(t, b.moves[k].to)
    <3>1. b.moves[k].to \in I /\ b.moves[k].to \in Positions(t)
      BY <1>1 DEF MovesFit
    <3> QED
      BY <1>2, <1>5, <1>6, <1>9, <3>1
  <2>2. ASSUME NEW k \in DOMAIN b.moves, NEW l \in DOMAIN b.moves,
               f[b.moves[k].to] = f[b.moves[l].to]
        PROVE  b.moves[k].to = b.moves[l].to
    BY <1>6, <2>1, <2>2
  <2>3. Carries(f, b.moves, D, t, E, J, u)
    BY <1>6, <1>12, <2>1, <2>2 DEF Carries
  <2>4. MovesFit(b.moves, D, I, s, t) /\ b.moves \in Seq(MoveRecord)
    BY <1>1, <1>2
  <2> QED
    BY <2>3, <2>4, MovesCarried
<1>15. ASSUME from \notin I
       PROVE  /\ d \in Nat /\ d \notin D /\ d \in Positions(s) /\ d \in E
              /\ At0(s, d) = At0(u, to) /\ E = D \cup {d}
  <2>1. from \in Positions(t) \ I
    BY <1>15
  <2>2. d \in Positions(s) \ D /\ At0(s, d) = At0(t, from)
    <3>1. /\ D \in SUBSET Nat /\ I \in SUBSET Nat /\ IsFiniteSet(D) /\ IsFiniteSet(I)
          /\ Same(D, I, s, t)
      BY <1>1, <1>2, <1>7
    <3> QED
      BY <2>1, <3>1, SameBack, SMTT(60) DEF d
  <2>3. Positions(s) \in SUBSET Nat
    BY PositionFacts
  <2>4. At0(t, from) = At0(u, to)
    BY <1>5, <1>6
  <2>5. E = D \cup {d}
    BY <1>15 DEF E, d, add_shifted
  <2> QED
    BY <2>2, <2>3, <2>4, <2>5
<1>16. /\ new \in Seq(MoveRecord) /\ MovesFit(new, E, J, s, u)
       /\ \A l \in DOMAIN new : from \notin I /\ new[l].from = d /\ new[l].to = to
  <2>1. CASE from \in I
    <3>1. new = <<>> /\ DOMAIN new = {}
      BY <2>1 DEF new
    <3> QED
      BY <3>1 DEF MovesFit
  <2>2. CASE from \notin I
    <3>1. /\ Move(d, to) \in MoveRecord /\ Move(d, to).from = d /\ Move(d, to).to = to
      BY <1>3, <1>15, <2>2, MoveIs
    <3>2. new = <<Move(d, to)>>
      BY <2>2 DEF new
    <3>3. new \in Seq(MoveRecord) /\ DOMAIN new = {1} /\ new[1] = Move(d, to)
      BY <3>1, <3>2
    <3> QED
      BY <1>9, <1>15, <2>2, <3>1, <3>3 DEF MovesFit
  <2> QED
    BY <2>1, <2>2
<1>17. /\ moves \in Seq(MoveRecord) /\ MovesFit(moves, E, J, s, u)
       /\ Targets(moves) = Targets(carried) \cup Targets(new)
  <2>1. ASSUME NEW k \in DOMAIN carried, NEW l \in DOMAIN new
        PROVE  carried[k].from # new[l].from /\ carried[k].to # new[l].to
    <3>1. k \in DOMAIN b.moves /\ carried[k] = [b.moves[k] EXCEPT !.to = f[b.moves[k].to]]
      BY DEF Redirected
    <3>2. /\ b.moves[k] \in MoveRecord /\ b.moves[k].to \in Nat
          /\ b.moves[k].to \in I /\ b.moves[k].from \in D
      BY <1>1, <1>2, <3>1, RowsFacts, MoveFields DEF MovesFit
    <3>3. f[b.moves[k].to] \in Nat
      BY <1>6, <3>2
    <3>4. carried[k].from = b.moves[k].from /\ carried[k].to = f[b.moves[k].to]
      BY <3>1, <3>2, <3>3, MoveFields
    <3>5. from \notin I /\ new[l].from = d /\ new[l].to = to
      BY <1>16
    <3>6. f[b.moves[k].to] # to
      <4>1. b.moves[k].to # from
        BY <3>2, <3>5
      <4>2. f[b.moves[k].to] # f[from]
        BY <1>3, <1>6, <3>2, <4>1
      <4> QED
        BY <1>6, <4>2
    <3> QED
      BY <1>15, <3>2, <3>4, <3>5, <3>6
  <2> HIDE DEF carried
  <2> QED
    BY <1>14, <1>16, <2>1, MovesJoined DEF moves
<1>18. /\ c \in Builders /\ c.deletions = E /\ c.insertions = J /\ c.modifications = N
       /\ c.moves = moves /\ c.mapping = NoMapping
  <2>1. b = [deletions |-> D, insertions |-> I, modifications |-> M,
             moves |-> b.moves, mapping |-> NoMapping]
    BY <1>1 DEF Builders, D, I, M
  <2> DEFINE old_moves == b.moves
  <2> HIDE DEF old_moves
  <2>2. b = [deletions |-> D, insertions |-> I, modifications |-> M,
             moves |-> old_moves, mapping |-> NoMapping]
    BY <2>1 DEF old_moves
  <2>3. c = [deletions |-> E, insertions |-> J, modifications |-> N,
             moves |-> moves, mapping |-> NoMapping]
    BY <1>13, <2>2
  <2> QED
    BY <1>9, <1>10, <1>12, <1>17, <2>3, BuilderIs, NoMappingIs
<1>19. Same(E, J, s, u)
  <2>1. Same(E, less, s, v)
    BY <1>1, <1>2, <1>4, <1>7, SameErased DEF E, I, D
  <2>2. less \in SUBSET Nat
    BY <1>2, <1>3, EarlierFacts
  <2> QED
    BY <1>4, <1>12, <2>1, <2>2, SameInserted DEF J
<1>20. J \subseteq Positions(u) /\ N \subseteq Positions(u)
  <2>1. ASSUME NEW x \in J PROVE x \in Positions(u)
    <3>1. x = to \/ \E k \in I : x = f[k]
      BY <1>9
    <3>2. \A k \in I : k \in Positions(t)
      BY <1>1
    <3> QED
      BY <1>3, <3>1, <3>2
  <2>2. ASSUME NEW x \in N PROVE x \in Positions(u)
    <3>1. PICK k \in M : x = f[k]
      BY <1>10
    <3>2. k \in Positions(t)
      BY <1>1
    <3> QED
      BY <1>3, <3>1, <3>2
  <2> QED
    BY <2>1, <2>2
<1>21. ModsFit(N, J, Targets(moves), u, S, T)
  <2>1. ASSUME NEW j \in Positions(u), j \notin J \/ j \in Targets(moves)
        PROVE  \E k \in Positions(t) : /\ k \notin I \/ k \in Targets(b.moves)
                                       /\ At0(u, j) = At0(t, k)
                                       /\ j \in N <=> k \in M
    <3>1. CASE j \in Targets(carried)
      <4>1. f \in [Nat -> Nat] /\ b.moves \in Seq(MoveRecord) /\ j \in Targets(carried)
        BY <1>2, <1>6, <3>1
      <4>2. PICK x \in Targets(b.moves) : j = f[x]
        BY <4>1, TargetsRedirected, Zenon
      <4>3. x \in Positions(t) /\ x \in Nat
        BY <1>1, <1>2, <1>7, <4>2, TargetsIn
      <4> QED
        BY <1>5, <1>10, <4>2, <4>3
    <3>2. CASE j \in Targets(new)
      <4>1. from \notin I /\ j = to
        BY <1>16, <3>2 DEF Targets
      <4> QED
        BY <1>3, <1>5, <1>6, <1>10, <4>1
    <3>3. CASE j \notin J
      <4>1. PICK k \in Positions(t) : f[k] = j
        BY <1>3
      <4>2. k \in Nat /\ k # from
        BY <1>6, <1>7, <1>9, <3>3, <4>1
      <4>3. k \notin I
        BY <1>9, <3>3, <4>1, <4>2
      <4> QED
        BY <1>5, <1>10, <4>1, <4>2, <4>3
    <3> QED
      BY <1>17, <2>1, <3>1, <3>2, <3>3
  <2> QED
    BY <1>1, <2>1 DEF ModsFit
<1> QED
  BY <1>12, <1>17, <1>18, <1>19, <1>20, <1>21 DEF Follows, BuilderFits, c

LEMMA MovedPasses ==
    ASSUME NEW t \in Seq(Nat), NEW from \in Positions(t), NEW to \in Positions(t)
    PROVE  Moved(t, from, to) \in Seq(Nat) /\ Passes(t, from, to, Moved(t, from, to))
<1> DEFINE v == RemoveAt(t, from + 1)
           e == At0(t, from)
           u == InsertAt(v, to + 1, e)
           n == Len(t)
<1>1. /\ n \in Nat /\ Positions(t) \in SUBSET Nat /\ from \in Nat /\ to \in Nat /\ e \in Nat
      /\ \A j \in Nat : j \in Positions(t) <=> j < n
  BY PositionFacts
<1>2. v \in Seq(Nat) /\ Shorter(t, from, v)
  BY RemovedEntry
<1> HIDE DEF v, e
<1>3. Len(v) = n - 1 /\ to \in 0..Len(v)
  BY <1>1, <1>2 DEF Shorter
<1>4. u \in Seq(Nat) /\ Longer(v, to, u) /\ At0(u, to) = e
  BY <1>1, <1>2, <1>3, InsertedEntry
<1> HIDE DEF u
<1>5. Len(u) = n
  BY <1>1, <1>3, <1>4 DEF Longer
<1>6. ASSUME NEW k \in Positions(t)
      PROVE  At0(u, Passed(from, to)[k]) = At0(t, k)
  <2>1. CASE k = from
    BY <1>1, <1>4, <2>1, PassedFacts DEF e
  <2>2. CASE k # from
    <3>1. /\ Earlier(from)[k] \in Positions(v)
          /\ At0(v, Earlier(from)[k]) = At0(t, k)
      BY <1>2, <2>2, ShorterFacts
    <3>2. At0(u, Later(to)[Earlier(from)[k]]) = At0(v, Earlier(from)[k])
      BY <1>2, <1>3, <1>4, <3>1, LongerFacts
    <3>3. Passed(from, to)[k] = Later(to)[Earlier(from)[k]]
      <4>1. k \in Nat \ {from}
        BY <1>1, <2>2
      <4> QED
        BY <1>1, <4>1, PassedFacts
    <3> QED
      BY <3>1, <3>2, <3>3
  <2> QED
    BY <2>1, <2>2
<1>7. Passes(t, from, to, u)
  BY <1>5, <1>6 DEF Passes
<1> QED
  BY <1>4, <1>7 DEF Moved, u, v, e

LEMMA SwappedEntries ==
    ASSUME NEW t \in Seq(Nat), NEW i \in Positions(t), NEW j \in Positions(t), i # j
    PROVE  LET u == Swapped(t, i, j)
           IN  /\ u \in Seq(Nat) /\ Len(u) = Len(t)
               /\ At0(u, i) = At0(t, j) /\ At0(u, j) = At0(t, i)
               /\ \A k \in Positions(t) : k # i /\ k # j => At0(u, k) = At0(t, k)
<1> DEFINE u == Swapped(t, i, j)
           n == Len(t)
<1>1. /\ n \in Nat /\ DOMAIN t = 1..n /\ \A k \in 1..n : t[k] \in Nat
  BY RowsFacts
<1>2. Positions(t) = 0..(n - 1)
  BY DEF Positions
<1>3. i + 1 \in 1..n /\ j + 1 \in 1..n /\ i + 1 # j + 1
  BY <1>1, <1>2
<1>4. u = [k \in 1..n |-> IF k = j + 1 THEN t[i + 1] ELSE IF k = i + 1 THEN t[j + 1] ELSE t[k]]
  BY <1>1, <1>3 DEF Swapped
<1> HIDE DEF u
<1>5. u \in Seq(Nat) /\ Len(u) = n
  <2>1. \A k \in 1..n : (IF k = j + 1 THEN t[i + 1] ELSE IF k = i + 1 THEN t[j + 1] ELSE t[k]) \in Nat
    BY <1>1, <1>3
  <2>2. u \in [1..n -> Nat]
    BY <1>4, <2>1
  <2> QED
    BY <1>1, <2>2
<1>6. At0(u, i) = At0(t, j) /\ At0(u, j) = At0(t, i)
  BY <1>3, <1>4 DEF At0
<1>7. ASSUME NEW k \in Positions(t), k # i, k # j
      PROVE  At0(u, k) = At0(t, k)
  <2>1. k + 1 \in 1..n /\ k + 1 # i + 1 /\ k + 1 # j + 1
    BY <1>1, <1>2, <1>7
  <2> QED
    BY <1>4, <2>1 DEF At0
<1> QED
  BY <1>5, <1>6, <1>7 DEF u

\* Two moves swap the rows of a subtable, one if they are neighbours.
LEMMA SwappedPasses ==
    ASSUME NEW t \in Seq(Nat), NEW i \in Positions(t), NEW j \in Positions(t), i < j
    PROVE  /\ i + 1 = j => Passes(t, i, j, Swapped(t, i, j))
           /\ i + 1 # j => /\ j - 1 \in Positions(t)
                           /\ Passes(Moved(t, i, j), j - 1, i, Swapped(t, i, j))
<1> DEFINE u == Swapped(t, i, j)
           v == Moved(t, i, j)
           n == Len(t)
<1>1. /\ n \in Nat /\ Positions(t) \in SUBSET Nat /\ i \in Nat /\ j \in Nat
      /\ \A k \in Nat : k \in Positions(t) <=> k < n
  BY PositionFacts
<1>2. /\ Len(u) = n /\ At0(u, i) = At0(t, j) /\ At0(u, j) = At0(t, i)
      /\ \A k \in Positions(t) : k # i /\ k # j => At0(u, k) = At0(t, k)
  BY <1>1, SwappedEntries
<1>3. v \in Seq(Nat) /\ Passes(t, i, j, v)
  BY MovedPasses
<1> HIDE DEF u, v
<1>4. ASSUME NEW x \in Nat, NEW y \in Nat, NEW k \in Nat
      PROVE  Passed(x, y)[k] = IF k = x THEN y
                               ELSE IF k >= y /\ k < x THEN k + 1
                               ELSE IF k <= y /\ k > x THEN k - 1 ELSE k
  BY DEF Passed
<1>5. CASE i + 1 = j
  <2>1. ASSUME NEW k \in Positions(t)
        PROVE  At0(u, Passed(i, j)[k]) = At0(t, k)
    <3>1. Passed(i, j)[k] = IF k = i THEN j
                            ELSE IF k >= j /\ k < i THEN k + 1
                            ELSE IF k <= j /\ k > i THEN k - 1 ELSE k
      BY <1>1, <1>4
    <3>2. CASE k = i
      BY <1>2, <3>1, <3>2
    <3>3. CASE k = j
      <4>1. Passed(i, j)[k] = i
        BY <1>1, <1>5, <3>1, <3>3
      <4> QED
        BY <1>2, <3>3, <4>1
    <3>4. CASE k # i /\ k # j
      <4>1. Passed(i, j)[k] = k
        BY <1>1, <1>5, <3>1, <3>4
      <4> QED
        BY <1>2, <3>4, <4>1
    <3> QED
      BY <3>2, <3>3, <3>4
  <2> QED
    BY <1>2, <1>5, <2>1 DEF Passes, u
<1>6. CASE i + 1 # j
  <2>1. j - 1 \in Nat /\ j - 1 < n /\ i < j - 1
    BY <1>1, <1>6
  <2>2. j - 1 \in Positions(t)
    BY <1>1, <2>1
  <2>3. ASSUME NEW l \in Positions(t)
        PROVE  At0(u, Passed(j - 1, i)[Passed(i, j)[l]]) = At0(t, l)
    <3> DEFINE k == Passed(i, j)[l]
    <3>1. k = IF l = i THEN j
              ELSE IF l >= j /\ l < i THEN l + 1
              ELSE IF l <= j /\ l > i THEN l - 1 ELSE l
      BY <1>1, <1>4
    <3>2. l \in Nat /\ k \in Nat
      <4>1. l \in Nat /\ i \in Nat /\ j \in Nat
        BY <1>1
      <4>2. Passed(i, j) \in [Nat -> Nat]
        BY <4>1, PassedFacts
      <4> QED
        BY <4>1, <4>2
    <3> HIDE DEF k
    <3>3. Passed(j - 1, i)[k] = IF k = j - 1 THEN i
                                ELSE IF k >= i /\ k < j - 1 THEN k + 1
                                ELSE IF k <= i /\ k > j - 1 THEN k - 1 ELSE k
      BY <1>1, <1>4, <2>1, <3>2
    <3>4. CASE l = i
      <4>1. k = j
        BY <3>1, <3>4
      <4>2. Passed(j - 1, i)[k] = j
        BY <1>1, <2>1, <3>3, <4>1
      <4> QED
        BY <1>2, <3>4, <4>2 DEF k
    <3>5. CASE l = j
      <4>1. k = j - 1
        BY <1>1, <3>1, <3>5
      <4>2. Passed(j - 1, i)[k] = i
        BY <3>3, <4>1
      <4> QED
        BY <1>2, <3>5, <4>2 DEF k
    <3>6. CASE l # i /\ l # j
      <4>1. Passed(j - 1, i)[k] = l
        BY <1>1, <2>1, <3>1, <3>2, <3>3, <3>6
      <4> QED
        BY <1>2, <3>6, <4>1 DEF k
    <3> QED
      BY <3>4, <3>5, <3>6
  <2>4. ASSUME NEW k \in Positions(v)
        PROVE  At0(u, Passed(j - 1, i)[k]) = At0(v, k)
    <3>1. PICK l \in Positions(t) : Passed(i, j)[l] = k
      BY <1>3, PassesFacts
    <3>2. At0(v, k) = At0(t, l)
      BY <1>3, <3>1 DEF Passes
    <3> QED
      BY <2>3, <3>1, <3>2
  <2>5. Len(u) = Len(v)
    BY <1>2, <1>3 DEF Passes
  <2>6. Passes(v, j - 1, i, u)
    BY <2>4, <2>5 DEF Passes
  <2> QED
    BY <1>6, <2>2, <2>6 DEF u, v
<1> QED
  BY <1>5, <1>6

LEMMA ModifyFollows ==
    ASSUME NEW b, NEW s \in Seq(Nat), NEW S, NEW t \in Seq(Nat), NEW T, Follows(b, s, S, t, T),
           IsInjective(t), NEW i \in Positions(t)
    PROVE  Follows(modify(b, i), s, S, t, T \cup {At0(t, i)})
<1> DEFINE N == add(b.modifications, i)
           c == modify(b, i)
<1>1. /\ b \in Builders /\ IsFiniteSet(b.deletions)
      /\ b.insertions \subseteq Positions(t) /\ b.modifications \subseteq Positions(t)
      /\ Same(b.deletions, b.insertions, s, t)
      /\ MovesFit(b.moves, b.deletions, b.insertions, s, t) /\ b.mapping = NoMapping
      /\ ModsFit(b.modifications, b.insertions, Targets(b.moves), t, S, T)
  BY DEF Follows, BuilderFits
<1>2. i \in Nat /\ N \in SUBSET Nat /\ N \subseteq Positions(t)
  BY <1>1, PositionFacts, FieldsOf DEF add
<1>3. ModsFit(N, b.insertions, Targets(b.moves), t, S, T \cup {At0(t, i)})
  BY <1>1, ModsModified
<1> HIDE DEF N
<1>4. c = [b EXCEPT !.modifications = N]
  BY DEF modify, N
<1>5. /\ c \in Builders /\ c.deletions = b.deletions /\ c.insertions = b.insertions
      /\ c.modifications = N /\ c.moves = b.moves /\ c.mapping = b.mapping
  BY <1>1, <1>2, <1>4 DEF Builders
<1> HIDE DEF c
<1> QED
  BY <1>1, <1>2, <1>3, <1>5 DEF Follows, BuilderFits, c

LEMMA EmptyIs ==
    /\ Empty \in Builders
    /\ Empty.deletions = {} /\ Empty.insertions = {} /\ Empty.modifications = {}
    /\ Empty.moves = <<>> /\ Empty.mapping = NoMapping
    /\ \A b \in Builders : empty(b) /\ b.mapping = NoMapping => b = Empty
<1>1. \A b \in Builders : b = [deletions |-> b.deletions, insertions |-> b.insertions,
                              modifications |-> b.modifications, moves |-> b.moves,
                              mapping |-> b.mapping]
  BY DEF Builders
<1>2. NoMapping \in Mappings /\ <<>> \in Seq(MoveRecord) /\ {} \in SUBSET Nat
  BY NoMappingIs
<1>3. /\ Empty \in Builders
      /\ Empty.deletions = {} /\ Empty.insertions = {} /\ Empty.modifications = {}
      /\ Empty.moves = <<>> /\ Empty.mapping = NoMapping
  BY <1>2, BuilderIs DEF Empty
<1> QED
  BY <1>1, <1>3 DEF empty, Empty

LEMMA NoMoves ==
    ASSUME NEW D, NEW I, NEW s, NEW t
    PROVE  MovesFit(<<>>, D, I, s, t) /\ Targets(<<>>) = {}
<1>1. DOMAIN <<>> = {}
  OBVIOUS
<1> QED
  BY <1>1 DEF MovesFit, Targets

\* After clear every old entry is deleted and there is nothing else.
LEMMA ClearFollows ==
    ASSUME NEW s \in Seq(Nat), NEW S, NEW T, NEW n \in Nat, Len(s) <= n
    PROVE  LET c == [Empty EXCEPT !.deletions = first(n)]
           IN  /\ Follows(c, s, S, <<>>, T)
               /\ c \in Builders
               /\ c.deletions = first(n) /\ c.insertions = {} /\ c.modifications = {}
               /\ c.moves = <<>> /\ c.mapping = NoMapping
<1> DEFINE c == [Empty EXCEPT !.deletions = first(n)]
           D == first(n)
<1>1. /\ D \in SUBSET Nat /\ IsFiniteSet(D) /\ \A x \in Nat : x \in D <=> x < n
      /\ \A k \in Nat : k <= n => unshift(D, k) = 0
  BY FirstIs
<1> HIDE DEF D
<1>2. /\ c \in Builders /\ c.deletions = D /\ c.insertions = {} /\ c.modifications = {}
      /\ c.moves = <<>> /\ c.mapping = NoMapping
  <2>1. c = [Empty EXCEPT !.deletions = D]
    BY DEF D
  <2> HIDE DEF c
  <2>2. c = [deletions |-> D, insertions |-> {}, modifications |-> {},
             moves |-> <<>>, mapping |-> NoMapping]
    BY <2>1 DEF Empty
  <2>3. NoMapping \in Mappings /\ <<>> \in Seq(MoveRecord) /\ {} \in SUBSET Nat
    BY NoMappingIs
  <2> QED
    BY <1>1, <2>2, <2>3, BuilderIs
<1> HIDE DEF c
<1>3. Len(<<>>) = 0 /\ Positions(<<>>) = {}
  BY DEF Positions
<1>4. Same(D, {}, s, <<>>)
  <2>1. Len(s) \in Nat /\ unshift(D, Len(s)) = 0
    BY <1>1, PositionFacts
  <2>2. unshift({}, 0) = 0
    BY NoneFree
  <2> QED
    BY <1>3, <2>1, <2>2 DEF Same
<1>5. MovesFit(<<>>, D, {}, s, <<>>)
  BY NoMoves
<1>6. ModsFit({}, {}, Targets(<<>>), <<>>, S, T)
  BY <1>3 DEF ModsFit
<1>7. Follows(c, s, S, <<>>, T)
  BY <1>1, <1>2, <1>4, <1>5, <1>6 DEF Follows, BuilderFits
<1> QED
  BY <1>2, <1>7 DEF c, D

LEMMA EmptyFollows ==
    ASSUME NEW s \in Seq(Nat), NEW S, NEW t \in Seq(Nat), NEW T
    PROVE  /\ Follows(Empty, t, T, t, T)
           /\ Follows(Empty, s, S, t, T) =>
                  s = t /\ \A j \in Positions(t) : At0(t, j) \in T <=> At0(t, j) \in S
<1>1. IsFiniteSet({})
  BY FS_EmptySet
<1>2. Follows(Empty, t, T, t, T)
  <2>1. MovesFit(<<>>, {}, {}, t, t)
    BY NoMoves
  <2>2. Same({}, {}, t, t)
    BY NothingSame
  <2>3. ModsFit({}, {}, Targets(<<>>), t, T, T)
    BY DEF ModsFit
  <2> QED
    BY <1>1, <2>1, <2>2, <2>3, EmptyIs DEF Follows, BuilderFits
<1>3. ASSUME Follows(Empty, s, S, t, T)
      PROVE  s = t /\ \A j \in Positions(t) : At0(t, j) \in T <=> At0(t, j) \in S
  <2>1. Same({}, {}, s, t) /\ ModsFit({}, {}, Targets(<<>>), t, S, T)
    BY <1>3, EmptyIs DEF Follows
  <2>2. s = t
    BY <2>1, NothingSame
  <2> QED
    BY <2>1, <2>2 DEF ModsFit
<1> QED
  BY <1>2, <1>3

-----------------------------------------------------------------------------
(* Tables                                                                    *)

\* A row of t that is no insertion is the same row of s; mapping says where from the
\* rows come that are insertions and deletions both.
MappingFits(mapping, D, I, s, t) ==
    /\ \A k \in DOMAIN mapping :
           /\ k \in I /\ mapping[k] \in D \cap Positions(s)
           /\ At0(s, mapping[k]) = At0(t, k)
    /\ \A k, l \in DOMAIN mapping : mapping[k] = mapping[l] => k = l

TableFollows(b, s, S, t, T) ==
    /\ BuilderFits(b, t)
    /\ Positions(s) \ b.deletions = Positions(t) \ b.insertions
    /\ \A j \in Positions(t) \ b.insertions : At0(s, j) = At0(t, j)
    /\ MappingFits(b.mapping, b.deletions, b.insertions, s, t)
    /\ b.moves = <<>>
    /\ ModsFit(b.modifications, b.insertions, DOMAIN b.mapping, t, S, T)

\* The same but for a row that is about to go.
FollowsBut(b, s, S, t, T, row) ==
    /\ BuilderFits(b, t)
    /\ Positions(s) \ b.deletions = Positions(t) \ b.insertions
    /\ \A j \in Positions(t) \ b.insertions : j # row => At0(s, j) = At0(t, j)
    /\ \A k \in DOMAIN b.mapping :
           /\ k \in b.insertions
           /\ \/ b.mapping[k] \in b.deletions \cap Positions(s)
              \/ row \notin b.insertions /\ b.mapping[k] = row
           /\ At0(s, b.mapping[k]) = At0(t, k)
    /\ \A k, l \in DOMAIN b.mapping : b.mapping[k] = b.mapping[l] => k = l
    /\ b.moves = <<>>
    /\ \A j \in Positions(t) : j # row /\ (j \notin b.insertions \/ j \in DOMAIN b.mapping) =>
           (At0(t, j) \in T <=> At0(t, j) \in S \/ j \in b.modifications)

LEMMA MappingFacts ==
    ASSUME NEW f \in Mappings
    PROVE  DOMAIN f \in SUBSET Nat /\ \A k \in DOMAIN f : f[k] \in Nat
BY DEF Mappings

LEMMA WithoutFacts ==
    ASSUME NEW f \in Mappings, NEW x
    PROVE  WithoutKey(f, x) \in Mappings
<1>1. WithoutKey(f, x) \in [DOMAIN f \ {x} -> Nat]
  BY MappingFacts DEF WithoutKey
<1>2. DOMAIN f \ {x} \in SUBSET Nat
  BY MappingFacts
<1> QED
  BY <1>1, <1>2 DEF Mappings

LEMMA WithFacts ==
    ASSUME NEW f \in Mappings, NEW x \in Nat, NEW v \in Nat
    PROVE  With(f, x, v) \in Mappings
<1>1. DOMAIN f \in SUBSET Nat /\ \A k \in DOMAIN f : f[k] \in Nat
  BY DEF Mappings
<1>2. \A k \in DOMAIN f \cup {x} : (IF k = x THEN v ELSE f[k]) \in Nat
  BY <1>1
<1>3. With(f, x, v) \in [DOMAIN f \cup {x} -> Nat]
  BY <1>2 DEF With
<1>4. DOMAIN f \cup {x} \in SUBSET Nat
  BY <1>1
<1> QED
  BY <1>3, <1>4 DEF Mappings

LEMMA MovedOverRows ==
    ASSUME NEW t \in Seq(Nat), NEW row \in Positions(t)
    PROVE  LET u == MovedOver(t, row)
               last == Len(t) - 1
           IN  /\ u \in Seq(Nat) /\ Len(u) = last
               /\ Positions(u) = Positions(t) \ {last}
               /\ last \in Positions(t)
               /\ \A j \in Positions(u) :
                      At0(u, j) = IF j = row THEN At0(t, last) ELSE At0(t, j)
<1> DEFINE n == Len(t)
           last == n - 1
           v == IF row + 1 = n THEN t ELSE [t EXCEPT ![row + 1] = t[n]]
           u == MovedOver(t, row)
<1>1. /\ n \in Nat /\ row \in Nat /\ row < n /\ DOMAIN t = 1..n /\ \A k \in 1..n : t[k] \in Nat
      /\ row + 1 \in 1..n /\ n \in 1..n
  <2>1. n \in Nat /\ DOMAIN t = 1..n /\ \A k \in DOMAIN t : t[k] \in Nat
    BY RowsFacts
  <2>2. row \in Nat /\ row < n
    BY PositionFacts
  <2> QED
    BY <2>1, <2>2
<1>2. v \in Seq(Nat) /\ Len(v) = n /\ \A k \in 1..n : v[k] = IF k = row + 1 THEN t[n] ELSE t[k]
  <2>1. CASE row + 1 = n
    BY <1>1, <2>1
  <2>2. CASE row + 1 # n
    <3>1. t[n] \in Nat /\ row + 1 \in DOMAIN t
      BY <1>1
    <3>2. /\ [t EXCEPT ![row + 1] = t[n]] \in Seq(Nat)
          /\ Len([t EXCEPT ![row + 1] = t[n]]) = n
          /\ \A k \in 1..n : [t EXCEPT ![row + 1] = t[n]][k] = IF k = row + 1 THEN t[n] ELSE t[k]
      BY <3>1, ReplaceFacts
    <3> QED
      BY <2>2, <3>2
  <2> QED
    BY <2>1, <2>2
<1>3. u = Front(v)
  BY DEF MovedOver, Last
<1> HIDE DEF v, u
<1>4. v # <<>>
  BY <1>1, <1>2, EmptySeq
<1>5. Len(v) \in DOMAIN v /\ u = RemoveAt(v, n)
  BY <1>2, <1>3, <1>4, FrontFacts
<1>6. /\ u \in Seq(Nat) /\ Len(u) = n - 1
      /\ \A k \in 1..(n - 1) : u[k] = IF k < n THEN v[k] ELSE v[k + 1]
  <2>1. v \in Seq(Nat) /\ n \in DOMAIN v /\ Len(v) = n
    BY <1>2, <1>5
  <2>2. /\ RemoveAt(v, n) \in Seq(Nat) /\ Len(RemoveAt(v, n)) = Len(v) - 1
        /\ \A k \in 1..(Len(v) - 1) : RemoveAt(v, n)[k] = IF k < n THEN v[k] ELSE v[k + 1]
    <3> HIDE DEF n
    <3> QED
      BY <2>1, RemoveAtRows
  <2> QED
    BY <1>5, <2>1, <2>2
<1>7. Positions(u) = Positions(t) \ {last} /\ last \in Positions(t)
  BY <1>1, <1>6 DEF Positions
<1>8. ASSUME NEW j \in Positions(u)
      PROVE  At0(u, j) = IF j = row THEN At0(t, last) ELSE At0(t, j)
  <2>1. j + 1 \in 1..(n - 1) /\ j + 1 \in 1..n /\ j + 1 < n /\ j \in Nat /\ last + 1 = n
    BY <1>1, <1>6 DEF Positions
  <2>2. u[j + 1] = IF j + 1 = row + 1 THEN t[n] ELSE t[j + 1]
    BY <1>2, <1>6, <2>1
  <2>3. j + 1 = row + 1 <=> j = row
    BY <1>1, <2>1
  <2> QED
    BY <2>1, <2>2, <2>3 DEF At0
<1> QED
  BY <1>6, <1>7, <1>8 DEF u

-----------------------------------------------------------------------------
(* A row removed, and the last one put in its place                          *)

\* What move_over makes of b.
RowMoved(c, b, row, last) ==
    /\ c \in Builders /\ c.moves = b.moves
    /\ \A x : /\ x \in c.deletions <=>
                     x \in b.deletions \/ (x \notin b.insertions /\ (x = row \/ x = last))
              /\ x \in c.insertions <=> x # last /\ (x = row \/ x \in b.insertions)
              /\ x \in c.modifications <=>
                     x # last /\ IF x = row THEN last \in b.modifications ELSE x \in b.modifications
              /\ x \in DOMAIN c.mapping <=>
                     x # last /\ IF x = row THEN last \in DOMAIN b.mapping \/ last \notin b.insertions
                                 ELSE x \in DOMAIN b.mapping
    /\ \A k \in DOMAIN c.mapping :
           c.mapping[k] = IF k # row THEN b.mapping[k]
                          ELSE IF last \in DOMAIN b.mapping THEN b.mapping[last] ELSE last

LEMMA MoveOverIs ==
    ASSUME NEW b, NEW s \in Seq(Nat), NEW S, NEW t \in Seq(Nat), NEW T, NEW row \in Positions(t),
           FollowsBut(b, s, S, t, T, row), NEW last, last = Len(t) - 1, last # row
    PROVE  RowMoved(move_over(b, row, last), b, row, last)
<1> DEFINE D == b.deletions
           I == b.insertions
           m == b.mapping
           c == move_over(b, row, last)
           left == remove(I, last, 1)
           last_was == shift(D, unshift(left, last))
           gone == IF last \in I THEN D ELSE add(D, last_was)
           kept == IF row \in I THEN WithoutKey(m, row) ELSE m
           map == IF last \in I /\ last \in DOMAIN m
                  THEN With(WithoutKey(m, last), row, m[last])
                  ELSE IF last \in I THEN kept ELSE With(kept, row, last_was)
           E == IF row \in I THEN gone ELSE add_shifted(gone, unshift(left, row))
           J == IF row \in I THEN left ELSE left \cup {row}
           N == Replaced(b.modifications, row, last)
<1>1. /\ b \in Builders /\ IsFiniteSet(D) /\ I \subseteq Positions(t)
      /\ Positions(s) \ D = Positions(t) \ I
      /\ \A k \in DOMAIN m : k \in I
  BY DEF FollowsBut, BuilderFits
<1>2. D \in SUBSET Nat /\ I \in SUBSET Nat /\ m \in Mappings /\ b.modifications \in SUBSET Nat
      /\ b.moves \in Seq(MoveRecord)
  BY <1>1, FieldsOf
<1>3. /\ row \in Nat /\ last \in Nat /\ row < last /\ last \in Positions(t) /\ row # last
  <2>1. Len(t) \in Nat /\ row \in Nat /\ row < Len(t) /\ \A j \in Nat : j \in Positions(t) <=> j < Len(t)
    BY PositionFacts
  <2> QED
    BY <2>1
<1>4. left = I \ {last} /\ left \in SUBSET Nat
  <2>1. last .. (last + 1 - 1) = {last}
    BY <1>3
  <2> QED
    BY <1>2, <2>1 DEF remove
<1> HIDE DEF D, I, m, left, c
<1>5. ASSUME NEW j \in Positions(t) \ I
      PROVE  j \in Nat /\ j \notin D /\ \A x \in 0..j : x \in D <=> x \in I
  <2>1. Positions(s) \ D = Positions(t) \ I
    BY <1>1 DEF D, I
  <2>2. j \in Nat /\ j \notin D
    BY <1>2, <2>1, RowsAgree
  <2>3. \A x \in 0..j : x \in D <=> x \in I
    BY <1>2, <2>1, RowsAgree, SMTT(30)
  <2> QED
    BY <2>2, <2>3
<1>6. ASSUME last \notin I
      PROVE  last_was = last
  <2>1. left = I
    BY <1>4, <1>6
  <2>2. last \in Positions(t) \ I
    BY <1>3, <1>6
  <2>3. last \notin D /\ \A x \in 0..last : x \in D <=> x \in I
    BY <1>5, <2>2
  <2>4. \A x \in 0..(last - 1) : x \in D <=> x \in I
    BY <1>3, <2>3
  <2> QED
    BY <1>1, <1>2, <1>3, <2>1, <2>3, <2>4, RowRank, SMTT(60)
<1>7. gone = D \cup ({last} \ I) /\ gone \in SUBSET Nat /\ IsFiniteSet(gone)
  <2>1. CASE last \in I
    BY <1>1, <1>2, <2>1
  <2>2. CASE last \notin I
    <3>1. gone = D \cup {last}
      BY <1>6, <2>2 DEF add
    <3>2. IsFiniteSet(D)
      BY <1>1 DEF D
    <3>3. IsFiniteSet(D \cup {last})
      BY <3>2, FS_AddElement
    <3> QED
      BY <1>2, <1>3, <2>2, <3>1, <3>3
  <2> QED
    BY <2>1, <2>2
<1> HIDE DEF gone
<1>8. E = D \cup ({row, last} \ I) /\ E \in SUBSET Nat
  <2>1. CASE row \in I
    BY <1>7, <2>1
  <2>2. CASE row \notin I
    <3>1. row \in Positions(t) \ I
      BY <2>2
    <3>2. row \notin D /\ \A x \in 0..row : x \in D <=> x \in I
      BY <1>5, <3>1
    <3>3. row \notin gone
      BY <1>3, <1>7, <3>2
    <3>4. ASSUME NEW x \in 0..(row - 1)
          PROVE  x \in gone <=> x \in left
      <4>1. x \in 0..row /\ x # last
        BY <1>3
      <4> QED
        BY <1>4, <1>7, <3>2, <4>1
    <3>5. shift(gone, unshift(left, row)) = row
      <4>1. /\ gone \in SUBSET Nat /\ left \in SUBSET Nat /\ IsFiniteSet(gone)
            /\ row \in Nat /\ row \notin gone
        BY <1>3, <1>4, <1>7, <3>3
      <4>2. \A x \in 0..(row - 1) : x \in gone <=> x \in left
        BY <3>4
      <4> QED
        BY <4>1, <4>2, RowRank, SMTT(30)
    <3>6. E = gone \cup {row}
      BY <2>2, <3>5 DEF add_shifted
    <3> QED
      BY <1>3, <1>7, <2>2, <3>6
  <2> QED
    BY <2>1, <2>2
<1>9. J = (I \ {last}) \cup {row} /\ J \in SUBSET Nat
  BY <1>2, <1>3, <1>4
<1>10. N \in SUBSET Nat
  BY <1>2, <1>3 DEF Replaced
<1>11. \A k \in DOMAIN m : k \in I
  BY <1>1 DEF m, I
<1>12. /\ kept \in Mappings /\ DOMAIN kept = DOMAIN m \ {row}
       /\ \A k \in DOMAIN m \ {row} : kept[k] = m[k]
  <2>1. CASE row \in I
    <3>1. kept = WithoutKey(m, row)
      BY <2>1
    <3>2. kept \in Mappings
      BY <1>2, <3>1, WithoutFacts
    <3> QED
      BY <3>1, <3>2 DEF WithoutKey
  <2>2. CASE row \notin I
    <3>1. DOMAIN m \ {row} = DOMAIN m
      BY <1>11, <2>2
    <3> QED
      BY <1>2, <2>2, <3>1
  <2> QED
    BY <2>1, <2>2
<1> HIDE DEF kept
<1>13. /\ map \in Mappings
       /\ \A x : x \in DOMAIN map <=>
                  x # last /\ IF x = row THEN last \in DOMAIN m \/ last \notin I ELSE x \in DOMAIN m
       /\ \A k \in DOMAIN map :
              map[k] = IF k # row THEN m[k]
                       ELSE IF last \in DOMAIN m THEN m[last] ELSE last
  <2>1. CASE last \in I /\ last \in DOMAIN m
    <3> DEFINE w == WithoutKey(m, last)
               v == m[last]
    <3>1. w \in Mappings /\ v \in Nat
      BY <1>2, <2>1, WithoutFacts, MappingFacts
    <3>2. DOMAIN w = DOMAIN m \ {last} /\ \A k \in DOMAIN w : w[k] = m[k]
      BY DEF WithoutKey
    <3> HIDE DEF w, v
    <3>3. map = With(w, row, v)
      BY <2>1 DEF w, v
    <3> HIDE DEF map
    <3>4. map \in Mappings
      BY <1>3, <3>1, <3>3, WithFacts
    <3>5. DOMAIN map = DOMAIN w \cup {row} /\ \A k \in DOMAIN map : map[k] = IF k = row THEN v ELSE w[k]
      BY <3>3 DEF With
    <3> QED
      BY <1>3, <2>1, <3>2, <3>4, <3>5 DEF v
  <2>2. CASE last \in I /\ last \notin DOMAIN m
    <3>1. map = kept
      BY <2>2
    <3> HIDE DEF map
    <3> QED
      BY <1>12, <2>2, <3>1
  <2>3. CASE last \notin I
    <3>1. map = With(kept, row, last)
      BY <1>6, <2>3
    <3> HIDE DEF map
    <3>2. map \in Mappings
      BY <1>3, <1>12, <3>1, WithFacts
    <3>3. /\ DOMAIN map = DOMAIN kept \cup {row}
          /\ \A k \in DOMAIN map : map[k] = IF k = row THEN last ELSE kept[k]
      BY <3>1 DEF With
    <3>4. last \notin DOMAIN m
      BY <1>11, <2>3
    <3> QED
      BY <1>3, <1>12, <2>3, <3>2, <3>3, <3>4
  <2> QED
    BY <2>1, <2>2, <2>3
<1>14. c = [b EXCEPT !.modifications = N, !.mapping = map, !.deletions = E, !.insertions = J]
  <2> HIDE DEF N, map, E, J
  <2>1. map = IF last \in b.insertions /\ last \in DOMAIN b.mapping
              THEN With(WithoutKey(b.mapping, last), row, b.mapping[last])
              ELSE IF last \in b.insertions THEN kept
              ELSE With(kept, row, last_was)
    BY DEF map, I, m
  <2>2. E = IF row \in b.insertions THEN gone ELSE add_shifted(gone, unshift(left, row))
    BY DEF E, I
  <2>3. J = IF row \in b.insertions THEN left ELSE left \cup {row}
    BY DEF J, I
  <2>4. gone = IF last \in b.insertions THEN b.deletions ELSE add(b.deletions, last_was)
    BY DEF gone, I, D
  <2>5. kept = IF row \in b.insertions THEN WithoutKey(b.mapping, row) ELSE b.mapping
    BY DEF kept, I, m
  <2>6. last_was = shift(b.deletions, unshift(left, last)) /\ left = remove(b.insertions, last, 1)
    BY DEF left, I, D
  <2> HIDE DEF last_was
  <2> QED
    BY <1>3, <2>1, <2>2, <2>3, <2>4, <2>5, <2>6 DEF c, move_over, N
<1> HIDE DEF E, J, N, map
<1>15. /\ c \in Builders /\ c.deletions = E /\ c.insertions = J /\ c.modifications = N
       /\ c.mapping = map /\ c.moves = b.moves
  BY <1>1, <1>2, <1>8, <1>9, <1>10, <1>13, <1>14 DEF Builders
<1>16. ASSUME NEW x
       PROVE  /\ x \in E <=> x \in D \/ (x \notin I /\ (x = row \/ x = last))
              /\ x \in J <=> x # last /\ (x = row \/ x \in I)
              /\ x \in N <=> x # last /\ IF x = row THEN last \in b.modifications
                                                   ELSE x \in b.modifications
  <2>1. x \in E <=> x \in D \/ (x \notin I /\ (x = row \/ x = last))
    BY <1>8
  <2>2. x \in J <=> x # last /\ (x = row \/ x \in I)
    BY <1>3, <1>9
  <2>3. x \in N <=> x # last /\ IF x = row THEN last \in b.modifications ELSE x \in b.modifications
    BY <1>3 DEF N, Replaced
  <2> QED
    BY <2>1, <2>2, <2>3
<1>17. /\ \A x : /\ x \in c.deletions <=> x \in D \/ (x \notin I /\ (x = row \/ x = last))
                 /\ x \in c.insertions <=> x # last /\ (x = row \/ x \in I)
                 /\ x \in c.modifications <=>
                        x # last /\ IF x = row THEN last \in b.modifications
                                    ELSE x \in b.modifications
                 /\ x \in DOMAIN c.mapping <=>
                        x # last /\ IF x = row THEN last \in DOMAIN m \/ last \notin I
                                    ELSE x \in DOMAIN m
       /\ \A k \in DOMAIN c.mapping :
              c.mapping[k] = IF k # row THEN m[k]
                             ELSE IF last \in DOMAIN m THEN m[last] ELSE last
  BY <1>13, <1>15, <1>16
<1> QED
  BY <1>15, <1>17 DEF RowMoved, c, D, I, m

LEMMA MoveOverLastIs ==
    ASSUME NEW b, NEW s \in Seq(Nat), NEW S, NEW t \in Seq(Nat), NEW T, NEW row \in Positions(t),
           FollowsBut(b, s, S, t, T, row)
    PROVE  RowMoved(move_over(b, row, row), b, row, row)
<1> DEFINE D == b.deletions
           I == b.insertions
           m == b.mapping
           r == erase_or_unshift(I, row)
           E == IF r = npos THEN D ELSE add_shifted(D, r)
           c == move_over(b, row, row)
<1>1. /\ b \in Builders /\ IsFiniteSet(D) /\ I \subseteq Positions(t)
      /\ Positions(s) \ D = Positions(t) \ I
  BY DEF FollowsBut, BuilderFits
<1>2. D \in SUBSET Nat /\ I \in SUBSET Nat /\ m \in Mappings /\ b.modifications \in SUBSET Nat
      /\ b.moves \in Seq(MoveRecord)
  BY <1>1, FieldsOf
<1>3. row \in Nat
  BY PositionFacts
<1> HIDE DEF c
<1>4. E = D \cup ({row} \ I) /\ E \in SUBSET Nat
  <2>1. CASE row \in I
    <3>1. r = npos
      BY <2>1 DEF erase_or_unshift
    <3> QED
      BY <1>2, <2>1, <3>1
  <2>2. CASE row \notin I
    <3>1. r = unshift(I, row) /\ r \in Nat
      BY <1>2, <1>3, <2>2, UnshiftIsFree DEF erase_or_unshift
    <3>2. r # npos
      BY <3>1 DEF npos
    <3> HIDE DEF D, I, r
    <3>3. row \notin D
      BY <1>1, <2>2
    <3>4. row \in Positions(t) \ I /\ Positions(s) \ D = Positions(t) \ I
      BY <1>1, <2>2 DEF D, I
    <3>9. D \in SUBSET Nat /\ I \in SUBSET Nat
      BY <1>2 DEF D, I
    <3>5. \A x \in 0..row : x \in D <=> x \in I
      BY <3>4, <3>9, RowsAgree, SMTT(30)
    <3>6. \A x \in 0..(row - 1) : x \in D <=> x \in I
      BY <1>3, <3>5
    <3>7. shift(D, unshift(I, row)) = row
      BY <1>1, <1>2, <1>3, <3>3, <3>6, RowRank DEF D
    <3>8. E = D \cup {row}
      BY <3>1, <3>2, <3>7 DEF add_shifted
    <3> QED
      BY <1>2, <1>3, <2>2, <3>8
  <2> QED
    BY <2>1, <2>2
<1>5. c = [b EXCEPT !.deletions = E, !.insertions = I \ {row},
                    !.modifications = b.modifications \ {row}, !.mapping = WithoutKey(m, row)]
  <2>1. r = erase_or_unshift(b.insertions, row)
    OBVIOUS
  <2> HIDE DEF r
  <2> QED
    BY <2>1 DEF c, move_over
<1> DEFINE map == WithoutKey(m, row)
<1>6. /\ map \in Mappings /\ DOMAIN map = DOMAIN m \ {row}
      /\ \A k \in DOMAIN map : map[k] = m[k]
  BY <1>2, WithoutFacts DEF WithoutKey
<1> DEFINE J == I \ {row}
           N == b.modifications \ {row}
<1>7. J \in SUBSET Nat /\ N \in SUBSET Nat
  BY <1>2
<1>8. c = [b EXCEPT !.deletions = E, !.insertions = J, !.modifications = N, !.mapping = map]
  BY <1>5
<1> HIDE DEF E, J, N, map
<1>9. /\ c \in Builders /\ c.deletions = E /\ c.insertions = J /\ c.modifications = N
      /\ c.mapping = map /\ c.moves = b.moves
  BY <1>1, <1>4, <1>6, <1>7, <1>8 DEF Builders
<1>10. /\ \A x : /\ x \in c.deletions <=> x \in D \/ (x \notin I /\ (x = row \/ x = row))
                 /\ x \in c.insertions <=> x # row /\ (x = row \/ x \in I)
                 /\ x \in c.modifications <=>
                        x # row /\ IF x = row THEN row \in b.modifications
                                   ELSE x \in b.modifications
                 /\ x \in DOMAIN c.mapping <=>
                        x # row /\ IF x = row THEN row \in DOMAIN m \/ row \notin I
                                   ELSE x \in DOMAIN m
       /\ \A k \in DOMAIN c.mapping :
              c.mapping[k] = IF k # row THEN m[k]
                             ELSE IF row \in DOMAIN m THEN m[row] ELSE row
  BY <1>4, <1>6, <1>9 DEF J, N
<1> QED
  BY <1>9, <1>10 DEF RowMoved, c, D, I, m

LEMMA RowMovedIs ==
    ASSUME NEW b, NEW s \in Seq(Nat), NEW S, NEW t \in Seq(Nat), NEW T, NEW row \in Positions(t),
           FollowsBut(b, s, S, t, T, row)
    PROVE  RowMoved(move_over(b, row, Len(t) - 1), b, row, Len(t) - 1)
BY MoveOverIs, MoveOverLastIs

\* move_over removes a row of which the changes need not say anything true.
LEMMA MoveOverFollows ==
    ASSUME NEW b, NEW s \in Seq(Nat), NEW S, NEW t \in Seq(Nat), NEW T, NEW row \in Positions(t),
           FollowsBut(b, s, S, t, T, row)
    PROVE  TableFollows(move_over(b, row, Len(t) - 1), s, S, MovedOver(t, row), T)
<1> DEFINE last == Len(t) - 1
           u == MovedOver(t, row)
           D == b.deletions
           I == b.insertions
           M == b.modifications
           m == b.mapping
           c == move_over(b, row, last)
<1>1. /\ b \in Builders /\ IsFiniteSet(D) /\ I \subseteq Positions(t) /\ M \subseteq Positions(t)
      /\ Positions(s) \ D = Positions(t) \ I
      /\ \A j \in Positions(t) \ I : j # row => At0(s, j) = At0(t, j)
      /\ b.moves = <<>>
  BY DEF FollowsBut, BuilderFits
<1>2. /\ \A k \in DOMAIN m :
             /\ k \in I
             /\ \/ m[k] \in D \cap Positions(s)
                \/ row \notin I /\ m[k] = row
             /\ At0(s, m[k]) = At0(t, k)
      /\ \A k, l \in DOMAIN m : m[k] = m[l] => k = l
  BY DEF FollowsBut
<1>3. \A j \in Positions(t) : j # row /\ (j \notin I \/ j \in DOMAIN m) =>
             (At0(t, j) \in T <=> At0(t, j) \in S \/ j \in M)
  BY DEF FollowsBut
<1>4. RowMoved(c, b, row, last)
  BY RowMovedIs
<1>5. /\ u \in Seq(Nat) /\ Positions(u) = Positions(t) \ {last} /\ last \in Positions(t)
      /\ \A j \in Positions(u) : At0(u, j) = IF j = row THEN At0(t, last) ELSE At0(t, j)
  BY MovedOverRows
<1> HIDE DEF c, u, last
<1>6. /\ c \in Builders /\ c.moves = b.moves
      /\ \A x : /\ x \in c.deletions <=> x \in D \/ (x \notin I /\ (x = row \/ x = last))
                /\ x \in c.insertions <=> x # last /\ (x = row \/ x \in I)
                /\ x \in c.modifications <=>
                       x # last /\ IF x = row THEN last \in M ELSE x \in M
      /\ \A k \in DOMAIN c.mapping :
             /\ k # last
             /\ c.mapping[k] = IF k # row THEN m[k]
                               ELSE IF last \in DOMAIN m THEN m[last] ELSE last
             /\ IF k = row THEN last \in DOMAIN m \/ last \notin I ELSE k \in DOMAIN m
  BY <1>4 DEF RowMoved
<1> HIDE DEF D, I, M, m
<1>7. IsFiniteSet(c.deletions)
  <2>1. IsFiniteSet({row} \cup {last}) /\ {row} \cup {last} = {row, last}
    BY FS_Singleton, FS_AddElement
  <2>2. IsFiniteSet(D \cup {row, last})
    BY <1>1, <2>1, FS_Union
  <2>3. c.deletions \subseteq D \cup {row, last}
    BY <1>6
  <2> QED
    BY <2>2, <2>3, FS_Subset
<1>8. BuilderFits(c, u)
  <2>1. c.modifications \subseteq Positions(u)
    BY <1>1, <1>5, <1>6
  <2>2. c.insertions \subseteq Positions(u)
    BY <1>1, <1>5, <1>6
  <2> QED
    BY <1>6, <1>7, <2>1, <2>2 DEF BuilderFits
<1>9. Positions(s) \ c.deletions = Positions(u) \ c.insertions
  BY <1>1, <1>5, <1>6
<1>10. \A j \in Positions(u) \ c.insertions : At0(s, j) = At0(u, j)
  BY <1>1, <1>5, <1>6
<1>11. /\ row \notin I => row \in Positions(s) \ D
       /\ last \notin I => last \in Positions(s) \ D
       /\ last \notin I /\ last # row => At0(s, last) = At0(t, last)
  BY <1>1, <1>5
<1>12. ASSUME NEW k \in DOMAIN c.mapping
       PROVE  \/ /\ k # row /\ k # last /\ k \in DOMAIN m /\ c.mapping[k] = m[k]
              \/ /\ k = row /\ k # last /\ last \in DOMAIN m /\ c.mapping[k] = m[last]
              \/ /\ k = row /\ k # last /\ last \notin I /\ last \notin DOMAIN m /\ c.mapping[k] = last
  BY <1>6
<1>13. \A k \in DOMAIN m : m[k] \in c.deletions \cap Positions(s)
  BY <1>2, <1>6, <1>11
<1>14. ASSUME NEW k \in DOMAIN c.mapping
       PROVE  /\ k \in c.insertions /\ c.mapping[k] \in c.deletions \cap Positions(s)
              /\ At0(s, c.mapping[k]) = At0(u, k)
  <2>1. CASE k # row /\ k # last /\ k \in DOMAIN m /\ c.mapping[k] = m[k]
    <3>1. k \in I /\ k \in Positions(u) /\ At0(s, m[k]) = At0(t, k)
      BY <1>1, <1>2, <1>5, <2>1
    <3> QED
      BY <1>5, <1>6, <1>13, <2>1, <3>1
  <2>2. CASE k = row /\ k # last /\ last \in DOMAIN m /\ c.mapping[k] = m[last]
    <3>1. row \in Positions(u) /\ At0(u, row) = At0(t, last)
      BY <1>5, <2>2
    <3>2. At0(s, m[last]) = At0(t, last)
      BY <1>2, <2>2
    <3> QED
      BY <1>6, <1>13, <2>2, <3>1, <3>2
  <2>3. CASE k = row /\ k # last /\ last \notin I /\ last \notin DOMAIN m /\ c.mapping[k] = last
    <3>1. row \in Positions(u) /\ At0(u, row) = At0(t, last)
      BY <1>5, <2>3
    <3> QED
      BY <1>6, <1>11, <2>3, <3>1
  <2> QED
    BY <1>12, <2>1, <2>2, <2>3
<1>15. ASSUME NEW k \in DOMAIN c.mapping, NEW l \in DOMAIN c.mapping, c.mapping[k] = c.mapping[l]
       PROVE  k = l
  <2>1. \A x \in DOMAIN m : last \notin I /\ last # row => m[x] # last
    BY <1>2, <1>11
  <2>2. \A x, y \in DOMAIN m : m[x] = m[y] => x = y
    BY <1>2
  <2> QED
    BY <1>12, <1>15, <2>1, <2>2
<1>16. MappingFits(c.mapping, c.deletions, c.insertions, s, u)
  BY <1>14, <1>15 DEF MappingFits
<1>17. ModsFit(c.modifications, c.insertions, DOMAIN c.mapping, u, S, T)
  <2>1. ASSUME NEW j \in Positions(u), j \notin c.insertions \/ j \in DOMAIN c.mapping
        PROVE  At0(u, j) \in T <=> At0(u, j) \in S \/ j \in c.modifications
    <3>1. CASE j # row
      <4>1. j \in Positions(t) /\ j # last /\ (j \notin I \/ j \in DOMAIN m) /\ At0(u, j) = At0(t, j)
        BY <1>5, <1>6, <1>12, <2>1, <3>1
      <4>2. At0(t, j) \in T <=> At0(t, j) \in S \/ j \in M
        BY <1>3, <3>1, <4>1
      <4> QED
        BY <1>6, <3>1, <4>1, <4>2
    <3>2. CASE j = row
      <4>1. j \in DOMAIN c.mapping /\ row # last
        BY <1>5, <1>6, <2>1, <3>2
      <4>2. last \notin I \/ last \in DOMAIN m
        BY <1>12, <3>2, <4>1
      <4>3. At0(t, last) \in T <=> At0(t, last) \in S \/ last \in M
        BY <1>3, <1>5, <4>1, <4>2
      <4> QED
        BY <1>5, <1>6, <3>2, <4>1, <4>3
    <3> QED
      BY <3>1, <3>2
  <2> QED
    BY <2>1 DEF ModsFit
<1>18. TableFollows(c, s, S, u, T)
  BY <1>1, <1>6, <1>8, <1>9, <1>10, <1>16, <1>17 DEF TableFollows
<1> QED
  BY <1>18 DEF c, u, last

LEMMA TableFollowsBut ==
    ASSUME NEW b, NEW s, NEW S, NEW t, NEW T, NEW row, TableFollows(b, s, S, t, T)
    PROVE  FollowsBut(b, s, S, t, T, row)
BY DEF TableFollows, FollowsBut, MappingFits, ModsFit

LEMMA MovedOverDistinct ==
    ASSUME NEW t \in Seq(Nat), NEW row \in Positions(t), IsInjective(t)
    PROVE  IsInjective(MovedOver(t, row))
<1> DEFINE u == MovedOver(t, row)
           last == Len(t) - 1
<1>1. /\ u \in Seq(Nat) /\ Positions(u) = Positions(t) \ {last} /\ last \in Positions(t)
      /\ \A j \in Positions(u) : At0(u, j) = IF j = row THEN At0(t, last) ELSE At0(t, j)
  BY MovedOverRows
<1>2. \A i, j \in Positions(t) : At0(t, i) = At0(t, j) => i = j
  BY DistinctEntries
<1> HIDE DEF u, last
<1>3. \A i, j \in Positions(u) : At0(u, i) = At0(u, j) => i = j
  BY <1>1, <1>2
<1> QED
  BY <1>1, <1>3, DistinctEntries DEF u

LEMMA SwappedDistinct ==
    ASSUME NEW t \in Seq(Nat), NEW i \in Positions(t), NEW j \in Positions(t), i # j,
           IsInjective(t)
    PROVE  IsInjective(Swapped(t, i, j))
<1> DEFINE u == Swapped(t, i, j)
<1>1. /\ u \in Seq(Nat) /\ Len(u) = Len(t)
      /\ At0(u, i) = At0(t, j) /\ At0(u, j) = At0(t, i)
      /\ \A k \in Positions(t) : k # i /\ k # j => At0(u, k) = At0(t, k)
  BY SwappedEntries
<1>2. \A k, l \in Positions(t) : At0(t, k) = At0(t, l) => k = l
  BY DistinctEntries
<1> HIDE DEF u
<1>3. Positions(u) = Positions(t)
  BY <1>1 DEF Positions
<1>4. \A k, l \in Positions(u) : At0(u, k) = At0(u, l) => k = l
  BY <1>1, <1>2, <1>3
<1> QED
  BY <1>1, <1>4, DistinctEntries DEF u

-----------------------------------------------------------------------------
(* A row that takes the place of another, and rows swapped                   *)

\* What is known of the changes of a table.
LEMMA TableFacts ==
    ASSUME NEW b, NEW s \in Seq(Nat), NEW S, NEW t \in Seq(Nat), NEW T, TableFollows(b, s, S, t, T)
    PROVE  /\ b \in Builders /\ IsFiniteSet(b.deletions)
           /\ b.deletions \in SUBSET Nat /\ b.insertions \in SUBSET Nat
           /\ b.modifications \in SUBSET Nat /\ b.mapping \in Mappings
           /\ b.insertions \subseteq Positions(t) /\ b.modifications \subseteq Positions(t)
           /\ Positions(s) \ b.deletions = Positions(t) \ b.insertions
           /\ b.moves = <<>>
           /\ Positions(t) \in SUBSET Nat /\ Positions(s) \in SUBSET Nat
BY FieldsOf, PositionFacts DEF TableFollows, BuilderFits

\* A row that was not inserted is where it was.
LEMMA RowWas ==
    ASSUME NEW b, NEW s \in Seq(Nat), NEW S, NEW t \in Seq(Nat), NEW T, TableFollows(b, s, S, t, T),
           NEW j \in Positions(t) \ b.insertions
    PROVE  /\ j \in Nat /\ j \in Positions(s) \ b.deletions
           /\ shift(b.deletions, unshift(b.insertions, j)) = j
           /\ At0(s, j) = At0(t, j)
<1> DEFINE D == b.deletions
           I == b.insertions
<1>1. /\ D \in SUBSET Nat /\ I \in SUBSET Nat /\ IsFiniteSet(D)
      /\ Positions(s) \ D = Positions(t) \ I
  BY TableFacts
<1>2. j \in Positions(t) \ I /\ At0(s, j) = At0(t, j)
  BY DEF TableFollows
<1> HIDE DEF D, I
<1>3. j \in Nat /\ j \notin D /\ j \in Positions(s)
  BY <1>1, <1>2, RowsAgree
<1>4. \A x \in 0..j : x \in D <=> x \in I
  BY <1>1, <1>2, RowsAgree, SMTT(30)
<1>5. unshift(I, j) = unshift(D, j)
  <2>1. \A x \in 0..(j - 1) : x \in I <=> x \in D
    BY <1>3, <1>4
  <2> QED
    BY <1>1, <1>3, <2>1, UnshiftSame
<1>6. shift(D, unshift(I, j)) = j
  BY <1>1, <1>3, <1>5, ShiftUnshift
<1> QED
  BY <1>2, <1>3, <1>6 DEF D, I

\* The object of `from` goes on in `to`; what is at `from` then will be removed.
LEMMA SubsumeFollows ==
    ASSUME NEW b, NEW s \in Seq(Nat), NEW S, NEW t \in Seq(Nat), NEW T, TableFollows(b, s, S, t, T),
           IsInjective(t), NEW from \in Positions(t), NEW to \in Positions(t), from # to,
           to \in b.insertions, to \notin DOMAIN b.mapping
    PROVE  FollowsBut(subsume(b, from, to), s, S, Swapped(t, from, to),
                      IF to \in b.modifications THEN T \cup {At0(t, from)} ELSE T, from)
<1> DEFINE D == b.deletions
           I == b.insertions
           M == b.modifications
           m == b.mapping
           was == shift(D, unshift(I, from))
           N == IF from \in M THEN add(M, to) ELSE M
           map == IF from \in DOMAIN m THEN With(WithoutKey(m, from), to, m[from])
                  ELSE IF from \in I THEN m ELSE With(m, to, was)
           u == Swapped(t, from, to)
           W == IF to \in M THEN T \cup {At0(t, from)} ELSE T
           c == subsume(b, from, to)
<1>1. /\ b \in Builders /\ IsFiniteSet(D) /\ D \in SUBSET Nat /\ I \in SUBSET Nat
      /\ M \in SUBSET Nat /\ m \in Mappings
      /\ I \subseteq Positions(t) /\ M \subseteq Positions(t)
      /\ Positions(s) \ D = Positions(t) \ I /\ b.moves = <<>>
      /\ Positions(t) \in SUBSET Nat
  BY TableFacts
<1>2. /\ \A k \in DOMAIN m : k \in I /\ m[k] \in D \cap Positions(s) /\ At0(s, m[k]) = At0(t, k)
      /\ \A k, l \in DOMAIN m : m[k] = m[l] => k = l
  BY DEF TableFollows, MappingFits
<1>3. \A j \in Positions(t) : j \notin I \/ j \in DOMAIN m =>
             (At0(t, j) \in T <=> At0(t, j) \in S \/ j \in M)
  BY DEF TableFollows, ModsFit
<1>4. \A j \in Positions(t) \ I : At0(s, j) = At0(t, j)
  BY DEF TableFollows
<1>5. from \notin I => was = from /\ from \notin D
  BY RowWas
<1>6. /\ u \in Seq(Nat) /\ Len(u) = Len(t)
      /\ At0(u, from) = At0(t, to) /\ At0(u, to) = At0(t, from)
      /\ \A k \in Positions(t) : k # from /\ k # to => At0(u, k) = At0(t, k)
  BY SwappedEntries
<1>7. \A k, l \in Positions(t) : At0(t, k) = At0(t, l) => k = l
  BY DistinctEntries
<1>8. to \in I /\ to \notin DOMAIN m
  OBVIOUS
<1>9. c = [b EXCEPT !.modifications = N, !.mapping = map]
  <2>1. N = IF from \in b.modifications THEN add(b.modifications, to) ELSE b.modifications
    OBVIOUS
  <2>2. map = IF from \in DOMAIN b.mapping
              THEN With(WithoutKey(b.mapping, from), to, b.mapping[from])
              ELSE IF from \in b.insertions THEN b.mapping
              ELSE With(b.mapping, to, shift(b.deletions, unshift(b.insertions, from)))
    OBVIOUS
  <2> HIDE DEF N, map
  <2> QED
    BY <2>1, <2>2 DEF subsume
<1> HIDE DEF D, I, M, m, c, u, was
<1>10. Positions(u) = Positions(t) /\ from \in Nat /\ to \in Nat
  BY <1>1, <1>6 DEF Positions
<1>11. /\ N \in SUBSET Nat
       /\ \A j : j \in N <=> j \in M \/ (j = to /\ from \in M)
  BY <1>1, <1>10 DEF add
<1>12. /\ map \in Mappings
       /\ \A k \in DOMAIN map :
              \/ /\ k # to /\ k # from /\ k \in DOMAIN m /\ map[k] = m[k]
              \/ /\ k = to /\ from \in DOMAIN m /\ map[k] = m[from]
              \/ /\ k = to /\ from \notin I /\ map[k] = from
  <2>1. CASE from \in DOMAIN m
    <3> DEFINE w == WithoutKey(m, from)
               v == m[from]
    <3>1. w \in Mappings /\ v \in Nat
      BY <1>1, <2>1, WithoutFacts, MappingFacts
    <3>2. DOMAIN w = DOMAIN m \ {from} /\ \A k \in DOMAIN w : w[k] = m[k]
      BY DEF WithoutKey
    <3> HIDE DEF w, v
    <3>3. map = With(w, to, v)
      BY <2>1 DEF w, v
    <3> HIDE DEF map
    <3>4. map \in Mappings
      BY <1>10, <3>1, <3>3, WithFacts
    <3>5. DOMAIN map = DOMAIN w \cup {to} /\ \A k \in DOMAIN map : map[k] = IF k = to THEN v ELSE w[k]
      BY <3>3 DEF With
    <3> QED
      BY <2>1, <3>2, <3>4, <3>5 DEF v
  <2>2. CASE from \notin DOMAIN m /\ from \in I
    BY <1>1, <1>8, <2>2
  <2>3. CASE from \notin DOMAIN m /\ from \notin I
    <3>1. map = With(m, to, from)
      BY <1>5, <2>3
    <3> HIDE DEF map
    <3>2. map \in Mappings
      BY <1>1, <1>10, <3>1, WithFacts
    <3>3. DOMAIN map = DOMAIN m \cup {to} /\ \A k \in DOMAIN map : map[k] = IF k = to THEN from ELSE m[k]
      BY <3>1 DEF With
    <3> QED
      BY <2>3, <3>2, <3>3
  <2> QED
    BY <2>1, <2>2, <2>3
<1> HIDE DEF N, map
<1>13. /\ c \in Builders /\ c.deletions = D /\ c.insertions = I /\ c.modifications = N
       /\ c.mapping = map /\ c.moves = b.moves
  BY <1>1, <1>9, <1>11, <1>12 DEF Builders, D, I
<1>14. BuilderFits(c, u)
  <2>1. N \subseteq Positions(t)
    BY <1>1, <1>11
  <2> QED
    BY <1>1, <1>10, <1>13, <2>1 DEF BuilderFits
<1>15. \A j \in Positions(u) \ I : j # from => At0(s, j) = At0(u, j)
  BY <1>4, <1>6, <1>8, <1>10
<1>16. ASSUME NEW k \in DOMAIN map
       PROVE  /\ k \in I
              /\ \/ map[k] \in D \cap Positions(s)
                 \/ from \notin I /\ map[k] = from
              /\ At0(s, map[k]) = At0(u, k)
  <2>1. CASE k # to /\ k # from /\ k \in DOMAIN m /\ map[k] = m[k]
    <3>1. k \in Positions(t)
      BY <1>1, <1>2, <2>1
    <3> QED
      BY <1>2, <1>6, <2>1, <3>1
  <2>2. CASE k = to /\ from \in DOMAIN m /\ map[k] = m[from]
    BY <1>2, <1>6, <1>8, <2>2
  <2>3. CASE k = to /\ from \notin I /\ map[k] = from
    <3>1. At0(s, from) = At0(t, from)
      BY <1>4, <2>3
    <3> QED
      BY <1>6, <1>8, <2>3, <3>1
  <2> QED
    BY <1>12, <2>1, <2>2, <2>3
<1>17. ASSUME NEW k \in DOMAIN map, NEW l \in DOMAIN map, map[k] = map[l]
       PROVE  k = l
  <2>1. \A x \in DOMAIN m : from \notin I => m[x] # from
    BY <1>2, <1>5
  <2>2. \A x, y \in DOMAIN m : m[x] = m[y] => x = y
    BY <1>2
  <2> QED
    BY <1>12, <1>17, <2>1, <2>2
<1>18. ASSUME NEW j \in Positions(u), j # from, j \notin I \/ j \in DOMAIN map
       PROVE  At0(u, j) \in W <=> At0(u, j) \in S \/ j \in N
  <2>1. CASE j # to
    <3>1. j \in Positions(t) /\ (j \notin I \/ j \in DOMAIN m) /\ At0(u, j) = At0(t, j)
      BY <1>6, <1>10, <1>12, <1>18, <2>1
    <3>2. At0(t, j) # At0(t, from)
      BY <1>7, <1>18, <3>1
    <3>3. At0(t, j) \in W <=> At0(t, j) \in T
      BY <3>2
    <3>4. At0(t, j) \in T <=> At0(t, j) \in S \/ j \in M
      BY <1>3, <3>1
    <3> QED
      BY <1>11, <2>1, <3>1, <3>3, <3>4
  <2>2. CASE j = to
    <3>1. from \in DOMAIN m \/ from \notin I
      BY <1>8, <1>12, <1>18, <2>2
    <3>2. At0(t, from) \in T <=> At0(t, from) \in S \/ from \in M
      BY <1>3, <3>1
    <3>3. At0(t, from) \in W <=> to \in M \/ At0(t, from) \in T
      OBVIOUS
    <3> QED
      BY <1>6, <1>11, <2>2, <3>2, <3>3
  <2> QED
    BY <2>1, <2>2
<1> HIDE DEF W
<1>19. FollowsBut(c, s, S, u, W, from)
  <2>1. Positions(s) \ D = Positions(u) \ I /\ c.moves = <<>>
    BY <1>1, <1>10, <1>13
  <2> QED
    BY <1>13, <1>14, <1>15, <1>16, <1>17, <1>18, <2>1 DEF FollowsBut
<1> QED
  BY <1>19 DEF c, u, W, M

\* What MovedTo makes of b.
RowGoes(c, b, row, to) ==
    /\ c \in Builders /\ c.moves = b.moves /\ c.modifications = b.modifications
    /\ IsFiniteSet(c.deletions)
    /\ \A x : /\ x \in c.deletions <=> x \in b.deletions \/ (x = row /\ row \notin b.insertions)
              /\ x \in c.insertions <=> x \in b.insertions \/ x = row
              /\ x \in DOMAIN c.mapping <=>
                     x \in DOMAIN b.mapping \/ (x = to /\ row \notin b.insertions)
    /\ \A k \in DOMAIN c.mapping :
           c.mapping[k] = IF k = to /\ row \notin b.insertions THEN row ELSE b.mapping[k]

LEMMA MovedToIs ==
    ASSUME NEW b \in Builders, IsFiniteSet(b.deletions), NEW row \in Nat, NEW to \in Nat,
           row \notin b.insertions => shift(b.deletions, unshift(b.insertions, row)) = row
    PROVE  RowGoes(MovedTo(b, row, to), b, row, to)
<1> DEFINE c == MovedTo(b, row, to)
           D == b.deletions
           I == b.insertions
           m == b.mapping
<1>1. /\ D \in SUBSET Nat /\ I \in SUBSET Nat /\ m \in Mappings
      /\ b.modifications \in SUBSET Nat /\ b.moves \in Seq(MoveRecord)
  BY FieldsOf
<1>2. CASE row \in I
  <2>1. c = b
    BY <1>2 DEF MovedTo
  <2> HIDE DEF c
  <2> QED
    BY <1>2, <2>1 DEF RowGoes, c
<1>3. CASE row \notin I
  <2> DEFINE E == add(D, row)
             J == add(I, row)
             map == With(m, to, row)
  <2>1. c = [b EXCEPT !.deletions = E, !.insertions = J, !.mapping = map]
    BY <1>3 DEF MovedTo
  <2>2. /\ E \in SUBSET Nat /\ J \in SUBSET Nat
        /\ \A x : x \in E <=> x \in D \/ x = row
        /\ \A x : x \in J <=> x \in I \/ x = row
    BY <1>1 DEF add
  <2>3. IsFiniteSet(E)
    BY FS_AddElement DEF add
  <2>4. map \in Mappings
    BY <1>1, WithFacts
  <2>5. /\ DOMAIN map = DOMAIN m \cup {to}
        /\ \A k \in DOMAIN map : map[k] = IF k = to THEN row ELSE m[k]
    BY DEF With
  <2> HIDE DEF E, J, map, c
  <2>6. /\ c \in Builders /\ c.deletions = E /\ c.insertions = J /\ c.mapping = map
        /\ c.moves = b.moves /\ c.modifications = b.modifications
    BY <2>1, <2>2, <2>4 DEF Builders
  <2> HIDE DEF D, I, m
  <2>7. /\ \A x : /\ x \in c.deletions <=> x \in D \/ (x = row /\ row \notin I)
                  /\ x \in c.insertions <=> x \in I \/ x = row
                  /\ x \in DOMAIN c.mapping <=> x \in DOMAIN m \/ (x = to /\ row \notin I)
        /\ \A k \in DOMAIN c.mapping :
               c.mapping[k] = IF k = to /\ row \notin I THEN row ELSE m[k]
    BY <1>3, <2>2, <2>5, <2>6
  <2> QED
    BY <2>3, <2>6, <2>7 DEF RowGoes, D, I, m, c
<1> QED
  BY <1>2, <1>3

\* What swap makes of b.
RowsSwapped(c, b, one, two) ==
    /\ c \in Builders /\ c.moves = b.moves /\ IsFiniteSet(c.deletions)
    /\ \A x : /\ x \in c.deletions <=>
                     x \in b.deletions \/ (x \notin b.insertions /\ (x = one \/ x = two))
              /\ x \in c.insertions <=> x \in b.insertions \/ x = one \/ x = two
              /\ x \in c.modifications <=>
                     IF x = one THEN two \in b.modifications
                     ELSE IF x = two THEN one \in b.modifications ELSE x \in b.modifications
    /\ \A k \in DOMAIN c.mapping :
           \/ /\ k # one /\ k # two /\ k \in DOMAIN b.mapping /\ c.mapping[k] = b.mapping[k]
           \/ /\ k = one /\ two \in DOMAIN b.mapping /\ c.mapping[k] = b.mapping[two]
           \/ /\ k = two /\ one \in DOMAIN b.mapping /\ c.mapping[k] = b.mapping[one]
           \/ /\ k = one /\ two \notin b.insertions /\ c.mapping[k] = two
           \/ /\ k = two /\ one \notin b.insertions /\ c.mapping[k] = one

LEMMA SwappedInFacts ==
    ASSUME NEW M, NEW one, NEW two, NEW x
    PROVE  x \in SwappedIn(M, one, two) <=>
               IF x = one THEN two \in M ELSE IF x = two THEN one \in M ELSE x \in M
<1>1. CASE one \in M <=> two \in M
  BY <1>1 DEF SwappedIn
<1>2. CASE one \in M /\ two \notin M
  BY <1>2 DEF SwappedIn
<1>3. CASE one \notin M /\ two \in M
  BY <1>3 DEF SwappedIn
<1> QED
  BY <1>1, <1>2, <1>3

LEMMA SwapIs ==
    ASSUME NEW b, NEW s \in Seq(Nat), NEW S, NEW t \in Seq(Nat), NEW T, TableFollows(b, s, S, t, T),
           NEW one \in Positions(t), NEW two \in Positions(t), one < two
    PROVE  RowsSwapped(swap(b, one, two), b, one, two)
<1> DEFINE D == b.deletions
           I == b.insertions
           M == b.modifications
           m == b.mapping
           N == SwappedIn(M, one, two)
           d == [b EXCEPT !.modifications = N]
           c == swap(b, one, two)
<1>1. /\ b \in Builders /\ IsFiniteSet(D) /\ D \in SUBSET Nat /\ I \in SUBSET Nat
      /\ M \in SUBSET Nat /\ m \in Mappings /\ b.moves \in Seq(MoveRecord)
      /\ one \in Nat /\ two \in Nat
  <2>1. b \in Builders
    BY TableFacts
  <2> QED
    BY <2>1, TableFacts, FieldsOf
<1>2. \A k \in DOMAIN m : k \in I
  BY DEF TableFollows, MappingFits
<1>3. /\ one \notin I => shift(D, unshift(I, one)) = one
      /\ two \notin I => shift(D, unshift(I, two)) = two
  BY RowWas
<1>4. /\ N \in SUBSET Nat
      /\ \A x : x \in N <=> IF x = one THEN two \in M ELSE IF x = two THEN one \in M ELSE x \in M
  <2>1. \A x : x \in N <=> IF x = one THEN two \in M ELSE IF x = two THEN one \in M ELSE x \in M
    BY SwappedInFacts
  <2> HIDE DEF N
  <2> QED
    BY <1>1, <2>1
<1>5. c = IF one \in DOMAIN m /\ two \in DOMAIN m
          THEN [d EXCEPT !.mapping = With(With(m, one, m[two]), two, m[one])]
          ELSE IF one \in DOMAIN m
          THEN MovedTo([d EXCEPT !.mapping = With(WithoutKey(m, one), two, m[one])], two, one)
          ELSE IF two \in DOMAIN m
          THEN MovedTo([d EXCEPT !.mapping = With(WithoutKey(m, two), one, m[two])], one, two)
          ELSE MovedTo(MovedTo(d, two, one), one, two)
  <2> DEFINE lo == Min({one, two})
             hi == Max({one, two})
             e == [b EXCEPT !.modifications = SwappedIn(@, lo, hi)]
             f == e.mapping
  <2>1. lo = one /\ hi = two
    BY <1>1, MinMaxOf
  <2>2. f = m
    BY <1>1 DEF Builders
  <2>3. c = IF lo \in DOMAIN f /\ hi \in DOMAIN f
            THEN [e EXCEPT !.mapping = With(With(e.mapping, lo, e.mapping[hi]), hi, e.mapping[lo])]
            ELSE IF lo \in DOMAIN f
            THEN MovedTo([e EXCEPT !.mapping = With(WithoutKey(e.mapping, lo), hi, e.mapping[lo])], hi, lo)
            ELSE IF hi \in DOMAIN f
            THEN MovedTo([e EXCEPT !.mapping = With(WithoutKey(e.mapping, hi), lo, e.mapping[hi])], lo, hi)
            ELSE MovedTo(MovedTo(e, hi, lo), lo, hi)
    <3>1. e.mapping = b.mapping
      BY <1>1 DEF Builders
    <3> QED
      BY <3>1 DEF swap
  <2> HIDE DEF lo, hi, c, m, D, I
  <2>4. e = d
    BY <2>1
  <2> HIDE DEF e, d
  <2> QED
    BY <2>1, <2>2, <2>3, <2>4
<1> HIDE DEF N, c
<1>6. /\ d \in Builders /\ d.deletions = D /\ d.insertions = I /\ d.modifications = N
      /\ d.mapping = m /\ d.moves = b.moves
  BY <1>1, <1>4 DEF Builders
<1>7. \A map \in Mappings :
          LET e == [d EXCEPT !.mapping = map]
          IN  /\ e \in Builders /\ e.deletions = D /\ e.insertions = I /\ e.modifications = N
              /\ e.mapping = map /\ e.moves = b.moves
  BY <1>1, <1>4 DEF Builders
<1> HIDE DEF d, D, I, M, m
<1>8. CASE one \in DOMAIN m /\ two \in DOMAIN m
  <2> DEFINE vone == m[one]
             vtwo == m[two]
             w == With(m, one, vtwo)
             map == With(w, two, vone)
             e == [d EXCEPT !.mapping = map]
  <2>1. vone \in Nat /\ vtwo \in Nat
    BY <1>1, <1>8, MappingFacts
  <2>2. w \in Mappings
    BY <1>1, <2>1, WithFacts
  <2>3. DOMAIN w = DOMAIN m \cup {one} /\ \A k \in DOMAIN w : w[k] = IF k = one THEN vtwo ELSE m[k]
    BY DEF With
  <2> HIDE DEF vone, vtwo, w
  <2>4. map \in Mappings
    BY <1>1, <2>1, <2>2, WithFacts
  <2>5. DOMAIN map = DOMAIN w \cup {two} /\ \A k \in DOMAIN map : map[k] = IF k = two THEN vone ELSE w[k]
    BY DEF With
  <2> HIDE DEF map
  <2>6. c = e
    BY <1>5, <1>8 DEF map, w, vone, vtwo
  <2>7. /\ c \in Builders /\ c.deletions = D /\ c.insertions = I /\ c.modifications = N
        /\ c.mapping = map /\ c.moves = b.moves
    BY <1>7, <2>4, <2>6
  <2> HIDE DEF e
  <2>8. one \in I /\ two \in I
    BY <1>2, <1>8
  <2>9. /\ \A x : /\ x \in c.deletions <=> x \in D \/ (x \notin I /\ (x = one \/ x = two))
                  /\ x \in c.insertions <=> x \in I \/ x = one \/ x = two
                  /\ x \in c.modifications <=>
                         IF x = one THEN two \in M ELSE IF x = two THEN one \in M ELSE x \in M
    BY <1>4, <2>7, <2>8
  <2>10. \A k \in DOMAIN c.mapping :
           \/ /\ k # one /\ k # two /\ k \in DOMAIN m /\ c.mapping[k] = m[k]
           \/ /\ k = one /\ two \in DOMAIN m /\ c.mapping[k] = m[two]
           \/ /\ k = two /\ one \in DOMAIN m /\ c.mapping[k] = m[one]
           \/ /\ k = one /\ two \notin I /\ c.mapping[k] = two
           \/ /\ k = two /\ one \notin I /\ c.mapping[k] = one
    BY <1>8, <2>3, <2>5, <2>7 DEF vone, vtwo
  <2> QED
    BY <1>1, <2>7, <2>9, <2>10 DEF RowsSwapped, D, I, M, m, c
<1>9. ASSUME NEW i \in {one, two}, NEW j \in {one, two}, i # j, i \in DOMAIN m, j \notin DOMAIN m,
             c = MovedTo([d EXCEPT !.mapping = With(WithoutKey(m, i), j, m[i])], j, i)
      PROVE  RowsSwapped(c, b, one, two)
  <2> DEFINE v == m[i]
             w == WithoutKey(m, i)
             map == With(w, j, v)
             e == [d EXCEPT !.mapping = map]
  <2>1. v \in Nat /\ i \in Nat /\ j \in Nat
    BY <1>1, <1>9, MappingFacts
  <2>2. w \in Mappings
    BY <1>1, WithoutFacts
  <2>3. DOMAIN w = DOMAIN m \ {i} /\ \A k \in DOMAIN w : w[k] = m[k]
    BY DEF WithoutKey
  <2> HIDE DEF v, w
  <2>4. map \in Mappings
    BY <2>1, <2>2, WithFacts
  <2>5. DOMAIN map = DOMAIN w \cup {j} /\ \A k \in DOMAIN map : map[k] = IF k = j THEN v ELSE w[k]
    BY DEF With
  <2> HIDE DEF map
  <2>6. c = MovedTo(e, j, i)
    BY <1>9 DEF map, w, v
  <2>7. /\ e \in Builders /\ e.deletions = D /\ e.insertions = I /\ e.modifications = N
        /\ e.mapping = map /\ e.moves = b.moves
    BY <1>7, <2>4
  <2> HIDE DEF e
  <2>8. RowGoes(c, e, j, i)
    <3>1. j \notin e.insertions => shift(e.deletions, unshift(e.insertions, j)) = j
      BY <1>3, <1>9, <2>7
    <3>2. IsFiniteSet(e.deletions)
      BY <1>1, <2>7
    <3> QED
      BY <2>1, <2>6, <2>7, <3>1, <3>2, MovedToIs
  <2>9. /\ c \in Builders /\ c.moves = b.moves /\ c.modifications = N /\ IsFiniteSet(c.deletions)
        /\ \A x : /\ x \in c.deletions <=> x \in D \/ (x = j /\ j \notin I)
                  /\ x \in c.insertions <=> x \in I \/ x = j
                  /\ x \in DOMAIN c.mapping <=> x \in DOMAIN map \/ (x = i /\ j \notin I)
        /\ \A k \in DOMAIN c.mapping : c.mapping[k] = IF k = i /\ j \notin I THEN j ELSE map[k]
    BY <2>7, <2>8 DEF RowGoes
  <2>10. i \in I
    BY <1>2, <1>9
  <2>11. \A x : (x = one \/ x = two) <=> (x = i \/ x = j)
    BY <1>9
  <2>12. \A x : /\ x \in c.deletions <=> x \in D \/ (x \notin I /\ (x = one \/ x = two))
                /\ x \in c.insertions <=> x \in I \/ x = one \/ x = two
                /\ x \in c.modifications <=>
                       IF x = one THEN two \in M ELSE IF x = two THEN one \in M ELSE x \in M
    BY <1>4, <2>9, <2>10, <2>11
  <2>13. ASSUME NEW k \in DOMAIN c.mapping
         PROVE  \/ /\ k # i /\ k # j /\ k \in DOMAIN m /\ c.mapping[k] = m[k]
                \/ /\ k = j /\ i \in DOMAIN m /\ c.mapping[k] = m[i]
                \/ /\ k = i /\ j \notin I /\ c.mapping[k] = j
    BY <1>9, <2>3, <2>5, <2>9 DEF v
  <2>14. \A k \in DOMAIN c.mapping :
           \/ /\ k # one /\ k # two /\ k \in DOMAIN m /\ c.mapping[k] = m[k]
           \/ /\ k = one /\ two \in DOMAIN m /\ c.mapping[k] = m[two]
           \/ /\ k = two /\ one \in DOMAIN m /\ c.mapping[k] = m[one]
           \/ /\ k = one /\ two \notin I /\ c.mapping[k] = two
           \/ /\ k = two /\ one \notin I /\ c.mapping[k] = one
    <3>1. (i = one /\ j = two) \/ (i = two /\ j = one)
      BY <1>9
    <3> QED
      BY <2>13, <3>1
  <2> QED
    BY <2>9, <2>12, <2>14 DEF RowsSwapped, D, I, M, m
<1>10. CASE one \in DOMAIN m /\ two \notin DOMAIN m
  <2>1. c = MovedTo([d EXCEPT !.mapping = With(WithoutKey(m, one), two, m[one])], two, one)
    BY <1>5, <1>10
  <2> QED
    BY <1>9, <1>10, <2>1 DEF c
<1>11. CASE one \notin DOMAIN m /\ two \in DOMAIN m
  <2>1. c = MovedTo([d EXCEPT !.mapping = With(WithoutKey(m, two), one, m[two])], one, two)
    BY <1>5, <1>11
  <2> QED
    BY <1>9, <1>11, <2>1 DEF c
<1>12. CASE one \notin DOMAIN m /\ two \notin DOMAIN m
  <2> DEFINE e == MovedTo(d, two, one)
  <2>1. RowGoes(e, d, two, one)
    <3>1. two \notin d.insertions => shift(d.deletions, unshift(d.insertions, two)) = two
      BY <1>3, <1>6
    <3>2. IsFiniteSet(d.deletions)
      BY <1>1, <1>6
    <3> QED
      BY <1>1, <1>6, <3>1, <3>2, MovedToIs
  <2>2. c = MovedTo(e, one, two)
    BY <1>5, <1>12
  <2> HIDE DEF e
  <2>3. /\ e \in Builders /\ e.moves = b.moves /\ e.modifications = N /\ IsFiniteSet(e.deletions)
        /\ \A x : /\ x \in e.deletions <=> x \in D \/ (x = two /\ two \notin I)
                  /\ x \in e.insertions <=> x \in I \/ x = two
                  /\ x \in DOMAIN e.mapping <=> x \in DOMAIN m \/ (x = one /\ two \notin I)
        /\ \A k \in DOMAIN e.mapping : e.mapping[k] = IF k = one /\ two \notin I THEN two ELSE m[k]
    BY <1>6, <2>1 DEF RowGoes
  <2>4. one \notin e.insertions => shift(e.deletions, unshift(e.insertions, one)) = one
    <3>1. SUFFICES ASSUME one \notin e.insertions
                   PROVE  shift(e.deletions, unshift(e.insertions, one)) = one
      OBVIOUS
    <3>2. one \in Positions(t) \ I /\ Positions(s) \ D = Positions(t) \ I
      <4>1. Positions(s) \ D = Positions(t) \ I
        BY TableFacts DEF D, I
      <4> QED
        BY <2>3, <3>1, <4>1
    <3>3. one \notin D
      BY <1>1, <3>2, RowsAgree
    <3>4. \A x \in 0..one : x \in D <=> x \in I
      BY <1>1, <3>2, RowsAgree, SMTT(30)
    <3>5. /\ e.deletions \in SUBSET Nat /\ e.insertions \in SUBSET Nat
      BY <2>3, FieldsOf
    <3>6. \A x \in 0..(one - 1) : x \in e.deletions <=> x \in e.insertions
      BY <1>1, <2>3, <3>4
    <3>7. one \notin e.deletions
      BY <1>1, <2>3, <3>3
    <3> HIDE DEF d
    <3> DEFINE E == e.deletions
               J == e.insertions
    <3>8. E \in SUBSET Nat /\ J \in SUBSET Nat /\ IsFiniteSet(E)
      BY <2>3, <3>5
    <3>9. one \in Nat /\ one \notin E /\ \A x \in 0..(one - 1) : x \in E <=> x \in J
      BY <1>1, <3>6, <3>7
    <3> HIDE DEF E, J
    <3>10. shift(E, unshift(J, one)) = one
      BY <3>8, <3>9, RowRank
    <3> QED
      BY <3>10 DEF E, J
  <2>5. RowGoes(c, e, one, two)
    BY <1>1, <2>2, <2>3, <2>4, MovedToIs
  <2>6. /\ c \in Builders /\ c.moves = b.moves /\ c.modifications = N /\ IsFiniteSet(c.deletions)
        /\ \A x : /\ x \in c.deletions <=> x \in e.deletions \/ (x = one /\ one \notin e.insertions)
                  /\ x \in c.insertions <=> x \in e.insertions \/ x = one
                  /\ x \in DOMAIN c.mapping <=>
                         x \in DOMAIN e.mapping \/ (x = two /\ one \notin e.insertions)
        /\ \A k \in DOMAIN c.mapping :
               c.mapping[k] = IF k = two /\ one \notin e.insertions THEN one ELSE e.mapping[k]
    BY <2>3, <2>5 DEF RowGoes
  <2>7. one \in e.insertions <=> one \in I
    BY <1>1, <2>3
  <2>8. \A x : /\ x \in c.deletions <=> x \in D \/ (x \notin I /\ (x = one \/ x = two))
               /\ x \in c.insertions <=> x \in I \/ x = one \/ x = two
               /\ x \in c.modifications <=>
                      IF x = one THEN two \in M ELSE IF x = two THEN one \in M ELSE x \in M
    BY <1>4, <2>3, <2>6, <2>7
  <2>9. ASSUME NEW k \in DOMAIN c.mapping
        PROVE \/ /\ k # one /\ k # two /\ k \in DOMAIN m /\ c.mapping[k] = m[k]
              \/ /\ k = one /\ two \in DOMAIN m /\ c.mapping[k] = m[two]
              \/ /\ k = two /\ one \in DOMAIN m /\ c.mapping[k] = m[one]
              \/ /\ k = one /\ two \notin I /\ c.mapping[k] = two
              \/ /\ k = two /\ one \notin I /\ c.mapping[k] = one
    <3>1. one # two
      BY <1>1
    <3>2. CASE k = two /\ one \notin I
      BY <2>6, <2>7, <3>2
    <3>3. CASE ~(k = two /\ one \notin I)
      <4>1. k \in DOMAIN e.mapping /\ c.mapping[k] = e.mapping[k]
        BY <2>6, <2>7, <3>3
      <4> QED
        BY <1>12, <2>3, <3>3, <4>1
    <3> QED
      BY <3>2, <3>3
  <2> QED
    BY <2>6, <2>8, <2>9 DEF RowsSwapped, D, I, M, m, c
<1> QED
  BY <1>8, <1>10, <1>11, <1>12 DEF c

\* The changes follow two rows of a table that change places.
LEMMA SwapFollows ==
    ASSUME NEW b, NEW s \in Seq(Nat), NEW S, NEW t \in Seq(Nat), NEW T, TableFollows(b, s, S, t, T),
           NEW one \in Positions(t), NEW two \in Positions(t), one < two
    PROVE  TableFollows(swap(b, one, two), s, S, Swapped(t, one, two), T)
<1> DEFINE D == b.deletions
           I == b.insertions
           M == b.modifications
           m == b.mapping
           u == Swapped(t, one, two)
           c == swap(b, one, two)
<1>1. /\ IsFiniteSet(D) /\ I \subseteq Positions(t) /\ M \subseteq Positions(t)
      /\ Positions(s) \ D = Positions(t) \ I /\ b.moves = <<>>
  BY TableFacts
<1>0. one # two
  <2>1. one \in Nat /\ two \in Nat
    BY PositionFacts
  <2> QED
    BY <2>1
<1>2. /\ \A k \in DOMAIN m : k \in I /\ m[k] \in D \cap Positions(s) /\ At0(s, m[k]) = At0(t, k)
      /\ \A k, l \in DOMAIN m : m[k] = m[l] => k = l
  BY DEF TableFollows, MappingFits
<1>3. \A j \in Positions(t) : j \notin I \/ j \in DOMAIN m =>
             (At0(t, j) \in T <=> At0(t, j) \in S \/ j \in M)
  BY DEF TableFollows, ModsFit
<1>4. \A j \in Positions(t) \ I : At0(s, j) = At0(t, j)
  BY DEF TableFollows
<1>5. RowsSwapped(c, b, one, two)
  BY SwapIs
<1>6. /\ u \in Seq(Nat) /\ Len(u) = Len(t)
      /\ At0(u, one) = At0(t, two) /\ At0(u, two) = At0(t, one)
      /\ \A k \in Positions(t) : k # one /\ k # two => At0(u, k) = At0(t, k)
  BY <1>0, SwappedEntries
<1> HIDE DEF c, u
<1>7. Positions(u) = Positions(t)
  BY <1>6 DEF Positions
<1>8. /\ c \in Builders /\ c.moves = b.moves /\ IsFiniteSet(c.deletions)
      /\ \A x : /\ x \in c.deletions <=> x \in D \/ (x \notin I /\ (x = one \/ x = two))
                /\ x \in c.insertions <=> x \in I \/ x = one \/ x = two
                /\ x \in c.modifications <=>
                       IF x = one THEN two \in M ELSE IF x = two THEN one \in M ELSE x \in M
  BY <1>5 DEF RowsSwapped
<1>9. \A k \in DOMAIN c.mapping :
           \/ /\ k # one /\ k # two /\ k \in DOMAIN m /\ c.mapping[k] = m[k]
           \/ /\ k = one /\ two \in DOMAIN m /\ c.mapping[k] = m[two]
           \/ /\ k = two /\ one \in DOMAIN m /\ c.mapping[k] = m[one]
           \/ /\ k = one /\ two \notin I /\ c.mapping[k] = two
           \/ /\ k = two /\ one \notin I /\ c.mapping[k] = one
  BY <1>5 DEF RowsSwapped
<1> HIDE DEF D, I, M, m
<1>10. BuilderFits(c, u)
  <2>1. c.modifications \subseteq Positions(u)
    BY <1>1, <1>7, <1>8
  <2>2. c.insertions \subseteq Positions(u)
    BY <1>1, <1>7, <1>8
  <2> QED
    BY <1>8, <2>1, <2>2 DEF BuilderFits
<1>11. Positions(s) \ c.deletions = Positions(u) \ c.insertions
  BY <1>1, <1>7, <1>8
<1>12. \A j \in Positions(u) \ c.insertions : At0(s, j) = At0(u, j)
  BY <1>4, <1>6, <1>7, <1>8
<1>13. /\ one \notin I => one \in Positions(s) \ D /\ At0(s, one) = At0(t, one)
       /\ two \notin I => two \in Positions(s) \ D /\ At0(s, two) = At0(t, two)
  BY <1>1, <1>4
<1>14. ASSUME NEW k \in DOMAIN c.mapping
       PROVE  /\ k \in c.insertions /\ c.mapping[k] \in c.deletions \cap Positions(s)
              /\ At0(s, c.mapping[k]) = At0(u, k)
  <2>1. CASE k # one /\ k # two /\ k \in DOMAIN m /\ c.mapping[k] = m[k]
    <3>1. k \in I /\ k \in Positions(t) /\ m[k] \in D \cap Positions(s) /\ At0(s, m[k]) = At0(t, k)
      BY <1>1, <1>2, <2>1
    <3> QED
      BY <1>6, <1>8, <2>1, <3>1
  <2>2. CASE k = one /\ two \in DOMAIN m /\ c.mapping[k] = m[two]
    BY <1>2, <1>6, <1>8, <2>2
  <2>3. CASE k = two /\ one \in DOMAIN m /\ c.mapping[k] = m[one]
    BY <1>2, <1>6, <1>8, <2>3
  <2>4. CASE k = one /\ two \notin I /\ c.mapping[k] = two
    BY <1>6, <1>8, <1>13, <2>4
  <2>5. CASE k = two /\ one \notin I /\ c.mapping[k] = one
    BY <1>6, <1>8, <1>13, <2>5
  <2> QED
    BY <1>9, <2>1, <2>2, <2>3, <2>4, <2>5
<1>15. ASSUME NEW k \in DOMAIN c.mapping, NEW l \in DOMAIN c.mapping, c.mapping[k] = c.mapping[l]
       PROVE  k = l
  <2>1. \A x \in DOMAIN m : (one \notin I => m[x] # one) /\ (two \notin I => m[x] # two)
    BY <1>2, <1>13
  <2>2. \A x, y \in DOMAIN m : m[x] = m[y] => x = y
    BY <1>2
  <2> QED
    BY <1>0, <1>9, <1>15, <2>1, <2>2
<1>16. MappingFits(c.mapping, c.deletions, c.insertions, s, u)
  BY <1>14, <1>15 DEF MappingFits
<1>17. ASSUME NEW j \in Positions(u), j \notin c.insertions \/ j \in DOMAIN c.mapping
       PROVE  At0(u, j) \in T <=> At0(u, j) \in S \/ j \in c.modifications
  <2>1. CASE j # one /\ j # two
    <3>1. j \in Positions(t) /\ (j \notin I \/ j \in DOMAIN m) /\ At0(u, j) = At0(t, j)
      BY <1>6, <1>7, <1>8, <1>9, <1>17, <2>1
    <3>2. At0(t, j) \in T <=> At0(t, j) \in S \/ j \in M
      BY <1>3, <3>1
    <3> QED
      BY <1>8, <2>1, <3>1, <3>2
  <2>2. CASE j = one
    <3>1. two \in DOMAIN m \/ two \notin I
      BY <1>0, <1>8, <1>9, <1>17, <2>2
    <3>2. At0(t, two) \in T <=> At0(t, two) \in S \/ two \in M
      BY <1>3, <3>1
    <3> QED
      BY <1>6, <1>8, <2>2, <3>2
  <2>3. CASE j = two
    <3>1. one \in DOMAIN m \/ one \notin I
      BY <1>0, <1>8, <1>9, <1>17, <2>3
    <3>2. At0(t, one) \in T <=> At0(t, one) \in S \/ one \in M
      BY <1>3, <3>1
    <3> QED
      BY <1>0, <1>6, <1>8, <2>3, <3>2
  <2> QED
    BY <2>1, <2>2, <2>3
<1>18. TableFollows(c, s, S, u, T)
  BY <1>1, <1>8, <1>10, <1>11, <1>12, <1>16, <1>17 DEF TableFollows, ModsFit
<1> QED
  BY <1>18 DEF c, u

-----------------------------------------------------------------------------
(* A row appended, modified; the table cleared                               *)

\* What the insertion of a row behind the last, n, makes of b.
RowAppended(c, b, n) ==
    /\ c \in Builders /\ c.deletions = b.deletions /\ c.modifications = b.modifications
    /\ c.moves = b.moves /\ c.mapping = b.mapping
    /\ \A x : x \in c.insertions <=> x \in b.insertions \/ x = n

LEMMA AppendIs ==
    ASSUME NEW b, NEW s \in Seq(Nat), NEW S, NEW t \in Seq(Nat), NEW T, TableFollows(b, s, S, t, T)
    PROVE  RowAppended(insert(b, Len(t), 1), b, Len(t))
<1> DEFINE D == b.deletions
           I == b.insertions
           M == b.modifications
           m == b.mapping
           n == Len(t)
           J == insert_at(I, n, 1)
           c == insert(b, n, 1)
<1>1. /\ b \in Builders /\ D \in SUBSET Nat /\ I \in SUBSET Nat
      /\ M \in SUBSET Nat /\ m \in Mappings
      /\ I \subseteq Positions(t) /\ M \subseteq Positions(t) /\ b.moves = <<>>
  BY TableFacts
<1>2. n \in Nat /\ \A x \in Nat : x \in Positions(t) <=> x < n
  BY PositionFacts
<1>3. DOMAIN m \subseteq I
  BY DEF TableFollows, MappingFits
<1> HIDE DEF D, I, M, m, n, c
<1>4. \A R \in SUBSET Positions(t) : shift_for_insert_at(R, n, 1) = R
  <2>1. ASSUME NEW R \in SUBSET Positions(t)
        PROVE  shift_for_insert_at(R, n, 1) = R
    <3>1. \A x \in R : (IF x < n THEN x ELSE x + 1) = x
      BY <1>2, PositionFacts
    <3> QED
      BY <3>1 DEF shift_for_insert_at
  <2> QED
    BY <2>1
<1>5. J \in SUBSET Nat /\ \A x : x \in J <=> x \in I \/ x = n
  <2>1. J = I \cup n .. (n + 1 - 1)
    BY <1>1, <1>4 DEF insert_at
  <2>2. n .. (n + 1 - 1) = {n}
    BY <1>2
  <2> QED
    BY <1>1, <1>2, <2>1, <2>2
<1>6. shift_for_insert_at(M, n, 1) = M
  BY <1>1, <1>4
<1>7. \A k \in DOMAIN m : (IF k >= n THEN k + 1 ELSE k) = k
  <2>1. \A k \in DOMAIN m : k \in Positions(t)
    BY <1>1, <1>3
  <2>2. \A k \in DOMAIN m : k \in Nat /\ k < n
    BY <1>2, <2>1, PositionFacts
  <2> QED
    BY <1>2, <2>2
<1>8. {IF k >= n THEN k + 1 ELSE k : k \in DOMAIN m} = DOMAIN m
  BY <1>7
<1>9. ASSUME NEW p \in DOMAIN m
      PROVE  (CHOOSE k \in DOMAIN m : (IF k >= n THEN k + 1 ELSE k) = p) = p
  <2>1. \E k \in DOMAIN m : (IF k >= n THEN k + 1 ELSE k) = p
    BY <1>7
  <2> QED
    BY <1>7, <2>1
<1>10. [p \in {IF k >= n THEN k + 1 ELSE k : k \in DOMAIN m} |->
           m[CHOOSE k \in DOMAIN m : (IF k >= n THEN k + 1 ELSE k) = p]] = m
  <2>1. [p \in {IF k >= n THEN k + 1 ELSE k : k \in DOMAIN m} |->
           m[CHOOSE k \in DOMAIN m : (IF k >= n THEN k + 1 ELSE k) = p]]
        = [p \in DOMAIN m |-> m[p]]
    BY <1>8, <1>9
  <2>2. m = [p \in DOMAIN m |-> m[p]]
    BY <1>1 DEF Mappings
  <2> QED
    BY <2>1, <2>2
<1>11. MapMoves(b.moves, LAMBDA k : IF k >= n THEN k + 1 ELSE k) = <<>>
  BY <1>1 DEF MapMoves
<1>12. c = [deletions |-> D, insertions |-> J, modifications |-> M,
            moves |-> <<>>, mapping |-> m]
  <2>1. J = insert_at(b.insertions, n, 1) /\ shift_for_insert_at(b.modifications, n, 1) = M
    BY <1>6 DEF I, M
  <2>2. [p \in {IF k >= n THEN k + 1 ELSE k : k \in DOMAIN b.mapping} |->
           b.mapping[CHOOSE k \in DOMAIN b.mapping : (IF k >= n THEN k + 1 ELSE k) = p]] = m
    BY <1>10 DEF m
  <2> HIDE DEF J
  <2> QED
    BY <1>11, <2>1, <2>2 DEF insert, D, c
<1> HIDE DEF J
<1>13. <<>> \in Seq(MoveRecord)
  OBVIOUS
<1>14. /\ c \in Builders /\ c.deletions = D /\ c.insertions = J /\ c.modifications = M
       /\ c.moves = <<>> /\ c.mapping = m
  BY <1>1, <1>5, <1>12, <1>13, BuilderIs
<1> QED
  BY <1>1, <1>5, <1>14 DEF RowAppended, D, I, M, m, n, c

LEMMA TableInsertFollows ==
    ASSUME NEW b, NEW s \in Seq(Nat), NEW S, NEW t \in Seq(Nat), NEW T, TableFollows(b, s, S, t, T),
           NEW u \in Seq(Nat), Longer(t, Len(t), u)
    PROVE  TableFollows(insert(b, Len(t), 1), s, S, u, T)
<1> DEFINE n == Len(t)
           c == insert(b, n, 1)
           I == b.insertions
<1>1. /\ b \in Builders /\ IsFiniteSet(b.deletions) /\ I \in SUBSET Nat
      /\ I \subseteq Positions(t) /\ b.modifications \subseteq Positions(t)
      /\ Positions(s) \ b.deletions = Positions(t) \ I /\ b.moves = <<>>
      /\ Positions(t) \in SUBSET Nat
  BY TableFacts
<1>2. RowAppended(c, b, n)
  BY AppendIs
<1> HIDE DEF c
<1>3. /\ c \in Builders /\ c.deletions = b.deletions /\ c.modifications = b.modifications
      /\ c.moves = b.moves /\ c.mapping = b.mapping
      /\ \A x : x \in c.insertions <=> x \in I \/ x = n
  BY <1>2 DEF RowAppended
<1>4. n \in Nat /\ \A x \in Nat : x \in Positions(t) <=> x < n
  BY PositionFacts
<1>5. /\ \A x : x \in Positions(u) <=> x \in Positions(t) \/ x = n
      /\ \A x \in Positions(t) : At0(u, x) = At0(t, x) /\ x # n
  <2>1. Len(u) = n + 1 /\ \A j \in 0..(n - 1) : At0(u, j) = At0(t, j)
    BY DEF Longer
  <2>2. Positions(u) = 0..n /\ Positions(t) = 0..(n - 1)
    BY <1>4, <2>1 DEF Positions
  <2>3. \A x : x \in 0..n <=> x \in 0..(n - 1) \/ x = n
    BY <1>4
  <2>4. \A x \in 0..(n - 1) : x # n
    BY <1>4
  <2> QED
    BY <2>1, <2>2, <2>3, <2>4
<1> HIDE DEF n, I
<1>6. BuilderFits(c, u)
  <2>1. c.insertions \subseteq Positions(u) /\ c.modifications \subseteq Positions(u)
    BY <1>1, <1>3, <1>5
  <2> QED
    BY <1>1, <1>3, <2>1 DEF BuilderFits
<1>7. Positions(s) \ c.deletions = Positions(u) \ c.insertions
  BY <1>1, <1>3, <1>5
<1>8. \A j \in Positions(u) \ c.insertions : At0(s, j) = At0(u, j)
  <2>1. \A j \in Positions(t) \ I : At0(s, j) = At0(t, j)
    BY DEF TableFollows, I
  <2> QED
    BY <1>3, <1>5, <2>1
<1>9. MappingFits(c.mapping, c.deletions, c.insertions, s, u)
  <2>1. MappingFits(b.mapping, b.deletions, I, s, t)
    BY DEF TableFollows, I
  <2> QED
    BY <1>1, <1>3, <1>5, <2>1 DEF MappingFits
<1>10. ModsFit(c.modifications, c.insertions, DOMAIN c.mapping, u, S, T)
  <2>1. /\ MappingFits(b.mapping, b.deletions, I, s, t)
        /\ ModsFit(b.modifications, I, DOMAIN b.mapping, t, S, T)
    BY DEF TableFollows, I
  <2>2. \A k \in DOMAIN b.mapping : k \in Positions(t)
    BY <1>1, <2>1 DEF MappingFits
  <2> QED
    BY <1>3, <1>5, <2>1, <2>2 DEF ModsFit
<1> QED
  BY <1>1, <1>3, <1>6, <1>7, <1>8, <1>9, <1>10 DEF TableFollows, c, n

LEMMA TableModifyFollows ==
    ASSUME NEW b, NEW s \in Seq(Nat), NEW S, NEW t \in Seq(Nat), NEW T, TableFollows(b, s, S, t, T),
           IsInjective(t), NEW i \in Positions(t)
    PROVE  TableFollows(modify(b, i), s, S, t, T \cup {At0(t, i)})
<1> DEFINE N == add(b.modifications, i)
           c == modify(b, i)
<1>1. /\ b \in Builders /\ IsFiniteSet(b.deletions)
      /\ b.insertions \subseteq Positions(t) /\ b.modifications \subseteq Positions(t)
      /\ Positions(s) \ b.deletions = Positions(t) \ b.insertions /\ b.moves = <<>>
      /\ \A j \in Positions(t) \ b.insertions : At0(s, j) = At0(t, j)
      /\ MappingFits(b.mapping, b.deletions, b.insertions, s, t)
      /\ ModsFit(b.modifications, b.insertions, DOMAIN b.mapping, t, S, T)
  BY DEF TableFollows, BuilderFits
<1>2. i \in Nat /\ N \in SUBSET Nat /\ N \subseteq Positions(t)
  BY <1>1, PositionFacts, FieldsOf DEF add
<1>3. ModsFit(N, b.insertions, DOMAIN b.mapping, t, S, T \cup {At0(t, i)})
  BY <1>1, ModsModified
<1> HIDE DEF N
<1>4. c = [b EXCEPT !.modifications = N]
  BY DEF modify, N
<1>5. /\ c \in Builders /\ c.deletions = b.deletions /\ c.insertions = b.insertions
      /\ c.modifications = N /\ c.moves = b.moves /\ c.mapping = b.mapping
  BY <1>1, <1>2, <1>4 DEF Builders
<1> HIDE DEF c
<1> QED
  BY <1>1, <1>2, <1>3, <1>5 DEF TableFollows, BuilderFits, c

LEMMA TableClearFollows ==
    ASSUME NEW s \in Seq(Nat), NEW S, NEW T, NEW n \in Nat, Len(s) <= n
    PROVE  TableFollows([Empty EXCEPT !.deletions = first(n)], s, S, <<>>, T)
<1> DEFINE c == [Empty EXCEPT !.deletions = first(n)]
<1>1. /\ Follows(c, s, S, <<>>, T)
      /\ c.deletions = first(n) /\ c.insertions = {} /\ c.modifications = {}
      /\ c.moves = <<>> /\ c.mapping = NoMapping
  BY ClearFollows
<1> HIDE DEF c
<1>2. Positions(<<>>) = {}
  BY DEF Positions
<1>3. Positions(s) \ c.deletions = {}
  BY <1>1, PositionFacts, FirstIs
<1>4. MappingFits(NoMapping, c.deletions, c.insertions, s, <<>>)
  BY NoMappingIs DEF MappingFits
<1> QED
  BY <1>1, <1>2, <1>3, <1>4 DEF TableFollows, Follows, ModsFit, c

LEMMA TableEmptyFollows ==
    ASSUME NEW t \in Seq(Nat), NEW T
    PROVE  TableFollows(Empty, t, T, t, T)
<1>1. BuilderFits(Empty, t)
  BY EmptyFollows DEF Follows
<1>2. MappingFits(NoMapping, {}, {}, t, t)
  BY NoMappingIs DEF MappingFits
<1> QED
  BY <1>1, <1>2, EmptyIs DEF TableFollows, ModsFit

-----------------------------------------------------------------------------
(* The end of a transaction on a table                                       *)

\* The end of a table's transaction leaves changes like those of a list.
LEMMA ParseFollows ==
    ASSUME NEW b, NEW s \in Seq(Nat), NEW S, NEW t \in Seq(Nat), NEW T, TableFollows(b, s, S, t, T)
    PROVE  Follows(parse_complete(b), s, S, t, T)
<1> DEFINE D == b.deletions
           I == b.insertions
           M == b.modifications
           m == b.mapping
           still == {k \in DOMAIN m : m[k] = k}
           moves == ToSet(b.moves) \cup {Move(m[k], k) : k \in DOMAIN m \ still}
           starts == {x.from : x \in moves}
           froms == Increasing(starts)
           mv == [k \in DOMAIN froms |-> CHOOSE x \in moves : x.from = froms[k]]
           E == D \ still
           J == I \ still
           c == parse_complete(b)
<1>1. /\ b \in Builders /\ IsFiniteSet(D) /\ D \in SUBSET Nat /\ I \in SUBSET Nat
      /\ M \in SUBSET Nat /\ m \in Mappings
      /\ I \subseteq Positions(t) /\ M \subseteq Positions(t)
      /\ Positions(s) \ D = Positions(t) \ I /\ b.moves = <<>>
      /\ Positions(t) \in SUBSET Nat /\ Positions(s) \in SUBSET Nat
  BY TableFacts
<1>2. /\ \A k \in DOMAIN m : k \in I /\ m[k] \in D \cap Positions(s) /\ At0(s, m[k]) = At0(t, k)
      /\ \A k, l \in DOMAIN m : m[k] = m[l] => k = l
  BY DEF TableFollows, MappingFits
<1>3. \A j \in Positions(t) : j \notin I \/ j \in DOMAIN m =>
             (At0(t, j) \in T <=> At0(t, j) \in S \/ j \in M)
  BY DEF TableFollows, ModsFit
<1>4. \A j \in Positions(t) \ I : At0(s, j) = At0(t, j)
  BY DEF TableFollows
<1>5. c = [b EXCEPT !.deletions = E, !.insertions = J, !.moves = mv, !.mapping = NoMapping]
  <2>1. froms = Increasing({x.from : x \in ToSet(b.moves) \cup {Move(b.mapping[k], k) :
                                       k \in DOMAIN b.mapping \ {k \in DOMAIN b.mapping : b.mapping[k] = k}}})
    OBVIOUS
  <2>2. moves = ToSet(b.moves) \cup {Move(b.mapping[k], k) :
                     k \in DOMAIN b.mapping \ {k \in DOMAIN b.mapping : b.mapping[k] = k}}
    OBVIOUS
  <2> HIDE DEF froms, moves
  <2> QED
    BY <2>1, <2>2 DEF parse_complete
<1>6. \A k \in still : k \in DOMAIN m /\ m[k] = k
  OBVIOUS
<1>7. \A k \in DOMAIN m : k \notin still => m[k] # k
  OBVIOUS
<1> HIDE DEF D, I, M, m, c, still
<1>8. moves = {Move(m[k], k) : k \in DOMAIN m \ still}
  <2>1. ToSet(b.moves) = {}
    BY <1>1 DEF ToSet
  <2> QED
    BY <2>1
<1> HIDE DEF moves
<1>9. \A x \in moves : \E j \in DOMAIN m \ still : x = Move(m[j], j) /\ x.from = m[j] /\ x.to = j
  BY <1>8 DEF Move
<1>11. starts \in SUBSET Nat /\ IsFiniteSet(starts)
  <2>1. starts \subseteq D
    BY <1>2, <1>9
  <2> QED
    BY <1>1, <2>1, FS_Subset
<1> HIDE DEF starts
<1>12. /\ DOMAIN froms = 1 .. Cardinality(starts) /\ Cardinality(starts) \in Nat
       /\ \A k \in DOMAIN froms : froms[k] \in starts
       /\ \A x \in starts : \E k \in DOMAIN froms : froms[k] = x
       /\ \A k, l \in DOMAIN froms : k # l => froms[k] # froms[l]
  <2>1. /\ DOMAIN froms = 1 .. Cardinality(starts) /\ Cardinality(starts) \in Nat
        /\ \A k \in DOMAIN froms : froms[k] \in starts
        /\ \A x \in starts : \E k \in DOMAIN froms : froms[k] = x
        /\ \A k, l \in DOMAIN froms : k < l => froms[k] < froms[l]
    BY <1>11, AscendingFacts
  <2> HIDE DEF froms
  <2>2. ASSUME NEW k \in DOMAIN froms, NEW l \in DOMAIN froms, k # l
        PROVE  froms[k] # froms[l]
    <3>1. froms[k] \in Nat /\ froms[l] \in Nat
      BY <1>11, <2>1
    <3>2. k < l \/ l < k
      BY <2>1, <2>2
    <3> QED
      BY <2>1, <3>1, <3>2
  <2> QED
    BY <2>1, <2>2
<1> HIDE DEF froms
<1>13. ASSUME NEW k \in DOMAIN froms
       PROVE  mv[k] \in moves /\ mv[k].from = froms[k]
  <2>1. \E x \in moves : x.from = froms[k]
    BY <1>12 DEF starts
  <2> QED
    BY <2>1
<1>14. mv \in Seq(MoveRecord) /\ DOMAIN mv = DOMAIN froms
  <2>1. ASSUME NEW x \in moves PROVE x \in MoveRecord
    <3>1. PICK j \in DOMAIN m \ still : x = Move(m[j], j)
      BY <1>9
    <3>2. m[j] \in Nat /\ j \in Nat
      BY <1>1, <1>2
    <3> QED
      BY <3>1, <3>2 DEF Move, MoveRecord
  <2>2. \A k \in 1 .. Cardinality(starts) : mv[k] \in MoveRecord
    BY <1>12, <1>13, <2>1
  <2> DEFINE n == Cardinality(starts)
  <2>3. mv \in [1..n -> MoveRecord] /\ n \in Nat
    BY <1>12, <2>2
  <2> HIDE DEF mv, n
  <2> QED
    BY <1>12, <2>3, SMTT(30) DEF n
<1> HIDE DEF mv
<1>15. \A k \in DOMAIN mv : \E j \in DOMAIN m \ still : mv[k].from = m[j] /\ mv[k].to = j
  BY <1>9, <1>13, <1>14
<1>16. \A k, l \in DOMAIN mv : k # l => mv[k].from # mv[l].from
  BY <1>12, <1>13, <1>14
<1>17. E \in SUBSET Nat /\ J \in SUBSET Nat /\ IsFiniteSet(E) /\ J \subseteq Positions(t)
  BY <1>1, FS_Subset
<1>18. Positions(s) \ E = Positions(t) \ J
  <2>1. \A k \in still : k \in D /\ k \in Positions(s) /\ k \in I /\ k \in Positions(t)
    BY <1>1, <1>2, <1>6
  <2> QED
    BY <1>1, <2>1
<1>19. \A x : /\ x \in E <=> x \in D /\ x \notin still
              /\ x \in J <=> x \in I /\ x \notin still
  OBVIOUS
<1> HIDE DEF E, J
<1>20. /\ c \in Builders /\ c.deletions = E /\ c.insertions = J /\ c.modifications = M
       /\ c.moves = mv /\ c.mapping = NoMapping
  <2>1. NoMapping \in Mappings
    BY NoMappingIs
  <2> QED
    BY <1>1, <1>5, <1>14, <1>17, <2>1 DEF Builders, M
<1>21. Same(E, J, s, t)
  <2>1. unshift(E, Len(s)) = unshift(J, Len(t))
    <3>1. Len(s) \in Nat /\ Len(t) \in Nat
      BY PositionFacts
    <3>2. Free(E, Len(s)) = Positions(s) \ E /\ Free(J, Len(t)) = Positions(t) \ J
      BY DEF Free, Positions
    <3>3. /\ unshift(E, Len(s)) = Cardinality(Free(E, Len(s)))
          /\ unshift(J, Len(t)) = Cardinality(Free(J, Len(t)))
      BY <1>17, <3>1, UnshiftIsFree
    <3> QED
      BY <1>18, <3>2, <3>3
  <2>2. ASSUME NEW i \in Positions(s) \ E, NEW j \in Positions(t) \ J, unshift(E, i) = unshift(J, j)
        PROVE  At0(s, i) = At0(t, j)
    <3>1. j \in Nat /\ i \in Nat /\ j \notin E
      BY <1>1, <1>17, <1>18, RowsAgree
    <3>2. \A x \in 0..j : x \in E <=> x \in J
      BY <1>17, <1>18, RowsAgree, SMTT(30)
    <3>3. unshift(J, j) = unshift(E, j)
      <4>1. \A x \in 0..(j - 1) : x \in E <=> x \in J
        BY <3>1, <3>2
      <4> QED
        BY <1>17, <3>1, <4>1, UnshiftSame
    <3>4. i = j
      BY <1>17, <2>2, <3>1, <3>3, UnshiftInjective
    <3>5. CASE j \notin I
      BY <1>4, <3>4, <3>5
    <3>6. CASE j \in I
      <4>1. j \in DOMAIN m /\ m[j] = j
        BY <1>6, <1>19, <3>6
      <4> QED
        BY <1>2, <3>4, <4>1
    <3> QED
      BY <3>5, <3>6
  <2> QED
    BY <2>1, <2>2 DEF Same
<1>22. MovesFit(mv, E, J, s, t)
  <2>1. ASSUME NEW k \in DOMAIN mv
        PROVE  /\ mv[k].from \in E \cap Positions(s) /\ mv[k].to \in J
               /\ At0(s, mv[k].from) = At0(t, mv[k].to)
    <3>1. PICK j \in DOMAIN m \ still : mv[k].from = m[j] /\ mv[k].to = j
      BY <1>15
    <3>2. m[j] \notin still
      BY <1>2, <1>6, <1>7, <3>1
    <3> QED
      BY <1>2, <1>19, <3>1, <3>2
  <2>2. ASSUME NEW k \in DOMAIN mv, NEW l \in DOMAIN mv, k # l
        PROVE  mv[k].from # mv[l].from /\ mv[k].to # mv[l].to
    <3>1. PICK i \in DOMAIN m \ still : mv[k].from = m[i] /\ mv[k].to = i
      BY <1>15
    <3>2. PICK j \in DOMAIN m \ still : mv[l].from = m[j] /\ mv[l].to = j
      BY <1>15
    <3> QED
      BY <1>16, <2>2, <3>1, <3>2
  <2> QED
    BY <2>1, <2>2 DEF MovesFit
<1>23. ModsFit(M, J, Targets(mv), t, S, T)
  <2>1. \A j \in Targets(mv) : j \in DOMAIN m
    BY <1>15 DEF Targets
  <2>2. \A j \in Positions(t) : j \notin J => j \notin I \/ j \in DOMAIN m
    BY <1>6, <1>19
  <2> QED
    BY <1>3, <2>1, <2>2 DEF ModsFit
<1> QED
  BY <1>1, <1>17, <1>20, <1>21, <1>22, <1>23 DEF Follows, BuilderFits, c

-----------------------------------------------------------------------------
(* Stale moves                                                               *)

\* c is what is left of b when its first k moves have been looked at.
Cleaning(c, b, k, s, t) ==
    /\ c \in Builders /\ c.modifications = b.modifications /\ c.mapping = b.mapping
    /\ c.deletions \subseteq b.deletions /\ c.insertions \subseteq b.insertions
    /\ Same(c.deletions, c.insertions, s, t)
    /\ b.insertions \ c.insertions \subseteq Targets(b.moves)
    /\ \A l \in DOMAIN b.moves :
           l > k => b.moves[l].from \in c.deletions /\ b.moves[l].to \in c.insertions
    /\ \A i \in DOMAIN c.moves : \E l \in DOMAIN b.moves :
           /\ l <= k /\ c.moves[i] = b.moves[l]
           /\ c.moves[i].from \in c.deletions /\ c.moves[i].to \in c.insertions
    /\ \A i, j \in DOMAIN c.moves :
           i # j => c.moves[i].from # c.moves[j].from /\ c.moves[i].to # c.moves[j].to

LEMMA CleanMoveType ==
    ASSUME NEW c \in Builders, NEW m \in MoveRecord
    PROVE  CleanMove(c, m) \in Builders
<1> DEFINE E == remove(c.deletions, m.from, 1)
           J == remove(c.insertions, m.to, 1)
           more == Append(c.moves, m)
<1>1. /\ c.deletions \in SUBSET Nat /\ c.insertions \in SUBSET Nat
      /\ c.modifications \in SUBSET Nat /\ c.moves \in Seq(MoveRecord) /\ c.mapping \in Mappings
  BY FieldsOf
<1>2. E \in SUBSET Nat /\ J \in SUBSET Nat
  BY <1>1 DEF remove
<1>3. more \in Seq(MoveRecord)
  BY <1>1, AppendFacts
<1> HIDE DEF E, J, more
<1>4. [c EXCEPT !.deletions = E, !.insertions = J] \in Builders
  BY <1>2 DEF Builders
<1>5. [c EXCEPT !.moves = more] \in Builders
  BY <1>3 DEF Builders
<1>6. CleanMove(c, m) = IF Stale(c, m) THEN [c EXCEPT !.deletions = E, !.insertions = J]
                        ELSE [c EXCEPT !.moves = more]
  BY DEF CleanMove, E, J, more
<1> QED
  BY <1>4, <1>5, <1>6

LEMMA StaleMoveLeaves ==
    ASSUME NEW b \in Builders, NEW s \in Seq(Nat), NEW t \in Seq(Nat),
           MovesFit(b.moves, b.deletions, b.insertions, s, t), b.insertions \subseteq Positions(t),
           NEW k \in DOMAIN b.moves, NEW c, Cleaning(c, b, k - 1, s, t),
           Stale(c, b.moves[k])
    PROVE  Cleaning(CleanMove(c, b.moves[k]), b, k, s, t)
<1> DEFINE m == b.moves[k]
           x == m.from
           y == m.to
           E == c.deletions \ {x}
           J == c.insertions \ {y}
           d == CleanMove(c, m)
<1>1. /\ c \in Builders /\ c.modifications = b.modifications /\ c.mapping = b.mapping
      /\ c.deletions \subseteq b.deletions /\ c.insertions \subseteq b.insertions
      /\ Same(c.deletions, c.insertions, s, t)
      /\ b.insertions \ c.insertions \subseteq Targets(b.moves)
      /\ \A l \in DOMAIN b.moves :
             l > k - 1 => b.moves[l].from \in c.deletions /\ b.moves[l].to \in c.insertions
      /\ \A i \in DOMAIN c.moves : \E l \in DOMAIN b.moves :
             /\ l <= k - 1 /\ c.moves[i] = b.moves[l]
             /\ c.moves[i].from \in c.deletions /\ c.moves[i].to \in c.insertions
      /\ \A i, j \in DOMAIN c.moves :
             i # j => c.moves[i].from # c.moves[j].from /\ c.moves[i].to # c.moves[j].to
  BY DEF Cleaning
<1>2. /\ k \in Nat /\ DOMAIN b.moves \subseteq Nat /\ m \in MoveRecord /\ x \in Nat /\ y \in Nat
  <2>1. b.moves \in Seq(MoveRecord)
    BY FieldsOf
  <2>2. m \in MoveRecord /\ DOMAIN b.moves \subseteq Nat
    BY <2>1, RowsFacts
  <2>3. x \in Nat /\ y \in Nat
    BY <2>2, MoveFields
  <2> QED
    BY <2>2, <2>3
<1>3. c.deletions \in SUBSET Nat /\ c.insertions \in SUBSET Nat
  BY <1>1, FieldsOf
<1>4. x \in c.deletions \cap Positions(s) /\ y \in c.insertions \cap Positions(t)
      /\ At0(s, x) = At0(t, y)
  <2>1. x \in c.deletions /\ y \in c.insertions
    BY <1>1, <1>2
  <2>2. x \in Positions(s) /\ At0(s, x) = At0(t, y)
    BY DEF MovesFit
  <2> QED
    BY <1>1, <2>1, <2>2
<1>5. unshift(c.deletions, x) = unshift(c.insertions, y)
  BY DEF Stale, unshift
<1> HIDE DEF x, y, m
<1>6. Same(E, J, s, t)
  BY <1>1, <1>3, <1>4, <1>5, SameRemovedPair
<1>7. remove(c.deletions, x, 1) = E /\ remove(c.insertions, y, 1) = J
  <2>1. x .. (x + 1 - 1) = {x} /\ y .. (y + 1 - 1) = {y}
    BY <1>2
  <2> QED
    BY <2>1 DEF remove
<1>8. d = [c EXCEPT !.deletions = E, !.insertions = J]
  <2>1. d = [c EXCEPT !.deletions = remove(@, m.from, 1), !.insertions = remove(@, m.to, 1)]
    BY DEF CleanMove, m
  <2> QED
    BY <1>7, <2>1 DEF x, y
<1>9. E \in SUBSET Nat /\ J \in SUBSET Nat
  BY <1>3
<1>10. \A z : (z \in E <=> z \in c.deletions /\ z # x) /\ (z \in J <=> z \in c.insertions /\ z # y)
  OBVIOUS
<1> HIDE DEF E, J, d
<1>11. /\ d \in Builders /\ d.deletions = E /\ d.insertions = J /\ d.modifications = c.modifications
       /\ d.moves = c.moves /\ d.mapping = c.mapping
  BY <1>1, <1>8, <1>9 DEF Builders
<1>12. \A l \in DOMAIN b.moves : l # k => b.moves[l].from # x /\ b.moves[l].to # y
  BY DEF MovesFit, m, x, y
<1>13. ASSUME NEW l \in DOMAIN b.moves, l > k
       PROVE  b.moves[l].from \in d.deletions /\ b.moves[l].to \in d.insertions
  <2>1. l > k - 1 /\ l # k
    BY <1>2, <1>13
  <2> QED
    BY <1>1, <1>10, <1>11, <1>12, <2>1
<1>14. ASSUME NEW i \in DOMAIN d.moves
       PROVE  \E l \in DOMAIN b.moves :
                 /\ l <= k /\ d.moves[i] = b.moves[l]
                 /\ d.moves[i].from \in d.deletions /\ d.moves[i].to \in d.insertions
  <2>1. PICK l \in DOMAIN b.moves :
             /\ l <= k - 1 /\ c.moves[i] = b.moves[l]
             /\ c.moves[i].from \in c.deletions /\ c.moves[i].to \in c.insertions
    BY <1>1, <1>11
  <2>2. l <= k /\ l # k
    BY <1>2, <2>1
  <2> QED
    BY <1>10, <1>11, <1>12, <2>1, <2>2
<1>15. b.insertions \ J \subseteq Targets(b.moves)
  <2>1. y \in Targets(b.moves)
    BY DEF Targets, y, m
  <2> QED
    BY <1>1, <1>10, <2>1
<1>16. E \subseteq b.deletions /\ J \subseteq b.insertions
  BY <1>1, <1>10
<1>17. Cleaning(d, b, k, s, t)
  BY <1>1, <1>6, <1>11, <1>13, <1>14, <1>15, <1>16 DEF Cleaning
<1> QED
  BY <1>17 DEF d, m

LEMMA OtherMoveStays ==
    ASSUME NEW b \in Builders, NEW s \in Seq(Nat), NEW t \in Seq(Nat),
           MovesFit(b.moves, b.deletions, b.insertions, s, t), b.insertions \subseteq Positions(t),
           NEW k \in DOMAIN b.moves, NEW c, Cleaning(c, b, k - 1, s, t),
           ~Stale(c, b.moves[k])
    PROVE  Cleaning(CleanMove(c, b.moves[k]), b, k, s, t)
<1> DEFINE m == b.moves[k]
           n == Len(c.moves)
           more == Append(c.moves, m)
           d == CleanMove(c, m)
<1>1. /\ c \in Builders /\ c.modifications = b.modifications /\ c.mapping = b.mapping
      /\ c.deletions \subseteq b.deletions /\ c.insertions \subseteq b.insertions
      /\ Same(c.deletions, c.insertions, s, t)
      /\ b.insertions \ c.insertions \subseteq Targets(b.moves)
      /\ \A l \in DOMAIN b.moves :
             l > k - 1 => b.moves[l].from \in c.deletions /\ b.moves[l].to \in c.insertions
      /\ \A i \in DOMAIN c.moves : \E l \in DOMAIN b.moves :
             /\ l <= k - 1 /\ c.moves[i] = b.moves[l]
             /\ c.moves[i].from \in c.deletions /\ c.moves[i].to \in c.insertions
      /\ \A i, j \in DOMAIN c.moves :
             i # j => c.moves[i].from # c.moves[j].from /\ c.moves[i].to # c.moves[j].to
  BY DEF Cleaning
<1>2. k \in Nat /\ DOMAIN b.moves \subseteq Nat /\ m \in MoveRecord
  <2>1. b.moves \in Seq(MoveRecord)
    BY FieldsOf
  <2> QED
    BY <2>1, RowsFacts
<1>3. c.moves \in Seq(MoveRecord)
  BY <1>1, FieldsOf
<1>4. m.from \in c.deletions /\ m.to \in c.insertions
  BY <1>1, <1>2
<1>5. \A l \in DOMAIN b.moves : l # k => b.moves[l].from # m.from /\ b.moves[l].to # m.to
  BY DEF MovesFit
<1>6. d = [c EXCEPT !.moves = more]
  BY DEF CleanMove
<1> HIDE DEF m
<1>7. /\ more \in Seq(MoveRecord) /\ n \in Nat /\ DOMAIN c.moves = 1..n /\ DOMAIN more = 1..(n + 1)
      /\ \A i \in DOMAIN c.moves : more[i] = c.moves[i]
      /\ more[n + 1] = m
  <2>1. n \in Nat /\ DOMAIN c.moves = 1..n
    BY <1>3, RowsFacts
  <2>2. more \in Seq(MoveRecord) /\ Len(more) = n + 1 /\ more[n + 1] = m
    BY <1>2, <1>3
  <2>3. \A i \in 1..n : more[i] = c.moves[i]
    BY <1>2, <1>3
  <2>4. DOMAIN more = 1..(n + 1)
    BY <2>2, RowsFacts
  <2> QED
    BY <2>1, <2>2, <2>3, <2>4
<1> HIDE DEF n, more, d
<1>8. \A i \in DOMAIN more : (i \in DOMAIN c.moves /\ more[i] = c.moves[i]) \/ (i = n + 1 /\ more[i] = m)
  BY <1>7
<1>9. /\ d \in Builders /\ d.deletions = c.deletions /\ d.insertions = c.insertions
      /\ d.modifications = c.modifications /\ d.moves = more /\ d.mapping = c.mapping
  BY <1>1, <1>6, <1>7 DEF Builders
<1>10. ASSUME NEW l \in DOMAIN b.moves, l > k
       PROVE  b.moves[l].from \in d.deletions /\ b.moves[l].to \in d.insertions
  <2>1. l > k - 1
    BY <1>2, <1>10
  <2> QED
    BY <1>1, <1>9, <2>1
<1>11. ASSUME NEW i \in DOMAIN more
       PROVE  \E l \in DOMAIN b.moves :
                 /\ l <= k /\ more[i] = b.moves[l]
                 /\ more[i].from \in d.deletions /\ more[i].to \in d.insertions
  <2>1. CASE i \in DOMAIN c.moves /\ more[i] = c.moves[i]
    <3>1. PICK l \in DOMAIN b.moves :
               /\ l <= k - 1 /\ c.moves[i] = b.moves[l]
               /\ c.moves[i].from \in c.deletions /\ c.moves[i].to \in c.insertions
      BY <1>1, <2>1
    <3>2. l <= k
      BY <1>2, <3>1
    <3> QED
      BY <1>9, <2>1, <3>1, <3>2
  <2>2. CASE more[i] = m
    <3>1. k <= k /\ m = b.moves[k]
      BY <1>2 DEF m
    <3> QED
      BY <1>4, <1>9, <2>2, <3>1
  <2> QED
    BY <1>8, <2>1, <2>2
<1>12. ASSUME NEW i \in DOMAIN c.moves
       PROVE  c.moves[i].from # m.from /\ c.moves[i].to # m.to
  <2>1. PICK l \in DOMAIN b.moves : l <= k - 1 /\ c.moves[i] = b.moves[l]
    BY <1>1
  <2>2. l # k
    BY <1>2, <2>1
  <2> QED
    BY <1>5, <2>1, <2>2
<1>13. ASSUME NEW i \in DOMAIN more, NEW j \in DOMAIN more, i # j
       PROVE  more[i].from # more[j].from /\ more[i].to # more[j].to
  BY <1>1, <1>8, <1>12, <1>13
<1>14. Cleaning(d, b, k, s, t)
  BY <1>1, <1>9, <1>10, <1>11, <1>13 DEF Cleaning
<1> QED
  BY <1>14 DEF d, m

\* What clean_up_stale_moves makes of b.
LEMMA CleanedUp ==
    ASSUME NEW b \in Builders, NEW s \in Seq(Nat), NEW t \in Seq(Nat),
           Same(b.deletions, b.insertions, s, t),
           MovesFit(b.moves, b.deletions, b.insertions, s, t), b.insertions \subseteq Positions(t)
    PROVE  Cleaning(clean_up_stale_moves(b), b, Len(b.moves), s, t)
<1> DEFINE moves == b.moves
           n == Len(moves)
           base == [b EXCEPT !.moves = <<>>]
           F == [p \in Builders \X (1..n) |-> CleanMove(p[1], moves[p[2]])]
           Iter(h) == h = [w \in SUBSET DOMAIN moves |->
                              IF w = {} THEN base ELSE CleanMove(h[w \ {Max(w)}], moves[Max(w)])]
           it == CHOOSE h : Iter(h)
<1>1. /\ n \in Nat /\ DOMAIN moves = 1..n /\ \A k \in 1..n : moves[k] \in MoveRecord
  <2>1. moves \in Seq(MoveRecord)
    BY FieldsOf
  <2> QED
    BY <2>1, RowsFacts
<1>2. /\ base \in Builders /\ base.deletions = b.deletions /\ base.insertions = b.insertions
      /\ base.modifications = b.modifications /\ base.mapping = b.mapping /\ base.moves = <<>>
  <2>1. <<>> \in Seq(MoveRecord)
    OBVIOUS
  <2> QED
    BY <2>1 DEF Builders
<1>3. clean_up_stale_moves(b) = it[DOMAIN moves]
  BY DEF clean_up_stale_moves, FoldLeft, MapThenFoldSet
<1> HIDE DEF moves, n, base
<1>4. F \in [Builders \X (1..n) -> Builders]
  BY <1>1, CleanMoveType
<1>5. PICK g : Folds(g, Builders, base, n, F)
  <2> HIDE DEF F
  <2>1. n \in Nat /\ base \in Builders
    BY <1>1, <1>2
  <2> QED
    BY <2>1, <1>4, FoldExists
<1>55. /\ g \in [SUBSET (1..n) -> Builders]
       /\ \A w \in SUBSET (1..n) :
              g[w] = IF w = {} THEN base ELSE F[<<g[w \ {Max(w)}], Max(w)>>]
  BY <1>5 DEF Folds
<1>6. Iter(g)
  <2>1. ASSUME NEW w \in SUBSET (1..n)
        PROVE  g[w] = IF w = {} THEN base ELSE CleanMove(g[w \ {Max(w)}], moves[Max(w)])
    <3>1. CASE w = {}
      BY <1>55, <3>1
    <3>2. CASE w # {}
      <4>1. Max(w) \in 1..n
        BY <1>1, <3>2, LargestOf
      <4>2. g[w \ {Max(w)}] \in Builders
        BY <1>55
      <4>3. F[<<g[w \ {Max(w)}], Max(w)>>] = CleanMove(g[w \ {Max(w)}], moves[Max(w)])
        BY <4>1, <4>2
      <4> HIDE DEF F
      <4> QED
        BY <1>55, <3>2, <4>3
    <3> QED
      BY <3>1, <3>2
  <2>2. g = [w \in SUBSET (1..n) |-> g[w]]
    BY <1>55
  <2>3. g = [w \in SUBSET (1..n) |->
                 IF w = {} THEN base ELSE CleanMove(g[w \ {Max(w)}], moves[Max(w)])]
    BY <2>1, <2>2
  <2> QED
    BY <1>1, <2>3
<1>7. Iter(it)
  BY <1>6
<1> HIDE DEF it
<1>8. \A w \in SUBSET (1..n) :
          it[w] = IF w = {} THEN base ELSE CleanMove(it[w \ {Max(w)}], moves[Max(w)])
  <2>1. it = [w \in SUBSET (1..n) |->
                 IF w = {} THEN base ELSE CleanMove(it[w \ {Max(w)}], moves[Max(w)])]
    BY <1>1, <1>7
  <2> QED
    BY <2>1
<1> HIDE DEF Iter, F
<1>9. it[1..0] = base
  <2>1. 1..0 = {} /\ {} \in SUBSET (1..n)
    OBVIOUS
  <2> QED
    BY <1>8, <2>1
<1>10. ASSUME NEW k \in 1..n
       PROVE  it[1..k] = CleanMove(it[1..(k - 1)], moves[k])
  <2>0. k \in Nat /\ k >= 1 /\ k <= n
    BY <1>1
  <2>1. 1..k \in SUBSET (1..n) /\ 1..k # {} /\ (1..k) \ {k} = 1..(k - 1) /\ k \in 1..k
    <3>1. \A x : x \in (1..k) \ {k} <=> x \in 1..(k - 1)
      BY <2>0
    <3>2. k \in 1..k /\ \A x \in 1..k : x \in 1..n
      BY <1>1, <2>0
    <3> QED
      BY <3>1, <3>2
  <2>2. Max(1..k) = k
    <3>1. \A x \in 1..k : x <= k
      OBVIOUS
    <3> QED
      BY <1>1, <2>1, <3>1, LargestIs
  <2> QED
    BY <1>8, <2>1, <2>2
<1> DEFINE P == [k \in 0..n |-> Cleaning(it[1..k], b, k, s, t)]
<1>11. P[0]
  <2>1. Cleaning(base, b, 0, s, t)
    <3>1. DOMAIN base.moves = {}
      BY <1>2
    <3>2. \A l \in DOMAIN moves : moves[l].from \in b.deletions /\ moves[l].to \in b.insertions
      BY DEF MovesFit, moves
    <3>3. Same(base.deletions, base.insertions, s, t)
      BY <1>2
    <3> QED
      BY <1>2, <3>1, <3>2, <3>3 DEF Cleaning, moves
  <2> QED
    BY <1>1, <1>9, <2>1
<1>12. ASSUME NEW k \in 1..n, P[k - 1]
       PROVE  P[k]
  <2>0. k - 1 \in 0..n /\ k \in 0..n
    BY <1>1
  <2>1. Cleaning(it[1..(k - 1)], b, k - 1, s, t)
    BY <1>12, <2>0
  <2>2. k \in DOMAIN b.moves
    BY <1>1 DEF moves
  <2>3. Cleaning(CleanMove(it[1..(k - 1)], b.moves[k]), b, k, s, t)
    <3>1. MovesFit(b.moves, b.deletions, b.insertions, s, t)
      OBVIOUS
    <3> QED
      BY <2>1, <2>2, <3>1, StaleMoveLeaves, OtherMoveStays
  <2>4. Cleaning(it[1..k], b, k, s, t)
    BY <1>10, <2>3 DEF moves
  <2> QED
    BY <2>0, <2>4
<1>13. P \in [0..n -> BOOLEAN]
  BY DEF Cleaning
<1> HIDE DEF P
<1>14. P[n]
  BY <1>1, <1>11, <1>12, <1>13, StepByStep
<1>15. Cleaning(it[1..n], b, n, s, t)
  BY <1>1, <1>14 DEF P
<1> QED
  BY <1>1, <1>3, <1>15 DEF moves, n

\* The end of a list's transaction.
LEMMA CleanFollows ==
    ASSUME NEW b, NEW s \in Seq(Nat), NEW S, NEW t \in Seq(Nat), NEW T, Follows(b, s, S, t, T)
    PROVE  Follows(clean_up_stale_moves(b), s, S, t, T)
<1> DEFINE c == clean_up_stale_moves(b)
<1>1. /\ b \in Builders /\ IsFiniteSet(b.deletions)
      /\ b.insertions \subseteq Positions(t) /\ b.modifications \subseteq Positions(t)
      /\ Same(b.deletions, b.insertions, s, t)
      /\ MovesFit(b.moves, b.deletions, b.insertions, s, t)
      /\ b.mapping = NoMapping
      /\ ModsFit(b.modifications, b.insertions, Targets(b.moves), t, S, T)
  BY DEF Follows, BuilderFits
<1>2. Cleaning(c, b, Len(b.moves), s, t)
  BY <1>1, CleanedUp
<1> HIDE DEF c
<1>3. /\ c \in Builders /\ c.modifications = b.modifications /\ c.mapping = b.mapping
      /\ c.deletions \subseteq b.deletions /\ c.insertions \subseteq b.insertions
      /\ Same(c.deletions, c.insertions, s, t)
      /\ b.insertions \ c.insertions \subseteq Targets(b.moves)
      /\ \A i \in DOMAIN c.moves : \E l \in DOMAIN b.moves :
             /\ c.moves[i] = b.moves[l]
             /\ c.moves[i].from \in c.deletions /\ c.moves[i].to \in c.insertions
      /\ \A i, j \in DOMAIN c.moves :
             i # j => c.moves[i].from # c.moves[j].from /\ c.moves[i].to # c.moves[j].to
  BY <1>2 DEF Cleaning
<1>4. BuilderFits(c, t)
  BY <1>1, <1>3, FS_Subset DEF BuilderFits
<1>5. MovesFit(c.moves, c.deletions, c.insertions, s, t)
  BY <1>1, <1>3 DEF MovesFit
<1>6. Targets(c.moves) \subseteq Targets(b.moves)
  BY <1>3 DEF Targets
<1>7. ModsFit(c.modifications, c.insertions, Targets(c.moves), t, S, T)
  <2>1. \A j \in Positions(t) : j \notin c.insertions \/ j \in Targets(c.moves) =>
                                    j \notin b.insertions \/ j \in Targets(b.moves)
    BY <1>3, <1>6
  <2> QED
    BY <1>1, <1>3, <2>1 DEF ModsFit
<1> QED
  BY <1>1, <1>3, <1>4, <1>5, <1>7 DEF Follows, c

-----------------------------------------------------------------------------
(* Merging                                                                   *)

\* What stays from s to t and from t to u stays from s to u.
LEMMA SameMerged ==
    ASSUME NEW D \in SUBSET Nat, NEW I \in SUBSET Nat, IsFiniteSet(D), IsFiniteSet(I),
           NEW E \in SUBSET Nat, NEW J \in SUBSET Nat, IsFiniteSet(E), IsFiniteSet(J),
           NEW s \in Seq(Nat), NEW t \in Seq(Nat), NEW u \in Seq(Nat),
           Same(D, I, s, t), Same(E, J, t, u)
    PROVE  Same(MissingToo(I, D, E), MissingToo(E, J, I), s, u)
<1> DEFINE B == I \cup E
           R == MissingToo(I, D, E)
           Q == MissingToo(E, J, I)
<1>1. Placed(R, s, B, t)
  BY PlaceThrough
<1>2. Same(J, E, u, t) /\ E \cup I = B
  BY SameTurned
<1>3. Placed(Q, u, B, t)
  <2>1. Placed(Q, u, E \cup I, t)
    BY <1>2, PlaceThrough
  <2> HIDE DEF B, Q
  <2> QED
    BY <1>2, <2>1
<1>4. B \in SUBSET Nat /\ Positions(t) \in SUBSET Nat /\ \A v : v \in B <=> v \in I \/ v \in E
  BY PositionFacts
<1> HIDE DEF B, R, Q
<1>5. ASSUME NEW i \in Positions(s) \ R, NEW j \in Positions(u) \ Q, unshift(R, i) = unshift(Q, j)
      PROVE  At0(s, i) = At0(u, j)
  <2>1. PICK v \in Positions(t) :
             v \notin B /\ At0(s, i) = At0(t, v) /\ unshift(R, i) = unshift(B, v)
    BY <1>1 DEF Placed
  <2>2. PICK w \in Positions(t) :
             w \notin B /\ At0(u, j) = At0(t, w) /\ unshift(Q, j) = unshift(B, w)
    BY <1>3 DEF Placed
  <2>3. v \in Nat /\ w \in Nat /\ v \notin B /\ w \notin B /\ unshift(B, v) = unshift(B, w)
    BY <1>4, <1>5, <2>1, <2>2
  <2>4. v = w
    BY <1>4, <2>3, UnshiftInjective
  <2> QED
    BY <2>1, <2>2, <2>4
<1> QED
  BY <1>1, <1>3, <1>5 DEF Same, Placed, R, Q

-----------------------------------------------------------------------------
(* Moves followed from one change set to the next                            *)

MovesDiffer(moves) ==
    \A k, l \in DOMAIN moves : k # l => moves[k].from # moves[l].from /\ moves[k].to # moves[l].to

LEMMA FollowsFacts ==
    ASSUME NEW b, NEW s \in Seq(Nat), NEW S, NEW t \in Seq(Nat), NEW T, Follows(b, s, S, t, T)
    PROVE  /\ b \in Builders /\ b.deletions \in SUBSET Nat /\ b.insertions \in SUBSET Nat
           /\ IsFiniteSet(b.deletions) /\ IsFiniteSet(b.insertions)
           /\ b.insertions \subseteq Positions(t)
           /\ b.modifications \in SUBSET Nat /\ b.modifications \subseteq Positions(t)
           /\ b.moves \in Seq(MoveRecord) /\ MovesDiffer(b.moves)
           /\ MovesFit(b.moves, b.deletions, b.insertions, s, t)
           /\ Same(b.deletions, b.insertions, s, t)
           /\ b.mapping = NoMapping
           /\ ModsFit(b.modifications, b.insertions, Targets(b.moves), t, S, T)
<1>1. b \in Builders /\ IsFiniteSet(b.deletions)
      /\ b.insertions \subseteq Positions(t) /\ b.modifications \subseteq Positions(t)
  BY DEF Follows, BuilderFits
<1>2. IsFiniteSet(b.insertions)
  <2>1. IsFiniteSet(Positions(t))
    BY PositionFacts
  <2> QED
    BY <1>1, <2>1, FS_Subset
<1>3. /\ b.deletions \in SUBSET Nat /\ b.insertions \in SUBSET Nat
      /\ b.modifications \in SUBSET Nat /\ b.moves \in Seq(MoveRecord)
  BY <1>1, FieldsOf
<1>4. /\ MovesFit(b.moves, b.deletions, b.insertions, s, t)
      /\ Same(b.deletions, b.insertions, s, t)
      /\ b.mapping = NoMapping
      /\ ModsFit(b.modifications, b.insertions, Targets(b.moves), t, S, T)
  BY DEF Follows
<1>5. MovesDiffer(b.moves)
  BY <1>4 DEF MovesFit, MovesDiffer
<1> QED
  BY <1>1, <1>2, <1>3, <1>4, <1>5

LEMMA MoveFromIs ==
    ASSUME NEW moves \in Seq(MoveRecord), NEW i
    PROVE  \/ /\ MoveFrom(moves, i) = 0
              /\ \A q \in DOMAIN moves : moves[q].from # i
           \/ /\ MoveFrom(moves, i) # 0
              /\ MoveFrom(moves, i) \in DOMAIN moves
              /\ moves[MoveFrom(moves, i)].from = i
<1> DEFINE K == {q \in 1..Len(moves) : moves[q].from = i}
<1>1. Len(moves) \in Nat /\ DOMAIN moves = 1..Len(moves)
  BY RowsFacts
<1>2. MoveFrom(moves, i) = IF K # {} THEN Min(K) ELSE 0
  BY DEF MoveFrom, SelectInSeq
<1>3. CASE K = {}
  BY <1>1, <1>2, <1>3
<1>4. CASE K # {}
  <2>1. K \in SUBSET Nat /\ 0 \notin K
    BY <1>1
  <2>2. PICK x \in K : \A y \in K : x <= y
    BY <1>4, <2>1, LeastNatural
  <2> DEFINE m == Min(K)
  <2>3. m \in K
    BY <2>2 DEF Min
  <2>4. MoveFrom(moves, i) = m
    BY <1>2, <1>4
  <2> HIDE DEF m
  <2>5. m \in DOMAIN moves /\ moves[m].from = i /\ m # 0
    BY <1>1, <2>1, <2>3
  <2> QED
    BY <2>4, <2>5
<1> QED
  BY <1>3, <1>4

\* less is moves without the one at k.
LeftBy(less, moves, k) ==
    /\ less \in Seq(MoveRecord) /\ DOMAIN less = 1..(Len(moves) - 1)
    /\ \A i \in DOMAIN less : less[i] = moves[IF i = k THEN Len(moves) ELSE i]

LEMMA TakenOutIs ==
    ASSUME NEW moves \in Seq(MoveRecord), NEW k \in DOMAIN moves
    PROVE  LeftBy(TakenOut(moves, k), moves, k)
<1> DEFINE n == Len(moves)
           v == moves[n]
           other == [moves EXCEPT ![k] = v]
           less == TakenOut(moves, k)
<1>1. /\ n \in Nat /\ DOMAIN moves = 1..n /\ k \in 1..n /\ n \in 1..n
      /\ \A i \in 1..n : moves[i] \in MoveRecord
  BY RowsFacts
<1>2. v \in MoveRecord
  BY <1>1
<1>3. less = RemoveAt(other, n)
  BY DEF TakenOut, ReplaceAt, Last
<1> HIDE DEF v, less
<1>4. /\ other \in Seq(MoveRecord) /\ Len(other) = n
      /\ \A i \in 1..n : other[i] = IF i = k THEN v ELSE moves[i]
  BY <1>2, ReplaceFacts
<1> HIDE DEF other
<1>5. n \in DOMAIN other
  BY <1>1, <1>4, RowsFacts
<1>6. /\ RemoveAt(other, n) \in Seq(MoveRecord)
      /\ Len(RemoveAt(other, n)) = n - 1
      /\ \A i \in 1..(n - 1) : RemoveAt(other, n)[i] = IF i < n THEN other[i] ELSE other[i + 1]
  BY <1>4, <1>5, RemoveAtRows
<1>7. less \in Seq(MoveRecord) /\ Len(less) = n - 1
  BY <1>3, <1>6
<1>8. DOMAIN less = 1..(n - 1)
  BY <1>7, RowsFacts
<1>9. ASSUME NEW i \in 1..(n - 1)
      PROVE  less[i] = moves[IF i = k THEN n ELSE i]
  <2>1. i < n /\ i \in 1..n
    BY <1>1
  <2>2. less[i] = other[i]
    BY <1>3, <1>6, <2>1
  <2> QED
    BY <1>4, <2>1, <2>2 DEF v
<1> QED
  BY <1>7, <1>8, <1>9 DEF LeftBy, less

\* Row v is row j after the changes c.
Goes(c, v, j) ==
    \/ v \notin c.deletions /\ j = Through(c.deletions, c.insertions)[v]
    \/ \E q \in DOMAIN c.moves : c.moves[q].from = v /\ c.moves[q].to = j

LEMMA GoesOnce ==
    ASSUME NEW c, NEW t \in Seq(Nat), NEW T, NEW u \in Seq(Nat), NEW U, Follows(c, t, T, u, U),
           NEW v \in Nat, NEW w \in Nat, NEW i, NEW j, Goes(c, v, i), Goes(c, w, j), v # w
    PROVE  i # j
<1> DEFINE f == Through(c.deletions, c.insertions)
<1>1. /\ c.deletions \in SUBSET Nat /\ c.insertions \in SUBSET Nat
      /\ IsFiniteSet(c.deletions) /\ IsFiniteSet(c.insertions)
      /\ MovesFit(c.moves, c.deletions, c.insertions, t, u)
  BY FollowsFacts
<1>2. /\ f \in [Nat \ c.deletions -> Nat \ c.insertions]
      /\ \A x, y \in Nat \ c.deletions : f[x] = f[y] => x = y
  BY <1>1, ThroughFacts
<1> HIDE DEF f
<1>3. /\ \A q \in DOMAIN c.moves : c.moves[q].to \in c.insertions
      /\ \A q, r \in DOMAIN c.moves : c.moves[q].to = c.moves[r].to => q = r
  BY <1>1 DEF MovesFit
<1>4. /\ \/ v \notin c.deletions /\ i = f[v]
         \/ \E q \in DOMAIN c.moves : c.moves[q].from = v /\ c.moves[q].to = i
      /\ \/ w \notin c.deletions /\ j = f[w]
         \/ \E q \in DOMAIN c.moves : c.moves[q].from = w /\ c.moves[q].to = j
  BY DEF Goes, f
<1> QED
  BY <1>2, <1>3, <1>4

LEMMA GoesTo ==
    ASSUME NEW c, NEW t \in Seq(Nat), NEW T, NEW u \in Seq(Nat), NEW U, Follows(c, t, T, u, U),
           NEW v \in Positions(t), NEW j, Goes(c, v, j)
    PROVE  j \in Positions(u) /\ At0(u, j) = At0(t, v)
<1> DEFINE f == Through(c.deletions, c.insertions)
<1>1. /\ c.deletions \in SUBSET Nat /\ c.insertions \in SUBSET Nat
      /\ IsFiniteSet(c.deletions) /\ IsFiniteSet(c.insertions)
      /\ MovesFit(c.moves, c.deletions, c.insertions, t, u) /\ c.insertions \subseteq Positions(u)
      /\ Same(c.insertions, c.deletions, u, t)
  BY FollowsFacts, SameTurned
<1>2. \A x \in Positions(t) \ c.deletions :
          f[x] \in Positions(u) \ c.insertions /\ At0(u, f[x]) = At0(t, x)
  BY <1>1, ThroughSame
<1> HIDE DEF f
<1>3. CASE v \notin c.deletions /\ j = f[v]
  BY <1>2, <1>3
<1>4. CASE \E q \in DOMAIN c.moves : c.moves[q].from = v /\ c.moves[q].to = j
  BY <1>1, <1>4 DEF MovesFit
<1> QED
  BY <1>3, <1>4 DEF Goes, f

-----------------------------------------------------------------------------
(* The fold over the older moves                                             *)

MergeStates == [old : Seq(MoveRecord), moves : Seq(MoveRecord), modified : SUBSET Nat]

\* What MergeMove makes of a.
MergedBy(d, a, b, c, m) ==
    \/ \E k \in DOMAIN a.moves :
          /\ a.moves[k].from = m.to
          /\ d.old = Append(a.old, Move(m.from, a.moves[k].to))
          /\ LeftBy(d.moves, a.moves, k)
          /\ d.modified = IF m.to \in b.modifications THEN add(a.modified, a.moves[k].to)
                          ELSE a.modified
    \/ /\ \A q \in DOMAIN a.moves : a.moves[q].from # m.to
       /\ IF m.to \in c.deletions THEN d = a
          ELSE /\ d.old = Append(a.old, Move(m.from, Through(c.deletions, c.insertions)[m.to]))
               /\ d.moves = a.moves /\ d.modified = a.modified

LEMMA MergeStateIs ==
    ASSUME NEW older \in Seq(MoveRecord), NEW moves \in Seq(MoveRecord), NEW N \in SUBSET Nat
    PROVE  [old |-> older, moves |-> moves, modified |-> N] \in MergeStates
BY DEF MergeStates

LEMMA MergeMoveIs ==
    ASSUME NEW b \in Builders, NEW c \in Builders,
           IsFiniteSet(c.deletions), IsFiniteSet(c.insertions),
           NEW a \in MergeStates, NEW m \in MoveRecord
    PROVE  /\ MergeMove(b, c, a, m) \in MergeStates
           /\ MergedBy(MergeMove(b, c, a, m), a, b, c, m)
<1> DEFINE d == MergeMove(b, c, a, m)
           k == MoveFrom(a.moves, m.to)
           z == a.moves[k].to
           followed == Append(a.old, Move(m.from, z))
           less == TakenOut(a.moves, k)
           N == IF m.to \in b.modifications THEN add(a.modified, z) ELSE a.modified
           y == shift(c.insertions, unshift(c.deletions, m.to))
           shifted == Append(a.old, Move(m.from, y))
<1>1. a.old \in Seq(MoveRecord) /\ a.moves \in Seq(MoveRecord) /\ a.modified \in SUBSET Nat
  BY DEF MergeStates
<1>2. m.from \in Nat /\ m.to \in Nat
  BY MoveFields
<1>3. \/ k = 0 /\ (\A q \in DOMAIN a.moves : a.moves[q].from # m.to)
      \/ k # 0 /\ k \in DOMAIN a.moves /\ a.moves[k].from = m.to
  BY <1>1, MoveFromIs
<1>4. d = IF k # 0
          THEN [old |-> followed, moves |-> less,
                modified |-> IF a.moves[k].from \in b.modifications THEN add(a.modified, z)
                             ELSE a.modified]
          ELSE IF m.to \in c.deletions THEN a
          ELSE [a EXCEPT !.old = shifted]
  BY DEF MergeMove
<1> HIDE DEF d, k
<1>5. CASE k # 0 /\ k \in DOMAIN a.moves /\ a.moves[k].from = m.to
  <2>1. z \in Nat
    <3>1. a.moves[k] \in MoveRecord
      BY <1>1, <1>5, RowsFacts
    <3> QED
      BY <3>1, MoveFields
  <2>2. followed \in Seq(MoveRecord)
    <3>1. Move(m.from, z) \in MoveRecord
      BY <1>2, <2>1, MoveIs
    <3> QED
      BY <1>1, <3>1, AppendFacts
  <2>3. LeftBy(less, a.moves, k)
    BY <1>1, <1>5, TakenOutIs
  <2>4. less \in Seq(MoveRecord)
    BY <2>3 DEF LeftBy
  <2>5. N \in SUBSET Nat
    BY <1>1, <2>1 DEF add
  <2>6. d = [old |-> followed, moves |-> less, modified |-> N]
    BY <1>4, <1>5
  <2>7. N = IF m.to \in b.modifications THEN add(a.modified, z) ELSE a.modified
    OBVIOUS
  <2>8. followed = Append(a.old, Move(m.from, a.moves[k].to)) /\ z = a.moves[k].to
    OBVIOUS
  <2> HIDE DEF z, followed, less, N
  <2>9. d.old = followed /\ d.moves = less /\ d.modified = N /\ d \in MergeStates
    BY <2>2, <2>4, <2>5, <2>6, MergeStateIs
  <2>10. \E l \in DOMAIN a.moves :
          /\ a.moves[l].from = m.to
          /\ d.old = Append(a.old, Move(m.from, a.moves[l].to))
          /\ LeftBy(d.moves, a.moves, l)
          /\ d.modified = IF m.to \in b.modifications THEN add(a.modified, a.moves[l].to)
                          ELSE a.modified
    BY <1>5, <2>3, <2>7, <2>8, <2>9
  <2> QED
    BY <2>9, <2>10 DEF d, MergedBy
<1>6. CASE k = 0 /\ \A q \in DOMAIN a.moves : a.moves[q].from # m.to
  <2>1. CASE m.to \in c.deletions
    <3>1. d = a
      BY <1>4, <1>6, <2>1
    <3> QED
      BY <1>6, <2>1, <3>1 DEF d, MergedBy
  <2>2. CASE m.to \notin c.deletions
    <3>1. c.deletions \in SUBSET Nat /\ c.insertions \in SUBSET Nat
      BY FieldsOf
    <3>2. y = Through(c.deletions, c.insertions)[m.to] /\ y \in Nat
      <4>1. Through(c.deletions, c.insertions)[m.to] = y
        BY <1>2, <2>2 DEF Through
      <4>2. Through(c.deletions, c.insertions) \in [Nat \ c.deletions -> Nat \ c.insertions]
        BY <3>1, ThroughFacts
      <4> HIDE DEF y
      <4> QED
        BY <1>2, <2>2, <4>1, <4>2
    <3> HIDE DEF y
    <3>3. shifted \in Seq(MoveRecord)
      <4>1. Move(m.from, y) \in MoveRecord
        BY <1>2, <3>2, MoveIs
      <4> QED
        BY <1>1, <4>1, AppendFacts
    <3>4. d = [a EXCEPT !.old = shifted]
      BY <1>4, <1>6, <2>2
    <3>5. shifted = Append(a.old, Move(m.from, Through(c.deletions, c.insertions)[m.to]))
      BY <3>2
    <3> HIDE DEF shifted
    <3>6. d \in MergeStates /\ d.old = shifted /\ d.moves = a.moves /\ d.modified = a.modified
      BY <3>3, <3>4 DEF MergeStates
    <3> QED
      BY <1>6, <2>2, <3>5, <3>6 DEF d, MergedBy
  <2> QED
    BY <2>1, <2>2
<1> QED
  BY <1>3, <1>5, <1>6

LEMMA LeftByFacts ==
    ASSUME NEW moves \in Seq(MoveRecord), NEW k \in DOMAIN moves, NEW less, LeftBy(less, moves, k)
    PROVE  /\ \A i \in DOMAIN less : \E j \in DOMAIN moves \ {k} : less[i] = moves[j]
           /\ \A j \in DOMAIN moves \ {k} : \E i \in DOMAIN less : less[i] = moves[j]
           /\ MovesDiffer(moves) => MovesDiffer(less)
<1> DEFINE n == Len(moves)
           at(i) == IF i = k THEN n ELSE i
<1>1. n \in Nat /\ DOMAIN moves = 1..n /\ k \in 1..n
  BY RowsFacts
<1>2. DOMAIN less = 1..(n - 1) /\ \A i \in DOMAIN less : less[i] = moves[at(i)]
  BY DEF LeftBy
<1> HIDE DEF n
<1>3. \A i \in 1..(n - 1) : at(i) \in 1..n /\ at(i) # k
  BY <1>1
<1>4. \A i, j \in 1..(n - 1) : i # j => at(i) # at(j)
  BY <1>1
<1>5. ASSUME NEW j \in (1..n) \ {k}
      PROVE  \E i \in 1..(n - 1) : at(i) = j
  <2>1. CASE j = n
    <3>1. k \in 1..(n - 1) /\ at(k) = j
      BY <1>1, <1>5, <2>1
    <3> QED
      BY <3>1
  <2>2. CASE j # n
    <3>1. j \in 1..(n - 1)
      BY <1>1, <2>2
    <3>2. at(j) = j
      OBVIOUS
    <3> QED
      BY <3>1, <3>2
  <2> QED
    BY <2>1, <2>2
<1> HIDE DEF at
<1>6. \A i \in DOMAIN less : \E j \in DOMAIN moves \ {k} : less[i] = moves[j]
  BY <1>1, <1>2, <1>3
<1>7. \A j \in DOMAIN moves \ {k} : \E i \in DOMAIN less : less[i] = moves[j]
  BY <1>1, <1>2, <1>5
<1>8. ASSUME NEW i \in DOMAIN less, NEW j \in DOMAIN less, i # j
      PROVE  \E v, w \in DOMAIN moves : v # w /\ less[i] = moves[v] /\ less[j] = moves[w]
  <2>1. at(i) \in DOMAIN moves /\ at(j) \in DOMAIN moves /\ at(i) # at(j)
    BY <1>1, <1>2, <1>3, <1>4, <1>8
  <2> QED
    BY <1>2, <2>1
<1>9. ASSUME MovesDiffer(moves), NEW i \in DOMAIN less, NEW j \in DOMAIN less, i # j
      PROVE  less[i].from # less[j].from /\ less[i].to # less[j].to
  BY <1>8, <1>9 DEF MovesDiffer
<1>10. MovesDiffer(moves) => MovesDiffer(less)
  BY <1>9 DEF MovesDiffer
<1> QED
  BY <1>6, <1>7, <1>10

\* One of the first k moves of b goes to x.
Reached(b, k, x) == \E l \in DOMAIN b.moves : l <= k /\ b.moves[l].to = x

\* The moves of b, of those looked at, that go on through c.
OldFits(older, b, c, k) ==
    /\ \A i \in DOMAIN older : \E l \in DOMAIN b.moves :
           l <= k /\ older[i].from = b.moves[l].from /\ Goes(c, b.moves[l].to, older[i].to)
    /\ \A i, j \in DOMAIN older : i # j => older[i].from # older[j].from

\* The moves of c that go on from none of them.
NewerFits(moves, b, c, k) ==
    /\ \A i \in DOMAIN moves : \E q \in DOMAIN c.moves :
           moves[i] = c.moves[q] /\ ~Reached(b, k, c.moves[q].from)
    /\ MovesDiffer(moves)
    /\ \A q \in DOMAIN c.moves :
           ~Reached(b, k, c.moves[q].from) => \E i \in DOMAIN moves : moves[i] = c.moves[q]

\* Modifications of c, and those of b that moved on.
ModifiedFits(N, b, c, k) ==
    \A x : x \in N <=> \/ x \in c.modifications
                       \/ \E q \in DOMAIN c.moves :
                             /\ Reached(b, k, c.moves[q].from)
                             /\ c.moves[q].from \in b.modifications
                             /\ c.moves[q].to = x

\* What merge has collected after k of the older moves.
Merging(a, b, c, k) ==
    /\ a \in MergeStates
    /\ OldFits(a.old, b, c, k)
    /\ NewerFits(a.moves, b, c, k)
    /\ ModifiedFits(a.modified, b, c, k)

LEMMA ReachedNext ==
    ASSUME NEW b \in Builders, NEW k \in DOMAIN b.moves, NEW x
    PROVE  Reached(b, k, x) <=> Reached(b, k - 1, x) \/ b.moves[k].to = x
<1>1. DOMAIN b.moves \subseteq Nat
  BY FieldsOf, RowsFacts
<1>2. \A l \in DOMAIN b.moves : l <= k <=> l <= k - 1 \/ l = k
  BY <1>1
<1> QED
  BY <1>2 DEF Reached

LEMMA OldSame ==
    ASSUME NEW b \in Builders, NEW k \in DOMAIN b.moves, NEW c, NEW older, OldFits(older, b, c, k - 1)
    PROVE  OldFits(older, b, c, k)
<1>1. DOMAIN b.moves \subseteq Nat
  BY FieldsOf, RowsFacts
<1>2. \A l \in DOMAIN b.moves : l <= k - 1 => l <= k
  BY <1>1
<1> QED
  BY <1>2 DEF OldFits

LEMMA OldLonger ==
    ASSUME NEW b \in Builders, MovesDiffer(b.moves), NEW k \in DOMAIN b.moves, NEW c,
           NEW older \in Seq(MoveRecord), OldFits(older, b, c, k - 1),
           NEW j \in Nat, Goes(c, b.moves[k].to, j)
    PROVE  OldFits(Append(older, Move(b.moves[k].from, j)), b, c, k)
<1> DEFINE m == Move(b.moves[k].from, j)
           more == Append(older, m)
           n == Len(older)
<1>1. DOMAIN b.moves \subseteq Nat /\ b.moves[k] \in MoveRecord
  BY FieldsOf, RowsFacts
<1>2. b.moves[k].from \in Nat
  BY <1>1, MoveFields
<1>3. m \in MoveRecord /\ m.from = b.moves[k].from /\ m.to = j
  BY <1>2, MoveIs
<1> HIDE DEF m
<1>4. /\ n \in Nat /\ DOMAIN older = 1..n /\ DOMAIN more = 1..(n + 1)
      /\ \A i \in 1..n : more[i] = older[i]
      /\ more[n + 1] = m
  <2>1. n \in Nat /\ DOMAIN older = 1..n
    BY RowsFacts
  <2>2. more \in Seq(MoveRecord) /\ Len(more) = n + 1 /\ more[n + 1] = m
    BY <1>3
  <2>3. \A i \in 1..n : more[i] = older[i]
    BY <1>3
  <2>4. DOMAIN more = 1..(n + 1)
    BY <2>2, RowsFacts
  <2> QED
    BY <2>1, <2>2, <2>3, <2>4
<1> HIDE DEF n, more
<1>5. \A i \in DOMAIN more : (i \in DOMAIN older /\ more[i] = older[i]) \/ (i = n + 1 /\ more[i] = m)
  BY <1>4
<1>6. OldFits(older, b, c, k)
  BY OldSame
<1>7. k <= k
  BY <1>1
<1>8. ASSUME NEW i \in DOMAIN more
      PROVE  \E l \in DOMAIN b.moves :
                 l <= k /\ more[i].from = b.moves[l].from /\ Goes(c, b.moves[l].to, more[i].to)
  BY <1>3, <1>5, <1>6, <1>7 DEF OldFits
<1>9. ASSUME NEW i \in DOMAIN older
      PROVE  older[i].from # m.from
  <2>1. PICK l \in DOMAIN b.moves : l <= k - 1 /\ older[i].from = b.moves[l].from
    BY DEF OldFits
  <2>2. l # k
    BY <1>1, <2>1
  <2> QED
    BY <1>3, <2>1, <2>2 DEF MovesDiffer
<1>10. ASSUME NEW i \in DOMAIN more, NEW l \in DOMAIN more, i # l
       PROVE  more[i].from # more[l].from
  BY <1>5, <1>6, <1>9, <1>10 DEF OldFits
<1>11. OldFits(more, b, c, k)
  BY <1>8, <1>10 DEF OldFits
<1> QED
  BY <1>11 DEF more, m

LEMMA MergeMoveFollowed ==
    ASSUME NEW b \in Builders, NEW c \in Builders, MovesDiffer(b.moves), MovesDiffer(c.moves),
           NEW k \in DOMAIN b.moves, NEW a, Merging(a, b, c, k - 1), NEW d \in MergeStates,
           NEW p \in DOMAIN a.moves, a.moves[p].from = b.moves[k].to,
           d.old = Append(a.old, Move(b.moves[k].from, a.moves[p].to)),
           LeftBy(d.moves, a.moves, p),
           d.modified = IF b.moves[k].to \in b.modifications THEN add(a.modified, a.moves[p].to)
                        ELSE a.modified
    PROVE  Merging(d, b, c, k)
<1> DEFINE x == b.moves[k].to
<1>1. a.old \in Seq(MoveRecord) /\ a.moves \in Seq(MoveRecord)
  BY DEF Merging, MergeStates
<1>2. /\ OldFits(a.old, b, c, k - 1) /\ NewerFits(a.moves, b, c, k - 1)
      /\ ModifiedFits(a.modified, b, c, k - 1)
  BY DEF Merging
<1>3. PICK q \in DOMAIN c.moves : a.moves[p] = c.moves[q] /\ ~Reached(b, k - 1, c.moves[q].from)
  BY <1>2 DEF NewerFits
<1>4. a.moves[p].to \in Nat
  <2>1. a.moves[p] \in MoveRecord
    BY <1>1, RowsFacts
  <2> QED
    BY <2>1, MoveFields
<1>5. OldFits(d.old, b, c, k)
  <2>1. Goes(c, b.moves[k].to, a.moves[p].to)
    BY <1>3 DEF Goes
  <2> QED
    BY <1>1, <1>2, <1>4, <2>1, OldLonger
<1>6. \A y : Reached(b, k, y) <=> Reached(b, k - 1, y) \/ x = y
  BY ReachedNext
<1>7. \A r \in DOMAIN c.moves : c.moves[r].from = x <=> r = q
  BY <1>3 DEF MovesDiffer
<1>8. /\ \A i \in DOMAIN d.moves : \E j \in DOMAIN a.moves \ {p} : d.moves[i] = a.moves[j]
      /\ \A j \in DOMAIN a.moves \ {p} : \E i \in DOMAIN d.moves : d.moves[i] = a.moves[j]
      /\ MovesDiffer(d.moves)
  <2>1. \A i \in DOMAIN d.moves : \E j \in DOMAIN a.moves \ {p} : d.moves[i] = a.moves[j]
    BY <1>1, LeftByFacts
  <2>2. \A j \in DOMAIN a.moves \ {p} : \E i \in DOMAIN d.moves : d.moves[i] = a.moves[j]
    BY <1>1, LeftByFacts
  <2>3. MovesDiffer(d.moves)
    <3>1. MovesDiffer(a.moves)
      BY <1>2 DEF NewerFits
    <3> QED
      BY <1>1, <3>1, LeftByFacts
  <2> QED
    BY <2>1, <2>2, <2>3
<1> HIDE DEF x
<1>9. NewerFits(d.moves, b, c, k)
  <2>1. ASSUME NEW i \in DOMAIN d.moves
        PROVE  \E r \in DOMAIN c.moves : d.moves[i] = c.moves[r] /\ ~Reached(b, k, c.moves[r].from)
    <3>1. PICK j \in DOMAIN a.moves \ {p} : d.moves[i] = a.moves[j]
      BY <1>8
    <3>2. a.moves[j].from # a.moves[p].from
      BY <1>2, <3>1 DEF NewerFits, MovesDiffer
    <3>3. PICK r \in DOMAIN c.moves :
               a.moves[j] = c.moves[r] /\ ~Reached(b, k - 1, c.moves[r].from)
      BY <1>2, <3>1 DEF NewerFits
    <3> QED
      BY <1>6, <3>1, <3>2, <3>3 DEF x
  <2>3. ASSUME NEW r \in DOMAIN c.moves, ~Reached(b, k, c.moves[r].from)
        PROVE  \E i \in DOMAIN d.moves : d.moves[i] = c.moves[r]
    <3>1. ~Reached(b, k - 1, c.moves[r].from) /\ c.moves[r].from # x
      BY <1>6, <2>3
    <3>2. PICK j \in DOMAIN a.moves : a.moves[j] = c.moves[r]
      BY <1>2, <3>1 DEF NewerFits, MovesDiffer
    <3>3. j # p
      BY <3>1, <3>2 DEF x
    <3> QED
      BY <1>8, <3>2, <3>3
  <2> QED
    BY <1>8, <2>1, <2>3 DEF NewerFits
<1>10. ModifiedFits(d.modified, b, c, k)
  <2>1. SUFFICES ASSUME NEW y
                 PROVE  y \in d.modified <=>
                          \/ y \in c.modifications
                          \/ \E r \in DOMAIN c.moves :
                                /\ Reached(b, k, c.moves[r].from)
                                /\ c.moves[r].from \in b.modifications
                                /\ c.moves[r].to = y
    BY DEF ModifiedFits
  <2>2. y \in a.modified <=> \/ y \in c.modifications
                             \/ \E r \in DOMAIN c.moves :
                                   /\ Reached(b, k - 1, c.moves[r].from)
                                   /\ c.moves[r].from \in b.modifications
                                   /\ c.moves[r].to = y
    BY <1>2 DEF ModifiedFits
  <2>3. y \in d.modified <=> y \in a.modified \/ (x \in b.modifications /\ y = c.moves[q].to)
    BY <1>3 DEF add, x
  <2>4. (\E r \in DOMAIN c.moves : /\ Reached(b, k, c.moves[r].from)
                                   /\ c.moves[r].from \in b.modifications
                                   /\ c.moves[r].to = y)
        <=> \/ \E r \in DOMAIN c.moves :
                  /\ Reached(b, k - 1, c.moves[r].from)
                  /\ c.moves[r].from \in b.modifications
                  /\ c.moves[r].to = y
            \/ (x \in b.modifications /\ y = c.moves[q].to)
    BY <1>6, <1>7
  <2> QED
    BY <2>2, <2>3, <2>4
<1> QED
  BY <1>5, <1>9, <1>10 DEF Merging

LEMMA MergeMoveOther ==
    ASSUME NEW b \in Builders, NEW c \in Builders, MovesDiffer(b.moves),
           IsFiniteSet(c.deletions), IsFiniteSet(c.insertions),
           NEW k \in DOMAIN b.moves, NEW a, Merging(a, b, c, k - 1), NEW d \in MergeStates,
           \A q \in DOMAIN a.moves : a.moves[q].from # b.moves[k].to,
           IF b.moves[k].to \in c.deletions THEN d = a
           ELSE /\ d.old = Append(a.old, Move(b.moves[k].from,
                               Through(c.deletions, c.insertions)[b.moves[k].to]))
                /\ d.moves = a.moves /\ d.modified = a.modified
    PROVE  Merging(d, b, c, k)
<1> DEFINE x == b.moves[k].to
<1>1. a.old \in Seq(MoveRecord) /\ a.moves \in Seq(MoveRecord)
  BY DEF Merging, MergeStates
<1>2. /\ OldFits(a.old, b, c, k - 1) /\ NewerFits(a.moves, b, c, k - 1)
      /\ ModifiedFits(a.modified, b, c, k - 1)
  BY DEF Merging
<1>3. d.moves = a.moves /\ d.modified = a.modified
  OBVIOUS
<1>4. DOMAIN b.moves \subseteq Nat
  BY FieldsOf, RowsFacts
<1>5. OldFits(d.old, b, c, k)
  <2>1. CASE x \in c.deletions
    BY <1>2, <2>1, OldSame
  <2>2. CASE x \notin c.deletions
    <3> DEFINE y == Through(c.deletions, c.insertions)[x]
    <3>1. Goes(c, x, y)
      BY <2>2 DEF Goes
    <3>2. y \in Nat
      <4>1. c.deletions \in SUBSET Nat /\ c.insertions \in SUBSET Nat
        BY FieldsOf
      <4>2. Through(c.deletions, c.insertions) \in [Nat \ c.deletions -> Nat \ c.insertions]
        BY <4>1, ThroughFacts
      <4>3. x \in Nat
        BY FieldsOf, RowsFacts, MoveFields
      <4> HIDE DEF x
      <4> QED
        BY <2>2, <4>2, <4>3
    <3>3. d.old = Append(a.old, Move(b.moves[k].from, y))
      BY <2>2
    <3> HIDE DEF y
    <3> QED
      BY <1>1, <1>2, <3>1, <3>2, <3>3, OldLonger
  <2> QED
    BY <2>1, <2>2
<1>6. \A y : Reached(b, k, y) <=> Reached(b, k - 1, y) \/ x = y
  BY ReachedNext
<1>7. ~Reached(b, k - 1, x)
  <2>1. ASSUME NEW l \in DOMAIN b.moves, l <= k - 1
        PROVE  b.moves[l].to # x
    <3>1. l # k
      BY <1>4, <2>1
    <3> QED
      BY <3>1 DEF MovesDiffer
  <2> QED
    BY <2>1 DEF Reached
<1>8. \A r \in DOMAIN c.moves : c.moves[r].from # x
  BY <1>2, <1>7 DEF NewerFits
<1> HIDE DEF x
<1>9. \A r \in DOMAIN c.moves : Reached(b, k, c.moves[r].from) <=> Reached(b, k - 1, c.moves[r].from)
  BY <1>6, <1>8
<1>10. NewerFits(d.moves, b, c, k)
  BY <1>2, <1>3, <1>9 DEF NewerFits
<1>11. ModifiedFits(d.modified, b, c, k)
  BY <1>2, <1>3, <1>9 DEF ModifiedFits
<1> QED
  BY <1>5, <1>10, <1>11 DEF Merging

LEMMA MergingFirst ==
    ASSUME NEW b \in Builders, NEW c \in Builders, MovesDiffer(c.moves), NEW a,
           a = [old |-> <<>>, moves |-> c.moves, modified |-> c.modifications]
    PROVE  a \in MergeStates /\ Merging(a, b, c, 0)
<1>1. /\ c.moves \in Seq(MoveRecord) /\ c.modifications \in SUBSET Nat
      /\ b.moves \in Seq(MoveRecord)
  BY FieldsOf
<1>2. <<>> \in Seq(MoveRecord) /\ DOMAIN <<>> = {}
  OBVIOUS
<1>3. /\ a \in MergeStates /\ a.old = <<>> /\ a.moves = c.moves /\ a.modified = c.modifications
  BY <1>1, <1>2, MergeStateIs
<1>4. \A l \in DOMAIN b.moves : ~(l <= 0)
  <2>1. DOMAIN b.moves = 1..Len(b.moves) /\ Len(b.moves) \in Nat
    BY <1>1, RowsFacts
  <2> QED
    BY <2>1
<1>5. \A x : ~Reached(b, 0, x)
  BY <1>4 DEF Reached
<1>6. OldFits(a.old, b, c, 0)
  BY <1>2, <1>3 DEF OldFits
<1>7. NewerFits(a.moves, b, c, 0)
  BY <1>3, <1>5 DEF NewerFits
<1>8. ModifiedFits(a.modified, b, c, 0)
  BY <1>3, <1>5 DEF ModifiedFits
<1> QED
  BY <1>3, <1>6, <1>7, <1>8 DEF Merging

LEMMA MergingUnchanged ==
    ASSUME NEW b \in Builders, NEW c \in Builders, MovesDiffer(b.moves),
           c.moves = <<>>, c.deletions = {}, c.insertions = {}, NEW a,
           a = [old |-> b.moves, moves |-> c.moves, modified |-> c.modifications]
    PROVE  Merging(a, b, c, Len(b.moves))
<1>1. /\ c.modifications \in SUBSET Nat /\ c.moves \in Seq(MoveRecord)
      /\ b.moves \in Seq(MoveRecord)
  BY FieldsOf
<1>2. DOMAIN c.moves = {}
  OBVIOUS
<1>3. /\ a \in MergeStates /\ a.old = b.moves /\ a.moves = c.moves /\ a.modified = c.modifications
  BY <1>1, MergeStateIs
<1>4. ASSUME NEW l \in DOMAIN b.moves
      PROVE  l <= Len(b.moves) /\ Goes(c, b.moves[l].to, b.moves[l].to)
  <2> DEFINE f == Through(c.deletions, c.insertions)
             v == b.moves[l].to
  <2>1. l <= Len(b.moves)
    BY <1>1, RowsFacts
  <2>2. v \in Nat
    <3>1. b.moves[l] \in MoveRecord
      BY <1>1, RowsFacts
    <3> QED
      BY <3>1 DEF MoveRecord
  <2>3. f[v] \in Nat /\ unshift({}, f[v]) = unshift({}, v)
    <3>1. c.deletions \in SUBSET Nat /\ c.insertions \in SUBSET Nat /\ IsFiniteSet(c.deletions)
          /\ IsFiniteSet(c.insertions)
      BY FS_EmptySet
    <3>2. /\ f \in [Nat \ c.deletions -> Nat \ c.insertions]
          /\ \A x \in Nat \ c.deletions : unshift(c.insertions, f[x]) = unshift(c.deletions, x)
      BY <3>1, ThroughFacts
    <3>3. v \in Nat \ c.deletions
      BY <2>2
    <3> HIDE DEF f, v
    <3>4. unshift(c.insertions, f[v]) = unshift(c.deletions, v) /\ f[v] \in Nat
      BY <3>2, <3>3
    <3> QED
      BY <3>4
  <2> HIDE DEF f, v
  <2>4. f[v] = v
    BY <2>2, <2>3, NoneFree
  <2>5. v \notin c.deletions /\ v = f[v]
    BY <2>4
  <2>6. Goes(c, v, v)
    BY <2>5 DEF Goes, f
  <2> QED
    BY <2>1, <2>6 DEF v
<1>5. OldFits(a.old, b, c, Len(b.moves))
  BY <1>3, <1>4 DEF OldFits, MovesDiffer
<1>6. NewerFits(a.moves, b, c, Len(b.moves))
  BY <1>2, <1>3 DEF NewerFits, MovesDiffer
<1>7. ModifiedFits(a.modified, b, c, Len(b.moves))
  BY <1>2, <1>3 DEF ModifiedFits
<1> QED
  BY <1>3, <1>5, <1>6, <1>7 DEF Merging

LEMMA MergeMoveStep ==
    ASSUME NEW b \in Builders, NEW c \in Builders, MovesDiffer(b.moves), MovesDiffer(c.moves),
           IsFiniteSet(c.deletions), IsFiniteSet(c.insertions),
           NEW k \in DOMAIN b.moves, NEW a, Merging(a, b, c, k - 1)
    PROVE  Merging(MergeMove(b, c, a, b.moves[k]), b, c, k)
<1> DEFINE m == b.moves[k]
           d == MergeMove(b, c, a, m)
<1>1. a \in MergeStates
  BY DEF Merging
<1>2. m \in MoveRecord
  BY FieldsOf, RowsFacts
<1>3. d \in MergeStates /\ MergedBy(d, a, b, c, m)
  BY <1>1, <1>2, MergeMoveIs
<1> HIDE DEF d
<1>4. CASE \E p \in DOMAIN a.moves :
          /\ a.moves[p].from = m.to
          /\ d.old = Append(a.old, Move(m.from, a.moves[p].to))
          /\ LeftBy(d.moves, a.moves, p)
          /\ d.modified = IF m.to \in b.modifications THEN add(a.modified, a.moves[p].to)
                          ELSE a.modified
  BY <1>3, <1>4, MergeMoveFollowed DEF d
<1>5. CASE /\ \A q \in DOMAIN a.moves : a.moves[q].from # m.to
           /\ IF m.to \in c.deletions THEN d = a
              ELSE /\ d.old = Append(a.old, Move(m.from, Through(c.deletions, c.insertions)[m.to]))
                   /\ d.moves = a.moves /\ d.modified = a.modified
  BY <1>3, <1>5, MergeMoveOther DEF d
<1> QED
  BY <1>3, <1>4, <1>5 DEF MergedBy

\* The older moves are brought up to date one after the other.
LEMMA MergedMovesFit ==
    ASSUME NEW b \in Builders, NEW c \in Builders, MovesDiffer(b.moves), MovesDiffer(c.moves),
           IsFiniteSet(c.deletions), IsFiniteSet(c.insertions)
    PROVE  Merging(MergedMoves(b, c), b, c, Len(b.moves))
<1> DEFINE moves == b.moves
           n == Len(moves)
           base == [old |-> <<>>, moves |-> c.moves, modified |-> c.modifications]
           F == [p \in MergeStates \X (1..n) |-> MergeMove(b, c, p[1], moves[p[2]])]
           Iter(h) == h = [w \in SUBSET DOMAIN moves |->
                              IF w = {} THEN base
                              ELSE MergeMove(b, c, h[w \ {Max(w)}], moves[Max(w)])]
           it == CHOOSE h : Iter(h)
<1>1. /\ n \in Nat /\ DOMAIN moves = 1..n /\ \A k \in 1..n : moves[k] \in MoveRecord
  <2>1. moves \in Seq(MoveRecord)
    BY FieldsOf
  <2> QED
    BY <2>1, RowsFacts
<1>2. base \in MergeStates /\ Merging(base, b, c, 0)
  BY MergingFirst
<1>3. MergedMoves(b, c) =
          IF c.moves = <<>> /\ c.deletions = {} /\ c.insertions = {}
          THEN [base EXCEPT !.old = b.moves] ELSE it[DOMAIN moves]
  BY DEF MergedMoves, FoldLeft, MapThenFoldSet
<1>4. [base EXCEPT !.old = b.moves] = [old |-> b.moves, moves |-> c.moves, modified |-> c.modifications]
  OBVIOUS
<1> HIDE DEF moves, n, base
<1>5. F \in [MergeStates \X (1..n) -> MergeStates]
  BY <1>1, MergeMoveIs
<1>6. PICK g : Folds(g, MergeStates, base, n, F)
  <2> HIDE DEF F
  <2>1. n \in Nat /\ base \in MergeStates
    BY <1>1, <1>2
  <2> QED
    BY <2>1, <1>5, FoldExists
<1>7. /\ g \in [SUBSET (1..n) -> MergeStates]
      /\ \A w \in SUBSET (1..n) :
             g[w] = IF w = {} THEN base ELSE F[<<g[w \ {Max(w)}], Max(w)>>]
  BY <1>6 DEF Folds
<1>8. Iter(g)
  <2>1. ASSUME NEW w \in SUBSET (1..n)
        PROVE  g[w] = IF w = {} THEN base ELSE MergeMove(b, c, g[w \ {Max(w)}], moves[Max(w)])
    <3>1. CASE w = {}
      BY <1>7, <3>1
    <3>2. CASE w # {}
      <4>1. Max(w) \in 1..n
        BY <1>1, <3>2, LargestOf
      <4>2. g[w \ {Max(w)}] \in MergeStates
        BY <1>7
      <4>3. F[<<g[w \ {Max(w)}], Max(w)>>] = MergeMove(b, c, g[w \ {Max(w)}], moves[Max(w)])
        BY <4>1, <4>2
      <4> HIDE DEF F
      <4> QED
        BY <1>7, <3>2, <4>3
    <3> QED
      BY <3>1, <3>2
  <2>2. g = [w \in SUBSET (1..n) |-> g[w]]
    BY <1>7
  <2>3. g = [w \in SUBSET (1..n) |->
                 IF w = {} THEN base ELSE MergeMove(b, c, g[w \ {Max(w)}], moves[Max(w)])]
    BY <2>1, <2>2
  <2> QED
    BY <1>1, <2>3
<1>9. Iter(it)
  BY <1>8
<1> HIDE DEF it
<1>10. \A w \in SUBSET (1..n) :
          it[w] = IF w = {} THEN base ELSE MergeMove(b, c, it[w \ {Max(w)}], moves[Max(w)])
  <2>1. it = [w \in SUBSET (1..n) |->
                 IF w = {} THEN base ELSE MergeMove(b, c, it[w \ {Max(w)}], moves[Max(w)])]
    BY <1>1, <1>9
  <2> QED
    BY <2>1
<1> HIDE DEF Iter, F
<1>11. it[1..0] = base
  <2>1. 1..0 = {} /\ {} \in SUBSET (1..n)
    OBVIOUS
  <2> QED
    BY <1>10, <2>1
<1>12. ASSUME NEW k \in 1..n
       PROVE  it[1..k] = MergeMove(b, c, it[1..(k - 1)], moves[k])
  <2>1. k \in Nat /\ k >= 1 /\ k <= n
    BY <1>1
  <2>2. 1..k \in SUBSET (1..n) /\ 1..k # {} /\ (1..k) \ {k} = 1..(k - 1) /\ k \in 1..k
    <3>1. \A x : x \in (1..k) \ {k} <=> x \in 1..(k - 1)
      BY <2>1
    <3>2. k \in 1..k /\ \A x \in 1..k : x \in 1..n
      BY <1>1, <2>1
    <3> QED
      BY <3>1, <3>2
  <2>3. Max(1..k) = k
    <3>1. \A x \in 1..k : x <= k
      OBVIOUS
    <3> QED
      BY <1>1, <2>2, <3>1, LargestIs
  <2> QED
    BY <1>10, <2>2, <2>3
<1> DEFINE P == [k \in 0..n |-> Merging(it[1..k], b, c, k)]
<1>13. P[0]
  BY <1>1, <1>2, <1>11
<1>14. ASSUME NEW k \in 1..n, P[k - 1]
       PROVE  P[k]
  <2>1. k - 1 \in 0..n /\ k \in 0..n
    BY <1>1
  <2>2. Merging(it[1..(k - 1)], b, c, k - 1)
    BY <1>14, <2>1
  <2>3. k \in DOMAIN b.moves
    BY <1>1 DEF moves
  <2>4. Merging(MergeMove(b, c, it[1..(k - 1)], b.moves[k]), b, c, k)
    BY <2>2, <2>3, MergeMoveStep
  <2>5. Merging(it[1..k], b, c, k)
    BY <1>12, <2>4 DEF moves
  <2> QED
    BY <2>1, <2>5
<1>15. P \in [0..n -> BOOLEAN]
  BY DEF Merging
<1> HIDE DEF P
<1>16. P[n]
  BY <1>1, <1>13, <1>14, <1>15, StepByStep
<1>17. Merging(it[DOMAIN moves], b, c, n)
  BY <1>1, <1>16 DEF P
<1>18. CASE c.moves = <<>> /\ c.deletions = {} /\ c.insertions = {}
  <2>1. MergedMoves(b, c) = [old |-> b.moves, moves |-> c.moves, modified |-> c.modifications]
    BY <1>3, <1>4, <1>18
  <2> QED
    BY <1>18, <2>1, MergingUnchanged
<1>19. CASE ~(c.moves = <<>> /\ c.deletions = {} /\ c.insertions = {})
  BY <1>3, <1>17, <1>19 DEF moves, n
<1> QED
  BY <1>18, <1>19

-----------------------------------------------------------------------------
(* The sets of the merged changes and the older moves                        *)

\* The deletions and the insertions that merge makes.
LEMMA MergedSets ==
    ASSUME NEW D \in SUBSET Nat, NEW I \in SUBSET Nat, NEW E \in SUBSET Nat, NEW J \in SUBSET Nat,
           IsFiniteSet(D), IsFiniteSet(E)
    PROVE  /\ add_shifted_by(D, I, E) = MissingToo(I, D, E)
           /\ IsFiniteSet(MissingToo(I, D, E))
           /\ insert_at_all(erase_at_all(I, E), J) = MissingToo(E, J, I)
<1>1. \A v \in E \ I : Through(I, D)[v] = shift(D, unshift(I, v))
  BY DEF Through
<1>2. {shift(D, unshift(I, v)) : v \in E \ I} = {Through(I, D)[v] : v \in E \ I}
  BY <1>1
<1>3. add_shifted_by(D, I, E) = MissingToo(I, D, E)
  BY <1>2 DEF add_shifted_by, MissingToo
<1>4. IsFiniteSet(MissingToo(I, D, E))
  <2> DEFINE X == E \ I
             Y == {Through(I, D)[v] : v \in X}
  <2>1. IsFiniteSet(X)
    BY FS_Subset
  <2>2. IsFiniteSet(Y)
    <3> DEFINE g == [v \in X |-> Through(I, D)[v]]
    <3>1. g \in Surjection(X, Y)
      BY DEF Surjection
    <3> HIDE DEF g, X, Y
    <3> QED
      BY <2>1, <3>1, FS_Surjection
  <2>3. MissingToo(I, D, E) = D \cup Y
    BY DEF MissingToo
  <2> HIDE DEF Y
  <2> QED
    BY <2>2, <2>3, FS_Union
<1>5. \A x \in I \ E : Through(E, J)[x] = shift(J, unshift(E, x))
  BY DEF Through
<1>6. shift_for_insert_at_all(erase_at_all(I, E), J) = {shift(J, unshift(E, x)) : x \in I \ E}
  BY DEF shift_for_insert_at_all, erase_at_all
<1>7. {shift(J, unshift(E, x)) : x \in I \ E} = {Through(E, J)[x] : x \in I \ E}
  BY <1>5
<1>8. shift_for_insert_at_all(erase_at_all(I, E), J) = {Through(E, J)[x] : x \in I \ E}
  BY <1>6, <1>7
<1>9. insert_at_all(erase_at_all(I, E), J) = MissingToo(E, J, I)
  BY <1>8 DEF insert_at_all, MissingToo
<1> QED
  BY <1>3, <1>4, <1>9

\* A row that came before c and stays is among the rows that came.
LEMMA GoesInserted ==
    ASSUME NEW c \in Builders, NEW t, NEW u, MovesFit(c.moves, c.deletions, c.insertions, t, u),
           NEW I, NEW v \in I, NEW j, Goes(c, v, j)
    PROVE  j \in MissingToo(c.deletions, c.insertions, I)
<1>1. CASE v \notin c.deletions /\ j = Through(c.deletions, c.insertions)[v]
  BY <1>1 DEF MissingToo
<1>2. CASE \E q \in DOMAIN c.moves : c.moves[q].from = v /\ c.moves[q].to = j
  BY <1>2 DEF MissingToo, MovesFit
<1> QED
  BY <1>1, <1>2 DEF Goes

\* One that is not among them was there before c.
LEMMA GoesFrom ==
    ASSUME NEW c, NEW t \in Seq(Nat), NEW T, NEW u \in Seq(Nat), NEW U, Follows(c, t, T, u, U),
           NEW I \in SUBSET Nat, NEW j \in Positions(u),
           j \notin MissingToo(c.deletions, c.insertions, I)
    PROVE  \E v \in Positions(t) : v \notin I /\ Goes(c, v, j)
<1> DEFINE D == c.deletions
           J == c.insertions
           f == Through(D, J)
<1>1. /\ D \in SUBSET Nat /\ J \in SUBSET Nat /\ IsFiniteSet(D) /\ IsFiniteSet(J)
      /\ Same(D, J, t, u)
  BY FollowsFacts
<1>2. f \in Surjection(Nat \ D, Nat \ J)
  <2> HIDE DEF D, J
  <2> QED
    BY <1>1, ThroughFacts
<1>3. Splits(D, J, Len(t), Len(u))
  <2> HIDE DEF D, J
  <2> QED
    BY <1>1, SameTurned, ThroughSame
<1>4. j \notin J /\ \A v \in I \ D : j # f[v]
  BY DEF MissingToo
<1>5. j \in Nat /\ j < Len(u)
  BY PositionFacts
<1>6. PICK v \in Nat \ D : f[v] = j
  <2> HIDE DEF f, D, J
  <2> QED
    BY <1>2, <1>4, <1>5 DEF Surjection
<1>7. v < Len(t)
  BY <1>3, <1>5, <1>6 DEF Splits
<1>8. v \in Positions(t)
  BY <1>6, <1>7, PositionFacts
<1>9. v \notin I
  BY <1>4, <1>6
<1>10. Goes(c, v, j)
  BY <1>6 DEF Goes
<1> QED
  BY <1>8, <1>9, <1>10

\* The older moves, brought up to date, are moves of both changes together.
LEMMA OldMovesFit ==
    ASSUME NEW b, NEW s \in Seq(Nat), NEW S, NEW t \in Seq(Nat), NEW T, Follows(b, s, S, t, T),
           NEW c, NEW u \in Seq(Nat), NEW U, Follows(c, t, T, u, U),
           NEW n, NEW older \in Seq(MoveRecord), OldFits(older, b, c, n)
    PROVE  MovesFit(older, MissingToo(b.insertions, b.deletions, c.deletions),
                         MissingToo(c.deletions, c.insertions, b.insertions), s, u)
<1> DEFINE E == MissingToo(b.insertions, b.deletions, c.deletions)
           J == MissingToo(c.deletions, c.insertions, b.insertions)
<1>1. /\ c \in Builders /\ IsFiniteSet(c.deletions) /\ IsFiniteSet(c.insertions)
      /\ Same(c.deletions, c.insertions, t, u) /\ c.insertions \subseteq Positions(u)
      /\ MovesFit(c.moves, c.deletions, c.insertions, t, u)
  BY FollowsFacts
<1>2. /\ MovesFit(b.moves, b.deletions, b.insertions, s, t) /\ MovesDiffer(b.moves)
      /\ b.insertions \subseteq Positions(t) /\ b.insertions \in SUBSET Nat
  BY FollowsFacts
<1>3. b.deletions \subseteq E
  BY DEF MissingToo
<1> HIDE DEF E
<1>4. ASSUME NEW i \in DOMAIN older
      PROVE  /\ older[i].from \in E \cap Positions(s) /\ older[i].to \in J
             /\ At0(s, older[i].from) = At0(u, older[i].to)
  <2>1. PICK l \in DOMAIN b.moves :
             older[i].from = b.moves[l].from /\ Goes(c, b.moves[l].to, older[i].to)
    BY DEF OldFits
  <2>2. /\ b.moves[l].from \in b.deletions /\ b.moves[l].from \in Positions(s)
        /\ b.moves[l].to \in b.insertions
        /\ At0(s, b.moves[l].from) = At0(t, b.moves[l].to)
    BY <1>2 DEF MovesFit
  <2>3. b.moves[l].to \in Positions(t)
    BY <1>2, <2>2
  <2>4. older[i].to \in J
    BY <1>1, <2>1, <2>2, GoesInserted
  <2>5. At0(u, older[i].to) = At0(t, b.moves[l].to)
    BY <2>1, <2>3, GoesTo
  <2> QED
    BY <1>3, <2>1, <2>2, <2>4, <2>5
<1> HIDE DEF J
<1>5. ASSUME NEW i \in DOMAIN older, NEW j \in DOMAIN older, i # j
      PROVE  older[i].from # older[j].from /\ older[i].to # older[j].to
  <2>1. older[i].from # older[j].from
    BY <1>5 DEF OldFits
  <2>2. PICK l \in DOMAIN b.moves :
             older[i].from = b.moves[l].from /\ Goes(c, b.moves[l].to, older[i].to)
    BY DEF OldFits
  <2>3. PICK r \in DOMAIN b.moves :
             older[j].from = b.moves[r].from /\ Goes(c, b.moves[r].to, older[j].to)
    BY DEF OldFits
  <2>4. b.moves[l].to # b.moves[r].to
    BY <1>2, <2>1, <2>2, <2>3 DEF MovesDiffer
  <2>5. b.moves[l].to \in Nat /\ b.moves[r].to \in Nat
    <3>1. b.moves[l].to \in b.insertions /\ b.moves[r].to \in b.insertions
      BY <1>2 DEF MovesFit
    <3> QED
      BY <1>2, <3>1
  <2>6. older[i].to # older[j].to
    BY <2>2, <2>3, <2>4, <2>5, GoesOnce
  <2> QED
    BY <2>1, <2>6
<1>6. MovesFit(older, E, J, s, u)
  BY <1>4, <1>5 DEF MovesFit
<1> QED
  BY <1>6 DEF E, J

-----------------------------------------------------------------------------
(* The newer moves and the modifications                                     *)

\* The moves of c that merge keeps, and what it makes of them.
Newer(b, moves) == Chosen(moves, {k \in DOMAIN moves : moves[k].from \notin b.insertions})

Rebased(b, moves) ==
    [k \in DOMAIN moves |->
        [moves[k] EXCEPT !.from = shift(b.deletions, unshift(b.insertions, @))]]

\* They are moves of c, of rows that were there before b.
NewerChosen(newer, moves, b) ==
    /\ newer \in Seq(MoveRecord)
    /\ \A l \in DOMAIN newer : \E k \in DOMAIN moves :
           newer[l] = moves[k] /\ moves[k].from \notin b.insertions
    /\ \A k \in DOMAIN moves : moves[k].from \notin b.insertions =>
           \E l \in DOMAIN newer : newer[l].to = moves[k].to

LEMMA NewerIs ==
    ASSUME NEW b, NEW c, NEW t \in Seq(Nat), NEW T, NEW u \in Seq(Nat), NEW U,
           Follows(c, t, T, u, U),
           NEW n, NEW moves \in Seq(MoveRecord), NewerFits(moves, b, c, n)
    PROVE  /\ NewerChosen(Newer(b, moves), moves, b)
           /\ MovesFit(Newer(b, moves), c.deletions, c.insertions, t, u)
<1> DEFINE K == {k \in DOMAIN moves : moves[k].from \notin b.insertions}
           newer == Chosen(moves, K)
<1>1. MovesFit(c.moves, c.deletions, c.insertions, t, u)
  BY FollowsFacts
<1>2. MovesFit(moves, c.deletions, c.insertions, t, u)
  <2>1. ASSUME NEW i \in DOMAIN moves
        PROVE  /\ moves[i].from \in c.deletions \cap Positions(t) /\ moves[i].to \in c.insertions
               /\ At0(t, moves[i].from) = At0(u, moves[i].to)
    BY <1>1 DEF NewerFits, MovesFit
  <2>2. ASSUME NEW i \in DOMAIN moves, NEW j \in DOMAIN moves, i # j
        PROVE  moves[i].from # moves[j].from /\ moves[i].to # moves[j].to
    BY <2>2 DEF NewerFits, MovesDiffer
  <2> QED
    BY <2>1, <2>2 DEF MovesFit
<1>3. K \in SUBSET DOMAIN moves /\ \A k \in DOMAIN moves : k \in K <=> moves[k].from \notin b.insertions
  OBVIOUS
<1>4. Newer(b, moves) = newer
  BY DEF Newer
<1> HIDE DEF K
<1>5. newer \in Seq(MoveRecord)
  BY <1>2, <1>3, MovesChosen
<1>6. MovesFit(newer, c.deletions, c.insertions, t, u)
  BY <1>2, <1>3, MovesChosen
<1>7. Targets(newer) = {moves[k].to : k \in K}
  BY <1>2, <1>3, MovesChosen
<1>8. \A l \in DOMAIN newer : \E k \in K : newer[l] = moves[k]
  BY <1>2, <1>3, MovesChosen
<1> HIDE DEF newer
<1>9. \A l \in DOMAIN newer : \E k \in DOMAIN moves :
           newer[l] = moves[k] /\ moves[k].from \notin b.insertions
  BY <1>3, <1>8
<1>10. ASSUME NEW k \in DOMAIN moves, moves[k].from \notin b.insertions
       PROVE  \E l \in DOMAIN newer : newer[l].to = moves[k].to
  <2>1. moves[k].to \in Targets(newer)
    BY <1>3, <1>7, <1>10
  <2> QED
    BY <2>1 DEF Targets
<1> QED
  BY <1>4, <1>5, <1>6, <1>9, <1>10 DEF NewerChosen

LEMMA RebasedFits ==
    ASSUME NEW b, NEW s \in Seq(Nat), NEW S, NEW t \in Seq(Nat), NEW T, Follows(b, s, S, t, T),
           NEW c, NEW u \in Seq(Nat), NEW U, Follows(c, t, T, u, U),
           NEW newer \in Seq(MoveRecord), MovesFit(newer, c.deletions, c.insertions, t, u),
           \A l \in DOMAIN newer : newer[l].from \notin b.insertions
    PROVE  /\ Rebased(b, newer) \in Seq(MoveRecord) /\ DOMAIN Rebased(b, newer) = DOMAIN newer
           /\ \A l \in DOMAIN newer : /\ Rebased(b, newer)[l].to = newer[l].to
                                      /\ Rebased(b, newer)[l].from \notin b.deletions
           /\ MovesFit(Rebased(b, newer), MissingToo(b.insertions, b.deletions, c.deletions),
                         MissingToo(c.deletions, c.insertions, b.insertions), s, u)
<1> DEFINE E == MissingToo(b.insertions, b.deletions, c.deletions)
           J == MissingToo(c.deletions, c.insertions, b.insertions)
           f == Through(b.insertions, b.deletions)
           based == Rebased(b, newer)
<1>1. /\ MovesFit(c.moves, c.deletions, c.insertions, t, u)
      /\ c.insertions \subseteq J
  BY FollowsFacts DEF MissingToo
<1>2. /\ b.deletions \in SUBSET Nat /\ b.insertions \in SUBSET Nat
      /\ IsFiniteSet(b.deletions) /\ IsFiniteSet(b.insertions)
      /\ Same(b.deletions, b.insertions, s, t)
  BY FollowsFacts
<1>3. /\ f \in [Nat \ b.insertions -> Nat \ b.deletions]
      /\ \A v, w \in Nat \ b.insertions : f[v] = f[w] => v = w
  BY <1>2, ThroughFacts
<1>4. \A v \in Positions(t) \ b.insertions :
          f[v] \in Positions(s) \ b.deletions /\ At0(s, f[v]) = At0(t, v)
  <2> DEFINE D == b.deletions
             I == b.insertions
  <2>1. D \in SUBSET Nat /\ I \in SUBSET Nat /\ IsFiniteSet(D) /\ IsFiniteSet(I) /\ Same(D, I, s, t)
    BY <1>2
  <2> HIDE DEF D, I
  <2>2. /\ Splits(I, D, Len(t), Len(s))
        /\ \A v \in Positions(t) \ I :
               /\ Through(I, D)[v] \in Positions(s) \ D
               /\ At0(s, Through(I, D)[v]) = At0(t, v)
    BY <2>1, ThroughSame
  <2> QED
    BY <2>2 DEF D, I
<1>5. \A v \in c.deletions \ b.insertions : f[v] \in E
  BY DEF MissingToo
<1>6. \A v \in Nat \ b.insertions : f[v] = shift(b.deletions, unshift(b.insertions, v))
  BY DEF Through
<1> HIDE DEF f, E, J
<1>7. ASSUME NEW l \in DOMAIN newer
      PROVE  /\ newer[l] \in MoveRecord /\ newer[l].from \in Nat \ b.insertions
             /\ f[newer[l].from] \in Nat
             /\ based[l] = [newer[l] EXCEPT !.from = f[newer[l].from]]
  <2>1. newer[l] \in MoveRecord
    BY RowsFacts
  <2>2. newer[l].from \in Nat \ b.insertions
    BY <2>1, MoveFields
  <2>3. f[newer[l].from] \in Nat
    BY <1>3, <2>2
  <2>4. based[l] = [newer[l] EXCEPT !.from = shift(b.deletions, unshift(b.insertions, @))]
    BY DEF Rebased
  <2> HIDE DEF based
  <2>5. based[l] = [newer[l] EXCEPT !.from = f[newer[l].from]]
    BY <1>6, <2>2, <2>4
  <2> QED
    BY <2>1, <2>2, <2>3, <2>5
<1>8. ASSUME NEW l \in DOMAIN newer
      PROVE  based[l] \in MoveRecord /\ based[l].from = f[newer[l].from] /\ based[l].to = newer[l].to
  <2> DEFINE m == newer[l]
             x == f[m.from]
  <2>1. m \in MoveRecord /\ x \in Nat /\ based[l] = [m EXCEPT !.from = x]
    BY <1>7
  <2> HIDE DEF based, m, x
  <2>2. based[l] \in MoveRecord /\ based[l].from = x /\ based[l].to = m.to
    BY <2>1 DEF MoveRecord
  <2> QED
    BY <2>2 DEF m, x
<1>9. DOMAIN based = DOMAIN newer /\ based \in [DOMAIN newer -> MoveRecord]
  <2>1. based = [l \in DOMAIN newer |-> based[l]]
    BY DEF Rebased
  <2> HIDE DEF based
  <2> QED
    BY <1>8, <2>1
<1> HIDE DEF based
<1>10. based \in Seq(MoveRecord)
  BY <1>9, MappedFacts
<1>11. ASSUME NEW l \in DOMAIN newer
       PROVE  /\ based[l].from \in E \cap Positions(s) /\ based[l].to \in J
              /\ At0(s, based[l].from) = At0(u, based[l].to)
              /\ based[l].from \notin b.deletions
  <2>1. /\ newer[l].from \in c.deletions /\ newer[l].from \in Positions(t)
        /\ newer[l].to \in c.insertions /\ At0(t, newer[l].from) = At0(u, newer[l].to)
    BY DEF MovesFit
  <2>2. /\ f[newer[l].from] \in Positions(s) \ b.deletions
        /\ At0(s, f[newer[l].from]) = At0(t, newer[l].from)
    BY <1>4, <2>1
  <2>3. f[newer[l].from] \in E
    BY <1>5, <2>1
  <2> QED
    BY <1>1, <1>8, <2>1, <2>2, <2>3
<1>12. ASSUME NEW k \in DOMAIN newer, NEW l \in DOMAIN newer, k # l
       PROVE  based[k].from # based[l].from /\ based[k].to # based[l].to
  <2>1. newer[k].from # newer[l].from /\ newer[k].to # newer[l].to
    BY <1>12 DEF MovesFit
  <2>2. newer[k].from \in Nat \ b.insertions /\ newer[l].from \in Nat \ b.insertions
    BY <1>7
  <2> QED
    BY <1>3, <1>8, <2>1, <2>2
<1>13. MovesFit(based, E, J, s, u)
  BY <1>9, <1>11, <1>12 DEF MovesFit
<1> QED
  BY <1>8, <1>9, <1>10, <1>11, <1>13 DEF based, E, J

\* What is modified after both changes.
ModsMerged(N, b, c, t, u) ==
    /\ N \subseteq Positions(u)
    /\ \A v \in Positions(t) : \A j :
           Goes(c, v, j) /\ (v \notin b.insertions \/ v \in Targets(b.moves)) =>
               (j \in N <=> j \in c.modifications \/ v \in b.modifications)

LEMMA MergedMods ==
    ASSUME NEW b, NEW s \in Seq(Nat), NEW S, NEW t \in Seq(Nat), NEW T, Follows(b, s, S, t, T),
           NEW c, NEW u \in Seq(Nat), NEW U, Follows(c, t, T, u, U),
           NEW a, Merging(a, b, c, Len(b.moves)), NEW newer, NewerChosen(newer, a.moves, b)
    PROVE  ModsMerged(shift_for_insert_at_all(erase_at_all(b.modifications, c.deletions), c.insertions)
                        \cup a.modified \cup Followed(b, newer), b, c, t, u)
<1> DEFINE f == Through(c.deletions, c.insertions)
           M == b.modifications
           X == shift_for_insert_at_all(erase_at_all(M, c.deletions), c.insertions)
           Y == Followed(b, newer)
           N == X \cup a.modified \cup Y
<1>1. /\ b.moves \in Seq(MoveRecord) /\ M \in SUBSET Nat /\ M \subseteq Positions(t)
  BY FollowsFacts
<1>2. /\ c.deletions \in SUBSET Nat /\ c.insertions \in SUBSET Nat /\ IsFiniteSet(c.deletions)
      /\ c.insertions \subseteq Positions(u) /\ c.modifications \subseteq Positions(u)
      /\ MovesFit(c.moves, c.deletions, c.insertions, t, u) /\ MovesDiffer(c.moves)
  BY FollowsFacts
<1>3. /\ NewerFits(a.moves, b, c, Len(b.moves)) /\ ModifiedFits(a.modified, b, c, Len(b.moves))
  BY DEF Merging
<1>4. \A x : Reached(b, Len(b.moves), x) <=> x \in Targets(b.moves)
  <2>1. \A l \in DOMAIN b.moves : l <= Len(b.moves)
    BY <1>1, RowsFacts
  <2> QED
    BY <2>1 DEF Reached, Targets
<1>5. \A x : x \in X <=> \E w \in M : w \notin c.deletions /\ x = f[w]
  <2>1. X = {f[w] : w \in M \ c.deletions}
    <3>1. \A w \in M \ c.deletions : f[w] = shift(c.insertions, unshift(c.deletions, w))
      BY <1>1 DEF Through
    <3>2. X = {shift(c.insertions, unshift(c.deletions, w)) : w \in M \ c.deletions}
      BY DEF shift_for_insert_at_all, erase_at_all
    <3> HIDE DEF X, f, M
    <3> QED
      BY <3>1, <3>2
  <2> HIDE DEF X, f, M
  <2> QED
    BY <2>1
<1>6. \A x : x \in Y <=> \E l \in DOMAIN newer : newer[l].from \in M /\ newer[l].to = x
  BY DEF Followed, ToSet
<1>7. \A x : x \in N <=> x \in X \/ x \in a.modified \/ x \in Y
  OBVIOUS
<1> HIDE DEF f, X, Y, N, M
<1>8. ASSUME NEW x \in N
      PROVE  x \in c.modifications \/ \E w \in M : Goes(c, w, x)
  <2>1. CASE x \in X
    BY <1>5, <2>1 DEF Goes, f
  <2>2. CASE x \in a.modified
    BY <1>3, <2>2 DEF ModifiedFits, Goes, M
  <2>3. CASE x \in Y
    <3>1. PICK l \in DOMAIN newer : newer[l].from \in M /\ newer[l].to = x
      BY <1>6, <2>3
    <3>2. PICK k \in DOMAIN a.moves : newer[l] = a.moves[k]
      BY DEF NewerChosen
    <3>3. PICK q \in DOMAIN c.moves : a.moves[k] = c.moves[q]
      BY <1>3 DEF NewerFits
    <3> QED
      BY <3>1, <3>2, <3>3 DEF Goes
  <2> QED
    BY <1>7, <2>1, <2>2, <2>3
<1>9. N \subseteq Positions(u)
  <2>1. ASSUME NEW x \in N PROVE x \in Positions(u)
    <3>1. CASE x \in c.modifications
      BY <1>2, <3>1
    <3>2. CASE \E w \in M : Goes(c, w, x)
      BY <1>1, <3>2, GoesTo
    <3> QED
      BY <1>8, <3>1, <3>2
  <2> QED
    BY <2>1
<1>10. ASSUME NEW v \in Positions(t), NEW j, Goes(c, v, j),
              v \notin b.insertions \/ v \in Targets(b.moves)
       PROVE  j \in N <=> j \in c.modifications \/ v \in M
  <2>1. ASSUME j \in N
        PROVE  j \in c.modifications \/ v \in M
    <3>1. CASE \E w \in M : Goes(c, w, j)
      <4>1. PICK w \in M : Goes(c, w, j)
        BY <3>1
      <4>2. v \in Nat /\ w \in Nat
        BY <1>1, PositionFacts
      <4>3. v = w
        BY <1>10, <4>1, <4>2, GoesOnce
      <4> QED
        BY <4>3
    <3> QED
      BY <1>8, <2>1, <3>1
  <2>2. ASSUME j \in c.modifications
        PROVE  j \in N
    BY <1>3, <1>7, <2>2 DEF ModifiedFits
  <2>3. ASSUME v \in M
        PROVE  j \in N
    <3>1. CASE v \notin c.deletions /\ j = f[v]
      BY <1>5, <1>7, <2>3, <3>1
    <3>2. ASSUME NEW q \in DOMAIN c.moves, c.moves[q].from = v, c.moves[q].to = j
          PROVE  j \in N
      <4>1. CASE v \in Targets(b.moves)
        <5>1. Reached(b, Len(b.moves), c.moves[q].from)
          BY <1>4, <3>2, <4>1
        <5>2. j \in a.modified
          BY <1>3, <2>3, <3>2, <5>1 DEF ModifiedFits, M
        <5> QED
          BY <1>7, <5>2
      <4>2. CASE v \notin Targets(b.moves)
        <5>1. ~Reached(b, Len(b.moves), c.moves[q].from)
          BY <1>4, <3>2, <4>2
        <5>2. PICK i \in DOMAIN a.moves : a.moves[i] = c.moves[q]
          BY <1>3, <5>1 DEF NewerFits
        <5>3. a.moves[i].from = v /\ a.moves[i].to = j /\ v \notin b.insertions
          BY <1>10, <3>2, <4>2, <5>2
        <5>4. PICK l \in DOMAIN newer : newer[l].to = j
          BY <5>3 DEF NewerChosen
        <5>5. PICK k \in DOMAIN a.moves : newer[l] = a.moves[k]
          BY DEF NewerChosen
        <5>6. k = i
          BY <1>3, <5>3, <5>4, <5>5 DEF NewerFits, MovesDiffer
        <5>7. newer[l].from \in M /\ newer[l].to = j
          BY <2>3, <5>3, <5>4, <5>5, <5>6
        <5> QED
          BY <1>6, <1>7, <5>7
      <4> QED
        BY <4>1, <4>2
    <3> QED
      BY <1>10, <3>1, <3>2 DEF Goes, f
  <2> QED
    BY <2>1, <2>2, <2>3
<1>11. ModsMerged(N, b, c, t, u)
  BY <1>9, <1>10 DEF ModsMerged, M
<1> QED
  BY <1>11 DEF N, X, Y, M

-----------------------------------------------------------------------------
(* Merging keeps what follows                                                *)

LEMMA MergeNothing ==
    ASSUME NEW b, NEW s \in Seq(Nat), NEW S, NEW t \in Seq(Nat), NEW T, Follows(b, s, S, t, T),
           NEW c, NEW u \in Seq(Nat), NEW U, Follows(c, t, T, u, U), empty(c)
    PROVE  Follows(b, s, S, u, U)
<1>1. c = Empty
  BY FollowsFacts, EmptyIs
<1>2. t = u /\ \A j \in Positions(t) : At0(t, j) \in U <=> At0(t, j) \in T
  <2>1. Follows(Empty, t, T, u, U)
    BY <1>1
  <2>2. t = u /\ \A j \in Positions(u) : At0(u, j) \in U <=> At0(u, j) \in T
    BY <2>1, EmptyFollows
  <2> QED
    BY <2>2
<1>3. ModsFit(b.modifications, b.insertions, Targets(b.moves), t, S, U)
  BY <1>2 DEF Follows, ModsFit
<1> QED
  BY <1>2, <1>3 DEF Follows

LEMMA MergeFirst ==
    ASSUME NEW b, NEW s \in Seq(Nat), NEW S, NEW t \in Seq(Nat), NEW T, Follows(b, s, S, t, T),
           NEW c, NEW u \in Seq(Nat), NEW U, Follows(c, t, T, u, U), empty(b)
    PROVE  Follows(c, s, S, u, U)
<1>1. b = Empty
  BY FollowsFacts, EmptyIs
<1>2. s = t /\ \A j \in Positions(s) : At0(s, j) \in T <=> At0(s, j) \in S
  BY <1>1, EmptyFollows
<1>3. ASSUME NEW j \in Positions(u), j \notin c.insertions \/ j \in Targets(c.moves)
      PROVE  \E v \in Positions(t) : At0(u, j) = At0(t, v)
  <2>1. CASE j \notin c.insertions
    <3>1. MissingToo(c.deletions, c.insertions, {}) = c.insertions
      BY DEF MissingToo
    <3>2. j \notin MissingToo(c.deletions, c.insertions, {}) /\ {} \in SUBSET Nat
      BY <2>1, <3>1
    <3>3. PICK v \in Positions(t) : Goes(c, v, j)
      BY <3>2, GoesFrom
    <3>4. At0(u, j) = At0(t, v)
      BY <3>3, GoesTo
    <3> QED
      BY <3>4
  <2>2. CASE j \in Targets(c.moves)
    BY <2>2 DEF Targets, Follows, MovesFit
  <2> QED
    BY <1>3, <2>1, <2>2
<1>4. ModsFit(c.modifications, c.insertions, Targets(c.moves), u, S, U)
  BY <1>2, <1>3 DEF Follows, ModsFit
<1> QED
  BY <1>2, <1>4 DEF Follows

\* Merged, before stale moves are taken out.
IsMerged(m, a, b, c) ==
    m = [deletions |-> add_shifted_by(b.deletions, b.insertions, c.deletions),
         insertions |-> insert_at_all(erase_at_all(b.insertions, c.deletions), c.insertions),
         modifications |-> b.modifications,
         moves |-> a.old \o Rebased(b, Newer(b, a.moves)),
         mapping |-> b.mapping]

LEMMA MergedBuilder ==
    ASSUME NEW b, NEW s \in Seq(Nat), NEW S, NEW t \in Seq(Nat), NEW T, Follows(b, s, S, t, T),
           NEW c, NEW u \in Seq(Nat), NEW U, Follows(c, t, T, u, U),
           NEW a, Merging(a, b, c, Len(b.moves)),
           NEW m, IsMerged(m, a, b, c)
    PROVE  /\ m \in Builders /\ IsFiniteSet(m.deletions) /\ m.insertions \subseteq Positions(u)
           /\ m.insertions = MissingToo(c.deletions, c.insertions, b.insertions)
           /\ m.modifications = b.modifications /\ m.mapping = NoMapping
           /\ Targets(m.moves) = Targets(a.old) \cup Targets(Newer(b, a.moves))
           /\ Same(m.deletions, m.insertions, s, u)
           /\ MovesFit(m.moves, m.deletions, m.insertions, s, u)
<1> DEFINE D == b.deletions
           I == b.insertions
           E == c.deletions
           J == c.insertions
           R == MissingToo(I, D, E)
           Q == MissingToo(E, J, I)
           older == a.old
           newer == Newer(b, a.moves)
           based == Rebased(b, newer)
           moves == older \o based
<1>1. /\ D \in SUBSET Nat /\ I \in SUBSET Nat /\ IsFiniteSet(D) /\ IsFiniteSet(I)
      /\ I \subseteq Positions(t) /\ Same(D, I, s, t)
      /\ b.mapping = NoMapping /\ b.modifications \in SUBSET Nat /\ b.moves \in Seq(MoveRecord)
      /\ MovesFit(b.moves, D, I, s, t)
  BY FollowsFacts
<1>2. /\ E \in SUBSET Nat /\ J \in SUBSET Nat /\ IsFiniteSet(E) /\ IsFiniteSet(J)
      /\ J \subseteq Positions(u) /\ Same(E, J, t, u)
  BY FollowsFacts
<1>3. /\ older \in Seq(MoveRecord) /\ a.moves \in Seq(MoveRecord)
      /\ OldFits(older, b, c, Len(b.moves)) /\ NewerFits(a.moves, b, c, Len(b.moves))
  BY DEF Merging, MergeStates
<1>4. NewerChosen(newer, a.moves, b) /\ MovesFit(newer, E, J, t, u)
  BY <1>3, NewerIs
<1>5. MovesFit(older, R, Q, s, u)
  BY <1>3, OldMovesFit
<1> HIDE DEF newer
<1>6. newer \in Seq(MoveRecord) /\ \A l \in DOMAIN newer : newer[l].from \notin I
  BY <1>4 DEF NewerChosen
<1>7. /\ based \in Seq(MoveRecord) /\ DOMAIN based = DOMAIN newer
      /\ \A l \in DOMAIN newer : based[l].to = newer[l].to /\ based[l].from \notin D
      /\ MovesFit(based, R, Q, s, u)
  BY <1>4, <1>6, RebasedFits
<1> HIDE DEF older, based
<1>8. ASSUME NEW k \in DOMAIN older, NEW l \in DOMAIN based
      PROVE  older[k].from # based[l].from /\ older[k].to # based[l].to
  <2>1. PICK r \in DOMAIN b.moves :
             older[k].from = b.moves[r].from /\ Goes(c, b.moves[r].to, older[k].to)
    BY <1>3 DEF OldFits
  <2>2. b.moves[r].from \in D /\ b.moves[r].to \in I
    BY <1>1 DEF MovesFit
  <2>3. older[k].from # based[l].from
    BY <1>7, <2>1, <2>2
  <2>4. PICK p \in DOMAIN a.moves : newer[l] = a.moves[p]
    BY <1>4, <1>7 DEF NewerChosen
  <2>5. PICK q \in DOMAIN c.moves : a.moves[p] = c.moves[q]
    BY <1>3 DEF NewerFits
  <2>6. Goes(c, newer[l].from, newer[l].to)
    BY <2>4, <2>5 DEF Goes
  <2>7. newer[l].from \notin I /\ newer[l].from \in Nat
    BY <1>6, <1>7, RowsFacts, MoveFields
  <2>8. older[k].to # newer[l].to
    BY <1>1, <2>1, <2>2, <2>6, <2>7, GoesOnce
  <2> QED
    BY <1>7, <2>3, <2>8
<1>9. moves \in Seq(MoveRecord)
  BY <1>3, <1>5, <1>7, <1>8, MovesJoined
<1>10. MovesFit(moves, R, Q, s, u)
  BY <1>3, <1>5, <1>7, <1>8, MovesJoined
<1>11. Targets(moves) = Targets(older) \cup Targets(based)
  BY <1>3, <1>5, <1>7, <1>8, MovesJoined
<1>12. Targets(based) = Targets(newer)
  BY <1>7 DEF Targets
<1>13. /\ add_shifted_by(D, I, E) = R /\ IsFiniteSet(R)
       /\ insert_at_all(erase_at_all(I, E), J) = Q
  <2> HIDE DEF D, I, E, J
  <2>1. /\ add_shifted_by(D, I, E) = MissingToo(I, D, E)
        /\ IsFiniteSet(MissingToo(I, D, E))
        /\ insert_at_all(erase_at_all(I, E), J) = MissingToo(E, J, I)
    BY <1>1, <1>2, MergedSets
  <2> QED
    BY <2>1
<1>14. R \in SUBSET Nat /\ Q \in SUBSET Nat
  <2> HIDE DEF D, I, E, J
  <2> QED
    BY <1>1, <1>2, PlaceThrough, SameTurned
<1>15. Same(R, Q, s, u)
  <2> HIDE DEF D, I, E, J
  <2> QED
    BY <1>1, <1>2, SameMerged
<1>16. Q \subseteq Positions(u)
  <2>1. ASSUME NEW j \in Q PROVE j \in Positions(u)
    <3>1. CASE j \in J
      BY <1>2, <3>1
    <3>2. CASE \E v \in I \ E : j = Through(E, J)[v]
      <4>1. PICK v \in I \ E : j = Through(E, J)[v]
        BY <3>2
      <4>2. Goes(c, v, j) /\ v \in Positions(t)
        BY <1>1, <4>1 DEF Goes
      <4> QED
        BY <4>2, GoesTo
    <3> QED
      BY <3>1, <3>2 DEF MissingToo
  <2> QED
    BY <2>1
<1>17. m = [deletions |-> R, insertions |-> Q, modifications |-> b.modifications,
            moves |-> moves, mapping |-> NoMapping]
  BY <1>1, <1>13 DEF older, based, newer, IsMerged
<1> HIDE DEF R, Q, moves
<1>18. NoMapping \in Mappings
  BY NoMappingIs
<1>19. /\ m \in Builders /\ m.deletions = R /\ m.insertions = Q
       /\ m.modifications = b.modifications /\ m.moves = moves /\ m.mapping = NoMapping
  <2> DEFINE M == b.modifications
             mapping == NoMapping
  <2>1. M \in SUBSET Nat /\ mapping \in Mappings
    BY <1>1, <1>18
  <2>2. m = [deletions |-> R, insertions |-> Q, modifications |-> M,
             moves |-> moves, mapping |-> mapping]
    BY <1>17
  <2> HIDE DEF M, mapping
  <2>3. /\ m \in Builders /\ m.deletions = R /\ m.insertions = Q
        /\ m.modifications = M /\ m.moves = moves /\ m.mapping = mapping
    BY <1>9, <1>14, <2>1, <2>2 DEF Builders
  <2> QED
    BY <2>3 DEF M, mapping
<1>20. Targets(m.moves) = Targets(a.old) \cup Targets(Newer(b, a.moves))
  BY <1>11, <1>12, <1>19 DEF older, newer
<1>21. m.insertions = MissingToo(c.deletions, c.insertions, b.insertions)
  BY <1>19 DEF Q
<1> HIDE DEF older, newer, D, I, E, J
<1> QED
  BY <1>10, <1>13, <1>15, <1>16, <1>19, <1>20, <1>21

\* Where the entries that are left from s come from.
LEMMA MergedSource ==
    ASSUME NEW b, NEW s \in Seq(Nat), NEW S, NEW t \in Seq(Nat), NEW T, Follows(b, s, S, t, T),
           NEW c, NEW u \in Seq(Nat), NEW U, Follows(c, t, T, u, U),
           NEW a, Merging(a, b, c, Len(b.moves)), NEW newer, NewerChosen(newer, a.moves, b),
           NEW j \in Positions(u),
           \/ j \notin MissingToo(c.deletions, c.insertions, b.insertions)
           \/ j \in Targets(a.old) \cup Targets(newer)
    PROVE  \E v \in Positions(t) :
               Goes(c, v, j) /\ (v \notin b.insertions \/ v \in Targets(b.moves))
<1>1. /\ b.insertions \in SUBSET Nat /\ b.insertions \subseteq Positions(t)
      /\ MovesFit(b.moves, b.deletions, b.insertions, s, t)
  BY FollowsFacts
<1>2. MovesFit(c.moves, c.deletions, c.insertions, t, u)
  BY FollowsFacts
<1>3. OldFits(a.old, b, c, Len(b.moves)) /\ NewerFits(a.moves, b, c, Len(b.moves))
  BY DEF Merging
<1>4. CASE j \notin MissingToo(c.deletions, c.insertions, b.insertions)
  BY <1>1, <1>4, GoesFrom
<1>5. CASE j \in Targets(a.old)
  <2>1. PICK i \in DOMAIN a.old : j = a.old[i].to
    BY <1>5 DEF Targets
  <2>2. PICK l \in DOMAIN b.moves : Goes(c, b.moves[l].to, a.old[i].to)
    BY <1>3 DEF OldFits
  <2>3. b.moves[l].to \in Positions(t) /\ b.moves[l].to \in Targets(b.moves)
    BY <1>1 DEF MovesFit, Targets
  <2> QED
    BY <2>1, <2>2, <2>3
<1>6. CASE j \in Targets(newer)
  <2>1. PICK l \in DOMAIN newer : j = newer[l].to
    BY <1>6 DEF Targets
  <2>2. PICK k \in DOMAIN a.moves : newer[l] = a.moves[k] /\ a.moves[k].from \notin b.insertions
    BY DEF NewerChosen
  <2>3. PICK q \in DOMAIN c.moves : a.moves[k] = c.moves[q]
    BY <1>3 DEF NewerFits
  <2>4. c.moves[q].from \in Positions(t) /\ c.moves[q].from \notin b.insertions
    BY <1>2, <2>2, <2>3 DEF MovesFit
  <2>5. Goes(c, c.moves[q].from, j)
    BY <2>1, <2>2, <2>3 DEF Goes
  <2> QED
    BY <2>4, <2>5
<1> QED
  BY <1>4, <1>5, <1>6

\* Merging keeps what the changes of two transactions mean.
LEMMA MergeFollows ==
    ASSUME NEW b, NEW s \in Seq(Nat), NEW S, NEW t \in Seq(Nat), NEW T, Follows(b, s, S, t, T),
           NEW c, NEW u \in Seq(Nat), NEW U, Follows(c, t, T, u, U)
    PROVE  Follows(merge(b, c), s, S, u, U)
<1> DEFINE a == MergedMoves(b, c)
           newer == Newer(b, a.moves)
           m == [deletions |-> add_shifted_by(b.deletions, b.insertions, c.deletions),
                 insertions |-> insert_at_all(erase_at_all(b.insertions, c.deletions), c.insertions),
                 modifications |-> b.modifications,
                 moves |-> a.old \o Rebased(b, newer),
                 mapping |-> b.mapping]
           d == clean_up_stale_moves(m)
           N == shift_for_insert_at_all(erase_at_all(b.modifications, c.deletions), c.insertions)
                  \cup a.modified \cup Followed(b, newer)
           x == [d EXCEPT !.modifications = N]
<1>1. merge(b, c) = IF empty(c) THEN b ELSE IF empty(b) THEN c
                    ELSE [d EXCEPT !.modifications =
                            shift_for_insert_at_all(erase_at_all(@, c.deletions), c.insertions)
                              \cup a.modified \cup Followed(b, newer)]
  BY DEF merge, Newer, Rebased
<1>2. Merging(a, b, c, Len(b.moves))
  BY FollowsFacts, MergedMovesFit
<1> HIDE DEF a
<1>3. NewerChosen(newer, a.moves, b)
  <2>1. a.moves \in Seq(MoveRecord) /\ NewerFits(a.moves, b, c, Len(b.moves))
    BY <1>2 DEF Merging, MergeStates
  <2> QED
    BY <2>1, NewerIs
<1>4. IsMerged(m, a, b, c)
  BY DEF IsMerged
<1> HIDE DEF m
<1>5. /\ m \in Builders /\ IsFiniteSet(m.deletions) /\ m.insertions \subseteq Positions(u)
      /\ m.insertions = MissingToo(c.deletions, c.insertions, b.insertions)
      /\ m.modifications = b.modifications /\ m.mapping = NoMapping
      /\ Targets(m.moves) = Targets(a.old) \cup Targets(newer)
      /\ Same(m.deletions, m.insertions, s, u)
      /\ MovesFit(m.moves, m.deletions, m.insertions, s, u)
  BY <1>2, <1>4, MergedBuilder
<1>6. Cleaning(d, m, Len(m.moves), s, u)
  BY <1>5, CleanedUp
<1> HIDE DEF d
<1>7. /\ d \in Builders /\ d.modifications = b.modifications /\ d.mapping = NoMapping
      /\ d.deletions \subseteq m.deletions /\ d.insertions \subseteq m.insertions
      /\ Same(d.deletions, d.insertions, s, u)
      /\ m.insertions \ d.insertions \subseteq Targets(m.moves)
      /\ \A i \in DOMAIN d.moves : \E l \in DOMAIN m.moves :
             /\ d.moves[i] = m.moves[l]
             /\ d.moves[i].from \in d.deletions /\ d.moves[i].to \in d.insertions
      /\ \A i, j \in DOMAIN d.moves :
             i # j => d.moves[i].from # d.moves[j].from /\ d.moves[i].to # d.moves[j].to
  BY <1>5, <1>6 DEF Cleaning
<1>8. MovesFit(d.moves, d.deletions, d.insertions, s, u)
  BY <1>5, <1>7 DEF MovesFit
<1>9. Targets(d.moves) \subseteq Targets(m.moves)
  BY <1>7 DEF Targets
<1>10. ModsMerged(N, b, c, t, u)
  BY <1>2, <1>3, MergedMods
<1>11. N \in SUBSET Nat /\ N \subseteq Positions(u)
  <2> HIDE DEF N
  <2> QED
    BY <1>10, PositionFacts DEF ModsMerged
<1>12. ~empty(c) /\ ~empty(b) => merge(b, c) = x
  <2>1. shift_for_insert_at_all(erase_at_all(d.modifications, c.deletions), c.insertions)
          \cup a.modified \cup Followed(b, newer) = N
    BY <1>7
  <2>2. ~empty(c) /\ ~empty(b) => merge(b, c) = [d EXCEPT !.modifications =
            shift_for_insert_at_all(erase_at_all(d.modifications, c.deletions), c.insertions)
              \cup a.modified \cup Followed(b, newer)]
    BY <1>1
  <2> HIDE DEF N, newer
  <2> QED
    BY <2>1, <2>2
<1> HIDE DEF N, newer
<1>13. /\ x \in Builders /\ x.deletions = d.deletions /\ x.insertions = d.insertions
       /\ x.modifications = N /\ x.moves = d.moves /\ x.mapping = NoMapping
  BY <1>7, <1>11 DEF Builders
<1> HIDE DEF x
<1>14. ASSUME NEW j \in Positions(u), j \notin d.insertions \/ j \in Targets(d.moves)
       PROVE  At0(u, j) \in U <=> At0(u, j) \in S \/ j \in N
  <2>1. \/ j \notin MissingToo(c.deletions, c.insertions, b.insertions)
        \/ j \in Targets(a.old) \cup Targets(newer)
    BY <1>5, <1>7, <1>9, <1>14
  <2>2. PICK v \in Positions(t) :
             Goes(c, v, j) /\ (v \notin b.insertions \/ v \in Targets(b.moves))
    BY <1>2, <1>3, <2>1, MergedSource
  <2>3. At0(u, j) = At0(t, v)
    BY <2>2, GoesTo
  <2>4. j \in N <=> j \in c.modifications \/ v \in b.modifications
    BY <1>10, <2>2 DEF ModsMerged
  <2>5. At0(t, v) \in T <=> At0(t, v) \in S \/ v \in b.modifications
    BY <2>2 DEF Follows, ModsFit
  <2>6. j \notin c.insertions \/ j \in Targets(c.moves)
    <3>1. ASSUME v \notin c.deletions, j = Through(c.deletions, c.insertions)[v]
          PROVE  j \notin c.insertions
      <4> DEFINE D == c.deletions
                 J == c.insertions
      <4>1. D \in SUBSET Nat /\ J \in SUBSET Nat /\ IsFiniteSet(D) /\ IsFiniteSet(J)
        BY FollowsFacts
      <4>2. v \in Nat \ D /\ j = Through(D, J)[v]
        BY <3>1, PositionFacts
      <4> HIDE DEF D, J
      <4>3. Through(D, J) \in [Nat \ D -> Nat \ J]
        BY <4>1, ThroughFacts
      <4>4. j \notin J
        BY <4>2, <4>3
      <4> QED
        BY <4>4 DEF J
    <3> QED
      BY <2>2, <3>1 DEF Goes, Targets
  <2>7. At0(u, j) \in U <=> At0(u, j) \in T \/ j \in c.modifications
    BY <2>6 DEF Follows, ModsFit
  <2> QED
    BY <2>3, <2>4, <2>5, <2>7
<1>15. Follows(x, s, S, u, U)
  <2>1. BuilderFits(x, u)
    BY <1>5, <1>7, <1>11, <1>13, FS_Subset DEF BuilderFits
  <2>2. ModsFit(x.modifications, x.insertions, Targets(x.moves), u, S, U)
    BY <1>13, <1>14 DEF ModsFit
  <2> QED
    BY <1>7, <1>8, <1>13, <2>1, <2>2 DEF Follows
<1>16. CASE empty(c)
  BY <1>1, <1>16, MergeNothing
<1>17. CASE ~empty(c) /\ empty(b)
  BY <1>1, <1>17, MergeFirst
<1>18. CASE ~empty(c) /\ ~empty(b)
  BY <1>12, <1>15, <1>18
<1> QED
  BY <1>16, <1>17, <1>18

-----------------------------------------------------------------------------
(* The invariant                                                             *)

\* What is recorded of a transaction follows from s to t.
Fits(k, b, s, S, t, T) ==
    IF k # "list" THEN TableFollows(b, s, S, t, T) ELSE Follows(b, s, S, t, T)

\* The merged changes lead from what the observer knows to the entries `mid` at the
\* beginning of the transaction, the ones of the transaction from there to now.
Leads(mid, was) ==
    /\ mid \in Seq(Nat) /\ Len(mid) <= MaxLen
    /\ Follows(changes, old, {}, mid, was)
    /\ Fits(kind, building, mid, was, cur, touched)

IInv ==
    /\ old \in Seq(Nat) /\ Len(old) <= MaxLen
    /\ cur \in Seq(Nat) /\ Len(cur) <= MaxLen /\ IsInjective(cur)
    /\ \E mid, was : Leads(mid, was)

\* With the changes b, the entries u and the modified entries T the transaction goes on.
Keeps(b, u, T) ==
    /\ u \in Seq(Nat) /\ Len(u) <= MaxLen /\ IsInjective(u)
    /\ \A mid \in Seq(Nat) : \A was :
           Len(mid) <= MaxLen /\ Fits(kind, building, mid, was, cur, touched) =>
               Fits(kind, b, mid, was, u, T)

LEMMA Kept ==
    ASSUME IInv, NEW b, NEW u, Change(b, u), Keeps(b, u, touched')
    PROVE  IInv'
<1>1. PICK mid, was : Leads(mid, was)
  BY DEF IInv
<1>2. kind' = kind /\ old' = old /\ changes' = changes /\ building' = b /\ cur' = u
  BY DEF Change
<1>3. mid \in Seq(Nat) /\ Len(mid) <= MaxLen /\ Follows(changes, old, {}, mid, was)
  BY <1>1 DEF Leads
<1>4. Fits(kind, b, mid, was, u, touched')
  BY <1>1, <1>3 DEF Keeps, Leads
<1>5. Leads(mid, was)'
  BY <1>2, <1>3, <1>4 DEF Leads
<1>6. u \in Seq(Nat) /\ Len(u) <= MaxLen /\ IsInjective(u)
  BY DEF Keeps
<1> QED
  BY <1>2, <1>5, <1>6 DEF IInv

\* Nothing recorded, nothing changed.
LEMMA NothingFits ==
    ASSUME NEW k, NEW t \in Seq(Nat), NEW T
    PROVE  Fits(k, Empty, t, T, t, T)
BY EmptyFollows, TableEmptyFollows DEF Fits

LEMMA NothingFollows ==
    ASSUME NEW k, NEW s \in Seq(Nat), NEW S, NEW t \in Seq(Nat), NEW T, Fits(k, Empty, s, S, t, T)
    PROVE  Follows(Empty, s, S, t, T)
<1>1. CASE k = "list"
  BY <1>1 DEF Fits
<1>2. CASE k # "list"
  <2>1. TableFollows(Empty, s, S, t, T)
    BY <1>2 DEF Fits
  <2>2. /\ Empty.deletions = {} /\ Empty.insertions = {} /\ Empty.modifications = {}
        /\ Empty.moves = <<>> /\ Empty.mapping = NoMapping
    BY EmptyIs
  <2>3. Positions(s) = Positions(t) /\ \A j \in Positions(t) : At0(s, j) = At0(t, j)
    BY <2>1, <2>2 DEF TableFollows
  <2>4. /\ Len(s) \in Nat /\ Len(t) \in Nat /\ Positions(t) \in SUBSET Nat
        /\ Positions(s) = 0..(Len(s) - 1) /\ Positions(t) = 0..(Len(t) - 1)
    BY PositionFacts DEF Positions
  <2>5. Len(s) = Len(t)
    <3>1. \A i \in Nat : i < Len(s) <=> i < Len(t)
      BY <2>3, PositionFacts
    <3>2. ~(Len(s) < Len(t)) /\ ~(Len(t) < Len(s))
      BY <2>4, <3>1
    <3> QED
      BY <2>4, <3>2
  <2>6. Same({}, {}, s, t)
    <3>1. \A i, j \in Positions(t) : unshift({}, i) = unshift({}, j) => i = j
      BY <2>4, NoneFree
    <3> QED
      BY <2>3, <2>5, <3>1 DEF Same
  <2>7. MovesFit(<<>>, {}, {}, s, t) /\ Targets(<<>>) = {}
    BY NoMoves
  <2>8. DOMAIN NoMapping = {}
    BY NoMappingIs
  <2> QED
    BY <2>1, <2>2, <2>6, <2>7, <2>8 DEF TableFollows, Follows
<1> QED
  BY <1>1, <1>2

\* The observer knows all there is.
LEMMA Told ==
    ASSUME NEW n \in Nat, NEW t, t = [k \in 1..n |-> k]
    PROVE  /\ t \in Seq(Nat) /\ Len(t) = n /\ IsInjective(t)
           /\ Follows(Empty, t, {}, t, {})
           /\ \A k : Fits(k, Empty, t, {}, t, {})
<1>1. t \in Seq(Nat) /\ Len(t) = n
  <2>1. t \in [1..n -> Nat] /\ DOMAIN t = 1..n
    OBVIOUS
  <2> QED
    BY <2>1
<1>2. IsInjective(t)
  BY DEF IsInjective
<1> QED
  BY <1>1, <1>2, EmptyFollows, NothingFits

LEMMA AtFirst == Init => IInv
<1> SUFFICES ASSUME Init PROVE IInv
  OBVIOUS
<1>1. PICK n \in 0..MaxLen : old = [k \in 1..n |-> k]
  BY DEF Init
<1>2. cur = old /\ touched = {} /\ building = Empty /\ changes = Empty
  BY DEF Init
<1>3. n \in Nat /\ n <= MaxLen
  BY BoundsAssumption, <1>1
<1>4. /\ old \in Seq(Nat) /\ Len(old) = n /\ IsInjective(old)
      /\ Follows(Empty, old, {}, old, {}) /\ Fits(kind, Empty, old, {}, old, {})
  BY <1>1, <1>3, Told
<1>5. Leads(old, {})
  BY <1>2, <1>3, <1>4 DEF Leads
<1> QED
  BY <1>2, <1>3, <1>4, <1>5 DEF IInv

LEMMA Delivered ==
    ASSUME IInv, Deliver
    PROVE  IInv'
<1>1. cur \in Seq(Nat) /\ Len(cur) \in Nat /\ Len(cur) <= MaxLen /\ DOMAIN cur = 1..Len(cur)
  BY RowsFacts DEF IInv
<1>2. /\ cur' = [k \in 1..Len(cur) |-> k] /\ old' = cur' /\ touched' = {}
      /\ changes' = Empty /\ building' = Empty
  BY <1>1 DEF Deliver
<1>3. /\ cur' \in Seq(Nat) /\ Len(cur') = Len(cur) /\ IsInjective(cur')
      /\ Follows(Empty, cur', {}, cur', {}) /\ Fits(kind', Empty, cur', {}, cur', {})
  BY <1>1, <1>2, Told
<1>4. /\ old' \in Seq(Nat) /\ Len(old') <= MaxLen /\ cur' \in Seq(Nat) /\ Len(cur') <= MaxLen
  BY <1>1, <1>2, <1>3
<1>5. Follows(changes', old', {}, cur', {}) /\ Fits(kind', building', cur', {}, cur', touched')
  BY <1>2, <1>3
<1>6. Leads(cur, {})'
  BY <1>4, <1>5 DEF Leads
<1>7. \E mid, was : Leads(mid, was)'
  BY <1>6 DEF Leads
<1> QED
  BY <1>3, <1>4, <1>7 DEF IInv

LEMMA Committed ==
    ASSUME IInv, Commit
    PROVE  IInv'
<1>1. PICK mid, was : Leads(mid, was)
  BY DEF IInv
<1>2. /\ changes' = merge(changes, Parsed(building)) /\ building' = Empty
      /\ kind' = kind /\ old' = old /\ cur' = cur /\ touched' = touched
  BY DEF Commit
<1>3. /\ old \in Seq(Nat) /\ Len(old) <= MaxLen
      /\ cur \in Seq(Nat) /\ Len(cur) <= MaxLen /\ IsInjective(cur)
  BY DEF IInv
<1>4. /\ mid \in Seq(Nat) /\ Follows(changes, old, {}, mid, was)
      /\ Fits(kind, building, mid, was, cur, touched)
  BY <1>1 DEF Leads
<1>5. Follows(Parsed(building), mid, was, cur, touched)
  <2>1. CASE InTable
    BY <1>3, <1>4, <2>1, ParseFollows DEF Fits, Parsed, InTable
  <2>2. CASE ~InTable
    BY <1>3, <1>4, <2>2, CleanFollows DEF Fits, Parsed, InTable
  <2> QED
    BY <2>1, <2>2
<1>6. Follows(changes', old, {}, cur, touched)
  BY <1>2, <1>3, <1>4, <1>5, MergeFollows
<1>7. Fits(kind, Empty, cur, touched, cur, touched)
  BY <1>3, NothingFits
<1>8. \E v, w : Leads(v, w)'
  <2>1. /\ cur \in Seq(Nat) /\ Len(cur) <= MaxLen
        /\ Follows(changes', old', {}, cur, touched)
        /\ Fits(kind', building', cur, touched, cur', touched')
    BY <1>2, <1>3, <1>6, <1>7
  <2> QED
    BY <2>1 DEF Leads
<1> QED
  BY <1>2, <1>3, <1>8 DEF IInv

-----------------------------------------------------------------------------
(* Each instruction of the log keeps the invariant                           *)

LEMMA FreshEntry ==
    ASSUME old \in Seq(Nat), Len(old) <= MaxLen, cur \in Seq(Nat), Len(cur) <= MaxLen
    PROVE  Unused \in Nat /\ Unused \notin Entries(cur) /\ Unused \notin Entries(old)
<1> DEFINE n == 2 * MaxLen + 1
           A == ToSet(old)
           B == ToSet(cur)
           W == (1..n) \ (A \cup B)
<1>1. MaxLen \in Nat /\ n \in Nat
  BY BoundsAssumption
<1>2. ASSUME NEW s \in Seq(Nat), Len(s) <= MaxLen
      PROVE  IsFiniteSet(ToSet(s)) /\ Cardinality(ToSet(s)) \in Nat /\ Cardinality(ToSet(s)) <= MaxLen
  <2>1. Len(s) \in Nat /\ DOMAIN s = 1..Len(s)
    BY RowsFacts
  <2>2. s \in Surjection(1..Len(s), ToSet(s))
    BY <2>1 DEF Surjection, ToSet
  <2>3. IsFiniteSet(1..Len(s)) /\ Cardinality(1..Len(s)) = Len(s)
    <3>1. 1 \in Int /\ Len(s) \in Int
      BY <2>1
    <3>2. Cardinality(1..Len(s)) = IF 1 > Len(s) THEN 0 ELSE Len(s) - 1 + 1
      BY <3>1, FS_Interval
    <3>3. IsFiniteSet(1..Len(s))
      BY <3>1, FS_Interval
    <3> QED
      BY <2>1, <3>2, <3>3
  <2>4. IsFiniteSet(ToSet(s)) /\ Cardinality(ToSet(s)) <= Cardinality(1..Len(s))
    BY <2>2, <2>3, FS_Surjection
  <2>5. Cardinality(ToSet(s)) \in Nat
    BY <2>4, FS_CardinalityType
  <2> QED
    BY <1>1, <1>2, <2>1, <2>3, <2>4, <2>5
<1>3. /\ IsFiniteSet(A) /\ Cardinality(A) \in Nat /\ Cardinality(A) <= MaxLen
      /\ IsFiniteSet(B) /\ Cardinality(B) \in Nat /\ Cardinality(B) <= MaxLen
  BY <1>2
<1> HIDE DEF A, B, n
<1>4. IsFiniteSet(A \cup B) /\ Cardinality(A \cup B) \in Nat /\ Cardinality(A \cup B) <= 2 * MaxLen
  <2>1. /\ IsFiniteSet(A \cup B) /\ IsFiniteSet(A \cap B)
        /\ Cardinality(A \cup B) = Cardinality(A) + Cardinality(B) - Cardinality(A \cap B)
    BY <1>3, FS_Union, FS_Intersection
  <2>2. Cardinality(A \cap B) \in Nat /\ Cardinality(A \cup B) \in Nat
    BY <2>1, FS_CardinalityType
  <2> QED
    BY <1>1, <1>3, <2>1, <2>2
<1>5. W # {}
  <2>1. SUFFICES ASSUME W = {} PROVE FALSE
    OBVIOUS
  <2>2. 1..n \subseteq A \cup B
    BY <2>1
  <2>3. Cardinality(1..n) <= Cardinality(A \cup B)
    BY <1>4, <2>2, FS_Subset
  <2>4. Cardinality(1..n) = n
    <3>1. 1 \in Int /\ n \in Int
      BY <1>1
    <3>2. Cardinality(1..n) = IF 1 > n THEN 0 ELSE n - 1 + 1
      BY <3>1, FS_Interval
    <3> QED
      BY <1>1, <3>2 DEF n
  <2> QED
    BY <1>1, <1>4, <2>3, <2>4 DEF n
<1>6. W \in SUBSET Nat
  BY <1>1
<1>7. PICK x \in W : \A y \in W : x <= y
  BY <1>5, <1>6, LeastNatural
<1>8. Min(W) \in W
  BY <1>7 DEF Min
<1>9. Unused = Min(W)
  BY DEF Unused, Entries, A, B, n
<1> HIDE DEF W
<1>10. Unused \in W /\ W \in SUBSET Nat
  BY <1>6, <1>8, <1>9
<1> QED
  BY <1>10 DEF W, A, B, Entries

LEMMA InvFacts ==
    ASSUME IInv
    PROVE  /\ MaxLen \in Nat /\ cur \in Seq(Nat) /\ Len(cur) \in Nat /\ Len(cur) <= MaxLen
           /\ IsInjective(cur) /\ Rows = Positions(cur)
BY BoundsAssumption, RowsFacts DEF IInv, Rows

LEMMA InsertKeeps ==
    ASSUME IInv, Insert
    PROVE  IInv'
<1>1. PICK i \in (IF InTable THEN {Len(cur)} ELSE 0 .. Len(cur)) :
           Change(insert(building, i, 1), InsertAt(cur, i + 1, Unused))
  BY DEF Insert
<1>2. Len(cur) < MaxLen /\ touched' = touched
  BY DEF Insert
<1>3. /\ MaxLen \in Nat /\ cur \in Seq(Nat) /\ Len(cur) \in Nat /\ IsInjective(cur)
      /\ old \in Seq(Nat) /\ Len(old) <= MaxLen
  BY InvFacts DEF IInv
<1>4. Unused \in Nat /\ Unused \notin ToSet(cur)
  BY <1>2, <1>3, FreshEntry DEF Entries
<1>5. i \in 0..Len(cur) /\ (InTable => i = Len(cur))
  BY <1>1, <1>3
<1> DEFINE e == Unused
           u == InsertAt(cur, i + 1, e)
<1> HIDE DEF e
<1>6. u \in Seq(Nat) /\ Longer(cur, i, u) /\ At0(u, i) = e
  BY <1>3, <1>4, <1>5, InsertedEntry DEF e
<1> HIDE DEF u
<1>7. IsInjective(u)
  BY <1>3, <1>4, <1>5, <1>6, LongerDistinct DEF e
<1>8. Len(u) <= MaxLen
  BY <1>2, <1>3, <1>6 DEF Longer
<1>9. ASSUME NEW mid \in Seq(Nat), NEW was, Fits(kind, building, mid, was, cur, touched)
      PROVE  Fits(kind, insert(building, i, 1), mid, was, u, touched')
  <2>1. CASE kind # "list"
    <3>1. i = Len(cur) /\ TableFollows(building, mid, was, cur, touched)
      BY <1>5, <1>9, <2>1 DEF Fits, InTable
    <3>2. TableFollows(insert(building, i, 1), mid, was, u, touched)
      BY <1>3, <1>6, <3>1, TableInsertFollows
    <3> QED
      BY <1>2, <2>1, <3>2 DEF Fits
  <2>2. CASE kind = "list"
    <3>1. Follows(building, mid, was, cur, touched)
      BY <1>9, <2>2 DEF Fits
    <3>2. Follows(insert(building, i, 1), mid, was, u, touched)
      BY <1>3, <1>5, <1>6, <3>1, InsertFollows
    <3> QED
      BY <1>2, <2>2, <3>2 DEF Fits
  <2> QED
    BY <2>1, <2>2
<1>10. Keeps(insert(building, i, 1), u, touched')
  BY <1>6, <1>7, <1>8, <1>9 DEF Keeps
<1>11. Change(insert(building, i, 1), u)
  BY <1>1 DEF u, e
<1> QED
  BY <1>10, <1>11, Kept

LEMMA ModifyKeeps ==
    ASSUME IInv, Modify
    PROVE  IInv'
<1>1. PICK i \in Rows : Change(modify(building, i), cur) /\ touched' = touched \cup {At0(cur, i)}
  BY DEF Modify
<1>2. cur \in Seq(Nat) /\ Len(cur) <= MaxLen /\ IsInjective(cur) /\ i \in Positions(cur)
  BY InvFacts
<1>3. ASSUME NEW mid \in Seq(Nat), NEW was, Fits(kind, building, mid, was, cur, touched)
      PROVE  Fits(kind, modify(building, i), mid, was, cur, touched')
  BY <1>1, <1>2, <1>3, ModifyFollows, TableModifyFollows DEF Fits
<1>4. Keeps(modify(building, i), cur, touched')
  BY <1>2, <1>3 DEF Keeps
<1> QED
  BY <1>1, <1>4, Kept

LEMMA SwapInListKeeps ==
    ASSUME IInv, link_list_swap
    PROVE  IInv'
<1>1. PICK i \in Rows, j \in Rows :
           /\ Change(modify(modify(building, i), j), cur)
           /\ touched' = touched \cup {At0(cur, i), At0(cur, j)}
  BY DEF link_list_swap
<1>2. cur \in Seq(Nat) /\ Len(cur) <= MaxLen /\ IsInjective(cur)
      /\ i \in Positions(cur) /\ j \in Positions(cur)
  BY InvFacts
<1>3. kind = "list" /\ touched' = (touched \cup {At0(cur, i)}) \cup {At0(cur, j)}
  BY <1>1 DEF link_list_swap
<1>4. ASSUME NEW mid \in Seq(Nat), NEW was, Fits(kind, building, mid, was, cur, touched)
      PROVE  Fits(kind, modify(modify(building, i), j), mid, was, cur, touched')
  <2>1. Follows(building, mid, was, cur, touched)
    BY <1>3, <1>4 DEF Fits
  <2>2. Follows(modify(building, i), mid, was, cur, touched \cup {At0(cur, i)})
    BY <1>2, <2>1, ModifyFollows
  <2>3. Follows(modify(modify(building, i), j), mid, was, cur, touched')
    BY <1>2, <1>3, <2>2, ModifyFollows
  <2> QED
    BY <1>3, <2>3 DEF Fits
<1>5. Keeps(modify(modify(building, i), j), cur, touched')
  BY <1>2, <1>4 DEF Keeps
<1> QED
  BY <1>1, <1>5, Kept

LEMMA EraseKeeps ==
    ASSUME IInv, link_list_erase
    PROVE  IInv'
<1>1. PICK i \in Rows : Change(erase(building, i), RemoveAt(cur, i + 1))
  BY DEF link_list_erase
<1>2. kind = "list" /\ touched' = touched
  BY DEF link_list_erase
<1>3. /\ MaxLen \in Nat /\ cur \in Seq(Nat) /\ Len(cur) \in Nat /\ Len(cur) <= MaxLen
      /\ IsInjective(cur) /\ i \in Positions(cur)
  BY InvFacts
<1> DEFINE u == RemoveAt(cur, i + 1)
<1>4. u \in Seq(Nat) /\ Shorter(cur, i, u)
  BY <1>3, RemovedEntry
<1>5. Change(erase(building, i), u)
  BY <1>1
<1> HIDE DEF u
<1>6. IsInjective(u)
  BY <1>3, <1>4, ShorterDistinct
<1>7. Len(u) <= MaxLen
  BY <1>3, <1>4 DEF Shorter
<1>8. ASSUME NEW mid \in Seq(Nat), NEW was, Fits(kind, building, mid, was, cur, touched)
      PROVE  Fits(kind, erase(building, i), mid, was, u, touched')
  BY <1>2, <1>3, <1>4, <1>8, EraseFollows DEF Fits
<1>9. Keeps(erase(building, i), u, touched')
  BY <1>4, <1>6, <1>7, <1>8 DEF Keeps
<1> QED
  BY <1>5, <1>9, Kept

LEMMA MoveKeeps ==
    ASSUME IInv, link_list_move
    PROVE  IInv'
<1>1. PICK from \in Rows, to \in Rows : Change(move(building, from, to), Moved(cur, from, to))
  BY DEF link_list_move
<1>2. kind = "list" /\ touched' = touched
  BY DEF link_list_move
<1>3. /\ cur \in Seq(Nat) /\ Len(cur) <= MaxLen
      /\ IsInjective(cur) /\ from \in Positions(cur) /\ to \in Positions(cur)
  BY InvFacts
<1> DEFINE u == Moved(cur, from, to)
<1>4. u \in Seq(Nat) /\ Passes(cur, from, to, u)
  BY <1>3, MovedPasses
<1>5. Change(move(building, from, to), u)
  BY <1>1
<1> HIDE DEF u
<1>6. IsInjective(u) /\ Len(u) <= MaxLen
  BY <1>3, <1>4, PassesDistinct DEF Passes
<1>7. ASSUME NEW mid \in Seq(Nat), NEW was, Fits(kind, building, mid, was, cur, touched)
      PROVE  Fits(kind, move(building, from, to), mid, was, u, touched')
  BY <1>2, <1>3, <1>4, <1>7, MoveFollows DEF Fits
<1>8. Keeps(move(building, from, to), u, touched')
  BY <1>4, <1>6, <1>7 DEF Keeps
<1> QED
  BY <1>5, <1>8, Kept

LEMMA NoRows ==
    <<>> \in Seq(Nat) /\ Len(<<>>) = 0 /\ IsInjective(<<>>)
<1>1. <<>> \in Seq(Nat) /\ Len(<<>>) = 0 /\ DOMAIN <<>> = {}
  OBVIOUS
<1> QED
  BY <1>1 DEF IsInjective

LEMMA ClearKeeps ==
    ASSUME IInv, link_list_clear
    PROVE  IInv'
<1>1. Change(clear(building, Len(cur)), <<>>) /\ kind = "list" /\ touched' = touched
  BY DEF link_list_clear
<1>2. MaxLen \in Nat /\ MaxRows \in Nat /\ MaxLen <= MaxRows /\ cur \in Seq(Nat) /\ Len(cur) \in Nat
  BY BoundsAssumption, InvFacts
<1>3. ASSUME NEW mid \in Seq(Nat), NEW was, Len(mid) <= MaxLen,
             Fits(kind, building, mid, was, cur, touched)
      PROVE  Fits(kind, clear(building, Len(cur)), mid, was, <<>>, touched')
  <2> DEFINE D == building.deletions
             I == building.insertions
             n == IF Len(cur) = MaxRows THEN MaxRows ELSE Len(cur) + Cardinality(D) - Cardinality(I)
  <2>1. Follows(building, mid, was, cur, touched)
    BY <1>1, <1>3 DEF Fits
  <2>2. /\ D \in SUBSET Nat /\ I \in SUBSET Nat /\ IsFiniteSet(D) /\ Same(D, I, mid, cur)
        /\ I \subseteq Positions(cur)
    BY <1>2, <2>1, FollowsFacts
  <2>3. clear(building, Len(cur)) = [Empty EXCEPT !.deletions = first(n)]
    BY DEF clear
  <2>4. Len(mid) \in Nat
    BY RowsFacts
  <2>5. /\ Len(cur) + Cardinality(D) - Cardinality(I) \in Nat
        /\ Len(mid) <= Len(cur) + Cardinality(D) - Cardinality(I)
    <3> HIDE DEF D, I
    <3> QED
      BY <1>2, <2>2, ClearedSize
  <2>6. n \in Nat /\ Len(mid) <= n
    <3>1. CASE Len(cur) = MaxRows
      BY <1>2, <1>3, <2>4, <3>1
    <3>2. CASE Len(cur) # MaxRows
      <4> HIDE DEF D, I
      <4> QED
        BY <2>5, <3>2
    <3> QED
      BY <3>1, <3>2
  <2> HIDE DEF n
  <2>7. Follows([Empty EXCEPT !.deletions = first(n)], mid, was, <<>>, touched)
    BY <2>6, ClearFollows
  <2> QED
    BY <1>1, <2>3, <2>7 DEF Fits
<1>4. Keeps(clear(building, Len(cur)), <<>>, touched')
  BY <1>2, <1>3, NoRows DEF Keeps
<1> QED
  BY <1>1, <1>4, Kept

LEMMA ClearTableKeeps ==
    ASSUME IInv, clear_table
    PROVE  IInv'
<1>1. Change(clear(building, MaxRows), <<>>) /\ kind # "list" /\ touched' = touched
  BY DEF clear_table, InTable
<1>2. MaxLen \in Nat /\ MaxRows \in Nat /\ MaxLen <= MaxRows
  BY BoundsAssumption
<1>3. clear(building, MaxRows) = [Empty EXCEPT !.deletions = first(MaxRows)]
  BY DEF clear
<1>4. ASSUME NEW mid \in Seq(Nat), NEW was, Len(mid) <= MaxLen,
             Fits(kind, building, mid, was, cur, touched)
      PROVE  Fits(kind, clear(building, MaxRows), mid, was, <<>>, touched')
  <2>1. Len(mid) \in Nat
    BY RowsFacts
  <2>2. Len(mid) <= MaxRows
    BY <1>2, <1>4, <2>1
  <2>3. TableFollows([Empty EXCEPT !.deletions = first(MaxRows)], mid, was, <<>>, touched)
    BY <1>2, <2>2, TableClearFollows
  <2> QED
    BY <1>1, <1>3, <2>3 DEF Fits
<1>5. Keeps(clear(building, MaxRows), <<>>, touched')
  BY <1>2, <1>4, NoRows DEF Keeps
<1> QED
  BY <1>1, <1>5, Kept

\* Rows of a subtable change places in two moves.
LEMMA SubtableFollows ==
    ASSUME NEW b, NEW s \in Seq(Nat), NEW S, NEW t \in Seq(Nat), NEW T, Follows(b, s, S, t, T),
           NEW i \in Positions(t), NEW j \in Positions(t), i < j
    PROVE  Follows(IF i + 1 = j THEN move(b, i, j) ELSE move(move(b, i, j), j - 1, i),
                   s, S, Swapped(t, i, j), T)
<1> DEFINE u == Swapped(t, i, j)
           v == Moved(t, i, j)
<1>1. i \in Nat /\ j \in Nat /\ i # j
  BY PositionFacts
<1>2. u \in Seq(Nat)
  BY <1>1, SwappedEntries
<1>3. CASE i + 1 = j
  <2>1. Passes(t, i, j, u)
    BY <1>3, SwappedPasses
  <2> HIDE DEF u
  <2>2. Follows(move(b, i, j), s, S, u, T)
    BY <1>2, <2>1, MoveFollows
  <2> QED
    BY <1>3, <2>2 DEF u
<1>4. CASE i + 1 # j
  <2>1. j - 1 \in Positions(t) /\ Passes(v, j - 1, i, u)
    BY <1>4, SwappedPasses
  <2>2. v \in Seq(Nat) /\ Passes(t, i, j, v)
    BY MovedPasses
  <2> HIDE DEF u, v
  <2>3. Positions(v) = Positions(t)
    BY <2>2, PassesFacts
  <2>4. Follows(move(b, i, j), s, S, v, T)
    BY <2>2, MoveFollows
  <2> DEFINE k == j - 1
             c == move(b, i, j)
  <2>5. k \in Positions(v) /\ i \in Positions(v) /\ Passes(v, k, i, u) /\ Follows(c, s, S, v, T)
    BY <2>1, <2>3, <2>4
  <2> HIDE DEF k, c
  <2>6. Follows(move(c, k, i), s, S, u, T)
    BY <1>2, <2>2, <2>5, MoveFollows
  <2> QED
    BY <1>4, <2>6 DEF u, k, c
<1> QED
  BY <1>3, <1>4

LEMMA SwapRowsKeeps ==
    ASSUME IInv, swap_rows
    PROVE  IInv'
<1>1. PICK i \in Rows, j \in Rows :
           /\ i < j
           /\ IF InTable THEN Change(swap(building, i, j), Swapped(cur, i, j))
              ELSE SwapInSubtable(i, j)
  BY DEF swap_rows
<1>2. /\ cur \in Seq(Nat) /\ Len(cur) <= MaxLen /\ IsInjective(cur)
      /\ i \in Positions(cur) /\ j \in Positions(cur)
  BY InvFacts
<1>3. touched' = touched /\ i # j
  <2>1. i \in Nat /\ j \in Nat
    BY <1>2, PositionFacts
  <2> QED
    BY <1>1, <2>1 DEF swap_rows
<1> DEFINE u == Swapped(cur, i, j)
           c == IF i + 1 = j THEN move(building, i, j) ELSE move(move(building, i, j), j - 1, i)
<1>4. u \in Seq(Nat) /\ Len(u) = Len(cur) /\ IsInjective(u)
  <2>1. u \in Seq(Nat) /\ Len(u) = Len(cur)
    BY <1>2, <1>3, SwappedEntries
  <2>2. IsInjective(u)
    BY <1>2, <1>3, SwappedDistinct
  <2> QED
    BY <2>1, <2>2
<1>5. CASE InTable
  <2>1. Change(swap(building, i, j), u)
    BY <1>1, <1>5
  <2>2. ASSUME NEW mid \in Seq(Nat), NEW was, Fits(kind, building, mid, was, cur, touched)
        PROVE  Fits(kind, swap(building, i, j), mid, was, u, touched')
    BY <1>1, <1>2, <1>3, <1>5, <2>2, SwapFollows DEF Fits, InTable
  <2> HIDE DEF u
  <2>3. Keeps(swap(building, i, j), u, touched')
    BY <1>2, <1>4, <2>2 DEF Keeps
  <2> QED
    BY <2>1, <2>3, Kept
<1>6. CASE ~InTable
  <2>1. Change(c, u)
    BY <1>1, <1>6 DEF SwapInSubtable
  <2>2. ASSUME NEW mid \in Seq(Nat), NEW was, Fits(kind, building, mid, was, cur, touched)
        PROVE  Fits(kind, c, mid, was, u, touched')
    <3>1. Follows(building, mid, was, cur, touched)
      BY <1>6, <2>2 DEF Fits, InTable
    <3>2. Follows(c, mid, was, u, touched)
      BY <1>1, <1>2, <3>1, SubtableFollows
    <3> QED
      BY <1>3, <1>6, <3>2 DEF Fits, InTable
  <2> HIDE DEF u, c
  <2>3. Keeps(c, u, touched')
    BY <1>2, <1>4, <2>2 DEF Keeps
  <2> QED
    BY <2>1, <2>3, Kept
<1> QED
  BY <1>5, <1>6

LEMMA EraseRowsKeeps ==
    ASSUME IInv, erase_rows
    PROVE  IInv'
<1>1. PICK i \in Rows : Change(move_over(building, i, Len(cur) - 1), MovedOver(cur, i))
  BY DEF erase_rows
<1>2. /\ MaxLen \in Nat /\ cur \in Seq(Nat) /\ Len(cur) \in Nat /\ Len(cur) <= MaxLen
      /\ IsInjective(cur) /\ i \in Positions(cur)
  BY InvFacts
<1>3. kind # "list" /\ touched' = touched
  BY DEF erase_rows, InTable
<1> DEFINE u == MovedOver(cur, i)
           c == move_over(building, i, Len(cur) - 1)
<1>4. u \in Seq(Nat) /\ Len(u) = Len(cur) - 1
  BY <1>2, MovedOverRows
<1>5. IsInjective(u)
  BY <1>2, MovedOverDistinct
<1>6. ASSUME NEW mid \in Seq(Nat), NEW was, Fits(kind, building, mid, was, cur, touched)
      PROVE  Fits(kind, c, mid, was, u, touched')
  <2>1. TableFollows(building, mid, was, cur, touched)
    BY <1>3, <1>6 DEF Fits
  <2>2. FollowsBut(building, mid, was, cur, touched, i)
    BY <2>1, TableFollowsBut
  <2>3. TableFollows(c, mid, was, u, touched)
    BY <1>2, <2>2, MoveOverFollows
  <2> QED
    BY <1>3, <2>3 DEF Fits
<1>7. Change(c, u)
  BY <1>1
<1> HIDE DEF u, c
<1>8. Len(u) <= MaxLen
  BY <1>2, <1>4
<1>9. Keeps(c, u, touched')
  BY <1>4, <1>5, <1>6, <1>8 DEF Keeps
<1> QED
  BY <1>7, <1>9, Kept

LEMMA MergeRowsKeeps ==
    ASSUME IInv, merge_rows
    PROVE  IInv'
<1>1. PICK from \in Rows, to \in Rows :
           /\ from # to
           /\ to \in building.insertions /\ to \notin DOMAIN building.mapping
           /\ Change(move_over(subsume(building, from, to), from, Len(cur) - 1),
                     MovedOver(Swapped(cur, from, to), from))
           /\ touched' = IF to \in building.modifications THEN touched \cup {At0(cur, from)}
                         ELSE touched
  BY DEF merge_rows
<1>2. /\ MaxLen \in Nat /\ cur \in Seq(Nat) /\ Len(cur) \in Nat /\ Len(cur) <= MaxLen
      /\ IsInjective(cur) /\ from \in Positions(cur) /\ to \in Positions(cur)
  BY InvFacts
<1>3. kind # "list"
  BY DEF merge_rows, InTable
<1> DEFINE s == Swapped(cur, from, to)
           u == MovedOver(s, from)
           b == subsume(building, from, to)
           c == move_over(b, from, Len(cur) - 1)
<1>4. s \in Seq(Nat) /\ Len(s) = Len(cur) /\ IsInjective(s)
  <2>1. s \in Seq(Nat) /\ Len(s) = Len(cur)
    BY <1>1, <1>2, SwappedEntries
  <2>2. IsInjective(s)
    BY <1>1, <1>2, SwappedDistinct
  <2> QED
    BY <2>1, <2>2
<1>5. ASSUME NEW mid \in Seq(Nat), NEW was, Fits(kind, building, mid, was, cur, touched)
      PROVE  FollowsBut(b, mid, was, s, touched', from)
  <2>1. TableFollows(building, mid, was, cur, touched)
    BY <1>3, <1>5 DEF Fits
  <2>2. FollowsBut(b, mid, was, s,
            IF to \in building.modifications THEN touched \cup {At0(cur, from)} ELSE touched, from)
    BY <1>1, <1>2, <2>1, SubsumeFollows
  <2> HIDE DEF b, s
  <2> QED
    BY <1>1, <2>2
<1>6. Change(c, u)
  BY <1>1
<1> HIDE DEF b, s
<1>7. from \in Positions(s)
  BY <1>2, <1>4 DEF Positions
<1>8. u \in Seq(Nat) /\ Len(u) = Len(s) - 1
  BY <1>4, <1>7, MovedOverRows
<1>9. IsInjective(u)
  BY <1>4, <1>7, MovedOverDistinct
<1>10. ASSUME NEW mid \in Seq(Nat), NEW was, Fits(kind, building, mid, was, cur, touched)
       PROVE  Fits(kind, c, mid, was, u, touched')
  <2>1. FollowsBut(b, mid, was, s, touched', from)
    BY <1>5, <1>10
  <2>2. TableFollows(move_over(b, from, Len(s) - 1), mid, was, u, touched')
    BY <1>4, <1>7, <2>1, MoveOverFollows
  <2> QED
    BY <1>3, <1>4, <2>2 DEF Fits
<1> HIDE DEF u, c
<1>11. Len(u) <= MaxLen
  BY <1>2, <1>4, <1>8
<1>12. Keeps(c, u, touched')
  BY <1>8, <1>9, <1>10, <1>11 DEF Keeps
<1> QED
  BY <1>6, <1>12, Kept

-----------------------------------------------------------------------------
(* What the observer is told                                                 *)

\* The entries that are left are those in the order of their ranks.
Ranked(w, s, D) ==
    /\ w \in Seq(Nat) /\ Len(w) = unshift(D, Len(s))
    /\ \A k \in DOMAIN w : \E i \in Positions(s) \ D : unshift(D, i) = k - 1 /\ w[k] = At0(s, i)

LEMMA WithoutRanked ==
    ASSUME NEW s \in Seq(Nat), NEW D \in SUBSET Nat
    PROVE  Ranked(Without(s, D), s, D)
<1> DEFINE K == Remaining(s, D)
           w == Chosen(s, K)
           at == Increasing(K)
<1>1. /\ Len(s) \in Nat /\ Positions(s) = 0..(Len(s) - 1) /\ DOMAIN s = 1..Len(s)
      /\ Positions(s) \in SUBSET Nat
  BY PositionFacts, RowsFacts DEF Positions
<1>2. \A x : x \in K <=> \E i \in Positions(s) : i \notin D /\ x = i + 1
  BY DEF Remaining
<1>3. Without(s, D) = w
  BY DEF Without, Remaining
<1> HIDE DEF K
<1>4. \A x \in K : x \in Nat /\ x \in DOMAIN s /\ x < Len(s) + 1
  <2>1. ASSUME NEW x \in K PROVE x \in Nat /\ x \in DOMAIN s /\ x < Len(s) + 1
    <3>1. PICK i \in Positions(s) : x = i + 1
      BY <1>2
    <3> QED
      BY <1>1, <3>1
  <2> QED
    BY <2>1
<1>5. K \in SUBSET Nat /\ K \in SUBSET DOMAIN s
  BY <1>4
<1>6. IsFiniteSet(K)
  <2>1. 1 \in Int /\ Len(s) \in Int
    BY <1>1
  <2>2. IsFiniteSet(1..Len(s))
    BY <2>1, FS_Interval
  <2> QED
    BY <1>1, <1>5, <2>2, FS_Subset
<1>7. ASSUME NEW X \in SUBSET DOMAIN s
      PROVE  /\ Chosen(s, X) \in Seq(Nat) /\ Len(Chosen(s, X)) = Cardinality(X)
             /\ DOMAIN Chosen(s, X) = DOMAIN Increasing(X)
             /\ \A k \in DOMAIN Chosen(s, X) :
                    Increasing(X)[k] \in X /\ Chosen(s, X)[k] = s[Increasing(X)[k]]
  BY ChosenFacts
<1>8. /\ w \in Seq(Nat) /\ Len(w) = Cardinality(K) /\ DOMAIN w = DOMAIN at
      /\ \A k \in DOMAIN w : at[k] \in K /\ w[k] = s[at[k]]
  BY <1>5, <1>7
<1>9. \A k \in DOMAIN at : at[k] \in K /\ Cardinality({y \in K : y < at[k]}) = k - 1
  BY <1>5, <1>6, AscendingFacts
<1>10. Cardinality(K) = unshift(D, Len(s))
  <2>1. {y \in K : y < Len(s) + 1} = K
    BY <1>4
  <2>2. Cardinality({y \in K : y < Len(s) + 1}) = unshift(D, Len(s))
    <3> DEFINE n == Len(s)
    <3>1. n \in Nat /\ n <= n /\ n <= Len(s)
      BY <1>1
    <3>2. n <= Len(s)
      BY <3>1
    <3> HIDE DEF n
    <3>3. Cardinality({y \in Remaining(s, D) : y < n + 1}) = unshift(D, n)
      BY <3>1, <3>2, RemainingRanks
    <3> QED
      BY <3>3 DEF n, K
  <2> QED
    BY <2>1, <2>2
<1>11. ASSUME NEW k \in DOMAIN w
       PROVE  \E i \in Positions(s) \ D : unshift(D, i) = k - 1 /\ w[k] = At0(s, i)
  <2>1. PICK i \in Positions(s) : i \notin D /\ at[k] = i + 1
    BY <1>2, <1>8
  <2>2. i \in Nat /\ i <= Len(s)
    BY <1>1
  <2>3. Cardinality({y \in K : y < i + 1}) = unshift(D, i)
    BY <2>2, RemainingRanks DEF K
  <2>4. Cardinality({y \in K : y < at[k]}) = k - 1
    BY <1>8, <1>9
  <2> HIDE DEF at, w
  <2>5. unshift(D, i) = k - 1
    BY <2>1, <2>3, <2>4
  <2>6. w[k] = At0(s, i)
    BY <1>8, <2>1 DEF At0
  <2> QED
    BY <2>1, <2>5, <2>6
<1> HIDE DEF w
<1> QED
  BY <1>3, <1>8, <1>10, <1>11 DEF Ranked

LEMMA SameLeft ==
    ASSUME NEW D \in SUBSET Nat, NEW I \in SUBSET Nat, NEW s \in Seq(Nat), NEW t \in Seq(Nat),
           Same(D, I, s, t)
    PROVE  Without(s, D) = Without(t, I)
<1> DEFINE v == Without(s, D)
           w == Without(t, I)
<1>1. Ranked(v, s, D) /\ Ranked(w, t, I)
  BY WithoutRanked
<1> HIDE DEF v, w
<1>2. v \in Seq(Nat) /\ w \in Seq(Nat) /\ Len(v) = Len(w)
  BY <1>1 DEF Ranked, Same
<1>3. DOMAIN v = 1..Len(v) /\ DOMAIN w = 1..Len(v)
  BY <1>2, RowsFacts
<1>4. ASSUME NEW k \in 1..Len(v) PROVE v[k] = w[k]
  <2>1. PICK i \in Positions(s) \ D : unshift(D, i) = k - 1 /\ v[k] = At0(s, i)
    BY <1>1, <1>3 DEF Ranked
  <2>2. PICK j \in Positions(t) \ I : unshift(I, j) = k - 1 /\ w[k] = At0(t, j)
    BY <1>1, <1>3 DEF Ranked
  <2> QED
    BY <2>1, <2>2 DEF Same
<1>5. v = w
  <2>1. v = [k \in 1..Len(v) |-> v[k]] /\ w = [k \in 1..Len(v) |-> w[k]]
    <3>1. v \in [1..Len(v) -> Nat]
      BY <1>2
    <3>2. w \in [1..Len(v) -> Nat]
      BY <1>2
    <3> QED
      BY <3>1, <3>2
  <2>2. [k \in 1..Len(v) |-> v[k]] = [k \in 1..Len(v) |-> w[k]]
    BY <1>4
  <2> QED
    BY <2>1, <2>2
<1> QED
  BY <1>5 DEF v, w

LEMMA FollowsTurns ==
    ASSUME NEW b, NEW s \in Seq(Nat), NEW S, NEW t \in Seq(Nat), NEW T, Follows(b, s, S, t, T)
    PROVE  Turns(b, s, t)
<1>1. /\ b.deletions \in SUBSET Nat /\ b.insertions \in SUBSET Nat
      /\ Same(b.deletions, b.insertions, s, t) /\ b.insertions \subseteq Positions(t)
      /\ MovesFit(b.moves, b.deletions, b.insertions, s, t)
  BY FollowsFacts
<1>2. Without(s, b.deletions) = Without(t, b.insertions)
  BY <1>1, SameLeft
<1>3. ASSUME NEW k \in DOMAIN b.moves
      PROVE  /\ b.moves[k].from \in b.deletions /\ b.moves[k].to \in b.insertions
             /\ At0(s, b.moves[k].from) = At0(t, b.moves[k].to)
             /\ \A l \in DOMAIN b.moves \ {k} :
                   b.moves[l].from # b.moves[k].from /\ b.moves[l].to # b.moves[k].to
  BY <1>1 DEF MovesFit
<1> QED
  BY <1>1, <1>2, <1>3 DEF Turns

LEMMA FollowsModified ==
    ASSUME NEW b, NEW s \in Seq(Nat), NEW t \in Seq(Nat), NEW T, Follows(b, s, {}, t, T)
    PROVE  TellsModified(b, s, t, T)
<1> DEFINE D == b.deletions
           I == b.insertions
           M == b.modifications
           f == Through(I, D)
           c == finalize(b)
           told == {At0(t, i) : i \in c.modifications_new}
<1>1. /\ D \in SUBSET Nat /\ I \in SUBSET Nat /\ IsFiniteSet(D) /\ IsFiniteSet(I)
      /\ Same(D, I, s, t) /\ M \in SUBSET Nat /\ M \subseteq Positions(t)
      /\ ModsFit(M, I, Targets(b.moves), t, {}, T)
  BY FollowsFacts
<1>2. c.modifications = shift_for_insert_at_all(erase_at_all(M, I), D) /\ c.modifications_new = M \ I
  BY DEF finalize
<1>3. c.modifications = {f[x] : x \in M \ I}
  <2>1. \A w \in M \ I : f[w] = shift(D, unshift(I, w))
    BY <1>1 DEF Through
  <2>2. c.modifications = {shift(D, unshift(I, w)) : w \in M \ I}
    BY <1>2 DEF shift_for_insert_at_all, erase_at_all
  <2> HIDE DEF D, I, M, f
  <2> QED
    BY <2>1, <2>2
<1>4. \A v \in Positions(t) \ I : At0(s, f[v]) = At0(t, v)
  <2> HIDE DEF D, I
  <2>1. /\ Splits(I, D, Len(t), Len(s))
        /\ \A v \in Positions(t) \ I :
               /\ Through(I, D)[v] \in Positions(s) \ D
               /\ At0(s, Through(I, D)[v]) = At0(t, v)
    BY <1>1, ThroughSame
  <2> QED
    BY <2>1
<1>5. \A j \in Positions(t) \ I : At0(t, j) \in T <=> j \in M
  BY <1>1 DEF ModsFit
<1>6. told = {At0(t, i) : i \in M \ I}
  BY <1>2
<1> HIDE DEF D, I, M, f, c, told
<1>7. told = T \cap {At0(t, i) : i \in Positions(t) \ I}
  BY <1>1, <1>5, <1>6
<1>8. {At0(s, i) : i \in c.modifications} = {At0(s, f[x]) : x \in M \ I}
  BY <1>3
<1>9. {At0(s, f[x]) : x \in M \ I} = {At0(t, x) : x \in M \ I}
  BY <1>1, <1>4
<1>10. {At0(s, i) : i \in c.modifications} = told
  BY <1>6, <1>8, <1>9
<1> QED
  BY <1>7, <1>10 DEF I, c, told, TellsModified

-----------------------------------------------------------------------------
(* The theorems                                                              *)

LEMMA Stepwise == IInv /\ [Next]_vars => IInv'
<1> SUFFICES ASSUME IInv, [Next]_vars PROVE IInv'
  OBVIOUS
<1>1. CASE Insert
  BY <1>1, InsertKeeps
<1>2. CASE Modify
  BY <1>2, ModifyKeeps
<1>3. CASE link_list_swap
  BY <1>3, SwapInListKeeps
<1>4. CASE link_list_erase
  BY <1>4, EraseKeeps
<1>5. CASE link_list_move
  BY <1>5, MoveKeeps
<1>6. CASE link_list_clear
  BY <1>6, ClearKeeps
<1>7. CASE swap_rows
  BY <1>7, SwapRowsKeeps
<1>8. CASE erase_rows
  BY <1>8, EraseRowsKeeps
<1>9. CASE clear_table
  BY <1>9, ClearTableKeeps
<1>10. CASE merge_rows
  BY <1>10, MergeRowsKeeps
<1>11. CASE Commit
  BY <1>11, Committed
<1>12. CASE Deliver
  BY <1>12, Delivered
<1>13. CASE UNCHANGED vars
  <2>1. PICK mid, was : Leads(mid, was)
    BY DEF IInv
  <2>2. Leads(mid, was)'
    BY <1>13, <2>1 DEF Leads, vars
  <2> QED
    BY <1>13, <2>2 DEF IInv, vars
<1> QED
  BY <1>1, <1>2, <1>3, <1>4, <1>5, <1>6, <1>7, <1>8, <1>9, <1>10, <1>11, <1>12, <1>13 DEF Next

\* Between transactions the merged changes lead to the entries there are.
LEMMA Between ==
    ASSUME IInv, building = Empty
    PROVE  old \in Seq(Nat) /\ cur \in Seq(Nat) /\ Follows(changes, old, {}, cur, touched)
<1>1. PICK mid, was : Leads(mid, was)
  BY DEF IInv
<1>2. /\ old \in Seq(Nat) /\ cur \in Seq(Nat) /\ mid \in Seq(Nat)
      /\ Follows(changes, old, {}, mid, was)
  BY <1>1 DEF IInv, Leads
<1>3. Fits(kind, Empty, mid, was, cur, touched)
  BY <1>1 DEF Leads
<1>4. Follows(Empty, mid, was, cur, touched)
  BY <1>2, <1>3, NothingFollows
<1>5. empty(Empty)
  BY EmptyIs DEF empty
<1>6. Follows(changes, old, {}, cur, touched)
  BY <1>2, <1>4, <1>5, MergeNothing
<1> QED
  BY <1>2, <1>6

\* At every moment the changes merged so far and the ones of the transaction under way
\* lead, one after the other, from the entries the observer was told of to those there
\* are: ChangeBuilder's operations, parse_complete and merge record what the
\* instructions of the log did, for collections and transactions of every length.
THEOREM Invariant == Spec => []IInv
<1>1. Init => IInv
  BY AtFirst
<1>2. IInv /\ [Next]_vars => IInv'
  BY Stepwise
<1> QED
  BY <1>1, <1>2, PTL DEF Spec

\* What the callback is handed turns the entries it last saw into those there are,
\* whatever the transactions did and however many change sets were merged
\* (ChangeBuilder::merge, CollectionChangeBuilder::parse_complete).
THEOREM TurnsOldIntoNew == Spec => []ChangesTurnOldIntoNew
<1>1. IInv => ChangesTurnOldIntoNew
  BY Between, FollowsTurns DEF ChangesTurnOldIntoNew
<1> QED
  BY <1>1, Invariant, PTL

\* The callback is told of every surviving entry that was modified and of no other,
\* under its old number and under its new one (CollectionChangeBuilder::finalize).
THEOREM ModificationsComplete == Spec => []ModificationsAreComplete
<1>1. IInv => ModificationsAreComplete
  BY Between, FollowsModified DEF ModificationsAreComplete
<1> QED
  BY <1>1, Invariant, PTL

-----------------------------------------------------------------------------
(* Lists that keep their order                                               *)

\* f and g number Q by A and by B.
Paired(Q, f, g, A, B) ==
    /\ f \in [Q -> A] /\ g \in [Q -> B]
    /\ \A a \in A : \E k \in Q : f[k] = a
    /\ \A b \in B : \E k \in Q : g[k] = b
    /\ \A k, l \in Q : f[k] = f[l] <=> g[k] = g[l]

LEMMA SameNumber ==
    ASSUME NEW A, NEW B, IsFiniteSet(A), NEW Q, NEW f, NEW g, Paired(Q, f, g, A, B)
    PROVE  Cardinality(A) = Cardinality(B)
<1> USE DEF Paired
<1> DEFINE h == [a \in A |-> g[CHOOSE k \in Q : f[k] = a]]
<1>1. ASSUME NEW a \in A
      PROVE  \E k \in Q : f[k] = a /\ h[a] = g[k]
  <2>1. \E k \in Q : f[k] = a
    OBVIOUS
  <2> QED
    BY <2>1
<1>2. \A k \in Q : h[f[k]] = g[k]
  <2>1. ASSUME NEW k \in Q PROVE h[f[k]] = g[k]
    <3>1. PICK l \in Q : f[l] = f[k] /\ h[f[k]] = g[l]
      BY <1>1
    <3> QED
      BY <3>1
  <2> QED
    BY <2>1
<1>3. h \in [A -> B]
  <2>1. \A a \in A : h[a] \in B
    BY <1>1
  <2> QED
    BY <2>1
<1>4. \A b \in B : \E a \in A : h[a] = b
  BY <1>2
<1>5. \A a, c \in A : h[a] = h[c] => a = c
  BY <1>1
<1> HIDE DEF h
<1>6. h \in Bijection(A, B)
  BY <1>3, <1>4, <1>5 DEF Bijection, Injection, Surjection, IsInjective
<1>7. ExistsBijection(A, B)
  BY <1>6 DEF ExistsBijection
<1> QED
  BY <1>7, FS_Bijection

\* What stays of s and of t are the same entries in the same order: f and g say where
\* those of Q are.
Aligned(Q, f, g, D, I, s, t) ==
    /\ f \in [Q -> Positions(s) \ D] /\ g \in [Q -> Positions(t) \ I]
    /\ \A a \in Positions(s) \ D : \E k \in Q : f[k] = a
    /\ \A a \in Positions(t) \ I : \E k \in Q : g[k] = a
    /\ \A k, l \in Q : f[k] < f[l] <=> g[k] < g[l]
    /\ \A k \in Q : At0(s, f[k]) = At0(t, g[k])

LEMMA AlignedLeft ==
    ASSUME NEW Q, NEW f, NEW g, NEW D \in SUBSET Nat, NEW I \in SUBSET Nat,
           NEW s \in Seq(Nat), NEW t \in Seq(Nat), Aligned(Q, f, g, D, I, s, t)
    PROVE  Without(s, D) = Without(t, I)
<1>1. /\ Len(s) \in Nat /\ Len(t) \in Nat
      /\ Positions(s) = 0..(Len(s) - 1) /\ Positions(t) = 0..(Len(t) - 1)
  BY PositionFacts DEF Positions
<1>2. /\ f \in [Q -> Nat] /\ g \in [Q -> Nat]
      /\ \A k \in Q : f[k] \in Positions(s) \ D /\ g[k] \in Positions(t) \ I
  BY <1>1 DEF Aligned
<1>3. \A k, l \in Q : f[k] = f[l] <=> g[k] = g[l]
  <2>1. ASSUME NEW k \in Q, NEW l \in Q PROVE f[k] = f[l] <=> g[k] = g[l]
    <3>1. f[k] \in Nat /\ f[l] \in Nat /\ g[k] \in Nat /\ g[l] \in Nat
      BY <1>2
    <3>2. (f[k] < f[l] <=> g[k] < g[l]) /\ (f[l] < f[k] <=> g[l] < g[k])
      BY DEF Aligned
    <3> QED
      BY <3>1, <3>2
  <2> QED
    BY <2>1
<1>4. ASSUME NEW i \in Nat, NEW j \in Nat, i <= Len(s), j <= Len(t),
             \A k \in Q : f[k] < i <=> g[k] < j
      PROVE  unshift(D, i) = unshift(I, j)
  <2> DEFINE P == {k \in Q : f[k] < i}
             p == [k \in P |-> f[k]]
             q == [k \in P |-> g[k]]
  <2>1. {p[k] : k \in P} = Free(D, i)
    <3>1. ASSUME NEW a \in Free(D, i) PROVE a \in {p[k] : k \in P}
      <4>1. a \in Nat /\ a < i /\ a \notin D
        BY DEF Free
      <4>2. a \in Positions(s) \ D
        BY <1>1, <1>4, <4>1
      <4>3. PICK k \in Q : f[k] = a
        BY <4>2 DEF Aligned
      <4>4. k \in P /\ p[k] = a
        BY <4>1, <4>3
      <4> QED
        BY <4>4
    <3>2. ASSUME NEW k \in P PROVE p[k] \in Free(D, i)
      <4>1. f[k] \in Nat /\ f[k] < i /\ f[k] \notin D /\ p[k] = f[k]
        BY <1>2
      <4> QED
        BY <4>1 DEF Free
    <3> QED
      BY <3>1, <3>2
  <2>2. {q[k] : k \in P} = Free(I, j)
    <3>1. ASSUME NEW a \in Free(I, j) PROVE a \in {q[k] : k \in P}
      <4>1. a \in Nat /\ a < j /\ a \notin I
        BY DEF Free
      <4>2. a \in Positions(t) \ I
        BY <1>1, <1>4, <4>1
      <4>3. PICK k \in Q : g[k] = a
        BY <4>2 DEF Aligned
      <4>4. k \in P /\ q[k] = a
        BY <1>4, <4>1, <4>3
      <4> QED
        BY <4>4
    <3>2. ASSUME NEW k \in P PROVE q[k] \in Free(I, j)
      <4>1. g[k] \in Nat /\ g[k] < j /\ g[k] \notin I /\ q[k] = g[k]
        BY <1>2, <1>4
      <4> QED
        BY <4>1 DEF Free
    <3> QED
      BY <3>1, <3>2
  <2>3. p \in [P -> Nat] /\ q \in [P -> Nat] /\ \A k, l \in P : p[k] = p[l] <=> q[k] = q[l]
    BY <1>2, <1>3
  <2>4. /\ IsFiniteSet(Free(D, i)) /\ unshift(D, i) = Cardinality(Free(D, i))
        /\ unshift(I, j) = Cardinality(Free(I, j))
    BY UnshiftIsFree
  <2>5. /\ p \in [P -> Free(D, i)] /\ q \in [P -> Free(I, j)]
        /\ \A a \in Free(D, i) : \E k \in P : p[k] = a
        /\ \A a \in Free(I, j) : \E k \in P : q[k] = a
    BY <2>1, <2>2
  <2> HIDE DEF P, p, q
  <2>6. Paired(P, p, q, Free(D, i), Free(I, j))
    BY <2>3, <2>5 DEF Paired
  <2>7. Cardinality(Free(D, i)) = Cardinality(Free(I, j))
    BY <2>4, <2>6, SameNumber
  <2> QED
    BY <2>4, <2>7
<1>5. unshift(D, Len(s)) = unshift(I, Len(t))
  <2>1. \A k \in Q : f[k] < Len(s) /\ g[k] < Len(t)
    BY <1>1, <1>2
  <2>2. Len(s) <= Len(s) /\ Len(t) <= Len(t)
    BY <1>1
  <2> QED
    BY <1>1, <1>4, <2>1, <2>2
<1>6. ASSUME NEW k \in Q PROVE unshift(D, f[k]) = unshift(I, g[k])
  <2>1. f[k] \in Nat /\ g[k] \in Nat /\ f[k] <= Len(s) /\ g[k] <= Len(t)
    BY <1>1, <1>2
  <2>2. \A l \in Q : f[l] < f[k] <=> g[l] < g[k]
    BY DEF Aligned
  <2> QED
    BY <1>4, <2>1, <2>2
<1>7. ASSUME NEW i \in Positions(s) \ D, NEW j \in Positions(t) \ I, unshift(D, i) = unshift(I, j)
      PROVE  At0(s, i) = At0(t, j)
  <2>1. PICK k \in Q : f[k] = i
    BY DEF Aligned
  <2>2. g[k] \in Positions(t) \ I /\ At0(s, i) = At0(t, g[k])
    BY <2>1 DEF Aligned
  <2>3. unshift(I, g[k]) = unshift(I, j)
    BY <1>6, <1>7, <2>1
  <2>4. g[k] \in Nat /\ j \in Nat
    BY <2>2, PositionFacts
  <2>5. g[k] = j
    BY <2>2, <2>3, <2>4, RankOrder
  <2> QED
    BY <2>2, <2>5
<1>8. Same(D, I, s, t)
  BY <1>5, <1>7 DEF Same
<1> QED
  BY <1>8, SameLeft

-----------------------------------------------------------------------------
(* The rows of two results                                                   *)

LEMMA PlaceIs ==
    ASSUME NEW s \in Seq(Int), NEW x
    PROVE  \/ PlaceOf(s, x) = -1 /\ \A i \in Positions(s) : At0(s, i) # x
           \/ PlaceOf(s, x) \in Positions(s) /\ At0(s, PlaceOf(s, x)) = x
<1> DEFINE K == {k \in 1..Len(s) : s[k] = x}
<1>1. Len(s) \in Nat /\ DOMAIN s = 1..Len(s) /\ Positions(s) = 0..(Len(s) - 1)
  BY RowsFacts DEF Positions
<1>2. PlaceOf(s, x) = (IF K # {} THEN Min(K) ELSE 0) - 1
  BY DEF PlaceOf, SelectInSeq
<1>3. CASE K = {}
  <2>1. ASSUME NEW i \in Positions(s) PROVE At0(s, i) # x
    <3>1. i + 1 \in 1..Len(s)
      BY <1>1
    <3> QED
      BY <1>3, <3>1 DEF At0
  <2>2. PlaceOf(s, x) = -1
    BY <1>2, <1>3
  <2> QED
    BY <2>1, <2>2
<1>4. CASE K # {}
  <2>1. K \in SUBSET Nat
    BY <1>1
  <2>2. PICK k \in K : \A y \in K : k <= y
    BY <1>4, <2>1, LeastNatural
  <2> DEFINE m == Min(K)
  <2>3. m \in K
    BY <2>2 DEF Min
  <2>4. PlaceOf(s, x) = m - 1
    BY <1>2, <1>4
  <2> HIDE DEF m
  <2>5. m \in 1..Len(s) /\ s[m] = x
    BY <2>3
  <2>6. m - 1 \in Positions(s) /\ (m - 1) + 1 = m
    BY <1>1, <2>5
  <2>7. At0(s, m - 1) = x
    BY <2>5, <2>6 DEF At0
  <2> QED
    BY <2>4, <2>6, <2>7
<1> QED
  BY <1>3, <1>4

\* Rows are numbered once in prev, but for npos, and in next.
Numbered(prev, next) ==
    /\ prev \in Seq(Int) /\ next \in Seq(Int)
    /\ \A i \in Positions(next) : At0(next, i) \in Nat
    /\ \A w, v \in Positions(prev) :
           At0(prev, w) = At0(prev, v) /\ At0(prev, w) # npos => w = v
    /\ \A i, j \in Positions(next) : At0(next, i) = At0(next, j) => i = j

RowInfo == [row : Int, was : Int, is : Int, shifted : Int]

Gone(prev, w) == {k \in 0 .. (w - 1) : At0(prev, k) = npos}

Infos(rows, prev, next) ==
    /\ rows \in Seq(RowInfo)
    /\ \A k \in DOMAIN rows :
           /\ rows[k].was \in Positions(prev) /\ rows[k].is \in Positions(next)
           /\ At0(prev, rows[k].was) = rows[k].row /\ At0(next, rows[k].is) = rows[k].row
           /\ rows[k].shifted = rows[k].was - Cardinality(Gone(prev, rows[k].was))
    /\ \A w \in Positions(prev), i \in Positions(next) : At0(prev, w) = At0(next, i) =>
           \E k \in DOMAIN rows : rows[k].was = w /\ rows[k].is = i
    /\ \A k, l \in DOMAIN rows : k < l => rows[k].is < rows[l].is

LEMMA RowInfosIs ==
    ASSUME NEW prev, NEW next, Numbered(prev, next)
    PROVE  Infos(RowInfos(prev, next), prev, next)
<1> DEFINE was(i) == PlaceOf(prev, At0(next, i))
           info(i) == [row |-> At0(next, i), was |-> was(i), is |-> i,
                       shifted |-> was(i) - Cardinality(Gone(prev, was(i)))]
           all == [k \in DOMAIN next |-> info(k - 1)]
           K == {k \in DOMAIN next : all[k].was >= 0}
           rows == RowInfos(prev, next)
<1>1. /\ prev \in Seq(Int) /\ next \in Seq(Int)
      /\ \A i \in Positions(next) : At0(next, i) \in Nat
      /\ \A w, v \in Positions(prev) :
             At0(prev, w) = At0(prev, v) /\ At0(prev, w) # npos => w = v
  BY DEF Numbered
<1>2. /\ Len(next) \in Nat /\ DOMAIN next = 1..Len(next) /\ Positions(next) = 0..(Len(next) - 1)
      /\ Len(prev) \in Nat /\ Positions(prev) = 0..(Len(prev) - 1)
  BY <1>1, RowsFacts DEF Positions
<1>3. rows = Chosen(all, K)
  BY DEF RowInfos, Gone
<1>4. \A w \in Int : Cardinality(Gone(prev, w)) \in Int
  <2>1. ASSUME NEW w \in Int PROVE Cardinality(Gone(prev, w)) \in Int
    <3>1. 0 \in Int /\ w - 1 \in Int
      OBVIOUS
    <3>2. IsFiniteSet(0 .. (w - 1))
      BY <3>1, FS_Interval
    <3>3. Gone(prev, w) \in SUBSET (0 .. (w - 1))
      BY DEF Gone
    <3>4. IsFiniteSet(Gone(prev, w))
      BY <3>2, <3>3, FS_Subset
    <3> QED
      BY <3>4, FS_CardinalityType
  <2> QED
    BY <2>1
<1>5. \A i \in Positions(next) : was(i) \in Int
  <2>1. ASSUME NEW i \in Positions(next) PROVE was(i) \in Int
    <3>1. PlaceOf(prev, At0(next, i)) = -1 \/ PlaceOf(prev, At0(next, i)) \in Positions(prev)
      BY <1>1, PlaceIs
    <3> QED
      BY <1>2, <3>1
  <2> QED
    BY <2>1
<1>6. \A i \in Positions(next) : info(i) \in RowInfo
  <2>1. ASSUME NEW i \in Positions(next) PROVE info(i) \in RowInfo
    <3> DEFINE w == was(i)
    <3>1. w \in Int
      BY <1>5
    <3> HIDE DEF w
    <3>2. Cardinality(Gone(prev, w)) \in Int
      BY <1>4, <3>1
    <3>3. At0(next, i) \in Int /\ i \in Int
      BY <1>1, <1>2
    <3>4. [row |-> At0(next, i), was |-> w, is |-> i,
           shifted |-> w - Cardinality(Gone(prev, w))] \in RowInfo
      BY <3>1, <3>2, <3>3 DEF RowInfo
    <3> QED
      BY <3>4 DEF w
  <2> QED
    BY <2>1
<1>7. \A k \in DOMAIN next : k - 1 \in Positions(next) /\ all[k] = info(k - 1)
  BY <1>2
<1> HIDE DEF info
<1>8. all \in Seq(RowInfo) /\ DOMAIN all = DOMAIN next
  <2>1. all \in [1..Len(next) -> RowInfo]
    BY <1>2, <1>6, <1>7
  <2> QED
    BY <1>2, <2>1
<1>9. \A i \in Positions(next) :
          info(i).row = At0(next, i) /\ info(i).was = was(i) /\ info(i).is = i
          /\ info(i).shifted = was(i) - Cardinality(Gone(prev, was(i)))
  BY DEF info
<1> HIDE DEF all, was
<1>10. ASSUME NEW X \in SUBSET DOMAIN all
       PROVE  /\ Chosen(all, X) \in Seq(RowInfo)
              /\ \A k \in DOMAIN Chosen(all, X) :
                     Increasing(X)[k] \in X /\ Chosen(all, X)[k] = all[Increasing(X)[k]]
              /\ \A i \in X : \E k \in DOMAIN Chosen(all, X) :
                     Increasing(X)[k] = i /\ Chosen(all, X)[k] = all[i]
              /\ DOMAIN Chosen(all, X) = DOMAIN Increasing(X)
  BY <1>8, ChosenFacts
<1>11. K \in SUBSET DOMAIN all /\ K \in SUBSET Nat /\ IsFiniteSet(K)
  <2>1. K \in SUBSET DOMAIN next
    OBVIOUS
  <2>2. IsFiniteSet(1..Len(next))
    BY <1>2, FS_Interval
  <2> QED
    BY <1>2, <1>8, <2>1, <2>2, FS_Subset
<1>12. \A k \in K : all[k].was >= 0 /\ k \in DOMAIN next
  OBVIOUS
<1>13. \A k \in DOMAIN next : all[k].was >= 0 => k \in K
  OBVIOUS
<1> HIDE DEF K, rows
<1>14. /\ rows \in Seq(RowInfo) /\ DOMAIN rows = DOMAIN Increasing(K)
       /\ \A k \in DOMAIN rows : Increasing(K)[k] \in K /\ rows[k] = all[Increasing(K)[k]]
       /\ \A i \in K : \E k \in DOMAIN rows : rows[k] = all[i]
  BY <1>3, <1>10, <1>11
<1>15. \A k \in DOMAIN rows :
           LET i == Increasing(K)[k] - 1 IN
           /\ i \in Positions(next) /\ rows[k] = info(i) /\ rows[k].was >= 0
  BY <1>7, <1>12, <1>14
<1>16. ASSUME NEW k \in DOMAIN rows
       PROVE  /\ rows[k].was \in Positions(prev) /\ rows[k].is \in Positions(next)
              /\ At0(prev, rows[k].was) = rows[k].row /\ At0(next, rows[k].is) = rows[k].row
              /\ rows[k].shifted = rows[k].was - Cardinality(Gone(prev, rows[k].was))
  <2> DEFINE i == Increasing(K)[k] - 1
  <2>1. i \in Positions(next) /\ rows[k] = info(i) /\ rows[k].was >= 0
    BY <1>15
  <2> HIDE DEF i
  <2>2. /\ rows[k].row = At0(next, i) /\ rows[k].was = was(i) /\ rows[k].is = i
        /\ rows[k].shifted = was(i) - Cardinality(Gone(prev, was(i)))
    BY <1>9, <2>1
  <2>3. was(i) = PlaceOf(prev, At0(next, i))
    BY DEF was
  <2>4. was(i) \in Positions(prev) /\ At0(prev, was(i)) = At0(next, i)
    BY <1>1, <2>1, <2>2, <2>3, PlaceIs
  <2> QED
    BY <2>1, <2>2, <2>4
<1>17. ASSUME NEW w \in Positions(prev), NEW i \in Positions(next), At0(prev, w) = At0(next, i)
       PROVE  \E k \in DOMAIN rows : rows[k].was = w /\ rows[k].is = i
  <2>1. was(i) = PlaceOf(prev, At0(next, i))
    BY DEF was
  <2>2. At0(prev, w) # npos
    BY <1>1, <1>17 DEF npos
  <2>3. PlaceOf(prev, At0(next, i)) \in Positions(prev)
        /\ At0(prev, PlaceOf(prev, At0(next, i))) = At0(next, i)
    BY <1>1, <1>17, PlaceIs
  <2>4. was(i) = w
    BY <1>1, <1>17, <2>1, <2>2, <2>3
  <2>5. i + 1 \in DOMAIN next /\ (i + 1) - 1 = i /\ w >= 0
    BY <1>2
  <2>6. all[i + 1] = info(i)
    BY <1>7, <2>5
  <2>7. i + 1 \in K
    BY <1>9, <1>13, <2>4, <2>5, <2>6
  <2>8. PICK k \in DOMAIN rows : rows[k] = all[i + 1]
    BY <1>14, <2>7
  <2> QED
    BY <1>9, <2>4, <2>6, <2>8
<1>18. ASSUME NEW k \in DOMAIN rows, NEW l \in DOMAIN rows, k < l
       PROVE  rows[k].is < rows[l].is
  <2>1. Increasing(K)[k] < Increasing(K)[l]
    BY <1>11, <1>14, <1>18, AscendingFacts
  <2>2. /\ Increasing(K)[k] - 1 \in Positions(next) /\ rows[k] = info(Increasing(K)[k] - 1)
        /\ Increasing(K)[l] - 1 \in Positions(next) /\ rows[l] = info(Increasing(K)[l] - 1)
    BY <1>15
  <2>3. rows[k].is = Increasing(K)[k] - 1 /\ rows[l].is = Increasing(K)[l] - 1
    BY <1>9, <2>2
  <2>4. Increasing(K)[k] \in Nat /\ Increasing(K)[l] \in Nat
    BY <1>11, <1>14
  <2> QED
    BY <2>1, <2>3, <2>4
<1> QED
  BY <1>14, <1>16, <1>17, <1>18 DEF Infos, rows

\* The rows of Q stay, and those of the other rows come in to G and J.
Leaves(D, I, G, J, rows, Q) ==
    /\ D = G \cup {rows[k].was : k \in DOMAIN rows \ Q}
    /\ I = J \cup {rows[k].is : k \in DOMAIN rows \ Q}

\* G are the places of prev without a row in next, J those of next without one in prev.
Others(G, J, rows, prev, next) ==
    /\ G = Positions(prev) \ {rows[k].was : k \in DOMAIN rows}
    /\ J = Positions(next) \ {rows[k].is : k \in DOMAIN rows}

\* was and is are results whose rows are numbered by prev and next.
NumberedBy(was, is, prev, next) ==
    /\ was \in Seq(Nat) /\ is \in Seq(Nat)
    /\ Positions(was) = Positions(prev) /\ Positions(is) = Positions(next)
    /\ \A w \in Positions(prev), i \in Positions(next) :
           At0(prev, w) = At0(next, i) => At0(was, w) = At0(is, i)

LEMMA InfoFacts ==
    ASSUME NEW rows, NEW prev, NEW next, Numbered(prev, next), Infos(rows, prev, next)
    PROVE  /\ Len(rows) \in Nat /\ DOMAIN rows = 1..Len(rows)
           /\ \A k \in DOMAIN rows :
                  /\ rows[k].was \in Nat /\ rows[k].is \in Nat /\ rows[k].row \in Nat
                  /\ rows[k].was \in Positions(prev) /\ rows[k].is \in Positions(next)
           /\ \A k, l \in DOMAIN rows : rows[k].was = rows[l].was => k = l
           /\ \A k, l \in DOMAIN rows : rows[k].is = rows[l].is => k = l
           /\ \A k, l \in DOMAIN rows : k < l <=> rows[k].is < rows[l].is
<1>1. /\ prev \in Seq(Int) /\ next \in Seq(Int)
      /\ \A i \in Positions(next) : At0(next, i) \in Nat
      /\ \A i, j \in Positions(next) : At0(next, i) = At0(next, j) => i = j
  BY DEF Numbered
<1>2. /\ rows \in Seq(RowInfo)
      /\ \A k \in DOMAIN rows :
             /\ rows[k].was \in Positions(prev) /\ rows[k].is \in Positions(next)
             /\ At0(prev, rows[k].was) = rows[k].row /\ At0(next, rows[k].is) = rows[k].row
      /\ \A k, l \in DOMAIN rows : k < l => rows[k].is < rows[l].is
  BY DEF Infos
<1>3. Len(rows) \in Nat /\ DOMAIN rows = 1..Len(rows)
  BY <1>2, RowsFacts
<1>4. Positions(prev) \in SUBSET Nat /\ Positions(next) \in SUBSET Nat
  BY <1>1, PositionFacts
<1>5. \A k \in DOMAIN rows : rows[k].was \in Nat /\ rows[k].is \in Nat /\ rows[k].row \in Nat
  BY <1>1, <1>2, <1>4
<1>6. ASSUME NEW k \in DOMAIN rows, NEW l \in DOMAIN rows, rows[k].is = rows[l].is
      PROVE  k = l
  <2>1. k \in Nat /\ l \in Nat /\ rows[k].is \in Nat
    BY <1>3, <1>5
  <2>2. ~(rows[k].is < rows[l].is) /\ ~(rows[l].is < rows[k].is)
    BY <1>6, <2>1
  <2>3. ~(k < l) /\ ~(l < k)
    BY <1>2, <2>2
  <2> QED
    BY <2>1, <2>3
<1>7. ASSUME NEW k \in DOMAIN rows, NEW l \in DOMAIN rows, rows[k].was = rows[l].was
      PROVE  k = l
  <2>1. rows[k].row = rows[l].row
    BY <1>2, <1>7
  <2>2. At0(next, rows[k].is) = At0(next, rows[l].is)
    BY <1>2, <2>1
  <2>3. rows[k].is = rows[l].is
    BY <1>1, <1>2, <2>2
  <2> QED
    BY <1>6, <2>3
<1>8. ASSUME NEW k \in DOMAIN rows, NEW l \in DOMAIN rows
      PROVE  k < l <=> rows[k].is < rows[l].is
  <2>1. k \in Nat /\ l \in Nat /\ rows[k].is \in Nat /\ rows[l].is \in Nat
    BY <1>3, <1>5
  <2>2. (k < l => rows[k].is < rows[l].is) /\ (l < k => rows[l].is < rows[k].is)
    BY <1>2
  <2> QED
    BY <2>1, <2>2
<1> QED
  BY <1>2, <1>3, <1>5, <1>6, <1>7, <1>8

\* Rows that stay in their order are what deletions and insertions leave.
LEMMA KeptTurns ==
    ASSUME NEW rows, NEW prev, NEW next, Numbered(prev, next), Infos(rows, prev, next),
           NEW was, NEW is, NumberedBy(was, is, prev, next),
           NEW G, NEW J, Others(G, J, rows, prev, next),
           NEW Q \in SUBSET DOMAIN rows,
           \A k, l \in Q : k < l => rows[k].was < rows[l].was,
           NEW D, NEW I, Leaves(D, I, G, J, rows, Q)
    PROVE  /\ Without(was, D) = Without(is, I)
           /\ I \subseteq Positions(is)
<1> DEFINE f == [k \in Q |-> rows[k].was]
           g == [k \in Q |-> rows[k].is]
<1>1. /\ Len(rows) \in Nat /\ DOMAIN rows = 1..Len(rows)
      /\ \A k \in DOMAIN rows :
             /\ rows[k].was \in Nat /\ rows[k].is \in Nat
             /\ rows[k].was \in Positions(prev) /\ rows[k].is \in Positions(next)
      /\ \A k, l \in DOMAIN rows : rows[k].was = rows[l].was => k = l
      /\ \A k, l \in DOMAIN rows : rows[k].is = rows[l].is => k = l
      /\ \A k, l \in DOMAIN rows : k < l <=> rows[k].is < rows[l].is
  BY InfoFacts
<1>2. /\ was \in Seq(Nat) /\ is \in Seq(Nat)
      /\ Positions(was) = Positions(prev) /\ Positions(is) = Positions(next)
      /\ Positions(was) \in SUBSET Nat /\ Positions(is) \in SUBSET Nat
  BY PositionFacts DEF NumberedBy
<1>3. D \in SUBSET Nat /\ I \in SUBSET Nat /\ I \subseteq Positions(is)
  BY <1>1, <1>2 DEF Leaves, Others
<1>4. ASSUME NEW a PROVE a \in Positions(was) \ D <=> \E k \in Q : a = rows[k].was
  <2>1. a \in D <=> a \in G \/ \E k \in DOMAIN rows \ Q : a = rows[k].was
    BY DEF Leaves
  <2>2. a \in G <=> a \in Positions(prev) /\ ~ \E k \in DOMAIN rows : a = rows[k].was
    BY DEF Others
  <2> QED
    BY <1>1, <1>2, <2>1, <2>2
<1>5. ASSUME NEW a PROVE a \in Positions(is) \ I <=> \E k \in Q : a = rows[k].is
  <2>1. a \in I <=> a \in J \/ \E k \in DOMAIN rows \ Q : a = rows[k].is
    BY DEF Leaves
  <2>2. a \in J <=> a \in Positions(next) /\ ~ \E k \in DOMAIN rows : a = rows[k].is
    BY DEF Others
  <2> QED
    BY <1>1, <1>2, <2>1, <2>2
<1>6. ASSUME NEW k \in Q, NEW l \in Q PROVE f[k] < f[l] <=> g[k] < g[l]
  <2>1. k \in Nat /\ l \in Nat /\ rows[k].was \in Nat /\ rows[l].was \in Nat
    BY <1>1
  <2>2. (k < l => rows[k].was < rows[l].was) /\ (l < k => rows[l].was < rows[k].was)
    OBVIOUS
  <2>3. rows[k].was < rows[l].was <=> k < l
    BY <2>1, <2>2
  <2>4. k < l <=> rows[k].is < rows[l].is
    BY <1>1
  <2>5. f[k] = rows[k].was /\ f[l] = rows[l].was /\ g[k] = rows[k].is /\ g[l] = rows[l].is
    OBVIOUS
  <2> QED
    BY <2>3, <2>4, <2>5
<1>7. ASSUME NEW k \in Q PROVE At0(was, f[k]) = At0(is, g[k])
  <2>1. /\ rows[k].was \in Positions(prev) /\ rows[k].is \in Positions(next)
        /\ At0(prev, rows[k].was) = At0(next, rows[k].is)
    BY DEF Infos
  <2>2. At0(was, rows[k].was) = At0(is, rows[k].is)
    BY <2>1 DEF NumberedBy
  <2> QED
    BY <2>2
<1>8. /\ f \in [Q -> Positions(was) \ D] /\ g \in [Q -> Positions(is) \ I]
      /\ \A a \in Positions(was) \ D : \E k \in Q : f[k] = a
      /\ \A a \in Positions(is) \ I : \E k \in Q : g[k] = a
  <2>1. \A k \in Q : rows[k].was \in Positions(was) \ D /\ rows[k].is \in Positions(is) \ I
    BY <1>4, <1>5
  <2> QED
    BY <1>4, <1>5, <2>1
<1> HIDE DEF f, g
<1>9. Aligned(Q, f, g, D, I, was, is)
  BY <1>6, <1>7, <1>8 DEF Aligned
<1> QED
  BY <1>2, <1>3, <1>9, AlignedLeft

-----------------------------------------------------------------------------
(* Rows in table order                                                       *)

NoRowAt(prev) == {w \in Positions(prev) : At0(prev, w) = npos}

\* gone are the places of npos in prev, removed those of rows no longer found,
\* inserted the places in next of rows not found before.
Sorts(gone, removed, inserted, rows, prev, next) ==
    /\ gone = NoRowAt(prev)
    /\ removed \cap gone = {}
    /\ Others(gone \cup removed, inserted, rows, prev, next)

\* A row that cannot have moved comes after the rows it came after.
InOrder(rows, candidates) ==
    \A k, l \in DOMAIN rows :
        k < l /\ rows[k].row \notin candidates => rows[k].was < rows[l].was

RowMoves(moves, rows, M) ==
    /\ moves \in Seq(MoveRecord)
    /\ \A i \in DOMAIN moves : \E l \in M : moves[i] = Move(rows[l].was, rows[l].is)
    /\ \A i, j \in DOMAIN moves :
           i # j => moves[i].from # moves[j].from /\ moves[i].to # moves[j].to

\* Of the first k rows those of Q have stayed: no later row was before one of them,
\* and the next is expected after one of them.
MovingBut(Q, a, k, rows, removed, inserted) ==
    LET M == (1..k) \ Q IN
    /\ Q \in SUBSET (1..k)
    /\ a.insertions = inserted \cup {rows[l].is : l \in M}
    /\ a.removed = removed \cup {rows[l].was : l \in M}
    /\ \A q \in Q, l \in DOMAIN rows : q < l => rows[q].was < rows[l].was
    /\ (Q = {} /\ a.expected = 0) \/ \E q \in Q : a.expected = rows[q].shifted + 1
    /\ RowMoves(a.moves, rows, M)

Moving(a, k, rows, removed, inserted) ==
    \E Q : MovingBut(Q, a, k, rows, removed, inserted)

MoveStates ==
    [expected : Int, moves : Seq(MoveRecord), insertions : SUBSET Nat, removed : SUBSET Nat]

LEMMA ShiftedIs ==
    ASSUME NEW rows, NEW prev, NEW next, Numbered(prev, next), Infos(rows, prev, next),
           NEW gone, gone = NoRowAt(prev)
    PROVE  /\ gone \in SUBSET Nat
           /\ \A k \in DOMAIN rows :
                  /\ rows[k].was \notin gone
                  /\ rows[k].shifted = unshift(gone, rows[k].was) /\ rows[k].shifted \in Nat
           /\ \A k, l \in DOMAIN rows :
                  rows[k].was < rows[l].was <=> rows[k].shifted < rows[l].shifted
<1>1. prev \in Seq(Int) /\ Len(prev) \in Nat /\ Positions(prev) = 0..(Len(prev) - 1)
  BY RowsFacts DEF Numbered, Positions
<1>2. gone \in SUBSET Nat
  BY <1>1 DEF NoRowAt
<1>3. ASSUME NEW k \in DOMAIN rows
      PROVE  /\ rows[k].was \notin gone /\ rows[k].was \in Nat
             /\ rows[k].shifted = unshift(gone, rows[k].was) /\ rows[k].shifted \in Nat
  <2> DEFINE w == rows[k].was
  <2>1. w \in Nat /\ w \in Positions(prev) /\ rows[k].row \in Nat
    BY InfoFacts
  <2>2. At0(prev, w) = rows[k].row /\ rows[k].shifted = w - Cardinality(Gone(prev, w))
    BY DEF Infos
  <2> HIDE DEF w
  <2>3. Gone(prev, w) = {x \in gone : 0 <= x /\ x < w}
    <3>1. \A x : x \in Gone(prev, w) <=> x \in 0..(w - 1) /\ At0(prev, x) = npos
      BY DEF Gone
    <3>2. \A x : x \in gone <=> x \in Positions(prev) /\ At0(prev, x) = npos
      BY DEF NoRowAt
    <3>3. \A x : x \in 0..(w - 1) <=> x \in Positions(prev) /\ 0 <= x /\ x < w
      BY <1>1, <2>1
    <3> QED
      BY <3>1, <3>2, <3>3
  <2>4. rows[k].shifted = unshift(gone, w)
    BY <2>2, <2>3 DEF unshift, count
  <2>5. unshift(gone, w) \in Nat
    BY <1>2, <2>1, UnshiftIsFree
  <2>6. w \notin gone
    BY <2>1, <2>2 DEF npos, NoRowAt
  <2> QED
    BY <2>1, <2>4, <2>5, <2>6 DEF w
<1>4. ASSUME NEW k \in DOMAIN rows, NEW l \in DOMAIN rows
      PROVE  rows[k].was < rows[l].was <=> rows[k].shifted < rows[l].shifted
  <2>1. /\ rows[k].was \in Nat /\ rows[l].was \in Nat /\ rows[k].was \notin gone
        /\ rows[k].shifted = unshift(gone, rows[k].was)
        /\ rows[l].shifted = unshift(gone, rows[l].was)
    BY <1>3
  <2>2. rows[k].was < rows[l].was <=>
            unshift(gone, rows[k].was) < unshift(gone, rows[l].was)
    BY <1>2, <2>1, RankOrder
  <2> QED
    BY <2>1, <2>2
<1> QED
  BY <1>2, <1>3, <1>4

\* A row where insertions and removals put it: every row that was before it has been
\* passed.
LEMMA NothingBefore ==
    ASSUME NEW rows, NEW prev, NEW next, Numbered(prev, next), Infos(rows, prev, next),
           NEW gone, NEW removed, NEW inserted,
           Sorts(gone, removed, inserted, rows, prev, next),
           NEW k \in DOMAIN rows, NEW a, NEW Q,
           MovingBut(Q, a, k - 1, rows, removed, inserted),
           rows[k].shifted = rows[k].is - count(a.insertions, 0, rows[k].is)
                               + count(a.removed, 0, rows[k].was)
    PROVE  \A l \in DOMAIN rows : k < l => rows[k].was < rows[l].was
<1> DEFINE M == (1..(k - 1)) \ Q
           w == rows[k].was
           i == rows[k].is
           A == Free(gone, w)
           B == Free(a.insertions, i)
           C == {x \in a.removed : 0 <= x /\ x < w}
           W == {rows[q].was : q \in Q}
           f == [q \in Q |-> rows[q].was]
           g == [q \in Q |-> rows[q].is]
<1>1. /\ Len(rows) \in Nat /\ DOMAIN rows = 1..Len(rows)
      /\ \A l \in DOMAIN rows :
             /\ rows[l].was \in Nat /\ rows[l].is \in Nat
             /\ rows[l].was \in Positions(prev) /\ rows[l].is \in Positions(next)
      /\ \A l, m \in DOMAIN rows : rows[l].was = rows[m].was => l = m
      /\ \A l, m \in DOMAIN rows : rows[l].is = rows[m].is => l = m
      /\ \A l, m \in DOMAIN rows : l < m <=> rows[l].is < rows[m].is
  BY InfoFacts
<1>2. /\ Q \in SUBSET (1..(k - 1)) /\ M \in SUBSET (1..(k - 1))
      /\ a.insertions = inserted \cup {rows[l].is : l \in M}
      /\ a.removed = removed \cup {rows[l].was : l \in M}
      /\ \A q \in Q, l \in DOMAIN rows : q < l => rows[q].was < rows[l].was
  BY DEF MovingBut
<1>3. k \in Nat /\ \A q \in 1..(k - 1) : q \in DOMAIN rows /\ q < k /\ q \in Nat
  BY <1>1
<1>4. /\ gone = NoRowAt(prev)
      /\ removed \cap gone = {}
      /\ gone \cup removed = Positions(prev) \ {rows[l].was : l \in DOMAIN rows}
      /\ inserted = Positions(next) \ {rows[l].is : l \in DOMAIN rows}
  BY DEF Sorts, Others
<1>5. /\ Positions(prev) \in SUBSET Nat /\ Positions(next) \in SUBSET Nat
      /\ \A x \in Nat, y \in Positions(prev) : x < y => x \in Positions(prev)
      /\ \A x \in Nat, y \in Positions(next) : x < y => x \in Positions(next)
  <2>1. prev \in Seq(Int) /\ next \in Seq(Int)
    BY DEF Numbered
  <2>2. /\ Len(prev) \in Nat /\ Len(next) \in Nat
        /\ Positions(prev) = 0..(Len(prev) - 1) /\ Positions(next) = 0..(Len(next) - 1)
    BY <2>1, RowsFacts DEF Positions
  <2> QED
    BY <2>2
<1>6. /\ gone \in SUBSET Nat /\ w \notin gone /\ rows[k].shifted = unshift(gone, w)
      /\ \A l \in DOMAIN rows : rows[l].was \notin gone
  <2>1. gone = NoRowAt(prev)
    BY <1>4
  <2>2. /\ gone \in SUBSET Nat
        /\ \A l \in DOMAIN rows :
               /\ rows[l].was \notin gone
               /\ rows[l].shifted = unshift(gone, rows[l].was) /\ rows[l].shifted \in Nat
    BY <2>1, ShiftedIs
  <2> QED
    BY <2>2
<1>7. w \in Nat /\ i \in Nat /\ w \in Positions(prev) /\ i \in Positions(next)
  BY <1>1
<1> HIDE DEF M, w, i
<1>8. a.insertions \in SUBSET Nat /\ a.removed \in SUBSET Nat
  <2>1. \A l \in M : rows[l].was \in Nat /\ rows[l].is \in Nat
    BY <1>1, <1>2, <1>3
  <2>2. removed \in SUBSET Nat /\ inserted \in SUBSET Nat
    BY <1>4, <1>5
  <2> QED
    BY <1>2, <2>1, <2>2
<1>9. /\ IsFiniteSet(A) /\ unshift(gone, w) = Cardinality(A)
      /\ IsFiniteSet(B) /\ unshift(a.insertions, i) = Cardinality(B)
  BY <1>6, <1>7, <1>8, UnshiftIsFree
<1>10. Cardinality(A) = Cardinality(B) + Cardinality(C)
  <2>1. unshift(a.insertions, i) = i - count(a.insertions, 0, i)
    BY DEF unshift
  <2>2. count(a.removed, 0, w) = Cardinality(C)
    BY DEF count
  <2>3. rows[k].shifted = i - count(a.insertions, 0, i) + count(a.removed, 0, w)
    BY DEF w, i
  <2> QED
    BY <1>6, <1>9, <2>1, <2>2, <2>3
<1>11. \A q \in Q : rows[q].was < w
  BY <1>2, <1>3 DEF w
<1>12. ASSUME NEW x \in B
       PROVE  \E q \in Q : rows[q].is = x
  <2>1. x \in Nat /\ x < i /\ x \notin a.insertions
    BY <1>7 DEF Free
  <2>2. x \in Positions(next) /\ x \notin inserted
    BY <1>2, <1>5, <1>7, <2>1
  <2>3. PICK l \in DOMAIN rows : rows[l].is = x
    BY <1>4, <2>2
  <2>4. l < k
    BY <1>1, <2>1, <2>3 DEF i
  <2>5. l \in 1..(k - 1)
    BY <1>1, <1>3, <2>4
  <2>6. l \notin M
    BY <1>2, <2>1, <2>3
  <2> QED
    BY <2>3, <2>5, <2>6 DEF M
<1>13. ASSUME NEW q \in Q
       PROVE  rows[q].is \in B
  <2>1. q \in DOMAIN rows /\ q < k /\ q \notin M
    BY <1>2, <1>3 DEF M
  <2>2. rows[q].is \in Nat /\ rows[q].is < i
    BY <1>1, <2>1 DEF i
  <2>3. rows[q].is \notin inserted
    BY <1>4, <2>1
  <2>4. \A l \in M : rows[q].is # rows[l].is
    BY <1>1, <1>2, <1>3, <2>1
  <2>5. rows[q].is \notin a.insertions
    BY <1>2, <2>3, <2>4
  <2> QED
    BY <1>7, <2>2, <2>5 DEF Free
<1>14. ASSUME NEW q \in Q
       PROVE  rows[q].was \in A /\ rows[q].was \notin a.removed
  <2>1. q \in DOMAIN rows /\ q \notin M
    BY <1>2, <1>3 DEF M
  <2>2. rows[q].was \in Nat /\ rows[q].was < w /\ rows[q].was \notin gone
    BY <1>1, <1>6, <1>11, <2>1
  <2>3. rows[q].was \notin removed
    BY <1>4, <2>1
  <2>4. \A l \in M : rows[q].was # rows[l].was
    BY <1>1, <1>2, <1>3, <2>1
  <2>5. rows[q].was \notin a.removed
    BY <1>2, <2>3, <2>4
  <2> QED
    BY <1>7, <2>2, <2>5 DEF Free
<1>15. C \subseteq A
  <2>1. ASSUME NEW x \in C PROVE x \in A
    <3>1. x \in a.removed /\ x \in Nat /\ x < w
      BY <1>8
    <3>2. x \notin gone
      <4>1. CASE x \in removed
        BY <1>4, <4>1
      <4>2. CASE x \notin removed
        <5>1. PICK l \in M : x = rows[l].was
          BY <1>2, <3>1, <4>2
        <5> QED
          BY <1>2, <1>3, <1>6, <5>1
      <4> QED
        BY <4>1, <4>2
    <3> QED
      BY <1>7, <3>1, <3>2 DEF Free
  <2> QED
    BY <2>1
<1>16. W \subseteq A /\ W \cap C = {}
  BY <1>14
<1>17. Paired(Q, f, g, W, B)
  <2>1. f \in [Q -> W] /\ \A x \in W : \E q \in Q : f[q] = x
    OBVIOUS
  <2>2. g \in [Q -> B] /\ \A x \in B : \E q \in Q : g[q] = x
    BY <1>12, <1>13
  <2>3. \A q, m \in Q : f[q] = f[m] <=> g[q] = g[m]
    BY <1>1, <1>2, <1>3
  <2> HIDE DEF f, g, W, B
  <2> QED
    BY <2>1, <2>2, <2>3 DEF Paired
<1> HIDE DEF A, B, C, W, f, g
<1>18. IsFiniteSet(W) /\ IsFiniteSet(C)
  BY <1>9, <1>15, <1>16, FS_Subset
<1>19. Cardinality(W) = Cardinality(B)
  BY <1>17, <1>18, SameNumber
<1>20. Cardinality(W \cup C) = Cardinality(W) + Cardinality(C) - Cardinality(W \cap C)
  BY <1>18, FS_Union
<1>21. Cardinality(W \cap C) = 0
  BY <1>16, FS_EmptySet
<1>22. Cardinality(W) \in Nat /\ Cardinality(C) \in Nat /\ Cardinality(A) \in Nat
  BY <1>9, <1>18, FS_CardinalityType
<1>23. Cardinality(A) = Cardinality(W \cup C)
  BY <1>10, <1>19, <1>20, <1>21, <1>22
<1>24. W \cup C \in SUBSET A
  BY <1>15, <1>16
<1>25. A = W \cup C
  BY <1>9, <1>23, <1>24, FS_Subset
<1>26. ASSUME NEW l \in DOMAIN rows, k < l
       PROVE  w < rows[l].was
  <2>1. SUFFICES ASSUME rows[l].was < w PROVE FALSE
    <3>1. rows[l].was \in Nat /\ rows[l].was # w
      BY <1>1, <1>3, <1>26 DEF w
    <3> QED
      BY <1>7, <3>1
  <2>2. rows[l].was \in A
    <3>1. rows[l].was \in Nat /\ rows[l].was \notin gone
      BY <1>1, <1>6
    <3> QED
      BY <1>7, <2>1, <3>1 DEF Free, A
  <2>3. rows[l].was \notin W
    <3>1. \A q \in Q : q # l
      BY <1>1, <1>2, <1>3, <1>26
    <3>2. \A q \in Q : rows[q].was # rows[l].was
      BY <1>1, <1>2, <1>3, <3>1
    <3> QED
      BY <3>2 DEF W
  <2>4. rows[l].was \notin C
    <3>1. \A m \in M : m # l
      BY <1>1, <1>2, <1>3, <1>26
    <3>2. \A m \in M : rows[m].was # rows[l].was
      BY <1>1, <1>2, <1>3, <3>1
    <3>3. rows[l].was \notin removed
      BY <1>4
    <3> QED
      BY <1>2, <3>2, <3>3 DEF C
  <2> QED
    BY <1>25, <2>2, <2>3, <2>4
<1> QED
  BY <1>26 DEF w

\* What one row adds to a fold over them.
LEMMA MoveUnsortedType ==
    ASSUME NEW a \in MoveStates, NEW candidates, NEW r, r.row \in Nat, r.was \in Nat,
           r.is \in Nat, r.shifted \in Nat
    PROVE  MoveUnsorted(candidates, a, r) \in MoveStates
<1> DEFINE e == r.is - count(a.insertions, 0, r.is) + count(a.removed, 0, r.was)
<1>1. /\ a.expected \in Int /\ a.moves \in Seq(MoveRecord)
      /\ a.insertions \in SUBSET Nat /\ a.removed \in SUBSET Nat
      /\ a = [expected |-> a.expected, moves |-> a.moves,
              insertions |-> a.insertions, removed |-> a.removed]
  BY DEF MoveStates
<1>2. \A S \in SUBSET Nat, n \in Nat : count(S, 0, n) \in Int
  <2>1. ASSUME NEW S \in SUBSET Nat, NEW n \in Nat PROVE count(S, 0, n) \in Int
    <3>1. IsFiniteSet(0..(n - 1))
      BY FS_Interval
    <3>2. {x \in S : 0 <= x /\ x < n} \in SUBSET (0..(n - 1))
      <4>1. \A x \in Nat : 0 <= x /\ x < n => x \in 0..(n - 1)
        OBVIOUS
      <4> QED
        BY <4>1
    <3>3. IsFiniteSet({x \in S : 0 <= x /\ x < n})
      BY <3>1, <3>2, FS_Subset
    <3>4. Cardinality({x \in S : 0 <= x /\ x < n}) \in Nat
      BY <3>3, FS_CardinalityType
    <3> QED
      BY <3>4 DEF count
  <2> QED
    BY <2>1
<1>3. e \in Int
  <2>1. count(a.insertions, 0, r.is) \in Int /\ count(a.removed, 0, r.was) \in Int
    BY <1>1, <1>2
  <2> QED
    BY <2>1
<1> HIDE DEF e
<1>4. Move(r.was, r.is) \in MoveRecord
  BY DEF Move, MoveRecord
<1>5. Append(a.moves, Move(r.was, r.is)) \in Seq(MoveRecord)
  BY <1>1, <1>4
<1>6. ASSUME NEW x \in Int
      PROVE  [a EXCEPT !.expected = x] \in MoveStates
  BY <1>1 DEF MoveStates
<1>7. [a EXCEPT !.moves = Append(@, Move(r.was, r.is)),
               !.insertions = @ \cup {r.is},
               !.removed = @ \cup {r.was}] \in MoveStates
  <2>1. a.insertions \cup {r.is} \in SUBSET Nat /\ a.removed \cup {r.was} \in SUBSET Nat
    BY <1>1
  <2> QED
    BY <1>1, <1>5, <2>1 DEF MoveStates
<1>8. MoveUnsorted(candidates, a, r) =
          IF r.shifted = a.expected THEN [a EXCEPT !.expected = @ + 1]
          ELSE IF r.row \notin candidates THEN [a EXCEPT !.expected = r.shifted + 1]
          ELSE IF r.shifted = e THEN [a EXCEPT !.expected = e + 1]
          ELSE [a EXCEPT !.moves = Append(@, Move(r.was, r.is)),
                         !.insertions = @ \cup {r.is},
                         !.removed = @ \cup {r.was}]
  BY DEF MoveUnsorted, e
<1>9. a.expected + 1 \in Int /\ r.shifted + 1 \in Int /\ e + 1 \in Int
  BY <1>1, <1>3
<1> QED
  BY <1>6, <1>7, <1>8, <1>9

\* The row that is expected next: no later one was before it.
LEMMA NothingExpectedBefore ==
    ASSUME NEW rows, NEW prev, NEW next, Numbered(prev, next), Infos(rows, prev, next),
           NEW removed, NEW inserted,
           NEW k \in DOMAIN rows, NEW a, NEW Q,
           MovingBut(Q, a, k - 1, rows, removed, inserted),
           rows[k].shifted = a.expected
    PROVE  \A l \in DOMAIN rows : k < l => rows[k].was < rows[l].was
<1>1. /\ Len(rows) \in Nat /\ DOMAIN rows = 1..Len(rows)
      /\ \A l \in DOMAIN rows : rows[l].was \in Nat
      /\ \A l, m \in DOMAIN rows : rows[l].was = rows[m].was => l = m
  BY InfoFacts
<1>2. /\ \A l \in DOMAIN rows : rows[l].shifted \in Nat
      /\ \A l, m \in DOMAIN rows :
             rows[l].was < rows[m].was <=> rows[l].shifted < rows[m].shifted
  <2> DEFINE gone == NoRowAt(prev)
  <2>1. gone = NoRowAt(prev)
    OBVIOUS
  <2> HIDE DEF gone
  <2>2. /\ gone \in SUBSET Nat
        /\ \A l \in DOMAIN rows :
               /\ rows[l].was \notin gone
               /\ rows[l].shifted = unshift(gone, rows[l].was) /\ rows[l].shifted \in Nat
        /\ \A l, m \in DOMAIN rows :
               rows[l].was < rows[m].was <=> rows[l].shifted < rows[m].shifted
    BY <2>1, ShiftedIs
  <2> QED
    BY <2>2
<1>3. /\ Q \in SUBSET (1..(k - 1))
      /\ \A q \in Q, l \in DOMAIN rows : q < l => rows[q].was < rows[l].was
      /\ (Q = {} /\ a.expected = 0) \/ \E q \in Q : a.expected = rows[q].shifted + 1
  BY DEF MovingBut
<1>4. ASSUME NEW l \in DOMAIN rows, k < l
      PROVE  rows[k].was < rows[l].was
  <2>1. k \in Nat /\ l \in Nat /\ l # k
    BY <1>1, <1>4
  <2>2. rows[l].was # rows[k].was /\ rows[l].was \in Nat /\ rows[k].was \in Nat
    BY <1>1, <2>1
  <2>3. SUFFICES ASSUME rows[l].was < rows[k].was PROVE FALSE
    BY <2>2
  <2>4. rows[l].shifted < rows[k].shifted /\ rows[l].shifted \in Nat
    BY <1>2, <2>3
  <2>5. CASE a.expected = 0
    BY <2>4, <2>5
  <2>6. CASE \E q \in Q : a.expected = rows[q].shifted + 1
    <3>1. PICK q \in Q : a.expected = rows[q].shifted + 1
      BY <2>6
    <3>2. q \in DOMAIN rows /\ q < l
      BY <1>1, <1>3, <1>4
    <3>3. rows[q].was < rows[l].was
      BY <1>3, <3>2
    <3>4. rows[q].shifted < rows[l].shifted /\ rows[q].shifted \in Nat
      BY <1>2, <3>2, <3>3
    <3> QED
      BY <2>4, <3>1, <3>4
  <2> QED
    BY <1>3, <2>5, <2>6
<1> QED
  BY <1>4

LEMMA StayedOn ==
    ASSUME NEW rows, NEW prev, NEW next, Numbered(prev, next), Infos(rows, prev, next),
           NEW removed, NEW inserted,
           NEW k \in DOMAIN rows, NEW a \in MoveStates, NEW Q,
           MovingBut(Q, a, k - 1, rows, removed, inserted),
           \A l \in DOMAIN rows : k < l => rows[k].was < rows[l].was,
           NEW b, b = [a EXCEPT !.expected = rows[k].shifted + 1]
    PROVE  MovingBut(Q \cup {k}, b, k, rows, removed, inserted)
<1>1. k \in Nat /\ k >= 1
  BY InfoFacts
<1>2. /\ Q \in SUBSET (1..(k - 1))
      /\ \A q \in Q, l \in DOMAIN rows : q < l => rows[q].was < rows[l].was
      /\ a.insertions = inserted \cup {rows[l].is : l \in (1..(k - 1)) \ Q}
      /\ a.removed = removed \cup {rows[l].was : l \in (1..(k - 1)) \ Q}
      /\ RowMoves(a.moves, rows, (1..(k - 1)) \ Q)
  BY DEF MovingBut
<1>3. (1..k) \ (Q \cup {k}) = (1..(k - 1)) \ Q
  <2>1. \A x : x \in 1..k /\ x # k <=> x \in 1..(k - 1)
    BY <1>1
  <2> QED
    BY <2>1
<1>4. Q \cup {k} \in SUBSET (1..k)
  <2>1. k \in 1..k /\ \A x \in 1..(k - 1) : x \in 1..k
    BY <1>1
  <2> QED
    BY <1>2, <2>1
<1>5. /\ b.expected = rows[k].shifted + 1 /\ b.moves = a.moves
      /\ b.insertions = a.insertions /\ b.removed = a.removed
  BY DEF MoveStates
<1>6. \A q \in Q \cup {k}, l \in DOMAIN rows : q < l => rows[q].was < rows[l].was
  BY <1>2
<1>7. \E q \in Q \cup {k} : b.expected = rows[q].shifted + 1
  BY <1>5
<1> QED
  BY <1>2, <1>3, <1>4, <1>5, <1>6, <1>7 DEF MovingBut

LEMMA MovedAway ==
    ASSUME NEW rows, NEW prev, NEW next, Numbered(prev, next), Infos(rows, prev, next),
           NEW removed, NEW inserted,
           NEW k \in DOMAIN rows, NEW a \in MoveStates, NEW Q,
           MovingBut(Q, a, k - 1, rows, removed, inserted),
           NEW b, b = [a EXCEPT !.moves = Append(@, Move(rows[k].was, rows[k].is)),
                                !.insertions = @ \cup {rows[k].is},
                                !.removed = @ \cup {rows[k].was}]
    PROVE  MovingBut(Q, b, k, rows, removed, inserted)
<1> DEFINE M == (1..(k - 1)) \ Q
           N == (1..k) \ Q
           m == Move(rows[k].was, rows[k].is)
           n == Len(a.moves)
<1>1. /\ k \in Nat /\ k >= 1 /\ DOMAIN rows = 1..Len(rows) /\ Len(rows) \in Nat
      /\ \A l \in DOMAIN rows : rows[l].was \in Nat /\ rows[l].is \in Nat
      /\ \A l, j \in DOMAIN rows : rows[l].was = rows[j].was => l = j
      /\ \A l, j \in DOMAIN rows : rows[l].is = rows[j].is => l = j
  BY InfoFacts
<1>2. /\ Q \in SUBSET (1..(k - 1))
      /\ \A q \in Q, l \in DOMAIN rows : q < l => rows[q].was < rows[l].was
      /\ a.insertions = inserted \cup {rows[l].is : l \in M}
      /\ a.removed = removed \cup {rows[l].was : l \in M}
      /\ RowMoves(a.moves, rows, M)
      /\ (Q = {} /\ a.expected = 0) \/ \E q \in Q : a.expected = rows[q].shifted + 1
  BY DEF MovingBut
<1>3. N = M \cup {k} /\ k \notin M /\ Q \in SUBSET (1..k) /\ M \in SUBSET DOMAIN rows
  <2>1. \A x : x \in 1..k <=> x \in 1..(k - 1) \/ x = k
    BY <1>1
  <2>2. k \notin 1..(k - 1)
    BY <1>1
  <2>3. \A x \in 1..(k - 1) : x \in DOMAIN rows
    BY <1>1
  <2> QED
    BY <1>2, <2>1, <2>2, <2>3
<1>4. /\ b.expected = a.expected /\ b.moves = Append(a.moves, m)
      /\ b.insertions = a.insertions \cup {rows[k].is}
      /\ b.removed = a.removed \cup {rows[k].was}
  BY DEF MoveStates
<1> HIDE DEF M, N
<1>5. m \in MoveRecord /\ m.from = rows[k].was /\ m.to = rows[k].is
  BY <1>1 DEF Move, MoveRecord
<1>6. /\ b.insertions = inserted \cup {rows[l].is : l \in N}
      /\ b.removed = removed \cup {rows[l].was : l \in N}
  BY <1>2, <1>3, <1>4
<1>7. /\ a.moves \in Seq(MoveRecord)
      /\ \A i \in DOMAIN a.moves :
             \E l \in M : a.moves[i] = Move(rows[l].was, rows[l].is)
      /\ \A i, j \in DOMAIN a.moves :
             i # j => a.moves[i].from # a.moves[j].from /\ a.moves[i].to # a.moves[j].to
  BY <1>2 DEF RowMoves
<1>8. n \in Nat /\ DOMAIN a.moves = 1..n
  BY <1>7, RowsFacts
<1> HIDE DEF m, n
<1>9. /\ b.moves \in Seq(MoveRecord) /\ DOMAIN b.moves = 1..(n + 1)
      /\ b.moves[n + 1] = m /\ \A i \in 1..n : b.moves[i] = a.moves[i]
  BY <1>4, <1>5, <1>7, <1>8 DEF n
<1>10. \A i \in DOMAIN b.moves : i \in DOMAIN a.moves \/ i = n + 1
  BY <1>8, <1>9
<1>11. \A i \in DOMAIN b.moves : \E l \in N : b.moves[i] = Move(rows[l].was, rows[l].is)
  BY <1>3, <1>7, <1>8, <1>9, <1>10 DEF m
<1>12. ASSUME NEW i \in DOMAIN a.moves
       PROVE  a.moves[i].from # m.from /\ a.moves[i].to # m.to
  <2>1. PICK l \in M : a.moves[i] = Move(rows[l].was, rows[l].is)
    BY <1>7
  <2>2. a.moves[i].from = rows[l].was /\ a.moves[i].to = rows[l].is
    BY <2>1 DEF Move
  <2>3. l \in DOMAIN rows /\ l # k
    BY <1>3
  <2> QED
    BY <1>1, <1>5, <2>2, <2>3
<1>13. \A i, j \in DOMAIN b.moves :
           i # j => b.moves[i].from # b.moves[j].from /\ b.moves[i].to # b.moves[j].to
  <2>1. ASSUME NEW i \in DOMAIN b.moves, NEW j \in DOMAIN b.moves, i # j
        PROVE  b.moves[i].from # b.moves[j].from /\ b.moves[i].to # b.moves[j].to
    <3>1. CASE i \in DOMAIN a.moves /\ j \in DOMAIN a.moves
      BY <1>7, <1>8, <1>9, <2>1, <3>1
    <3>2. CASE i \in DOMAIN a.moves /\ j = n + 1
      BY <1>8, <1>9, <1>12, <3>2
    <3>3. CASE i = n + 1 /\ j \in DOMAIN a.moves
      BY <1>8, <1>9, <1>12, <3>3
    <3> QED
      BY <1>10, <2>1, <3>1, <3>2, <3>3
  <2> QED
    BY <2>1
<1>14. RowMoves(b.moves, rows, N)
  BY <1>9, <1>11, <1>13 DEF RowMoves
<1> QED
  BY <1>2, <1>3, <1>4, <1>6, <1>14 DEF MovingBut, N

LEMMA MovedOn ==
    ASSUME NEW rows, NEW prev, NEW next, Numbered(prev, next), Infos(rows, prev, next),
           NEW gone, NEW removed, NEW inserted,
           Sorts(gone, removed, inserted, rows, prev, next),
           NEW candidates, InOrder(rows, candidates),
           NEW k \in DOMAIN rows, NEW a \in MoveStates,
           Moving(a, k - 1, rows, removed, inserted)
    PROVE  Moving(MoveUnsorted(candidates, a, rows[k]), k, rows, removed, inserted)
<1> DEFINE r == rows[k]
           e == r.is - count(a.insertions, 0, r.is) + count(a.removed, 0, r.was)
           b == MoveUnsorted(candidates, a, r)
<1>1. PICK Q : MovingBut(Q, a, k - 1, rows, removed, inserted)
  BY DEF Moving
<1>2. b = IF r.shifted = a.expected THEN [a EXCEPT !.expected = @ + 1]
          ELSE IF r.row \notin candidates THEN [a EXCEPT !.expected = r.shifted + 1]
          ELSE IF r.shifted = e THEN [a EXCEPT !.expected = e + 1]
          ELSE [a EXCEPT !.moves = Append(@, Move(r.was, r.is)),
                         !.insertions = @ \cup {r.is},
                         !.removed = @ \cup {r.was}]
  BY DEF MoveUnsorted
<1> HIDE DEF b
<1>3. CASE r.shifted = a.expected
  <2>1. \A l \in DOMAIN rows : k < l => rows[k].was < rows[l].was
    BY <1>1, <1>3, NothingExpectedBefore
  <2>2. b = [a EXCEPT !.expected = rows[k].shifted + 1]
    BY <1>2, <1>3
  <2>3. MovingBut(Q \cup {k}, b, k, rows, removed, inserted)
    BY <1>1, <2>1, <2>2, StayedOn
  <2> QED
    BY <2>3 DEF Moving, b
<1>4. CASE r.shifted # a.expected /\ r.row \notin candidates
  <2>1. \A l \in DOMAIN rows : k < l => rows[k].was < rows[l].was
    BY <1>4 DEF InOrder
  <2>2. b = [a EXCEPT !.expected = rows[k].shifted + 1]
    BY <1>2, <1>4
  <2>3. MovingBut(Q \cup {k}, b, k, rows, removed, inserted)
    BY <1>1, <2>1, <2>2, StayedOn
  <2> QED
    BY <2>3 DEF Moving, b
<1>5. CASE r.shifted # a.expected /\ r.row \in candidates /\ r.shifted = e
  <2>1. \A l \in DOMAIN rows : k < l => rows[k].was < rows[l].was
    BY <1>1, <1>5, NothingBefore
  <2>2. b = [a EXCEPT !.expected = rows[k].shifted + 1]
    BY <1>2, <1>5
  <2>3. MovingBut(Q \cup {k}, b, k, rows, removed, inserted)
    BY <1>1, <2>1, <2>2, StayedOn
  <2> QED
    BY <2>3 DEF Moving, b
<1>6. CASE r.shifted # a.expected /\ r.row \in candidates /\ r.shifted # e
  <2>1. b = [a EXCEPT !.moves = Append(@, Move(r.was, r.is)),
                      !.insertions = @ \cup {r.is},
                      !.removed = @ \cup {r.was}]
    BY <1>2, <1>6
  <2>2. MovingBut(Q, b, k, rows, removed, inserted)
    BY <1>1, <2>1, MovedAway
  <2> QED
    BY <2>2 DEF Moving, b
<1> QED
  BY <1>3, <1>4, <1>5, <1>6

\* The state of calculate_moves_unsorted after all rows.
MovedRows(rows, removed, inserted, candidates) ==
    FoldLeft(LAMBDA x, r : MoveUnsorted(candidates, x, r),
             [expected |-> 0, moves |-> <<>>, insertions |-> inserted, removed |-> removed],
             rows)

LEMMA AllPlaced ==
    ASSUME NEW rows, NEW prev, NEW next, Numbered(prev, next), Infos(rows, prev, next),
           NEW gone, NEW removed, NEW inserted,
           Sorts(gone, removed, inserted, rows, prev, next),
           NEW candidates, InOrder(rows, candidates)
    PROVE  Moving(MovedRows(rows, removed, inserted, candidates), Len(rows), rows, removed, inserted)
<1> DEFINE n == Len(rows)
           base == [expected |-> 0, moves |-> <<>>, insertions |-> inserted,
                    removed |-> removed]
           F == [p \in MoveStates \X (1..n) |-> MoveUnsorted(candidates, p[1], rows[p[2]])]
           Iter(h) == h = [w \in SUBSET DOMAIN rows |->
                              IF w = {} THEN base
                              ELSE MoveUnsorted(candidates, h[w \ {Max(w)}], rows[Max(w)])]
           it == CHOOSE h : Iter(h)
<1>1. /\ n \in Nat /\ DOMAIN rows = 1..n
      /\ \A k \in 1..n : /\ rows[k].row \in Nat /\ rows[k].was \in Nat
                         /\ rows[k].is \in Nat /\ rows[k].shifted \in Nat
  <2> DEFINE gaps == NoRowAt(prev)
  <2>1. gaps = NoRowAt(prev)
    OBVIOUS
  <2> HIDE DEF gaps
  <2>2. /\ gaps \in SUBSET Nat
        /\ \A l \in DOMAIN rows :
               /\ rows[l].was \notin gaps
               /\ rows[l].shifted = unshift(gaps, rows[l].was) /\ rows[l].shifted \in Nat
        /\ \A l, m \in DOMAIN rows :
               rows[l].was < rows[m].was <=> rows[l].shifted < rows[m].shifted
    BY <2>1, ShiftedIs
  <2>3. /\ Len(rows) \in Nat /\ DOMAIN rows = 1..Len(rows)
        /\ \A k \in DOMAIN rows :
               rows[k].was \in Nat /\ rows[k].is \in Nat /\ rows[k].row \in Nat
    BY InfoFacts
  <2> QED
    BY <2>2, <2>3
<1>2. base \in MoveStates
  <2>1. <<>> \in Seq(MoveRecord)
    OBVIOUS
  <2>2. Positions(prev) \in SUBSET Nat /\ Positions(next) \in SUBSET Nat
    BY PositionFacts DEF Numbered
  <2>3. removed \in SUBSET Nat /\ inserted \in SUBSET Nat
    BY <2>2 DEF Sorts, Others
  <2> QED
    BY <2>1, <2>3 DEF MoveStates
<1>25. Moving(base, 0, rows, removed, inserted)
  <2>1. RowMoves(base.moves, rows, {})
    BY DEF RowMoves
  <2>2. (1..0) \ {} = {} /\ {} \in SUBSET (1..0)
    OBVIOUS
  <2>3. /\ base.insertions = inserted \cup {rows[l].is : l \in {}}
        /\ base.removed = removed \cup {rows[l].was : l \in {}}
        /\ base.expected = 0
    OBVIOUS
  <2> HIDE DEF base
  <2>4. MovingBut({}, base, 0, rows, removed, inserted)
    BY <2>1, <2>2, <2>3 DEF MovingBut
  <2> QED
    BY <2>4 DEF Moving
<1>3. MovedRows(rows, removed, inserted, candidates) = it[DOMAIN rows]
  BY DEF MovedRows, FoldLeft, MapThenFoldSet
<1> HIDE DEF n, base
<1>4. F \in [MoveStates \X (1..n) -> MoveStates]
  BY <1>1, MoveUnsortedType
<1>5. PICK g : Folds(g, MoveStates, base, n, F)
  <2> HIDE DEF F
  <2>1. n \in Nat /\ base \in MoveStates
    BY <1>1, <1>2
  <2> QED
    BY <2>1, <1>4, FoldExists
<1>55. /\ g \in [SUBSET (1..n) -> MoveStates]
       /\ \A w \in SUBSET (1..n) :
              g[w] = IF w = {} THEN base ELSE F[<<g[w \ {Max(w)}], Max(w)>>]
  BY <1>5 DEF Folds
<1>6. Iter(g)
  <2>1. ASSUME NEW w \in SUBSET (1..n)
        PROVE  g[w] = IF w = {} THEN base
                      ELSE MoveUnsorted(candidates, g[w \ {Max(w)}], rows[Max(w)])
    <3>1. CASE w = {}
      BY <1>55, <3>1
    <3>2. CASE w # {}
      <4>1. Max(w) \in 1..n
        BY <1>1, <3>2, LargestOf
      <4>2. g[w \ {Max(w)}] \in MoveStates
        BY <1>55
      <4>3. F[<<g[w \ {Max(w)}], Max(w)>>]
                = MoveUnsorted(candidates, g[w \ {Max(w)}], rows[Max(w)])
        BY <4>1, <4>2
      <4> HIDE DEF F
      <4> QED
        BY <1>55, <3>2, <4>3
    <3> QED
      BY <3>1, <3>2
  <2>2. g = [w \in SUBSET (1..n) |-> g[w]]
    BY <1>55
  <2>3. g = [w \in SUBSET (1..n) |->
                 IF w = {} THEN base
                 ELSE MoveUnsorted(candidates, g[w \ {Max(w)}], rows[Max(w)])]
    BY <2>1, <2>2
  <2> QED
    BY <1>1, <2>3
<1>7. Iter(it)
  BY <1>6
<1> HIDE DEF it
<1>8. \A w \in SUBSET (1..n) :
          it[w] = IF w = {} THEN base
                  ELSE MoveUnsorted(candidates, it[w \ {Max(w)}], rows[Max(w)])
  <2>1. it = [w \in SUBSET (1..n) |->
                 IF w = {} THEN base
                 ELSE MoveUnsorted(candidates, it[w \ {Max(w)}], rows[Max(w)])]
    BY <1>1, <1>7
  <2> QED
    BY <2>1
<1> HIDE DEF Iter, F
<1>9. it[1..0] = base
  <2>1. 1..0 = {} /\ {} \in SUBSET (1..n)
    OBVIOUS
  <2> QED
    BY <1>8, <2>1
<1>10. ASSUME NEW k \in 1..n
       PROVE  it[1..k] = MoveUnsorted(candidates, it[1..(k - 1)], rows[k])
  <2>0. k \in Nat /\ k >= 1 /\ k <= n
    BY <1>1
  <2>1. 1..k \in SUBSET (1..n) /\ 1..k # {} /\ (1..k) \ {k} = 1..(k - 1) /\ k \in 1..k
    <3>1. \A x : x \in (1..k) \ {k} <=> x \in 1..(k - 1)
      BY <2>0
    <3>2. k \in 1..k /\ \A x \in 1..k : x \in 1..n
      BY <1>1, <2>0
    <3> QED
      BY <3>1, <3>2
  <2>2. Max(1..k) = k
    <3>1. \A x \in 1..k : x <= k
      OBVIOUS
    <3> QED
      BY <1>1, <2>1, <3>1, LargestIs
  <2> QED
    BY <1>8, <2>1, <2>2
<1> DEFINE P == [k \in 0..n |-> /\ it[1..k] \in MoveStates
                                /\ Moving(it[1..k], k, rows, removed, inserted)]
<1>11. P[0]
  BY <1>1, <1>2, <1>25, <1>9
<1>12. ASSUME NEW k \in 1..n, P[k - 1]
       PROVE  P[k]
  <2>0. k - 1 \in 0..n /\ k \in 0..n
    BY <1>1
  <2> DEFINE a == it[1..(k - 1)]
  <2>1. a \in MoveStates /\ Moving(a, k - 1, rows, removed, inserted)
    BY <1>12, <2>0
  <2>2. k \in DOMAIN rows
    BY <1>1
  <2>25. it[1..k] = MoveUnsorted(candidates, a, rows[k])
    BY <1>10
  <2> HIDE DEF a
  <2>3. Moving(MoveUnsorted(candidates, a, rows[k]), k, rows, removed, inserted)
    BY <2>1, <2>2, MovedOn
  <2>4. MoveUnsorted(candidates, a, rows[k]) \in MoveStates
    BY <1>1, <2>1, MoveUnsortedType
  <2> QED
    BY <2>0, <2>25, <2>3, <2>4
<1>13. P \in [0..n -> BOOLEAN]
  BY DEF Moving
<1> HIDE DEF P
<1>14. P[n]
  BY <1>1, <1>11, <1>12, <1>13, StepByStep
<1>15. Moving(it[1..n], n, rows, removed, inserted)
  BY <1>1, <1>14 DEF P
<1> QED
  BY <1>1, <1>3, <1>15 DEF n

LEMMA UnsortedTurns ==
    ASSUME NEW rows, NEW prev, NEW next, Numbered(prev, next), Infos(rows, prev, next),
           NEW was, NEW is, NumberedBy(was, is, prev, next),
           NEW gone, NEW removed, NEW inserted,
           Sorts(gone, removed, inserted, rows, prev, next),
           NEW candidates, InOrder(rows, candidates), NEW modified
    PROVE  Turns(Unsorted(rows, gone, removed, inserted, modified, candidates), was, is)
<1> DEFINE a == MovedRows(rows, removed, inserted, candidates)
           n == Len(rows)
           c == Unsorted(rows, gone, removed, inserted, modified, candidates)
           G == gone \cup removed
           D == gone \cup a.removed
           I == a.insertions
<1>1. n \in Nat /\ DOMAIN rows = 1..n
  BY InfoFacts
<1>2. Moving(a, n, rows, removed, inserted)
  BY AllPlaced
<1>3. c.deletions = D /\ c.insertions = I /\ c.moves = a.moves
  BY EmptyIs DEF Unsorted, MovedRows
<1> HIDE DEF a, n, c
<1>4. PICK Q : MovingBut(Q, a, n, rows, removed, inserted)
  BY <1>2 DEF Moving
<1>5. /\ Q \in SUBSET (1..n)
      /\ a.insertions = inserted \cup {rows[l].is : l \in (1..n) \ Q}
      /\ a.removed = removed \cup {rows[l].was : l \in (1..n) \ Q}
      /\ \A q \in Q, l \in DOMAIN rows : q < l => rows[q].was < rows[l].was
      /\ RowMoves(a.moves, rows, (1..n) \ Q)
  BY <1>4 DEF MovingBut
<1>6. Others(G, inserted, rows, prev, next)
  BY DEF Sorts
<1>7. Leaves(D, I, G, inserted, rows, Q)
  BY <1>1, <1>5 DEF Leaves
<1> HIDE DEF D, I, G
<1>8. Q \in SUBSET DOMAIN rows /\ \A k, l \in Q : k < l => rows[k].was < rows[l].was
  BY <1>1, <1>5
<1>9. Without(was, D) = Without(is, I) /\ I \subseteq Positions(is)
  BY <1>6, <1>7, <1>8, KeptTurns
<1>10. /\ \A i \in DOMAIN a.moves :
              \E l \in (1..n) \ Q : a.moves[i] = Move(rows[l].was, rows[l].is)
       /\ \A i, j \in DOMAIN a.moves :
              i # j => a.moves[i].from # a.moves[j].from /\ a.moves[i].to # a.moves[j].to
  BY <1>5 DEF RowMoves
<1>11. ASSUME NEW i \in DOMAIN a.moves
       PROVE  /\ a.moves[i].from \in D /\ a.moves[i].to \in I
              /\ At0(was, a.moves[i].from) = At0(is, a.moves[i].to)
  <2>1. PICK l \in (1..n) \ Q : a.moves[i] = Move(rows[l].was, rows[l].is)
    BY <1>10
  <2>2. a.moves[i].from = rows[l].was /\ a.moves[i].to = rows[l].is /\ l \in DOMAIN rows
    BY <1>1, <2>1 DEF Move
  <2>3. rows[l].was \in D /\ rows[l].is \in I
    BY <1>5, <2>1 DEF D, I
  <2>4. /\ rows[l].was \in Positions(prev) /\ rows[l].is \in Positions(next)
        /\ At0(prev, rows[l].was) = At0(next, rows[l].is)
    BY <2>2 DEF Infos
  <2>5. At0(was, rows[l].was) = At0(is, rows[l].is)
    BY <2>4 DEF NumberedBy
  <2> QED
    BY <2>2, <2>3, <2>5
<1>12. \A i \in DOMAIN a.moves : \A j \in DOMAIN a.moves \ {i} :
           a.moves[j].from # a.moves[i].from /\ a.moves[j].to # a.moves[i].to
  BY <1>10
<1>13. Turns(c, was, is)
  BY <1>3, <1>9, <1>11, <1>12 DEF Turns
<1> QED
  BY <1>13 DEF c

\* gone, removed and inserted as CollectionChangeBuilder::calculate finds them.
LEMMA SortsThem ==
    ASSUME NEW rows, NEW prev, NEW next, Numbered(prev, next), Infos(rows, prev, next),
           NEW kept, kept = {i \in Positions(prev) : At0(prev, i) # npos},
           NEW gone, gone = Positions(prev) \ kept,
           NEW removed, removed = {i \in kept : PlaceOf(next, At0(prev, i)) < 0},
           NEW inserted, inserted = {i \in Positions(next) : PlaceOf(prev, At0(next, i)) < 0}
    PROVE  Sorts(gone, removed, inserted, rows, prev, next)
<1>1. /\ prev \in Seq(Int) /\ next \in Seq(Int)
      /\ Positions(prev) \in SUBSET Nat /\ Positions(next) \in SUBSET Nat
  <2>1. prev \in Seq(Int) /\ next \in Seq(Int)
    BY DEF Numbered
  <2> QED
    BY <2>1, PositionFacts
<1>2. /\ \A k \in DOMAIN rows :
             /\ rows[k].was \in Positions(prev) /\ rows[k].is \in Positions(next)
             /\ At0(prev, rows[k].was) = rows[k].row /\ At0(next, rows[k].is) = rows[k].row
      /\ \A w \in Positions(prev), i \in Positions(next) : At0(prev, w) = At0(next, i) =>
             \E k \in DOMAIN rows : rows[k].was = w /\ rows[k].is = i
  BY DEF Infos
<1>3. gone = NoRowAt(prev) /\ removed \cap gone = {}
  BY DEF NoRowAt
<1>4. \A k \in DOMAIN rows : rows[k].row \in Nat
  BY InfoFacts
<1>5. ASSUME NEW w \in Positions(prev), w \in gone \cup removed, NEW k \in DOMAIN rows
      PROVE  rows[k].was # w
  <2>1. SUFFICES ASSUME rows[k].was = w PROVE FALSE
    OBVIOUS
  <2>2. At0(prev, w) = rows[k].row /\ At0(prev, w) = At0(next, rows[k].is)
    BY <1>2, <2>1
  <2>3. At0(prev, w) # npos
    <3>1. rows[k].row \in Nat
      BY <1>4
    <3> QED
      BY <2>2, <3>1 DEF npos
  <2>4. PlaceOf(next, At0(prev, w)) < 0
    BY <1>3, <1>5, <2>3 DEF NoRowAt
  <2>5. PlaceOf(next, At0(prev, w)) \in Positions(next)
    BY <1>1, <1>2, <2>2, PlaceIs
  <2> QED
    BY <1>1, <2>4, <2>5
<1>6. ASSUME NEW w \in Positions(prev), \A k \in DOMAIN rows : rows[k].was # w
      PROVE  w \in gone \cup removed
  <2>1. \A i \in Positions(next) : At0(next, i) # At0(prev, w)
    BY <1>2, <1>6
  <2>2. PlaceOf(next, At0(prev, w)) = -1
    BY <1>1, <2>1, PlaceIs
  <2> QED
    BY <2>2
<1>7. ASSUME NEW i \in Positions(next)
      PROVE  i \in inserted <=> \A k \in DOMAIN rows : rows[k].is # i
  <2>1. CASE i \in inserted
    <3>1. PlaceOf(prev, At0(next, i)) < 0
      BY <2>1
    <3>2. PlaceOf(prev, At0(next, i)) \notin Positions(prev)
      BY <1>1, <3>1
    <3>3. \A w \in Positions(prev) : At0(prev, w) # At0(next, i)
      BY <1>1, <3>2, PlaceIs
    <3> QED
      BY <1>2, <2>1, <3>3
  <2>2. CASE i \notin inserted
    <3>1. ~(PlaceOf(prev, At0(next, i)) < 0)
      BY <2>2
    <3>2. PlaceOf(prev, At0(next, i)) # -1
      BY <3>1
    <3>3. /\ PlaceOf(prev, At0(next, i)) \in Positions(prev)
          /\ At0(prev, PlaceOf(prev, At0(next, i))) = At0(next, i)
      BY <1>1, <3>2, PlaceIs
    <3> QED
      BY <1>2, <2>2, <3>3
  <2> QED
    BY <2>1, <2>2
<1>8. Others(gone \cup removed, inserted, rows, prev, next)
  BY <1>5, <1>6, <1>7 DEF Others
<1> QED
  BY <1>3, <1>8 DEF Sorts

-----------------------------------------------------------------------------
(* Sorted rows                                                               *)

\* byWas are the rows in the order of where they were.
WasOrder(byWas, rows) ==
    /\ byWas \in Seq(RowInfo) /\ Len(byWas) = Len(rows)
    /\ \A k \in DOMAIN byWas : \E l \in DOMAIN rows : byWas[k] = rows[l]
    /\ \A l \in DOMAIN rows : \E k \in DOMAIN byWas : byWas[k] = rows[l]
    /\ \A k, l \in DOMAIN byWas : k < l => byWas[k].was < byWas[l].was

LEMMA ByWasIs ==
    ASSUME NEW rows, NEW prev, NEW next, Numbered(prev, next), Infos(rows, prev, next)
    PROVE  WasOrder(ByWas(rows), rows)
<1> DEFINE n == Len(rows)
           R == ToSet(rows)
           W == {r.was : r \in R}
           at == Increasing(W)
           c == ByWas(rows)
           f == [k \in 1..n |-> k]
           g == [k \in 1..n |-> rows[k].was]
<1>1. /\ rows \in Seq(RowInfo) /\ n \in Nat /\ DOMAIN rows = 1..n
      /\ \A k \in DOMAIN rows : rows[k].was \in Nat
      /\ \A k, l \in DOMAIN rows : rows[k].was = rows[l].was => k = l
  BY InfoFacts DEF Infos
<1>2. /\ \A r \in R : r \in RowInfo /\ \E k \in 1..n : r = rows[k]
      /\ \A k \in 1..n : rows[k] \in R
  BY <1>1 DEF ToSet
<1>3. c = [k \in DOMAIN at |-> CHOOSE r \in R : r.was = at[k]]
  BY DEF ByWas
<1> HIDE DEF n, R, c
<1>4. IsFiniteSet(1..n) /\ Cardinality(1..n) = n
  <2>1. 1 \in Int /\ n \in Int
    BY <1>1
  <2>2. IsFiniteSet(1..n) /\ Cardinality(1..n) = IF 1 > n THEN 0 ELSE n - 1 + 1
    BY <2>1, FS_Interval
  <2> QED
    BY <1>1, <2>2
<1>5. Paired(1..n, f, g, 1..n, W)
  <2>1. \A k \in 1..n : rows[k].was \in W
    BY <1>2
  <2>2. \A w \in W : \E k \in 1..n : rows[k].was = w
    BY <1>2
  <2>3. \A k, l \in 1..n : rows[k].was = rows[l].was <=> k = l
    BY <1>1
  <2> HIDE DEF W
  <2> QED
    BY <2>1, <2>2, <2>3 DEF Paired
<1>6. W \in SUBSET Nat
  BY <1>1, <1>2
<1>7. IsFiniteSet(W) /\ Cardinality(W) = n
  <2> HIDE DEF f, g, W
  <2>2. Cardinality(1..n) = Cardinality(W)
    BY <1>4, <1>5, SameNumber
  <2>3. IsFiniteSet(W)
    <3>1. g \in Surjection(1..n, W)
      BY <1>5 DEF Paired, Surjection
    <3> QED
      BY <1>4, <3>1, FS_Surjection
  <2> QED
    BY <1>4, <2>2, <2>3
<1>8. /\ DOMAIN at = 1..n
      /\ \A k \in DOMAIN at : at[k] \in W
      /\ \A x \in W : \E k \in DOMAIN at : at[k] = x
      /\ \A k, l \in DOMAIN at : k < l => at[k] < at[l]
  <2> HIDE DEF W
  <2> QED
    BY <1>6, <1>7, AscendingFacts
<1> HIDE DEF at
<1>9. ASSUME NEW k \in 1..n
      PROVE  c[k] \in R /\ c[k].was = at[k]
  <2>1. \E r \in R : r.was = at[k]
    BY <1>8
  <2> QED
    BY <1>3, <1>8, <2>1
<1>10. DOMAIN c = 1..n /\ c \in [1..n -> RowInfo]
  <2>1. DOMAIN c = 1..n
    BY <1>3, <1>8
  <2>2. c = [k \in 1..n |-> c[k]]
    BY <1>3, <1>8
  <2> QED
    BY <1>2, <1>9, <2>1, <2>2
<1>11. c \in Seq(RowInfo) /\ Len(c) = n
  BY <1>1, <1>10
<1>12. \A k \in DOMAIN c : \E l \in DOMAIN rows : c[k] = rows[l]
  BY <1>1, <1>2, <1>9, <1>10
<1>13. ASSUME NEW l \in DOMAIN rows PROVE \E k \in DOMAIN c : c[k] = rows[l]
  <2>1. rows[l].was \in W
    BY <1>1, <1>2
  <2>2. PICK k \in 1..n : at[k] = rows[l].was
    BY <1>8, <2>1
  <2>3. PICK m \in 1..n : c[k] = rows[m]
    BY <1>2, <1>9
  <2>4. rows[m].was = rows[l].was
    BY <1>9, <2>2, <2>3
  <2> QED
    BY <1>1, <1>10, <2>3, <2>4
<1>14. \A k, l \in DOMAIN c : k < l => c[k].was < c[l].was
  BY <1>8, <1>9, <1>10
<1> QED
  BY <1>11, <1>12, <1>13, <1>14 DEF WasOrder, c, n

\* size rows of a from i on, before e, are those of b from j on, within r.
Matching(i, j, size, r, e, a, b) ==
    /\ r.begin1 <= i /\ i + size <= e
    /\ r.begin2 <= j /\ j + size <= r.end2
    /\ \A t \in 0 .. (size - 1) : At0(a, i + t) = At0(b, j + t)

Blocks == [i : Int, j : Int, size : Int, modified : Int]

RowStates == [j : Int, size : Int, best : Blocks]

\* What find_longest_match knows of the rows before e.
Running(x, r, e, a, b) ==
    /\ x.best.size \in Nat /\ x.size \in Nat
    /\ x.best.size = 0 \/ Matching(x.best.i, x.best.j, x.best.size, r, e, a, b)
    /\ \/ x.size = 0 /\ x.j = None
       \/ Matching(e - x.size, x.j - x.size + 1, x.size, r, e, a, b)

LEMMA RangeFacts ==
    ASSUME NEW a \in Seq(Int), NEW r \in Ranges(a)
    PROVE  /\ r.begin1 \in Nat /\ r.end1 \in Nat /\ r.begin2 \in Nat /\ r.end2 \in Nat
           /\ r.begin1 \in Positions(a) /\ r.begin2 \in Positions(a)
           /\ r.end1 \in 0..Len(a) /\ r.end2 \in 0..Len(a)
<1>1. Len(a) \in Nat /\ Positions(a) \in SUBSET Nat
  BY PositionFacts
<1> QED
  BY <1>1 DEF Ranges

LEMMA MatchingMore ==
    ASSUME NEW a \in Seq(Int), NEW b \in Seq(Int), NEW r \in Ranges(a),
           NEW i \in Int, NEW j \in Int, NEW size \in Nat, NEW e \in Int,
           Matching(i, j, size, r, e, a, b)
    PROVE  Matching(i, j, size, r, e + 1, a, b)
<1>1. i + size <= e + 1
  BY DEF Matching
<1> QED
  BY <1>1 DEF Matching

LEMMA MatchingNext ==
    ASSUME NEW a \in Seq(Int), NEW b \in Seq(Int), NEW r \in Ranges(a),
           NEW e \in Int, NEW j \in Int, NEW size \in Nat,
           Matching(e - size, j - size, size, r, e, a, b),
           j < r.end2, At0(a, e) = At0(b, j)
    PROVE  Matching(e - size, j - size, size + 1, r, e + 1, a, b)
<1>1. r.begin2 \in Int /\ r.end2 \in Int /\ r.begin1 \in Int
  BY RangeFacts
<1>2. /\ r.begin1 <= e - size /\ r.begin2 <= j - size
      /\ \A t \in 0 .. (size - 1) : At0(a, (e - size) + t) = At0(b, (j - size) + t)
  BY DEF Matching
<1>3. (e - size) + (size + 1) <= e + 1 /\ (j - size) + (size + 1) <= r.end2
  BY <1>1
<1>4. ASSUME NEW t \in 0 .. ((size + 1) - 1)
      PROVE  At0(a, (e - size) + t) = At0(b, (j - size) + t)
  <2>1. CASE t = size
    <3>1. (e - size) + t = e /\ (j - size) + t = j
      BY <2>1
    <3> QED
      BY <3>1
  <2>2. CASE t # size
    <3>1. t \in 0 .. (size - 1)
      BY <2>2
    <3> QED
      BY <1>2, <3>1
  <2> QED
    BY <2>1, <2>2
<1> QED
  BY <1>2, <1>3, <1>4 DEF Matching

LEMMA MatchingOne ==
    ASSUME NEW a \in Seq(Int), NEW b \in Seq(Int), NEW r \in Ranges(a),
           NEW e \in Int, NEW j \in Int,
           r.begin1 <= e, r.begin2 <= j, j < r.end2, At0(a, e) = At0(b, j)
    PROVE  Matching(e, j, 1, r, e + 1, a, b)
<1>1. r.begin2 \in Int /\ r.end2 \in Int /\ r.begin1 \in Int
  BY RangeFacts
<1>2. e + 1 <= e + 1 /\ j + 1 <= r.end2
  BY <1>1
<1>3. ASSUME NEW t \in 0 .. (1 - 1)
      PROVE  At0(a, e + t) = At0(b, j + t)
  <2>1. e + t = e /\ j + t = j
    OBVIOUS
  <2> QED
    BY <2>1
<1> QED
  BY <1>2, <1>3 DEF Matching

LEMMA NextRowIs ==
    ASSUME NEW a \in Seq(Int), NEW b \in Seq(Int), NEW modified \in SUBSET Nat,
           NEW r \in Ranges(a), NEW x \in RowStates, NEW e \in Int
    PROVE  LET y == NextRow(a, b, modified, r, x, e)
               j == PlaceOf(b, At0(a, e))
               size == IF x.j + 1 = j THEN x.size + 1 ELSE 1
           IN  /\ y \in RowStates
               /\ \/ /\ j < r.begin2 \/ j >= r.end2
                     /\ y.j = None /\ y.size = 0 /\ y.best = x.best
                  \/ /\ r.begin2 <= j /\ j < r.end2
                     /\ y.j = j /\ y.size = size
                     /\ \/ y.best = x.best
                        \/ /\ y.best.i = e - size + 1 /\ y.best.j = j - size + 1
                           /\ y.best.size = size
<1> DEFINE within(from, to) == IF from < 0 THEN 0 ELSE count(modified, from, to)
           y == NextRow(a, b, modified, r, x, e)
           j == PlaceOf(b, At0(a, e))
           size == IF x.j + 1 = j THEN x.size + 1 ELSE 1
           was == IF x.best.modified # npos THEN x.best.modified
                  ELSE within(x.best.j - size + 1, x.best.j + 1)
           is == within(j - size + 1, j + 1)
           here(n) == Block(e - size + 1, j - size + 1, size, n)
<1>1. y = IF j < r.begin2 \/ j >= r.end2 THEN [x EXCEPT !.j = None, !.size = 0]
          ELSE [j |-> j, size |-> size,
                best |-> IF size > x.best.size THEN here(npos)
                         ELSE IF size = x.best.size /\ is < was THEN here(is)
                         ELSE x.best]
  BY DEF NextRow
<1>2. j \in Int
  <2>1. j = -1 \/ j \in Positions(b)
    BY PlaceIs
  <2>2. Positions(b) \in SUBSET Nat
    BY PositionFacts
  <2> QED
    BY <2>1, <2>2
<1>3. r.begin2 \in Int /\ r.end2 \in Int
  BY RangeFacts
<1>4. x.j \in Int /\ x.size \in Int /\ x.best \in Blocks
      /\ x = [j |-> x.j, size |-> x.size, best |-> x.best]
  BY DEF RowStates
<1> HIDE DEF y, j
<1>5. size \in Int
  BY <1>4
<1> HIDE DEF size
<1>6. is \in Int
  BY <1>2, <1>5, CountIsInt
<1> HIDE DEF is, was
<1>7. \A n \in Int : /\ here(n) \in Blocks /\ here(n).i = e - size + 1
                     /\ here(n).j = j - size + 1 /\ here(n).size = size
  BY <1>2, <1>5 DEF Block, Blocks
<1>8. npos \in Int /\ None \in Int
  BY DEF npos, None
<1> HIDE DEF here
<1>9. CASE j < r.begin2 \/ j >= r.end2
  <2>1. y = [j |-> None, size |-> 0, best |-> x.best]
    BY <1>1, <1>4, <1>9
  <2>2. y \in RowStates /\ y.j = None /\ y.size = 0 /\ y.best = x.best
    BY <1>4, <1>8, <2>1 DEF RowStates
  <2> QED
    BY <1>9, <2>2 DEF y, j
<1>10. CASE ~(j < r.begin2 \/ j >= r.end2)
  <2> DEFINE best == IF size > x.best.size THEN here(npos)
                     ELSE IF size = x.best.size /\ is < was THEN here(is)
                     ELSE x.best
  <2>1. y = [j |-> j, size |-> size, best |-> best]
    BY <1>1, <1>10
  <2>2. best \in Blocks /\ (best = x.best \/ best = here(npos) \/ best = here(is))
    BY <1>4, <1>6, <1>7, <1>8
  <2> HIDE DEF best
  <2>3. y \in RowStates /\ y.j = j /\ y.size = size /\ y.best = best
    BY <1>2, <1>5, <2>1, <2>2 DEF RowStates
  <2>4. \/ y.best = x.best
        \/ y.best.i = e - size + 1 /\ y.best.j = j - size + 1 /\ y.best.size = size
    BY <1>6, <1>7, <1>8, <2>2, <2>3
  <2>5. r.begin2 <= j /\ j < r.end2
    BY <1>2, <1>3, <1>10
  <2> QED
    BY <2>3, <2>4, <2>5 DEF y, j, size
<1> QED
  BY <1>9, <1>10

LEMMA NextRowRuns ==
    ASSUME NEW a \in Seq(Int), NEW b \in Seq(Int), NEW modified \in SUBSET Nat,
           NEW r \in Ranges(a), NEW x \in RowStates, NEW e \in Int, r.begin1 <= e,
           Running(x, r, e, a, b)
    PROVE  Running(NextRow(a, b, modified, r, x, e), r, e + 1, a, b)
<1> DEFINE y == NextRow(a, b, modified, r, x, e)
           j == PlaceOf(b, At0(a, e))
           size == IF x.j + 1 = j THEN x.size + 1 ELSE 1
<1>1. /\ y \in RowStates
      /\ \/ /\ j < r.begin2 \/ j >= r.end2
            /\ y.j = None /\ y.size = 0 /\ y.best = x.best
         \/ /\ r.begin2 <= j /\ j < r.end2
            /\ y.j = j /\ y.size = size
            /\ \/ y.best = x.best
               \/ /\ y.best.i = e - size + 1 /\ y.best.j = j - size + 1
                  /\ y.best.size = size
  BY NextRowIs
<1>2. r.begin2 \in Nat /\ r.end2 \in Nat /\ r.begin1 \in Nat
  BY RangeFacts
<1>3. /\ x.best.size \in Nat /\ x.size \in Nat
      /\ x.best.size = 0 \/ Matching(x.best.i, x.best.j, x.best.size, r, e, a, b)
      /\ \/ x.size = 0 /\ x.j = None
         \/ Matching(e - x.size, x.j - x.size + 1, x.size, r, e, a, b)
  BY DEF Running
<1>4. x.best.i \in Int /\ x.best.j \in Int /\ x.j \in Int
  BY DEF RowStates, Blocks
<1>5. x.best.size = 0 \/ Matching(x.best.i, x.best.j, x.best.size, r, e + 1, a, b)
  BY <1>3, <1>4, MatchingMore
<1>6. (j = -1 /\ \A i \in Positions(b) : At0(b, i) # At0(a, e))
      \/ (j \in Positions(b) /\ At0(b, j) = At0(a, e))
  BY PlaceIs
<1>7. Positions(b) \in SUBSET Nat
  BY PositionFacts
<1> HIDE DEF y, j
<1>8. CASE y.j = None /\ y.size = 0 /\ y.best = x.best
  <2>1. Running(y, r, e + 1, a, b)
    BY <1>3, <1>5, <1>8 DEF Running
  <2> QED
    BY <2>1 DEF y
<1>9. CASE /\ r.begin2 <= j /\ j < r.end2
           /\ y.j = j /\ y.size = size
           /\ \/ y.best = x.best
              \/ y.best.i = e - size + 1 /\ y.best.j = j - size + 1 /\ y.best.size = size
  <2>1. j \in Nat /\ At0(a, e) = At0(b, j)
    BY <1>2, <1>6, <1>7, <1>9
  <2>2. /\ size \in Nat /\ size >= 1
        /\ Matching(e - size + 1, j - size + 1, size, r, e + 1, a, b)
    <3>1. CASE x.j + 1 = j
      <4>1. x.j # None
        BY <2>1, <3>1 DEF None
      <4>2. Matching(e - x.size, x.j - x.size + 1, x.size, r, e, a, b)
        BY <1>3, <4>1
      <4>3. x.j - x.size + 1 = j - x.size
        BY <1>3, <1>4, <2>1, <3>1
      <4>4. Matching(e - x.size, j - x.size, x.size, r, e, a, b)
        BY <4>2, <4>3
      <4>5. Matching(e - x.size, j - x.size, x.size + 1, r, e + 1, a, b)
        BY <1>3, <1>9, <2>1, <4>4, MatchingNext
      <4>6. size = x.size + 1 /\ e - size + 1 = e - x.size /\ j - size + 1 = j - x.size
        BY <1>3, <2>1, <3>1
      <4> QED
        BY <1>3, <4>5, <4>6
    <3>2. CASE x.j + 1 # j
      <4>1. Matching(e, j, 1, r, e + 1, a, b)
        BY <1>9, <2>1, MatchingOne
      <4>2. size = 1 /\ e - size + 1 = e /\ j - size + 1 = j
        BY <2>1, <3>2
      <4> QED
        BY <4>1, <4>2
    <3> QED
      BY <3>1, <3>2
  <2> HIDE DEF size
  <2>3. (e + 1) - y.size = e - size + 1 /\ y.j - y.size + 1 = j - size + 1
    BY <1>9, <2>1, <2>2
  <2>4. Matching((e + 1) - y.size, y.j - y.size + 1, y.size, r, e + 1, a, b)
    BY <1>9, <2>2, <2>3
  <2>5. /\ y.best.size \in Nat
        /\ y.best.size = 0 \/ Matching(y.best.i, y.best.j, y.best.size, r, e + 1, a, b)
    <3>1. CASE y.best = x.best
      BY <1>3, <1>5, <3>1
    <3>2. CASE y.best.i = e - size + 1 /\ y.best.j = j - size + 1 /\ y.best.size = size
      BY <2>2, <3>2
    <3> QED
      BY <1>9, <3>1, <3>2
  <2>6. Running(y, r, e + 1, a, b)
    BY <1>9, <2>2, <2>4, <2>5 DEF Running
  <2> QED
    BY <2>6 DEF y
<1> QED
  BY <1>1, <1>8, <1>9

LEMMA LongestFits ==
    ASSUME NEW a \in Seq(Int), NEW b \in Seq(Int), NEW modified \in SUBSET Nat,
           NEW r \in Ranges(a)
    PROVE  LET m == find_longest_match(a, b, modified, r) IN
           /\ m \in Blocks /\ m.size \in Nat
           /\ m.size = 0 \/ Matching(m.i, m.j, m.size, r, r.end1, a, b)
<1> DEFINE n == IF r.begin1 <= r.end1 THEN r.end1 - r.begin1 ELSE 0
           s == [k \in 1 .. (r.end1 - r.begin1) |-> r.begin1 + k - 1]
           base == [j |-> None, size |-> 0, best |-> Block(r.begin1, r.begin2, 0, 0)]
           F == [p \in RowStates \X (1..n) |-> NextRow(a, b, modified, r, p[1], s[p[2]])]
           Iter(h) == h = [w \in SUBSET DOMAIN s |->
                              IF w = {} THEN base
                              ELSE NextRow(a, b, modified, r, h[w \ {Max(w)}], s[Max(w)])]
           it == CHOOSE h : Iter(h)
           m == find_longest_match(a, b, modified, r)
<1>0. /\ r.begin1 \in Nat /\ r.end1 \in Nat /\ r.begin2 \in Nat /\ r.end2 \in Nat
  BY RangeFacts
<1>1. /\ n \in Nat /\ DOMAIN s = 1..n
      /\ \A k \in 1..n : s[k] = r.begin1 + k - 1 /\ s[k] \in Nat /\ r.begin1 <= s[k]
      /\ n = 0 \/ r.begin1 + n = r.end1
  <2>1. n \in Nat /\ (n = 0 \/ r.begin1 + n = r.end1)
    BY <1>0
  <2>2. \A k : k \in 1..n <=> k \in 1..(r.end1 - r.begin1)
    BY <1>0
  <2>3. DOMAIN s = 1..n
    BY <2>2
  <2>4. \A k \in 1..n : s[k] = r.begin1 + k - 1
    BY <2>2
  <2>5. \A k \in 1..n : r.begin1 + k - 1 \in Nat /\ r.begin1 <= r.begin1 + k - 1
    BY <1>0, <2>1
  <2> QED
    BY <2>1, <2>3, <2>4, <2>5
<1>2. /\ base \in RowStates /\ base.j = None /\ base.size = 0 /\ base.best.size = 0
  BY <1>0 DEF RowStates, Blocks, Block, None
<1>3. m = it[DOMAIN s].best
  BY DEF find_longest_match, FoldLeft, MapThenFoldSet
<1> HIDE DEF n, s, base, m
<1>4. F \in [RowStates \X (1..n) -> RowStates]
  <2>1. ASSUME NEW x \in RowStates, NEW k \in 1..n
        PROVE  NextRow(a, b, modified, r, x, s[k]) \in RowStates
    <3>1. s[k] \in Int
      BY <1>1
    <3> QED
      BY <3>1, NextRowIs
  <2> QED
    BY <2>1
<1>5. PICK g : Folds(g, RowStates, base, n, F)
  <2> HIDE DEF F
  <2>1. n \in Nat /\ base \in RowStates
    BY <1>1, <1>2
  <2> QED
    BY <2>1, <1>4, FoldExists
<1>55. /\ g \in [SUBSET (1..n) -> RowStates]
       /\ \A w \in SUBSET (1..n) :
              g[w] = IF w = {} THEN base ELSE F[<<g[w \ {Max(w)}], Max(w)>>]
  BY <1>5 DEF Folds
<1>6. Iter(g)
  <2>1. ASSUME NEW w \in SUBSET (1..n)
        PROVE  g[w] = IF w = {} THEN base
                      ELSE NextRow(a, b, modified, r, g[w \ {Max(w)}], s[Max(w)])
    <3>1. CASE w = {}
      BY <1>55, <3>1
    <3>2. CASE w # {}
      <4>1. Max(w) \in 1..n
        BY <1>1, <3>2, LargestOf
      <4>2. g[w \ {Max(w)}] \in RowStates
        BY <1>55
      <4>3. F[<<g[w \ {Max(w)}], Max(w)>>]
                = NextRow(a, b, modified, r, g[w \ {Max(w)}], s[Max(w)])
        BY <4>1, <4>2
      <4> HIDE DEF F
      <4> QED
        BY <1>55, <3>2, <4>3
    <3> QED
      BY <3>1, <3>2
  <2>2. g = [w \in SUBSET (1..n) |-> g[w]]
    BY <1>55
  <2>3. g = [w \in SUBSET (1..n) |->
                 IF w = {} THEN base
                 ELSE NextRow(a, b, modified, r, g[w \ {Max(w)}], s[Max(w)])]
    BY <2>1, <2>2
  <2> QED
    BY <1>1, <2>3
<1>7. Iter(it)
  BY <1>6
<1> HIDE DEF it
<1>8. \A w \in SUBSET (1..n) :
          it[w] = IF w = {} THEN base
                  ELSE NextRow(a, b, modified, r, it[w \ {Max(w)}], s[Max(w)])
  <2>1. it = [w \in SUBSET (1..n) |->
                 IF w = {} THEN base
                 ELSE NextRow(a, b, modified, r, it[w \ {Max(w)}], s[Max(w)])]
    BY <1>1, <1>7
  <2> QED
    BY <2>1
<1> HIDE DEF Iter, F
<1>9. it[1..0] = base
  <2>1. 1..0 = {} /\ {} \in SUBSET (1..n)
    OBVIOUS
  <2> QED
    BY <1>8, <2>1
<1>10. ASSUME NEW k \in 1..n
       PROVE  it[1..k] = NextRow(a, b, modified, r, it[1..(k - 1)], s[k])
  <2>0. k \in Nat /\ k >= 1 /\ k <= n
    BY <1>1
  <2>1. 1..k \in SUBSET (1..n) /\ 1..k # {} /\ (1..k) \ {k} = 1..(k - 1) /\ k \in 1..k
    <3>1. \A x : x \in (1..k) \ {k} <=> x \in 1..(k - 1)
      BY <2>0
    <3>2. k \in 1..k /\ \A x \in 1..k : x \in 1..n
      BY <1>1, <2>0
    <3> QED
      BY <3>1, <3>2
  <2>2. Max(1..k) = k
    <3>1. \A x \in 1..k : x <= k
      OBVIOUS
    <3> QED
      BY <1>1, <2>1, <3>1, LargestIs
  <2> QED
    BY <1>8, <2>1, <2>2
<1> DEFINE P == [k \in 0..n |-> /\ it[1..k] \in RowStates
                                /\ Running(it[1..k], r, r.begin1 + k, a, b)]
<1>11. P[0]
  <2>1. Running(base, r, r.begin1 + 0, a, b)
    BY <1>2 DEF Running
  <2> QED
    BY <1>1, <1>2, <1>9, <2>1
<1>12. ASSUME NEW k \in 1..n, P[k - 1]
       PROVE  P[k]
  <2>0. k - 1 \in 0..n /\ k \in 0..n
    BY <1>1
  <2> DEFINE x == it[1..(k - 1)]
             e == s[k]
  <2>1. x \in RowStates /\ Running(x, r, r.begin1 + (k - 1), a, b)
    BY <1>12, <2>0
  <2>2. e = r.begin1 + (k - 1) /\ e \in Int /\ r.begin1 <= e /\ e + 1 = r.begin1 + k
    BY <1>0, <1>1, <2>0
  <2>25. it[1..k] = NextRow(a, b, modified, r, x, e)
    BY <1>10
  <2> HIDE DEF x, e
  <2>3. Running(x, r, e, a, b)
    BY <2>1, <2>2
  <2>4. Running(NextRow(a, b, modified, r, x, e), r, e + 1, a, b)
    BY <2>1, <2>2, <2>3, NextRowRuns
  <2>5. NextRow(a, b, modified, r, x, e) \in RowStates
    BY <2>1, <2>2, NextRowIs
  <2>6. it[1..k] \in RowStates /\ Running(it[1..k], r, r.begin1 + k, a, b)
    BY <2>2, <2>25, <2>4, <2>5
  <2> QED
    BY <2>0, <2>6
<1>13. P \in [0..n -> BOOLEAN]
  BY DEF Running
<1> HIDE DEF P
<1>14. P[n]
  BY <1>1, <1>11, <1>12, <1>13, StepByStep
<1> DEFINE z == it[1..n]
<1>15. z \in RowStates /\ Running(z, r, r.begin1 + n, a, b) /\ m = z.best
  BY <1>1, <1>3, <1>14 DEF P
<1> HIDE DEF z
<1>16. /\ m \in Blocks /\ m.size \in Nat
       /\ m.size = 0 \/ Matching(m.i, m.j, m.size, r, r.begin1 + n, a, b)
  BY <1>15 DEF Running, RowStates
<1>17. ASSUME m.size # 0, n = 0 PROVE FALSE
  <2>1. r.begin1 <= m.i /\ m.i + m.size <= r.begin1 + n
    BY <1>16, <1>17 DEF Matching
  <2>2. m.i \in Int
    BY <1>16 DEF Blocks
  <2> QED
    BY <1>0, <1>16, <1>17, <2>1, <2>2
<1>18. m.size = 0 \/ Matching(m.i, m.j, m.size, r, r.end1, a, b)
  BY <1>1, <1>16, <1>17
<1> QED
  BY <1>16, <1>18 DEF m

\* What is left of the range r before and after the match m.
MatchBefore(r, m) == [r EXCEPT !.end1 = m.i, !.end2 = m.j]

MatchAfter(r, m) == [r EXCEPT !.begin1 = m.i + m.size, !.begin2 = m.j + m.size]

Width(a, r) == r.end1 - r.begin1 + Len(a)

LEMMA AroundFacts ==
    ASSUME NEW a \in Seq(Int), NEW b \in Seq(Int), NEW r \in Ranges(a), NEW m \in Blocks,
           m.size \in Nat, m.size # 0, Matching(m.i, m.j, m.size, r, r.end1, a, b)
    PROVE  /\ MatchBefore(r, m) \in Ranges(a) /\ Width(a, MatchBefore(r, m)) < Width(a, r)
           /\ m.i + m.size < r.end2 /\ m.j + m.size < r.end2 =>
                  MatchAfter(r, m) \in Ranges(a) /\ Width(a, MatchAfter(r, m)) < Width(a, r)
           /\ Width(a, r) \in 0..(2 * Len(a))
           /\ /\ MatchBefore(r, m).begin1 = r.begin1 /\ MatchBefore(r, m).begin2 = r.begin2
              /\ MatchBefore(r, m).end1 = m.i /\ MatchBefore(r, m).end2 = m.j
           /\ /\ MatchAfter(r, m).begin1 = m.i + m.size /\ MatchAfter(r, m).begin2 = m.j + m.size
              /\ MatchAfter(r, m).end1 = r.end1 /\ MatchAfter(r, m).end2 = r.end2
<1>1. /\ r.begin1 \in Nat /\ r.end1 \in Nat /\ r.begin2 \in Nat /\ r.end2 \in Nat
      /\ r.begin1 \in Positions(a) /\ r.begin2 \in Positions(a)
      /\ r.end1 \in 0..Len(a) /\ r.end2 \in 0..Len(a)
  BY RangeFacts
<1>2. /\ r.begin1 <= m.i /\ m.i + m.size <= r.end1
      /\ r.begin2 <= m.j /\ m.j + m.size <= r.end2 /\ m.i \in Int /\ m.j \in Int
  BY DEF Matching, Blocks
<1>3. Len(a) \in Nat /\ Positions(a) = 0..(Len(a) - 1)
  BY RowsFacts DEF Positions
<1>4. m.i \in 0..Len(a) /\ m.j \in 0..Len(a)
  BY <1>1, <1>2, <1>3
<1>5. /\ MatchBefore(r, m).begin1 = r.begin1 /\ MatchBefore(r, m).begin2 = r.begin2
      /\ MatchBefore(r, m).end1 = m.i /\ MatchBefore(r, m).end2 = m.j
      /\ MatchBefore(r, m) \in Ranges(a)
  <2>1. \A q : q = [r EXCEPT !.end1 = m.i, !.end2 = m.j] =>
            q.begin1 = r.begin1 /\ q.begin2 = r.begin2 /\ q.end1 = m.i /\ q.end2 = m.j
            /\ q \in Ranges(a)
    BY <1>4 DEF Ranges
  <2> QED
    BY <2>1 DEF MatchBefore
<1>6. /\ MatchAfter(r, m).begin1 = m.i + m.size /\ MatchAfter(r, m).begin2 = m.j + m.size
      /\ MatchAfter(r, m).end1 = r.end1 /\ MatchAfter(r, m).end2 = r.end2
  <2>1. \A x, y : LET q == [r EXCEPT !.begin1 = x, !.begin2 = y] IN
            q.begin1 = x /\ q.begin2 = y /\ q.end1 = r.end1 /\ q.end2 = r.end2
    BY DEF Ranges
  <2> QED
    BY <2>1 DEF MatchAfter
<1>7. \A x, y \in Positions(a) : [r EXCEPT !.begin1 = x, !.begin2 = y] \in Ranges(a)
  BY DEF Ranges
<1>8. ASSUME m.i + m.size < r.end2, m.j + m.size < r.end2
      PROVE  MatchAfter(r, m) \in Ranges(a)
  <2> DEFINE x == m.i + m.size
             y == m.j + m.size
  <2>1. x \in Nat /\ y \in Nat /\ x < r.end2 /\ y < r.end2
    BY <1>1, <1>2, <1>8
  <2>2. MatchAfter(r, m) = [r EXCEPT !.begin1 = x, !.begin2 = y]
    BY DEF MatchAfter
  <2> HIDE DEF x, y
  <2>3. r.end2 \in Nat /\ r.end2 <= Len(a)
    BY <1>1, <1>3
  <2>4. x \in Positions(a) /\ y \in Positions(a)
    BY <1>3, <2>1, <2>3
  <2> QED
    BY <1>7, <2>2, <2>4
<1>9. Width(a, MatchBefore(r, m)) < Width(a, r) /\ Width(a, MatchAfter(r, m)) < Width(a, r)
  <2>1. Width(a, MatchBefore(r, m)) = m.i - r.begin1 + Len(a)
    BY <1>5, <1>6 DEF Width
  <2>2. Width(a, MatchAfter(r, m)) = r.end1 - (m.i + m.size) + Len(a)
    BY <1>5, <1>6 DEF Width
  <2>3. Width(a, r) = r.end1 - r.begin1 + Len(a)
    BY DEF Width
  <2>4. /\ m.i - r.begin1 + Len(a) < r.end1 - r.begin1 + Len(a)
        /\ r.end1 - (m.i + m.size) + Len(a) < r.end1 - r.begin1 + Len(a)
    <3>1. \A u, v, w, x, y \in Int :
              u <= v /\ v + w <= x /\ w > 0 =>
                  v - u + y < x - u + y /\ x - (v + w) + y < x - u + y
      OBVIOUS
    <3>2. m.size \in Int /\ m.size > 0 /\ r.begin1 \in Int /\ r.end1 \in Int /\ Len(a) \in Int
      BY <1>1, <1>3
    <3> QED
      BY <1>2, <3>1, <3>2
  <2> QED
    BY <2>1, <2>2, <2>3, <2>4
<1>10. Width(a, r) \in 0..(2 * Len(a))
  BY <1>1, <1>3 DEF Width
<1> QED
  BY <1>5, <1>6, <1>8, <1>9, <1>10

\* Blocks within r, one after the other in a and in b alike.
InSequence(X, r, a, b) ==
    /\ X \in SUBSET Blocks
    /\ \A m \in X : /\ m.size \in Nat /\ m.size # 0
                    /\ Matching(m.i, m.j, m.size, r, r.end1, a, b)
    /\ \A m, o \in X : \/ m = o
                       \/ m.i + m.size <= o.i /\ m.j + m.size <= o.j
                       \/ o.i + o.size <= m.i /\ o.j + o.size <= m.j

Matches(f, a, b, modified) ==
    \A r \in Ranges(a) :
        f[r] = LET m == find_longest_match(a, b, modified, r) IN
               IF m.size = 0 THEN {} ELSE {m} \cup Around(f, r, m)

LEMMA AroundInSequence ==
    ASSUME NEW a \in Seq(Int), NEW b \in Seq(Int), NEW r \in Ranges(a), NEW m \in Blocks,
           m.size \in Nat, m.size # 0, Matching(m.i, m.j, m.size, r, r.end1, a, b), NEW f,
           InSequence(f[MatchBefore(r, m)], MatchBefore(r, m), a, b),
           m.i + m.size < r.end2 /\ m.j + m.size < r.end2 =>
               InSequence(f[MatchAfter(r, m)], MatchAfter(r, m), a, b)
    PROVE  InSequence({m} \cup Around(f, r, m), r, a, b)
<1> DEFINE before == m.i > r.begin1 /\ m.j > r.begin2
           after == m.i + m.size < r.end2 /\ m.j + m.size < r.end2
           p == MatchBefore(r, m)
           q == MatchAfter(r, m)
           X == IF before THEN f[p] ELSE {}
           Y == IF after THEN f[q] ELSE {}
<1>1. Around(f, r, m) = X \cup Y
  BY DEF Around, MatchBefore, MatchAfter
<1>2. /\ r.begin1 \in Nat /\ r.end1 \in Nat /\ r.begin2 \in Nat /\ r.end2 \in Nat
  BY RangeFacts
<1>3. /\ m.i \in Int /\ m.j \in Int
      /\ r.begin1 <= m.i /\ m.i + m.size <= r.end1
      /\ r.begin2 <= m.j /\ m.j + m.size <= r.end2
  BY DEF Blocks, Matching
<1>4. /\ p.begin1 = r.begin1 /\ p.begin2 = r.begin2 /\ p.end1 = m.i /\ p.end2 = m.j
      /\ q.begin1 = m.i + m.size /\ q.begin2 = m.j + m.size
      /\ q.end1 = r.end1 /\ q.end2 = r.end2
  BY AroundFacts
<1> HIDE DEF p, q
<1>5. InSequence(X, p, a, b)
  <2>1. InSequence({}, p, a, b)
    BY DEF InSequence
  <2> QED
    BY <2>1 DEF p
<1>6. InSequence(Y, q, a, b)
  <2>1. InSequence({}, q, a, b)
    BY DEF InSequence
  <2> QED
    BY <2>1 DEF q
<1> HIDE DEF X, Y
<1>7. ASSUME NEW o \in X
      PROVE  /\ o \in Blocks /\ o.size \in Nat /\ o.size # 0
             /\ o.i \in Int /\ o.j \in Int
             /\ o.i + o.size <= m.i /\ o.j + o.size <= m.j
             /\ Matching(o.i, o.j, o.size, r, r.end1, a, b)
  <2>1. o \in Blocks /\ o.size \in Nat /\ o.size # 0
        /\ Matching(o.i, o.j, o.size, p, p.end1, a, b)
    BY <1>5 DEF InSequence
  <2>2. o.i \in Int /\ o.j \in Int
    BY <2>1 DEF Blocks
  <2>3. /\ r.begin1 <= o.i /\ o.i + o.size <= m.i /\ r.begin2 <= o.j /\ o.j + o.size <= m.j
        /\ \A t \in 0 .. (o.size - 1) : At0(a, o.i + t) = At0(b, o.j + t)
    BY <1>4, <2>1 DEF Matching
  <2>4. o.i + o.size <= r.end1 /\ o.j + o.size <= r.end2
    <3>1. \A u, v, w \in Int : u <= v /\ v + m.size <= w => u <= w
      OBVIOUS
    <3>2. o.i + o.size \in Int /\ o.j + o.size \in Int
      BY <2>1, <2>2
    <3> QED
      BY <1>2, <1>3, <2>3, <3>1, <3>2
  <2>5. Matching(o.i, o.j, o.size, r, r.end1, a, b)
    BY <2>3, <2>4 DEF Matching
  <2> QED
    BY <2>1, <2>2, <2>3, <2>5
<1>8. ASSUME NEW o \in Y
      PROVE  /\ o \in Blocks /\ o.size \in Nat /\ o.size # 0
             /\ o.i \in Int /\ o.j \in Int
             /\ m.i + m.size <= o.i /\ m.j + m.size <= o.j
             /\ Matching(o.i, o.j, o.size, r, r.end1, a, b)
  <2>1. o \in Blocks /\ o.size \in Nat /\ o.size # 0
        /\ Matching(o.i, o.j, o.size, q, q.end1, a, b)
    BY <1>6 DEF InSequence
  <2>2. o.i \in Int /\ o.j \in Int
    BY <2>1 DEF Blocks
  <2>3. /\ m.i + m.size <= o.i /\ o.i + o.size <= r.end1
        /\ m.j + m.size <= o.j /\ o.j + o.size <= r.end2
        /\ \A t \in 0 .. (o.size - 1) : At0(a, o.i + t) = At0(b, o.j + t)
    BY <1>4, <2>1 DEF Matching
  <2>4. r.begin1 <= o.i /\ r.begin2 <= o.j
    <3>1. \A u, v, w \in Int : u <= v /\ v + m.size <= w => u <= w
      OBVIOUS
    <3> QED
      BY <1>2, <1>3, <2>2, <2>3, <3>1
  <2>5. Matching(o.i, o.j, o.size, r, r.end1, a, b)
    BY <2>3, <2>4 DEF Matching
  <2> QED
    BY <2>1, <2>2, <2>3, <2>5
<1> DEFINE Ordered(x, y) == \/ x = y
                            \/ x.i + x.size <= y.i /\ x.j + x.size <= y.j
                            \/ y.i + y.size <= x.i /\ y.j + y.size <= x.j
<1>9. \A x, y \in X : Ordered(x, y)
  BY <1>5 DEF InSequence
<1>10. \A x, y \in Y : Ordered(x, y)
  BY <1>6 DEF InSequence
<1>11. ASSUME NEW x \in X, NEW y \in Y
       PROVE  Ordered(x, y) /\ Ordered(y, x)
  <2>1. x.i + x.size <= m.i /\ x.j + x.size <= m.j /\ x.i \in Int /\ x.j \in Int /\ x.size \in Int
    BY <1>7
  <2>2. m.i + m.size <= y.i /\ m.j + m.size <= y.j /\ y.i \in Int /\ y.j \in Int
    BY <1>8
  <2>3. \A u, v, w \in Int : u <= v /\ v + m.size <= w => u <= w
    OBVIOUS
  <2>5. x.i + x.size \in Int /\ x.j + x.size \in Int
    BY <2>1
  <2>6. x.i + x.size <= y.i /\ x.j + x.size <= y.j
    BY <1>3, <2>1, <2>2, <2>3, <2>5
  <2> QED
    BY <2>6
<1>12. \A x \in X : Ordered(x, m) /\ Ordered(m, x)
  BY <1>7
<1>13. \A y \in Y : Ordered(y, m) /\ Ordered(m, y)
  BY <1>8
<1>14. Ordered(m, m)
  OBVIOUS
<1> HIDE DEF Ordered
<1> DEFINE Z == {m} \cup (X \cup Y)
<1>15. \A x, y \in Z : Ordered(x, y)
  BY <1>9, <1>10, <1>11, <1>12, <1>13, <1>14
<1>16. Z \in SUBSET Blocks /\ \A x \in Z : /\ x.size \in Nat /\ x.size # 0
                                          /\ Matching(x.i, x.j, x.size, r, r.end1, a, b)
  BY <1>7, <1>8
<1> HIDE DEF Z
<1>17. InSequence(Z, r, a, b)
  BY <1>15, <1>16 DEF InSequence, Ordered
<1> QED
  BY <1>1, <1>17 DEF Z

LEMMA MatchesInSequence ==
    ASSUME NEW a \in Seq(Int), NEW b \in Seq(Int), NEW modified \in SUBSET Nat,
           NEW f, Matches(f, a, b, modified), NEW r \in Ranges(a)
    PROVE  InSequence(f[r], r, a, b)
<1> DEFINE n == 2 * Len(a)
           P == [k \in 0..(n + 1) |->
                     \A q \in Ranges(a) : Width(a, q) < k => InSequence(f[q], q, a, b)]
<1>1. Len(a) \in Nat /\ n \in Nat
  BY PositionFacts
<1>2. ASSUME NEW q \in Ranges(a) PROVE Width(a, q) \in 0..n
  <2>1. /\ q.begin1 \in Nat /\ q.end1 \in Nat
        /\ q.begin1 \in Positions(a) /\ q.end1 \in 0..Len(a)
    BY RangeFacts
  <2>2. q.begin1 < Len(a) /\ q.end1 <= Len(a)
    BY <1>1, <2>1, PositionFacts
  <2>3. \A u, v, w \in Nat : u < w /\ v <= w => v - u + w \in 0..(2 * w)
    OBVIOUS
  <2> QED
    BY <1>1, <2>1, <2>2, <2>3 DEF Width
<1> HIDE DEF n
<1>3. P[0]
  <2>1. \A q \in Ranges(a) : ~(Width(a, q) < 0)
    BY <1>1, <1>2
  <2> QED
    BY <1>1, <2>1
<1>4. ASSUME NEW k \in 1..(n + 1), P[k - 1]
      PROVE  P[k]
  <2>0. k \in Nat /\ k \in 0..(n + 1) /\ k - 1 \in 0..(n + 1)
    BY <1>1
  <2>1. \A q \in Ranges(a) : Width(a, q) < k - 1 => InSequence(f[q], q, a, b)
    BY <1>4, <2>0
  <2>2. ASSUME NEW q \in Ranges(a), Width(a, q) < k
        PROVE  InSequence(f[q], q, a, b)
    <3> DEFINE m == find_longest_match(a, b, modified, q)
    <3>1. /\ m \in Blocks /\ m.size \in Nat
          /\ m.size = 0 \/ Matching(m.i, m.j, m.size, q, q.end1, a, b)
      BY LongestFits
    <3>2. f[q] = IF m.size = 0 THEN {} ELSE {m} \cup Around(f, q, m)
      BY DEF Matches
    <3> HIDE DEF m
    <3>3. CASE m.size = 0
      <4>1. InSequence({}, q, a, b)
        BY DEF InSequence
      <4> QED
        BY <3>2, <3>3, <4>1
    <3>4. CASE m.size # 0
      <4>1. Matching(m.i, m.j, m.size, q, q.end1, a, b)
        BY <3>1, <3>4
      <4>2. /\ MatchBefore(q, m) \in Ranges(a) /\ Width(a, MatchBefore(q, m)) < Width(a, q)
            /\ m.i + m.size < q.end2 /\ m.j + m.size < q.end2 =>
                   MatchAfter(q, m) \in Ranges(a) /\ Width(a, MatchAfter(q, m)) < Width(a, q)
            /\ Width(a, q) \in 0..(2 * Len(a))
            /\ /\ MatchBefore(q, m).begin1 = q.begin1 /\ MatchBefore(q, m).begin2 = q.begin2
               /\ MatchBefore(q, m).end1 = m.i /\ MatchBefore(q, m).end2 = m.j
            /\ /\ MatchAfter(q, m).begin1 = m.i + m.size /\ MatchAfter(q, m).begin2 = m.j + m.size
               /\ MatchAfter(q, m).end1 = q.end1 /\ MatchAfter(q, m).end2 = q.end2
        BY <3>1, <3>4, <4>1, AroundFacts
      <4>3. Width(a, q) \in Nat
        BY <1>1, <1>2
      <4>4. \A p \in Ranges(a) : Width(a, p) < Width(a, q) => InSequence(f[p], p, a, b)
        <5>1. ASSUME NEW p \in Ranges(a), Width(a, p) < Width(a, q)
              PROVE  InSequence(f[p], p, a, b)
          <6>1. Width(a, p) \in Nat
            BY <1>1, <1>2
          <6>2. Width(a, p) < k - 1
            BY <2>0, <2>2, <4>3, <5>1, <6>1
          <6> QED
            BY <2>1, <6>2
        <5> QED
          BY <5>1
      <4>5. /\ InSequence(f[MatchBefore(q, m)], MatchBefore(q, m), a, b)
            /\ m.i + m.size < q.end2 /\ m.j + m.size < q.end2 =>
                   InSequence(f[MatchAfter(q, m)], MatchAfter(q, m), a, b)
        BY <4>2, <4>4
      <4>6. InSequence({m} \cup Around(f, q, m), q, a, b)
        BY <3>1, <3>4, <4>1, <4>5, AroundInSequence
      <4> QED
        BY <3>2, <3>4, <4>6
    <3> QED
      BY <3>3, <3>4
  <2> QED
    BY <2>0, <2>2
<1>5. P \in [0..(n + 1) -> BOOLEAN]
  BY DEF InSequence
<1>6. n + 1 \in Nat /\ n + 1 \in 0..(n + 1)
  BY <1>1
<1> HIDE DEF P
<1>7. P[n + 1]
  BY <1>3, <1>4, <1>5, <1>6, StepByStep
<1>8. Width(a, r) < n + 1
  BY <1>1, <1>2
<1> QED
  BY <1>6, <1>7, <1>8 DEF P

LEMMA MatchesExist ==
    ASSUME NEW a \in Seq(Int), NEW b \in Seq(Int), NEW modified \in SUBSET Nat,
           NEW from
    PROVE  \E f : /\ Matches(f, a, b, modified)
                  /\ find_longest_matches(a, b, modified, from)
                       = f[[begin1 |-> from, end1 |-> Len(a), begin2 |-> from, end2 |-> Len(a)]]
<1> DEFINE R == Ranges(a)
           V == SUBSET Blocks
           n == 2 * Len(a)
           size == [r \in R |-> Width(a, r)]
           m(r) == find_longest_match(a, b, modified, r)
           body(r, f) == IF m(r).size = 0 THEN {} ELSE {m(r)} \cup Around(f, r, m(r))
           F == [p \in R \X [R -> V] |-> body(p[1], p[2])]
           Iter(h) == h = [r \in R |-> body(r, h)]
           it == CHOOSE h : Iter(h)
<1>1. find_longest_matches(a, b, modified, from)
          = it[[begin1 |-> from, end1 |-> Len(a), begin2 |-> from, end2 |-> Len(a)]]
  BY DEF find_longest_matches
<1>2. ASSUME NEW r \in R
      PROVE  /\ m(r) \in Blocks /\ m(r).size \in Nat
             /\ m(r).size # 0 => /\ MatchBefore(r, m(r)) \in R
                                 /\ Width(a, MatchBefore(r, m(r))) < Width(a, r)
             /\ m(r).size # 0 /\ m(r).i + m(r).size < r.end2 /\ m(r).j + m(r).size < r.end2 =>
                    MatchAfter(r, m(r)) \in R /\ Width(a, MatchAfter(r, m(r))) < Width(a, r)
  <2> DEFINE o == m(r)
  <2>1. /\ o \in Blocks /\ o.size \in Nat
        /\ o.size = 0 \/ Matching(o.i, o.j, o.size, r, r.end1, a, b)
    BY LongestFits
  <2> HIDE DEF o
  <2>2. ASSUME o.size # 0
        PROVE  /\ MatchBefore(r, o) \in R /\ Width(a, MatchBefore(r, o)) < Width(a, r)
               /\ o.i + o.size < r.end2 /\ o.j + o.size < r.end2 =>
                      MatchAfter(r, o) \in R /\ Width(a, MatchAfter(r, o)) < Width(a, r)
    BY <2>1, <2>2, AroundFacts
  <2> QED
    BY <2>1, <2>2 DEF o
<1> HIDE DEF m
<1>3. ASSUME NEW r \in R, NEW f \in [R -> V] PROVE body(r, f) \in V
  <2>1. m(r).size # 0 => m(r) \in Blocks /\ Around(f, r, m(r)) \in V
    <3>1. ASSUME m(r).size # 0 PROVE Around(f, r, m(r)) \in V
      <4>1. Around(f, r, m(r)) =
                (IF m(r).i > r.begin1 /\ m(r).j > r.begin2 THEN f[MatchBefore(r, m(r))] ELSE {})
                \cup
                (IF m(r).i + m(r).size < r.end2 /\ m(r).j + m(r).size < r.end2
                 THEN f[MatchAfter(r, m(r))] ELSE {})
        BY DEF Around, MatchBefore, MatchAfter
      <4> QED
        BY <1>2, <3>1, <4>1
    <3> QED
      BY <1>2, <3>1
  <2> QED
    BY <2>1
<1>4. ASSUME NEW r \in R, NEW g \in [R -> V], NEW h \in [R -> V],
             \A q \in R : Width(a, q) < Width(a, r) => g[q] = h[q]
      PROVE  body(r, g) = body(r, h)
  <2>1. m(r).size # 0 => Around(g, r, m(r)) = Around(h, r, m(r))
    <3>1. ASSUME m(r).size # 0 PROVE Around(g, r, m(r)) = Around(h, r, m(r))
      <4>1. \A f : Around(f, r, m(r)) =
                (IF m(r).i > r.begin1 /\ m(r).j > r.begin2 THEN f[MatchBefore(r, m(r))] ELSE {})
                \cup
                (IF m(r).i + m(r).size < r.end2 /\ m(r).j + m(r).size < r.end2
                 THEN f[MatchAfter(r, m(r))] ELSE {})
        BY DEF Around, MatchBefore, MatchAfter
      <4> QED
        BY <1>2, <1>4, <3>1, <4>1
    <3> QED
      BY <3>1
  <2> QED
    BY <2>1
<1>5. ASSUME NEW q \in R PROVE Width(a, q) \in 0..n
  <2>1. /\ q.begin1 \in Nat /\ q.end1 \in Nat
        /\ q.begin1 \in Positions(a) /\ q.end1 \in 0..Len(a)
    BY RangeFacts
  <2>2. Len(a) \in Nat /\ q.begin1 < Len(a) /\ q.end1 <= Len(a)
    BY <2>1, PositionFacts
  <2>3. \A u, v, w \in Nat : u < w /\ v <= w => v - u + w \in 0..(2 * w)
    OBVIOUS
  <2> QED
    BY <2>1, <2>2, <2>3 DEF Width
<1>6. Len(a) \in Nat /\ n \in Nat
  BY PositionFacts
<1>8. V # {}
  OBVIOUS
<1> HIDE DEF n, body, R, V
<1>7. Recursion(R, V, size, n, F)
  <2>1. size \in [R -> 0..n] /\ \A r \in R : size[r] = Width(a, r)
    BY <1>5
  <2>2. F \in [R \X [R -> V] -> V]
    BY <1>3
  <2>3. \A r \in R, g \in [R -> V] : F[<<r, g>>] = body(r, g)
    OBVIOUS
  <2> HIDE DEF F, size
  <2>4. ASSUME NEW r \in R, NEW g \in [R -> V], NEW h \in [R -> V],
               \A q \in R : size[q] < size[r] => g[q] = h[q]
        PROVE  F[<<r, g>>] = F[<<r, h>>]
    <3>1. \A q \in R : Width(a, q) < Width(a, r) => g[q] = h[q]
      BY <2>1, <2>4
    <3>2. body(r, g) = body(r, h)
      BY <1>4, <3>1
    <3> QED
      BY <2>3, <3>2
  <2> QED
    BY <1>6, <1>8, <2>1, <2>2, <2>4 DEF Recursion
<1>9. \E f : f \in [R -> V] /\ \A r \in R : f[r] = F[<<r, f>>]
  <2> HIDE DEF F, size
  <2> QED
    BY <1>7, RecursionExists
<1>10. PICK f : f \in [R -> V] /\ \A r \in R : f[r] = F[<<r, f>>]
  BY <1>9
<1>11. Iter(f)
  <2>1. \A r \in R : f[r] = body(r, f)
    BY <1>10
  <2>2. f = [r \in R |-> f[r]]
    BY <1>10
  <2> QED
    BY <2>1, <2>2
<1>12. Iter(it)
  BY <1>11
<1> HIDE DEF it
<1>13. \A r \in R : it[r] = body(r, it)
  <2>1. it = [r \in R |-> body(r, it)]
    BY <1>12
  <2> QED
    BY <2>1
<1>14. Matches(it, a, b, modified)
  BY <1>13 DEF Matches, R, body, m
<1> QED
  BY <1>1, <1>14

\* The rows at A of byWas are those at B of rows, in the same order.
Alike(A, B, byWas, rows) ==
    /\ A \in SUBSET Positions(rows) /\ B \in SUBSET Positions(rows)
    /\ \A k \in B : \E i \in A : At0(byWas, i) = At0(rows, k)
    /\ \A i \in A : \E k \in B : At0(byWas, i) = At0(rows, k)
    /\ \A i, j \in A, k, l \in B :
           At0(byWas, i) = At0(rows, k) /\ At0(byWas, j) = At0(rows, l) /\ k < l => i < j

LEMMA WasOrderFacts ==
    ASSUME NEW rows, NEW prev, NEW next, Numbered(prev, next), Infos(rows, prev, next),
           NEW byWas, WasOrder(byWas, rows)
    PROVE  /\ Len(rows) \in Nat /\ Positions(rows) = 0..(Len(rows) - 1)
           /\ Positions(byWas) = Positions(rows)
           /\ \A k \in Positions(rows) :
                  /\ k \in Nat /\ At0(rows, k) \in RowInfo /\ At0(byWas, k) \in RowInfo
                  /\ \E l \in Positions(rows) : At0(byWas, k) = At0(rows, l)
                  /\ \E l \in Positions(rows) : At0(byWas, l) = At0(rows, k)
           /\ \A k, l \in Positions(rows) :
                  /\ At0(rows, k) = At0(rows, l) => k = l
                  /\ At0(byWas, k) = At0(byWas, l) => k = l
                  /\ At0(rows, k).row = At0(rows, l).row => k = l
                  /\ k < l <=> At0(byWas, k).was < At0(byWas, l).was
                  /\ At0(byWas, k).row = At0(rows, l).row => At0(byWas, k) = At0(rows, l)
<1> DEFINE n == Len(rows)
<1>1. /\ rows \in Seq(RowInfo) /\ n \in Nat /\ DOMAIN rows = 1..n
      /\ \A k \in DOMAIN rows : rows[k].was \in Nat
      /\ \A k, l \in DOMAIN rows : rows[k].is = rows[l].is => k = l
  BY InfoFacts DEF Infos
<1>2. /\ byWas \in Seq(RowInfo) /\ DOMAIN byWas = 1..n /\ Len(byWas) = n
      /\ \A k \in DOMAIN byWas : \E l \in DOMAIN rows : byWas[k] = rows[l]
      /\ \A l \in DOMAIN rows : \E k \in DOMAIN byWas : byWas[k] = rows[l]
      /\ \A k, l \in DOMAIN byWas : k < l => byWas[k].was < byWas[l].was
  BY RowsFacts DEF WasOrder
<1>3. /\ \A k \in DOMAIN rows : At0(next, rows[k].is) = rows[k].row /\ rows[k].is \in Positions(next)
      /\ \A i, j \in Positions(next) : At0(next, i) = At0(next, j) => i = j
  BY DEF Infos, Numbered
<1>4. Positions(rows) = 0..(n - 1) /\ Positions(byWas) = 0..(n - 1)
  BY <1>2 DEF Positions
<1> HIDE DEF n
<1>5. ASSUME NEW k \in DOMAIN rows, NEW l \in DOMAIN rows, rows[k].row = rows[l].row
      PROVE  k = l
  <2>1. At0(next, rows[k].is) = At0(next, rows[l].is)
    BY <1>3, <1>5
  <2>2. rows[k].is = rows[l].is
    BY <1>3, <2>1
  <2> QED
    BY <1>1, <2>2
<1>6. \A k \in 1..n : byWas[k].was \in Nat
  BY <1>1, <1>2
<1>7. ASSUME NEW k \in 1..n, NEW l \in 1..n
      PROVE  k < l <=> byWas[k].was < byWas[l].was
  <2>1. k \in Nat /\ l \in Nat /\ byWas[k].was \in Nat /\ byWas[l].was \in Nat
    BY <1>1, <1>6
  <2>2. (k < l => byWas[k].was < byWas[l].was) /\ (l < k => byWas[l].was < byWas[k].was)
    BY <1>2
  <2>3. k = l => byWas[k].was = byWas[l].was
    OBVIOUS
  <2> QED
    BY <2>1, <2>2, <2>3
<1>8. ASSUME NEW k \in 1..n, NEW l \in 1..n, byWas[k] = byWas[l]
      PROVE  k = l
  <2>1. ~(byWas[k].was < byWas[l].was) /\ ~(byWas[l].was < byWas[k].was)
    BY <1>6, <1>8
  <2>2. ~(k < l) /\ ~(l < k) /\ k \in Nat /\ l \in Nat
    BY <1>1, <1>7, <2>1
  <2> QED
    BY <2>2
<1>9. ASSUME NEW k \in 1..n, NEW l \in 1..n, byWas[k].row = rows[l].row
      PROVE  byWas[k] = rows[l]
  <2>1. PICK j \in DOMAIN rows : byWas[k] = rows[j]
    BY <1>2
  <2>2. j = l
    BY <1>1, <1>5, <1>9, <2>1
  <2> QED
    BY <2>1, <2>2
<1>10. \A k \in Positions(rows) : k \in Nat /\ k + 1 \in 1..n
  BY <1>1, <1>4
<1>11. \A k \in 1..n : \E i \in Positions(rows) : k = i + 1
  <2>1. ASSUME NEW k \in 1..n PROVE \E i \in Positions(rows) : k = i + 1
    <3>1. k - 1 \in Positions(rows) /\ k = (k - 1) + 1
      BY <1>1, <1>4
    <3> QED
      BY <3>1
  <2> QED
    BY <2>1
<1>12. ASSUME NEW k \in Positions(rows)
       PROVE  /\ k \in Nat /\ At0(rows, k) \in RowInfo /\ At0(byWas, k) \in RowInfo
              /\ \E l \in Positions(rows) : At0(byWas, k) = At0(rows, l)
              /\ \E l \in Positions(rows) : At0(byWas, l) = At0(rows, k)
  <2>1. k + 1 \in 1..n /\ k \in Nat
    BY <1>10
  <2>2. rows[k + 1] \in RowInfo /\ byWas[k + 1] \in RowInfo
    BY <1>1, <1>2, <2>1, RowsFacts
  <2>3. PICK x \in 1..n : byWas[k + 1] = rows[x]
    BY <1>1, <1>2, <2>1
  <2>4. PICK y \in 1..n : byWas[y] = rows[k + 1]
    BY <1>1, <1>2, <2>1
  <2>5. PICK i \in Positions(rows) : x = i + 1
    BY <1>11
  <2>6. PICK j \in Positions(rows) : y = j + 1
    BY <1>11
  <2> QED
    BY <2>1, <2>2, <2>3, <2>4, <2>5, <2>6 DEF At0
<1>13. ASSUME NEW k \in Positions(rows), NEW l \in Positions(rows)
       PROVE  /\ At0(rows, k).row = At0(rows, l).row => k = l
              /\ At0(byWas, k) = At0(byWas, l) => k = l
              /\ k < l <=> At0(byWas, k).was < At0(byWas, l).was
              /\ At0(byWas, k).row = At0(rows, l).row => At0(byWas, k) = At0(rows, l)
  <2>1. k + 1 \in 1..n /\ l + 1 \in 1..n /\ k \in Nat /\ l \in Nat
    BY <1>10
  <2>2. (k + 1 = l + 1 <=> k = l) /\ (k + 1 < l + 1 <=> k < l)
    BY <2>1
  <2> QED
    BY <1>1, <1>5, <1>7, <1>8, <1>9, <2>1, <2>2 DEF At0
<1> QED
  BY <1>1, <1>4, <1>12, <1>13 DEF n

\* The rows Q stay, in one order, and those at the places of neither A nor B are the others.
KeepsAlike(A, B, byWas, rows) ==
    \E Q \in SUBSET DOMAIN rows :
        /\ \A k, l \in Q : k < l => rows[k].was < rows[l].was
        /\ {At0(byWas, i).was : i \in Positions(rows) \ A}
               = {rows[k].was : k \in DOMAIN rows \ Q}
        /\ {At0(rows, k).is : k \in Positions(rows) \ B}
               = {rows[k].is : k \in DOMAIN rows \ Q}

LEMMA AlikeKeeps ==
    ASSUME NEW rows, NEW prev, NEW next, Numbered(prev, next), Infos(rows, prev, next),
           NEW byWas, WasOrder(byWas, rows), NEW A, NEW B, Alike(A, B, byWas, rows)
    PROVE  KeepsAlike(A, B, byWas, rows)
<1> DEFINE P == Positions(rows)
           Q == {k \in DOMAIN rows : k - 1 \in B}
<1>1. /\ Len(rows) \in Nat /\ P = 0..(Len(rows) - 1) /\ DOMAIN rows = 1..Len(rows)
      /\ \A k \in P : /\ k \in Nat
                      /\ \E l \in P : At0(byWas, k) = At0(rows, l)
                      /\ \E l \in P : At0(byWas, l) = At0(rows, k)
      /\ \A k, l \in P : /\ At0(rows, k) = At0(rows, l) => k = l
                         /\ At0(byWas, k) = At0(byWas, l) => k = l
                         /\ k < l <=> At0(byWas, k).was < At0(byWas, l).was
  BY WasOrderFacts, InfoFacts
<1>2. /\ A \in SUBSET P /\ B \in SUBSET P
      /\ \A k \in B : \E i \in A : At0(byWas, i) = At0(rows, k)
      /\ \A i \in A : \E k \in B : At0(byWas, i) = At0(rows, k)
      /\ \A i, j \in A, k, l \in B :
             At0(byWas, i) = At0(rows, k) /\ At0(byWas, j) = At0(rows, l) /\ k < l => i < j
  BY DEF Alike
<1>3. ASSUME NEW k \in DOMAIN rows
      PROVE  k \in Nat /\ k - 1 \in P /\ At0(rows, k - 1) = rows[k]
  <2>1. k \in Nat /\ k >= 1 /\ k <= Len(rows) /\ Len(rows) \in Nat
    BY <1>1
  <2>2. k - 1 \in 0..(Len(rows) - 1) /\ (k - 1) + 1 = k
    BY <2>1
  <2> QED
    BY <1>1, <2>1, <2>2 DEF At0
<1>4. ASSUME NEW k \in P
      PROVE  k + 1 \in DOMAIN rows /\ At0(rows, k) = rows[k + 1] /\ (k + 1) - 1 = k
  <2>1. k \in 0..(Len(rows) - 1) /\ Len(rows) \in Nat
    BY <1>1
  <2>2. k + 1 \in 1..Len(rows) /\ (k + 1) - 1 = k
    BY <2>1
  <2> QED
    BY <1>1, <2>2 DEF At0
<1>45. \A k, l \in P : At0(rows, k) = At0(rows, l) => k = l
  BY <1>1
<1>46. \A k, l \in P : At0(byWas, k) = At0(byWas, l) => k = l
  BY <1>1
<1> HIDE DEF P
<1>5. ASSUME NEW k \in Q, NEW l \in Q, k < l
      PROVE  rows[k].was < rows[l].was
  <2>1. /\ k - 1 \in B /\ l - 1 \in B /\ k \in DOMAIN rows /\ l \in DOMAIN rows
        /\ k - 1 < l - 1
    <3>1. k \in Nat /\ l \in Nat
      BY <1>3
    <3> QED
      BY <1>5, <3>1
  <2>2. PICK i \in A : At0(byWas, i) = At0(rows, k - 1)
    BY <1>2, <2>1
  <2>3. PICK j \in A : At0(byWas, j) = At0(rows, l - 1)
    BY <1>2, <2>1
  <2>4. i < j
    BY <1>2, <2>1, <2>2, <2>3
  <2>5. At0(byWas, i).was < At0(byWas, j).was
    BY <1>1, <1>2, <2>4
  <2> QED
    BY <1>3, <2>1, <2>2, <2>3, <2>5
<1>6. ASSUME NEW i \in P, NEW k \in P, At0(byWas, i) = At0(rows, k)
      PROVE  i \in A <=> k \in B
  <2>1. ASSUME i \in A PROVE k \in B
    <3>1. PICK l \in B : At0(byWas, i) = At0(rows, l)
      BY <1>2, <2>1
    <3>2. l = k
      BY <1>2, <1>45, <1>6, <3>1
    <3> QED
      BY <3>2
  <2>2. ASSUME k \in B PROVE i \in A
    <3>1. PICK j \in A : At0(byWas, j) = At0(rows, k)
      BY <1>2, <2>2
    <3>2. j = i
      BY <1>2, <1>46, <1>6, <3>1
    <3> QED
      BY <3>2
  <2> QED
    BY <2>1, <2>2
<1>7. {At0(byWas, i).was : i \in P \ A} = {rows[k].was : k \in DOMAIN rows \ Q}
  <2>1. ASSUME NEW i \in P \ A PROVE \E k \in DOMAIN rows \ Q : At0(byWas, i).was = rows[k].was
    <3>1. PICK l \in P : At0(byWas, i) = At0(rows, l)
      BY <1>1
    <3>2. l \notin B
      BY <1>6, <3>1
    <3>3. l + 1 \in DOMAIN rows \ Q /\ At0(rows, l) = rows[l + 1]
      BY <1>4, <3>2
    <3> QED
      BY <3>1, <3>3
  <2>2. ASSUME NEW k \in DOMAIN rows \ Q PROVE \E i \in P \ A : At0(byWas, i).was = rows[k].was
    <3>1. k - 1 \in P /\ k - 1 \notin B /\ At0(rows, k - 1) = rows[k]
      BY <1>3
    <3>2. PICK i \in P : At0(byWas, i) = At0(rows, k - 1)
      BY <1>1, <3>1
    <3>3. i \notin A
      BY <1>6, <3>1, <3>2
    <3> QED
      BY <3>1, <3>2, <3>3
  <2> HIDE DEF Q
  <2> QED
    BY <2>1, <2>2
<1>8. {At0(rows, k).is : k \in P \ B} = {rows[k].is : k \in DOMAIN rows \ Q}
  <2>1. \A k \in P \ B : k + 1 \in DOMAIN rows \ Q /\ At0(rows, k) = rows[k + 1]
    BY <1>4
  <2>2. \A k \in DOMAIN rows \ Q : k - 1 \in P \ B /\ At0(rows, k - 1) = rows[k]
    BY <1>3
  <2> HIDE DEF Q
  <2> QED
    BY <2>1, <2>2
<1>9. Q \in SUBSET DOMAIN rows
  OBVIOUS
<1> HIDE DEF Q
<1> QED
  BY <1>5, <1>7, <1>8, <1>9 DEF P, KeepsAlike

LEMMA NumbersAre ==
    ASSUME NEW rows \in Seq(RowInfo)
    PROVE  /\ Numbers(rows) \in Seq(Int) /\ Len(Numbers(rows)) = Len(rows)
           /\ Positions(Numbers(rows)) = Positions(rows)
           /\ \A k \in Positions(rows) : At0(Numbers(rows), k) = At0(rows, k).row
<1> DEFINE s == Numbers(rows)
<1>1. Len(rows) \in Nat /\ DOMAIN rows = 1..Len(rows) /\ \A k \in DOMAIN rows : rows[k] \in RowInfo
  BY RowsFacts
<1>2. \A k \in DOMAIN rows : rows[k].row \in Int
  BY <1>1 DEF RowInfo
<1>3. s \in [1..Len(rows) -> Int] /\ \A k \in DOMAIN rows : s[k] = rows[k].row
  BY <1>1, <1>2 DEF Numbers
<1> HIDE DEF s
<1>4. s \in Seq(Int) /\ Len(s) = Len(rows)
  BY <1>1, <1>3
<1>5. Positions(s) = Positions(rows)
  BY <1>4 DEF Positions
<1>6. \A k \in Positions(rows) : k + 1 \in DOMAIN rows
  BY <1>1 DEF Positions
<1> QED
  BY <1>3, <1>4, <1>5, <1>6 DEF At0, s

\* Where a block of a is in b.
LEMMA BlockFacts ==
    ASSUME NEW a \in Seq(Int), NEW b \in Seq(Int), NEW r \in Ranges(a), NEW m \in Blocks,
           m.size \in Nat, Matching(m.i, m.j, m.size, r, r.end1, a, b)
    PROVE  /\ m.i \in Nat /\ m.j \in Nat
           /\ \A x \in m.i .. (m.i + m.size - 1) :
                  /\ x \in Nat /\ r.begin1 <= x /\ x < r.end1
                  /\ m.j + (x - m.i) \in m.j .. (m.j + m.size - 1)
                  /\ At0(a, x) = At0(b, m.j + (x - m.i))
           /\ \A y \in m.j .. (m.j + m.size - 1) :
                  /\ y \in Nat /\ r.begin2 <= y /\ y < r.end2
                  /\ m.i + (y - m.j) \in m.i .. (m.i + m.size - 1)
                  /\ At0(a, m.i + (y - m.j)) = At0(b, y)
<1> DEFINE i == m.i
           j == m.j
           n == m.size
<1>1. /\ r.begin1 \in Nat /\ r.end1 \in Nat /\ r.begin2 \in Nat /\ r.end2 \in Nat
  BY RangeFacts
<1>2. /\ i \in Int /\ j \in Int /\ n \in Nat
      /\ r.begin1 <= i /\ i + n <= r.end1 /\ r.begin2 <= j /\ j + n <= r.end2
      /\ \A t \in 0 .. (n - 1) : At0(a, i + t) = At0(b, j + t)
  BY DEF Matching, Blocks
<1> HIDE DEF i, j, n
<1>3. i \in Nat /\ j \in Nat
  BY <1>1, <1>2
<1>4. ASSUME NEW x \in i .. (i + n - 1)
      PROVE  /\ x \in Nat /\ r.begin1 <= x /\ x < r.end1
             /\ j + (x - i) \in j .. (j + n - 1)
             /\ At0(a, x) = At0(b, j + (x - i))
  <2>1. x - i \in 0 .. (n - 1) /\ i + (x - i) = x
    BY <1>2, <1>3
  <2>2. At0(a, i + (x - i)) = At0(b, j + (x - i))
    BY <1>2, <2>1
  <2>3. /\ x \in Nat /\ r.begin1 <= x /\ x < r.end1
        /\ j + (x - i) \in j .. (j + n - 1)
    BY <1>1, <1>2, <1>3
  <2> QED
    BY <2>1, <2>2, <2>3
<1>5. ASSUME NEW y \in j .. (j + n - 1)
      PROVE  /\ y \in Nat /\ r.begin2 <= y /\ y < r.end2
             /\ i + (y - j) \in i .. (i + n - 1)
             /\ At0(a, i + (y - j)) = At0(b, y)
  <2>1. y - j \in 0 .. (n - 1) /\ j + (y - j) = y
    BY <1>2, <1>3
  <2>2. At0(a, i + (y - j)) = At0(b, j + (y - j))
    BY <1>2, <2>1
  <2>3. /\ y \in Nat /\ r.begin2 <= y /\ y < r.end2
        /\ i + (y - j) \in i .. (i + n - 1)
    BY <1>1, <1>2, <1>3
  <2> QED
    BY <2>1, <2>2, <2>3
<1> QED
  BY <1>3, <1>4, <1>5 DEF i, j, n

\* The rows before `begin` and those in the blocks of X.
LEMMA BlocksAlike ==
    ASSUME NEW rows, NEW prev, NEW next, Numbered(prev, next), Infos(rows, prev, next),
           NEW byWas, WasOrder(byWas, rows), NEW begin \in Positions(rows),
           \A k \in Positions(rows) : k < begin => At0(byWas, k).row = At0(rows, k).row,
           NEW a, a = Numbers(byWas), NEW b, b = Numbers(rows),
           NEW r \in Ranges(a), r.begin1 = begin, r.begin2 = begin, r.end1 = Len(rows),
           r.end2 = Len(rows), NEW X, InSequence(X, r, a, b)
    PROVE  Alike({x \in Positions(rows) : x < begin \/ \E m \in X : x \in m.i .. (m.i + m.size - 1)},
                 {y \in Positions(rows) : y < begin \/ \E m \in X : y \in m.j .. (m.j + m.size - 1)},
                 byWas, rows)
<1> DEFINE P == Positions(rows)
           A == {x \in P : x < begin \/ \E m \in X : x \in m.i .. (m.i + m.size - 1)}
           B == {y \in P : y < begin \/ \E m \in X : y \in m.j .. (m.j + m.size - 1)}
           Same0(x, y) == \/ x < begin /\ y = x
                          \/ \E m \in X : /\ y \in m.j .. (m.j + m.size - 1)
                                          /\ x = m.i + (y - m.j)
<1>1. /\ Len(rows) \in Nat /\ P = 0..(Len(rows) - 1) /\ Positions(byWas) = P
      /\ \A k, l \in P : At0(byWas, k) = At0(byWas, l) => k = l
      /\ \A k, l \in P : At0(byWas, k).row = At0(rows, l).row => At0(byWas, k) = At0(rows, l)
  <2>1. /\ Len(rows) \in Nat /\ Positions(rows) = 0..(Len(rows) - 1)
        /\ Positions(byWas) = Positions(rows)
    BY WasOrderFacts
  <2>2. \A k, l \in Positions(rows) :
            /\ At0(byWas, k) = At0(byWas, l) => k = l
            /\ At0(byWas, k).row = At0(rows, l).row => At0(byWas, k) = At0(rows, l)
    BY WasOrderFacts
  <2> QED
    BY <2>1, <2>2
<1>2. /\ a \in Seq(Int) /\ b \in Seq(Int)
      /\ \A k \in P : At0(a, k) = At0(byWas, k).row /\ At0(b, k) = At0(rows, k).row
  <2>1. rows \in Seq(RowInfo) /\ byWas \in Seq(RowInfo)
    BY DEF Infos, WasOrder
  <2> QED
    BY <1>1, <2>1, NumbersAre
<1>3. begin \in Nat /\ begin < Len(rows)
  BY <1>1
<1>4. ASSUME NEW m \in X
      PROVE  /\ m.i \in Nat /\ m.j \in Nat /\ m.size \in Nat
             /\ \A x \in m.i .. (m.i + m.size - 1) :
                    /\ x \in P /\ x >= begin
                    /\ m.j + (x - m.i) \in m.j .. (m.j + m.size - 1)
                    /\ At0(a, x) = At0(b, m.j + (x - m.i))
             /\ \A y \in m.j .. (m.j + m.size - 1) :
                    /\ y \in P /\ y >= begin
                    /\ m.i + (y - m.j) \in m.i .. (m.i + m.size - 1)
                    /\ At0(a, m.i + (y - m.j)) = At0(b, y)
  <2>1. m \in Blocks /\ m.size \in Nat /\ Matching(m.i, m.j, m.size, r, r.end1, a, b)
    BY DEF InSequence
  <2>2. /\ m.i \in Nat /\ m.j \in Nat
        /\ \A x \in m.i .. (m.i + m.size - 1) :
               /\ x \in Nat /\ r.begin1 <= x /\ x < r.end1
               /\ m.j + (x - m.i) \in m.j .. (m.j + m.size - 1)
               /\ At0(a, x) = At0(b, m.j + (x - m.i))
        /\ \A y \in m.j .. (m.j + m.size - 1) :
               /\ y \in Nat /\ r.begin2 <= y /\ y < r.end2
               /\ m.i + (y - m.j) \in m.i .. (m.i + m.size - 1)
               /\ At0(a, m.i + (y - m.j)) = At0(b, y)
    BY <1>2, <2>1, BlockFacts
  <2>3. \A x \in Nat : x < Len(rows) => x \in P
    BY <1>1
  <2> QED
    BY <1>3, <2>1, <2>2, <2>3
<1> HIDE DEF P
<1>5. A \in SUBSET P /\ B \in SUBSET P /\ \A x \in P : x \in Nat
  BY <1>1
<1>6. ASSUME NEW y \in B
      PROVE  \E x \in A : At0(byWas, x) = At0(rows, y) /\ Same0(x, y)
  <2>1. CASE y < begin
    <3>1. At0(byWas, y) = At0(rows, y)
      BY <1>1, <2>1 DEF P
    <3>2. y \in A /\ Same0(y, y)
      BY <2>1
    <3> QED
      BY <3>1, <3>2
  <2>2. CASE \E m \in X : y \in m.j .. (m.j + m.size - 1)
    <3>1. PICK m \in X : y \in m.j .. (m.j + m.size - 1)
      BY <2>2
    <3> DEFINE x == m.i + (y - m.j)
    <3>2. x \in m.i .. (m.i + m.size - 1) /\ At0(a, x) = At0(b, y)
      BY <1>4, <3>1
    <3>3. Same0(x, y)
      BY <3>1
    <3> HIDE DEF x
    <3>4. x \in P /\ x \in A
      BY <1>4, <3>2
    <3>5. At0(byWas, x) = At0(rows, y)
      BY <1>1, <1>2, <3>2, <3>4
    <3> QED
      BY <3>3, <3>4, <3>5
  <2> QED
    BY <2>1, <2>2
<1>7. ASSUME NEW x \in A
      PROVE  \E y \in B : At0(byWas, x) = At0(rows, y)
  <2>1. CASE x < begin
    <3>1. At0(byWas, x) = At0(rows, x)
      BY <1>1, <2>1 DEF P
    <3>2. x \in B
      BY <2>1
    <3> QED
      BY <3>1, <3>2
  <2>2. CASE \E m \in X : x \in m.i .. (m.i + m.size - 1)
    <3>1. PICK m \in X : x \in m.i .. (m.i + m.size - 1)
      BY <2>2
    <3> DEFINE y == m.j + (x - m.i)
    <3>2. y \in m.j .. (m.j + m.size - 1) /\ At0(a, x) = At0(b, y)
      BY <1>4, <3>1
    <3> HIDE DEF y
    <3>3. y \in P /\ y \in B
      BY <1>4, <3>1, <3>2
    <3>4. At0(byWas, x) = At0(rows, y)
      BY <1>1, <1>2, <3>2, <3>3
    <3> QED
      BY <3>3, <3>4
  <2> QED
    BY <2>1, <2>2
<1>8. ASSUME NEW x \in A, NEW u \in A, NEW y \in B, NEW v \in B,
             Same0(x, y), Same0(u, v), y < v
      PROVE  x < u
  <2>0. x \in Nat /\ u \in Nat /\ y \in Nat /\ v \in Nat
    BY <1>5
  <2>1. CASE x < begin /\ y = x /\ u < begin /\ v = u
    BY <1>8, <2>1
  <2>2. CASE x < begin /\ y = x /\ \E m \in X : v \in m.j .. (m.j + m.size - 1) /\ u = m.i + (v - m.j)
    <3>1. PICK m \in X : v \in m.j .. (m.j + m.size - 1) /\ u = m.i + (v - m.j)
      BY <2>2
    <3>2. u >= begin
      BY <1>4, <3>1
    <3> QED
      BY <1>3, <2>0, <2>2, <3>2
  <2>3. CASE u < begin /\ v = u /\ \E m \in X : y \in m.j .. (m.j + m.size - 1) /\ x = m.i + (y - m.j)
    <3>1. PICK m \in X : y \in m.j .. (m.j + m.size - 1)
      BY <2>3
    <3>2. y >= begin
      BY <1>4, <3>1
    <3> QED
      BY <1>3, <1>8, <2>0, <2>3, <3>2
  <2>4. CASE /\ \E m \in X : y \in m.j .. (m.j + m.size - 1) /\ x = m.i + (y - m.j)
             /\ \E m \in X : v \in m.j .. (m.j + m.size - 1) /\ u = m.i + (v - m.j)
    <3>1. PICK m \in X : y \in m.j .. (m.j + m.size - 1) /\ x = m.i + (y - m.j)
      BY <2>4
    <3>2. PICK o \in X : v \in o.j .. (o.j + o.size - 1) /\ u = o.i + (v - o.j)
      BY <2>4
    <3>3. \/ m = o
          \/ m.i + m.size <= o.i /\ m.j + m.size <= o.j
          \/ o.i + o.size <= m.i /\ o.j + o.size <= m.j
      BY DEF InSequence
    <3>4. /\ m.i \in Nat /\ m.j \in Nat /\ m.size \in Nat
          /\ o.i \in Nat /\ o.j \in Nat /\ o.size \in Nat
      BY <1>4
    <3>5. \A mi, mj, ms, oi, oj, os \in Nat :
              /\ mj <= y /\ y <= mj + ms - 1 /\ oj <= v /\ v <= oj + os - 1
              /\ \/ mi = oi /\ mj = oj
                 \/ mi + ms <= oi /\ mj + ms <= oj
                 \/ oi + os <= mi /\ oj + os <= mj
              => mi + (y - mj) < oi + (v - oj)
      BY <1>8, <2>0
    <3>6. m.j <= y /\ y <= m.j + m.size - 1 /\ o.j <= v /\ v <= o.j + o.size - 1
      BY <2>0, <3>1, <3>2, <3>4
    <3>7. m.i + (y - m.j) < o.i + (v - o.j)
      BY <3>3, <3>4, <3>5, <3>6
    <3> QED
      BY <3>1, <3>2, <3>7
  <2> QED
    BY <1>8, <2>1, <2>2, <2>3, <2>4
<1> HIDE DEF A, B, Same0
<1>9. ASSUME NEW x \in A, NEW u \in A, NEW y \in B, NEW v \in B,
             At0(byWas, x) = At0(rows, y), At0(byWas, u) = At0(rows, v), y < v
      PROVE  x < u
  <2>1. PICK p \in A : At0(byWas, p) = At0(rows, y) /\ Same0(p, y)
    BY <1>6
  <2>2. PICK q \in A : At0(byWas, q) = At0(rows, v) /\ Same0(q, v)
    BY <1>6
  <2>3. p = x /\ q = u
    BY <1>1, <1>5, <1>9, <2>1, <2>2
  <2> QED
    BY <1>8, <1>9, <2>1, <2>2, <2>3
<1>10. Alike(A, B, byWas, rows)
  BY <1>5, <1>6, <1>7, <1>9 DEF Alike, P
<1> QED
  BY <1>10 DEF A, B, P

\* The rows deleted and inserted to bring those of byWas into the order of rows.
LEMMA UnmatchedIs ==
    ASSUME NEW rows, NEW prev, NEW next, Numbered(prev, next), Infos(rows, prev, next),
           NEW byWas, WasOrder(byWas, rows), NEW modified \in SUBSET Nat
    PROVE  \E A, B : /\ Alike(A, B, byWas, rows)
                     /\ Unmatched(byWas, rows, modified).deletions
                          = {At0(byWas, i).was : i \in Positions(rows) \ A}
                     /\ Unmatched(byWas, rows, modified).insertions
                          = {At0(rows, k).is : k \in Positions(rows) \ B}
<1> DEFINE P == Positions(rows)
           differ == {k \in P : At0(byWas, k).row # At0(rows, k).row}
           u == Unmatched(byWas, rows, modified)
           a == Numbers(byWas)
           b == Numbers(rows)
<1>1. /\ Len(rows) \in Nat /\ P = 0..(Len(rows) - 1) /\ Positions(byWas) = P
      /\ P \in SUBSET Nat
  BY WasOrderFacts
<1>2. \A k, l \in P :
          /\ At0(byWas, k) = At0(byWas, l) => k = l
          /\ At0(byWas, k).row = At0(rows, l).row => At0(byWas, k) = At0(rows, l)
  BY WasOrderFacts
<1>3. u = UnmatchedFrom(byWas, rows, differ, modified)
  BY DEF Unmatched
<1> HIDE DEF P, u
<1>4. CASE differ = {}
  <2>1. u = [deletions |-> {}, insertions |-> {}]
    BY <1>3, <1>4 DEF UnmatchedFrom
  <2>2. \A k \in P : At0(byWas, k) = At0(rows, k)
    BY <1>2, <1>4
  <2>3. ASSUME NEW i \in P, NEW j \in P, NEW k \in P, NEW l \in P,
               At0(byWas, i) = At0(rows, k), At0(byWas, j) = At0(rows, l), k < l
        PROVE  i < j
    BY <1>2, <2>2, <2>3
  <2>4. Alike(P, P, byWas, rows)
    BY <2>2, <2>3 DEF Alike, P
  <2>5. /\ u.deletions = {At0(byWas, i).was : i \in P \ P}
        /\ u.insertions = {At0(rows, k).is : k \in P \ P}
    BY <2>1
  <2> QED
    BY <2>4, <2>5 DEF u, P
<1>5. CASE differ # {}
  <2> DEFINE begin == Min(differ)
             r == [begin1 |-> begin, end1 |-> Len(a), begin2 |-> begin, end2 |-> Len(a)]
             X == find_longest_matches(a, b, modified, begin)
             A == {x \in P : x < begin \/ \E m \in X : x \in m.i .. (m.i + m.size - 1)}
             B == {y \in P : y < begin \/ \E m \in X : y \in m.j .. (m.j + m.size - 1)}
  <2>1. begin \in differ /\ \A k \in differ : begin <= k
    <3>1. differ \in SUBSET Nat
      BY <1>1
    <3>2. PICK k \in differ : \A y \in differ : k <= y
      BY <1>5, <3>1, LeastNatural
    <3> HIDE DEF differ
    <3> QED
      BY <3>2 DEF Min
  <2>2. u = Outside(byWas, rows, begin, X)
    BY <1>3, <1>5 DEF UnmatchedFrom
  <2> HIDE DEF begin
  <2>3. begin \in P /\ begin \in Nat /\ \A k \in P : k < begin =>
                            At0(byWas, k).row = At0(rows, k).row
    <3>1. ASSUME NEW k \in P, k < begin PROVE k \notin differ
      BY <1>1, <2>1, <3>1
    <3> QED
      BY <1>1, <2>1, <3>1
  <2>4. /\ a \in Seq(Int) /\ b \in Seq(Int) /\ Len(a) = Len(rows) /\ Positions(a) = P
    <3>1. rows \in Seq(RowInfo) /\ byWas \in Seq(RowInfo) /\ Len(byWas) = Len(rows)
      BY DEF Infos, WasOrder
    <3> QED
      BY <1>1, <3>1, NumbersAre
  <2>45. a = Numbers(byWas) /\ b = Numbers(rows)
    OBVIOUS
  <2> HIDE DEF a, b
  <2>5. r \in Ranges(a)
    BY <1>1, <2>3, <2>4 DEF Ranges
  <2>6. PICK f : Matches(f, a, b, modified) /\ X = f[r]
    BY <2>4, MatchesExist
  <2>7. r.begin1 = begin /\ r.begin2 = begin /\ r.end1 = Len(rows) /\ r.end2 = Len(rows)
    BY <2>4
  <2> HIDE DEF X, r
  <2>8. InSequence(X, r, a, b)
    BY <2>4, <2>5, <2>6, MatchesInSequence
  <2>9. Alike({x \in Positions(rows) : x < begin \/ \E m \in X : x \in m.i .. (m.i + m.size - 1)},
              {y \in Positions(rows) : y < begin \/ \E m \in X : y \in m.j .. (m.j + m.size - 1)},
              byWas, rows)
    BY <2>3, <2>45, <2>5, <2>7, <2>8, BlocksAlike DEF P
  <2>10. Alike(A, B, byWas, rows)
    BY <2>9 DEF P
  <2> DEFINE outI == begin .. (Len(rows) - 1) \ UNION {m.i .. (m.i + m.size - 1) : m \in X}
             outJ == begin .. (Len(rows) - 1) \ UNION {m.j .. (m.j + m.size - 1) : m \in X}
  <2>11. /\ u.deletions = {At0(byWas, k).was : k \in outI}
         /\ u.insertions = {At0(rows, k).is : k \in outJ}
    BY <2>2 DEF Outside
  <2>12. \A x : x \in begin .. (Len(rows) - 1) <=> x \in P /\ ~(x < begin)
    BY <1>1, <2>3 DEF P
  <2>13. outI = P \ A /\ outJ = P \ B
    <3>1. ASSUME NEW x PROVE x \in outI <=> x \in P \ A
      BY <2>12
    <3>2. ASSUME NEW x PROVE x \in outJ <=> x \in P \ B
      BY <2>12
    <3> HIDE DEF outI, outJ, A, B
    <3> QED
      BY <3>1, <3>2
  <2> HIDE DEF outI, outJ, A, B
  <2> QED
    BY <2>10, <2>11, <2>13 DEF u, P
<1> QED
  BY <1>4, <1>5

LEMMA SortedTurns ==
    ASSUME NEW rows, NEW prev, NEW next, Numbered(prev, next), Infos(rows, prev, next),
           NEW was, NEW is, NumberedBy(was, is, prev, next),
           NEW gone, NEW removed, NEW inserted,
           Sorts(gone, removed, inserted, rows, prev, next), NEW modified \in SUBSET Nat
    PROVE  Turns(Sorted(rows, gone, removed, inserted, modified), was, is)
<1> DEFINE byWas == ByWas(rows)
           u == Unmatched(byWas, rows, modified)
           c == Sorted(rows, gone, removed, inserted, modified)
           G == gone \cup removed
           D == gone \cup removed \cup u.deletions
           I == inserted \cup u.insertions
<1>1. WasOrder(byWas, rows)
  BY ByWasIs
<1>2. c.deletions = D /\ c.insertions = I /\ c.moves = <<>>
  BY EmptyIs DEF Sorted
<1> HIDE DEF byWas, c
<1>3. PICK A, B : /\ Alike(A, B, byWas, rows)
                  /\ Unmatched(byWas, rows, modified).deletions
                       = {At0(byWas, i).was : i \in Positions(rows) \ A}
                  /\ Unmatched(byWas, rows, modified).insertions
                       = {At0(rows, k).is : k \in Positions(rows) \ B}
  BY <1>1, UnmatchedIs
<1> HIDE DEF u
<1>4. PICK Q \in SUBSET DOMAIN rows :
               /\ \A k, l \in Q : k < l => rows[k].was < rows[l].was
               /\ {At0(byWas, i).was : i \in Positions(rows) \ A}
                      = {rows[k].was : k \in DOMAIN rows \ Q}
               /\ {At0(rows, k).is : k \in Positions(rows) \ B}
                      = {rows[k].is : k \in DOMAIN rows \ Q}
  <2>1. Alike(A, B, byWas, rows)
    BY <1>3
  <2>2. KeepsAlike(A, B, byWas, rows)
    BY <1>1, <2>1, AlikeKeeps
  <2> QED
    BY <2>2 DEF KeepsAlike
<1>5. u.deletions = {rows[k].was : k \in DOMAIN rows \ Q}
      /\ u.insertions = {rows[k].is : k \in DOMAIN rows \ Q}
  BY <1>3, <1>4 DEF u
<1>6. Others(G, inserted, rows, prev, next)
  BY DEF Sorts
<1>7. Leaves(D, I, G, inserted, rows, Q)
  BY <1>5 DEF Leaves
<1> HIDE DEF D, I, G
<1>8. Without(was, D) = Without(is, I) /\ I \subseteq Positions(is)
  BY <1>4, <1>6, <1>7, KeptTurns
<1>9. Turns(c, was, is)
  BY <1>2, <1>8 DEF Turns
<1> QED
  BY <1>9 DEF c

-----------------------------------------------------------------------------
(* CollectionChangeBuilder::calculate                                        *)

\* What is calculated turns the rows that were into those that are, whatever is taken
\* for changed; in table order rows that did not move must not seem to.
LEMMA CalculateTurns ==
    ASSUME NEW prev, NEW next, Numbered(prev, next),
           NEW was, NEW is, NumberedBy(was, is, prev, next),
           NEW changed, NEW tableOrder \in BOOLEAN, NEW candidates,
           tableOrder => InOrder(RowInfos(prev, next), candidates)
    PROVE  Turns(calculate(prev, next, changed, tableOrder, candidates), was, is)
<1> DEFINE rows == RowInfos(prev, next)
           kept == {i \in Positions(prev) : At0(prev, i) # npos}
           gone == Positions(prev) \ kept
           removed == {i \in kept : PlaceOf(next, At0(prev, i)) < 0}
           inserted == {i \in Positions(next) : PlaceOf(prev, At0(next, i)) < 0}
           modified == {r.is : r \in {s \in ToSet(rows) : s.row \in changed}}
           c == calculate(prev, next, changed, tableOrder, candidates)
<1>1. Infos(rows, prev, next)
  BY RowInfosIs
<1>2. c = Calculated(rows, gone, removed, inserted, changed, tableOrder, candidates)
  BY DEF calculate
<1>3. c = IF tableOrder THEN Unsorted(rows, gone, removed, inserted, modified, candidates)
          ELSE Sorted(rows, gone, removed, inserted, modified)
  BY <1>2 DEF Calculated
<1> HIDE DEF rows, c
<1>4. Sorts(gone, removed, inserted, rows, prev, next)
  BY <1>1, SortsThem
<1>5. modified \in SUBSET Nat
  <2>1. \A k \in DOMAIN rows : rows[k].is \in Nat
    BY <1>1, InfoFacts
  <2>2. ASSUME NEW r \in ToSet(rows) PROVE r.is \in Nat
    <3>1. PICK k \in DOMAIN rows : r = rows[k]
      BY DEF ToSet
    <3> QED
      BY <2>1, <3>1
  <2> QED
    BY <2>2
<1>6. CASE tableOrder
  <2>1. InOrder(rows, candidates)
    BY <1>6 DEF rows
  <2>2. Turns(Unsorted(rows, gone, removed, inserted, modified, candidates), was, is)
    BY <1>1, <1>4, <2>1, UnsortedTurns
  <2> QED
    BY <1>3, <1>6, <2>2 DEF c
<1>7. CASE ~tableOrder
  <2>1. Turns(Sorted(rows, gone, removed, inserted, modified), was, is)
    BY <1>1, <1>4, <1>5, SortedTurns
  <2> QED
    BY <1>3, <1>7, <2>1 DEF c
<1> QED
  BY <1>6, <1>7

-----------------------------------------------------------------------------
(* The results of a query, as the changes of the table number their rows     *)

\* found are entries of s, each once.
Found(found, s) ==
    /\ found \in Seq(Nat) /\ IsInjective(found)
    /\ \A i \in Positions(found) :
           /\ PlaceOf(s, At0(found, i)) \in Positions(s)
           /\ At0(s, PlaceOf(s, At0(found, i))) = At0(found, i)

\* found are in the order of s.
Ordered(found, s) ==
    \A i, j \in Positions(found) :
        i < j => PlaceOf(s, At0(found, i)) < PlaceOf(s, At0(found, j))

PlacesOf(found, s) == [k \in DOMAIN found |-> PlaceOf(s, found[k])]

LEMMA PlaceOfEntry ==
    ASSUME NEW s \in Seq(Nat), NEW i \in Positions(s)
    PROVE  /\ PlaceOf(s, At0(s, i)) \in Positions(s)
           /\ At0(s, PlaceOf(s, At0(s, i))) = At0(s, i)
           /\ IsInjective(s) => PlaceOf(s, At0(s, i)) = i
<1>1. s \in Seq(Int) /\ Positions(s) \in SUBSET Nat
  <2>1. s \in Seq(Int)
    BY RowsFacts
  <2> QED
    BY <2>1, PositionFacts
<1>2. /\ PlaceOf(s, At0(s, i)) \in Positions(s)
      /\ At0(s, PlaceOf(s, At0(s, i))) = At0(s, i)
  BY <1>1, PlaceIs
<1> QED
  BY <1>2, DistinctEntries

\* Any entries of s, in any order.
LEMMA ArrangedFound ==
    ASSUME NEW s \in Seq(Nat), NEW E \in SUBSET Entries(s), NEW found \in SetToSeqs(E)
    PROVE  Found(found, s)
<1>1. /\ Len(s) \in Nat /\ DOMAIN s = 1..Len(s) /\ Positions(s) = 0..(Len(s) - 1)
      /\ \A k \in DOMAIN s : s[k] \in Nat
  BY RowsFacts DEF Positions
<1>2. IsFiniteSet(E)
  <2>1. s \in Surjection(1..Len(s), ToSet(s))
    BY <1>1 DEF Surjection, ToSet
  <2>2. IsFiniteSet(1..Len(s))
    BY <1>1, FS_Interval
  <2>3. IsFiniteSet(ToSet(s))
    BY <2>1, <2>2, FS_Surjection
  <2> QED
    BY <2>3, FS_Subset DEF Entries
<1>3. found \in Seq(E) /\ IsInjective(found)
  BY <1>2, ArrangementFacts
<1>4. \A e \in E : e \in Nat /\ \E i \in Positions(s) : e = At0(s, i)
  <2>1. ASSUME NEW e \in E PROVE e \in Nat /\ \E i \in Positions(s) : e = At0(s, i)
    <3>1. PICK k \in 1..Len(s) : e = s[k]
      BY <1>1 DEF Entries, ToSet
    <3>2. k - 1 \in Positions(s) /\ (k - 1) + 1 = k
      BY <1>1, <3>1
    <3> QED
      BY <1>1, <3>1, <3>2 DEF At0
  <2> QED
    BY <2>1
<1>5. found \in Seq(Nat)
  BY <1>3, <1>4, RowsFacts
<1>6. ASSUME NEW i \in Positions(found)
      PROVE  /\ PlaceOf(s, At0(found, i)) \in Positions(s)
             /\ At0(s, PlaceOf(s, At0(found, i))) = At0(found, i)
  <2>1. At0(found, i) \in E
    BY <1>3, PositionFacts
  <2>2. PICK j \in Positions(s) : At0(found, i) = At0(s, j)
    BY <1>4, <2>1
  <2> QED
    BY <2>2, PlaceOfEntry
<1> QED
  BY <1>3, <1>5, <1>6 DEF Found

\* The entries at places of s, in the order of s.
LEMMA ChosenFound ==
    ASSUME NEW s \in Seq(Nat), IsInjective(s), NEW K \in SUBSET DOMAIN s
    PROVE  Found(Chosen(s, K), s) /\ Ordered(Chosen(s, K), s)
<1> DEFINE at == Increasing(K)
           found == Chosen(s, K)
<1>1. /\ Len(s) \in Nat /\ DOMAIN s = 1..Len(s) /\ Positions(s) = 0..(Len(s) - 1)
  BY RowsFacts DEF Positions
<1>2. /\ found \in Seq(Nat) /\ DOMAIN found = DOMAIN at
      /\ \A k \in DOMAIN found : at[k] \in K /\ found[k] = s[at[k]]
  BY ChosenFacts
<1>3. \A k, l \in DOMAIN at : k < l => at[k] < at[l]
  <2>1. K \in SUBSET Nat
    BY <1>1
  <2>2. IsFiniteSet(1..Len(s))
    BY <1>1, FS_Interval
  <2>3. IsFiniteSet(K)
    BY <1>1, <2>2, FS_Subset
  <2> QED
    BY <2>1, <2>3, AscendingFacts
<1> HIDE DEF at, found
<1>4. Len(found) \in Nat /\ DOMAIN found = 1..Len(found) /\ Positions(found) = 0..(Len(found) - 1)
  BY <1>2, RowsFacts DEF Positions
<1>5. ASSUME NEW i \in Positions(found)
      PROVE  /\ i + 1 \in DOMAIN found /\ at[i + 1] \in Nat /\ at[i + 1] - 1 \in Positions(s)
             /\ At0(found, i) = At0(s, at[i + 1] - 1)
             /\ PlaceOf(s, At0(found, i)) = at[i + 1] - 1
  <2>1. i + 1 \in DOMAIN found
    BY <1>4
  <2>2. at[i + 1] \in 1..Len(s) /\ found[i + 1] = s[at[i + 1]]
    BY <1>1, <1>2, <2>1
  <2>3. /\ at[i + 1] \in Nat /\ at[i + 1] - 1 \in Positions(s)
        /\ (at[i + 1] - 1) + 1 = at[i + 1]
    BY <1>1, <2>2
  <2>4. At0(found, i) = At0(s, at[i + 1] - 1)
    BY <2>2, <2>3 DEF At0
  <2>5. PlaceOf(s, At0(s, at[i + 1] - 1)) = at[i + 1] - 1
    BY <2>3, PlaceOfEntry
  <2> QED
    BY <2>1, <2>3, <2>4, <2>5
<1>6. ASSUME NEW i \in Positions(found), NEW j \in Positions(found)
      PROVE  /\ i < j => PlaceOf(s, At0(found, i)) < PlaceOf(s, At0(found, j))
             /\ PlaceOf(s, At0(found, i)) = PlaceOf(s, At0(found, j)) => i = j
  <2>1. i \in Nat /\ j \in Nat /\ i + 1 \in DOMAIN at /\ j + 1 \in DOMAIN at
    BY <1>2, <1>4, <1>5
  <2>2. at[i + 1] \in Nat /\ at[j + 1] \in Nat
    BY <1>5
  <2>3. /\ PlaceOf(s, At0(found, i)) = at[i + 1] - 1
        /\ PlaceOf(s, At0(found, j)) = at[j + 1] - 1
    BY <1>5
  <2>4. (i < j => at[i + 1] < at[j + 1]) /\ (j < i => at[j + 1] < at[i + 1])
    <3>1. (i < j => i + 1 < j + 1) /\ (j < i => j + 1 < i + 1)
      BY <2>1
    <3> QED
      BY <1>3, <2>1, <3>1
  <2> QED
    BY <2>1, <2>2, <2>3, <2>4
<1>7. IsInjective(found)
  BY <1>2, <1>6, DistinctEntries
<1>8. Found(found, s)
  BY <1>2, <1>5, <1>7 DEF Found
<1>9. Ordered(found, s)
  BY <1>6 DEF Ordered
<1> QED
  BY <1>8, <1>9 DEF found

LEMMA ResultsAre ==
    ASSUME NEW s \in Seq(Nat), IsInjective(s), NEW found \in Results(s)
    PROVE  Found(found, s) /\ (kind = "unsorted" => Ordered(found, s))
<1>1. CASE kind = "unsorted"
  <2>1. PICK K \in SUBSET DOMAIN s : found = Chosen(s, K)
    BY <1>1 DEF Results
  <2> QED
    BY <2>1, ChosenFound
<1>2. CASE kind # "unsorted"
  <2>1. PICK E \in SUBSET Entries(s) : found \in SetToSeqs(E)
    BY <1>2 DEF Results
  <2> QED
    BY <1>2, <2>1, ArrangedFound
<1> QED
  BY <1>1, <1>2

LEMMA PlacesFacts ==
    ASSUME NEW s \in Seq(Nat), NEW found, Found(found, s)
    PROVE  /\ PlacesOf(found, s) \in Seq(Nat) /\ Positions(PlacesOf(found, s)) = Positions(found)
           /\ \A i \in Positions(found) :
                  /\ At0(PlacesOf(found, s), i) = PlaceOf(s, At0(found, i))
                  /\ At0(PlacesOf(found, s), i) \in Positions(s)
                  /\ At0(s, At0(PlacesOf(found, s), i)) = At0(found, i)
           /\ \A i, j \in Positions(found) :
                  At0(PlacesOf(found, s), i) = At0(PlacesOf(found, s), j) => i = j
<1> DEFINE p == PlacesOf(found, s)
<1>1. found \in Seq(Nat) /\ IsInjective(found)
  BY DEF Found
<1>2. /\ Len(found) \in Nat /\ DOMAIN found = 1..Len(found)
      /\ Positions(found) = 0..(Len(found) - 1) /\ Positions(s) \in SUBSET Nat
  BY <1>1, RowsFacts, PositionFacts DEF Positions
<1>3. ASSUME NEW k \in 1..Len(found) PROVE PlaceOf(s, found[k]) \in Positions(s)
  <2>1. k - 1 \in Positions(found) /\ (k - 1) + 1 = k
    BY <1>2
  <2>2. PlaceOf(s, At0(found, k - 1)) \in Positions(s)
    BY <2>1 DEF Found
  <2> QED
    BY <2>1, <2>2 DEF At0
<1>4. p \in [1..Len(found) -> Nat]
  BY <1>2, <1>3 DEF PlacesOf
<1>5. p \in Seq(Nat) /\ Len(p) = Len(found)
  BY <1>2, <1>4
<1>6. \A i \in Positions(found) : At0(p, i) = PlaceOf(s, At0(found, i))
  <2>1. \A i \in Positions(found) : i + 1 \in DOMAIN found
    BY <1>2
  <2> QED
    BY <2>1 DEF At0, PlacesOf
<1> HIDE DEF p
<1>7. \A i \in Positions(found) :
          At0(p, i) \in Positions(s) /\ At0(s, At0(p, i)) = At0(found, i)
  BY <1>6 DEF Found
<1>8. \A i, j \in Positions(found) : At0(found, i) = At0(found, j) => i = j
  BY <1>1, DistinctEntries
<1>9. Positions(p) = Positions(found)
  BY <1>5 DEF Positions
<1> QED
  BY <1>5, <1>6, <1>7, <1>8, <1>9 DEF p

PlacesIn(p, s) == p \in Seq(Nat) /\ \A i \in Positions(p) : At0(p, i) \in Positions(s)

\* A row is renumbered to where its entry is now, or has no number any more.
LEMMA RenumberedIs ==
    ASSUME NEW s \in Seq(Nat), NEW S, NEW t \in Seq(Nat), NEW T,
           NEW c, Follows(c, s, S, t, T),
           NEW p, PlacesIn(p, s)
    PROVE  /\ Renumbered(p, c) \in Seq(Int) /\ Positions(Renumbered(p, c)) = Positions(p)
           /\ \A i \in Positions(p) :
                  \/ At0(Renumbered(p, c), i) = npos
                  \/ /\ At0(Renumbered(p, c), i) \in Positions(t)
                     /\ At0(t, At0(Renumbered(p, c), i)) = At0(s, At0(p, i))
<1> DEFINE D == c.deletions
           I == c.insertions
           now(row) == IF row \notin D THEN Shifted(c, row)
                       ELSE IF MoveFrom(c.moves, row) # 0 THEN c.moves[MoveFrom(c.moves, row)].to
                       ELSE npos
           q == Renumbered(p, c)
<1>1. /\ D \in SUBSET Nat /\ I \in SUBSET Nat /\ IsFiniteSet(D) /\ IsFiniteSet(I)
      /\ I \subseteq Positions(t) /\ c.moves \in Seq(MoveRecord)
      /\ MovesFit(c.moves, D, I, s, t) /\ Same(D, I, s, t)
  BY FollowsFacts
<1>2. /\ Len(p) \in Nat /\ DOMAIN p = 1..Len(p) /\ Positions(p) = 0..(Len(p) - 1)
      /\ Positions(t) \in SUBSET Nat /\ \A i \in Positions(p) : At0(p, i) \in Positions(s)
  <2>1. p \in Seq(Nat) /\ \A i \in Positions(p) : At0(p, i) \in Positions(s)
    BY DEF PlacesIn
  <2> QED
    BY <2>1, RowsFacts, PositionFacts DEF Positions
<1>3. q = [k \in DOMAIN p |-> now(p[k])]
  BY DEF Renumbered
<1>4. ASSUME NEW row \in Positions(s)
      PROVE  \/ now(row) = npos
             \/ now(row) \in Positions(t) /\ At0(t, now(row)) = At0(s, row)
  <2>1. CASE row \notin D
    <3>1. now(row) = shift(I, unshift(D, row))
      BY <2>1 DEF Shifted
    <3>2. \A i \in Positions(s) \ D :
              LET j == shift(I, unshift(D, i))
              IN  /\ j \in Positions(t) \ I /\ unshift(D, i) = unshift(I, j)
                  /\ At0(s, i) = At0(t, j)
      BY <1>1, SameFacts
    <3> QED
      BY <2>1, <3>1, <3>2
  <2>2. CASE row \in D /\ MoveFrom(c.moves, row) = 0
    BY <2>2
  <2>3. CASE row \in D /\ MoveFrom(c.moves, row) # 0
    <3> DEFINE k == MoveFrom(c.moves, row)
    <3>1. k \in DOMAIN c.moves /\ c.moves[k].from = row
      BY <1>1, <2>3, MoveFromIs
    <3>2. c.moves[k].to \in I /\ At0(s, c.moves[k].from) = At0(t, c.moves[k].to)
      BY <1>1, <3>1 DEF MovesFit
    <3>3. now(row) = c.moves[k].to
      BY <2>3
    <3> QED
      BY <1>1, <3>1, <3>2, <3>3
  <2> QED
    BY <2>1, <2>2, <2>3
<1> HIDE DEF now, q
<1>5. ASSUME NEW i \in Positions(p)
      PROVE  i + 1 \in DOMAIN p /\ At0(q, i) = now(At0(p, i))
  BY <1>2, <1>3 DEF At0
<1>6. ASSUME NEW i \in Positions(p)
      PROVE  \/ At0(q, i) = npos
             \/ At0(q, i) \in Positions(t) /\ At0(t, At0(q, i)) = At0(s, At0(p, i))
  BY <1>2, <1>4, <1>5
<1>7. q \in [1..Len(p) -> Int]
  <2>1. ASSUME NEW k \in 1..Len(p) PROVE now(p[k]) \in Int
    <3>1. k - 1 \in Positions(p) /\ (k - 1) + 1 = k
      BY <1>2
    <3>2. p[k] \in Positions(s)
      BY <1>2, <3>1 DEF At0
    <3> QED
      BY <1>2, <1>4, <3>2 DEF npos
  <2> QED
    BY <1>2, <1>3, <2>1
<1>8. q \in Seq(Int) /\ Len(q) = Len(p)
  <2>1. Len(p) \in Nat /\ DOMAIN q = 1..Len(p)
    BY <1>2, <1>7
  <2> QED
    BY <1>7, <2>1
<1>9. Positions(q) = Positions(p)
  BY <1>8 DEF Positions
<1> QED
  BY <1>6, <1>8, <1>9 DEF q

\* The results of before, renumbered, and those of now are numbered alike.
LEMMA ResultsNumbered ==
    ASSUME NEW s \in Seq(Nat), NEW S, NEW t \in Seq(Nat), NEW T,
           NEW c, Follows(c, s, S, t, T),
           NEW was, Found(was, s), NEW is, Found(is, t)
    PROVE  /\ Numbered(Renumbered(PlacesOf(was, s), c), PlacesOf(is, t))
           /\ NumberedBy(was, is, Renumbered(PlacesOf(was, s), c), PlacesOf(is, t))
<1> DEFINE p == PlacesOf(was, s)
           prev == Renumbered(p, c)
           next == PlacesOf(is, t)
<1>1. /\ p \in Seq(Nat) /\ Positions(p) = Positions(was)
      /\ \A i \in Positions(was) :
             At0(p, i) \in Positions(s) /\ At0(s, At0(p, i)) = At0(was, i)
  BY PlacesFacts
<1>2. /\ next \in Seq(Nat) /\ Positions(next) = Positions(is)
      /\ \A i \in Positions(is) :
             At0(next, i) \in Positions(t) /\ At0(t, At0(next, i)) = At0(is, i)
      /\ \A i, j \in Positions(is) : At0(next, i) = At0(next, j) => i = j
  BY PlacesFacts
<1>3. /\ prev \in Seq(Int) /\ Positions(prev) = Positions(p)
      /\ \A i \in Positions(p) :
             \/ At0(prev, i) = npos
             \/ At0(prev, i) \in Positions(t) /\ At0(t, At0(prev, i)) = At0(s, At0(p, i))
  <2>1. PlacesIn(p, s)
    BY <1>1 DEF PlacesIn
  <2> QED
    BY <2>1, RenumberedIs
<1> HIDE DEF p, prev, next
<1>4. /\ was \in Seq(Nat) /\ is \in Seq(Nat)
      /\ \A i, j \in Positions(was) : At0(was, i) = At0(was, j) => i = j
  <2>1. was \in Seq(Nat) /\ is \in Seq(Nat) /\ IsInjective(was)
    BY DEF Found
  <2> QED
    BY <2>1, DistinctEntries
<1>5. Positions(t) \in SUBSET Nat /\ npos \notin Positions(t)
  BY PositionFacts DEF npos
<1>6. \A i \in Positions(was) :
          At0(prev, i) # npos => At0(t, At0(prev, i)) = At0(was, i)
  BY <1>1, <1>3
<1>7. Numbered(prev, next)
  <2>1. next \in Seq(Int)
    BY <1>2, RowsFacts
  <2>2. \A i \in Positions(next) : At0(next, i) \in Nat
    BY <1>2, <1>5
  <2>3. \A w, v \in Positions(prev) :
            At0(prev, w) = At0(prev, v) /\ At0(prev, w) # npos => w = v
    BY <1>1, <1>3, <1>4, <1>6
  <2> QED
    BY <1>2, <1>3, <2>1, <2>2, <2>3 DEF Numbered
<1>8. NumberedBy(was, is, prev, next)
  <2>1. ASSUME NEW w \in Positions(prev), NEW i \in Positions(next), At0(prev, w) = At0(next, i)
        PROVE  At0(was, w) = At0(is, i)
    <3>1. At0(prev, w) # npos
      BY <1>2, <1>5, <2>1
    <3> QED
      BY <1>1, <1>2, <1>3, <1>6, <2>1, <3>1
  <2> QED
    BY <1>1, <1>2, <1>3, <1>4, <2>1 DEF NumberedBy
<1> QED
  BY <1>7, <1>8 DEF p, prev, next

\* No entry of s is later in t.
NeverLater(s, t) ==
    \A i \in Positions(s), j \in Positions(t) : At0(s, i) = At0(t, j) => j <= i

\* A row that is no insertion of c has its entry of before.
RowsStay(c, s, t) ==
    \A q \in Positions(t) \ c.insertions : q \in Positions(s) /\ At0(s, q) = At0(t, q)

\* Rows that are no insertions of c have stayed where they were, and the others have
\* come to the front: results in table order keep theirs but for the insertions.
LEMMA ResultsInOrder ==
    ASSUME NEW s \in Seq(Nat), IsInjective(s), NEW S, NEW t \in Seq(Nat), NEW T,
           NEW c, Follows(c, s, S, t, T), NeverLater(s, t),
           RowsStay(c, s, t),
           NEW was, Found(was, s), Ordered(was, s), NEW is, Found(is, t), Ordered(is, t)
    PROVE  InOrder(RowInfos(Renumbered(PlacesOf(was, s), c), PlacesOf(is, t)), c.insertions)
<1> DEFINE p == PlacesOf(was, s)
           prev == Renumbered(p, c)
           next == PlacesOf(is, t)
           rows == RowInfos(prev, next)
<1>1. Numbered(prev, next)
  BY ResultsNumbered
<1>2. /\ p \in Seq(Nat) /\ Positions(p) = Positions(was)
      /\ \A i \in Positions(was) :
             At0(p, i) = PlaceOf(s, At0(was, i)) /\ At0(p, i) \in Positions(s)
  BY PlacesFacts
<1>3. /\ next \in Seq(Nat) /\ Positions(next) = Positions(is)
      /\ \A i \in Positions(is) :
             At0(next, i) = PlaceOf(t, At0(is, i)) /\ At0(next, i) \in Positions(t)
  BY PlacesFacts
<1>4. /\ Positions(prev) = Positions(p)
      /\ \A i \in Positions(p) :
             \/ At0(prev, i) = npos
             \/ At0(prev, i) \in Positions(t) /\ At0(t, At0(prev, i)) = At0(s, At0(p, i))
  <2>1. PlacesIn(p, s)
    BY <1>2 DEF PlacesIn
  <2> HIDE DEF p
  <2>2. /\ prev \in Seq(Int) /\ Positions(prev) = Positions(p)
        /\ \A i \in Positions(p) :
               \/ At0(prev, i) = npos
               \/ /\ At0(prev, i) \in Positions(t)
                  /\ At0(t, At0(prev, i)) = At0(s, At0(p, i))
    BY <2>1, RenumberedIs
  <2> QED
    BY <2>2
<1>5. /\ was \in Seq(Nat) /\ is \in Seq(Nat)
      /\ Positions(s) \in SUBSET Nat /\ Positions(t) \in SUBSET Nat
      /\ Positions(was) \in SUBSET Nat /\ Positions(is) \in SUBSET Nat
  <2>1. was \in Seq(Nat) /\ is \in Seq(Nat)
    BY DEF Found
  <2> QED
    BY <2>1, PositionFacts
<1>6. Infos(rows, prev, next)
  BY <1>1, RowInfosIs
<1> HIDE DEF p, prev, next, rows
<1>7. \A k \in DOMAIN rows :
          /\ rows[k].was \in Positions(prev) /\ rows[k].is \in Positions(next)
          /\ rows[k].row \in Nat
          /\ At0(prev, rows[k].was) = rows[k].row /\ At0(next, rows[k].is) = rows[k].row
  BY <1>1, <1>6, InfoFacts DEF Infos
<1>8. \A k, l \in DOMAIN rows : k < l => rows[k].is < rows[l].is
  BY <1>6 DEF Infos
<1>9. ASSUME NEW k \in DOMAIN rows
      PROVE  /\ rows[k].was \in Positions(was) /\ rows[k].is \in Positions(is)
             /\ rows[k].row \in Positions(t)
             /\ At0(p, rows[k].was) \in Positions(s)
             /\ At0(s, At0(p, rows[k].was)) = At0(t, rows[k].row)
  <2>1. At0(prev, rows[k].was) # npos
    BY <1>7 DEF npos
  <2> QED
    BY <1>2, <1>3, <1>4, <1>7, <2>1
<1>10. ASSUME NEW k \in DOMAIN rows, NEW l \in DOMAIN rows, k < l, rows[k].row \notin c.insertions
       PROVE  rows[k].was < rows[l].was
  <2>1. At0(p, rows[k].was) = rows[k].row
    <3>1. rows[k].row \in Positions(s) /\ At0(s, rows[k].row) = At0(t, rows[k].row)
      BY <1>9, <1>10 DEF RowsStay
    <3>2. \A i, j \in Positions(s) : At0(s, i) = At0(s, j) => i = j
      BY DistinctEntries
    <3> QED
      BY <1>9, <3>1, <3>2
  <2>2. rows[k].row < rows[l].row
    <3>1. rows[k].is < rows[l].is
      BY <1>8, <1>10
    <3>2. PlaceOf(t, At0(is, rows[k].is)) < PlaceOf(t, At0(is, rows[l].is))
      BY <1>9, <3>1 DEF Ordered
    <3> QED
      BY <1>3, <1>7, <1>9, <3>2
  <2>3. rows[l].row <= At0(p, rows[l].was)
    BY <1>9 DEF NeverLater
  <2>4. /\ rows[k].row \in Nat /\ rows[l].row \in Nat
        /\ At0(p, rows[k].was) \in Nat /\ At0(p, rows[l].was) \in Nat
        /\ rows[k].was \in Nat /\ rows[l].was \in Nat
    BY <1>5, <1>7, <1>9
  <2>5. At0(p, rows[k].was) < At0(p, rows[l].was)
    BY <2>1, <2>2, <2>3, <2>4
  <2>6. ~(rows[l].was < rows[k].was)
    <3>1. SUFFICES ASSUME rows[l].was < rows[k].was PROVE FALSE
      OBVIOUS
    <3>2. PlaceOf(s, At0(was, rows[l].was)) < PlaceOf(s, At0(was, rows[k].was))
      BY <1>9, <3>1 DEF Ordered
    <3>3. At0(p, rows[l].was) < At0(p, rows[k].was)
      BY <1>2, <1>9, <3>2
    <3> QED
      BY <2>4, <2>5, <3>3
  <2>7. rows[k].was # rows[l].was
    BY <2>4, <2>5
  <2> QED
    BY <2>4, <2>6, <2>7
<1>11. InOrder(rows, c.insertions)
  BY <1>10 DEF InOrder
<1> QED
  BY <1>11 DEF rows, prev, next, p

LEMMA ParsedRowsStay ==
    ASSUME NEW b, NEW s \in Seq(Nat), NEW S, NEW t \in Seq(Nat), NEW T, TableFollows(b, s, S, t, T)
    PROVE  RowsStay(parse_complete(b), s, t)
<1>1. /\ b \in Builders
      /\ Positions(s) \ b.deletions = Positions(t) \ b.insertions
      /\ \A j \in Positions(t) \ b.insertions : At0(s, j) = At0(t, j)
      /\ \A k \in DOMAIN b.mapping :
             b.mapping[k] \in Positions(s) /\ At0(s, b.mapping[k]) = At0(t, k)
  BY DEF TableFollows, MappingFits, BuilderFits
<1>2. parse_complete(b).insertions
          = b.insertions \ {k \in DOMAIN b.mapping : b.mapping[k] = k}
  BY <1>1 DEF parse_complete, Builders
<1>3. ASSUME NEW q \in Positions(t), q \notin parse_complete(b).insertions
      PROVE  q \in Positions(s) /\ At0(s, q) = At0(t, q)
  <2>1. CASE q \notin b.insertions
    BY <1>1, <2>1
  <2>2. CASE q \in b.insertions
    <3>1. q \in DOMAIN b.mapping /\ b.mapping[q] = q
      BY <1>2, <1>3, <2>2
    <3> QED
      BY <1>1, <3>1
  <2> QED
    BY <2>1, <2>2
<1> QED
  BY <1>3 DEF RowsStay

-----------------------------------------------------------------------------
(* The order of a table                                                      *)

\* Entries are distinct, and rows of a table in table order only come to the front.
OldOrder == IsInjective(old) /\ (kind = "unsorted" => NeverLater(old, cur))

LEMMA OrderKept ==
    ASSUME OldOrder, NEW b, NEW u, Change(b, u), kind = "unsorted" => NeverLater(old, u)
    PROVE  OldOrder'
<1>1. kind' = kind /\ old' = old /\ cur' = u
  BY DEF Change
<1> QED
  BY <1>1 DEF OldOrder

LEMMA NeverLaterSame ==
    ASSUME NEW s \in Seq(Nat), IsInjective(s)
    PROVE  NeverLater(s, s)
<1>1. /\ Positions(s) \in SUBSET Nat
      /\ \A i, j \in Positions(s) : At0(s, i) = At0(s, j) => i = j
  BY PositionFacts, DistinctEntries
<1>2. \A i \in Nat : i <= i
  OBVIOUS
<1> QED
  BY <1>1, <1>2 DEF NeverLater

LEMMA OrderAtFirst == Init => OldOrder
<1> SUFFICES ASSUME Init PROVE OldOrder
  OBVIOUS
<1>1. PICK n \in 0..MaxLen : old = [k \in 1..n |-> k]
  BY DEF Init
<1>2. cur = old
  BY DEF Init
<1>3. n \in Nat
  BY BoundsAssumption, <1>1
<1>4. old \in Seq(Nat) /\ IsInjective(old)
  BY <1>1, <1>3, Told
<1> QED
  BY <1>2, <1>4, NeverLaterSame DEF OldOrder

LEMMA OrderDelivered ==
    ASSUME IInv, Deliver
    PROVE  OldOrder'
<1>1. cur \in Seq(Nat) /\ Len(cur) \in Nat /\ DOMAIN cur = 1..Len(cur)
  BY RowsFacts DEF IInv
<1>2. cur' = [k \in 1..Len(cur) |-> k] /\ old' = cur'
  BY <1>1 DEF Deliver
<1>3. cur' \in Seq(Nat) /\ IsInjective(cur')
  BY <1>1, <1>2, Told
<1> QED
  BY <1>2, <1>3, NeverLaterSame DEF OldOrder

LEMMA OrderInserted ==
    ASSUME IInv, OldOrder, Insert
    PROVE  OldOrder'
<1>1. PICK i \in (IF InTable THEN {Len(cur)} ELSE 0 .. Len(cur)) :
           Change(insert(building, i, 1), InsertAt(cur, i + 1, Unused))
  BY DEF Insert
<1>2. /\ cur \in Seq(Nat) /\ Len(cur) \in Nat /\ Len(cur) <= MaxLen
      /\ old \in Seq(Nat) /\ Len(old) <= MaxLen
  BY InvFacts DEF IInv
<1>3. Unused \in Nat /\ Unused \notin Entries(old)
  BY <1>2, FreshEntry
<1>4. ASSUME kind = "unsorted"
      PROVE  NeverLater(old, InsertAt(cur, i + 1, Unused))
  <2>1. i = Len(cur)
    BY <1>1, <1>4 DEF InTable
  <2> DEFINE e == Unused
             u == InsertAt(cur, i + 1, e)
  <2> HIDE DEF e
  <2>2. u \in Seq(Nat) /\ Longer(cur, i, u) /\ At0(u, i) = e
    <3>1. i \in 0..Len(cur) /\ e \in Nat
      BY <1>2, <1>3, <2>1 DEF e
    <3> QED
      BY <1>2, <3>1, InsertedEntry
  <2> HIDE DEF u
  <2>3. Len(u) = Len(cur) + 1 /\ \A j \in 0..(Len(cur) - 1) : At0(u, j) = At0(cur, j)
    BY <2>1, <2>2 DEF Longer
  <2>4. ASSUME NEW k \in Positions(old), NEW j \in Positions(u), At0(old, k) = At0(u, j)
        PROVE  j <= k
    <3>1. At0(old, k) \in Entries(old)
      BY <1>2, PositionFacts, RowsFacts DEF Entries, At0
    <3>2. j # Len(cur)
      BY <1>3, <2>1, <2>2, <2>4, <3>1 DEF e
    <3>3. j \in Positions(cur) /\ At0(u, j) = At0(cur, j)
      <4>1. j \in 0..(Len(u) - 1)
        BY DEF Positions
      <4>2. j \in 0..(Len(cur) - 1)
        BY <1>2, <2>3, <3>2, <4>1
      <4> QED
        BY <2>3, <4>2 DEF Positions
    <3> QED
      BY <1>4, <2>4, <3>3 DEF OldOrder, NeverLater
  <2>5. NeverLater(old, u)
    BY <2>4 DEF NeverLater
  <2> QED
    BY <2>5 DEF u, e
<1> QED
  BY <1>1, <1>4, OrderKept

LEMMA OrderErased ==
    ASSUME IInv, OldOrder, erase_rows
    PROVE  OldOrder'
<1>1. PICK i \in Rows : Change(move_over(building, i, Len(cur) - 1), MovedOver(cur, i))
  BY DEF erase_rows
<1>2. cur \in Seq(Nat) /\ Len(cur) \in Nat /\ i \in Positions(cur) /\ old \in Seq(Nat)
  BY InvFacts DEF IInv
<1> DEFINE u == MovedOver(cur, i)
           last == Len(cur) - 1
<1>3. /\ Positions(u) = Positions(cur) \ {last} /\ last \in Positions(cur)
      /\ \A j \in Positions(u) : At0(u, j) = IF j = i THEN At0(cur, last) ELSE At0(cur, j)
  BY <1>2, MovedOverRows
<1>4. Positions(cur) = 0..last /\ Positions(old) \in SUBSET Nat
  BY <1>2, PositionFacts DEF Positions
<1> HIDE DEF u, last
<1>5. ASSUME kind = "unsorted" PROVE NeverLater(old, u)
  <2>1. ASSUME NEW k \in Positions(old), NEW j \in Positions(u), At0(old, k) = At0(u, j)
        PROVE  j <= k
    <3>1. CASE j = i
      <4>1. last <= k
        BY <1>3, <1>5, <2>1, <3>1 DEF OldOrder, NeverLater
      <4>2. j \in 0..last /\ last \in 0..last /\ k \in Nat
        BY <1>3, <1>4
      <4> QED
        BY <4>1, <4>2
    <3>2. CASE j # i
      BY <1>3, <1>5, <2>1, <3>2 DEF OldOrder, NeverLater
    <3> QED
      BY <3>1, <3>2
  <2> QED
    BY <2>1 DEF NeverLater
<1>6. NeverLater(old, MovedOver(cur, i)) \/ kind # "unsorted"
  BY <1>5 DEF u
<1> QED
  BY <1>1, <1>6, OrderKept

\* Rows only change places where there is no query in table order.
LEMMA OrderElsewhere ==
    ASSUME OldOrder, kind # "unsorted", NEW b, NEW u, Change(b, u)
    PROVE  OldOrder'
BY OrderKept

LEMMA OrderSwapped ==
    ASSUME OldOrder, link_list_swap \/ swap_rows \/ merge_rows
    PROVE  OldOrder'
<1>1. CASE link_list_swap
  <2>1. kind # "unsorted" /\ \E b : Change(b, cur)
    BY <1>1 DEF link_list_swap
  <2> QED
    BY <2>1, OrderElsewhere
<1>2. CASE swap_rows
  <2>1. PICK i \in Rows, j \in Rows :
            /\ kind # "unsorted"
            /\ IF InTable THEN Change(swap(building, i, j), Swapped(cur, i, j))
               ELSE SwapInSubtable(i, j)
    BY <1>2 DEF swap_rows
  <2>2. \E b : Change(b, Swapped(cur, i, j))
    BY <2>1 DEF SwapInSubtable
  <2> QED
    BY <2>1, <2>2, OrderElsewhere
<1>3. CASE merge_rows
  <2>1. kind # "unsorted" /\ \E b, u : Change(b, u)
    BY <1>3 DEF merge_rows
  <2> QED
    BY <2>1, OrderElsewhere
<1> QED
  BY <1>1, <1>2, <1>3

LEMMA OrderInList ==
    ASSUME OldOrder, link_list_erase \/ link_list_move \/ link_list_clear
    PROVE  OldOrder'
<1>1. CASE link_list_erase
  <2>1. kind # "unsorted" /\ \E b, u : Change(b, u)
    BY <1>1 DEF link_list_erase
  <2> QED
    BY <2>1, OrderElsewhere
<1>2. CASE link_list_move
  <2>1. kind # "unsorted" /\ \E b, u : Change(b, u)
    BY <1>2 DEF link_list_move
  <2> QED
    BY <2>1, OrderElsewhere
<1>3. CASE link_list_clear
  <2>1. kind # "unsorted" /\ \E b, u : Change(b, u)
    BY <1>3 DEF link_list_clear
  <2> QED
    BY <2>1, OrderElsewhere
<1> QED
  BY <1>1, <1>2, <1>3

LEMMA OrderStepwise == IInv /\ OldOrder /\ [Next]_vars => OldOrder'
<1> SUFFICES ASSUME IInv, OldOrder, [Next]_vars PROVE OldOrder'
  OBVIOUS
<1>1. CASE Insert
  BY <1>1, OrderInserted
<1>2. CASE Modify
  <2>1. PICK b : Change(b, cur)
    BY <1>2 DEF Modify
  <2> QED
    BY <2>1, OrderKept DEF OldOrder
<1>3. CASE link_list_swap \/ swap_rows \/ merge_rows
  BY <1>3, OrderSwapped
<1>4. CASE link_list_erase \/ link_list_move \/ link_list_clear
  BY <1>4, OrderInList
<1>5. CASE erase_rows
  BY <1>5, OrderErased
<1>6. CASE clear_table
  <2>1. PICK b : Change(b, <<>>)
    BY <1>6 DEF clear_table
  <2>2. NeverLater(old, <<>>)
    <3>1. Positions(<<>>) = {}
      BY DEF Positions
    <3> QED
      BY <3>1 DEF NeverLater
  <2> QED
    BY <2>1, <2>2, OrderKept
<1>7. CASE Commit
  BY <1>7 DEF Commit, OldOrder
<1>8. CASE Deliver
  BY <1>8, OrderDelivered
<1>9. CASE UNCHANGED vars
  BY <1>9 DEF vars, OldOrder
<1> QED
  BY <1>1, <1>2, <1>3, <1>4, <1>5, <1>6, <1>7, <1>8, <1>9 DEF Next

\* The changes of a table that is read at once lead from what the observer knows to the
\* entries there are.
LEMMA ReadAtOnce ==
    ASSUME IInv, changes = Empty, InTable
    PROVE  \E was : Follows(Parsed(building), old, was, cur, touched)
                    /\ RowsStay(Parsed(building), old, cur)
<1>1. PICK mid, was : Leads(mid, was)
  BY DEF IInv
<1>2. /\ old \in Seq(Nat) /\ cur \in Seq(Nat) /\ mid \in Seq(Nat)
      /\ Follows(Empty, old, {}, mid, was)
  BY <1>1 DEF IInv, Leads
<1>3. mid = old
  BY <1>2, EmptyFollows
<1>4. TableFollows(building, old, was, cur, touched)
  BY <1>1, <1>3 DEF Leads, Fits, InTable
<1>5. Parsed(building) = parse_complete(building)
  BY DEF Parsed
<1>6. Follows(parse_complete(building), old, was, cur, touched)
  BY <1>2, <1>4, ParseFollows
<1>7. RowsStay(parse_complete(building), old, cur)
  BY <1>2, <1>4, ParsedRowsStay
<1> QED
  BY <1>5, <1>6, <1>7

LEMMA ResultsTurn ==
    ASSUME IInv, OldOrder, changes = Empty, InTable,
           NEW found \in Results(old), NEW now \in Results(cur)
    PROVE  Turns(calculate_changes(Parsed(building), found, now), found, now)
<1> DEFINE c == Parsed(building)
           prev == Renumbered(PlacesOf(found, old), c)
           next == PlacesOf(now, cur)
<1>1. old \in Seq(Nat) /\ cur \in Seq(Nat) /\ IsInjective(old) /\ IsInjective(cur)
  BY DEF IInv, OldOrder
<1>2. PICK was : Follows(c, old, was, cur, touched) /\ RowsStay(c, old, cur)
  BY ReadAtOnce
<1>3. calculate_changes(c, found, now)
          = calculate(prev, next, c.modifications, kind = "unsorted", c.insertions)
  BY DEF calculate_changes, PlacesOf
<1> HIDE DEF c
<1>4. /\ Found(found, old) /\ (kind = "unsorted" => Ordered(found, old))
      /\ Found(now, cur) /\ (kind = "unsorted" => Ordered(now, cur))
  BY <1>1, ResultsAre
<1>5. Numbered(prev, next) /\ NumberedBy(found, now, prev, next)
  BY <1>1, <1>2, <1>4, ResultsNumbered
<1>6. kind = "unsorted" => InOrder(RowInfos(prev, next), c.insertions)
  <2>1. ASSUME kind = "unsorted" PROVE InOrder(RowInfos(prev, next), c.insertions)
    <3>1. NeverLater(old, cur) /\ Ordered(found, old) /\ Ordered(now, cur)
      BY <1>4, <2>1 DEF OldOrder
    <3> QED
      BY <1>1, <1>2, <1>4, <3>1, ResultsInOrder
  <2> QED
    BY <2>1
<1> HIDE DEF prev, next
<1>7. (kind = "unsorted") \in BOOLEAN
  OBVIOUS
<1>8. Turns(calculate(prev, next, c.modifications, kind = "unsorted", c.insertions), found, now)
  BY <1>5, <1>6, <1>7, CalculateTurns
<1> QED
  BY <1>3, <1>8 DEF c

\* When the changes of a table are taken, what is calculated between what a query found
\* before and what it finds now turns the one into the other, whichever rows these are:
\* calculate renumbers them by the changes of the table, and in table order takes a row
\* for moved only if the table's changes say that it may have been
\* (ResultsNotifier::calculate_changes, CollectionChangeBuilder::calculate).
THEOREM QueryTurnsOldIntoNew == Spec => []ResultsTurnOldIntoNew
<1>1. Init => OldOrder
  BY OrderAtFirst
<1>2. IInv /\ OldOrder /\ [Next]_vars => OldOrder'
  BY OrderStepwise
<1>3. IInv /\ OldOrder => ResultsTurnOldIntoNew
  BY ResultsTurn DEF ResultsTurnOldIntoNew
<1> QED
  BY <1>1, <1>2, <1>3, Invariant, PTL DEF Spec

================================================================================
