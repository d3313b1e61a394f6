----------------------------- MODULE ResultsDiff -----------------------------
(***************************************************************************)
(* CollectionChangeBuilder::calculate: the change set that turns the rows  *)
(* of a query result into its next rows.  prev and next are sequences of   *)
(* row numbers in the table without repetition, prev as the rows are       *)
(* numbered now, with npos for a row that was deleted.                     *)
(***************************************************************************)
EXTENDS ChangeBuilder

None == -2
PlaceOf(s, row) == SelectInSeq(s, LAMBDA x : x = row) - 1

\* The rows present in both, in the order of next: their number, where they were,
\* where they are, and where they would be with only the deleted rows gone.
RowInfos(prev, next) ==
    LET info(i) ==
            LET row == At0(next, i)
                was == PlaceOf(prev, row)
            IN  [row |-> row, was |-> was, is |-> i,
                 shifted |-> was - Cardinality({k \in 0 .. (was - 1) : At0(prev, k) = npos})]
        all == [k \in DOMAIN next |-> info(k - 1)]
    IN  Chosen(all, {k \in DOMAIN next : all[k].was >= 0})

-----------------------------------------------------------------------------
(* Rows in table order: a row that may have moved and is not where the rows  *)
(* gone and come before it put it is a move.                                  *)

MoveUnsorted(candidates, a, r) ==
    LET expected == r.is - count(a.insertions, 0, r.is) + count(a.removed, 0, r.was) IN
    IF r.shifted = a.expected THEN [a EXCEPT !.expected = @ + 1]
    ELSE IF r.row \notin candidates THEN [a EXCEPT !.expected = r.shifted + 1]
    ELSE IF r.shifted = expected THEN [a EXCEPT !.expected = expected + 1]
    ELSE [a EXCEPT !.moves = Append(@, Move(r.was, r.is)),
                   !.insertions = @ \cup {r.is},
                   !.removed = @ \cup {r.was}]

-----------------------------------------------------------------------------
(* Sorted rows: the longest matching blocks stay, the others are deletions    *)
(* and insertions.  A block of `size` rows begins at i of a, where the rows    *)
(* were, and at j of b, where they are; of equal blocks the one with fewer     *)
(* modified rows is taken.  A range that begins below zero wraps and is empty. *)

Block(i, j, size, modified) == [i |-> i, j |-> j, size |-> size, modified |-> modified]

\* The row at i of a, and the blocks that end with it and with the rows before it.
NextRow(a, b, modified, r, x, i) ==
    LET within(from, to) == IF from < 0 THEN 0 ELSE count(modified, from, to)
        j == PlaceOf(b, At0(a, i))
        size == IF x.j + 1 = j THEN x.size + 1 ELSE 1
        \* of the best block the code counts the rows up to its first
        was == IF x.best.modified # npos THEN x.best.modified
               ELSE within(x.best.j - size + 1, x.best.j + 1)
        is == within(j - size + 1, j + 1)
        here(n) == Block(i - size + 1, j - size + 1, size, n)
    IN  IF j < r.begin2 \/ j >= r.end2 THEN [x EXCEPT !.j = None, !.size = 0]
        ELSE [j |-> j, size |-> size,
              best |-> IF size > x.best.size THEN here(npos)
                       ELSE IF size = x.best.size /\ is < was THEN here(is)
                       ELSE x.best]

find_longest_match(a, b, modified, r) ==
    FoldLeft(LAMBDA x, i : NextRow(a, b, modified, r, x, i),
             [j |-> None, size |-> 0, best |-> Block(r.begin1, r.begin2, 0, 0)],
             [k \in 1 .. (r.end1 - r.begin1) |-> r.begin1 + k - 1]).best

\* The rows begin1 .. end1 - 1 of a and begin2 .. end2 - 1 of b.
Ranges(a) == [begin1 : Positions(a), end1 : 0 .. Len(a), begin2 : Positions(a), end2 : 0 .. Len(a)]

\* The matches on both sides of a match m in the range r, as `matches` has them.
Around(matches, r, m) ==
    (IF m.i > r.begin1 /\ m.j > r.begin2
     THEN matches[[r EXCEPT !.end1 = m.i, !.end2 = m.j]] ELSE {})
    \cup
    (IF m.i + m.size < r.end2 /\ m.j + m.size < r.end2
     THEN matches[[r EXCEPT !.begin1 = m.i + m.size, !.begin2 = m.j + m.size]] ELSE {})

find_longest_matches(a, b, modified, from) ==
    LET matches[r \in Ranges(a)] ==
            LET m == find_longest_match(a, b, modified, r) IN
            IF m.size = 0 THEN {} ELSE {m} \cup Around(matches, r, m)
    IN  matches[[begin1 |-> from, end1 |-> Len(a), begin2 |-> from, end2 |-> Len(a)]]

\* The rows outside the matches, from `begin` on: those of byWas, which is in the
\* order of where rows were, go, and those of rows, which is in the new order, come.
Outside(byWas, rows, begin, matches) ==
    LET out(at(_)) == begin .. (Len(rows) - 1)
                        \ UNION {at(m) .. (at(m) + m.size - 1) : m \in matches}
    IN  [deletions |-> {At0(byWas, k).was : k \in out(LAMBDA m : m.i)},
         insertions |-> {At0(rows, k).is : k \in out(LAMBDA m : m.j)}]

Numbers(rows) == [k \in DOMAIN rows |-> rows[k].row]

\* The rows in the order of where they were.
ByWas(rows) ==
    LET at == Increasing({r.was : r \in ToSet(rows)}) IN
    [k \in DOMAIN at |-> CHOOSE r \in ToSet(rows) : r.was = at[k]]

UnmatchedFrom(byWas, rows, differ, modified) ==
    IF differ = {} THEN [deletions |-> {}, insertions |-> {}]
    ELSE Outside(byWas, rows, Min(differ),
                 find_longest_matches(Numbers(byWas), Numbers(rows), modified, Min(differ)))

Unmatched(byWas, rows, modified) ==
    UnmatchedFrom(byWas, rows, {k \in Positions(rows) : At0(byWas, k).row # At0(rows, k).row},
                  modified)

-----------------------------------------------------------------------------
\* `gone` rows were deleted, `removed` ones no longer match the query.
Unsorted(rows, gone, removed, inserted, modified, candidates) ==
    LET a == FoldLeft(LAMBDA x, r : MoveUnsorted(candidates, x, r),
                      [expected |-> 0, moves |-> <<>>, insertions |-> inserted,
                       removed |-> removed], rows)
    IN  [Empty EXCEPT !.deletions = gone \cup a.removed, !.insertions = a.insertions,
                      !.modifications = modified, !.moves = a.moves]

Sorted(rows, gone, removed, inserted, modified) ==
    LET a == Unmatched(ByWas(rows), rows, modified)
    IN  [Empty EXCEPT !.deletions = gone \cup removed \cup a.deletions,
                      !.insertions = inserted \cup a.insertions,
                      !.modifications = modified]

Calculated(rows, gone, removed, inserted, changed, tableOrder, candidates) ==
    LET modified == {r.is : r \in {s \in ToSet(rows) : s.row \in changed}} IN
    IF tableOrder THEN Unsorted(rows, gone, removed, inserted, modified, candidates)
    ELSE Sorted(rows, gone, removed, inserted, modified)

\* tableOrder: neither sorted nor from a list, so that candidates may be used.
calculate(prev, next, changed, tableOrder, candidates) ==
    LET kept == {i \in Positions(prev) : At0(prev, i) # npos} IN
    Calculated(RowInfos(prev, next),
               Positions(prev) \ kept,
               {i \in kept : PlaceOf(next, At0(prev, i)) < 0},
               {i \in Positions(next) : PlaceOf(prev, At0(next, i)) < 0},
               changed, tableOrder, candidates)

\* Mutation: rows are renumbered for the insertions only.
ShiftedOnly(c, row) == shift(c.insertions, row)

Shifted(c, row) == shift(c.insertions, unshift(c.deletions, row))

\* The rows of the last result as the changes of the table number them now, or npos.
\* The moves are in ascending order, and the code finds one by bisection.
Renumbered(prev, c) ==
    LET now(row) ==
            LET k == MoveFrom(c.moves, row) IN
            IF row \notin c.deletions THEN Shifted(c, row)
            ELSE IF k # 0 THEN c.moves[k].to ELSE npos
    IN  [k \in DOMAIN prev |-> now(prev[k])]
=============================================================================
