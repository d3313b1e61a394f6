---------------------------- MODULE ChangeBuilder ----------------------------
(***************************************************************************)
(* CollectionChangeBuilder of the object store: how the changes of a list  *)
(* or of the rows of a table are collected while the transaction log is    *)
(* parsed, merged with those of later transactions, calculated between two *)
(* results of a query, and handed to a callback.                           *)
(*                                                                         *)
(* A builder is a record of three index sets, the moves in the order they  *)
(* were recorded, and m_move_mapping, from where a row is to where it was. *)
(* Indices count from zero.  The sets per column, which every operation    *)
(* treats as it treats modifications, are left out.                        *)
(***************************************************************************)
EXTENDS IndexSets, SequencesExt, FiniteSetsExt

CONSTANT MaxRows       \* more than any row there is; SIZE_MAX in the code

NoMapping == [i \in {} |-> npos]

Empty == [deletions |-> {}, insertions |-> {}, modifications |-> {},
          moves |-> <<>>, mapping |-> NoMapping]

empty(b) == b.deletions = {} /\ b.insertions = {} /\ b.modifications = {} /\ b.moves = <<>>

Move(from, to) == [from |-> from, to |-> to]
WithoutKey(f, k) == [x \in DOMAIN f \ {k} |-> f[x]]
With(f, k, v) == [x \in DOMAIN f \cup {k} |-> IF x = k THEN v ELSE f[x]]
MapMoves(moves, to(_)) == [k \in DOMAIN moves |-> [moves[k] EXCEPT !.to = to(@)]]

-----------------------------------------------------------------------------
(* Operations of every collection *)

modify(b, i) == [b EXCEPT !.modifications = add(@, i)]

insert(b, i, n) ==
    LET later(k) == IF k >= i THEN k + n ELSE k
        places == {later(k) : k \in DOMAIN b.mapping}
    IN  [deletions |-> b.deletions,
         insertions |-> insert_at(b.insertions, i, n),
         modifications |-> shift_for_insert_at(b.modifications, i, n),
         moves |-> MapMoves(b.moves, later),
         mapping |-> [p \in places |->
                        b.mapping[CHOOSE k \in DOMAIN b.mapping : later(k) = p]]]

MovesKept(b, i) == Chosen(b.moves, {k \in DOMAIN b.moves : b.moves[k].to # i})

erase(b, i) ==
    LET unshifted == erase_or_unshift(b.insertions, i)
    IN  [b EXCEPT
          !.deletions = IF unshifted = npos THEN @ ELSE add_shifted(@, unshifted),
          !.insertions = erase_at(@, i),
          !.modifications = erase_at(@, i),
          !.moves = MapMoves(MovesKept(b, i), LAMBDA k : IF k > i THEN k - 1 ELSE k)]

\* A table is cleared without its size: every row there might be is deleted.
clear(b, size) ==
    [Empty EXCEPT !.deletions =
        first(IF size = MaxRows THEN MaxRows
              ELSE size + Cardinality(b.deletions) - Cardinality(b.insertions))]

-----------------------------------------------------------------------------
(* Operations of lists *)

move(b, from, to) ==
    LET unshifted == erase_or_unshift(b.insertions, from)
        at(k) == IF k = from THEN to
                 ELSE IF k >= to /\ k < from THEN k + 1
                 ELSE IF k <= to /\ k > from THEN k - 1 ELSE k
        moved == \E k \in DOMAIN b.moves : b.moves[k].to = from
        fresh == ~moved /\ unshifted # npos
        rest == erase_at(b.modifications, from)
    IN  [b EXCEPT
          !.insertions = insert_at(erase_at(@, from), to, 1),
          !.deletions = IF fresh THEN add_shifted(@, unshifted) ELSE @,
          !.moves = MapMoves(@, at)
                      \o IF fresh THEN <<Move(shift(b.deletions, unshifted), to)>> ELSE <<>>,
          !.modifications = IF from \in @ THEN insert_at(rest, to, 1)
                            ELSE shift_for_insert_at(rest, to, 1)]

\* Moves that the rows around them have made no move leave the moves, the
\* deletions and the insertions, one after the other.
\* Mutation: a move is stale when it goes where it comes from.
StaleInPlace(c, m) == m.from = m.to

Stale(c, m) ==
    m.from - count(c.deletions, 0, m.from) = m.to - count(c.insertions, 0, m.to)

CleanMove(c, m) ==
    IF Stale(c, m)
    THEN [c EXCEPT !.deletions = remove(@, m.from, 1), !.insertions = remove(@, m.to, 1)]
    ELSE [c EXCEPT !.moves = Append(@, m)]

clean_up_stale_moves(b) == FoldLeft(CleanMove, [b EXCEPT !.moves = <<>>], b.moves)

-----------------------------------------------------------------------------
(* Operations of tables.  move_over removes a row and puts the last one in  *)
(* its place.                                                               *)

Replaced(S, row, last) ==
    IF last \in S THEN (S \ {last}) \cup {row} ELSE S \ {row}

move_over(b, row, last) ==
    LET unshifted == erase_or_unshift(b.insertions, row)
        row_is_insertion == row \in b.insertions
        last_is_insertion == last \in b.insertions
        moved_before == last_is_insertion /\ last \in DOMAIN b.mapping
        kept == IF row_is_insertion THEN WithoutKey(b.mapping, row) ELSE b.mapping
        left == remove(b.insertions, last, 1)
        last_was == shift(b.deletions, unshift(left, last))
        deletions == IF last_is_insertion THEN b.deletions ELSE add(b.deletions, last_was)
    IN  IF row = last
        THEN [b EXCEPT
               !.deletions = IF unshifted = npos THEN @ ELSE add_shifted(@, unshifted),
               !.insertions = @ \ {row},
               !.modifications = @ \ {row},
               !.mapping = WithoutKey(@, row)]
        ELSE [b EXCEPT
               !.modifications = Replaced(@, row, last),
               !.mapping = IF moved_before
                           THEN With(WithoutKey(@, last), row, @[last])
                           ELSE IF last_is_insertion THEN kept
                           ELSE With(kept, row, last_was),
               !.deletions = IF row_is_insertion THEN deletions
                             ELSE add_shifted(deletions, unshift(left, row)),
               !.insertions = IF row_is_insertion THEN left ELSE left \cup {row}]

\* A row that was not inserted becomes a deletion, and an insertion in the place
\* of the other; the later row first.
MovedTo(b, row, to) ==
    LET was == shift(b.deletions, unshift(b.insertions, row)) IN
    IF row \in b.insertions THEN b
    ELSE [b EXCEPT !.deletions = add(@, was),
                   !.insertions = add(@, row),
                   !.mapping = With(@, to, was)]

SwappedIn(S, one, two) ==
    IF one \in S <=> two \in S THEN S
    ELSE IF one \in S THEN (S \ {one}) \cup {two} ELSE (S \ {two}) \cup {one}

swap(b, row_1, row_2) ==
    LET one == Min({row_1, row_2})
        two == Max({row_1, row_2})
        is(k) == k \in DOMAIN b.mapping
        c == [b EXCEPT !.modifications = SwappedIn(@, one, two)]
        \* the move to `from` points to `to` instead
        update(from, to) ==
            MovedTo([c EXCEPT !.mapping = With(WithoutKey(@, from), to, @[from])],
                    to, from)
    IN  IF is(one) /\ is(two)
        THEN [c EXCEPT !.mapping = With(With(@, one, @[two]), two, @[one])]
        ELSE IF is(one) THEN update(one, two)
        ELSE IF is(two) THEN update(two, one)
        ELSE MovedTo(MovedTo(c, two, one), one, two)

\* The row at `old` goes on as the new insertion `new`.
subsume(b, old, new) ==
    [b EXCEPT
      !.modifications = IF old \in @ THEN add(@, new) ELSE @,
      !.mapping = IF old \in DOMAIN @ THEN With(WithoutKey(@, old), new, @[old])
                  ELSE IF old \in b.insertions THEN @
                  ELSE With(@, new, shift(b.deletions, unshift(b.insertions, old)))]

\* The mapping becomes moves in ascending order of where they come from.
parse_complete(b) ==
    LET still == {k \in DOMAIN b.mapping : b.mapping[k] = k}
        moves == ToSet(b.moves) \cup {Move(b.mapping[k], k) : k \in DOMAIN b.mapping \ still}
        froms == Increasing({m.from : m \in moves})
    IN  [b EXCEPT !.deletions = @ \ still, !.insertions = @ \ still,
                  !.moves = [k \in DOMAIN froms |-> CHOOSE m \in moves : m.from = froms[k]],
                  !.mapping = NoMapping]

-----------------------------------------------------------------------------
(* Merging with the changes of a later transaction *)

MoveFrom(moves, i) == SelectInSeq(moves, LAMBDA m : m.from = i)

\* The last move takes the place of the one that was used up.
TakenOut(moves, k) == RemoveAt(ReplaceAt(moves, k, Last(moves)), Len(moves))

\* One of the older moves: followed by a newer move of the same row, ended by a
\* deletion, or shifted.  a.moves are the newer moves not yet used.
MergeMove(b, c, a, m) ==
    LET k == MoveFrom(a.moves, m.to)
        n == a.moves[k]
    IN  IF k # 0
        THEN [old |-> Append(a.old, Move(m.from, n.to)),
              moves |-> TakenOut(a.moves, k),
              modified |-> IF n.from \in b.modifications THEN add(a.modified, n.to)
                           ELSE a.modified]
        ELSE IF m.to \in c.deletions THEN a
        ELSE [a EXCEPT !.old =
                Append(@, Move(m.from, shift(c.insertions, unshift(c.deletions, m.to))))]

\* Where the newer moves take rows that were modified before.
\* Mutation: they are forgotten.
FollowedNot(b, moves) == {}

Followed(b, moves) == {m.to : m \in {n \in ToSet(moves) : n.from \in b.modifications}}

\* The older moves brought up to date, and the newer ones that are left.
MergedMoves(b, c) ==
    LET all == [old |-> <<>>, moves |-> c.moves, modified |-> c.modifications] IN
    IF c.moves = <<>> /\ c.deletions = {} /\ c.insertions = {} THEN [all EXCEPT !.old = b.moves]
    ELSE FoldLeft(LAMBDA a, m : MergeMove(b, c, a, m), all, b.moves)

merge(b, c) ==
    LET a == MergedMoves(b, c)
        newer == Chosen(a.moves, {k \in DOMAIN a.moves : a.moves[k].from \notin b.insertions})
        merged ==
            [deletions |-> add_shifted_by(b.deletions, b.insertions, c.deletions),
             insertions |-> insert_at_all(erase_at_all(b.insertions, c.deletions), c.insertions),
             modifications |-> b.modifications,
             moves |-> a.old \o [k \in DOMAIN newer |->
                         [newer[k] EXCEPT !.from = shift(b.deletions, unshift(b.insertions, @))]],
             mapping |-> b.mapping]
    IN  IF empty(c) THEN b ELSE IF empty(b) THEN c
        ELSE [clean_up_stale_moves(merged) EXCEPT !.modifications =
                shift_for_insert_at_all(erase_at_all(@, c.deletions), c.insertions)
                  \cup a.modified \cup Followed(b, newer)]

\* The change set a callback gets: modifications numbered as before and as after.
finalize(b) ==
    [deletions |-> b.deletions,
     insertions |-> b.insertions,
     modifications |-> shift_for_insert_at_all(erase_at_all(b.modifications, b.insertions),
                                               b.deletions),
     modifications_new |-> b.modifications \ b.insertions,
     moves |-> b.moves]
=============================================================================
