--------------------------- MODULE ChunkedRanges ---------------------------
(***************************************************************************)
(* The representation behind IndexSet (index_set.cpp): the indices as      *)
(* half-open ranges <<first, second>> in ascending order, the ranges in    *)
(* chunks of at most MaxSize, and each chunk with the first index, the end *)
(* and the number of indices of its ranges kept beside them.  A position   *)
(* <<o, k>> is the k-th range of the o-th chunk, End(v) the one after the  *)
(* last.  The operations that walk the ranges update them in place, the    *)
(* ones that take a set rebuild them with a ChunkedRangeVectorBuilder.     *)
(* A set given as an argument is only read in ascending order, so it is a  *)
(* set here.                                                               *)
(***************************************************************************)
EXTENDS Integers, Sequences, SequencesExt, FiniteSetsExt

CONSTANT MaxSize       \* ranges in a chunk: 256 in a release, 4 in a debug build

ASSUME MaxSizeAssumption == MaxSize \in Nat \ {0} /\ MaxSize % 2 = 0

Ref == INSTANCE IndexSets

Chunk(data) ==
    [data |-> data, begin |-> data[1][1], end |-> Last(data)[2],
     count |-> FoldLeft(LAMBDA n, r : n + r[2] - r[1], 0, data)]

-----------------------------------------------------------------------------
(* Positions *)

Begin == <<1, 1>>
End(v) == <<Len(v) + 1, 1>>
At(v, it) == v[it[1]].data[it[2]]
Next1(v, it) ==
    IF it[2] < Len(v[it[1]].data) THEN <<it[1], it[2] + 1>> ELSE <<it[1] + 1, 1>>
Prev1(v, it) ==
    IF it[2] > 1 THEN <<it[1], it[2] - 1>> ELSE <<it[1] - 1, Len(v[it[1] - 1].data)>>

\* set, adjust and shift of the mutable iterator keep the chunk's bounds and
\* count beside the range they change.
Set(v, it, front, back) ==
    LET c == v[it[1]]
        old == At(v, it)
    IN  [v EXCEPT ![it[1]] =
          [data |-> [c.data EXCEPT ![it[2]] = <<front, back>>],
           begin |-> IF it[2] = 1 THEN front ELSE c.begin,
           end |-> IF it[2] = Len(c.data) THEN back ELSE c.end,
           count |-> c.count - (old[2] - old[1]) + (back - front)]]

Adjust(v, it, front, back) == Set(v, it, At(v, it)[1] + front, At(v, it)[2] + back)

\* The shift of every range from `it` on.
ShiftFrom(v, it, n) ==
    LET first(o) == IF o = it[1] THEN it[2] ELSE 1
        moved(o) ==
            LET k == first(o)
                data == SubSeq(v[o].data, 1, k - 1)
                          \o [j \in 1 .. (Len(v[o].data) - k + 1) |->
                                <<v[o].data[k + j - 1][1] + n, v[o].data[k + j - 1][2] + n>>]
            IN  [data |-> data, begin |-> IF k = 1 THEN v[o].begin + n ELSE v[o].begin,
                 end |-> v[o].end + n, count |-> v[o].count]
    IN  SubSeq(v, 1, it[1] - 1)
          \o [j \in 1 .. (Len(v) - it[1] + 1) |-> moved(it[1] + j - 1)]

-----------------------------------------------------------------------------
(* Inserting and erasing ranges *)

PushBack(v, r) ==
    IF v # <<>> /\ Len(Last(v).data) < MaxSize
    THEN [v EXCEPT ![Len(v)] =
            [data |-> Append(@.data, r), begin |-> @.begin, end |-> r[2],
             count |-> @.count + r[2] - r[1]]]
    ELSE Append(v, Chunk(<<r>>))

\* A full chunk gives its second half to a new one.
EnsureSpace(v, pos) ==
    LET c == v[pos[1]]
        half == MaxSize \div 2
        kept == SubSeq(c.data, 1, Len(c.data) - half)
        moved == Chunk(SubSeq(c.data, Len(c.data) - half + 1, Len(c.data)))
        prev == [data |-> kept, begin |-> c.begin, end |-> Last(kept)[2],
                 count |-> c.count - moved.count]
    IN  IF Len(c.data) + 1 <= MaxSize THEN [v |-> v, it |-> pos]
        ELSE [v |-> SubSeq(v, 1, pos[1] - 1) \o <<prev, moved>>
                      \o SubSeq(v, pos[1] + 1, Len(v)),
              it |-> IF pos[2] - 1 >= half THEN <<pos[1] + 1, pos[2] - half>> ELSE pos]

Insert(v, pos, r) ==
    IF pos = End(v)
    THEN LET w == PushBack(v, r) IN [v |-> w, it |-> Prev1(w, End(w))]
    ELSE LET s == EnsureSpace(v, pos)
             o == s.it[1]
         IN  [v |-> [s.v EXCEPT ![o] =
                      [data |-> InsertAt(@.data, s.it[2], r),
                       begin |-> Min({@.begin, r[1]}), end |-> Max({@.end, r[2]}),
                       count |-> @.count + r[2] - r[1]]],
              it |-> s.it]

Erase(v, pos) ==
    LET o == pos[1]
        c == v[o]
        left == RemoveAt(c.data, pos[2])
    IN  IF left = <<>> THEN [v |-> RemoveAt(v, o), it |-> <<o, 1>>]
        ELSE [v |-> [v EXCEPT ![o] =
                      [data |-> left, begin |-> left[1][1], end |-> Last(left)[2],
                       count |-> c.count - (At(v, pos)[2] - At(v, pos)[1])]],
              it |-> IF pos[2] <= Len(left) THEN pos ELSE <<o + 1, 1>>]

-----------------------------------------------------------------------------
(* The range that contains an index, or the first one after it *)

FindFrom(v, i, from) ==
    LET after == {o \in from[1] .. Len(v) : v[o].end > i} IN
    IF after = {} THEN End(v)
    ELSE LET o == Min(after)
             start == IF o = from[1] THEN from[2] ELSE 1
         IN  IF i < v[o].begin THEN <<o, 1>>
             ELSE <<o, Min({k \in start .. Len(v[o].data) : v[o].data[k][2] > i})>>

Find(v, i) == FindFrom(v, i, Begin)

Contains1(v, i) == LET it == Find(v, i) IN it # End(v) /\ At(v, it)[1] <= i

-----------------------------------------------------------------------------
(* Adding *)

DoAdd(v, it, i) ==
    LET before == it # Begin
        valid == it # End(v)
        prev == Prev1(v, it)
        grown == Adjust(v, prev, 0, 1)
    IN  IF valid /\ At(v, it)[1] <= i /\ At(v, it)[2] > i THEN [v |-> v, it |-> it]
        ELSE IF before /\ At(v, prev)[2] = i
        THEN IF valid /\ At(grown, prev)[2] = At(v, it)[1]
             THEN LET e == Erase(Adjust(grown, prev, 0, At(v, it)[2] - At(v, it)[1]), it)
                  IN  [v |-> e.v, it |-> Prev1(e.v, e.it)]
             ELSE [v |-> grown, it |-> prev]
        ELSE IF valid /\ At(v, it)[1] = i + 1
        THEN [v |-> Adjust(v, it, -1, 0), it |-> it]
        ELSE Insert(v, it, <<i, i + 1>>)

Add(v, i) == DoAdd(v, Find(v, i), i).v

AddAll(v, S) ==
    FoldLeft(LAMBDA a, i : DoAdd(a.v, FindFrom(a.v, i, a.it), i),
             [v |-> v, it |-> Begin], Ref!Increasing(S)).v

RECURSIVE PassChunks(_, _, _), PassRanges(_, _, _)
PassChunks(v, it, i) ==
    IF it = End(v) \/ v[it[1]].end > i THEN PassRanges(v, it, i)
    ELSE PassChunks(v, <<it[1] + 1, 1>>, i + v[it[1]].count)
PassRanges(v, it, i) ==
    IF it = End(v) \/ At(v, it)[1] > i THEN [it |-> it, index |-> i]
    ELSE PassRanges(v, Next1(v, it), i + At(v, it)[2] - At(v, it)[1])

AddShifted(v, i) ==
    LET p == PassChunks(v, Begin, i) IN
    [v |-> DoAdd(v, p.it, p.index).v, index |-> p.index]

-----------------------------------------------------------------------------
(* The builder.  A chunk past the ones it has reserved is given the count 1, *)
(* whatever the length of the range it begins with.                          *)

Builder(v) ==
    [chunks |-> <<>>,
     reserved |-> FoldLeft(LAMBDA n, c : n + Len(c.data), 0, v) \div MaxSize + 1]

Push(b, r) ==
    LET n == Len(b.chunks)
        c == Last(b.chunks)
        joined == IF r[1] = c.end
                  THEN [c.data EXCEPT ![Len(c.data)] = <<@[1], r[2]>>]
                  ELSE Append(c.data, r)
    IN  IF n = 0 THEN [b EXCEPT !.chunks = <<Chunk(<<r>>)>>]
        ELSE IF Len(joined) <= MaxSize
        THEN [b EXCEPT !.chunks[n] =
                [data |-> joined, begin |-> c.begin, end |-> r[2],
                 count |-> c.count + r[2] - r[1]]]
        ELSE [b EXCEPT !.chunks =
                Append(@, IF n < b.reserved THEN Chunk(<<r>>)
                          ELSE [Chunk(<<r>>) EXCEPT !.count = 1])]

PushIndex(b, i) == Push(b, <<i, i + 1>>)
PushAll(b, s) == FoldLeft(PushIndex, b, s)

Indices(v) == UNION {r[1] .. (r[2] - 1) : r \in UNION {ToSet(v[o].data) : o \in DOMAIN v}}

\* The walks over two sets in ascending order, as the indices they push.
RECURSIVE InsertWalk(_, _, _, _)
InsertWalk(own, other, shift, keep) ==
    IF own = <<>> THEN IF keep THEN other ELSE <<>>
    ELSE IF other = <<>> \/ Head(own) + shift < Head(other)
    THEN <<Head(own) + shift>> \o InsertWalk(Tail(own), other, shift, keep)
    ELSE (IF keep THEN <<Head(other)>> ELSE <<>>)
           \o InsertWalk(own, Tail(other), shift + 1, keep)

RECURSIVE EraseWalk(_, _, _)
EraseWalk(own, other, shift) ==
    IF own = <<>> THEN <<>>
    ELSE IF other = <<>> \/ Head(own) < Head(other)
    THEN <<Head(own) - shift>> \o EraseWalk(Tail(own), other, shift)
    ELSE EraseWalk(IF Head(own) = Head(other) THEN Tail(own) ELSE own,
                   Tail(other), shift + 1)

InsertAtAll(v, S) ==
    IF S = {} THEN v
    ELSE IF v = <<>> THEN PushAll(Builder(v), Ref!Increasing(S)).chunks
    ELSE PushAll(Builder(v),
                 InsertWalk(Ref!Increasing(Indices(v)), Ref!Increasing(S), 0, TRUE)).chunks

ShiftForInsertAtAll(v, S) ==
    IF v = <<>> \/ S = {} \/ Min(S) >= Last(v).end THEN v
    ELSE PushAll(Builder(v),
                 InsertWalk(Ref!Increasing(Indices(v)), Ref!Increasing(S), 0, FALSE)).chunks

EraseAtAll(v, S) ==
    IF v = <<>> \/ S = {} THEN v
    ELSE PushAll(Builder(v),
                 EraseWalk(Ref!Increasing(Indices(v)), Ref!Increasing(S), 0)).chunks

\* The old ranges that begin at or before the place of the next value are
\* pushed index by index, the rest, after the last value, range by range.
RECURSIVE PushOlder(_, _, _)
PushOlder(a, v, place) ==
    IF a.it = End(v) \/ At(v, a.it)[1] > place + a.shift THEN a
    ELSE LET r == At(v, a.it) IN
         PushOlder([b |-> PushAll(a.b, [k \in 1 .. (r[2] - r[1]) |-> r[1] + k - 1]),
                    it |-> Next1(v, a.it), shift |-> a.shift + r[2] - r[1]], v, place)

RECURSIVE PushRest(_, _, _)
PushRest(b, v, it) ==
    IF it = End(v) THEN b ELSE PushRest(Push(b, At(v, it)), v, Next1(v, it))

AddShiftedBy(v, by, values) ==
    LET place(i) == i - Cardinality({x \in by : x < i})
        step(a, i) == LET c == PushOlder(a, v, place(i)) IN
                      [c EXCEPT !.b = PushIndex(@, place(i) + c.shift)]
        all == FoldLeft(step, [b |-> Builder(v), it |-> Begin, shift |-> 0],
                        Ref!Increasing(values \ by))
    IN  IF values = {} THEN v ELSE PushRest(all.b, v, all.it).chunks

-----------------------------------------------------------------------------
(* Inserting, erasing and removing in place *)

InsertAt1(v, i, n) ==
    LET pos == Find(v, i) IN
    IF pos # End(v) /\ At(v, pos)[1] <= i
    THEN ShiftFrom(Adjust(v, pos, 0, n), Next1(v, pos), n)
    ELSE FoldLeft(LAMBDA a, k : LET d == DoAdd(a.v, a.it, i + k - 1)
                                IN [v |-> d.v, it |-> Next1(d.v, d.it)],
                  [v |-> ShiftFrom(v, pos, n), it |-> pos], [k \in 1 .. n |-> k]).v

ShiftForInsertAt(v, i, n) ==
    LET it == Find(v, i)
        moved == ShiftFrom(v, it, n)
        old == At(moved, it)
    IN  IF it = End(v) THEN v
        ELSE IF old[1] >= i + n THEN moved
        ELSE LET w == Set(moved, it, old[1] - n, i)
             IN  Insert(w, Next1(w, it), <<i + n, old[2]>>).v

\* Mutation: the ranges on both sides of an erased gap are not joined.
DoEraseApart(v, it, i) ==
    LET r == At(v, it)
        e == IF r[1] <= i
             THEN IF r[1] + 1 = r[2] THEN Erase(v, it)
                  ELSE [v |-> Adjust(v, it, 0, -1), it |-> Next1(v, it)]
             ELSE [v |-> v, it |-> it]
    IN  ShiftFrom(e.v, e.it, -1)

\* Mutation: the index goes, and what is behind it stays in its place.
DoEraseKeepingPlaces(v, it, i) ==
    LET r == At(v, it) IN
    IF r[1] > i THEN v
    ELSE IF r[1] + 1 = r[2] THEN Erase(v, it).v ELSE Adjust(v, it, 0, -1)

DoErase(v, it, i) ==
    LET r == At(v, it)
        prev == Prev1(v, it)
        e == IF r[1] <= i
             THEN IF r[1] + 1 = r[2] THEN Erase(v, it)
                  ELSE [v |-> Adjust(v, it, 0, -1), it |-> Next1(v, it)]
             ELSE IF it # Begin /\ At(v, prev)[2] + 1 = r[1]
             THEN Erase(Adjust(v, prev, 0, r[2] - r[1]), it)
             ELSE [v |-> v, it |-> it]
    IN  ShiftFrom(e.v, e.it, -1)

EraseAt(v, i) == LET it == Find(v, i) IN IF it = End(v) THEN v ELSE DoErase(v, it, i)

RECURSIVE PassChunksDown(_, _, _, _), PassRangesDown(_, _, _, _)
PassChunksDown(v, it, i, shifted) ==
    IF it = End(v) \/ v[it[1]].end > i THEN PassRangesDown(v, it, i, shifted)
    ELSE PassChunksDown(v, <<it[1] + 1, 1>>, i, shifted - v[it[1]].count)
PassRangesDown(v, it, i, shifted) ==
    IF it = End(v) \/ At(v, it)[2] > i THEN [it |-> it, shifted |-> shifted]
    ELSE PassRangesDown(v, Next1(v, it), i, shifted - (At(v, it)[2] - At(v, it)[1]))

EraseOrUnshift(v, i) ==
    LET p == PassChunksDown(v, Begin, i, i) IN
    IF p.it = End(v) THEN [v |-> v, index |-> p.shifted]
    ELSE [v |-> DoErase(v, p.it, i),
          index |-> IF At(v, p.it)[1] <= i THEN Ref!npos ELSE p.shifted]

RECURSIVE DoRemove(_, _, _, _)
DoRemove(v, from, begin, end) ==
    LET it == FindFrom(v, begin, from)
        r == At(v, it)
        cut == Max({r[1], begin})
        split == Set(v, it, r[1], cut)
        ins == Insert(split, Next1(split, it), <<end, r[2]>>)
    IN  IF it = End(v) \/ r[1] >= end THEN [v |-> v, it |-> it]
        ELSE IF r[1] < cut /\ r[2] > end
        THEN DoRemove(ins.v, Prev1(ins.v, ins.it), cut, end)
        ELSE IF cut = r[1] /\ end >= r[2]
        THEN LET e == Erase(v, it) IN DoRemove(e.v, e.it, cut, end)
        ELSE IF cut = r[1] THEN DoRemove(Set(v, it, end, r[2]), it, cut, end)
        ELSE DoRemove(split, it, cut, end)

Remove1(v, i, n) == DoRemove(v, Find(v, i), i, i + n).v

\* Range by range; ranges are runs of consecutive indices.
Runs(S) == {r \in S \X {x + 1 : x \in S} :
              r[1] < r[2] /\ r[1] .. (r[2] - 1) \subseteq S /\ r[1] - 1 \notin S /\ r[2] \notin S}

RemoveAll(v, S) ==
    FoldLeft(LAMBDA a, r : IF a.it = End(a.v) THEN a ELSE DoRemove(a.v, a.it, r[1], r[2]),
             [v |-> v, it |-> Begin],
             SetToSortSeq(Runs(S), LAMBDA a, b : a[1] < b[1])).v

-----------------------------------------------------------------------------
(* Counting.  The rest of the first chunk is counted range by range unless it *)
(* is counted from its beginning, whole chunks by their counts, and the last  *)
(* chunk range by range again, its last range in part.                        *)

Below(data, to) ==
    FoldLeft(LAMBDA n, r : n + Max({r[1], Min({r[2], to})}) - r[1], 0, data)

CountChunks(v, o, to) ==
    LET whole == {p \in o .. Len(v) : v[p].end <= to}
        partial == o + Cardinality(whole)
    IN  FoldSet(LAMBDA p, n : n + v[p].count, 0, whole)
        + IF partial > Len(v) THEN 0 ELSE Below(v[partial].data, to)

Count(v, from, to) ==
    LET it == Find(v, from)
        r == At(v, it)
        data == v[it[1]].data
        full == {k \in it[2] + 1 .. Len(data) : data[k][2] < to}
        n == r[2] - Max({r[1], from}) + FoldSet(LAMBDA k, m : m + data[k][2] - data[k][1], 0, full)
        last == it[2] + Cardinality(full)
        next == Next1(v, <<it[1], last>>)
    IN  IF it = End(v) \/ r[1] >= to THEN 0
        ELSE IF r[2] >= to THEN Min({r[2], to}) - Max({r[1], from})
        ELSE IF from <= r[1] /\ it[2] = 1 THEN CountChunks(v, it[1], to)
        ELSE IF next = End(v) THEN n
        ELSE IF next[2] # 1 THEN n + Below(<<At(v, next)>>, to)
        ELSE IF At(v, next)[2] >= to THEN n
        ELSE n + CountChunks(v, next[1], to)

Unshift(v, i) == i - Count(v, 0, i)

\* Mutation: an index that lands on the first of a range stays there.
ShiftOnto(v, i) ==
    FoldLeft(LAMBDA j, c : FoldLeft(LAMBDA n, r : IF r[1] >= n THEN n ELSE n + r[2] - r[1],
                                    j, c.data), i, v)

Shift(v, i) ==
    FoldLeft(LAMBDA j, c : FoldLeft(LAMBDA n, r : IF r[1] > n THEN n ELSE n + r[2] - r[1],
                                    j, c.data), i, v)
=============================================================================
