--------------------------- MODULE ChunkedIndexSet ---------------------------
(***************************************************************************)
(* An IndexSet of the object store going through its operations, the       *)
(* chunks of the code beside the set they stand for: each action runs an   *)
(* operation of ChunkedRanges on `chunks` and the operation of IndexSets   *)
(* it implements on `members`.                                             *)
(*                                                                         *)
(* A set with a miscounted chunk is only set anew or cleared: a build with *)
(* assertions ends there, and one without goes on with a wrong count.      *)
(* Bounds: Top, the greatest index; the sets given as arguments have at    *)
(* most ArgSize indices; the guards keep the members between 0 and Top.    *)
(***************************************************************************)
EXTENDS ChunkedRanges

CONSTANTS Top, ArgSize

VARIABLES
    chunks,     \* IndexSet, a ChunkedRangeVector
    members     \* the set of indices it stands for

vars == <<chunks, members>>

Index == 0 .. Top
ArgSets == {S \in SUBSET Index : Cardinality(S) <= ArgSize}

\* An assertion of ChunkedRangeVector::verify: the count of a chunk is the number
\* of indices in its ranges.
CountsAgree ==
    \A o \in DOMAIN chunks : chunks[o].count = Chunk(chunks[o].data).count

\* Each operation: the chunks it makes and the set it should make.
Becomes(v, S) ==
    /\ CountsAgree
    /\ chunks' = v
    /\ S \subseteq Index
    /\ members' = S

-----------------------------------------------------------------------------
add == \E i \in Index : Becomes(Add(chunks, i), Ref!add(members, i))

add_all == \E S \in ArgSets : Becomes(AddAll(chunks, S), members \cup S)

add_shifted ==
    \E i \in Index : Becomes(AddShifted(chunks, i).v, Ref!add_shifted(members, i))

add_shifted_by ==
    \E by, values \in ArgSets :
        Becomes(AddShiftedBy(chunks, by, values),
                 Ref!add_shifted_by(members, by, values))

set == \E len \in Index :
    /\ chunks' = IF len = 0 THEN <<>> ELSE PushBack(<<>>, <<0, len>>)
    /\ members' = Ref!first(len)

insert_at ==
    \E i \in Index, n \in 1 .. ArgSize :
        Becomes(InsertAt1(chunks, i, n), Ref!insert_at(members, i, n))

insert_at_all ==
    \E S \in ArgSets : Becomes(InsertAtAll(chunks, S), Ref!insert_at_all(members, S))

shift_for_insert_at ==
    \E i \in Index, n \in 1 .. ArgSize :
        Becomes(ShiftForInsertAt(chunks, i, n), Ref!shift_for_insert_at(members, i, n))

shift_for_insert_at_all ==
    \E S \in ArgSets :
        Becomes(ShiftForInsertAtAll(chunks, S), Ref!shift_for_insert_at_all(members, S))

erase_at == \E i \in Index : Becomes(EraseAt(chunks, i), Ref!erase_at(members, i))

erase_at_all ==
    \E S \in ArgSets : Becomes(EraseAtAll(chunks, S), Ref!erase_at_all(members, S))

erase_or_unshift ==
    \E i \in Index : Becomes(EraseOrUnshift(chunks, i).v, Ref!erase_at(members, i))

remove ==
    \E i \in Index, n \in 1 .. ArgSize :
        Becomes(Remove1(chunks, i, n), Ref!remove(members, i, n))

remove_all ==
    \E S \in ArgSets : Becomes(RemoveAll(chunks, S), Ref!remove_all(members, S))

clear == chunks' = <<>> /\ members' = {}

Init == chunks = <<>> /\ members = {}

Next ==
    \/ add \/ add_all \/ add_shifted \/ add_shifted_by \/ set
    \/ insert_at \/ insert_at_all \/ shift_for_insert_at \/ shift_for_insert_at_all
    \/ erase_at \/ erase_at_all \/ erase_or_unshift
    \/ remove \/ remove_all \/ clear

Spec == Init /\ [][Next]_vars

-----------------------------------------------------------------------------
\* Whatever sequence of operations made it, the chunks hold the set that the same
\* operations make of a plain set: splitting, joining and emptying of chunks
\* (ensure_space, do_add, erase) neither lose nor invent an index.
Denotes == Indices(chunks) = members

\* The assertions of ChunkedRangeVector::verify: ranges are not empty and a gap
\* apart, no chunk is empty or too long, and what a chunk keeps beside its ranges
\* agrees with them.  The exception: a chunk after the first that a builder began
\* with a range of several indices may have counted that range as one.
CountedAsOne(c) ==
    [Chunk(c.data) EXCEPT !.count = @ - (c.data[1][2] - c.data[1][1] - 1)]

WellFormed ==
    /\ LET rs == FlattenSeq([o \in DOMAIN chunks |-> chunks[o].data]) IN
       \A k \in DOMAIN rs : /\ rs[k][1] < rs[k][2]
                            /\ k > 1 => rs[k - 1][2] < rs[k][1]
    /\ \A o \in DOMAIN chunks : LET c == chunks[o] IN
          /\ Len(c.data) \in 1 .. MaxSize
          /\ c = Chunk(c.data) \/ (o > 1 /\ c = CountedAsOne(c))

\* What is read off the chunks: membership, the number of indices below one, and
\* the renumbering both ways, that add_shifted and erase_or_unshift return too.
\* A count from above 0 that ends inside the range its walk stops at misses the
\* part of that range below the end; StopsShort says when.
StopsShort(from, to) ==
    LET it == Find(chunks, from)
        data == chunks[it[1]].data
        next == <<it[1] + 1, 1>>
    IN  /\ from > 0 /\ it # End(chunks) /\ next # End(chunks)
        /\ ~(from <= At(chunks, it)[1] /\ it[2] = 1)
        /\ Last(data)[2] < to
        /\ At(chunks, next)[1] < to /\ to <= At(chunks, next)[2]

QueriesAnswer ==
    CountsAgree =>
      \A i \in 0 .. Top + 1 :
        /\ Contains1(chunks, i) = Ref!contains(members, i)
        /\ Shift(chunks, i) = Ref!shift(members, i)
        /\ AddShifted(chunks, i).index = Ref!shift(members, i)
        /\ i \notin members => Unshift(chunks, i) = Ref!unshift(members, i)
        /\ EraseOrUnshift(chunks, i).index = Ref!erase_or_unshift(members, i)
        /\ \A j \in i .. Top + 1 :
              StopsShort(i, j) \/ Count(chunks, i, j) = Ref!count(members, i, j)
=============================================================================
