----------------------------- MODULE IndexSets -----------------------------
(***************************************************************************)
(* What the class IndexSet of the object store (index_set.hpp,             *)
(* index_set.cpp) computes: finite sets of row indices, counted from zero, *)
(* some operations of which renumber the indices as rows come and go.  The *)
(* change sets of ChangeBuilder are made of these sets; that the chunked   *)
(* ranges of the code compute the same is checked in ChunkedRanges.        *)
(* insert_at, erase_at, shift_for_insert_at and remove take an index or a  *)
(* set in the code; the ones that take a set end in _all here.             *)
(***************************************************************************)
EXTENDS Integers, FiniteSets, Sequences

\* The index that is none.
npos == -1

contains(S, i) == i \in S
count(S, from, to) == Cardinality({x \in S : from <= x /\ x < to})

\* Where index i is once each index of S has been taken out, or put in.
unshift(S, i) == i - count(S, 0, i)
shift(S, i) ==
    CHOOSE j \in i .. (i + Cardinality(S)) : j \notin S /\ unshift(S, j) = i

add(S, i) == S \cup {i}

add_shifted(S, i) == S \cup {shift(S, i)}

\* The values, numbered with the rows of `by` present and those of S absent,
\* are added under the numbers they have without `by` and with S.
add_shifted_by(S, by, values) ==
    S \cup {shift(S, unshift(by, v)) : v \in values \ by}

shift_for_insert_at(S, i, n) == {IF x < i THEN x ELSE x + n : x \in S}
shift_for_insert_at_all(S, P) == {shift(P, x) : x \in S}

insert_at(S, i, n) == shift_for_insert_at(S, i, n) \cup i .. (i + n - 1)
insert_at_all(S, P) == shift_for_insert_at_all(S, P) \cup P

erase_at(S, i) == {IF x < i THEN x ELSE x - 1 : x \in S \ {i}}
erase_at_all(S, P) == {unshift(P, x) : x \in S \ P}

erase_or_unshift(S, i) == IF i \in S THEN npos ELSE unshift(S, i)

remove(S, i, n) == S \ (i .. (i + n - 1))
remove_all(S, P) == S \ P

\* The indices in the order in which they are read.
Increasing(S) ==
    [k \in 1 .. Cardinality(S) |-> CHOOSE x \in S : Cardinality({y \in S : y < x}) = k - 1]

\* The entries of s, which the code counts from zero; those at the places of K.
At0(s, i) == s[i + 1]
Positions(s) == 0 .. (Len(s) - 1)
Chosen(s, K) == LET at == Increasing(K) IN [k \in DOMAIN at |-> s[at[k]]]

\* set(len): the first indices.
first(len) == 0 .. (len - 1)
=============================================================================
