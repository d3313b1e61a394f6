------------------------------- MODULE MemoClaims -------------------------------
(***************************************************************************)
(* What a comment in the source says of the memo screens and the code does *)
(* not do.                                                                 *)
(***************************************************************************)
EXTENDS MemoApp

\* WriteView.sort, by its comment, sorts: after one of its buttons is pressed the
\* rows are in the order of their texts, one way or the other.
SortButtonsSort ==
    [][\A key \in SortKeys :
          PressSort(key) => Ascending(mDataList') \/ Descending(mDataList')]_vars
=============================================================================
