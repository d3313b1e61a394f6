------------------------------- MODULE MCMemoApp -------------------------------
(***************************************************************************)
(* Instances of the memo screens for TLC: what the predicate literal of a  *)
(* text denotes.                                                           *)
(***************************************************************************)
EXTENDS MemoAppInv, MemoClaims

\* Every text is plain.
AllPlain == [c \in Contents |-> c]

\* The greatest text has an apostrophe; the others are plain.
QuoteLast == [c \in Contents |-> IF \A d \in Contents : d <= c THEN NoParse ELSE c]
=============================================================================
