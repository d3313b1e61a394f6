--------------------------- MODULE MemoAppRefinement ---------------------------
(***************************************************************************)
(* The memo screens implement the book of memos: the book is read off the  *)
(* committed table, so a death between the two writes of a save, or the    *)
(* loss of everything in memory, is a step that leaves the book alone.     *)
(***************************************************************************)
EXTENDS MemoApp

CONSTANT Absent

\* What a row of the table says beside its text.
Says(b) == [ mCompleteYN |-> b.mCompleteYN, mCompleteDate |-> b.mCompleteDate,
             mDate |-> b.mDate, mImageURl |-> b.mImageURl ]

BookOf(table) ==
    [c \in Contents |-> IF c \in Keys(table)
                          THEN Says(CHOOSE b \in table : b.mContent = c)
                          ELSE Absent]

Book == INSTANCE MemoBook WITH book <- BookOf(db)

ASSUME AbsentAssumption == Absent \notin Book!Memo

\* Each step of the screens, transactions and deaths included, adds one fresh
\* memo, rewrites one memo in place or under an unused text, removes one,
\* empties the book, or leaves it alone: a save (SQLQuery.updateMemoContent) is
\* never seen half done, and a crash never shows.
ImplementsBook == Book!Spec
=============================================================================
