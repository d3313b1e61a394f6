-------------------------------- MODULE MemoBook --------------------------------
(***************************************************************************)
(* What the memo screens promise to their user, screens and transactions   *)
(* left out: a book that holds at most one memo per text, to which fresh   *)
(* memos are added, whose memos are rewritten in one step (possibly under  *)
(* another, unused text) or removed, and that can be emptied.  The death   *)
(* and restart of the application are not steps of the book: they must     *)
(* leave it as it was.                                                     *)
(***************************************************************************)
EXTENDS BucketTable

CONSTANT Absent     \* the value of a text that has no memo; not a memo itself

\* What a memo says beside its text.
Memo == [ mCompleteYN   : {Blank, "Y", "N"},
          mCompleteDate : Dates \cup {Blank},
          mDate         : Dates \cup {Blank},
          mImageURl     : Photos \cup {Blank} ]

\* A memo just added has neither been dated nor completed.
Fresh == [ mCompleteYN |-> Blank, mCompleteDate |-> Blank,
           mDate |-> Blank, mImageURl |-> Blank ]

\* What the form of a memo can hold when it is saved: the switch answers Y or N.
Filled == {m \in Memo : m.mCompleteYN \in {"Y", "N"}}

VARIABLE book

\* A new installation has no memo.
Init == book = [c \in Contents |-> Absent]

\* insertUserSetting, from the list of memos or from the list of dreams.
Add(c) ==
    /\ book[c] = Absent
    /\ book' = [book EXCEPT ![c] = Fresh]

\* updateMemoContent: the memo `old` becomes the memo `new`; another memo is
\* never overwritten.
Rewrite(old, new, m) ==
    /\ book[old] # Absent
    /\ new = old \/ book[new] = Absent
    /\ book' = [book EXCEPT ![old] = Absent, ![new] = m]

\* deleteUserBucket
Remove(c) ==
    /\ book[c] # Absent
    /\ book' = [book EXCEPT ![c] = Absent]

\* DeleteBucketContents
Clear == book' = [c \in Contents |-> Absent]

Step ==
    \/ \E c \in Contents : Add(c) \/ Remove(c)
    \/ \E old, new \in Contents :
          book'[new] \in Filled /\ Rewrite(old, new, book'[new])
    \/ Clear

\* A step that leaves the book as it was is none.
Next == book' # book /\ Step

Spec == Init /\ [][Next]_book
=============================================================================
