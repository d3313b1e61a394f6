------------------------------- MODULE MemoAppInv -------------------------------
(***************************************************************************)
(* The inductive invariant of the memo screens: what a step needs to know  *)
(* of the state beside the invariants of MemoApp.                          *)
(***************************************************************************)
EXTENDS MemoAppRefinement

\* No text has a backslash: the filter of a text keeps the memo of that text, or
\* does not parse.
NoEscapes == \A c \in Contents : Literal[c] \in {c, NoParse}

\* A pending transaction is the save of the form in front, as far as its stage,
\* applied to a table that nobody else has changed since it began.
PendingIsTheSave ==
    \/ write = NoWrite
    \/ /\ process = "running" /\ top = "WriteDetailView"
       /\ \/ /\ write.stage = "removed"
             /\ write.table = WithoutOld(db, detail.mContents)
          \/ /\ write.stage = "added"
             /\ detail.etContent \notin Keys(WithoutOld(db, detail.mContents))
             /\ write.table = RealmAdd(WithoutOld(db, detail.mContents), FormBucket(detail))

\* The picture of the form is one a memo had or one that was just written.
FormPhotoKnown == detail.mPhotoPath \in files \cup lost \cup {Blank}

\* Opening a form filters by its text, so that text can be filtered by.
FormOpened == top \in {"WriteDetailView", "Picker"} => ~FilterThrows(detail.mContents)

\* What outlives the process is well-formed.
StoredInv ==
    /\ db \subseteq Bucket /\ IsFiniteSet(db)
    /\ files \subseteq Photos /\ lost \subseteq Photos
    /\ sortKey \in SortKeys \cup {Blank}
    /\ process \in {"running", "killed", "crashed"}
    /\ UniqueContents
    /\ NoDanglingPhoto

\* The part that holds whatever the predicate literals denote.
TableInv ==
    /\ TypeOK
    /\ UniqueContents
    /\ NoDanglingPhoto
    /\ PendingIsTheSave
    /\ FormPhotoKnown

\* What the rows and the form have to do with the table (WriteView, its
\* WriteDetailView and BucketListView against SQLQuery), for texts without a
\* backslash.
ScreenInv ==
    /\ FormOpened
    /\ ListShowsStore
    /\ DetailShowsStored

\* The inductive invariant: a memo has one text, lists and forms are about memos
\* that exist, and a pending save is a function of the table and the form.
IInv == TableInv /\ ScreenInv
=============================================================================
