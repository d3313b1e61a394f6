------------------------------ MODULE BucketTable ------------------------------
(***************************************************************************)
(* The Realm table of memos ("buckets") and the operations SQLQuery.swift  *)
(* runs on it.  A table is a set of Bucket records; nothing in the type    *)
(* makes the primary key unique, it is Realm's insertion that refuses an   *)
(* existing key.  Every operation is given as the condition under which it *)
(* throws (the app never catches a Realm or predicate exception: it dies)  *)
(* and the table it leaves when it does not.                               *)
(*                                                                         *)
(* A memo text is represented by its rank in the order the screens sort    *)
(* texts by; 0 is the empty text, which that order puts first.             *)
(***************************************************************************)
EXTENDS Naturals, FiniteSets

CONSTANTS
    Contents,   \* the memo texts
    NoParse,    \* marks a string literal that does not parse
    Literal,    \* the text the predicate literal '<text>' denotes, or NoParse
    Dates,      \* formatted dates
    Photos      \* file names of pictures in the Documents directory

EmptyText == 0

\* The empty string in a field that is not the memo text.
Blank == ""

ASSUME ContentsAssumption ==
    Contents \subseteq Nat /\ EmptyText \in Contents
ASSUME LiteralAssumption ==
    /\ NoParse \notin Contents
    /\ Literal \in [Contents -> Contents \cup {NoParse}]
    /\ Literal[EmptyText] = EmptyText
ASSUME BlankAssumption ==
    Blank \notin Dates \cup Photos

-----------------------------------------------------------------------------

\* The fields of class Bucket that the memo screens read or write.
Bucket == [ mContent      : Contents,
            mCompleteYN   : {Blank, "Y", "N"},
            mCompleteDate : Dates \cup {Blank},
            mDate         : Dates \cup {Blank},
            mImageURl     : Photos \cup {Blank} ]

Keys(table) == {b.mContent : b \in table}

\* Every filter is made by pasting a text between apostrophes.  A text with an
\* apostrophe makes a predicate that does not parse, and filter() raises; in a
\* text with a backslash the literal denotes another text.
FilterThrows(memoContents) == Literal[memoContents] = NoParse

\* selectKbucket(memoContents:): the rows the filter "mContent = '...'" keeps.
Find(table, memoContents) == {b \in table : b.mContent = Literal[memoContents]}

\* The texts a filter takes literally.
Plain == {c \in Contents : Literal[c] = c}

-----------------------------------------------------------------------------
(* Realm's add without an update policy.                                     *)

\* Faulty variant: the key of an added object is not looked up.
RealmAddThrowsUnchecked(table, bucket) == FALSE

\* Object::create finds the primary key and may not update: logic_error.
RealmAddThrows(table, bucket) == bucket.mContent \in Keys(table)

RealmAdd(table, bucket) == table \cup {bucket}

-----------------------------------------------------------------------------
(* SQLQuery                                                                  *)

containsKbucket(table, memoContents) == Find(table, memoContents) # {}

\* Faulty variant: two arguments end up in the wrong fields.
InsertedBucketShifted(contents, date, completeYN, completedDate) ==
    [ mContent      |-> contents,
      mCompleteYN   |-> date,
      mCompleteDate |-> completeYN,
      mDate         |-> Blank,
      mImageURl     |-> Blank ]

\* The object insertUserSetting adds: of its four arguments only the text and
\* the completion date are copied.
InsertedBucket(contents, date, completeYN, completedDate) ==
    [ mContent      |-> contents,
      mCompleteYN   |-> Blank,
      mCompleteDate |-> completedDate,
      mDate         |-> Blank,
      mImageURl     |-> Blank ]

\* Faulty variant: off by one in the count of the memos found.
WithoutOldIfSeveral(table, cotents) ==
    IF Cardinality(Find(table, cotents)) > 1 THEN table \ Find(table, cotents)
                                             ELSE table

\* First half of updateMemoContent's write block: the memo being edited is
\* deleted when exactly one row has its text.
WithoutOld(table, cotents) ==
    IF Cardinality(Find(table, cotents)) = 1 THEN table \ Find(table, cotents)
                                             ELSE table

deleteUserBucket(table, contents) == table \ Find(table, contents)

DeleteBucketContents(table) == {}
=============================================================================
