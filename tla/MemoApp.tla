-------------------------------- MODULE MemoApp --------------------------------
(***************************************************************************)
(* The memo screens of the application over the Realm table of memos:      *)
(* WriteView (open memos), WriteDetailView (one memo), BucketListView      *)
(* (completed memos), AddBucketView (the hundred dreams), DBMgrView        *)
(* (reset), with the ways between them.                                    *)
(*                                                                         *)
(* All of this runs on the main thread, one handler at a time, and a       *)
(* handler is one action; the save of a memo, whose transaction has two    *)
(* writes, is three.  The process may die at any point: killed by the      *)
(* system, or by an exception nobody catches.  What it leaves behind is    *)
(* the committed table, the picture files and the stored sort key.         *)
(***************************************************************************)
EXTENDS BucketTable, Sequences, SequencesExt

CONSTANTS
    Dream,      \* the texts of the string resource dream100
    SortKeys    \* SORT_DATE, SORT_MEMO, SORT_DEADLINE

ASSUME DreamAssumption == Dream \subseteq Plain \ {EmptyText}
ASSUME SortKeysAssumption == Blank \notin SortKeys

VARIABLES
    db,         \* the committed table of memos
    files,      \* the names of the pictures on disk
    lost,       \* history: the names whose picture could not be written
    sortKey,    \* UserDefault KBUCKET_SORT_KEY
    process,    \* "running", or how it ended
    top,        \* the screen in front
    mDataList,  \* the texts of the rows of the list in front
    mbVisible,  \* AddBucketView: the buttons of the rows are shown
    detail,     \* the fields of the WriteDetailView in front
    write       \* the write transaction of updateMemoContent

stored == <<db, files, lost, sortKey>>
memory == <<top, mDataList, mbVisible, detail, write>>
vars == <<stored, process, memory>>

-----------------------------------------------------------------------------
(* Screens, forms, transactions                                              *)

Screens == { "Main", "WriteView", "WriteDetailView", "Picker", "BucketListView",
             "SettingView", "AddBucketView", "DBMgrView" }

\* The buttons that lead from a screen to the next.
Ways == { <<"Main", "WriteView">>, <<"Main", "BucketListView">>,
          <<"Main", "SettingView">>, <<"SettingView", "AddBucketView">>,
          <<"SettingView", "DBMgrView">> }

\* The screens whose back button presents a new main screen.
Leaves == {"WriteView", "BucketListView", "SettingView", "AddBucketView", "DBMgrView"}

Form == [ mContents      : Contents,
          BACK           : {Blank, "WriteView", "BucketListView"},
          etContent      : Contents,
          btCheckbox     : BOOLEAN,
          mPhotoPath     : Photos \cup {Blank},
          etDate         : Dates \cup {Blank},
          etCompleteDate : Dates \cup {Blank} ]

NoForm == [ mContents |-> EmptyText, BACK |-> Blank, etContent |-> EmptyText,
            btCheckbox |-> FALSE, mPhotoPath |-> Blank,
            etDate |-> Blank, etCompleteDate |-> Blank ]

NoWrite == [stage |-> "none", table |-> {}]

\* updateDBDate: the object a save adds, read off the form.
FormBucket(form) ==
    [ mContent      |-> form.etContent,
      mCompleteYN   |-> IF form.btCheckbox THEN "Y" ELSE "N",
      mCompleteDate |-> form.etCompleteDate,
      mDate         |-> form.etDate,
      mImageURl     |-> form.mPhotoPath ]

\* setData: the form of a new WriteDetailView for the text c; fields for which
\* the memo has no date show today's.
FormsOf(table, c, back, today) ==
    LET untouched == [NoForm EXCEPT !.mContents = c, !.BACK = back]
        filled(b) == [ mContents      |-> c,
                       BACK           |-> back,
                       etContent      |-> b.mContent,
                       btCheckbox     |-> b.mCompleteYN = "Y",
                       mPhotoPath     |-> b.mImageURl,
                       etDate         |-> IF b.mDate = Blank THEN today ELSE b.mDate,
                       etCompleteDate |-> IF b.mCompleteDate = Blank
                                            THEN today ELSE b.mCompleteDate ]
    IN IF Find(table, c) = {} THEN {untouched}
                              ELSE {filled(b) : b \in Find(table, c)}

-----------------------------------------------------------------------------
(* Lists                                                                     *)

\* Faulty variant: nothing is skipped.
OpenContentsAll(table) == Keys(table)

\* WriteView.initialize skips the completed memos, unless they have no text.
OpenContents(table) ==
    {b.mContent : b \in {o \in table : ~(o.mContent # EmptyText /\ o.mCompleteYN = "Y")}}

\* BucketListView.setListData keeps the completed ones.
CompletedContents(table) == {b.mContent : b \in {o \in table : o.mCompleteYN = "Y"}}

Ascending(rows) == \A i, j \in DOMAIN rows : i < j => rows[i] < rows[j]
Descending(rows) == \A i, j \in DOMAIN rows : i < j => rows[i] > rows[j]

\* sort() on a list just read: once a sort key is stored it returns early, and
\* the rows stay in the order of the query, which Realm does not define.
Sorted(lists) == {rows \in lists : sortKey = Blank => Descending(rows)}

\* The rows a list screen loads when it is presented.
Loaded(screen, table) ==
    CASE screen = "WriteView" -> Sorted(SetToSeqs(OpenContents(table)))
      [] screen = "BucketListView" -> SetToSeqs(CompletedContents(table))
      [] OTHER -> {<<>>}

checkduplicateData(c) == c \in ToSet(mDataList)

-----------------------------------------------------------------------------
(* Control                                                                   *)

\* The main thread is free and `screen` is in front.
On(screen) == process = "running" /\ top = screen /\ write = NoWrite

\* A new view controller is presented; what the old one held is never shown
\* again.
Present(screen, table) ==
    /\ top' = screen
    /\ mDataList' \in Loaded(screen, table)
    /\ mbVisible' = TRUE
    /\ detail' = NoForm
    /\ write' = NoWrite

\* The process ends: memory is gone, an uncommitted transaction with it.
Dies(how) ==
    /\ process' = how
    /\ Present("Main", {})
    /\ UNCHANGED stored

\* The handler of the screen in front raises an exception.
Crashes == Dies("crashed")

\* The handler commits a new table and the screen stays.
Commits(table) == db' = table /\ UNCHANGED <<files, lost, sortKey, process>>

Init ==
    /\ db = {}
    /\ files = {}
    /\ lost = {}
    /\ sortKey = Blank
    /\ process = "running"
    /\ top = "Main"
    /\ mDataList = <<>>
    /\ mbVisible = TRUE
    /\ detail = NoForm
    /\ write = NoWrite

-----------------------------------------------------------------------------
(* The process and the ways between screens                                  *)

Kill == process = "running" /\ Dies("killed")

Launch ==
    /\ process # "running"
    /\ process' = "running"
    /\ Present("Main", db)
    /\ UNCHANGED stored

Open(from, to) ==
    /\ On(from)
    /\ Present(to, db)
    /\ UNCHANGED <<stored, process>>

Back(from) ==
    /\ On(from)
    /\ Present("Main", db)
    /\ UNCHANGED <<stored, process>>

-----------------------------------------------------------------------------
(* Adding a memo: common to WriteView and AddBucketView                      *)

Insert(bucket) ==
    IF RealmAddThrows(db, bucket) THEN Crashes
    ELSE /\ Commits(RealmAdd(db, bucket))
         /\ mDataList' = IF top = "WriteView" THEN Append(mDataList, bucket.mContent)
                                              ELSE mDataList
         /\ UNCHANGED <<top, mbVisible, detail, write>>

(* WriteView                                                                 *)

\* onClick btAdd; a text on the list only raises a toast.
AddMemo(c) ==
    /\ On("WriteView")
    /\ ~checkduplicateData(c)
    /\ Insert(InsertedBucket(c, Blank, "N", Blank))

\* onClick btSort...: the key is stored before sort() reads it, so sort()
\* always returns early and the rows keep their order.
PressSort(key) ==
    /\ On("WriteView")
    /\ sortKey' = key
    /\ UNCHANGED <<db, files, lost, process, memory>>

\* A memo is opened in a new WriteDetailView, whose setData filters by its text.
OpenDetail(c, back) ==
    IF FilterThrows(c) THEN Crashes
    ELSE \E today \in Dates :
            /\ top' = "WriteDetailView"
            /\ detail' \in FormsOf(db, c, back, today)
            /\ mDataList' = <<>>
            /\ UNCHANGED <<stored, process, mbVisible, write>>

\* receiveEventFromViewItem, case 0
ModifyRow(i) ==
    /\ On("WriteView")
    /\ OpenDetail(mDataList[i], "WriteView")

\* Faulty variant: the memo of the row is deleted, the last row goes.
DeleteRowLast(i) ==
    /\ On("WriteView")
    /\ IF FilterThrows(mDataList[i]) THEN Crashes
       ELSE /\ Commits(deleteUserBucket(db, mDataList[i]))
            /\ mDataList' = RemoveAt(mDataList, Len(mDataList))
            /\ UNCHANGED <<top, mbVisible, detail, write>>

\* receiveEventFromViewItem, case 1
DeleteRow(i) ==
    /\ On("WriteView")
    /\ IF FilterThrows(mDataList[i]) THEN Crashes
       ELSE /\ Commits(deleteUserBucket(db, mDataList[i]))
            /\ mDataList' = RemoveAt(mDataList, i)
            /\ UNCHANGED <<top, mbVisible, detail, write>>

(* BucketListView                                                            *)

\* didSelectRowAt and the row's button: changeDetailView
SelectRow(i) ==
    /\ On("BucketListView")
    /\ OpenDetail(mDataList[i], "BucketListView")

-----------------------------------------------------------------------------
(* WriteDetailView                                                           *)

\* A field of the form changes.
Edits(form) ==
    /\ On("WriteDetailView")
    /\ detail' = form
    /\ UNCHANGED <<stored, process, top, mDataList, mbVisible, write>>

EditContent(c) == Edits([detail EXCEPT !.etContent = c])
ToggleComplete == Edits([detail EXCEPT !.btCheckbox = ~@])
PickDate(d) == Edits([detail EXCEPT !.etDate = d])
PickCompleteDate(d) == Edits([detail EXCEPT !.etCompleteDate = d])

\* Faulty variant: the file goes at once, before the form is saved.
RemoveImageFile ==
    /\ On("WriteDetailView")
    /\ files' = files \ {detail.mPhotoPath}
    /\ detail' = [detail EXCEPT !.mPhotoPath = Blank]
    /\ UNCHANGED <<db, lost, sortKey, process, top, mDataList, mbVisible, write>>

\* onClick btRemoveImage: only the path is forgotten.
RemoveImage == Edits([detail EXCEPT !.mPhotoPath = Blank])

\* openCamera, openGallary
OpenPicker ==
    /\ On("WriteDetailView")
    /\ top' = "Picker"
    /\ UNCHANGED <<stored, process, mDataList, mbVisible, detail, write>>

CancelPicker ==
    /\ On("Picker")
    /\ top' = "WriteDetailView"
    /\ UNCHANGED <<stored, process, mDataList, mbVisible, detail, write>>

\* didFinishPickingMediaWithInfo: the picture is written at once, under a name
\* made of the time; a failing write is ignored and the name is kept.
PickPhoto(name, written) ==
    /\ On("Picker")
    /\ files' = IF written THEN files \cup {name} ELSE files
    /\ lost' = IF written THEN lost ELSE lost \cup {name}
    /\ detail' = [detail EXCEPT !.mPhotoPath = name]
    /\ top' = "WriteDetailView"
    /\ UNCHANGED <<db, sortKey, process, mDataList, mbVisible, write>>

\* The picture has no JPEG form: save returns nil, which is force-unwrapped.
PickUnusable == On("Picker") /\ Crashes

\* back(strBack:)
DetailBackTo == IF detail.BACK = "BucketListView" THEN "BucketListView" ELSE "Main"

DetailBack ==
    /\ On("WriteDetailView")
    /\ Present(DetailBackTo, db)
    /\ UNCHANGED <<stored, process>>

\* Faulty variant: the deletion is a transaction of its own.
BeginSaveTwice ==
    /\ On("WriteDetailView")
    /\ IF FilterThrows(detail.mContents) THEN Crashes
       ELSE /\ Commits(WithoutOld(db, detail.mContents))
            /\ write' = [stage |-> "removed", table |-> WithoutOld(db, detail.mContents)]
            /\ UNCHANGED <<top, mDataList, mbVisible, detail>>

\* onClick btSave, up to the deletion in the write block of updateMemoContent
BeginSave ==
    /\ On("WriteDetailView")
    /\ IF FilterThrows(detail.mContents) THEN Crashes
       ELSE /\ write' = [stage |-> "removed", table |-> WithoutOld(db, detail.mContents)]
            /\ UNCHANGED <<stored, process, top, mDataList, mbVisible, detail>>

\* Faulty variant: add with an update policy, which takes the place of the
\* memo that has the key.
AddSavedUpdating ==
    /\ process = "running"
    /\ write.stage = "removed"
    /\ write' = [stage |-> "added",
                 table |-> {b \in write.table : b.mContent # detail.etContent}
                              \cup {FormBucket(detail)}]
    /\ UNCHANGED <<stored, process, top, mDataList, mbVisible, detail>>

\* The write block's realm.add(newBucket)
AddSaved ==
    /\ process = "running"
    /\ write.stage = "removed"
    /\ IF RealmAddThrows(write.table, FormBucket(detail)) THEN Crashes
       ELSE /\ write' = [stage |-> "added",
                         table |-> RealmAdd(write.table, FormBucket(detail))]
            /\ UNCHANGED <<stored, process, top, mDataList, mbVisible, detail>>

\* commitWrite, then back(strBack:)
CommitSave ==
    /\ process = "running"
    /\ write.stage = "added"
    /\ Commits(write.table)
    /\ Present(DetailBackTo, write.table)

\* Faulty variant: the form stays in front of the deleted memo.
DeleteDetailStay ==
    /\ On("WriteDetailView")
    /\ IF FilterThrows(detail.mContents) THEN Crashes
       ELSE Commits(deleteUserBucket(db, detail.mContents)) /\ UNCHANGED memory

\* onClick btDel
DeleteDetail ==
    /\ On("WriteDetailView")
    /\ IF FilterThrows(detail.mContents) THEN Crashes
       ELSE LET rest == deleteUserBucket(db, detail.mContents)
            IN Commits(rest) /\ Present(DetailBackTo, rest)

-----------------------------------------------------------------------------
(* AddBucketView, DBMgrView                                                  *)

\* onClick btListAdd
ToggleVisible ==
    /\ On("AddBucketView")
    /\ mbVisible' = ~mbVisible
    /\ UNCHANGED <<stored, process, top, mDataList, detail, write>>

\* receiveEventFromViewItem, case 0; a text the table has only raises a toast.
AddDream(c) ==
    /\ On("AddBucketView")
    /\ mbVisible
    /\ ~containsKbucket(db, c)
    /\ \E date \in Dates : Insert(InsertedBucket(c, date, "N", Blank))

\* receiveEventFromViewItem, case 1
DeleteDream(c) ==
    /\ On("AddBucketView")
    /\ mbVisible
    /\ Commits(deleteUserBucket(db, c))
    /\ UNCHANGED memory

\* DBMgrView.onClick btDBMenu03
ResetTable ==
    /\ On("DBMgrView")
    /\ Commits(DeleteBucketContents(db))
    /\ UNCHANGED memory

-----------------------------------------------------------------------------

Process == Kill \/ Launch

Navigation ==
    \/ \E way \in Ways : Open(way[1], way[2])
    \/ \E screen \in Leaves : Back(screen)

Lists ==
    \/ \E c \in Contents : AddMemo(c)
    \/ \E key \in SortKeys : PressSort(key)
    \/ \E i \in DOMAIN mDataList : ModifyRow(i) \/ DeleteRow(i) \/ SelectRow(i)

Editing ==
    \/ \E c \in Contents : EditContent(c)
    \/ \E d \in Dates : PickDate(d) \/ PickCompleteDate(d)
    \/ ToggleComplete
    \/ RemoveImage
    \/ OpenPicker
    \/ CancelPicker
    \/ \E name \in Photos, written \in BOOLEAN : PickPhoto(name, written)
    \/ PickUnusable

Saving == BeginSave \/ AddSaved \/ CommitSave \/ DeleteDetail \/ DetailBack

Settings ==
    \/ ToggleVisible
    \/ \E c \in Dream : AddDream(c) \/ DeleteDream(c)
    \/ ResetTable

Next == Process \/ Navigation \/ Lists \/ Editing \/ Saving \/ Settings

Spec == Init /\ [][Next]_vars

-----------------------------------------------------------------------------
(* Properties                                                                *)

\* Every variable has its type; the table is finite.
TypeOK ==
    /\ db \subseteq Bucket /\ IsFiniteSet(db)
    /\ files \subseteq Photos /\ lost \subseteq Photos
    /\ sortKey \in SortKeys \cup {Blank}
    /\ process \in {"running", "killed", "crashed"}
    /\ top \in Screens
    /\ mDataList \in Seq(Contents)
    /\ mbVisible \in BOOLEAN
    /\ detail \in Form
    /\ write.stage \in {"none", "removed", "added"}
    /\ write.table \subseteq Bucket

\* Two memos never have one text: each screen finds "the" memo of a text by a
\* filter on the text (SQLQuery), and updateMemoContent deletes the old memo
\* only if it is the only one.
UniqueContents == \A a, b \in db : a.mContent = b.mContent => a = b

\* While a list screen is in front its rows are, each once, the memos in the
\* table it stands for: WriteView updates its rows by hand beside each insert
\* and delete instead of reading the table again, and its event handlers find
\* the memo by row number.
ListShowsStore ==
    /\ top = "WriteView" =>
         ToSet(mDataList) = {b.mContent : b \in {o \in db : o.mContent = EmptyText
                                                          \/ o.mCompleteYN # "Y"}}
    /\ top = "BucketListView" =>
         ToSet(mDataList) = {b.mContent : b \in {o \in db : o.mCompleteYN = "Y"}}
    /\ top \in {"WriteView", "BucketListView"} => IsInjective(mDataList)

\* The memo a WriteDetailView was opened for is in the table as long as the view
\* (or the picker above it) is in front: updateMemoContent relies on it to find
\* the memo it replaces, and silently adds a second one otherwise.
DetailShowsStored ==
    top \in {"WriteDetailView", "Picker"} => detail.mContents \in Keys(db)

\* The picture a stored memo names is on disk, unless writing it failed: neither
\* taking the picture off the form, nor leaving the form without saving, nor
\* deleting another memo takes away a file that a memo still names.
NoDanglingPhoto ==
    \A b \in db : b.mImageURl \in files \cup lost \cup {Blank}

\* A memo leaves the table only when the user asks for that one: with its row on
\* a list (and then that row goes), from its own form (deleted, or replaced by
\* what the form says), as a dream, or by the reset.
MemosLeaveOnlyOnRequest ==
    [][\A c \in Keys(db) \ Keys(db') :
          \/ /\ top = "WriteView"
             /\ ToSet(mDataList') = ToSet(mDataList) \ {c}
             /\ Keys(db') = Keys(db) \ {c}
          \/ /\ top = "WriteDetailView"
             /\ c = detail.mContents
             /\ Keys(db') \in {Keys(db) \ {c}, (Keys(db) \ {c}) \cup {detail.etContent}}
          \/ /\ top = "AddBucketView"
             /\ c \in Dream
             /\ Keys(db') = Keys(db) \ {c}
          \/ top = "DBMgrView"]_vars

\* Saving or deleting on the form of one memo leaves every other memo as it was,
\* also when the form gives the memo the text of another one.
OtherMemosSurviveEdit ==
    [][top = "WriteDetailView" =>
         \A b \in db : b.mContent # detail.mContents => b \in db']_vars

\* The application only crashes: while the table holds a memo whose text no
\* filter can hold; in WriteView, while there is a completed memo, whose text its
\* duplicate check does not see; when a form is saved under the text of another
\* memo; or in the picker, on a picture that cannot be written as JPEG.  Without
\* these a plain save, a row event and an added dream never end it.
CrashCauses ==
    [][process = "running" /\ process' = "crashed" =>
          \/ \E c \in Keys(db) : FilterThrows(c)
          \/ top = "WriteView" /\ \E b \in db : b.mContent # EmptyText /\ b.mCompleteYN = "Y"
          \/ /\ top = "WriteDetailView"
             /\ detail.etContent # detail.mContents
             /\ detail.etContent \in Keys(db)
          \/ top = "Picker"]_vars
=============================================================================
