------------------------------ MODULE MemoAppProofs ------------------------------
(***************************************************************************)
(* Proofs about the memo screens, for every set of texts, dates and        *)
(* pictures: first the table, whatever literals denote; then what needs    *)
(* the filter of a text to keep the memo of that text, texts without a     *)
(* backslash (NoEscapes): what the screens show, what a step may do to the *)
(* table, and that the screens implement the book of memos.                *)
(***************************************************************************)
EXTENDS MemoAppInv, RowLemmas

-----------------------------------------------------------------------------
(* Tables and lists                                                          *)

\* The texts of some memos of a finite table are finitely many.
LEMMA FiniteTexts ==
    ASSUME NEW table, IsFiniteSet(table), NEW some \in SUBSET table
    PROVE  IsFiniteSet({b.mContent : b \in some})
<1> DEFINE f == [b \in some |-> b.mContent]
<1>1. IsFiniteSet(some)
  BY FS_Subset
<1>2. f \in Surjection(some, {b.mContent : b \in some})
  BY DEF Surjection
<1> QED
  BY <1>1, <1>2, FS_Surjection

\* The rows a screen loads are texts, and those of a list screen are the memos
\* it stands for, once each.
LEMMA LoadedFacts ==
    ASSUME NEW table, table \subseteq Bucket, IsFiniteSet(table),
           NEW screen, NEW rows \in Loaded(screen, table)
    PROVE  /\ rows \in Seq(Contents)
           /\ screen = "WriteView" =>
                ToSet(rows) = OpenContents(table) /\ IsInjective(rows)
           /\ screen = "BucketListView" =>
                ToSet(rows) = CompletedContents(table) /\ IsInjective(rows)
<1>1. /\ IsFiniteSet(OpenContents(table))
      /\ OpenContents(table) \subseteq Contents
  BY FiniteTexts DEF OpenContents, Bucket
<1>2. /\ IsFiniteSet(CompletedContents(table))
      /\ CompletedContents(table) \subseteq Contents
  BY FiniteTexts DEF CompletedContents, Bucket
<1>3. CASE screen = "WriteView"
  <2>1. rows \in SetToSeqs(OpenContents(table))
    BY <1>3 DEF Loaded, Sorted
  <2>2. /\ rows \in Seq(OpenContents(table))
        /\ ToSet(rows) = OpenContents(table)
        /\ IsInjective(rows)
    BY <1>1, <2>1, ArrangementFacts
  <2> QED
    BY <1>1, <1>3, <2>2, SeqMonotonic
<1>4. CASE screen = "BucketListView"
  <2>1. rows \in SetToSeqs(CompletedContents(table))
    BY <1>4 DEF Loaded
  <2>2. /\ rows \in Seq(CompletedContents(table))
        /\ ToSet(rows) = CompletedContents(table)
        /\ IsInjective(rows)
    BY <1>2, <2>1, ArrangementFacts
  <2> QED
    BY <1>2, <1>4, <2>2, SeqMonotonic
<1>5. CASE screen \notin {"WriteView", "BucketListView"}
  <2>1. rows = <<>>
    BY <1>5 DEF Loaded
  <2> QED
    BY <1>5, <2>1, EmptySeq
<1> QED
  BY <1>3, <1>4, <1>5

\* Taking the old memo out of a table where texts are unique takes out the memo
\* the filter finds, if there is one.
LEMMA WithoutOldFacts ==
    ASSUME NEW table, NEW c,
           \A a, b \in table : a.mContent = b.mContent => a = b
    PROVE  WithoutOld(table, c) = table \ Find(table, c)
<1>1. CASE Find(table, c) = {}
  BY <1>1 DEF WithoutOld
<1>2. CASE Find(table, c) # {}
  <2>1. PICK b \in Find(table, c) : TRUE
    BY <1>2
  <2>2. Find(table, c) = {b}
    BY <2>1 DEF Find
  <2>3. Cardinality(Find(table, c)) = 1
    BY <2>2, FS_Singleton
  <2> QED
    BY <2>3 DEF WithoutOld
<1> QED
  BY <1>1, <1>2

\* A new screen in front, other than a form, starts in the invariant, provided
\* its rows are read from the table that is stored when it appears.
LEMMA PresentFacts ==
    ASSUME NEW screen \in Screens \ {"WriteDetailView", "Picker"},
           NEW table, table \subseteq Bucket, IsFiniteSet(table),
           screen = "Main" \/ db' = table,
           Present(screen, table)
    PROVE  /\ top' \in Screens
           /\ mDataList' \in Seq(Contents)
           /\ mbVisible' \in BOOLEAN
           /\ detail' \in Form
           /\ write' = NoWrite
           /\ FormPhotoKnown'
           /\ ScreenInv'
<1>1. /\ top' = screen
      /\ mDataList' \in Loaded(screen, table)
      /\ mbVisible' = TRUE
      /\ detail' = NoForm
      /\ write' = NoWrite
  BY DEF Present
<1>2. detail' \in Form /\ FormPhotoKnown'
  BY <1>1, ContentsAssumption DEF Form, NoForm, FormPhotoKnown
<1>3. mDataList' \in Seq(Contents)
  BY <1>1, LoadedFacts
<1>4. ListShowsStore'
  <2>1. CASE screen = "WriteView"
    <3>1. /\ ToSet(mDataList') = OpenContents(db')
          /\ IsInjective(mDataList')
      BY <1>1, <2>1, LoadedFacts
    <3> QED
      BY <1>1, <2>1, <3>1 DEF ListShowsStore, OpenContents
  <2>2. CASE screen = "BucketListView"
    <3>1. /\ ToSet(mDataList') = CompletedContents(db')
          /\ IsInjective(mDataList')
      BY <1>1, <2>2, LoadedFacts
    <3> QED
      BY <1>1, <2>2, <3>1 DEF ListShowsStore, CompletedContents
  <2>3. CASE screen \notin {"WriteView", "BucketListView"}
    BY <1>1, <2>3 DEF ListShowsStore
  <2> QED
    BY <2>1, <2>2, <2>3
<1>5. FormOpened' /\ DetailShowsStored'
  BY <1>1 DEF FormOpened, DetailShowsStored
<1> QED
  BY <1>1, <1>2, <1>3, <1>4, <1>5 DEF ScreenInv

\* A new screen, other than a form, over well-formed storage is in the invariant.
LEMMA PresentKeeps ==
    ASSUME NEW screen \in Screens \ {"WriteDetailView", "Picker"},
           NEW table, table \subseteq Bucket, IsFiniteSet(table),
           screen = "Main" \/ db' = table,
           Present(screen, table),
           StoredInv'
    PROVE  IInv'
<1>1. /\ top' \in Screens
      /\ mDataList' \in Seq(Contents)
      /\ mbVisible' \in BOOLEAN
      /\ detail' \in Form
      /\ write' = NoWrite
      /\ FormPhotoKnown'
      /\ ScreenInv'
  BY PresentFacts
<1>2. TypeOK'
  BY <1>1 DEF TypeOK, StoredInv, NoWrite
<1> QED
  BY <1>1, <1>2 DEF IInv, TableInv, StoredInv, PendingIsTheSave

\* The end of the process leaves the table as it was committed.
LEMMA DiesKeeps ==
    ASSUME TableInv, NEW how \in {"killed", "crashed"}, Dies(how)
    PROVE  IInv'
<1>1. Present("Main", {})
  BY DEF Dies
<1>2. StoredInv'
  BY DEF Dies, stored, StoredInv, TableInv, TypeOK, UniqueContents, NoDanglingPhoto
<1>3. "Main" \in Screens \ {"WriteDetailView", "Picker"}
  BY DEF Screens
<1>4. {} \subseteq Bucket /\ IsFiniteSet({})
  BY FS_EmptySet
<1> QED
  BY <1>1, <1>2, <1>3, <1>4, PresentKeeps

\* A new screen over an unchanged table.
LEMMA ShowKeeps ==
    ASSUME TableInv, NEW screen \in Screens \ {"WriteDetailView", "Picker"},
           Present(screen, db), UNCHANGED stored,
           process' \in {"running", "killed", "crashed"}
    PROVE  IInv'
<1>1. StoredInv'
  BY DEF stored, StoredInv, TableInv, TypeOK, UniqueContents, NoDanglingPhoto
<1>2. db \subseteq Bucket /\ IsFiniteSet(db) /\ db' = db
  BY DEF TableInv, TypeOK, stored
<1> QED
  BY <1>1, <1>2, PresentKeeps

\* Committing a part of the table keeps storage well-formed.
LEMMA FewerKeeps ==
    ASSUME TableInv, NEW table \in SUBSET db, Commits(table)
    PROVE  StoredInv'
<1>1. IsFiniteSet(table)
  BY FS_Subset DEF TableInv, TypeOK
<1> QED
  BY <1>1 DEF Commits, StoredInv, TableInv, TypeOK, UniqueContents, NoDanglingPhoto

\* Committing the table with one more memo, whose text is new to it.
LEMMA AddKeeps ==
    ASSUME TableInv, NEW bucket \in Bucket, NEW table \in SUBSET db,
           ~RealmAddThrows(table, bucket),
           bucket.mImageURl \in files \cup lost \cup {Blank},
           Commits(RealmAdd(table, bucket))
    PROVE  StoredInv'
<1>1. IsFiniteSet(table) /\ IsFiniteSet(table \cup {bucket})
  BY FS_Subset, FS_AddElement DEF TableInv, TypeOK
<1>2. db' = table \cup {bucket}
  BY DEF Commits, RealmAdd
<1>3. UniqueContents'
  BY <1>2 DEF UniqueContents, RealmAddThrows, Keys, TableInv
<1>4. NoDanglingPhoto'
  BY <1>2 DEF NoDanglingPhoto, Commits, TableInv
<1> QED
  BY <1>1, <1>2, <1>3, <1>4 DEF Commits, StoredInv, TableInv, TypeOK

-----------------------------------------------------------------------------
(* The table: TableInv is inductive                                          *)

\* A new memo, from either screen that adds one.
LEMMA InsertKeepsTable ==
    ASSUME TableInv, write = NoWrite, NEW bucket \in Bucket,
           bucket.mImageURl = Blank, Insert(bucket)
    PROVE  TableInv'
<1>1. CASE RealmAddThrows(db, bucket)
  BY <1>1, DiesKeeps DEF Insert, Crashes, IInv
<1>2. CASE ~RealmAddThrows(db, bucket)
  <2>1. /\ Commits(RealmAdd(db, bucket))
        /\ mDataList' = IF top = "WriteView" THEN Append(mDataList, bucket.mContent)
                                             ELSE mDataList
        /\ UNCHANGED <<top, mbVisible, detail, write>>
    BY <1>2 DEF Insert
  <2>2. StoredInv'
    BY <1>2, <2>1, AddKeeps
  <2>3. mDataList' \in Seq(Contents)
    BY <2>1, AppendFacts DEF Bucket, TableInv, TypeOK
  <2> QED
    BY <2>1, <2>2, <2>3
    DEF TableInv, TypeOK, StoredInv, PendingIsTheSave, FormPhotoKnown, Commits
<1> QED
  BY <1>1, <1>2

\* A form opened from a row.
LEMMA OpenDetailKeepsTable ==
    ASSUME TableInv, write = NoWrite, NEW c \in Contents,
           NEW back \in {"WriteView", "BucketListView"}, OpenDetail(c, back)
    PROVE  TableInv'
<1>1. CASE FilterThrows(c)
  BY <1>1, DiesKeeps DEF OpenDetail, Crashes, IInv
<1>2. CASE ~FilterThrows(c)
  <2>1. PICK today \in Dates :
          /\ top' = "WriteDetailView"
          /\ detail' \in FormsOf(db, c, back, today)
          /\ mDataList' = <<>>
          /\ UNCHANGED <<stored, process, mbVisible, write>>
    BY <1>2 DEF OpenDetail
  <2>2. detail' \in Form /\ detail'.mPhotoPath \in files \cup lost \cup {Blank}
    <3>1. CASE Find(db, c) = {}
      <4>1. detail' = [NoForm EXCEPT !.mContents = c, !.BACK = back]
        BY <2>1, <3>1 DEF FormsOf
      <4> QED
        BY <4>1, ContentsAssumption DEF NoForm, Form
    <3>2. CASE Find(db, c) # {}
      <4>1. PICK b \in db :
              detail' = [ mContents      |-> c,
                          BACK           |-> back,
                          etContent      |-> b.mContent,
                          btCheckbox     |-> b.mCompleteYN = "Y",
                          mPhotoPath     |-> b.mImageURl,
                          etDate         |-> IF b.mDate = Blank THEN today ELSE b.mDate,
                          etCompleteDate |-> IF b.mCompleteDate = Blank
                                               THEN today ELSE b.mCompleteDate ]
        BY <2>1, <3>2 DEF FormsOf, Find
      <4>2. b \in Bucket
        BY DEF TableInv, TypeOK
      <4> QED
        BY <4>1, <4>2 DEF Form, Bucket, TableInv, NoDanglingPhoto
    <3> QED
      BY <3>1, <3>2
  <2>3. mDataList' \in Seq(Contents)
    BY <2>1, EmptySeq
  <2> QED
    BY <2>1, <2>2, <2>3
    DEF TableInv, TypeOK, UniqueContents, NoDanglingPhoto, PendingIsTheSave,
        FormPhotoKnown, stored, Screens
<1> QED
  BY <1>1, <1>2

\* What the save adds is a memo.
LEMMA FormBucketFacts ==
    ASSUME NEW form \in Form
    PROVE  /\ FormBucket(form) \in Bucket
           /\ FormBucket(form).mContent = form.etContent
           /\ FormBucket(form).mImageURl = form.mPhotoPath
           /\ FormBucket(form).mCompleteYN \in {"Y", "N"}
BY DEF Form, FormBucket, Bucket

\* A field of the form changes; its picture is forgotten or stays.
LEMMA EditsKeepsTable ==
    ASSUME TableInv, NEW form \in Form, form.mPhotoPath \in {detail.mPhotoPath, Blank},
           Edits(form)
    PROVE  TableInv'
BY DEF Edits, On, TableInv, TypeOK, UniqueContents, NoDanglingPhoto, PendingIsTheSave,
       FormPhotoKnown, stored

\* Dying and starting again.
LEMMA ProcessKeeps == ASSUME TableInv, Process PROVE IInv'
<1>1. CASE Kill
  BY <1>1, DiesKeeps DEF Kill
<1>2. CASE Launch
  BY <1>2, ShowKeeps DEF Launch, Screens
<1> QED
  BY <1>1, <1>2 DEF Process

\* The buttons that lead to another screen.
LEMMA NavigationKeeps == ASSUME TableInv, Navigation PROVE IInv'
<1>1. ASSUME NEW way \in Ways, Open(way[1], way[2])
      PROVE  IInv'
  <2>1. way[2] \in Screens \ {"WriteDetailView", "Picker"}
    BY DEF Ways, Screens
  <2> QED
    BY <1>1, <2>1, ShowKeeps DEF Open, On
<1>2. ASSUME NEW screen \in Leaves, Back(screen)
      PROVE  IInv'
  BY <1>2, ShowKeeps DEF Back, On, Screens
<1> QED
  BY <1>1, <1>2 DEF Navigation

\* What WriteView and BucketListView do to a row.
LEMMA ListsKeepsTable == ASSUME TableInv, Lists PROVE TableInv'
<1>1. ASSUME NEW c \in Contents, AddMemo(c)
      PROVE  TableInv'
  <2>1. InsertedBucket(c, Blank, "N", Blank) \in Bucket
    BY DEF InsertedBucket, Bucket
  <2> QED
    BY <1>1, <2>1, InsertKeepsTable DEF AddMemo, On, InsertedBucket
<1>2. ASSUME NEW key \in SortKeys, PressSort(key)
      PROVE  TableInv'
  BY <1>2 DEF PressSort, On, TableInv, TypeOK, UniqueContents, NoDanglingPhoto,
              PendingIsTheSave, FormPhotoKnown, memory
<1>3. ASSUME NEW i \in DOMAIN mDataList
      PROVE  mDataList[i] \in Contents
  BY <1>3, ElementOfSeq, LenProperties DEF TableInv, TypeOK
<1>4. ASSUME NEW i \in DOMAIN mDataList, ModifyRow(i)
      PROVE  TableInv'
  BY <1>3, <1>4, OpenDetailKeepsTable DEF ModifyRow, On
<1>5. ASSUME NEW i \in DOMAIN mDataList, SelectRow(i)
      PROVE  TableInv'
  BY <1>3, <1>5, OpenDetailKeepsTable DEF SelectRow, On
<1>6. ASSUME NEW i \in DOMAIN mDataList, DeleteRow(i)
      PROVE  TableInv'
  <2>1. CASE FilterThrows(mDataList[i])
    BY <1>6, <2>1, DiesKeeps DEF DeleteRow, Crashes, IInv
  <2>2. CASE ~FilterThrows(mDataList[i])
    <3>1. /\ Commits(deleteUserBucket(db, mDataList[i]))
          /\ mDataList' = RemoveAt(mDataList, i)
          /\ write = NoWrite
          /\ UNCHANGED <<top, mbVisible, detail, write>>
      BY <1>6, <2>2 DEF DeleteRow, On
    <3>2. StoredInv'
      BY <3>1, FewerKeeps DEF deleteUserBucket
    <3>3. mDataList' \in Seq(Contents)
      BY <3>1, RemoveAtFacts DEF TableInv, TypeOK
    <3> QED
      BY <3>1, <3>2, <3>3
      DEF TableInv, TypeOK, StoredInv, PendingIsTheSave, FormPhotoKnown, Commits
  <2> QED
    BY <2>1, <2>2
<1> QED
  BY <1>1, <1>2, <1>4, <1>5, <1>6 DEF Lists

\* The fields of a form, and the picker above it.
LEMMA EditingKeepsTable == ASSUME TableInv, Editing PROVE TableInv'
<1> USE DEF TableInv, TypeOK
<1>1. ASSUME NEW c \in Contents, EditContent(c)
      PROVE  TableInv'
  <2>1. [detail EXCEPT !.etContent = c] \in Form
    BY DEF Form
  <2> QED
    BY <1>1, <2>1, EditsKeepsTable DEF EditContent, Form
<1>2. ASSUME NEW d \in Dates, PickDate(d)
      PROVE  TableInv'
  <2>1. [detail EXCEPT !.etDate = d] \in Form
    BY DEF Form
  <2> QED
    BY <1>2, <2>1, EditsKeepsTable DEF PickDate, Form
<1>3. ASSUME NEW d \in Dates, PickCompleteDate(d)
      PROVE  TableInv'
  <2>1. [detail EXCEPT !.etCompleteDate = d] \in Form
    BY DEF Form
  <2> QED
    BY <1>3, <2>1, EditsKeepsTable DEF PickCompleteDate, Form
<1>4. CASE ToggleComplete
  <2>1. [detail EXCEPT !.btCheckbox = ~@] \in Form
    BY DEF Form
  <2> QED
    BY <1>4, <2>1, EditsKeepsTable DEF ToggleComplete, Form
<1>5. CASE RemoveImage
  <2>1. [detail EXCEPT !.mPhotoPath = Blank] \in Form
    BY DEF Form
  <2> QED
    BY <1>5, <2>1, EditsKeepsTable DEF RemoveImage, Form
<1>6. CASE OpenPicker
  BY <1>6 DEF OpenPicker, On, UniqueContents, NoDanglingPhoto, PendingIsTheSave,
              FormPhotoKnown, stored, Screens
<1>7. CASE CancelPicker
  BY <1>7 DEF CancelPicker, On, UniqueContents, NoDanglingPhoto, PendingIsTheSave,
              FormPhotoKnown, stored, Screens
<1>8. ASSUME NEW name \in Photos, NEW written \in BOOLEAN, PickPhoto(name, written)
      PROVE  TableInv'
  <2>1. /\ files \subseteq files' /\ files' \subseteq Photos
        /\ lost \subseteq lost' /\ lost' \subseteq Photos
        /\ name \in files' \cup lost'
    BY <1>8 DEF PickPhoto
  <2>2. /\ write = NoWrite
        /\ detail' = [detail EXCEPT !.mPhotoPath = name]
        /\ top' = "WriteDetailView"
        /\ UNCHANGED <<db, sortKey, process, mDataList, mbVisible, write>>
    BY <1>8 DEF PickPhoto, On
  <2>3. detail' \in Form /\ detail'.mPhotoPath = name
    BY <2>2 DEF Form
  <2> QED
    BY <2>1, <2>2, <2>3 DEF UniqueContents, NoDanglingPhoto, PendingIsTheSave,
                            FormPhotoKnown, Screens
<1>9. CASE PickUnusable
  BY <1>9, DiesKeeps DEF PickUnusable, Crashes, IInv
<1> QED
  BY <1>1, <1>2, <1>3, <1>4, <1>5, <1>6, <1>7, <1>8, <1>9 DEF Editing

\* The screen back(strBack:) leads to.
LEMMA DetailBackToFacts == DetailBackTo \in Screens \ {"WriteDetailView", "Picker"}
BY DEF DetailBackTo, Screens

\* The steps that leave a form, but for a crash: a save, a deletion, going back.
LEMMA LeavingKeeps == ASSUME TableInv, CommitSave \/ DeleteDetail \/ DetailBack PROVE IInv'
<1> DEFINE rest == WithoutOld(db, detail.mContents)
<1>1. rest \in SUBSET db /\ db \subseteq Bucket /\ IsFiniteSet(db)
  BY DEF WithoutOld, TableInv, TypeOK
<1>2. detail \in Form
  BY DEF TableInv, TypeOK
<1> HIDE DEF rest
<1>3. CASE CommitSave
  <2>1. /\ detail.etContent \notin Keys(rest)
        /\ write.table = RealmAdd(rest, FormBucket(detail))
    BY <1>3 DEF CommitSave, TableInv, PendingIsTheSave, NoWrite, rest
  <2>2. /\ ~RealmAddThrows(rest, FormBucket(detail))
        /\ FormBucket(detail) \in Bucket
        /\ FormBucket(detail).mImageURl \in files \cup lost \cup {Blank}
    BY <1>2, <2>1, FormBucketFacts DEF RealmAddThrows, TableInv, FormPhotoKnown
  <2>3. Commits(RealmAdd(rest, FormBucket(detail))) /\ Present(DetailBackTo, write.table)
    BY <1>3, <2>1 DEF CommitSave
  <2>4. StoredInv'
    BY <1>1, <2>2, <2>3, AddKeeps
  <2>5. db' = write.table
    BY <1>3 DEF CommitSave, Commits
  <2>6. db' \subseteq Bucket /\ IsFiniteSet(db')
    BY <2>4 DEF StoredInv
  <2> QED
    BY <2>3, <2>4, <2>5, <2>6, DetailBackToFacts, PresentKeeps
<1>4. CASE DeleteDetail
  <2>1. CASE FilterThrows(detail.mContents)
    BY <1>4, <2>1, DiesKeeps DEF DeleteDetail, Crashes
  <2>2. CASE ~FilterThrows(detail.mContents)
    <3> DEFINE less == deleteUserBucket(db, detail.mContents)
    <3>1. Commits(less) /\ Present(DetailBackTo, less) /\ less \in SUBSET db
      BY <1>4, <2>2 DEF DeleteDetail, deleteUserBucket
    <3> HIDE DEF less
    <3>2. StoredInv' /\ db' = less
      BY <3>1, FewerKeeps DEF Commits
    <3> QED
      BY <3>1, <3>2, DetailBackToFacts, PresentKeeps DEF StoredInv
  <2> QED
    BY <2>1, <2>2
<1>5. CASE DetailBack
  <2>1. process' \in {"running", "killed", "crashed"}
    BY <1>5 DEF DetailBack, On
  <2> QED
    BY <1>5, <2>1, DetailBackToFacts, ShowKeeps DEF DetailBack
<1> QED
  BY <1>3, <1>4, <1>5

\* The writes of a save, and the steps that leave a form.
LEMMA SavingKeepsTable == ASSUME TableInv, Saving PROVE TableInv'
<1> DEFINE rest == WithoutOld(db, detail.mContents)
<1>1. rest \in SUBSET db /\ db \subseteq Bucket /\ IsFiniteSet(db)
  BY DEF WithoutOld, TableInv, TypeOK
<1>2. detail \in Form
  BY DEF TableInv, TypeOK
<1> HIDE DEF rest
<1>3. CASE BeginSave
  <2>1. CASE FilterThrows(detail.mContents)
    BY <1>3, <2>1, DiesKeeps DEF BeginSave, Crashes, IInv
  <2>2. CASE ~FilterThrows(detail.mContents)
    <3>1. /\ write' = [stage |-> "removed", table |-> rest]
          /\ process = "running" /\ top = "WriteDetailView"
          /\ UNCHANGED <<stored, process, top, mDataList, mbVisible, detail>>
      BY <1>3, <2>2 DEF BeginSave, On, rest
    <3>2. PendingIsTheSave'
      BY <3>1 DEF PendingIsTheSave, stored, rest
    <3> QED
      BY <1>1, <3>1, <3>2 DEF TableInv, TypeOK, UniqueContents, NoDanglingPhoto,
                              FormPhotoKnown, stored
  <2> QED
    BY <2>1, <2>2
<1>4. CASE AddSaved
  <2>1. /\ write.stage = "removed" /\ write.table = rest
        /\ process = "running" /\ top = "WriteDetailView"
    BY <1>4 DEF AddSaved, TableInv, PendingIsTheSave, NoWrite, rest
  <2>2. CASE RealmAddThrows(write.table, FormBucket(detail))
    BY <1>4, <2>2, DiesKeeps DEF AddSaved, Crashes, IInv
  <2>3. CASE ~RealmAddThrows(write.table, FormBucket(detail))
    <3>1. /\ write' = [stage |-> "added", table |-> RealmAdd(rest, FormBucket(detail))]
          /\ UNCHANGED <<stored, process, top, mDataList, mbVisible, detail>>
      BY <1>4, <2>1, <2>3 DEF AddSaved
    <3>2. detail.etContent \notin Keys(rest)
      BY <1>2, <2>1, <2>3, FormBucketFacts DEF RealmAddThrows
    <3>3. PendingIsTheSave'
      BY <2>1, <3>1, <3>2 DEF PendingIsTheSave, stored, rest
    <3>4. write'.table \subseteq Bucket
      BY <1>1, <1>2, <3>1, FormBucketFacts DEF RealmAdd
    <3> QED
      BY <3>1, <3>3, <3>4 DEF TableInv, TypeOK, UniqueContents, NoDanglingPhoto,
                              FormPhotoKnown, stored
  <2> QED
    BY <2>2, <2>3
<1> QED
  BY <1>3, <1>4, LeavingKeeps DEF Saving, IInv

\* AddBucketView and DBMgrView.
LEMMA SettingsKeepsTable == ASSUME TableInv, Settings PROVE TableInv'
<1>1. CASE ToggleVisible
  BY <1>1 DEF ToggleVisible, On, TableInv, TypeOK, UniqueContents, NoDanglingPhoto,
              PendingIsTheSave, FormPhotoKnown, stored
<1>2. ASSUME NEW c \in Dream, AddDream(c)
      PROVE  TableInv'
  <2>1. PICK date \in Dates : Insert(InsertedBucket(c, date, "N", Blank))
    BY <1>2 DEF AddDream
  <2>2. InsertedBucket(c, date, "N", Blank) \in Bucket
    BY DreamAssumption DEF InsertedBucket, Bucket, Plain
  <2> QED
    BY <1>2, <2>1, <2>2, InsertKeepsTable DEF AddDream, On, InsertedBucket
<1>3. ASSUME NEW table \in SUBSET db, write = NoWrite, Commits(table), UNCHANGED memory
      PROVE  TableInv'
  <2>1. StoredInv'
    BY <1>3, FewerKeeps
  <2> QED
    BY <1>3, <2>1 DEF memory, TableInv, TypeOK, StoredInv, PendingIsTheSave,
                      FormPhotoKnown, Commits
<1>4. ASSUME NEW c \in Dream, DeleteDream(c)
      PROVE  TableInv'
  BY <1>3, <1>4 DEF DeleteDream, deleteUserBucket, On
<1>5. CASE ResetTable
  BY <1>3, <1>5 DEF ResetTable, DeleteBucketContents, On
<1> QED
  BY <1>1, <1>2, <1>4, <1>5 DEF Settings

\* TableInv is inductive.
LEMMA TableStep == ASSUME TableInv, [Next]_vars PROVE TableInv'
<1>1. CASE Next
  BY <1>1, ProcessKeeps, NavigationKeeps, ListsKeepsTable, EditingKeepsTable,
     SavingKeepsTable, SettingsKeepsTable DEF Next, IInv
<1>2. CASE UNCHANGED vars
  BY <1>2 DEF vars, stored, memory, TableInv, TypeOK, UniqueContents, NoDanglingPhoto,
              PendingIsTheSave, FormPhotoKnown
<1> QED
  BY <1>1, <1>2

\* A new installation is in the invariant.
LEMMA InitTable == Init => IInv
<1> SUFFICES ASSUME Init PROVE IInv
  OBVIOUS
<1>1. NoForm \in Form
  BY ContentsAssumption DEF NoForm, Form
<1>2. TypeOK
  BY <1>1, FS_EmptySet, EmptySeq DEF Init, TypeOK, Screens, NoWrite
<1> QED
  BY <1>2 DEF Init, IInv, TableInv, ScreenInv, UniqueContents, NoDanglingPhoto,
              PendingIsTheSave, FormPhotoKnown, FormOpened, ListShowsStore,
              DetailShowsStored, NoForm

\* Every reachable state of the memo screens has the types of the module and is
\* in the part of the invariant that does not depend on what literals denote.
THEOREM TableInvariant == Spec => []TableInv
<1>1. Init => TableInv
  BY InitTable DEF IInv
<1>2. TableInv /\ [Next]_vars => TableInv'
  BY TableStep
<1> QED
  BY <1>1, <1>2, PTL DEF Spec

\* Type correctness of the memo screens.
THEOREM TypeCorrect == Spec => []TypeOK
<1>1. TableInv => TypeOK
  BY DEF TableInv
<1> QED
  BY <1>1, TableInvariant, PTL

\* Two memos never have one text, also across a save that dies half way and
\* whatever texts the user types.
THEOREM ContentsAreUnique == Spec => []UniqueContents
<1>1. TableInv => UniqueContents
  BY DEF TableInv
<1> QED
  BY <1>1, TableInvariant, PTL

\* No stored memo names a picture that was never written or was taken away.
THEOREM PhotosAreKept == Spec => []NoDanglingPhoto
<1>1. TableInv => NoDanglingPhoto
  BY DEF TableInv
<1> QED
  BY <1>1, TableInvariant, PTL

-----------------------------------------------------------------------------
(* What a filter by a text keeps                                             *)

\* The memos of the other texts.
Others(table, c) == {b \in table : b.mContent # c}

\* A filter that does not raise keeps the memos of its text.
LEMMA FilterFacts ==
    ASSUME NoEscapes, NEW c \in Contents, ~FilterThrows(c), NEW table
    PROVE  /\ Find(table, c) = {b \in table : b.mContent = c}
           /\ deleteUserBucket(table, c) = Others(table, c)
<1>1. Literal[c] = c
  BY DEF NoEscapes, FilterThrows
<1> QED
  BY <1>1 DEF Find, deleteUserBucket, Others

\* A row is the text of a memo of the table.
LEMMA RowFacts ==
    ASSUME IInv, top \in {"WriteView", "BucketListView"}, NEW i \in DOMAIN mDataList
    PROVE  mDataList[i] \in Contents /\ mDataList[i] \in Keys(db)
<1>1. mDataList[i] \in Contents
  BY ElementOfSeq, LenProperties DEF IInv, TableInv, TypeOK
<1>2. mDataList[i] \in ToSet(mDataList)
  BY DEF ToSet
<1> QED
  BY <1>1, <1>2 DEF IInv, ScreenInv, ListShowsStore, Keys

\* The table a save of the form in front starts from.
LEMMA SavedOverFacts ==
    ASSUME NoEscapes, IInv, top = "WriteDetailView"
    PROVE  /\ detail.mContents \in Contents
           /\ WithoutOld(db, detail.mContents) = Others(db, detail.mContents)
<1>1. /\ detail.mContents \in Contents
      /\ ~FilterThrows(detail.mContents)
      /\ UniqueContents
  BY DEF IInv, TableInv, TypeOK, ScreenInv, FormOpened, Form
<1>2. WithoutOld(db, detail.mContents) = db \ Find(db, detail.mContents)
  BY <1>1, WithoutOldFacts DEF UniqueContents
<1> QED
  BY <1>1, <1>2, FilterFacts DEF Others

-----------------------------------------------------------------------------
(* IInv is inductive                                                         *)

\* A new memo appears as the last row of WriteView.
LEMMA InsertKeepsScreens ==
    ASSUME IInv, NEW c \in Contents, NEW bucket \in Bucket,
           bucket.mContent = c, bucket.mCompleteYN = Blank,
           top \in {"WriteView", "AddBucketView"},
           top = "WriteView" => ~checkduplicateData(c),
           Insert(bucket)
    PROVE  ScreenInv'
<1>1. CASE RealmAddThrows(db, bucket)
  BY <1>1, DiesKeeps DEF Insert, Crashes, IInv
<1>2. CASE ~RealmAddThrows(db, bucket)
  <2>1. /\ db' = db \cup {bucket}
        /\ mDataList' = IF top = "WriteView" THEN Append(mDataList, c) ELSE mDataList
        /\ UNCHANGED <<top, detail>>
    BY <1>2 DEF Insert, Commits, RealmAdd
  <2>2. CASE top = "WriteView"
    <3>1. /\ ToSet(mDataList') = ToSet(mDataList) \cup {c}
          /\ IsInjective(mDataList')
      BY <2>1, <2>2, AppendFacts
      DEF checkduplicateData, IInv, TableInv, TypeOK, ScreenInv, ListShowsStore
    <3> QED
      BY <2>1, <2>2, <3>1
      DEF IInv, ScreenInv, ListShowsStore, FormOpened, DetailShowsStored, Blank
  <2>3. CASE top # "WriteView"
    BY <2>1, <2>3 DEF ScreenInv, ListShowsStore, FormOpened, DetailShowsStored
  <2> QED
    BY <2>2, <2>3
<1> QED
  BY <1>1, <1>2

\* A form opened from a row is about a memo of the table.
LEMMA OpenDetailKeepsScreens ==
    ASSUME IInv, NEW c \in Contents, c \in Keys(db), NEW back, OpenDetail(c, back)
    PROVE  ScreenInv'
<1>1. CASE FilterThrows(c)
  BY <1>1, DiesKeeps DEF OpenDetail, Crashes, IInv
<1>2. CASE ~FilterThrows(c)
  <2>1. PICK today \in Dates :
          /\ top' = "WriteDetailView"
          /\ detail' \in FormsOf(db, c, back, today)
          /\ db' = db
    BY <1>2 DEF OpenDetail, stored
  <2>2. detail'.mContents = c
    <3>1. CASE Find(db, c) = {}
      <4>1. detail' = [NoForm EXCEPT !.mContents = c, !.BACK = back]
        BY <2>1, <3>1 DEF FormsOf
      <4> QED
        BY <4>1 DEF NoForm
    <3>2. CASE Find(db, c) # {}
      BY <2>1, <3>2 DEF FormsOf
    <3> QED
      BY <3>1, <3>2
  <2> QED
    BY <1>2, <2>1, <2>2
    DEF ScreenInv, ListShowsStore, FormOpened, DetailShowsStored, FilterThrows
<1> QED
  BY <1>1, <1>2

\* Deleting a row takes its memo out of the rows and out of the table.
LEMMA DeleteRowKeepsScreens ==
    ASSUME NoEscapes, IInv, NEW i \in DOMAIN mDataList, DeleteRow(i)
    PROVE  ScreenInv'
<1> DEFINE c == mDataList[i]
<1>1. top = "WriteView" /\ c \in Contents
  BY RowFacts DEF DeleteRow, On
<1>2. CASE FilterThrows(c)
  BY <1>2, DiesKeeps DEF DeleteRow, Crashes, IInv
<1>3. CASE ~FilterThrows(c)
  <2>1. /\ db' = Others(db, c)
        /\ mDataList' = RemoveAt(mDataList, i)
        /\ top' = "WriteView"
    BY <1>1, <1>3, FilterFacts DEF DeleteRow, Commits
  <2>2. /\ ToSet(mDataList') = ToSet(mDataList) \ {c}
        /\ IsInjective(mDataList')
    BY <1>1, <2>1, RemoveAtFacts DEF IInv, TableInv, TypeOK, ScreenInv, ListShowsStore
  <2> QED
    BY <1>1, <2>1, <2>2
    DEF Others, IInv, ScreenInv, ListShowsStore, FormOpened, DetailShowsStored
<1> QED
  BY <1>2, <1>3

\* ScreenInv is inductive, beside TableInv.
LEMMA ScreenStep == ASSUME NoEscapes, IInv, [Next]_vars PROVE ScreenInv'
<1> USE DEF IInv
<1>1. CASE Process \/ Navigation
  BY <1>1, ProcessKeeps, NavigationKeeps
<1>2. CASE Lists
  <2>1. ASSUME NEW c \in Contents, AddMemo(c)
        PROVE  ScreenInv'
    <3>1. InsertedBucket(c, Blank, "N", Blank) \in Bucket
      BY DEF InsertedBucket, Bucket
    <3> QED
      BY <2>1, <3>1, InsertKeepsScreens DEF AddMemo, On, InsertedBucket
  <2>2. ASSUME NEW key \in SortKeys, PressSort(key)
        PROVE  ScreenInv'
    BY <2>2 DEF PressSort, memory, ScreenInv, FormOpened, ListShowsStore,
                DetailShowsStored, FilterThrows
  <2>3. ASSUME NEW i \in DOMAIN mDataList, ModifyRow(i) \/ SelectRow(i)
        PROVE  ScreenInv'
    <3>1. mDataList[i] \in Contents /\ mDataList[i] \in Keys(db)
      BY <2>3, RowFacts DEF ModifyRow, SelectRow, On
    <3> QED
      BY <2>3, <3>1, OpenDetailKeepsScreens DEF ModifyRow, SelectRow
  <2>4. ASSUME NEW i \in DOMAIN mDataList, DeleteRow(i)
        PROVE  ScreenInv'
    BY <2>4, DeleteRowKeepsScreens
  <2> QED
    BY <1>2, <2>1, <2>2, <2>3, <2>4 DEF Lists
<1>3. ASSUME top \in {"WriteDetailView", "Picker"}, top' \in {"WriteDetailView", "Picker"},
             db' = db, detail'.mContents = detail.mContents
      PROVE  ScreenInv'
  BY <1>3 DEF ScreenInv, FormOpened, ListShowsStore, DetailShowsStored, FilterThrows
<1>4. CASE Editing
  <2>1. ASSUME NEW form, form.mContents = detail.mContents, Edits(form)
        PROVE  ScreenInv'
    BY <1>3, <2>1 DEF Edits, On, stored
  <2>2. detail \in Form
    BY DEF TableInv, TypeOK
  <2>3. ASSUME NEW c \in Contents, EditContent(c)
        PROVE  ScreenInv'
    BY <2>1, <2>2, <2>3 DEF EditContent, Form
  <2>4. ASSUME NEW d \in Dates, PickDate(d) \/ PickCompleteDate(d)
        PROVE  ScreenInv'
    BY <2>1, <2>2, <2>4 DEF PickDate, PickCompleteDate, Form
  <2>5. CASE ToggleComplete \/ RemoveImage
    BY <2>1, <2>2, <2>5 DEF ToggleComplete, RemoveImage, Form
  <2>6. CASE OpenPicker \/ CancelPicker
    BY <1>3, <2>6 DEF OpenPicker, CancelPicker, On, stored
  <2>7. ASSUME NEW name \in Photos, NEW written \in BOOLEAN, PickPhoto(name, written)
        PROVE  ScreenInv'
    BY <1>3, <2>2, <2>7 DEF PickPhoto, On, Form
  <2>8. CASE PickUnusable
    BY <2>8, DiesKeeps DEF PickUnusable, Crashes
  <2> QED
    BY <1>4, <2>3, <2>4, <2>5, <2>6, <2>7, <2>8 DEF Editing
<1>5. CASE Saving
  <2>1. CASE BeginSave
    BY <1>3, <2>1, DiesKeeps DEF BeginSave, Crashes, On, stored
  <2>2. CASE AddSaved
    <3>1. top = "WriteDetailView"
      BY <2>2 DEF AddSaved, TableInv, PendingIsTheSave, NoWrite
    <3> QED
      BY <1>3, <2>2, <3>1, DiesKeeps DEF AddSaved, Crashes, stored
  <2> QED
    BY <1>5, <2>1, <2>2, LeavingKeeps DEF Saving
<1>6. CASE Settings
  <2>1. ASSUME NEW c \in Dream, AddDream(c)
        PROVE  ScreenInv'
    <3>1. PICK date \in Dates : Insert(InsertedBucket(c, date, "N", Blank))
      BY <2>1 DEF AddDream
    <3>2. c \in Contents /\ InsertedBucket(c, date, "N", Blank) \in Bucket
      BY DreamAssumption DEF InsertedBucket, Bucket, Plain
    <3> QED
      BY <2>1, <3>1, <3>2, InsertKeepsScreens DEF AddDream, On, InsertedBucket
  <2>2. ASSUME top \in {"AddBucketView", "DBMgrView"}, top' = top
        PROVE  ScreenInv'
    BY <2>2 DEF ScreenInv, FormOpened, ListShowsStore, DetailShowsStored
  <2>3. ASSUME NEW c \in Dream, DeleteDream(c)
        PROVE  ScreenInv'
    BY <2>2, <2>3 DEF DeleteDream, On, memory
  <2>4. CASE ToggleVisible \/ ResetTable
    BY <2>2, <2>4 DEF ToggleVisible, ResetTable, On, memory
  <2> QED
    BY <1>6, <2>1, <2>3, <2>4 DEF Settings
<1>7. CASE UNCHANGED vars
  BY <1>7 DEF vars, stored, memory, ScreenInv, FormOpened, ListShowsStore,
              DetailShowsStored, FilterThrows
<1> QED
  BY <1>1, <1>2, <1>4, <1>5, <1>6, <1>7 DEF Next

\* For texts without a backslash, every reachable state is in the inductive
\* invariant.
THEOREM Invariant == ASSUME NoEscapes PROVE Spec => []IInv
<1>1. Init => IInv
  BY InitTable
<1>2. IInv /\ [Next]_vars => IInv'
  BY TableStep, ScreenStep DEF IInv
<1> QED
  BY <1>1, <1>2, PTL DEF Spec

\* The rows of a list screen are the memos it stands for, through every insert,
\* delete, crash and way between the screens.
THEOREM RowsShowStore == ASSUME NoEscapes PROVE Spec => []ListShowsStore
<1>1. IInv => ListShowsStore
  BY DEF IInv, ScreenInv
<1> QED
  BY <1>1, Invariant, PTL

\* A form in front is about a memo of the table.
THEOREM FormIsStored == ASSUME NoEscapes PROVE Spec => []DetailShowsStored
<1>1. IInv => DetailShowsStored
  BY DEF IInv, ScreenInv
<1> QED
  BY <1>1, Invariant, PTL

-----------------------------------------------------------------------------
(* The ways the table changes                                                *)

\* Both screens that add a memo add a fresh one, under a text that is new.
Added(c) ==
    /\ top \in {"WriteView", "AddBucketView"}
    /\ c \notin Keys(db)
    /\ db' = db \cup {InsertedBucket(c, Blank, "N", Blank)}

\* The row of a memo is deleted, and the memo with it.
RowDeleted(i) ==
    /\ top = "WriteView"
    /\ mDataList' = RemoveAt(mDataList, i)
    /\ db' = Others(db, mDataList[i])

\* A form is saved.
Saved ==
    /\ top = "WriteDetailView"
    /\ detail.etContent \notin Keys(Others(db, detail.mContents))
    /\ db' = Others(db, detail.mContents) \cup {FormBucket(detail)}

\* The memo of a form is deleted.
FormDeleted ==
    /\ top = "WriteDetailView"
    /\ db' = Others(db, detail.mContents)

\* A dream is deleted.
DreamDeleted(c) ==
    /\ top = "AddBucketView"
    /\ db' = Others(db, c)

\* The table is emptied.
Emptied == top = "DBMgrView" /\ db' = {}

\* A new memo, or a crash that leaves the table.
LEMMA InsertFacts ==
    ASSUME NEW bucket, Insert(bucket)
    PROVE  \/ db' = db
           \/ bucket.mContent \notin Keys(db) /\ db' = db \cup {bucket}
BY DEF Insert, Crashes, Dies, stored, Commits, RealmAdd, RealmAddThrows

\* Whatever happens, the table changes in one of the ways above or not at all.
LEMMA StoreStep ==
    ASSUME NoEscapes, IInv, [Next]_vars
    PROVE  \/ db' = db
           \/ \E c \in Contents : Added(c)
           \/ \E i \in DOMAIN mDataList : RowDeleted(i)
           \/ Saved
           \/ FormDeleted
           \/ \E c \in Dream : DreamDeleted(c)
           \/ Emptied
<1>1. CASE Process \/ Navigation
  BY <1>1 DEF Process, Navigation, Kill, Launch, Open, Back, Dies, stored
<1>2. CASE Lists
  <2>1. ASSUME NEW c \in Contents, AddMemo(c)
        PROVE  db' = db \/ Added(c)
    BY <2>1, InsertFacts DEF AddMemo, On, InsertedBucket, Added
  <2>2. ASSUME NEW key \in SortKeys, PressSort(key)
        PROVE  db' = db
    BY <2>2 DEF PressSort
  <2>3. ASSUME NEW i \in DOMAIN mDataList, ModifyRow(i) \/ SelectRow(i)
        PROVE  db' = db
    BY <2>3 DEF ModifyRow, SelectRow, OpenDetail, Crashes, Dies, stored
  <2>4. ASSUME NEW i \in DOMAIN mDataList, DeleteRow(i)
        PROVE  db' = db \/ RowDeleted(i)
    <3>1. top = "WriteView" /\ mDataList[i] \in Contents
      BY <2>4, RowFacts DEF DeleteRow, On
    <3>2. CASE FilterThrows(mDataList[i])
      BY <2>4, <3>2 DEF DeleteRow, Crashes, Dies, stored
    <3>3. CASE ~FilterThrows(mDataList[i])
      BY <2>4, <3>1, <3>3, FilterFacts DEF DeleteRow, Commits, RowDeleted
    <3> QED
      BY <3>2, <3>3
  <2> QED
    BY <1>2, <2>1, <2>2, <2>3, <2>4 DEF Lists
<1>3. CASE Editing
  BY <1>3 DEF Editing, EditContent, PickDate, PickCompleteDate, ToggleComplete,
              RemoveImage, Edits, OpenPicker, CancelPicker, PickPhoto,
              PickUnusable, Crashes, Dies, stored
<1>4. CASE Saving
  <2>1. CASE BeginSave \/ AddSaved \/ DetailBack
    BY <2>1 DEF BeginSave, AddSaved, DetailBack, Crashes, Dies, stored
  <2>2. CASE CommitSave
    <3>1. /\ top = "WriteDetailView"
          /\ detail.etContent \notin Keys(WithoutOld(db, detail.mContents))
          /\ write.table = RealmAdd(WithoutOld(db, detail.mContents), FormBucket(detail))
      BY <2>2 DEF CommitSave, IInv, TableInv, PendingIsTheSave, NoWrite
    <3>2. db' = write.table
      BY <2>2 DEF CommitSave, Commits
    <3> QED
      BY <3>1, <3>2, SavedOverFacts DEF Saved, RealmAdd
  <2>3. CASE DeleteDetail
    <3>1. /\ top = "WriteDetailView"
          /\ detail.mContents \in Contents
          /\ ~FilterThrows(detail.mContents)
      BY <2>3, SavedOverFacts DEF DeleteDetail, On, IInv, ScreenInv, FormOpened
    <3> QED
      BY <2>3, <3>1, FilterFacts DEF DeleteDetail, Commits, FormDeleted
  <2> QED
    BY <1>4, <2>1, <2>2, <2>3 DEF Saving
<1>5. CASE Settings
  <2>1. ASSUME NEW c \in Dream
        PROVE  c \in Contents /\ ~FilterThrows(c)
    BY DreamAssumption, LiteralAssumption DEF Plain, FilterThrows
  <2>2. ASSUME NEW c \in Dream, AddDream(c)
        PROVE  db' = db \/ Added(c)
    <3>1. PICK date \in Dates : Insert(InsertedBucket(c, date, "N", Blank))
      BY <2>2 DEF AddDream
    <3> QED
      BY <2>2, <3>1, InsertFacts DEF AddDream, On, InsertedBucket, Added
  <2>3. ASSUME NEW c \in Dream, DeleteDream(c)
        PROVE  DreamDeleted(c)
    BY <2>1, <2>3, FilterFacts DEF DeleteDream, On, Commits, DreamDeleted
  <2>4. CASE ToggleVisible
    BY <2>4 DEF ToggleVisible, stored
  <2>5. CASE ResetTable
    BY <2>5 DEF ResetTable, On, Commits, DeleteBucketContents, Emptied
  <2> QED
    BY <1>5, <2>1, <2>2, <2>3, <2>4, <2>5 DEF Settings
<1>6. CASE UNCHANGED vars
  BY <1>6 DEF vars, stored
<1> QED
  BY <1>1, <1>2, <1>3, <1>4, <1>5, <1>6 DEF Next

-----------------------------------------------------------------------------
(* Action properties                                                         *)

\* The texts of the memos that stay.
LEMMA KeysOfOthers ==
    ASSUME NEW table, NEW c
    PROVE  Keys(Others(table, c)) = Keys(table) \ {c}
BY DEF Keys, Others

\* The texts of a table with one more memo.
LEMMA KeysOfAdded ==
    ASSUME NEW table, NEW bucket
    PROVE  Keys(table \cup {bucket}) = Keys(table) \cup {bucket.mContent}
BY DEF Keys

\* Saving or deleting on the form of one memo leaves every other memo as it was.
THEOREM OthersSurvive == ASSUME NoEscapes PROVE Spec => OtherMemosSurviveEdit
<1>1. ASSUME IInv, [Next]_vars, top = "WriteDetailView",
             NEW b \in db, b.mContent # detail.mContents
      PROVE  b \in db'
  BY <1>1, StoreStep DEF Added, RowDeleted, Saved, FormDeleted, DreamDeleted, Emptied,
                         Others
<1>2. IInv /\ [Next]_vars =>
        [top = "WriteDetailView" =>
           \A b \in db : b.mContent # detail.mContents => b \in db']_vars
  BY <1>1
<1> QED
  BY <1>2, Invariant, PTL DEF Spec, OtherMemosSurviveEdit

\* A memo leaves the table only when the user asks for that one.
THEOREM LeaveOnlyOnRequest == ASSUME NoEscapes PROVE Spec => MemosLeaveOnlyOnRequest
<1> DEFINE Request(c) ==
             \/ /\ top = "WriteView"
                /\ ToSet(mDataList') = ToSet(mDataList) \ {c}
                /\ Keys(db') = Keys(db) \ {c}
             \/ /\ top = "WriteDetailView"
                /\ c = detail.mContents
                /\ Keys(db') \in {Keys(db) \ {c}, (Keys(db) \ {c}) \cup {detail.etContent}}
             \/ /\ top = "AddBucketView"
                /\ c \in Dream
                /\ Keys(db') = Keys(db) \ {c}
             \/ top = "DBMgrView"
<1>1. ASSUME IInv, [Next]_vars, NEW c \in Keys(db) \ Keys(db')
      PROVE  Request(c)
  <2>1. CASE db' = db
    BY <1>1, <2>1
  <2>2. CASE \E d \in Contents : Added(d)
    BY <1>1, <2>2 DEF Added, Keys
  <2>3. ASSUME NEW i \in DOMAIN mDataList, RowDeleted(i)
        PROVE  Request(c)
    <3>1. Keys(db') = Keys(db) \ {mDataList[i]}
      BY <2>3, KeysOfOthers DEF RowDeleted
    <3>2. ToSet(mDataList') = ToSet(mDataList) \ {mDataList[i]}
      BY <1>1, <2>3, RemoveAtFacts
      DEF RowDeleted, IInv, TableInv, TypeOK, ScreenInv, ListShowsStore
    <3> QED
      BY <1>1, <2>3, <3>1, <3>2 DEF RowDeleted
  <2>4. CASE Saved
    <3>1. Keys(db') = Keys(Others(db, detail.mContents)) \cup {detail.etContent}
      BY <2>4, KeysOfAdded DEF Saved, FormBucket
    <3>2. Keys(db') = (Keys(db) \ {detail.mContents}) \cup {detail.etContent}
      BY <3>1, KeysOfOthers
    <3>3. c = detail.mContents
      BY <1>1, <3>2
    <3> QED
      BY <2>4, <3>2, <3>3 DEF Saved
  <2>5. CASE FormDeleted
    BY <1>1, <2>5, KeysOfOthers DEF FormDeleted
  <2>6. ASSUME NEW d \in Dream, DreamDeleted(d)
        PROVE  Request(c)
    BY <1>1, <2>6, KeysOfOthers DEF DreamDeleted
  <2>7. CASE Emptied
    BY <2>7 DEF Emptied
  <2> QED
    BY <1>1, <2>1, <2>2, <2>3, <2>4, <2>5, <2>6, <2>7, StoreStep
<1>2. IInv /\ [Next]_vars => [\A c \in Keys(db) \ Keys(db') : Request(c)]_vars
  BY <1>1
<1> QED
  BY <1>2, Invariant, PTL DEF Spec, MemosLeaveOnlyOnRequest

\* The application only crashes for the causes named.
THEOREM CrashesOnlyFor == ASSUME NoEscapes PROVE Spec => CrashCauses
<1> DEFINE Cause ==
             \/ \E c \in Keys(db) : FilterThrows(c)
             \/ top = "WriteView" /\ \E b \in db : b.mContent # EmptyText /\ b.mCompleteYN = "Y"
             \/ /\ top = "WriteDetailView"
                /\ detail.etContent # detail.mContents
                /\ detail.etContent \in Keys(db)
             \/ top = "Picker"
<1>1. ASSUME IInv, Next, process = "running", process' = "crashed"
      PROVE  Cause
  <2>1. CASE Process \/ Navigation
    BY <1>1, <2>1 DEF Process, Navigation, Kill, Launch, Dies, Open, Back
  <2>2. CASE Lists
    <3>1. ASSUME NEW c \in Contents, AddMemo(c)
          PROVE  Cause
      <4>1. top = "WriteView" /\ c \notin ToSet(mDataList) /\ c \in Keys(db)
        BY <1>1, <3>1
        DEF AddMemo, On, checkduplicateData, Insert, Commits, RealmAddThrows, InsertedBucket
      <4>2. PICK b \in db : b.mContent = c
        BY <4>1 DEF Keys
      <4> QED
        BY <1>1, <4>1, <4>2 DEF IInv, ScreenInv, ListShowsStore
    <3>2. ASSUME NEW key \in SortKeys, PressSort(key)
          PROVE  FALSE
      BY <1>1, <3>2 DEF PressSort
    <3>3. ASSUME NEW i \in DOMAIN mDataList, ModifyRow(i) \/ SelectRow(i) \/ DeleteRow(i)
          PROVE  FilterThrows(mDataList[i]) /\ mDataList[i] \in Keys(db)
      BY <1>1, <3>3, RowFacts DEF ModifyRow, SelectRow, DeleteRow, OpenDetail, On, Commits
    <3> QED
      BY <2>2, <3>1, <3>2, <3>3 DEF Lists
  <2>3. CASE Editing
    BY <1>1, <2>3 DEF Editing, EditContent, PickDate, PickCompleteDate, ToggleComplete,
                      RemoveImage, Edits, OpenPicker, CancelPicker, PickPhoto,
                      PickUnusable, On
  <2>4. CASE Saving
    <3>1. ~(BeginSave \/ DeleteDetail)
      BY <1>1 DEF BeginSave, DeleteDetail, On, Commits, IInv, ScreenInv, FormOpened
    <3>2. ~(CommitSave \/ DetailBack)
      BY <1>1 DEF CommitSave, DetailBack, Commits
    <3>3. CASE AddSaved
      <4>1. /\ top = "WriteDetailView"
            /\ write.table = WithoutOld(db, detail.mContents)
        BY <1>1, <3>3 DEF AddSaved, IInv, TableInv, PendingIsTheSave, NoWrite
      <4>2. detail.etContent \in Keys(write.table)
        BY <1>1, <3>3 DEF AddSaved, RealmAddThrows, FormBucket
      <4>3. detail.etContent \in Keys(db) \ {detail.mContents}
        BY <1>1, <4>1, <4>2, SavedOverFacts, KeysOfOthers
      <4> QED
        BY <4>1, <4>3
    <3> QED
      BY <2>4, <3>1, <3>2, <3>3 DEF Saving
  <2>5. CASE Settings
    <3>1. ASSUME NEW c \in Dream, AddDream(c)
          PROVE  FALSE
      <4>1. Literal[c] = c
        BY DreamAssumption DEF Plain
      <4> QED
        BY <1>1, <3>1, <4>1
        DEF AddDream, containsKbucket, Find, Insert, Commits, RealmAddThrows,
            InsertedBucket, Keys
    <3> QED
      BY <1>1, <2>5, <3>1 DEF Settings, ToggleVisible, DeleteDream, ResetTable, Commits
  <2> QED
    BY <1>1, <2>1, <2>2, <2>3, <2>4, <2>5 DEF Next
<1>2. IInv /\ [Next]_vars => [process = "running" /\ process' = "crashed" => Cause]_vars
  BY <1>1
<1> QED
  BY <1>2, Invariant, PTL DEF Spec, CrashCauses

-----------------------------------------------------------------------------
(* Refinement                                                                *)

\* What a memo says, read off a table that has it.
LEMMA BookOfMemo ==
    ASSUME NEW table, \A a, b \in table : a.mContent = b.mContent => a = b,
           NEW m \in table, m.mContent \in Contents
    PROVE  BookOf(table)[m.mContent] = Says(m)
<1>1. m.mContent \in Keys(table)
  BY DEF Keys
<1>2. (CHOOSE b \in table : b.mContent = m.mContent) = m
  OBVIOUS
<1> QED
  BY <1>1, <1>2 DEF BookOf

\* The book of a table without the memo of a text.
LEMMA BookOfOthers ==
    ASSUME NEW table, \A a, b \in table : a.mContent = b.mContent => a = b,
           NEW c \in Contents
    PROVE  BookOf(Others(table, c)) = [BookOf(table) EXCEPT ![c] = Absent]
<1>1. ASSUME NEW d \in Contents, d # c, d \in Keys(table)
      PROVE  BookOf(Others(table, c))[d] = BookOf(table)[d]
  <2>1. PICK m \in table : m.mContent = d
    BY <1>1 DEF Keys
  <2>2. m \in Others(table, c)
    BY <1>1, <2>1 DEF Others
  <2> QED
    BY <2>1, <2>2, BookOfMemo DEF Others
<1>2. ASSUME NEW d \in Contents, d = c \/ d \notin Keys(table)
      PROVE  BookOf(Others(table, c))[d] = Absent
  BY <1>2, KeysOfOthers DEF BookOf
<1>3. ASSUME NEW d \in Contents, d \notin Keys(table)
      PROVE  BookOf(table)[d] = Absent
  BY <1>3 DEF BookOf
<1>4. ASSUME NEW d \in Contents
      PROVE  BookOf(Others(table, c))[d] =
               IF d = c THEN Absent ELSE BookOf(table)[d]
  BY <1>1, <1>2, <1>3
<1>5. /\ BookOf(Others(table, c)) = [d \in Contents |-> BookOf(Others(table, c))[d]]
      /\ BookOf(table) = [d \in Contents |-> BookOf(table)[d]]
  BY DEF BookOf
<1> QED
  BY <1>4, <1>5

\* The book of a table with one more memo.
LEMMA BookOfAdded ==
    ASSUME NEW table, \A a, b \in table : a.mContent = b.mContent => a = b,
           NEW m, m.mContent \in Contents, m.mContent \notin Keys(table)
    PROVE  BookOf(table \cup {m}) = [BookOf(table) EXCEPT ![m.mContent] = Says(m)]
<1> DEFINE more == table \cup {m}
<1>1. \A a, b \in more : a.mContent = b.mContent => a = b
  BY DEF Keys
<1>2. BookOf(more)[m.mContent] = Says(m)
  BY <1>1, BookOfMemo
<1>3. ASSUME NEW d \in Contents, d # m.mContent, d \in Keys(table)
      PROVE  BookOf(more)[d] = BookOf(table)[d]
  <2>1. PICK b \in table : b.mContent = d
    BY <1>3 DEF Keys
  <2> QED
    BY <1>1, <2>1, BookOfMemo
<1>4. ASSUME NEW d \in Contents, d # m.mContent, d \notin Keys(table)
      PROVE  BookOf(more)[d] = BookOf(table)[d]
  BY <1>4, KeysOfAdded DEF BookOf
<1>5. ASSUME NEW d \in Contents
      PROVE  BookOf(more)[d] = IF d = m.mContent THEN Says(m) ELSE BookOf(table)[d]
  BY <1>2, <1>3, <1>4
<1>6. /\ BookOf(more) = [d \in Contents |-> BookOf(more)[d]]
      /\ BookOf(table) = [d \in Contents |-> BookOf(table)[d]]
  BY DEF BookOf
<1> QED
  BY <1>5, <1>6

\* A text has a memo in the book exactly if it has one in the table.
LEMMA BookHas ==
    ASSUME NEW table, table \subseteq Bucket, NEW c \in Contents
    PROVE  BookOf(table)[c] # Absent <=> c \in Keys(table)
<1>1. ASSUME c \in Keys(table)
      PROVE  BookOf(table)[c] # Absent
  <2> DEFINE m == CHOOSE b \in table : b.mContent = c
  <2>1. m \in Bucket
    BY <1>1 DEF Keys
  <2>2. Says(m) \in Book!Memo
    BY <2>1 DEF Says, Bucket, Book!Memo, Book!Blank, Blank
  <2> QED
    BY <1>1, <2>2, AbsentAssumption DEF BookOf
<1> QED
  BY <1>1 DEF BookOf

\* What a new or a saved memo says.
LEMMA SaysFacts ==
    /\ \A c \in Contents : Says(InsertedBucket(c, Blank, "N", Blank)) = Book!Fresh
    /\ \A form \in Form : Says(FormBucket(form)) \in Book!Filled
BY DEF Says, InsertedBucket, FormBucket, Form, Blank, Book!Fresh, Book!Filled, Book!Memo,
       Book!Blank

\* A step of the screens is a step of the book, or leaves it.
LEMMA BookStep ==
    ASSUME NoEscapes, IInv, [Next]_vars
    PROVE  [Book!Next]_(BookOf(db))
<1> SUFFICES Book!Step \/ UNCHANGED BookOf(db)
  BY DEF Book!Next
<1>1. /\ db \subseteq Bucket
      /\ \A a, b \in db : a.mContent = b.mContent => a = b
  BY DEF IInv, TableInv, TypeOK, UniqueContents
<1>2. ASSUME NEW c \in Contents, Added(c)
      PROVE  Book!Add(c)
  <2> DEFINE m == InsertedBucket(c, Blank, "N", Blank)
  <2>1. c \notin Keys(db) /\ db' = db \cup {m} /\ m.mContent = c
    BY <1>2 DEF Added, InsertedBucket
  <2> HIDE DEF m
  <2>2. BookOf(db)[c] = Absent
    BY <1>1, <2>1, BookHas
  <2>3. BookOf(db') = [BookOf(db) EXCEPT ![c] = Book!Fresh]
    BY <1>1, <2>1, BookOfAdded, SaysFacts DEF m
  <2> QED
    BY <2>2, <2>3 DEF Book!Add
<1>3. ASSUME NEW c \in Contents, db' = Others(db, c)
      PROVE  Book!Remove(c) \/ UNCHANGED BookOf(db)
  <2>1. BookOf(db') = [BookOf(db) EXCEPT ![c] = Absent]
    BY <1>1, <1>3, BookOfOthers
  <2>2. CASE c \in Keys(db)
    BY <1>1, <2>1, <2>2, BookHas DEF Book!Remove
  <2>3. CASE c \notin Keys(db)
    <3>1. db' = db
      BY <1>3, <2>3 DEF Others, Keys
    <3> QED
      BY <3>1
  <2> QED
    BY <2>2, <2>3
<1>4. ASSUME Saved
      PROVE  Book!Step
  <2> DEFINE old == detail.mContents
             new == detail.etContent
             rest == Others(db, old)
             m == FormBucket(detail)
  <2>1. /\ detail \in Form /\ old \in Contents /\ new \in Contents
        /\ old \in Keys(db)
    BY <1>4 DEF Saved, IInv, TableInv, TypeOK, ScreenInv, DetailShowsStored, Form
  <2>2. m.mContent = new /\ Says(m) \in Book!Filled
    BY <2>1, SaysFacts, FormBucketFacts
  <2>3. new \notin Keys(rest) /\ db' = rest \cup {m}
    BY <1>4 DEF Saved
  <2>4. /\ rest \subseteq db
        /\ \A a, b \in rest : a.mContent = b.mContent => a = b
    BY <1>1 DEF Others
  <2>5. BookOf(rest) = [BookOf(db) EXCEPT ![old] = Absent]
    BY <1>1, <2>1, BookOfOthers
  <2>6. new = old \/ new \notin Keys(db)
    BY <2>3, KeysOfOthers
  <2> HIDE DEF m, rest, old, new
  <2>7. BookOf(rest \cup {m}) = [BookOf(rest) EXCEPT ![new] = Says(m)]
    BY <2>1, <2>2, <2>3, <2>4, BookOfAdded
  <2>8. BookOf(db') = [BookOf(db) EXCEPT ![old] = Absent, ![new] = Says(m)]
    BY <2>3, <2>5, <2>7
  <2>9. BookOf(db)[old] # Absent /\ (new = old \/ BookOf(db)[new] = Absent)
    BY <1>1, <2>1, <2>6, BookHas
  <2>10. old \in Contents /\ new \in Contents
    BY <2>1 DEF old, new
  <2>11. BookOf(db')[new] = Says(m)
    BY <2>8, <2>10 DEF BookOf
  <2>12. Book!Rewrite(old, new, BookOf(db')[new])
    BY <2>8, <2>9, <2>11 DEF Book!Rewrite
  <2> QED
    BY <2>2, <2>10, <2>11, <2>12 DEF Book!Step
<1>5. CASE Emptied
  <2>1. BookOf(db') = [c \in Contents |-> Absent]
    BY <1>5 DEF Emptied, BookOf, Keys
  <2> QED
    BY <2>1 DEF Book!Step, Book!Clear
<1>6. CASE db' = db
  BY <1>6
<1>7. ASSUME NEW i \in DOMAIN mDataList, RowDeleted(i)
      PROVE  \E c \in Contents : db' = Others(db, c)
  BY <1>7, RowFacts DEF RowDeleted
<1>8. ASSUME FormDeleted
      PROVE  \E c \in Contents : db' = Others(db, c)
  BY <1>8, SavedOverFacts DEF FormDeleted
<1>9. ASSUME NEW c \in Dream, DreamDeleted(c)
      PROVE  \E d \in Contents : db' = Others(db, d)
  BY <1>9, DreamAssumption DEF DreamDeleted, Plain
<1>10. CASE \E c \in Contents : Added(c)
  BY <1>2, <1>10 DEF Book!Step
<1>11. CASE \E c \in Contents : db' = Others(db, c)
  BY <1>3, <1>11 DEF Book!Step
<1>12. CASE Saved
  BY <1>4, <1>12
<1> QED
  BY <1>5, <1>6, <1>7, <1>8, <1>9, <1>10, <1>11, <1>12, StoreStep

\* The memo screens implement the book of memos: whatever is typed, pressed or
\* interrupted, the committed table goes from memo to memo as the book does.
THEOREM BookImplemented == ASSUME NoEscapes PROVE Spec => ImplementsBook
<1>1. Init => Book!Init
  BY DEF Init, Book!Init, BookOf, Keys
<1>2. IInv /\ [Next]_vars => [Book!Next]_(BookOf(db))
  BY BookStep
<1> QED
  BY <1>1, <1>2, Invariant, PTL DEF Spec, ImplementsBook, Book!Spec
=============================================================================
