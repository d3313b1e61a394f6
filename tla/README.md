# KMemo for iOS: a TLA+ verification project

KMemo ("memo branch", `kbcuekt`) is an iOS application, written in Swift on
UIKit and Realm, in which a user keeps a list of memos ("buckets": things to do
once in a lifetime), completes them with a date and a picture, takes more from a
list of a hundred dreams, and shares them with a server on which other users
comment and vote. This directory holds TLA+ modules translated from its source,
the TLC configurations that check them on small instances, and proofs that TLAPS
checks. Paths below are relative to `src/kbcuekt/kbcuekt/`, those of the
database to `src/kbcuekt/Pods/Realm/Realm/ObjectStore/src/`.

## The system

| Part | Source | State | Operations |
| --- | --- | --- | --- |
| Memo table | `Utils/sqlite/SQLQuery.swift`, `View/Bean/Bucket.swift` | a Realm table, primary key the text `mContent` | select, contains, insert, update (delete and add in one transaction), delete, delete all |
| Main screen, nickname gate | `ViewController.swift`, `View/ViewController/SetNickNameView.swift`, `View/Popup/*.swift` | stored nickname, background colour, the last AI pop-up | ways to the other screens, gate, user update, version check, AI reply |
| Open memos | `View/ViewController/WriteView.swift` | `mDataList`, a copy of the texts; the stored sort key | load, add, sort, modify, delete a row |
| Memo form | `View/ViewController/WriteDetailView.swift` | the fields of one memo, the path of its picture, the screen to go back to | load, edit, pick or remove a picture, save, delete, share |
| Completed memos | `View/ViewController/BucketListView.swift` | `mDataList`, copies of completed memos | load, open a form |
| Hundred dreams | `View/ViewController/AddBucketView.swift` | `mbVisible` | add a dream, delete it, hide the buttons |
| Database reset | `View/ViewController/DBMgrView.swift` | none | empty the table |
| Settings | `View/ViewController/SettingVIew.swift` | none | ways to the settings, clear the pass code |
| Pictures | `Utils/DataUtils.swift`, `Utils/DateUtils.swift` | files in Documents, named by the time | save, load |
| Stored values | `Utils/UserDefault.swift` | key to string | write, read, delete |
| HTTP requests | `Managers/http/*.swift`, `Managers/task/*.swift` | requests in flight, a receiver each | send; call the receiver on a background queue |
| Shared memos | `View/ViewController/ShareListView.swift`, `ShareDetailView.swift` | the category lit, the list of the last reply, comments | choose a category, open a memo, comment |
| Ranking | `View/ViewController/RankListView.swift` | the list of the last reply, the vote being sent | load, vote |
| Pass code, tutorial, notices, question, colours | `View/ViewController/*.swift` | fields of one screen, one stored value | small |
| Realm, index sets | `index_set.cpp` | ranges of indices in chunks, each with its bounds and count | add, insert, erase, remove, shift, count |
| Realm, change sets | `impl/collection_change_builder.cpp`, `impl/transact_log_handler.cpp`, `impl/results_notifier.cpp` | deletions, insertions, modifications, moves, the mapping of moved rows | collect from the transaction log, merge, compare two results, hand over |
| Realm, notifications | `impl/realm_coordinator.cpp`, `impl/collection_notifier.cpp`, `shared_realm.cpp` | the callbacks with what waits for them, the version the notifier was run for, the skipped version, a stored error | the worker's round; notify, refresh, begin and commit a write; add, remove, suppress a callback |
| Version check, linked list | `Utils/StringUtils.swift`, `Utils/LinkedList.swift` | none; a doubly linked list | compare; add, remove |

**How the parts interact.** A screen calls `SQLQuery` directly; rows call their
screen through `EventProtocol.receiveEventFromViewItem(gbn, data)` with the row
number or the text; a screen sends a request with an `HttpUrlTaskManager`, which
calls `IHttpReceive.onHttpReceive` of the screen from the session's background
queue. Every way from a screen to another, back included, *presents a new view
controller* on top of the old one, which never comes back: so a list is read
from the table each time it appears, and what an old screen held is not seen
again. Nothing but the Realm table, the files and `UserDefaults` outlives the
process.

Realm's object store is vendored as source. Its coordinator runs a background
worker that, after every commit of any thread or process, runs the query of each
notifier, computes what changed and leaves it for the thread of the Realm, which
packages it when it advances and calls the callbacks, on that thread, while the
worker and others go on. The application registers no callback of its own, but
every `Results` it reads and every write it makes goes through this code.

**What is hard.**

- *One key, many screens.* The text is the primary key, is edited by the user,
  and is how every screen finds "the" memo. `realm.add` raises on an existing
  key and no exception is caught anywhere: each path that adds must exclude the
  key, or the process ends.
- *Partial failure.* A save deletes the old memo and adds the new one in one
  write block, between which an exception or the death of the process may fall.
- *Copies.* `WriteView` keeps its rows beside the table and updates them by
  hand; forms keep the text they were opened for.
- *Pasted predicates.* Texts are pasted between apostrophes into predicates: an
  apostrophe raises, a backslash denotes another text.
- *Threads and replies.* Replies come out of order, on a background queue, to
  screens the main thread is drawing; a transport error ends the process.
- *One presenter.* UIKit presents once from each screen, drops what it cannot
  present without a word, and screens pile up: what comes second, the gate or the
  alert of another thread, is lost.
- *Time.* Pictures are named by a twelve-hour clock.
- *Arithmetic of rows.* A change set says with sets of numbers, some of the old
  rows, some of the new, what several transactions did; every operation shifts
  them, and the sets are stored in chunks that are split and joined.
- *Worker and target.* Commits, the worker's round and the calls interleave in the
  regions four mutexes leave; callbacks write, add and remove callbacks while
  they are called; a refresh waits for the worker on a condition variable.

What makes each part correct: the table never has two memos of one text and
loses none that nobody deleted; the rows of a list are the memos it stands for;
a form is about a memo that exists, and saving it touches no other; a memo's
picture exists; the application does not crash on its own data; a list of the server is one
reply, agrees in the end with what was asked for and what the server accepted,
and every request ends; a share sends the picture the user saw and ends in a
message; a change set, applied to the old rows, gives the new ones; each change
reaches each callback once, with the version it belongs to, and nobody waits for
ever; nobody slips past the nickname gate, no pop-up stays that cannot be closed,
and an update that is announced is one.

## The modules

| Module | Models | Notes |
| --- | --- | --- |
| `BucketTable` | `SQLQuery.swift`, and the two facts of Realm it rests on | tables are sets of records; each operation is the condition under which it raises and the table it leaves |
| `MemoApp` | the memo screens over the table, with the ways between them, the write transaction of a save, the picture files, and the death and restart of the process | one action per handler, three for a save |
| `MemoBook` | what the memo screens promise: a book of memos | abstract specification |
| `MemoAppRefinement` | the book read off the committed table | `INSTANCE MemoBook WITH book <- BookOf(db)` |
| `MemoAppInv` | the inductive invariant | |
| `MemoClaims` | what a comment in the source says and the code does not do | |
| `HttpTasks` | `HttpUrlTaskManager` over the shared session: requests on their way, completed tasks whose handlers wait | the server and the session are external |
| `RefilledTable` | the list a reply refills on the delegate queue while the main thread counts and reads its rows | shared by the screens of the server |
| `ShareList` | `ShareListView.swift` over `HttpTasks` and `RefilledTable` | |
| `RankVote` | `RankListView.swift` over the same two, with the votes the server keeps | |
| `MemoShare` | sharing a memo and then its picture from `WriteDetailView.swift`, over `HttpTasks` | one form, from its opening on |
| `Entrance` | `ViewController.swift` with the gate of `SetNickNameView.swift`, `compareVersion` and the pop-ups, over `HttpTasks` | the other screens are one |
| `IndexSets` | `IndexSet` as its header describes it: operations on plain sets of numbers | the abstract data type, no state |
| `ChunkedRanges` | `index_set.cpp`: the same operations on chunks of ranges, as the code runs them | recursive walks over two sets, so TLC only |
| `ChunkedIndexSet` | one index set going through its operations, chunks and plain set side by side | |
| `ChangeBuilder` | `CollectionChangeBuilder`: the operations of the builder over `IndexSets` | |
| `ResultsDiff` | its `calculate`, and the renumbering of `ResultsNotifier` | the matching is a recursive function, so that it can be proved about |
| `CollectionChanges` | a list or table with an observer, changed by transactions whose log the handler turns into builder operations | |
| `QueryResults` | the queries over it, `CollectionChanges` with `ResultsDiff` | no state of its own; `ResultsNotifier::calculate_changes` |
| `NotifierCallbacks` | `CollectionNotifier`: what happens under its callback mutex | functions of the notifier's record |
| `RealmNotifications` | the worker, the Realm's thread, other writers and the callbacks, in the lock regions of the code | |
| `MCMemoApp`, `MCShareList`, `MCRankVote`, `MCEntrance` | values for TLC | |
| `RowLemmas` | facts about lists of rows and requests, and about the index sets that tell two lists apart | used by all proofs |
| `MemoAppProofs`, `ShareListProofs`, `RankVoteProofs`, `MemoShareProofs`, `EntranceProofs`, `CollectionChangesProofs`, `RealmNotificationsProofs` | proofs, each with the inductive invariant of its module | `MemoApp` has its own in `MemoAppInv` |

### How state and actions correspond to the code

`db` is the committed table; `files` the pictures in Documents; `sortKey` the
stored sort key: these survive `Kill` and crashes (`stored`). `top` is the
screen in front, `mDataList` the rows of the list in front, `detail` the outlets
and fields of the form in front, `write` the Realm transaction in progress:
these are gone when the process dies or a new screen is presented (`Present`).
`lost` is a history variable: the pictures whose writing failed, which the code
does not notice (`try?`).

UIKit calls handlers on the main thread one at a time, so a handler is one
action. The save is three (`BeginSave`, `AddSaved`, `CommitSave`), because its
write block deletes, then adds, then commits, and the process may die between;
while it runs no other handler does (`On`). An exception ends the process: the
actions have a branch `Crashes` under the condition the called operation raises.

A memo text is its rank in the order `sort()` uses, 0 being the empty text. What
the literal `'text'` of a predicate denotes is the constant function `Literal`:
the text itself for a plain text, `NoParse` for one with an apostrophe, another
text for one with a backslash. `Dream`, the texts of the resource `dream100`,
are plain, as they are in both translations. Dates are opaque; a field without
date is `Blank`. The alert that `openGallary` shows on a device without photo
library, toasts, colours and logging are left out. Realm returns all objects in
no defined order, so a list that is not sorted is any arrangement of its texts.

In `HttpTasks`, `inFlight` are the tasks resumed and not completed and
`delivered` those whose completion handler waits for the delegate queue, which
runs one handler at a time in the order of completion (that is what
`URLSession.shared` does). The server may answer requests in any order (`Serve`),
and tasks may complete in any order, with the answer or without data
(`Complete`). A reply without data traps at `data!` (`ReplyTraps`). A `Malformed`
answer is JSON without something the receiver casts by force: `isValid`, cast
before the status is looked at and so on refusals and votes as well, or the list.
It ends the process in the receiver (`CastTraps`). The task keeps its receiver
alive: a covered screen still receives, and still traps, which `receiver` records.
`overtaken` is a history variable.

In `RefilledTable`, `onHttpReceive` is several actions (`RemoveAll`,
`AppendRow`, `PostReload`), because it runs on the delegate queue while the main
thread reads the same array. Before each row is appended its fields are cast by
force, so at each row still to come the process may end (`RowMayTrap`); when the
screen is covered in the middle, its rows are no longer of interest but their casts
are, which `coveredRefill` records until the handler has returned. `rows` is what
the table view last counted. Two
threads on one Swift array is a data race: while the list is being refilled a
read on the main thread may see it as it is, or trap (`ReadMayTrap`). The handler of
an accepted vote is three actions: it has begun (`ReceiveVoted`), it empties the
list, racing with the main thread like a refill (`EmptyList`), and it asks for the
list again (`AskAgain`), also when its screen was covered in between. Before the
last the list is empty with no request on its way, while the table view believes in
its rows; `asking` says where it stands, and the delegate queue runs no other
handler until it is done. Where a handler reads the list twice (a cell of the ranking, the opening of a shared
memo), it is two actions. In `RankVote`, `opinion` and `ranked` are the
server's; `cells` are the cells on screen, with the number their buttons report.
The comments, counts and colours of a row are left out. A touch that only raises
a toast changes nothing and is no action.

In `MemoShare` the reply to a share runs on the delegate queue and reads the form
again: the picture's name when it arrives (`ReceiveInserted...`), the name once
more (`ReadPhotoPath`), then the picture in the image view (`UploadImage`).
Between any two the main thread may take the picture off (which hides the view
and clears the name, but leaves the picture in the view), choose another, which
sets the view before the name, or leave the form. `shares` is a history
variable.

In `Entrance` the main screens of a run are numbered; each return makes one more,
and earlier ones still receive their replies. `viewDidLoad` is part of the action
that presents the screen, `viewDidAppear` an action of its own, because a reply may
be handled between them. `layers` are the views over all screens: the update alert,
presented on the delegate queue, and the pop-ups of the AI button, which their
handler posts to the main queue (`posted`). Only the top layer can be touched. That
UIKit refuses to present from a screen that presents already, or that is not in the
window, is `RootPresents` and `Presented`; a control does not keep its target, so the
button of a pop-up whose object was replaced does nothing (`live`). A nickname is
what its spaces leave of it. Presenting off the main thread may also end the
process, which `Kill` allows at any time; so may a malformed answer, which is
therefore not sent here.
`history` is a history variable.

`ChangeBuilder` and `ResultsDiff` compute with the plain sets of `IndexSets`,
which stand for the chunks because `ChunkedIndexSet` shows that every operation
on chunks is the operation on sets. In `CollectionChanges` every entry has an
identity that the code does not have: with it the properties say which entry is
at a row before and after. The steps are the instructions of the transaction
log; `Commit` ends a transaction and merges.

In `RealmNotifications` a commit is its version, and a change set is the set of
the commits it describes, because merging, which the change sets above get
right, is then union. `notifier` holds what the callback and coordinator mutexes
guard; a step that runs no user code between two lock regions is one action:
four of the worker (`WorkerStart`, `WorkerRun`, `WorkerHandover`, twice when it
stops at the skipped version, and `WorkerFails`), and those of the target:
`Notify`, `Refresh`, `BeginWrite`, `EndWait` when the condition variable lets it
go, and one `CallNext` for each callback called, between which the callback may
write, add and remove. A write ends by `commit_write` or `cancel_transaction`. A
callback may begin one (`BeginInCallback`), which moves the Realm to the newest
version even if it is cancelled, and ends it before it returns (`OwnWrite`).
`commitWriteTransactionWithoutNotifying` is several steps, because it sets the flags
one after the other under the callback mutex (`suppress_next_notification`), and
commits under the notifier mutex: the worker may do anything between them.
`suppressed` are the callbacks flagged for the commit under way. `owed`, `muted`,
`late` and `excused` of a callback are history. Assumed: the Realm refreshes by
itself and keeps its read transaction, its collection is not deleted, the file is
watched, a begun write ends, a commit does follow the flags, no callback is added
within a write transaction (the code throws), and none writes from a before-call,
which runs no user code here.

## What is checked

The runs of the memo screens use `MCMemoApp`, those of the two lists of the
server their MC module, the others their own module.

| Run | Checks | Shows |
| --- | --- | --- |
| `memo_screens` (`MemoApp.cfg`) | `TypeOK`, `UniqueContents`, `ListShowsStore`, `DetailShowsStored`, `NoDanglingPhoto`; `MemosLeaveOnlyOnRequest`, `OtherMemosSurviveEdit`, `CrashCauses`, `ImplementsBook` | with the empty text, two plain ones and one with an apostrophe, in every order of operations, deaths included; every step adds one fresh memo to the book, rewrites one, removes one, empties the book, or leaves it |
| `claim_sort` (`ClaimSort.cfg`) | `SortButtonsSort` violated | the sort buttons never sort (`View/ViewController/WriteView.swift:74`) |
| `memo_sharing` (`MemoShare.cfg`) | `SharesSendWhatWasShown`; `SharesAreTold` | unless the picture is changed after the touch, a share sends the picture seen or none, and the toast of success agrees with what the server was told; every share ends in a toast, but for an upload without response and a picture taken off just then |
| `share_lists` (`ShareList.cfg`) | `TypeOK`, `ListIsOneReply`, `LitCategoryIsShown`, `CellsShowList`; `CrashesWhileReplacing`, `OpensTouchedMemo`, `QuietScreenSettles` | replies, reloads, drawing and touches in every order: lists are never mixed; one category stands under the button of another only if requests overtook each other or failed; a touch opens the memo it shows unless the list is being replaced; what else ends the process is a reply without data, one without what is cast by force, or reading while the list is replaced |
| `rank_votes` (`RankVote.cfg`) | `TypeOK`, `SettledScreenIsCurrent`; `CrashesWhileReplacing`, `RevotesOnlyInFlux` | once settled every cell shows and votes on the memo of its row, and the ranking agrees with the server unless requests overtook each other; a second vote is only sent in between, and drawing only traps there; replies without data or without what is cast by force end the process at any time |
| `rank_settles` (`RankSettles.cfg`) | `EmptiedTableIsReloaded` | the list a vote empties is finally asked for and drawn |
| `index_sets` (`IndexSets.cfg`) | `Denotes`, `WellFormed`, `QueriesAnswer` | after any operations the chunks hold the set the same operations make of a plain set, obey the assertions of `verify()`, and answer every query as the set does |
| `change_sets` (`ChangeSets.cfg`) | `ChangesTurnOldIntoNew`, `ModificationsAreComplete`, `ResultsTurnOldIntoNew` | whatever transactions did, the merged change set turns the old entries into the new, its moves move and its modifications are the surviving modified entries; and whatever a query found before and finds now, what is calculated between the two, once the table's changes are read, turns the one into the other |
| `realm_notifications` (`RealmNotifications.cfg`) | `TypeOK`, `NewsIsConserved`, `NewsMatchesVersion`, `LoopSeesPackage`; `ErrorsReachEveryone`, `WaitsEnd` | in every interleaving no change is lost or told twice but for the losses named below; what is told belongs to the version the Realm then reads; the delivery loop calls the packaged callbacks and no others; an error reaches everyone; no refresh or write waits for ever |
| `realm_wakes` (`RealmWakes.cfg`) | `NewsArrives` | a callback owed a change is told in the end |
| `entrance` (`Entrance.cfg`) | `TypeOK`, `NamelessWasAsked`, `PopupsCanBeClosed`, `UpdatesAreNewer` | whoever uses the main screen without a nickname went through the gate in this run, saved spaces, or met an update alert first; a pop-up that cannot be closed needs two touches of one AI button; an alert announces a newer version or one of another length |
| `claim_suppressed` (`ClaimSuppressed.cfg`) | `SuppressedStaysSilent` violated | a callback to be left out of a write is told of it (`impl/collection_notifier.cpp:418`), though `RLMRealm.h:285` says it will not be |

### What the exceptions in the properties stand for

`RealmNotifications` marks a callback `excused` where the code loses or repeats a
change for it; `NewsIsConserved` and `NewsMatchesVersion` hold for all others.

- *Committed*: the flag that leaves a callback out of a commit is cleared by the
  next handover, whatever that brings. So it is used up by a round that is under
  way at the commit, and by one that handed over after the flag was set, even if it
  began and ended there; then the muted commit is told after all (`MissesCommit`).
- *Suppressed*, and again *Committed*: a write begun in a callback has not waited for
  the worker. A flag set in it may swallow what the next handover brings of earlier
  commits, and a second commit before the worker came by shares the flag of the
  first.
- *Packaged*: a callback not yet called gets what the collection is at the
  package's version, unless the round counted no changes, because nobody listened
  when it began, or compared with older rows than those of that version.
- *Discarded*: `advance_to_ready` drops a package older than what the Realm reads.
  Its comment expects that only after `begin_read()`; a write made in a callback
  moves the Realm on just as well, committed or cancelled.
- *Called*: a first call made after an earlier callback's write has moved the Realm
  shows the later state, whose change comes again.
- *WithoutLate*: removing, during a delivery, a callback that was added during it
  takes one from the count of the packaged ones. The last of them is then not
  called; with none left the unsigned count wraps and the loop reads past the end
  of the vector (`pc = "undefined"`).

Two more facts the model shows and no property forbids: a callback added inside a
delivery is not announced to the worker, so that its first call waits for the next
commit; and a round that cannot open the file returns without waking those who wait
for it, so a refresh then hangs (`WaitsEnd` excepts it).

In `ChunkedIndexSet`, `CountsAgree` fails after an operation that needs a chunk more
than the builder reserved: it is given the count 1, whatever its first range
(`index_set.cpp:241`). A build with assertions stops there, and one without counts
wrongly; the model goes on from there only with `set` and `clear`. `StopsShort`
names a count that misses part of a range at the border of two chunks. Both need
more ranges than one chunk holds, 256 in a release build.

In `CollectionChanges`: merged moves are in no order, and the bisection of
`results_notifier.cpp:138` needs one. It never meets them: table changes are merged
only for notifiers that are new (`realm_coordinator.cpp:600`), which have no results
to compare yet, and those of one reading of the log have been sorted by
`parse_complete` (`collection_change_builder.cpp:171`). So `ResultsTurnOldIntoNew` speaks
of changes read at once (`changes = Empty`). `calculate_moves_unsorted` relies on rows
that only move to the front, into the place of a deleted one; rows swapped, or merged
more than once, would break it. Both instructions come from synchronised Realms
only, so a table whose query is in table order (`kind = "unsorted"`) has neither.
`find_longest_matches` compares an end in one sequence with the end of the other
(`collection_change_builder.cpp:699`): a match may be left unfound, and its rows are
deletions and insertions then, which is as correct. A cleared table of unknown size
is `MaxRows` deletions; merging that with earlier changes walks over all of them.
Results without repeated rows only.

In `MemoShare`: the text sent is the one the form was opened with, the date is
always empty, the number of the memo the picture belongs to is always -1, and
the header that carries it has name and value swapped; so these are no variables.
A picture whose file could not be loaded leaves the view empty and the process
traps at `ivImage.image!`; so does a share without network at `data!`.
The form casts nothing by force of a reply, so a malformed one is accepted or refused
like any other.

In `Entrance`: the comment of `compareVersion` (`Utils/StringUtils.swift:68`) has it
that 1 means that the server's version is greater, but it is also returned whenever
the numbers of components differ, so that 1.9 is announced to a 2.0.03
(`UpdatesAreNewer` excepts it); the alert of a forced update is dismissed like any
other; an update answered while another screen covers the main one is not announced,
until the next main screen asks again; and the gate can be left without a name, and
is not opened again in the same run, since only the first main screen is the root's.

Disagreements met while modelling the screens and shown by no run: the duplicate
check of `WriteView` misses completed memos, and adding the text of one crashes
(`WriteView.swift:135`); a row with an apostrophe cannot be deleted
(`WriteView.swift:191`); the form of a text with a backslash shows another memo
(`WriteDetailView.swift:107`); a form saved under the text of another memo crashes
(`Utils/sqlite/SQLQuery.swift:128`); a vote can be repeated while the ranking is
asked for again (`RankListView.swift:109`); and a failed request ends the process
(`Managers/http/HttpUrlTaskManager.swift:72`). The properties name each of them as
an exception or a cause.

**Bounds.** `memo_screens` has four texts: the empty one, which the lists treat
apart; two plain ones, so that a memo can be renamed to a third text or to the
text of another memo while a dream stands by; and one no filter can hold.
`claim_sort` has three. One date and one picture are enough, because the code
compares them with nothing: it tests whether there is one. A single sort key
stands for the three, as `sort()` only tests its length. Nothing is bounded in
length: lists hold a text at most once, so the state space is finite as it is.
Symmetry is not used, since texts are ordered.

On the screens of the server `MaxRequests` bounds what the user sends: a touch
sends only while fewer requests are on their way, and fewer reloads posted. Two
are enough for one to overtake the other, and for a vote to fall between a
reload and its reply; what handlers send (the reload after a vote) is not
bounded by it. `rank_votes` has two memos, so that a refill can move a row, which
are interchangeable (symmetry is used, and only there, for safety alone), and
one opinion, as the code compares opinions with 0 only; `rank_settles` has one
memo. `share_lists` has a category whose list has two memos and one whose list has the
second of them alone, so that rows of two replies could mix. Any answer may be a
refusal or malformed in both runs; they have 2.9 million and 0.9 million states.
`memo_sharing` has two shares and two pictures, so that a share can be followed by
another picture and another share.

`entrance` has two main screens, the least for one to be covered and receive, two
touches of each AI button (`MaxQuestions`), the least for one pop-up to replace
another, and three requests on their way; one nickname, as names are only tested for
being empty; of the versions one that is newer, one older that is greater further
down, one shorter and older, none, and one that is no version.

`index_sets` has chunks of two ranges (`MaxSize`; 4 in a debug build, 256 in a
release) and indices up to eight (`Top`), room for five ranges and so for three
chunks, the least for one in the middle; sets given as arguments have at most two
indices (`ArgSize`), enough to fall into two chunks. `change_sets` has three entries
and five steps until the observer is told (`MaxLen`, `MaxSteps`), enough to insert,
move, modify and delete one entry in different transactions; `MaxRows` is any number
above the rows there can be. `realm_notifications` has two callbacks, the least for one
to remove or write before the other, and two commits, so that one is skipped with
another below it or above it, is made by a callback, or is suppressed, while the
worker has the other in its hands or hands it over between the flag and the commit:
0.7 million states. Longer histories of commits, such as one below, at and above the
skipped version, are left to the theorems, which hold for any number of both.
`realm_wakes`, apart from it for its running time, has the same bounds.

Deadlock is not checked in `memo_sharing`, where a form that was left or a process
that ended does nothing more, and in the runs of `RealmNotifications`, which ends
when the commits are used up.

Some operators are marked as *faulty variants*, next to the definition they
spoil (`OpenContentsAll`, `DeleteRowLast`, `AskAgainNot` and others): put in
its place they make one of the properties fail, which shows that the property
depends on that piece of code. No action uses them.

**Fairness.** The memo screens only ever wait for the user, so all that is stated
about them is safety and no fairness is assumed. `FairSpec` of the screens of the
server assumes that the oldest task completes, with or without data, which the
session guarantees by its timeout; that the delegate queue runs the handlers
queued on it; that a handler of the main thread returns; and, strongly, that the
main thread runs the reloads posted to it between touches and drawings, since its
run loop serves its queue on every pass. Nothing is assumed of the server or of
the user: `QuietScreenSettles` is stated for a user who stops asking. `MemoShare`
assumes of the session and the queue the same. `RealmNotifications` assumes that the
worker's thread, the Realm's run loop and its loops of calls go on (`WorkerStep`,
`TargetStep`), and that a write transaction that was begun is committed or cancelled
(`EndWrite`). A callback may write again and again, which keeps its loop from going on
for as long as each write lasts; that it returns in the end, as a function does, is
strong fairness of `CallNext`. Nobody has to write, refresh, add or remove. In
`RankVote` the handler of a vote is one more of those the queue runs to their end
(`EmptyList`, `AskAgain`).

## What is proved

Every theorem holds for all values of the constants that the assumptions allow, and
the assumptions are those of the modules: texts are natural numbers with 0 among
them, the empty text denotes itself, `Blank` is neither a date nor a picture, dreams
are plain, `Absent` is not a memo, the memos of a ranking are finitely many, a list is
a sequence of shared memos, versions are sequences of natural numbers, bounds are
natural numbers, and a collection has at most `MaxRows` rows, `SIZE_MAX` in the code.
TLC checked each
inductive invariant on the constants of its run before it was proved (the one of
`CollectionChanges` with its witnesses kept in history variables).

1. `RowLemmas`: what arranging, appending, removing and replacing rows does to a
   list, to the set of what it shows and to how many rows of a kind it has, and when
   moving a row from one list to the next leaves the two lists, read as one line,
   alone. And what `unshift` and `shift` of `IndexSets` compute, the rank of an index
   among those that are missing and its inverse (`UnshiftIsFree`, `ShiftFacts`); what
   an insertion, a removal and a move of a row leave of the ranks and of the rows two
   lists share (`SameInserted`, `SameErased`, `ThroughSame`). Folds over moves need no
   induction theorem: that the fold's function exists (`FoldExists`), and that what
   each step keeps holds in the end (`StepByStep`), follow from a least
   counterexample; so does a recursion on a size (`RecursionExists`).
2. `MemoAppProofs`: `TableInv` is inductive whatever literals denote: types,
   unique texts, pictures, and `PendingIsTheSave`: an open transaction holds
   exactly the save of the form in front, applied to a table nobody has changed
   since. Without that last part the commit of a save could be of any table, and
   neither uniqueness nor the safety of the other memos would be inductive; with
   it the three steps of a save are one. `FormPhotoKnown` (the picture of the
   form exists, so that a save cannot store a name that does not) does the same
   for pictures. Theorems `TypeCorrect`, `ContentsAreUnique`, `PhotosAreKept`.
   Under `NoEscapes` (no text has a backslash) the whole of
   `IInv` is inductive: rows and forms are about memos of the table. The
   hypothesis is needed: the form of a text with a backslash shows the memo of
   another. `FormOpened` (the text of an open form can be filtered by) excludes that
   a save raises in the filter. Theorems `Invariant`, `RowsShowStore`,
   `FormIsStored`. `StoreStep` lists the six ways a step may change the table; from
   it and `IInv` follow the action properties (`OthersSurvive`,
   `LeaveOnlyOnRequest`, `CrashesOnlyFor`) and the refinement (`BookImplemented`),
   through three lemmas on how the book of a table follows the table.
3. `ShareListProofs`: that a list is always a part of one reply (`ListStaysOneReply`)
   needs only what a reply carries. That the settled list is that of the lit button
   (`SettledListIsLit`) needs `NewestIsLit`: while nothing was overtaken, the request
   sent last is about the lit category, and once none is outstanding, the list to
   be, which is what the refill will leave, is one of that category. Cells are kept
   true by `CellsShowList`, and a touch by `OpeningFits`: the memo read first is
   still that of the row (`CalmCellsShowList`, `TouchedMemoIsOpened`). That nothing
   else ends the process (`CrashesOnlyWhileReplacing`) goes through every way it can:
   the casts and `data!` are causes named, and a row that is drawn or opened outside
   them is one of the list.
4. `RankVoteProofs`: the completed and the outstanding requests are read as one line,
   `delivered` before `inFlight`, which only grows at its end and shrinks at its front
   unless a request is overtaken. `InOrder` says that the line is served from its
   front, and that votes of covered screens come before everything the screen in front
   sent. `ListsAgree` then says of each list on its way, and of the list to be, that
   it agrees with the opinions the server holds or that a served vote stands behind
   it in the line, which will ask for the list again. With the line empty that is
   `SettledRankingIsCurrent`. `CalmTable` (the table view knows the list and its cells
   show it while no ranking is awaited and no vote's handler runs) gives
   `CrashesOnlyWhileReplacing` and `SettledScreenTakesNoSecondVote`; it is why `Voted`
   is a cause of crashes. The list to be is the empty one while `asking` is
   `"emptying"`, so that `ListsAgree` holds although the old rows are still there.
5. `EntranceProofs`: by counting. Each main screen asks for the version once, so the
   version requests on their way and the alert they lead to are at most one
   (`OneAlert`); and the answers on their way, the pop-ups posted and those in the
   layers are together at most the touches of the button (`AnswersToQuestions`), so a
   pop-up whose object was replaced is one of two (`PopupsStayClosable`).
   `NamelessExcused` follows how a nameless user got past the gate
   (`NamelessIsAsked`). `VersionFacts` states what `compareVersion` answers for any
   two versions (`AnnouncedUpdatesAreNewer`).
6. `MemoShareProofs`: a share is on one errand at a time (`OneErrand`: its text or
   its picture on the way, the reply being looked at, or the user told, at most one
   of these), and a share the user changed nothing about is about the form as it is
   (`FormIsAsShared`), which `FormIsNamed` keeps through the two steps in which the
   picker's picture reaches the form. `Errands` says what was sent and announced at
   each errand. Theorem `SharesAreFaithful`.
7. `CollectionChangesProofs`: `Follows(b, s, S, t, T)` says that the changes `b` lead
   from the entries `s`, of which `S` were modified, to `t` and `T`: what is not
   deleted from `s` and not inserted into `t` has the same ranks and is the same
   entry, each move is one entry deleted and inserted, no two moves share an end,
   and an entry is modified in `T` if it was in `S` or is among the modifications.
   `TableFollows` says it of a table before `parse_complete`: rows keep their numbers,
   and `m_move_mapping` says where from the others come. The properties speak of the
   moments between transactions only, and of the merged changes, which the
   instructions of the log do not touch; so `IInv` names the entries `mid` at the
   beginning of the transaction: the merged changes lead from what the observer knows
   to `mid`, and those of the transaction from `mid` to the entries there are.

   One lemma per operation of the builder says that it extends what follows by the
   step it records (`InsertFollows`, `EraseFollows`, `MoveFollows`, `ClearFollows`,
   `MoveOverFollows`, `SubsumeFollows`, `SwapFollows`); `ParseFollows` and
   `CleanFollows` say that the end of a transaction keeps it, and that a stale move
   can be taken out of both sets because the entry has the same rank in both.
   `MergeFollows` composes two change sets: `Through` carries the numbers of the
   middle over one of them, `Merging` says after each older move which newer ones have
   been taken up by it, and what is left of the newer ones starts from an entry the
   older set had not inserted. Theorems `Invariant`, `TurnsOldIntoNew`,
   `ModificationsComplete`, for lists and tables of any length and any number of
   instructions and transactions; `MaxLen <= MaxRows` is needed by a table cleared
   without a known size.

   The second half of the module is about query results. `Aligned` numbers the rows
   that stay by where they were and where they are, and `AlignedLeft` says that then
   what is left of the two results is the same. `calculate_moves_unsorted` keeps such
   a numbering as it goes (`Moving`: no later row was before one that has stayed),
   provided that rows not among the candidates come in the order they were in
   (`InOrder`). For `calculate_moves_sorted`, `NextRowRuns` says that the row scan
   always holds a run of equal rows and the best one so far, `MatchesInSequence` that
   the matches found on both sides of a match lie before and after it in both
   sequences, and `BlocksAlike` that what they cover is in one order; the recursion
   is a function on ranges, and exists because they grow smaller (`RecursionExists`).
   `CalculateTurns` is the result for any two sequences of rows. `ResultsNumbered` then
   reads off `Follows` that renumbering finds every old row where its entry is now, and
   `OldOrder` is the invariant that makes `InOrder` true: entries of a table in table
   order are never later than they were. Theorem `QueryTurnsOldIntoNew`, for any query
   and any sorting.
8. `RealmNotificationsProofs`: what a callback has still to be told is followed by
   versions. `RoundFits` ties the worker's round to the versions it has read, so that
   its changes are the commits from the last handover to its end; `WritersWaited`
   says that who writes from outside a callback has waited for the worker, so that
   nothing was left for it when the flags were set, and `FlagFits` that the skip flag
   of a callback that is not excused covers nothing before its commit is made, and
   from then that one commit, to the handover of the round that ends there. `NewsFits` then reads off what is owed to a callback:
   its package, what was accumulated up to the last handover, and the commits after
   it (`NewsStaysConserved`, `PackagesMatchVersions`). `LoopFits` says that the
   package is a prefix of the callbacks until a late one is removed
   (`LoopsSeePackages`), `ErrorLoopFits` that the loop of error calls has removed
   whom it called (`EveryoneHearsErrors`). The one assumption is that the bounds are
   natural numbers.

Only model-checked: the three properties of `ChunkedIndexSet`, since `ChunkedRanges`
walks recursively over chunks and ranges and nothing above a recursive operator can
be proved; and all liveness
(`QuietScreenSettles`, `EmptiedTableIsReloaded`, `SharesAreTold`, `NewsArrives`,
`WaitsEnd`), which with `ENABLED` and induction over data is beyond the prover. The
claims that fail need a counterexample and no proof.

## What is not modelled yet, and the plan

In this order:

1. `ShareComments` over `HttpTasks` and `RefilledTable`: the comments of
   `ShareDetailView`, sent and read back, and its picture.
2. `TableRows`: deferred drawing of rows, for the stale row numbers of
   `WriteView` and the second touch on save.
3. `PhotoFiles`: pictures named by the clock, orphans and collisions.
4. `LinkedList` (a heap refining a sequence), `Notice`. The pass code is set and
   never asked for, and the tutorial is read: there is nothing to go wrong.
5. Of Realm: the change checking of linked tables (`DeepChangeChecker`), several
   notifiers of one Realm, closing and invalidating.

Not to be modelled: the storage engine of Realm beyond the two facts used here (of
its code the repository holds headers only, templates and declarations that make up
most of its lines, and no part of the application's logic); synchronised Realms,
which the application does not open; Google Ads; the Java files left from the
Android application; screens no way leads to (`IntroView`, `WriteMemoView`,
`PushPopupView`); formatting, logging and layout. That is why the modules map only
a small share of all lines of the repository: they cover the application's handlers
and the three parts of the object store whose logic is its own.
