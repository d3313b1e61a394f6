------------------------------- MODULE ShareList -------------------------------
(***************************************************************************)
(* ShareListView: memos other users share, by category.  Touching the      *)
(* button of a category lights it and asks the server for its list; the    *)
(* reply refills the list on the delegate queue of the session, while the  *)
(* main thread draws rows and opens them by their number.                  *)
(***************************************************************************)
EXTENDS HttpTasks, RefilledTable, TLC

CONSTANTS
    Shared,     \* the memos shared, by mIdx
    Category,   \* the codes the nine buttons send
    First,      \* the category of a new screen, "1"
    Lists       \* what the server may answer for a category, at any time

ASSUME FirstAssumption == First \in Category
ASSUME ListsAssumption == Lists \in [Category -> SUBSET Seq(Shared)]

VARIABLES
    process,    \* "running" or "crashed"
    top,        \* the screen in front
    lit,        \* the category whose button is lit
    missed,     \* history: a category was not asked for, or refused
    cells,      \* the cells on screen, by row
    opening,    \* the row receiveEventFromViewItem is half through opening
    detail      \* the memo the ShareDetailView in front was given

screenVars == <<top, lit, missed, cells, opening, detail>>
vars == <<httpVars, tableVars, process, screenVars>>

ShareBucketList(c) == Request("BUCKET_LIST", c, "front")

NoCells == <<>>
Nothing == <<>>         \* no row is being opened, no memo was

Shown == process = "running" /\ top = "ShareListView"
MainFree == Shown /\ opening = Nothing

Init ==
    /\ HttpInit
    /\ EmptyTable /\ coveredRefill = FALSE
    /\ process = "running"
    /\ top = "ViewController"
    /\ lit = First
    /\ missed = FALSE
    /\ cells = NoCells
    /\ opening = Nothing
    /\ detail = Nothing

\* The process ends, and memory with it.
Crash ==
    /\ process' = "crashed"
    /\ top' = "ViewController"
    /\ inFlight' = <<>> /\ delivered' = <<>> /\ overtaken' = FALSE
    /\ NewTable /\ coveredRefill' = FALSE
    /\ lit' = First /\ missed' = FALSE
    /\ cells' = NoCells /\ opening' = Nothing /\ detail' = Nothing

Relaunch ==
    /\ process = "crashed"
    /\ process' = "running"
    /\ UNCHANGED <<httpVars, tableVars, screenVars>>

-----------------------------------------------------------------------------
(* Main thread                                                               *)

\* Ask for a category, if the network is up.
Ask(c) ==
    \/ Room /\ posted < MaxRequests /\ Send(ShareBucketList(c)) /\ UNCHANGED missed
    \/ missed' = TRUE /\ UNCHANGED inFlight

\* A new ShareListView asks for the first category, and lights its button.
Open ==
    /\ process = "running" /\ top \in {"ViewController", "ShareDetailView"}
    /\ top' = "ShareListView"
    /\ lit' = First
    /\ \/ Room /\ Send(ShareBucketList(First)) /\ missed' = FALSE
       \/ missed' = TRUE /\ UNCHANGED inFlight
    /\ detail' = Nothing
    /\ UNCHANGED <<delivered, overtaken, tableVars, process, cells, opening>>

\* Another screen covers the list, which never comes back.
Leave(screen) ==
    /\ top' = screen
    /\ inFlight' = Hidden(inFlight)
    /\ delivered' = Hidden(delivered)
    /\ CoverTable
    /\ cells' = NoCells /\ opening' = Nothing
    /\ UNCHANGED <<overtaken, process, lit, missed>>

onBackPressed == MainFree /\ Leave("ViewController") /\ UNCHANGED detail

\* Faulty variant: the button is lit only when the request goes out, but the
\* category asked for is still the one that was lit.
onClickLate(c) ==
    /\ MainFree
    /\ lit' = c
    /\ Ask(lit)
    /\ UNCHANGED <<delivered, overtaken, tableVars, process, top, cells, opening, detail>>

\* The button of a category.
onClick(c) ==
    /\ MainFree
    /\ lit' = c
    /\ Ask(c)
    /\ UNCHANGED <<delivered, overtaken, tableVars, process, top, cells, opening, detail>>

\* Faulty variant: cells drawn before the reload stay on screen.
ReloadKeepingCells ==
    /\ MainFree
    /\ ReloadData
    /\ UNCHANGED <<httpVars, process, screenVars>>

Reload ==
    /\ MainFree
    /\ ReloadData
    /\ cells' = NoCells
    /\ UNCHANGED <<httpVars, process, top, lit, missed, opening, detail>>

\* Faulty variant: the cell gets the number of the row above.
DrawRowAbove(i) ==
    /\ MainFree
    /\ i \in 1..rows
    /\ \/ ReadMayTrap(i) /\ Crash
       \/ /\ Readable(i)
          /\ LET cell == [content |-> mBucketDataList[i], mData |-> IF i = 1 THEN 1 ELSE i - 1]
             IN cells' = WithCell(cells, i, cell)
          /\ UNCHANGED <<httpVars, tableVars, process, top, lit, missed, opening, detail>>

\* cellForRowAt: the content of row i, and the number of the row.
DrawRow(i) ==
    /\ MainFree
    /\ i \in 1..rows
    /\ \/ ReadMayTrap(i) /\ Crash
       \/ /\ Readable(i)
          /\ cells' = WithCell(cells, i, [content |-> mBucketDataList[i], mData |-> i])
          /\ UNCHANGED <<httpVars, tableVars, process, top, lit, missed, opening, detail>>

\* Faulty variant: rows are counted from one.
OpenIdxNext(i) ==
    /\ MainFree
    /\ i \in DOMAIN cells
    /\ LET index == cells[i].mData + 1 IN
        \/ ReadMayTrap(index) /\ Crash
        \/ /\ Readable(index)
           /\ opening' = [index |-> index, mIdx |-> mBucketDataList[index]]
           /\ UNCHANGED <<httpVars, tableVars, process, top, lit, missed, cells, detail>>

\* receiveEventFromViewItem for the cell at row i reads the mIdx of the row its
\* number stands for now ...
OpenIdx(i) ==
    /\ MainFree
    /\ i \in DOMAIN cells
    /\ LET index == cells[i].mData IN
        \/ ReadMayTrap(index) /\ Crash
        \/ /\ Readable(index)
           /\ opening' = [index |-> index, mIdx |-> mBucketDataList[index]]
           /\ UNCHANGED <<httpVars, tableVars, process, top, lit, missed, cells, detail>>

\* Faulty variant: the rest is taken from the first row.
OpenContentFirst ==
    /\ Shown /\ opening # Nothing
    /\ \/ ReadMayTrap(opening.index) /\ Crash
       \/ /\ Readable(opening.index)
          /\ detail' = [mIdx |-> opening.mIdx, mContent |-> mBucketDataList[1]]
          /\ Leave("ShareDetailView")

\* ... then what else the detail screen shows, and presents it.
OpenContent ==
    /\ Shown /\ opening # Nothing
    /\ \/ ReadMayTrap(opening.index) /\ Crash
       \/ /\ Readable(opening.index)
          /\ detail' = [mIdx |-> opening.mIdx, mContent |-> mBucketDataList[opening.index]]
          /\ Leave("ShareDetailView")

-----------------------------------------------------------------------------
(* Delegate queue: onHttpReceive                                             *)

QueueFree == process = "running" /\ AtRest

ReceiveNoData == QueueFree /\ ReplyTraps /\ Crash

\* isValid is cast before the status is looked at, in a covered screen as well.
ReceiveMalformed == QueueFree /\ CastTraps /\ Crash

ReceiveBuckets ==
    /\ QueueFree
    /\ Receives("BUCKET_LIST", "accepted", "front")
    /\ Taken
    /\ BeginRefill(Reply.answer.body)
    /\ UNCHANGED <<inFlight, overtaken, process, screenVars>>

RefillList ==
    /\ process = "running"
    /\ Refill \/ FinishCovered
    /\ UNCHANGED <<httpVars, process, screenVars>>

\* A row that lacks a field is found out when its turn comes.
ReceiveMalformedRow ==
    /\ process = "running"
    /\ RowMayTrap
    /\ Crash

\* A refusal raises a toast; the list and the lit button stay.
ReceiveRefusal ==
    /\ QueueFree
    /\ Receives("BUCKET_LIST", "refused", "front")
    /\ Taken
    /\ missed' = TRUE
    /\ UNCHANGED <<inFlight, overtaken, tableVars, process, top, lit, cells, opening, detail>>

\* What a covered screen receives is never seen.
ReceiveHidden ==
    /\ QueueFree
    /\ \E status \in {"accepted", "refused"} : Receives("BUCKET_LIST", status, "hidden")
    /\ Taken
    /\ UNCHANGED <<inFlight, overtaken, tableVars, process, screenVars>>

-----------------------------------------------------------------------------
(* Session and server                                                        *)

Outside == process = "running" /\ UNCHANGED <<tableVars, process, screenVars>>

ServeBuckets(i) ==
    /\ \E answer \in {Accepted(list) : list \in Lists[inFlight[i].data]} \cup {Refused, Malformed} :
           Serve(i, answer)
    /\ Outside

CompleteTask(i) == Complete(i) /\ Outside

-----------------------------------------------------------------------------

Next ==
    \/ Relaunch \/ Open \/ onBackPressed \/ Reload \/ OpenContent
    \/ \E c \in Category : onClick(c)
    \/ \E i \in 1..rows : DrawRow(i) \/ OpenIdx(i)
    \/ ReceiveNoData \/ ReceiveMalformed \/ ReceiveMalformedRow
    \/ ReceiveBuckets \/ RefillList \/ ReceiveRefusal \/ ReceiveHidden
    \/ \E i \in DOMAIN inFlight : ServeBuckets(i) \/ CompleteTask(i)

\* A task that is not answered is timed out by the session; the delegate queue
\* and the main thread run what is queued on them; the run loop of the main
\* thread serves its queue between two touches or drawings.
Fairness ==
    /\ WF_vars(inFlight # <<>> /\ CompleteTask(1))
    /\ WF_vars(\/ ReceiveNoData \/ ReceiveMalformed
               \/ ReceiveBuckets \/ ReceiveRefusal \/ ReceiveHidden)
    /\ WF_vars(RefillList)
    /\ WF_vars(OpenContent)
    /\ SF_vars(Reload)

Spec == Init /\ [][Next]_vars
FairSpec == Spec /\ Fairness

-----------------------------------------------------------------------------
(* Properties                                                                *)

TaskTypes(statuses) ==
    [ id       : {"BUCKET_LIST"},
      data     : Category,
      receiver : {"front", "hidden"},
      answer   : [status : statuses, body : Seq(Shared)] ]

\* The state is well typed: answers and the list hold shared memos, a cell is
\* drawn at a row the table view believes in and carries its number.
TypeOK ==
    /\ inFlight \in Seq(TaskTypes({"unserved", "accepted", "refused", "malformed"}))
    /\ delivered \in Seq(TaskTypes({"accepted", "refused", "malformed", "no data"}))
    /\ overtaken \in BOOLEAN
    /\ mBucketDataList \in Seq(Shared)
    /\ refill \in [stage : {"none", "removeAll", "append"}, rest : Seq(Shared)]
    /\ posted \in Nat /\ rows \in Nat
    /\ coveredRefill \in BOOLEAN
    /\ process \in {"running", "crashed"}
    /\ top \in {"ViewController", "ShareListView", "ShareDetailView"}
    /\ lit \in Category
    /\ missed \in BOOLEAN
    /\ DOMAIN cells \subseteq 1..rows
    /\ \A i \in DOMAIN cells : cells[i] \in [content : Shared, mData : 1..rows]
    /\ opening = Nothing \/ opening \in [index : 1..rows, mIdx : Shared]
    /\ detail = Nothing \/ detail \in [mIdx : Shared, mContent : Shared]

\* The list never holds rows of two replies, although it is refilled row by row
\* and replies come in any order: with the rows to come it is one answer of the
\* server, or empty.
ListIsOneReply ==
    LET whole == IF refill.stage = "append" THEN mBucketDataList \o refill.rest
                                            ELSE mBucketDataList
    IN whole = <<>> \/ \E c \in Category : whole \in Lists[c]

\* No reply is being written to the list, or waits to be drawn.
Calm == ~Refilling /\ posted = 0

\* Nothing at all is going on for the list in front.
Settled == Calm /\ ~Outstanding("BUCKET_LIST") /\ opening = Nothing

\* When nothing is going on, the list is one of the category that is lit, unless
\* requests overtook each other since the launch, or a category was not asked for
\* or was refused since the screen was opened: before that one category never
\* stands under the button of another.
LitCategoryIsShown ==
    Shown /\ Settled /\ ~overtaken /\ ~missed => mBucketDataList \in Lists[lit]

\* While no reply is being written or drawn, the table view counts the rows of
\* the list, and each cell shows the memo that its number stands for.
CellsShowList ==
    Shown /\ Calm =>
        /\ rows = Len(mBucketDataList)
        /\ \A i \in DOMAIN cells : cells[i].content = mBucketDataList[cells[i].mData]

\* The application crashes only where a reply has no data or lacks what is cast
\* by force, or while a list is being replaced: by a row of the reply, also when
\* its screen is covered by now, or by drawing or opening a row.
CrashesWhileReplacing ==
    [][process' = "crashed" => ReplyTraps \/ CastTraps \/ coveredRefill \/ ~Calm]_process

\* The detail screen is given the memo the touched cell shows, unless the list
\* was being replaced when the cell was touched: never the number of one memo
\* and the text of another.
OpensTouchedMemo ==
    [][ Shown /\ top' = "ShareDetailView" /\ Calm =>
            LET touched == cells[opening.index].content
            IN detail' = [mIdx |-> touched, mContent |-> touched] ]_top

\* Once the user sends no more requests, the screen settles or is left: every
\* request ends, every list is written to the end and drawn.
QuietScreenSettles ==
    <>[][Len(inFlight') <= Len(inFlight)]_inFlight => []<>(Settled \/ ~Shown)
=============================================================================
