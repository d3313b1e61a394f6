------------------------------- MODULE RankVote -------------------------------
(***************************************************************************)
(* RankListView: the ranking of shared memos and the votes on them.        *)
(* Touching a button of a row sends a vote unless the loaded list says     *)
(* that the user has voted on the memo; the reply to a vote empties the    *)
(* list and asks for it again.  Touches and drawing are on the main        *)
(* thread, replies on the delegate queue of the session.                   *)
(*                                                                         *)
(* The server is external: it keeps the last opinion it accepted, and      *)
(* other users may bring more memos into the ranking.                      *)
(***************************************************************************)
EXTENDS HttpTasks, RefilledTable, TLC

CONSTANTS
    Memo,       \* mIdx of the memos users share
    Opinion     \* best, good, so-so: 3, 2, 1

\* An mIdx is an Int of the server's table.
ASSUME MemoAssumption == IsFiniteSet(Memo)
ASSUME OpinionAssumption == Opinion \subseteq Nat \ {0}

VARIABLES
    ranked,     \* server: the memos in the ranking
    opinion,    \* server: what this user thinks of them, 0 for no vote
    process,    \* "running" or "crashed"
    top,        \* the screen in front
    cells,      \* the cells on screen, by row
    drawing,    \* the cell cellForRowAt is half through
    asking      \* what the handler of an accepted vote still has to do

serverVars == <<ranked, opinion>>
vars == <<httpVars, tableVars, serverVars, process, top, cells, drawing, asking>>

\* The rows of a ranking, their content named by the mIdx of the memo.
RankRow == [mIdx : Memo, mComment : Opinion \cup {0}]
RowOf(m) == [mIdx |-> m, mComment |-> opinion[m]]
Rankings == SetToSeqs({RowOf(m) : m \in ranked})

LoadBucketRank(receiver) == Request("RANK_LIST", <<>>, receiver)
SendBucketRank(m, comment) == Request("RANK_UPDATE_COMMENT", <<m, comment>>, "front")

NoCell == [row |-> 0]
NoCells == <<>>

Shown == process = "running" /\ top = "RankListView"
MainFree == Shown /\ drawing = NoCell

\* The handler of a vote is to empty the list, or has emptied it, before it asks
\* for the list again.
Voted == asking \in {"emptying", "emptied"}

\* The user leaves room for the request that handler sends.
RoomToSend == RoomBeside(IF asking = "no" THEN 0 ELSE 1)

\* The process ends; a request on its way has been served by now, or is lost.
Crash ==
    /\ process' = "crashed"
    /\ top' = "ViewController"
    /\ inFlight' = <<>> /\ delivered' = <<>> /\ overtaken' = FALSE
    /\ NewTable /\ coveredRefill' = FALSE
    /\ cells' = NoCells
    /\ drawing' = NoCell
    /\ asking' = "no"
    /\ UNCHANGED serverVars

Relaunch ==
    /\ process = "crashed"
    /\ process' = "running"
    /\ UNCHANGED <<httpVars, tableVars, serverVars, top, cells, drawing, asking>>

Init ==
    /\ HttpInit
    /\ EmptyTable /\ coveredRefill = FALSE
    /\ ranked \in SUBSET Memo
    /\ opinion = [m \in Memo |-> 0]
    /\ process = "running"
    /\ top = "ViewController"
    /\ cells = NoCells
    /\ drawing = NoCell
    /\ asking = "no"

-----------------------------------------------------------------------------
(* Main thread                                                               *)

\* A new RankListView; it loads the ranking if the network is up.
Open ==
    /\ process = "running" /\ top = "ViewController"
    /\ top' = "RankListView"
    /\ \/ RoomToSend /\ Send(LoadBucketRank("front"))
       \/ UNCHANGED inFlight
    /\ UNCHANGED <<delivered, overtaken, tableVars, serverVars, process, cells, drawing, asking>>

\* The main screen covers the ranking; what its handler has to do it still does.
Leave(replies) ==
    /\ top' = "ViewController"
    /\ inFlight' = Hidden(inFlight)
    /\ delivered' = Hidden(replies)
    /\ CoverTable
    /\ asking' = IF Voted THEN "hidden" ELSE asking
    /\ cells' = NoCells
    /\ drawing' = NoCell
    /\ UNCHANGED <<overtaken, serverVars, process>>

onBackPressed == MainFree /\ Leave(delivered)

\* Faulty variant: cells drawn before the reload stay on screen.
ReloadKeepingCells ==
    /\ MainFree
    /\ ReloadData
    /\ UNCHANGED <<httpVars, serverVars, process, top, cells, drawing, asking>>

Reload ==
    /\ MainFree
    /\ ReloadData
    /\ cells' = NoCells
    /\ UNCHANGED <<httpVars, serverVars, process, top, drawing, asking>>

\* removeAll of a vote's handler is a write like those of a refill.
RowMayBeLost(i) == ReadMayTrap(i) \/ asking = "emptying"

\* cellForRowAt for a row the table view believes in, first its content ...
DrawContent(i) ==
    /\ MainFree
    /\ i \in 1..rows
    /\ \/ RowMayBeLost(i) /\ Crash
       \/ /\ Readable(i)
          /\ drawing' = [row |-> i, content |-> mBucketDataList[i].mIdx]
          /\ UNCHANGED <<httpVars, tableVars, serverVars, process, top, cells, asking>>

\* Faulty variant: the row below is read.
DrawVoteBelow ==
    /\ Shown /\ drawing # NoCell
    /\ \/ RowMayBeLost(drawing.row + 1) /\ Crash
       \/ /\ Readable(drawing.row + 1)
          /\ LET cell == [content |-> drawing.content, mData |-> mBucketDataList[drawing.row + 1].mIdx]
             IN cells' = WithCell(cells, drawing.row, cell)
          /\ drawing' = NoCell
          /\ UNCHANGED <<httpVars, tableVars, serverVars, process, top, asking>>

\* ... and then the mIdx its buttons report.
DrawVote ==
    /\ Shown /\ drawing # NoCell
    /\ \/ RowMayBeLost(drawing.row) /\ Crash
       \/ /\ Readable(drawing.row)
          /\ LET cell == [content |-> drawing.content, mData |-> mBucketDataList[drawing.row].mIdx]
             IN cells' = WithCell(cells, drawing.row, cell)
          /\ drawing' = NoCell
          /\ UNCHANGED <<httpVars, tableVars, serverVars, process, top, asking>>

\* Faulty variant: only the first row of the list is looked at.
getCommentCountFirst(m) ==
    \E i \in DOMAIN mBucketDataList :
        i = 1 /\ mBucketDataList[i].mIdx = m /\ mBucketDataList[i].mComment # 0

getCommentCount(m) ==
    \E i \in DOMAIN mBucketDataList :
        mBucketDataList[i].mIdx = m /\ mBucketDataList[i].mComment # 0

\* A button of the cell at row i is touched; a memo voted on gets a toast.
Touch(i, comment) ==
    /\ MainFree
    /\ i \in DOMAIN cells
    /\ \/ (Refilling \/ asking = "emptying") /\ Crash
       \/ /\ ~getCommentCount(cells[i].mData)
          /\ RoomToSend /\ posted < MaxRequests
          /\ Send(SendBucketRank(cells[i].mData, comment))
          /\ UNCHANGED <<delivered, overtaken, tableVars, serverVars>>
          /\ UNCHANGED <<process, top, cells, drawing, asking>>

-----------------------------------------------------------------------------
(* Delegate queue: onHttpReceive                                             *)

QueueFree == process = "running" /\ AtRest /\ asking = "no"

ReceiveNoData == QueueFree /\ ReplyTraps /\ Crash

\* isValid is cast before the status and the request are looked at.
ReceiveMalformed == QueueFree /\ CastTraps /\ Crash

\* RANK_LIST: an empty answer leaves the list as it is.
ReceiveRanking ==
    /\ QueueFree
    /\ Receives("RANK_LIST", "accepted", "front")
    /\ Taken
    /\ IF Reply.answer.body = <<>>
         THEN posted' = posted + 1 /\ UNCHANGED <<mBucketDataList, refill, rows, coveredRefill>>
         ELSE BeginRefill(Reply.answer.body)
    /\ UNCHANGED <<inFlight, overtaken, serverVars, process, top, cells, drawing, asking>>

RefillList ==
    /\ process = "running"
    /\ Refill \/ FinishCovered
    /\ UNCHANGED <<httpVars, serverVars, process, top, cells, drawing, asking>>

\* A row that lacks a field is found out when its turn comes.
ReceiveMalformedRow ==
    /\ process = "running"
    /\ RowMayTrap
    /\ Crash

\* Faulty variant: the list is kept as it was.
ReceiveVotedQuietly ==
    /\ QueueFree
    /\ Receives("RANK_UPDATE_COMMENT", "accepted", "front")
    /\ Taken
    /\ UNCHANGED <<inFlight, overtaken, tableVars, serverVars, process, top, cells, drawing, asking>>

\* RANK_UPDATE_COMMENT: the handler of an accepted vote ...
ReceiveVoted ==
    /\ QueueFree
    /\ Receives("RANK_UPDATE_COMMENT", "accepted", "front")
    /\ Taken
    /\ asking' = "emptying"
    /\ UNCHANGED <<inFlight, overtaken, tableVars, serverVars, process, top, cells, drawing>>

\* ... empties the list, and does not tell the table view ...
EmptyList ==
    /\ process = "running"
    /\ asking = "emptying"
    /\ mBucketDataList' = <<>>
    /\ asking' = "emptied"
    /\ UNCHANGED <<refill, posted, rows, coveredRefill>>
    /\ UNCHANGED <<httpVars, serverVars, process, top, cells, drawing>>

\* Faulty variant: the list is not asked for again.
AskAgainNot ==
    /\ process = "running"
    /\ asking \in {"emptied", "hidden"}
    /\ asking' = "no"
    /\ UNCHANGED <<httpVars, tableVars, serverVars, process, top, cells, drawing>>

\* ... and asks for it again, also when its screen is covered by now.
AskAgain ==
    /\ process = "running"
    /\ asking \in {"emptied", "hidden"}
    /\ Send(LoadBucketRank(IF asking = "hidden" THEN "hidden" ELSE "front"))
    /\ asking' = "no"
    /\ UNCHANGED <<delivered, overtaken, tableVars, serverVars, process, top, cells, drawing>>

\* Any refusal closes the screen.
ReceiveRefusal ==
    /\ QueueFree
    /\ \E id \in {"RANK_LIST", "RANK_UPDATE_COMMENT"} : Receives(id, "refused", "front")
    /\ Leave(Tail(delivered))

\* A covered screen still reloads after a vote; what it shows is never seen,
\* and it cannot present another screen any more.
ReceiveHidden ==
    /\ QueueFree
    /\ \E status \in {"accepted", "refused"} :
        \/ /\ Receives("RANK_UPDATE_COMMENT", status, "hidden")
           /\ IF status = "accepted" THEN Send(LoadBucketRank("hidden"))
                                     ELSE UNCHANGED inFlight
        \/ Receives("RANK_LIST", status, "hidden") /\ UNCHANGED inFlight
    /\ Taken
    /\ UNCHANGED <<overtaken, tableVars, serverVars, process, top, cells, drawing, asking>>

-----------------------------------------------------------------------------
(* Session and server                                                        *)

Outside == UNCHANGED <<tableVars, process, top, cells, drawing, asking>>

ServeRanking(i) ==
    /\ inFlight[i].id = "RANK_LIST"
    /\ \E answer \in {Accepted(list) : list \in Rankings} \cup {Refused, Malformed} :
           Serve(i, answer)
    /\ UNCHANGED serverVars /\ Outside

ServeVote(i) ==
    /\ inFlight[i].id = "RANK_UPDATE_COMMENT"
    /\ \/ \E answer \in {Refused, Malformed} : Serve(i, answer) /\ UNCHANGED opinion
       \/ /\ \E answer \in {Accepted(<<>>), Malformed} : Serve(i, answer)
          /\ opinion' = [opinion EXCEPT ![inFlight[i].data[1]] = inFlight[i].data[2]]
    /\ UNCHANGED ranked /\ Outside

CompleteTask(i) == Complete(i) /\ UNCHANGED serverVars /\ Outside

\* Another user brings a memo into the ranking.
ShareElsewhere(m) ==
    /\ m \notin ranked
    /\ ranked' = ranked \cup {m}
    /\ UNCHANGED <<httpVars, opinion>> /\ Outside

-----------------------------------------------------------------------------

Running == process = "running"
Next ==
    \/ Relaunch \/ Open \/ onBackPressed \/ Reload \/ DrawVote
    \/ \E i \in 1..rows : DrawContent(i) \/ \E o \in Opinion : Touch(i, o)
    \/ ReceiveNoData \/ ReceiveMalformed \/ ReceiveMalformedRow
    \/ ReceiveRanking \/ RefillList \/ ReceiveVoted \/ EmptyList \/ AskAgain
    \/ ReceiveRefusal \/ ReceiveHidden
    \/ /\ Running
       /\ \/ \E i \in DOMAIN inFlight : ServeRanking(i) \/ ServeVote(i) \/ CompleteTask(i)
          \/ \E m \in Memo : ShareElsewhere(m)

\* A task that is not answered is timed out by the session; the delegate queue
\* and the main thread run what is queued on them; the run loop of the main
\* thread serves its queue between two touches or drawings.
Fairness ==
    /\ WF_vars(Running /\ inFlight # <<>> /\ CompleteTask(1))
    /\ WF_vars(\/ ReceiveNoData \/ ReceiveMalformed \/ ReceiveRanking \/ ReceiveVoted
               \/ ReceiveRefusal \/ ReceiveHidden)
    /\ WF_vars(RefillList \/ EmptyList \/ AskAgain)
    /\ WF_vars(DrawVote)
    /\ SF_vars(Reload)

Spec == Init /\ [][Next]_vars
FairSpec == Spec /\ Fairness

-----------------------------------------------------------------------------
(* Properties                                                                *)

TaskTypes(status) ==
    [ id       : {"RANK_LIST", "RANK_UPDATE_COMMENT"},
      data     : {<<>>} \cup (Memo \X Opinion),
      receiver : {"front", "hidden"},
      answer   : [status : status, body : Seq(RankRow)] ]

\* The state is well typed: answers hold rows of rankings, cells are drawn at
\* rows the table view believes in.
TypeOK ==
    /\ inFlight \in Seq(TaskTypes({"unserved", "accepted", "refused", "malformed"}))
    /\ delivered \in Seq(TaskTypes({"accepted", "refused", "malformed", "no data"}))
    /\ overtaken \in BOOLEAN
    /\ mBucketDataList \in Seq(RankRow)
    /\ refill \in [stage : {"none", "removeAll", "append"}, rest : Seq(RankRow)]
    /\ posted \in Nat /\ rows \in Nat
    /\ coveredRefill \in BOOLEAN
    /\ ranked \subseteq Memo
    /\ opinion \in [Memo -> Opinion \cup {0}]
    /\ process \in {"running", "crashed"}
    /\ top \in {"ViewController", "RankListView"}
    /\ DOMAIN cells \subseteq 1..rows
    /\ \A i \in DOMAIN cells :
        cells[i] \in [content : Memo, mData : Memo]
    /\ drawing = NoCell \/ drawing \in [row : 1..rows, content : Memo]
    /\ asking \in {"no", "emptying", "emptied", "hidden"}

\* Nothing is going on for the screen in front.
Settled ==
    /\ ~Outstanding("RANK_LIST") /\ ~Outstanding("RANK_UPDATE_COMMENT")
    /\ ~Refilling /\ ~Voted /\ posted = 0 /\ drawing = NoCell

\* When nothing is going on, a cell shows and votes on the memo of its row,
\* though it was drawn from a list another thread changes; and if no request
\* overtook another, the row says of the memo what the server last accepted of
\* the user, however votes, replies and reloads interleaved.
SettledScreenIsCurrent ==
    Shown /\ Settled =>
        /\ rows = Len(mBucketDataList)
        /\ \A i \in DOMAIN cells :
            /\ cells[i].content = cells[i].mData
            /\ cells[i].mData = mBucketDataList[i].mIdx
        /\ overtaken \/ \A row \in Range(mBucketDataList) : row.mComment = opinion[row.mIdx]

\* The application crashes only where a reply has no data or lacks what is cast
\* by force, a row of a reply to a covered screen included, or while a ranking is
\* being emptied after a vote, asked for, refilled, or about to be reloaded: a
\* list that a vote emptied is not left behind for the table view to draw from.
CrashesWhileReplacing ==
    [][ process' = "crashed" =>
          \/ ReplyTraps \/ CastTraps \/ coveredRefill
          \/ Voted \/ Outstanding("RANK_LIST") \/ Refilling \/ posted > 0 ]_process

NewVote(m) ==
    /\ Len(inFlight') > Len(inFlight)
    /\ Last(inFlight').id = "RANK_UPDATE_COMMENT"
    /\ Last(inFlight').data[1] = m

\* A memo the user has voted on is voted on again only while replies or
\* reloads are still going on, or after requests overtook each other.
RevotesOnlyInFlux ==
    [][ \A m \in Memo : NewVote(m) /\ opinion[m] # 0 => ~Settled \/ overtaken ]_inFlight

\* Rows beyond the list do not stay: after a vote the table is reloaded, or
\* the screen is left, or the application ends.
EmptiedTableIsReloaded ==
    (Shown /\ rows > Len(mBucketDataList)) ~> (~Shown \/ rows <= Len(mBucketDataList))
=============================================================================
