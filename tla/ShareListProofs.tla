---------------------------- MODULE ShareListProofs ----------------------------
(***************************************************************************)
(* Proofs about the list of shared memos: what the safety properties of    *)
(* ShareList rest on is carried from one step to the next by IInv.         *)
(***************************************************************************)
EXTENDS ShareList, RowLemmas

-----------------------------------------------------------------------------
(* The inductive invariant                                                   *)

\* What a request on its way may carry, and what an ended one may.
Answers(c) == {Accepted(list) : list \in Lists[c]}
OnTheWay ==
    {t \in TaskTypes({"unserved", "accepted", "refused", "malformed"}) :
        t.answer \in {Unserved, Refused, Malformed} \cup Answers(t.data)}
Ended ==
    {t \in TaskTypes({"accepted", "refused", "malformed", "no data"}) :
        t.answer \in {NoData, Refused, Malformed} \cup Answers(t.data)}

TasksFit ==
    /\ inFlight \in Seq(OnTheWay)
    /\ delivered \in Seq(Ended)
    /\ overtaken \in BOOLEAN

TableFits ==
    /\ mBucketDataList \in Seq(Shared)
    /\ refill \in [stage : {"none", "removeAll", "append"}, rest : Seq(Shared)]
    /\ refill.stage = "none" => refill = NoRefill
    /\ posted \in Nat /\ rows \in Nat
    /\ coveredRefill \in BOOLEAN

ScreenFits ==
    /\ process \in {"running", "crashed"}
    /\ top \in {"ViewController", "ShareListView", "ShareDetailView"}
    /\ lit \in Category
    /\ missed \in BOOLEAN
    /\ DOMAIN cells \subseteq 1..rows
    /\ \A i \in DOMAIN cells : cells[i] \in [content : Shared, mData : {i}]
    /\ opening = Nothing \/ opening \in [index : 1..rows, mIdx : Shared]
    /\ detail = Nothing \/ detail \in [mIdx : Shared, mContent : Shared]

\* Requests of the screen in front.
OfFront(tasks) == \E t \in ToSet(tasks) : t.receiver = "front"

\* Without a list in front there is no table and nobody to answer.
NothingElsewhere ==
    /\ process = "crashed" => top = "ViewController"
    /\ top # "ShareListView" =>
        /\ EmptyTable /\ cells = NoCells /\ opening = Nothing
        /\ ~OfFront(inFlight) /\ ~OfFront(delivered)

RefillIsOneReply ==
    /\ refill.stage = "removeAll" => \E c \in Category : refill.rest \in Lists[c]
    /\ ListIsOneReply

\* A row touched in a calm list is still the row of its cell.
OpeningFits ==
    Shown /\ Calm /\ opening # Nothing =>
        /\ opening.index \in DOMAIN cells
        /\ opening.mIdx = mBucketDataList[opening.index]

\* The request sent last, while some are outstanding; the list to be, when none
\* is.
Newest == IF inFlight # <<>> THEN inFlight[Len(inFlight)] ELSE delivered[Len(delivered)]
ToCome ==
    IF refill.stage = "none" THEN mBucketDataList
    ELSE IF refill.stage = "removeAll" THEN refill.rest
    ELSE mBucketDataList \o refill.rest

NewestIsLit ==
    Shown /\ ~overtaken /\ ~missed =>
        IF OfFront(inFlight) \/ OfFront(delivered)
          THEN Newest.receiver = "front" /\ Newest.data = lit
          ELSE ToCome \in Lists[lit]

IInv ==
    /\ TasksFit
    /\ TableFits
    /\ ScreenFits
    /\ NothingElsewhere
    /\ RefillIsOneReply
    /\ CellsShowList
    /\ OpeningFits
    /\ NewestIsLit

-----------------------------------------------------------------------------
(* Requests and replies                                                      *)

\* A category has lists of shared memos.
LEMMA ListsFacts ==
    ASSUME NEW c \in Category, NEW list \in Lists[c]
    PROVE  list \in Seq(Shared)
BY ListsAssumption

\* What the server answers, and what a task without an answer reports.
LEMMA AnswerFacts ==
    ASSUME NEW c \in Category
    PROVE  /\ Answers(c) \subseteq [status : {"accepted"}, body : Seq(Shared)]
           /\ Refused \in [status : {"refused"}, body : Seq(Shared)]
           /\ Malformed \in [status : {"malformed"}, body : Seq(Shared)]
           /\ NoData \in [status : {"no data"}, body : Seq(Shared)]
<1>1. ASSUME NEW list \in Lists[c]
      PROVE  Accepted(list) \in [status : {"accepted"}, body : Seq(Shared)]
  BY ListsFacts DEF Accepted
<1>2. <<>> \in Seq(Shared)
  BY EmptySeq
<1>3. /\ Refused \in [status : {"refused"}, body : Seq(Shared)]
      /\ Malformed \in [status : {"malformed"}, body : Seq(Shared)]
      /\ NoData \in [status : {"no data"}, body : Seq(Shared)]
  BY <1>2 DEF Refused, Malformed, NoData
<1> QED
  BY <1>1, <1>3 DEF Answers

\* A request on its way, and one that ended.
LEMMA TaskFacts ==
    /\ \A t \in OnTheWay : t.data \in Category /\ t.receiver \in {"front", "hidden"}
    /\ \A t \in Ended :
        /\ t.data \in Category /\ t.receiver \in {"front", "hidden"}
        /\ t.answer.status = "accepted" => t.answer.body \in Lists[t.data]
<1>1. ASSUME NEW t \in OnTheWay
      PROVE  t.data \in Category /\ t.receiver \in {"front", "hidden"}
  BY DEF OnTheWay, TaskTypes
<1>2. ASSUME NEW t \in Ended
      PROVE  /\ t.data \in Category /\ t.receiver \in {"front", "hidden"}
             /\ t.answer.status = "accepted" => t.answer.body \in Lists[t.data]
  <2>1. /\ t.data \in Category /\ t.receiver \in {"front", "hidden"}
        /\ t.answer \in {NoData, Refused, Malformed} \cup Answers(t.data)
    BY DEF Ended, TaskTypes
  <2>2. /\ NoData.status # "accepted"
        /\ Refused.status # "accepted" /\ Malformed.status # "accepted"
    BY DEF NoData, Refused, Malformed
  <2>3. \A answer \in Answers(t.data) : answer.body \in Lists[t.data]
    BY DEF Answers, Accepted
  <2> QED
    BY <2>1, <2>2, <2>3
<1> QED
  BY <1>1, <1>2

\* Hiding the receivers of requests leaves none of the screen in front.
LEMMA HiddenFacts ==
    ASSUME NEW T \in {OnTheWay, Ended}, NEW tasks \in Seq(T)
    PROVE  /\ Hidden(tasks) \in Seq(T)
           /\ ~OfFront(Hidden(tasks))
<1>1. /\ DOMAIN tasks = 1..Len(tasks)
      /\ \A i \in DOMAIN tasks : tasks[i] \in T
  BY RowsFacts
<1>2. ASSUME NEW t \in T
      PROVE  /\ [t EXCEPT !.receiver = "hidden"] \in T
             /\ [t EXCEPT !.receiver = "hidden"].receiver = "hidden"
  <2>1. CASE T = OnTheWay
    BY <2>1 DEF OnTheWay, TaskTypes
  <2>2. CASE T = Ended
    BY <2>2 DEF Ended, TaskTypes
  <2> QED
    BY <2>1, <2>2
<1>3. Hidden(tasks) \in [DOMAIN tasks -> T]
  BY <1>1, <1>2 DEF Hidden
<1>4. Hidden(tasks) \in Seq(T) /\ DOMAIN Hidden(tasks) = DOMAIN tasks
  BY <1>3, MappedFacts
<1>5. \A i \in DOMAIN tasks : Hidden(tasks)[i].receiver = "hidden"
  BY <1>1, <1>2 DEF Hidden
<1> QED
  BY <1>4, <1>5 DEF OfFront, ToSet

\* A request for the screen in front joins the others as the newest.
LEMMA SendFacts ==
    ASSUME TasksFit, NEW c \in Category, Send(ShareBucketList(c))
    PROVE  /\ inFlight' \in Seq(OnTheWay)
           /\ OfFront(inFlight')
           /\ inFlight' # <<>>
           /\ inFlight'[Len(inFlight')].receiver = "front"
           /\ inFlight'[Len(inFlight')].data = c
<1> DEFINE request == ShareBucketList(c)
<1>1. /\ request \in OnTheWay
      /\ request.receiver = "front"
      /\ request.data = c
  BY EmptySeq DEF OnTheWay, TaskTypes, ShareBucketList, Request, Unserved
<1> HIDE DEF request
<1>2. /\ inFlight \in Seq(OnTheWay)
      /\ inFlight' = Append(inFlight, request)
  BY DEF TasksFit, Send, request
<1>3. /\ inFlight' \in Seq(OnTheWay)
      /\ ToSet(inFlight') = ToSet(inFlight) \cup {request}
  BY <1>1, <1>2, AppendFacts
<1>4. Len(inFlight') = Len(inFlight) + 1 /\ inFlight'[Len(inFlight) + 1] = request
  BY <1>1, <1>2
<1>5. inFlight' # <<>>
  BY <1>2, <1>3, <1>4, RowsFacts
<1> QED
  BY <1>1, <1>3, <1>4, <1>5 DEF OfFront

-----------------------------------------------------------------------------
(* IInv is inductive                                                         *)

LEMMA InitInv == Init => IInv
<1> SUFFICES ASSUME Init PROVE IInv
  OBVIOUS
<1> USE FirstAssumption
    DEF Init, HttpInit, EmptyTable, NoRefill, NoCells, Nothing
<1>1. TasksFit
  BY EmptySeq DEF TasksFit
<1>2. TableFits
  BY EmptySeq DEF TableFits
<1>3. ScreenFits
  <2>1. DOMAIN cells = {}
    OBVIOUS
  <2>2. missed \in BOOLEAN
    OBVIOUS
  <2> QED
    BY <2>1, <2>2 DEF ScreenFits
<1>4. NothingElsewhere
  BY DEF NothingElsewhere, OfFront, ToSet
<1>5. RefillIsOneReply
  BY DEF RefillIsOneReply, ListIsOneReply
<1>6. CellsShowList /\ OpeningFits /\ NewestIsLit
  BY DEF CellsShowList, OpeningFits, NewestIsLit, Shown
<1> QED
  BY <1>1, <1>2, <1>3, <1>4, <1>5, <1>6 DEF IInv

\* Memory is as new after a crash.
LEMMA CrashKeeps ==
    ASSUME Crash
    PROVE  IInv'
<1> USE FirstAssumption DEF Crash, NewTable, NoRefill, NoCells, Nothing
<1>1. TasksFit'
  BY EmptySeq DEF TasksFit
<1>2. TableFits'
  BY EmptySeq DEF TableFits, NoRefill
<1>3. ScreenFits'
  <2>1. DOMAIN cells' = {}
    OBVIOUS
  <2>2. missed' \in BOOLEAN
    OBVIOUS
  <2> QED
    BY <2>1, <2>2 DEF ScreenFits
<1>4. NothingElsewhere'
  BY DEF NothingElsewhere, OfFront, ToSet, EmptyTable
<1>5. RefillIsOneReply'
  BY DEF RefillIsOneReply, ListIsOneReply
<1>6. (CellsShowList /\ OpeningFits /\ NewestIsLit)'
  BY DEF CellsShowList, OpeningFits, NewestIsLit, Shown
<1> QED
  BY <1>1, <1>2, <1>3, <1>4, <1>5, <1>6 DEF IInv

LEMMA RelaunchKeeps ==
    ASSUME IInv, Relaunch
    PROVE  IInv'
<1> USE DEF IInv, Relaunch, httpVars, tableVars, screenVars
<1>1. TasksFit' /\ TableFits'
  BY DEF TasksFit, TableFits
<1>2. ScreenFits'
  BY DEF ScreenFits
<1>3. NothingElsewhere'
  BY DEF NothingElsewhere, EmptyTable
<1>4. RefillIsOneReply'
  BY DEF RefillIsOneReply, ListIsOneReply
<1>5. ~Shown'
  BY DEF Shown, NothingElsewhere
<1> QED
  BY <1>1, <1>2, <1>3, <1>4, <1>5 DEF CellsShowList, OpeningFits, NewestIsLit

\* A new list starts with nothing, and with its own request or none.
LEMMA OpenKeeps ==
    ASSUME IInv, Open
    PROVE  IInv'
<1> USE DEF IInv
<1>0. /\ top # "ShareListView" /\ top' = "ShareListView" /\ process = "running"
      /\ lit' = First /\ detail' = Nothing
      /\ UNCHANGED <<delivered, overtaken, tableVars, process, cells, opening>>
  BY DEF Open
<1>1. \/ Send(ShareBucketList(First)) /\ missed' = FALSE
      \/ missed' = TRUE /\ UNCHANGED inFlight
  BY DEF Open
<1>2. inFlight' \in Seq(OnTheWay)
  BY <1>1, SendFacts, FirstAssumption DEF TasksFit
<1>3. TasksFit' /\ TableFits'
  BY <1>0, <1>2 DEF TasksFit, TableFits, tableVars
<1>4. ScreenFits'
  BY <1>0, <1>1, FirstAssumption DEF ScreenFits, tableVars
<1>5. NothingElsewhere'
  BY <1>0 DEF NothingElsewhere
<1>6. RefillIsOneReply'
  BY <1>0 DEF RefillIsOneReply, ListIsOneReply, tableVars
<1>7. CellsShowList' /\ OpeningFits'
  BY <1>0, EmptySeq
  DEF NothingElsewhere, EmptyTable, NoCells, CellsShowList, OpeningFits, tableVars
<1>8. NewestIsLit'
  <2>1. CASE Send(ShareBucketList(First))
    BY <1>0, <2>1, SendFacts, FirstAssumption DEF NewestIsLit, Newest
  <2>2. CASE missed' = TRUE
    BY <2>2 DEF NewestIsLit
  <2> QED
    BY <1>1, <2>1, <2>2
<1> QED
  BY <1>3, <1>4, <1>5, <1>6, <1>7, <1>8

\* A screen that covers the list leaves nothing of it.
LEMMA LeaveKeeps ==
    ASSUME IInv, NEW screen \in {"ViewController", "ShareDetailView"}, Leave(screen),
           process = "running",
           detail' = Nothing \/ detail' \in [mIdx : Shared, mContent : Shared]
    PROVE  IInv'
<1> USE DEF IInv, Leave, CoverTable, NewTable, NoRefill
<1>1. /\ inFlight' \in Seq(OnTheWay) /\ ~OfFront(inFlight')
      /\ delivered' \in Seq(Ended) /\ ~OfFront(delivered')
  BY HiddenFacts DEF TasksFit
<1>2. TasksFit' /\ TableFits'
  <2>1. coveredRefill' \in BOOLEAN
    BY DEF TableFits
  <2> QED
    BY <1>1, <2>1, EmptySeq DEF TasksFit, TableFits
<1>3. ScreenFits'
  BY DEF ScreenFits, NoCells, Nothing
<1>4. NothingElsewhere'
  BY <1>1 DEF NothingElsewhere, EmptyTable
<1>5. RefillIsOneReply'
  BY DEF RefillIsOneReply, ListIsOneReply
<1>6. ~Shown'
  BY DEF Shown
<1> QED
  BY <1>2, <1>3, <1>4, <1>5, <1>6 DEF CellsShowList, OpeningFits, NewestIsLit

\* The request for the category lit is the newest, or it is missed.
LEMMA ClickKeeps ==
    ASSUME IInv, NEW c \in Category, onClick(c)
    PROVE  IInv'
<1> USE DEF IInv
<1>0. /\ Shown /\ opening = Nothing
      /\ lit' = c
      /\ UNCHANGED <<delivered, overtaken, tableVars, process, top, cells, opening, detail>>
  BY DEF onClick, MainFree
<1>1. \/ Send(ShareBucketList(c)) /\ UNCHANGED missed
      \/ missed' = TRUE /\ UNCHANGED inFlight
  BY DEF onClick, Ask
<1>2. inFlight' \in Seq(OnTheWay)
  BY <1>1, SendFacts DEF TasksFit
<1>3. TasksFit' /\ TableFits'
  BY <1>0, <1>2 DEF TasksFit, TableFits, tableVars
<1>4. ScreenFits'
  BY <1>0, <1>1 DEF ScreenFits, tableVars
<1>5. NothingElsewhere'
  BY <1>0 DEF NothingElsewhere, Shown
<1>6. RefillIsOneReply'
  BY <1>0 DEF RefillIsOneReply, ListIsOneReply, tableVars
<1>7. CellsShowList' /\ OpeningFits'
  BY <1>0 DEF CellsShowList, OpeningFits, Shown, Calm, Refilling, tableVars
<1>8. NewestIsLit'
  <2>1. CASE Send(ShareBucketList(c))
    BY <1>0, <2>1, SendFacts DEF NewestIsLit, Newest
  <2>2. CASE missed' = TRUE
    BY <2>2 DEF NewestIsLit
  <2> QED
    BY <1>1, <2>1, <2>2
<1> QED
  BY <1>3, <1>4, <1>5, <1>6, <1>7, <1>8

LEMMA ReloadKeeps ==
    ASSUME IInv, Reload
    PROVE  IInv'
<1> USE DEF IInv
<1>0. /\ Shown /\ opening = Nothing
      /\ posted > 0 /\ posted' = posted - 1
      /\ rows' = Len(mBucketDataList)
      /\ cells' = NoCells
      /\ UNCHANGED <<httpVars, mBucketDataList, refill, coveredRefill, process, top,
                     lit, missed, opening, detail>>
  BY DEF Reload, MainFree, ReloadData
<1>1. TasksFit' /\ TableFits'
  BY <1>0, LenProperties DEF TasksFit, TableFits, httpVars
<1>2. ScreenFits'
  <2>1. DOMAIN cells' = {}
    BY <1>0 DEF NoCells
  <2> QED
    BY <1>0, <2>1 DEF ScreenFits
<1>3. NothingElsewhere'
  BY <1>0 DEF NothingElsewhere, Shown
<1>4. RefillIsOneReply'
  BY <1>0 DEF RefillIsOneReply, ListIsOneReply
<1>5. CellsShowList' /\ OpeningFits'
  BY <1>0 DEF CellsShowList, OpeningFits, NoCells
<1>6. NewestIsLit'
  BY <1>0 DEF NewestIsLit, Newest, ToCome, Shown, httpVars
<1> QED
  BY <1>1, <1>2, <1>3, <1>4, <1>5, <1>6

\* A row drawn while the list is calm is drawn from the list it stays in.
LEMMA DrawRowKeeps ==
    ASSUME IInv, NEW i \in 1..rows, DrawRow(i)
    PROVE  IInv'
<1> USE DEF IInv
<1>1. CASE Crash
  BY <1>1, CrashKeeps
<1>2. CASE ~Crash
  <2> DEFINE cell == [content |-> mBucketDataList[i], mData |-> i]
  <2>0. /\ Shown /\ opening = Nothing
        /\ i <= Len(mBucketDataList)
        /\ cells' = WithCell(cells, i, cell)
        /\ UNCHANGED <<httpVars, tableVars, process, top, lit, missed, opening, detail>>
    BY <1>2 DEF DrawRow, MainFree, Readable
  <2>1. i \in DOMAIN mBucketDataList /\ mBucketDataList[i] \in Shared
    BY <2>0, RowsFacts DEF TableFits
  <2>2. /\ DOMAIN cells' = DOMAIN cells \cup {i}
        /\ cells'[i] = cell
        /\ \A j \in DOMAIN cells : j # i => cells'[j] = cells[j]
    BY <2>0 DEF WithCell
  <2>3. TasksFit' /\ TableFits'
    BY <2>0 DEF TasksFit, TableFits, httpVars, tableVars
  <2>4. ScreenFits'
    BY <2>0, <2>1, <2>2 DEF ScreenFits, tableVars
  <2>5. NothingElsewhere'
    BY <2>0 DEF NothingElsewhere, Shown
  <2>6. RefillIsOneReply'
    BY <2>0 DEF RefillIsOneReply, ListIsOneReply, tableVars
  <2>7. CellsShowList' /\ OpeningFits'
    BY <2>0, <2>2 DEF CellsShowList, OpeningFits, Shown, Calm, Refilling, tableVars
  <2>8. NewestIsLit'
    BY <2>0 DEF NewestIsLit, Newest, ToCome, Shown, httpVars, tableVars
  <2> QED
    BY <2>3, <2>4, <2>5, <2>6, <2>7, <2>8
<1> QED
  BY <1>1, <1>2

\* The number of a cell is the number of its row.
LEMMA OpenIdxKeeps ==
    ASSUME IInv, NEW i \in 1..rows, OpenIdx(i)
    PROVE  IInv'
<1> USE DEF IInv
<1>1. CASE Crash
  BY <1>1, CrashKeeps
<1>2. CASE ~Crash
  <2>1. i \in DOMAIN cells /\ cells[i].mData = i
    BY DEF OpenIdx, ScreenFits
  <2>0. /\ Shown
        /\ i <= Len(mBucketDataList)
        /\ opening' = [index |-> i, mIdx |-> mBucketDataList[i]]
        /\ UNCHANGED <<httpVars, tableVars, process, top, lit, missed, cells, detail>>
    BY <1>2, <2>1 DEF OpenIdx, MainFree, Readable
  <2>2. mBucketDataList[i] \in Shared
    BY <2>0, RowsFacts DEF TableFits
  <2>3. TasksFit' /\ TableFits'
    BY <2>0 DEF TasksFit, TableFits, httpVars, tableVars
  <2>4. ScreenFits'
    BY <2>0, <2>2 DEF ScreenFits, tableVars
  <2>5. NothingElsewhere'
    BY <2>0 DEF NothingElsewhere, Shown
  <2>6. RefillIsOneReply'
    BY <2>0 DEF RefillIsOneReply, ListIsOneReply, tableVars
  <2>7. CellsShowList' /\ OpeningFits'
    BY <2>0, <2>1 DEF CellsShowList, OpeningFits, Shown, Calm, Refilling, tableVars
  <2>8. NewestIsLit'
    BY <2>0 DEF NewestIsLit, Newest, ToCome, Shown, httpVars, tableVars
  <2> QED
    BY <2>3, <2>4, <2>5, <2>6, <2>7, <2>8
<1> QED
  BY <1>1, <1>2

LEMMA OpenContentKeeps ==
    ASSUME IInv, OpenContent
    PROVE  IInv'
<1>1. CASE Crash
  BY <1>1, CrashKeeps
<1>2. CASE ~Crash
  <2>1. /\ Shown /\ opening # Nothing
        /\ opening.index <= Len(mBucketDataList)
        /\ detail' = [mIdx |-> opening.mIdx, mContent |-> mBucketDataList[opening.index]]
        /\ Leave("ShareDetailView")
    BY <1>2 DEF OpenContent, Readable
  <2>2. opening.index \in 1..rows /\ opening.mIdx \in Shared
    BY <2>1 DEF IInv, ScreenFits
  <2>3. mBucketDataList[opening.index] \in Shared
    BY <2>1, <2>2, RowsFacts DEF IInv, TableFits
  <2> QED
    BY <2>1, <2>2, <2>3, LeaveKeeps DEF Shown
<1> QED
  BY <1>1, <1>2

-----------------------------------------------------------------------------

\* Without overtaking, the reply taken is the newest only when no request is
\* left; the list to be is then the one of the category lit.
LEMMA TakenFacts ==
    ASSUME IInv, delivered # <<>>, Taken, UNCHANGED inFlight
    PROVE  /\ Reply \in Ended
           /\ delivered' \in Seq(Ended)
           /\ OfFront(delivered) <=> OfFront(delivered') \/ Reply.receiver = "front"
           /\ delivered' # <<>> \/ inFlight # <<>> => Newest' = Newest
           /\ delivered' = <<>> /\ inFlight = <<>> => Newest = Reply
<1>1. /\ Reply \in Ended
      /\ Reply = delivered[1]
      /\ delivered' \in Seq(Ended)
      /\ Len(delivered') = Len(delivered) - 1
      /\ \A j \in 1..(Len(delivered) - 1) : delivered'[j] = delivered[j + 1]
      /\ ToSet(delivered) = ToSet(delivered') \cup {Reply}
  BY TailFacts DEF IInv, TasksFit, Taken, Reply
<1>2. Len(delivered) \in Nat \ {0}
  BY EmptySeq DEF IInv, TasksFit
<1>3. delivered' = <<>> <=> Len(delivered) = 1
  BY <1>1, <1>2, RowsFacts
<1>4. ASSUME inFlight = <<>>, delivered' # <<>>
      PROVE  delivered'[Len(delivered')] = delivered[Len(delivered)]
  <2>1. /\ Len(delivered) - 1 \in 1..(Len(delivered) - 1)
        /\ (Len(delivered) - 1) + 1 = Len(delivered)
    BY <1>1, <1>2, <1>3, <1>4, EmptySeq, LenProperties
  <2> QED
    BY <1>1, <2>1
<1> QED
  BY <1>1, <1>3, <1>4 DEF OfFront, Newest

LEMMA ReceiveBucketsKeeps ==
    ASSUME IInv, ReceiveBuckets
    PROVE  IInv'
<1> USE DEF IInv
<1>0. /\ process = "running" /\ ~Refilling
      /\ delivered # <<>> /\ Taken
      /\ Reply.answer.status = "accepted" /\ Reply.receiver = "front"
      /\ refill' = [stage |-> "removeAll", rest |-> Reply.answer.body]
      /\ UNCHANGED <<inFlight, overtaken, mBucketDataList, posted, rows, coveredRefill,
                     process, screenVars>>
  BY DEF ReceiveBuckets, QueueFree, AtRest, Receives, BeginRefill
<1>1. /\ Reply \in Ended
      /\ delivered' \in Seq(Ended)
      /\ OfFront(delivered)
      /\ delivered' # <<>> \/ inFlight # <<>> => Newest' = Newest
      /\ delivered' = <<>> /\ inFlight = <<>> => Newest = Reply
  BY <1>0, TakenFacts
<1>2. /\ Reply.data \in Category
      /\ Reply.answer.body \in Lists[Reply.data]
      /\ Reply.answer.body \in Seq(Shared)
  BY <1>0, <1>1, TaskFacts, ListsFacts
<1>3. TasksFit' /\ TableFits'
  BY <1>0, <1>1, <1>2 DEF TasksFit, TableFits
<1>4. ScreenFits'
  BY <1>0 DEF ScreenFits, screenVars
<1>5. NothingElsewhere'
  BY <1>0, <1>1 DEF NothingElsewhere, screenVars
<1>6. RefillIsOneReply'
  BY <1>0, <1>2
  DEF RefillIsOneReply, ListIsOneReply, TableFits, Refilling, NoRefill
<1>7. CellsShowList' /\ OpeningFits'
  BY <1>0 DEF CellsShowList, OpeningFits, Calm, Refilling, NoRefill
<1>8. NewestIsLit'
  <2> SUFFICES ASSUME Shown', ~overtaken', ~missed'
               PROVE  IF OfFront(inFlight') \/ OfFront(delivered')
                        THEN Newest'.receiver = "front" /\ Newest'.data = lit'
                        ELSE ToCome' \in Lists[lit']
    BY DEF NewestIsLit
  <2>1. Newest.receiver = "front" /\ Newest.data = lit
    BY <1>0, <1>1 DEF NewestIsLit, Shown, screenVars
  <2>2. CASE delivered' = <<>> /\ inFlight = <<>>
    <3>1. ~OfFront(inFlight') /\ ~OfFront(delivered')
      BY <1>0, <2>2 DEF OfFront, ToSet
    <3>2. ToCome' \in Lists[lit']
      BY <1>0, <1>1, <1>2, <2>1, <2>2 DEF ToCome, screenVars
    <3> QED
      BY <3>1, <3>2
  <2>3. CASE delivered' # <<>> \/ inFlight # <<>>
    <3>1. Newest' = Newest /\ Newest.receiver = "front" /\ Newest.data = lit'
      BY <1>0, <1>1, <2>1, <2>3 DEF screenVars
    <3>2. Newest \in ToSet(inFlight') \cup ToSet(delivered')
      <4>1. CASE inFlight' # <<>>
        BY <1>3, <3>1, <4>1, RowsFacts, EmptySeq DEF Newest, TasksFit
      <4>2. CASE inFlight' = <<>> /\ delivered' # <<>>
        BY <1>3, <3>1, <4>2, RowsFacts, EmptySeq DEF Newest, TasksFit
      <4> QED
        BY <1>0, <2>3, <4>1, <4>2
    <3> QED
      BY <3>1, <3>2 DEF OfFront
  <2> QED
    BY <2>2, <2>3
<1> QED
  BY <1>3, <1>4, <1>5, <1>6, <1>7, <1>8

\* Each step of refilling leaves the list to be as it is.
LEMMA RefillKeeps ==
    ASSUME IInv, process = "running", Refill, UNCHANGED <<httpVars, process, screenVars>>
    PROVE  IInv'
<1> USE DEF IInv
<1>0. UNCHANGED <<httpVars, process, screenVars, rows, coveredRefill>>
  BY DEF Refill, RemoveAll, AppendRow, PostReload
<1>1. /\ mBucketDataList \in Seq(Shared)
      /\ refill \in [stage : {"none", "removeAll", "append"}, rest : Seq(Shared)]
      /\ refill.rest \in Seq(Shared)
      /\ posted \in Nat
      /\ refill.stage # "none"
  BY DEF Refill, RemoveAll, AppendRow, PostReload, TableFits
<1>2. /\ TableFits'
      /\ ToCome' = ToCome
      /\ RefillIsOneReply'
      /\ ~Calm'
  <2>1. CASE RemoveAll
    <3>1. /\ refill.stage = "removeAll"
          /\ mBucketDataList' = <<>>
          /\ refill' = [stage |-> "append", rest |-> refill.rest]
          /\ posted' = posted
      BY <1>1, <2>1 DEF RemoveAll
    <3>2. <<>> \o refill.rest = refill.rest
      BY <1>1, ConcatEmptySeq
    <3>3. mBucketDataList' \o refill'.rest = refill.rest
      BY <3>1, <3>2
    <3>4. TableFits'
      BY <1>0, <1>1, <3>1, EmptySeq DEF TableFits
    <3>5. ToCome' = ToCome
      BY <3>1, <3>3 DEF ToCome
    <3>6. RefillIsOneReply'
      BY <3>1, <3>3 DEF RefillIsOneReply, ListIsOneReply
    <3> QED
      BY <3>1, <3>4, <3>5, <3>6 DEF Calm, Refilling, NoRefill
  <2>2. CASE AppendRow
    <3>1. /\ refill.stage = "append" /\ refill.rest # <<>>
          /\ mBucketDataList' = Append(mBucketDataList, Head(refill.rest))
          /\ refill' = [stage |-> "append", rest |-> Tail(refill.rest)]
          /\ posted' = posted
      BY <1>1, <2>2 DEF AppendRow
    <3>2. Head(refill.rest) \in Shared /\ Tail(refill.rest) \in Seq(Shared)
      BY <1>1, <3>1, TailFacts
    <3>3. mBucketDataList' \o refill'.rest = mBucketDataList \o refill.rest
      BY <1>1, <3>1, MoveHeadFacts
    <3>4. TableFits'
      BY <1>0, <1>1, <3>1, <3>2, AppendFacts DEF TableFits
    <3>5. ToCome' = ToCome
      BY <3>1, <3>3 DEF ToCome
    <3>6. RefillIsOneReply'
      BY <3>1, <3>3 DEF RefillIsOneReply, ListIsOneReply
    <3> QED
      BY <3>1, <3>4, <3>5, <3>6 DEF Calm, Refilling, NoRefill
  <2>3. CASE PostReload
    <3>1. /\ refill.stage = "append" /\ refill.rest = <<>>
          /\ mBucketDataList' = mBucketDataList
          /\ refill' = NoRefill
          /\ posted' = posted + 1
      BY <2>3 DEF PostReload
    <3>2. mBucketDataList \o refill.rest = mBucketDataList
      BY <1>1, <3>1, ConcatEmptySeq
    <3>4. TableFits'
      BY <1>0, <1>1, <3>1, EmptySeq DEF TableFits, NoRefill
    <3>5. ToCome' = ToCome
      BY <3>1, <3>2 DEF ToCome, NoRefill
    <3>6. RefillIsOneReply'
      BY <3>1, <3>2 DEF RefillIsOneReply, ListIsOneReply, NoRefill
    <3> QED
      BY <1>1, <3>1, <3>4, <3>5, <3>6 DEF Calm
  <2> QED
    BY <2>1, <2>2, <2>3 DEF Refill
<1>3. TasksFit'
  BY <1>0 DEF TasksFit, httpVars
<1>4. ScreenFits'
  BY <1>0 DEF ScreenFits, screenVars
<1>5. NothingElsewhere'
  BY <1>0, <1>1 DEF NothingElsewhere, EmptyTable, NoRefill, screenVars
<1>6. CellsShowList' /\ OpeningFits'
  BY <1>2 DEF CellsShowList, OpeningFits
<1>7. NewestIsLit'
  BY <1>0, <1>2 DEF NewestIsLit, Newest, Shown, httpVars, screenVars
<1> QED
  BY <1>2, <1>3, <1>4, <1>5, <1>6, <1>7

\* The end of the handler of a covered screen.
LEMMA FinishCoveredKeeps ==
    ASSUME IInv, FinishCovered, UNCHANGED <<httpVars, process, screenVars>>
    PROVE  IInv'
<1> USE DEF IInv, FinishCovered, httpVars, screenVars
<1>1. TasksFit' /\ TableFits'
  BY DEF TasksFit, TableFits
<1>2. ScreenFits'
  BY DEF ScreenFits
<1>3. NothingElsewhere'
  BY DEF NothingElsewhere, EmptyTable
<1>4. RefillIsOneReply'
  BY DEF RefillIsOneReply, ListIsOneReply
<1>5. CellsShowList' /\ OpeningFits'
  BY DEF CellsShowList, OpeningFits, Shown, Calm, Refilling
<1>6. NewestIsLit'
  BY DEF NewestIsLit, Newest, ToCome, Shown
<1> QED
  BY <1>1, <1>2, <1>3, <1>4, <1>5, <1>6

LEMMA ReceiveRefusalKeeps ==
    ASSUME IInv, ReceiveRefusal
    PROVE  IInv'
<1> USE DEF IInv
<1>0. /\ delivered # <<>> /\ Taken /\ missed' = TRUE
      /\ UNCHANGED <<inFlight, overtaken, tableVars, process, top, lit, cells, opening, detail>>
  BY DEF ReceiveRefusal, Receives
<1>1. delivered' \in Seq(Ended) /\ (OfFront(delivered') => OfFront(delivered))
  BY <1>0, TakenFacts
<1>2. TasksFit' /\ TableFits'
  BY <1>0, <1>1 DEF TasksFit, TableFits, tableVars
<1>3. ScreenFits'
  BY <1>0 DEF ScreenFits, tableVars
<1>4. NothingElsewhere'
  BY <1>0, <1>1 DEF NothingElsewhere, EmptyTable, tableVars
<1>5. RefillIsOneReply'
  BY <1>0 DEF RefillIsOneReply, ListIsOneReply, tableVars
<1>6. CellsShowList' /\ OpeningFits'
  BY <1>0 DEF CellsShowList, OpeningFits, Shown, Calm, Refilling, tableVars
<1>7. NewestIsLit'
  BY <1>0 DEF NewestIsLit
<1> QED
  BY <1>2, <1>3, <1>4, <1>5, <1>6, <1>7

\* A reply to a screen covered before is not the newest while one for the list
\* in front is outstanding.
LEMMA ReceiveHiddenKeeps ==
    ASSUME IInv, ReceiveHidden
    PROVE  IInv'
<1> USE DEF IInv
<1>0. /\ delivered # <<>> /\ Taken /\ Reply.receiver = "hidden"
      /\ UNCHANGED <<inFlight, overtaken, tableVars, process, screenVars>>
  BY DEF ReceiveHidden, Receives
<1>1. /\ delivered' \in Seq(Ended)
      /\ OfFront(delivered') <=> OfFront(delivered)
      /\ delivered' # <<>> \/ inFlight # <<>> => Newest' = Newest
      /\ delivered' = <<>> /\ inFlight = <<>> => Newest = Reply
  BY <1>0, TakenFacts
<1>2. TasksFit' /\ TableFits'
  BY <1>0, <1>1 DEF TasksFit, TableFits, tableVars
<1>3. ScreenFits'
  BY <1>0 DEF ScreenFits, tableVars, screenVars
<1>4. NothingElsewhere'
  BY <1>0, <1>1 DEF NothingElsewhere, EmptyTable, tableVars, screenVars
<1>5. RefillIsOneReply'
  BY <1>0 DEF RefillIsOneReply, ListIsOneReply, tableVars
<1>6. CellsShowList' /\ OpeningFits'
  BY <1>0 DEF CellsShowList, OpeningFits, Shown, Calm, Refilling, tableVars, screenVars
<1>7. NewestIsLit'
  <2>1. ToCome' = ToCome /\ (Shown' <=> Shown) /\ lit' = lit /\ missed' = missed
    BY <1>0 DEF ToCome, Shown, tableVars, screenVars
  <2> QED
    BY <1>0, <1>1, <2>1 DEF NewestIsLit
<1> QED
  BY <1>2, <1>3, <1>4, <1>5, <1>6, <1>7

-----------------------------------------------------------------------------

\* What a step of the session or the server leaves alone.
LEMMA OutsideFacts ==
    ASSUME IInv, Outside
    PROVE  /\ (TableFits /\ ScreenFits /\ RefillIsOneReply /\ CellsShowList /\ OpeningFits)'
           /\ ToCome' = ToCome /\ (Shown' <=> Shown)
           /\ UNCHANGED <<lit, missed, top, process>>
           /\ (~OfFront(inFlight') /\ ~OfFront(delivered')) \/ top = "ShareListView"
                  => NothingElsewhere'
<1> USE DEF IInv, Outside, tableVars, screenVars
<1>1. TableFits' /\ ScreenFits'
  BY DEF TableFits, ScreenFits
<1>2. RefillIsOneReply'
  BY DEF RefillIsOneReply, ListIsOneReply
<1>3. CellsShowList' /\ OpeningFits'
  BY DEF CellsShowList, OpeningFits, Shown, Calm, Refilling
<1>4. ToCome' = ToCome /\ (Shown' <=> Shown) /\ UNCHANGED <<lit, missed, top, process>>
  BY DEF ToCome, Shown
<1>5. (~OfFront(inFlight') /\ ~OfFront(delivered')) \/ top = "ShareListView" => NothingElsewhere'
  BY DEF NothingElsewhere, EmptyTable
<1> QED
  BY <1>1, <1>2, <1>3, <1>4, <1>5

LEMMA ServeBucketsKeeps ==
    ASSUME IInv, NEW i \in DOMAIN inFlight, ServeBuckets(i)
    PROVE  IInv'
<1> USE DEF IInv
<1>1. /\ inFlight[i] \in OnTheWay
      /\ inFlight \in Seq(OnTheWay)
      /\ DOMAIN inFlight = 1..Len(inFlight)
      /\ Len(inFlight) \in Nat
  BY RowsFacts DEF TasksFit
<1>2. PICK answer \in {Accepted(list) : list \in Lists[inFlight[i].data]} \cup {Refused, Malformed} :
        Serve(i, answer)
  BY DEF ServeBuckets
<1> DEFINE task == [inFlight[i] EXCEPT !.answer = answer]
<1>3. /\ inFlight' = [inFlight EXCEPT ![i] = task]
      /\ overtaken' \in BOOLEAN /\ (overtaken => overtaken')
      /\ delivered' = delivered
      /\ Outside
  BY <1>1, <1>2 DEF Serve, ServeBuckets, TasksFit
<1>4. /\ task \in OnTheWay
      /\ task.receiver = inFlight[i].receiver
      /\ task.data = inFlight[i].data
  <2>1. /\ answer \in {Unserved, Refused, Malformed} \cup Answers(inFlight[i].data)
        /\ inFlight[i] \in TaskTypes({"unserved", "accepted", "refused", "malformed"})
    BY <1>1, <1>2 DEF Answers, OnTheWay
  <2>2. answer \in [status : {"unserved", "accepted", "refused", "malformed"}, body : Seq(Shared)]
    <3>1. answer \in Answers(inFlight[i].data) \cup {Refused, Malformed}
      BY <1>2 DEF Answers
    <3>2. inFlight[i].data \in Category
      BY <1>1, TaskFacts
    <3> QED
      BY <3>1, <3>2, AnswerFacts
  <2> QED
    BY <2>1, <2>2 DEF OnTheWay, TaskTypes
<1> HIDE DEF task
<1>5. /\ inFlight' \in Seq(OnTheWay)
      /\ Len(inFlight') = Len(inFlight)
      /\ \A j \in 1..Len(inFlight) : inFlight'[j] = IF j = i THEN task ELSE inFlight[j]
      /\ ToSet(inFlight') \cup {inFlight[i]} = ToSet(inFlight) \cup {task}
  <2>1. LET new == [inFlight EXCEPT ![i] = task]
        IN  /\ new \in Seq(OnTheWay)
            /\ Len(new) = Len(inFlight)
            /\ \A j \in 1..Len(inFlight) : new[j] = IF j = i THEN task ELSE inFlight[j]
            /\ ToSet(new) \cup {inFlight[i]} = ToSet(inFlight) \cup {task}
    BY <1>1, <1>4, ReplaceFacts
  <2> QED
    BY <1>3, <2>1
<1>6. /\ task \in ToSet(inFlight')
      /\ inFlight[i] \in ToSet(inFlight)
      /\ (inFlight' = <<>> <=> inFlight = <<>>)
      /\ inFlight # <<>> => Len(inFlight) \in 1..Len(inFlight)
  BY <1>1, <1>5, RowsFacts, EmptySeq
<1>7. OfFront(inFlight') <=> OfFront(inFlight)
  BY <1>4, <1>5, <1>6 DEF OfFront
<1>8. Newest'.receiver = Newest.receiver /\ Newest'.data = Newest.data
  BY <1>3, <1>4, <1>5, <1>6 DEF Newest
<1>9. TasksFit'
  BY <1>3, <1>5 DEF TasksFit
<1>10. NewestIsLit'
  BY <1>3, <1>7, <1>8, OutsideFacts DEF NewestIsLit
<1>11. NothingElsewhere'
  BY <1>3, <1>7, OutsideFacts DEF NothingElsewhere
<1> QED
  BY <1>3, <1>9, <1>10, <1>11, OutsideFacts

\* Tasks that complete in turn pass the newest on.
LEMMA CompleteTaskKeeps ==
    ASSUME IInv, NEW i \in DOMAIN inFlight, CompleteTask(i)
    PROVE  IInv'
<1> USE DEF IInv
<1>1. /\ inFlight[i] \in OnTheWay
      /\ inFlight \in Seq(OnTheWay) /\ delivered \in Seq(Ended)
      /\ DOMAIN inFlight = 1..Len(inFlight)
      /\ Len(inFlight) \in Nat
      /\ i \in 1..Len(inFlight)
  BY RowsFacts DEF TasksFit
<1>2. PICK answer \in {inFlight[i].answer, NoData} \ {Unserved} :
        delivered' = Append(delivered, [inFlight[i] EXCEPT !.answer = answer])
  BY DEF CompleteTask, Complete
<1> DEFINE task == [inFlight[i] EXCEPT !.answer = answer]
<1>3. /\ delivered' = Append(delivered, task)
      /\ inFlight' = RemoveAt(inFlight, i)
      /\ overtaken' \in BOOLEAN /\ (overtaken \/ i > 1 => overtaken')
      /\ Outside
  BY <1>2 DEF CompleteTask, Complete, TasksFit
<1>4. /\ task \in Ended
      /\ task.receiver = inFlight[i].receiver
      /\ task.data = inFlight[i].data
  <2>1. /\ answer \in {NoData, Refused, Malformed} \cup Answers(inFlight[i].data)
        /\ inFlight[i].data \in Category
        /\ inFlight[i] \in TaskTypes({"unserved", "accepted", "refused", "malformed"})
    BY <1>1, <1>2, TaskFacts DEF OnTheWay
  <2>2. answer \in [status : {"accepted", "refused", "malformed", "no data"}, body : Seq(Shared)]
    BY <2>1, AnswerFacts
  <2> QED
    BY <2>1, <2>2 DEF Ended, TaskTypes
<1> HIDE DEF task
<1>5. /\ inFlight' \in Seq(OnTheWay)
      /\ Len(inFlight') = Len(inFlight) - 1
      /\ \A j \in 1..(Len(inFlight) - 1) :
           inFlight'[j] = IF j < i THEN inFlight[j] ELSE inFlight[j + 1]
      /\ ToSet(inFlight) = ToSet(inFlight') \cup {inFlight[i]}
  <2>1. LET new == RemoveAt(inFlight, i)
        IN  /\ new \in Seq(OnTheWay)
            /\ Len(new) = Len(inFlight) - 1
            /\ \A j \in 1..(Len(inFlight) - 1) :
                 new[j] = IF j < i THEN inFlight[j] ELSE inFlight[j + 1]
    BY <1>1, RemoveAtRows
  <2>2. ToSet(inFlight) = ToSet(RemoveAt(inFlight, i)) \cup {inFlight[i]}
    BY <1>1, RemoveAtFacts
  <2> QED
    BY <1>3, <2>1, <2>2
<1>6. /\ delivered' \in Seq(Ended)
      /\ ToSet(delivered') = ToSet(delivered) \cup {task}
  BY <1>1, <1>3, <1>4, AppendFacts
<1>7. OfFront(inFlight') \/ OfFront(delivered') <=> OfFront(inFlight) \/ OfFront(delivered)
  BY <1>4, <1>5, <1>6 DEF OfFront
<1>8. ASSUME ~overtaken'
      PROVE  Newest'.receiver = Newest.receiver /\ Newest'.data = Newest.data
  <2>1. i = 1 /\ inFlight # <<>>
    BY <1>1, <1>3, <1>8, EmptySeq
  <2>2. CASE Len(inFlight) = 1
    <3>1. inFlight' = <<>>
      BY <1>5, <2>2, RowsFacts
    <3>2. delivered'[Len(delivered')] = task
      BY <1>1, <1>3, <1>4
    <3>3. Newest = inFlight[i] /\ Newest' = task
      BY <2>1, <2>2, <3>1, <3>2 DEF Newest
    <3> QED
      BY <1>4, <3>3
  <2>3. CASE Len(inFlight) # 1
    <3>1. /\ Len(inFlight) - 1 \in 1..(Len(inFlight) - 1)
          /\ ~(Len(inFlight) - 1 < i)
          /\ (Len(inFlight) - 1) + 1 = Len(inFlight)
      BY <1>1, <2>1, <2>3
    <3>2. inFlight' # <<>>
      BY <1>5, <3>1, RowsFacts
    <3>3. inFlight'[Len(inFlight')] = inFlight[Len(inFlight)]
      BY <1>5, <3>1
    <3> QED
      BY <2>1, <3>2, <3>3 DEF Newest
  <2> QED
    BY <2>2, <2>3
<1>9. TasksFit'
  BY <1>3, <1>5, <1>6 DEF TasksFit
<1>10. NewestIsLit'
  BY <1>3, <1>7, <1>8, OutsideFacts DEF NewestIsLit
<1>11. NothingElsewhere'
  BY <1>3, <1>7, OutsideFacts DEF NothingElsewhere
<1> QED
  BY <1>3, <1>9, <1>10, <1>11, OutsideFacts

LEMMA StutterKeeps ==
    ASSUME IInv, UNCHANGED vars
    PROVE  IInv'
<1> USE DEF IInv, vars, httpVars, tableVars, screenVars
<1>1. TasksFit' /\ TableFits'
  BY DEF TasksFit, TableFits
<1>2. ScreenFits'
  BY DEF ScreenFits
<1>3. NothingElsewhere'
  BY DEF NothingElsewhere, EmptyTable
<1>4. RefillIsOneReply'
  BY DEF RefillIsOneReply, ListIsOneReply
<1>5. CellsShowList' /\ OpeningFits'
  BY DEF CellsShowList, OpeningFits, Shown, Calm, Refilling
<1>6. NewestIsLit'
  BY DEF NewestIsLit, Newest, ToCome, Shown
<1> QED
  BY <1>1, <1>2, <1>3, <1>4, <1>5, <1>6

LEMMA StepKeeps ==
    ASSUME IInv, [Next]_vars
    PROVE  IInv'
<1>1. CASE Relaunch
  BY <1>1, RelaunchKeeps
<1>2. CASE Open
  BY <1>2, OpenKeeps
<1>3. CASE onBackPressed
  <2>1. Leave("ViewController") /\ process = "running" /\ detail' = detail
    BY <1>3 DEF onBackPressed, MainFree, Shown
  <2>2. detail = Nothing \/ detail \in [mIdx : Shared, mContent : Shared]
    BY DEF IInv, ScreenFits
  <2> QED
    BY <2>1, <2>2, LeaveKeeps
<1>4. CASE Reload
  BY <1>4, ReloadKeeps
<1>5. CASE OpenContent
  BY <1>5, OpenContentKeeps
<1>6. CASE \E c \in Category : onClick(c)
  BY <1>6, ClickKeeps
<1>7. CASE \E i \in 1..rows : DrawRow(i) \/ OpenIdx(i)
  BY <1>7, DrawRowKeeps, OpenIdxKeeps
<1>8. CASE ReceiveNoData
  BY <1>8, CrashKeeps DEF ReceiveNoData
<1>8a. CASE ReceiveMalformed \/ ReceiveMalformedRow
  BY <1>8a, CrashKeeps DEF ReceiveMalformed, ReceiveMalformedRow
<1>9. CASE ReceiveBuckets
  BY <1>9, ReceiveBucketsKeeps
<1>10. CASE RefillList
  BY <1>10, RefillKeeps, FinishCoveredKeeps DEF RefillList
<1>11. CASE ReceiveRefusal
  BY <1>11, ReceiveRefusalKeeps
<1>12. CASE ReceiveHidden
  BY <1>12, ReceiveHiddenKeeps
<1>13. CASE \E i \in DOMAIN inFlight : ServeBuckets(i) \/ CompleteTask(i)
  BY <1>13, ServeBucketsKeeps, CompleteTaskKeeps
<1>14. CASE UNCHANGED vars
  BY <1>14, StutterKeeps
<1> QED
  BY <1>1, <1>2, <1>3, <1>4, <1>5, <1>6, <1>7, <1>8, <1>8a, <1>9, <1>10, <1>11, <1>12, <1>13,
     <1>14
  DEF Next

LEMMA AlwaysIInv == Spec => []IInv
BY InitInv, StepKeeps, PTL DEF Spec

-----------------------------------------------------------------------------
(* What follows for every behaviour                                          *)

\* The state stays well typed: whatever the interleaving, no cell and no row
\* being opened has a number beyond the rows the table view believes in.
THEOREM StateIsTyped == Spec => []TypeOK
<1>1. IInv => TypeOK
  <2> SUFFICES ASSUME IInv PROVE TypeOK
    OBVIOUS
  <2>1. /\ inFlight \in Seq(TaskTypes({"unserved", "accepted", "refused", "malformed"}))
        /\ delivered \in Seq(TaskTypes({"accepted", "refused", "malformed", "no data"}))
    <3>1. /\ OnTheWay \subseteq TaskTypes({"unserved", "accepted", "refused", "malformed"})
          /\ Ended \subseteq TaskTypes({"accepted", "refused", "malformed", "no data"})
      BY DEF OnTheWay, Ended
    <3> QED
      BY <3>1, SeqMonotonic DEF IInv, TasksFit
  <2>2. \A i \in DOMAIN cells : cells[i] \in [content : Shared, mData : 1..rows]
    BY DEF IInv, ScreenFits
  <2> QED
    BY <2>1, <2>2 DEF IInv, TasksFit, TableFits, ScreenFits, TypeOK
<1> QED
  BY <1>1, AlwaysIInv, PTL

\* With the rows still to come the list is one answer of the server, although it
\* is emptied and refilled row by row and replies come in any order.
THEOREM ListStaysOneReply == Spec => []ListIsOneReply
<1>1. IInv => ListIsOneReply
  BY DEF IInv, RefillIsOneReply
<1> QED
  BY <1>1, AlwaysIInv, PTL

\* A calm table view counts the rows there are, and its cells show the memos
\* their numbers stand for.
THEOREM CalmCellsShowList == Spec => []CellsShowList
<1>1. IInv => CellsShowList
  BY DEF IInv
<1> QED
  BY <1>1, AlwaysIInv, PTL

\* Requests for the screen in front, in terms of the tasks there are.
LEMMA OutstandingFacts ==
    ASSUME TasksFit
    PROVE  Outstanding("BUCKET_LIST") <=> OfFront(inFlight) \/ OfFront(delivered)
<1>1. /\ \A i \in DOMAIN inFlight : inFlight[i].id = "BUCKET_LIST"
      /\ \A i \in DOMAIN delivered : delivered[i].id = "BUCKET_LIST"
  <2>1. (\A t \in OnTheWay : t.id = "BUCKET_LIST") /\ (\A t \in Ended : t.id = "BUCKET_LIST")
    BY DEF OnTheWay, Ended, TaskTypes
  <2> QED
    BY <2>1, RowsFacts DEF TasksFit
<1> QED
  BY <1>1 DEF Outstanding, OfFront, ToSet

\* A settled screen shows a list of the category that is lit, unless requests
\* overtook each other or one was missed.
THEOREM SettledListIsLit == Spec => []LitCategoryIsShown
<1>1. IInv => LitCategoryIsShown
  <2> SUFFICES ASSUME IInv, Shown, Settled, ~overtaken, ~missed
               PROVE  mBucketDataList \in Lists[lit]
    BY DEF LitCategoryIsShown
  <2>1. ~OfFront(inFlight) /\ ~OfFront(delivered)
    BY OutstandingFacts DEF IInv, Settled
  <2>2. ToCome = mBucketDataList
    BY DEF Settled, Calm, Refilling, NoRefill, ToCome
  <2> QED
    BY <2>1, <2>2 DEF IInv, NewestIsLit
<1> QED
  BY <1>1, AlwaysIInv, PTL

\* Calm rows can be read: a crash needs a reply without data or without what is
\* cast by force, or a list that is being replaced.
THEOREM CrashesOnlyWhileReplacing == Spec => CrashesWhileReplacing
<1>1. ASSUME IInv, [Next]_vars, process' = "crashed", process' # process
      PROVE  ReplyTraps \/ CastTraps \/ coveredRefill \/ ~Calm
  <2>1. process = "running" /\ ~UNCHANGED process
    BY <1>1 DEF IInv, ScreenFits
  <2>0. ASSUME NEW i \in 1..rows, Shown, ReadMayTrap(i)
        PROVE  ~Calm
    BY <1>1, <2>0 DEF ReadMayTrap, IInv, CellsShowList, Calm, TableFits
  <2>2. CASE \E i \in 1..rows : DrawRow(i)
    BY <2>0, <2>1, <2>2 DEF DrawRow, MainFree
  <2>3. CASE \E i \in 1..rows : OpenIdx(i)
    <3>1. PICK i \in 1..rows : OpenIdx(i)
      BY <2>3
    <3>2. Shown /\ i \in DOMAIN cells /\ ReadMayTrap(cells[i].mData)
      BY <2>1, <3>1 DEF OpenIdx, MainFree
    <3>3. cells[i].mData = i
      BY <1>1, <3>2 DEF IInv, ScreenFits
    <3> QED
      BY <2>0, <3>2, <3>3
  <2>4. CASE OpenContent
    <3>1. Shown /\ opening # Nothing /\ ReadMayTrap(opening.index)
      BY <2>1, <2>4 DEF OpenContent, Leave
    <3>2. opening.index \in 1..rows
      BY <1>1, <3>1 DEF IInv, ScreenFits
    <3> QED
      BY <2>0, <3>1, <3>2
  <2>5. CASE ReceiveNoData \/ ReceiveMalformed
    BY <2>5 DEF ReceiveNoData, ReceiveMalformed
  <2>5a. CASE ReceiveMalformedRow
    BY <2>5a DEF ReceiveMalformedRow, RowMayTrap, Calm, Refilling, NoRefill
  <2>6. CASE Open \/ onBackPressed \/ Reload \/ \E c \in Category : onClick(c)
    BY <2>1, <2>6 DEF Open, onBackPressed, Leave, Reload, onClick
  <2>7. CASE ReceiveBuckets \/ RefillList \/ ReceiveRefusal \/ ReceiveHidden
    BY <2>1, <2>7 DEF ReceiveBuckets, RefillList, ReceiveRefusal, ReceiveHidden
  <2>8. CASE \E i \in DOMAIN inFlight : ServeBuckets(i) \/ CompleteTask(i)
    BY <2>1, <2>8 DEF ServeBuckets, CompleteTask, Outside
  <2>9. CASE Relaunch \/ UNCHANGED vars
    BY <1>1, <2>1, <2>9 DEF Relaunch, vars
  <2> QED
    BY <1>1, <2>2, <2>3, <2>4, <2>5, <2>5a, <2>6, <2>7, <2>8, <2>9 DEF Next
<1>2. IInv /\ [Next]_vars =>
        [process' = "crashed" =>
            ReplyTraps \/ CastTraps \/ coveredRefill \/ ~Calm]_process
  BY <1>1
<1> QED
  BY <1>2, AlwaysIInv, PTL DEF Spec, CrashesWhileReplacing

\* The detail screen gets number and text of one memo, the one the touched cell
\* shows, although they are read one after the other.
THEOREM TouchedMemoIsOpened == Spec => OpensTouchedMemo
<1> DEFINE Opens ==
        Shown /\ top' = "ShareDetailView" /\ Calm =>
            LET touched == cells[opening.index].content
            IN detail' = [mIdx |-> touched, mContent |-> touched]
<1>1. ASSUME IInv, [Next]_vars, top' # top, Shown, top' = "ShareDetailView", Calm
      PROVE  LET touched == cells[opening.index].content
             IN detail' = [mIdx |-> touched, mContent |-> touched]
  <2>1. OpenContent /\ ~Crash
    <3>1. top = "ShareListView" /\ process = "running" /\ ~Crash
      BY <1>1 DEF Shown, Crash
    <3>2. ~(Relaunch \/ Open \/ onBackPressed \/ Reload \/ \E c \in Category : onClick(c))
      BY <1>1, <3>1 DEF Relaunch, Open, onBackPressed, Leave, Reload, onClick, screenVars
    <3>3. ~\E i \in 1..rows : DrawRow(i) \/ OpenIdx(i)
      BY <1>1, <3>1 DEF DrawRow, OpenIdx
    <3>4. ~(\/ ReceiveNoData \/ ReceiveMalformed \/ ReceiveMalformedRow \/ ReceiveBuckets \/ RefillList \/ ReceiveRefusal \/ ReceiveHidden)
      BY <1>1, <3>1
      DEF ReceiveNoData, ReceiveMalformed, ReceiveMalformedRow, ReceiveBuckets, RefillList,
          ReceiveRefusal, ReceiveHidden, screenVars
    <3>5. ~\E i \in DOMAIN inFlight : ServeBuckets(i) \/ CompleteTask(i)
      BY <1>1 DEF ServeBuckets, CompleteTask, Outside, screenVars
    <3>6. ~UNCHANGED vars
      BY <1>1 DEF vars, screenVars
    <3> QED
      BY <1>1, <3>1, <3>2, <3>3, <3>4, <3>5, <3>6 DEF Next
  <2>2. /\ opening # Nothing
        /\ detail' = [mIdx |-> opening.mIdx, mContent |-> mBucketDataList[opening.index]]
    BY <2>1 DEF OpenContent
  <2>3. /\ opening.index \in DOMAIN cells
        /\ opening.mIdx = mBucketDataList[opening.index]
    BY <1>1, <2>2 DEF IInv, OpeningFits
  <2>4. cells[opening.index].content = mBucketDataList[opening.index]
    BY <1>1, <2>3 DEF IInv, CellsShowList, ScreenFits
  <2> QED
    BY <2>2, <2>3, <2>4
<1>2. IInv /\ [Next]_vars => [Opens]_top
  BY <1>1
<1> QED
  BY <1>2, AlwaysIInv, PTL DEF Spec, OpensTouchedMemo
=============================================================================
