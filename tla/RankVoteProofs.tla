----------------------------- MODULE RankVoteProofs -----------------------------
(***************************************************************************)
(* Proofs about the ranking and the votes on it.  Replies come in the      *)
(* order of the requests unless some request was overtaken; the proof      *)
(* follows the requests in that order, as one line.                        *)
(***************************************************************************)
EXTENDS RankVote, RowLemmas

-----------------------------------------------------------------------------
(* The inductive invariant                                                   *)

\* A vote names a memo and an opinion; nothing is unserved once it ended.
FitsId(t) == IF t.id = "RANK_LIST" THEN t.data = <<>> ELSE t.data \in Memo \X Opinion
OnTheWay ==
    {t \in TaskTypes({"unserved", "accepted", "refused", "malformed"}) :
        FitsId(t) /\ (t.answer.status = "unserved" => t.answer = Unserved)}
Ended == {t \in TaskTypes({"accepted", "refused", "malformed", "no data"}) : FitsId(t)}
Task == OnTheWay \cup Ended

TasksFit ==
    /\ inFlight \in Seq(OnTheWay)
    /\ delivered \in Seq(Ended)
    /\ overtaken \in BOOLEAN

TableFits ==
    /\ mBucketDataList \in Seq(RankRow)
    /\ refill \in [stage : {"none", "removeAll", "append"}, rest : Seq(RankRow)]
    /\ refill.stage = "none" => refill = NoRefill
    /\ posted \in Nat /\ rows \in Nat
    /\ coveredRefill \in BOOLEAN

ServerFits ==
    /\ ranked \subseteq Memo
    /\ opinion \in [Memo -> Opinion \cup {0}]

ScreenFits ==
    /\ process \in {"running", "crashed"}
    /\ top \in {"ViewController", "RankListView"}
    /\ DOMAIN cells \subseteq 1..rows
    /\ \A i \in DOMAIN cells : cells[i] \in [content : Memo, mData : Memo]
    /\ drawing = NoCell \/ drawing \in [row : 1..rows, content : Memo]

\* The tasks there are, and whether the screen in front waits for one.
Tasks == ToSet(inFlight) \cup ToSet(delivered)
Awaited(id) == \E t \in Tasks : t.receiver = "front" /\ t.id = id

\* Without a ranking in front there is no table and nobody to answer.
NothingElsewhere ==
    /\ process = "crashed" => top = "ViewController"
    /\ top # "RankListView" =>
        /\ EmptyTable /\ cells = NoCells /\ drawing = NoCell /\ ~Voted
        /\ \A t \in Tasks : t.receiver = "hidden"

\* While the handler of a vote is at work, no other one is.
VoteFits ==
    /\ asking \in {"no", "emptying", "emptied", "hidden"}
    /\ asking # "no" => refill = NoRefill
    /\ asking = "emptied" => mBucketDataList = <<>>

\* The table view knows the list, and the cells are of its rows, while no reply
\* is being written or drawn and no list awaited, nor about to be asked for.
Calm == ~Refilling /\ posted = 0
CalmTable ==
    Shown /\ Calm /\ ~Voted /\ ~Awaited("RANK_LIST") =>
        /\ rows = Len(mBucketDataList)
        /\ \A i \in DOMAIN cells :
            /\ cells[i].content = mBucketDataList[i].mIdx
            /\ cells[i].mData = mBucketDataList[i].mIdx
        /\ drawing # NoCell => drawing.content = mBucketDataList[drawing.row].mIdx

\* The requests in the order in which they were sent, if none was overtaken.
Line == delivered \o inFlight

\* They are served in that order, and votes of screens covered before come
\* before all requests of the screen in front.
HiddenVote(t) == t.receiver = "hidden" /\ t.id = "RANK_UPDATE_COMMENT"
ServedInTurn(line) ==
    \A j \in DOMAIN line : \A i \in 1..(j - 1) :
        line[j].answer # Unserved => line[i].answer # Unserved
HiddenVotesFirst(line) ==
    \A i, j \in DOMAIN line : line[i].receiver = "front" /\ HiddenVote(line[j]) => j < i

InOrder == ~overtaken => ServedInTurn(Line) /\ HiddenVotesFirst(Line)

\* A list agrees with opinions, or a vote behind it may have changed them.
Agrees(list, opinions) == \A row \in ToSet(list) : row.mComment = opinions[row.mIdx]
Changes(t) ==
    t.receiver = "front" /\ t.id = "RANK_UPDATE_COMMENT" /\ t.answer # Unserved
ListReply(t) ==
    t.receiver = "front" /\ t.id = "RANK_LIST" /\ t.answer.status = "accepted"

RepliesAgree(line, opinions) ==
    \A i \in DOMAIN line : ListReply(line[i]) =>
        Agrees(line[i].answer.body, opinions) \/ \E j \in DOMAIN line : i < j /\ Changes(line[j])
ListAgrees(list, line, opinions) ==
    Agrees(list, opinions) \/ \E j \in DOMAIN line : Changes(line[j])
NoHiddenVote(line) == \A j \in DOMAIN line : ~HiddenVote(line[j])

\* The list to be, once it is refilled or emptied.
ToCome ==
    IF Voted THEN <<>>
    ELSE IF refill.stage = "none" THEN mBucketDataList
    ELSE IF refill.stage = "removeAll" THEN refill.rest
    ELSE mBucketDataList \o refill.rest

ListsAgree ==
    Shown /\ ~overtaken =>
        /\ RepliesAgree(Line, opinion)
        /\ ListAgrees(ToCome, Line, opinion)
        /\ NoHiddenVote(Line) \/ ToCome = <<>>

IInv ==
    /\ TasksFit
    /\ TableFits
    /\ ServerFits
    /\ ScreenFits
    /\ NothingElsewhere
    /\ VoteFits
    /\ CalmTable
    /\ InOrder
    /\ ListsAgree

-----------------------------------------------------------------------------
(* Requests and replies                                                      *)

LEMMA TaskFacts ==
    /\ \A t \in Task :
        /\ t.receiver \in {"front", "hidden"}
        /\ t.id \in {"RANK_LIST", "RANK_UPDATE_COMMENT"}
        /\ t.answer.status \in {"unserved", "accepted", "refused", "malformed", "no data"}
        /\ t.answer.body \in Seq(RankRow)
        /\ t.answer = Unserved => t.answer.status = "unserved"
    /\ \A t \in OnTheWay :
        /\ t.id = "RANK_UPDATE_COMMENT" => t.data \in Memo \X Opinion
        /\ t.answer.status = "unserved" => t.answer = Unserved
    /\ \A t \in Ended : t.answer # Unserved
<1>1. Unserved.status = "unserved"
  BY DEF Unserved
<1>2. ASSUME NEW t \in OnTheWay
      PROVE  /\ t.receiver \in {"front", "hidden"}
             /\ t.id \in {"RANK_LIST", "RANK_UPDATE_COMMENT"}
             /\ t.answer.status \in {"unserved", "accepted", "refused", "malformed"}
             /\ t.answer.body \in Seq(RankRow)
             /\ t.id = "RANK_UPDATE_COMMENT" => t.data \in Memo \X Opinion
             /\ t.answer.status = "unserved" => t.answer = Unserved
  BY DEF OnTheWay, TaskTypes, FitsId
<1>3. ASSUME NEW t \in Ended
      PROVE  /\ t.receiver \in {"front", "hidden"}
             /\ t.id \in {"RANK_LIST", "RANK_UPDATE_COMMENT"}
             /\ t.answer.status \in {"accepted", "refused", "malformed", "no data"}
             /\ t.answer.body \in Seq(RankRow)
  BY DEF Ended, TaskTypes
<1> QED
  BY <1>1, <1>2, <1>3 DEF Task

\* The line holds the tasks there are.
LEMMA LineIsTasks ==
    ASSUME TasksFit
    PROVE  /\ inFlight \in Seq(Task) /\ delivered \in Seq(Task)
           /\ Line \in Seq(Task)
           /\ DOMAIN Line = 1..(Len(delivered) + Len(inFlight))
           /\ ToSet(Line) = Tasks
           /\ Tasks \subseteq Task
<1>1. inFlight \in Seq(Task) /\ delivered \in Seq(Task)
  BY SeqMonotonic DEF TasksFit, Task
<1>2. /\ Line \in Seq(Task)
      /\ Len(Line) = Len(delivered) + Len(inFlight)
      /\ ToSet(Line) = Tasks
  BY <1>1, LineFacts DEF Line, Tasks
<1> QED
  BY <1>1, <1>2, RowsFacts

\* Requests for the ranking and votes.
LEMMA RequestFacts ==
    /\ \A receiver \in {"front", "hidden"} : LoadBucketRank(receiver) \in OnTheWay
    /\ \A m \in Memo, o \in Opinion : SendBucketRank(m, o) \in OnTheWay
<1>1. Unserved \in [status : {"unserved", "accepted", "refused", "malformed"}, body : Seq(RankRow)]
  BY EmptySeq DEF Unserved
<1>2. ASSUME NEW receiver \in {"front", "hidden"}
      PROVE  LoadBucketRank(receiver) \in OnTheWay
  BY <1>1 DEF LoadBucketRank, Request, OnTheWay, TaskTypes, FitsId
<1>3. ASSUME NEW m \in Memo, NEW o \in Opinion
      PROVE  SendBucketRank(m, o) \in OnTheWay
  BY <1>1 DEF SendBucketRank, Request, OnTheWay, TaskTypes, FitsId
<1> QED
  BY <1>2, <1>3

LEMMA SendFacts ==
    ASSUME TasksFit, NEW request \in OnTheWay, Send(request), UNCHANGED delivered
    PROVE  /\ inFlight' \in Seq(OnTheWay)
           /\ Line' = Append(Line, request)
           /\ Tasks' = Tasks \cup {request}
<1>1. inFlight' = Append(inFlight, request)
  BY DEF Send
<1>2. inFlight' \in Seq(OnTheWay) /\ ToSet(inFlight') = ToSet(inFlight) \cup {request}
  BY <1>1, AppendFacts DEF TasksFit
<1>3. request \in Task
  BY DEF Task
<1>4. Line' = Append(Line, request)
  BY <1>1, <1>3, LineIsTasks, LineAppend DEF Line
<1> QED
  BY <1>2, <1>4 DEF Tasks

LEMMA TakenFacts ==
    ASSUME TasksFit, delivered # <<>>
    PROVE  /\ Reply \in Ended
           /\ Reply \in Tasks
           /\ Tail(delivered) \in Seq(Ended)
           /\ Line # <<>> /\ Head(Line) = Reply
           /\ Tail(delivered) \o inFlight = Tail(Line)
           /\ Tasks = (ToSet(inFlight) \cup ToSet(Tail(delivered))) \cup {Reply}
<1>1. /\ Reply \in Ended
      /\ Tail(delivered) \in Seq(Ended)
      /\ ToSet(delivered) = ToSet(Tail(delivered)) \cup {Reply}
  BY TailFacts DEF TasksFit, Reply
<1>2. Line # <<>> /\ Head(Line) = Reply /\ Tail(delivered) \o inFlight = Tail(Line)
  BY LineIsTasks, LineTail DEF Line, Reply
<1> QED
  BY <1>1, <1>2 DEF Tasks

LEMMA HiddenFacts ==
    ASSUME NEW T \in {OnTheWay, Ended}, NEW tasks \in Seq(T)
    PROVE  /\ Hidden(tasks) \in Seq(T)
           /\ DOMAIN Hidden(tasks) = DOMAIN tasks
           /\ Len(Hidden(tasks)) = Len(tasks)
           /\ \A i \in DOMAIN tasks :
                /\ Hidden(tasks)[i].receiver = "hidden"
                /\ Hidden(tasks)[i].answer = tasks[i].answer
           /\ \A t \in ToSet(Hidden(tasks)) : t.receiver = "hidden"
<1>1. /\ DOMAIN tasks = 1..Len(tasks)
      /\ \A i \in DOMAIN tasks : tasks[i] \in T
  BY RowsFacts
<1>2. ASSUME NEW t \in T
      PROVE  /\ [t EXCEPT !.receiver = "hidden"] \in T
             /\ [t EXCEPT !.receiver = "hidden"].receiver = "hidden"
             /\ [t EXCEPT !.receiver = "hidden"].answer = t.answer
  <2>1. CASE T = OnTheWay
    BY <2>1 DEF OnTheWay, TaskTypes, FitsId
  <2>2. CASE T = Ended
    BY <2>2 DEF Ended, TaskTypes, FitsId
  <2> QED
    BY <2>1, <2>2
<1>3. Hidden(tasks) \in [DOMAIN tasks -> T]
  BY <1>1, <1>2 DEF Hidden
<1>4. /\ Hidden(tasks) \in Seq(T)
      /\ DOMAIN Hidden(tasks) = DOMAIN tasks
      /\ Len(Hidden(tasks)) = Len(tasks)
  BY <1>3, MappedFacts
<1>5. \A i \in DOMAIN tasks :
        /\ Hidden(tasks)[i].receiver = "hidden"
        /\ Hidden(tasks)[i].answer = tasks[i].answer
  BY <1>1, <1>2 DEF Hidden
<1> QED
  BY <1>4, <1>5 DEF ToSet

\* An answered request in the place of the same request.
Answered(t, answer) == [t EXCEPT !.answer = answer]

LEMMA AnsweredFacts ==
    ASSUME NEW t \in OnTheWay,
           NEW answer \in [status : {"accepted", "refused", "malformed", "no data"}, body : Seq(RankRow)]
    PROVE  LET x == Answered(t, answer)
           IN  /\ x.receiver = t.receiver /\ x.id = t.id /\ x.data = t.data
               /\ x.answer = answer /\ answer # Unserved
               /\ x \in Ended
               /\ answer.status # "no data" => x \in OnTheWay
<1>1. Unserved.status = "unserved"
  BY DEF Unserved
<1> QED
  BY <1>1 DEF Answered, OnTheWay, Ended, TaskTypes, FitsId

LEMMA AnswersFit ==
    /\ Refused \in [status : {"refused"}, body : Seq(RankRow)]
    /\ Malformed \in [status : {"malformed"}, body : Seq(RankRow)]
    /\ NoData \in [status : {"no data"}, body : Seq(RankRow)]
    /\ \A list \in Seq(RankRow) : Accepted(list) \in [status : {"accepted"}, body : Seq(RankRow)]
<1>1. <<>> \in Seq(RankRow)
  BY EmptySeq
<1> QED
  BY <1>1 DEF Refused, Malformed, NoData, Accepted

\* Serving the i-th request.
LEMMA ServeFacts ==
    ASSUME TasksFit, NEW i \in DOMAIN inFlight,
           NEW answer \in [status : {"accepted", "refused", "malformed"}, body : Seq(RankRow)],
           Serve(i, answer)
    PROVE  LET k == Len(delivered) + i
               x == Answered(inFlight[i], answer)
           IN  /\ x \in Task
               /\ inFlight[i] \in OnTheWay
               /\ inFlight[i].answer = Unserved
               /\ TasksFit'
               /\ k \in DOMAIN Line /\ Line[k] = inFlight[i]
               /\ Line' = [Line EXCEPT ![k] = x]
               /\ \A id : Awaited(id)' <=> Awaited(id)
               /\ (\A t \in Tasks : t.receiver = "hidden") => \A t \in Tasks' : t.receiver = "hidden"
               /\ ~overtaken' => ~overtaken /\ \A j \in 1..(k - 1) : Line[j].answer # Unserved
<1> DEFINE k == Len(delivered) + i
           x == Answered(inFlight[i], answer)
<1>1. /\ inFlight[i] \in OnTheWay
      /\ inFlight[i].answer = Unserved
      /\ i \in 1..Len(inFlight) /\ Len(inFlight) \in Nat /\ Len(delivered) \in Nat
      /\ DOMAIN delivered = 1..Len(delivered) /\ DOMAIN inFlight = 1..Len(inFlight)
  BY RowsFacts DEF TasksFit, Serve
<1>2. /\ x \in OnTheWay
      /\ x.receiver = inFlight[i].receiver /\ x.id = inFlight[i].id
  BY <1>1, AnsweredFacts
<1>3. inFlight' = [inFlight EXCEPT ![i] = x] /\ delivered' = delivered
  BY <1>1 DEF Serve, Answered
<1> HIDE DEF x
<1>4. /\ inFlight' \in Seq(OnTheWay)
      /\ ToSet(inFlight') \cup {inFlight[i]} = ToSet(inFlight) \cup {x}
      /\ x \in ToSet(inFlight')
      /\ inFlight[i] \in ToSet(inFlight)
  <2>1. LET new == [inFlight EXCEPT ![i] = x]
        IN  /\ new \in Seq(OnTheWay)
            /\ Len(new) = Len(inFlight)
            /\ ToSet(new) \cup {inFlight[i]} = ToSet(inFlight) \cup {x}
    <3>1. inFlight \in Seq(OnTheWay)
      BY DEF TasksFit
    <3> QED
      BY <1>2, <3>1, ReplaceFacts
  <2>2. i \in DOMAIN inFlight' /\ inFlight'[i] = x
    BY <1>1, <1>3
  <2> QED
    BY <1>1, <1>3, <2>1, <2>2 DEF ToSet
<1>5. x \in Task
  BY <1>2 DEF Task
<1>6. /\ k \in DOMAIN Line /\ Line[k] = inFlight[i]
      /\ Line' = [Line EXCEPT ![k] = x]
  <2>1. inFlight \in Seq(Task) /\ delivered \in Seq(Task)
    BY LineIsTasks
  <2>2. /\ k \in DOMAIN (delivered \o inFlight)
        /\ (delivered \o inFlight)[k] = inFlight[i]
        /\ delivered \o [inFlight EXCEPT ![i] = x] = [delivered \o inFlight EXCEPT ![k] = x]
    BY <1>5, <2>1, LineReplace
  <2> QED
    BY <1>3, <2>2 DEF Line
<1>7. overtaken' \in BOOLEAN
  BY DEF Serve, TasksFit
<1>8. /\ \A id : Awaited(id)' <=> Awaited(id)
      /\ (\A t \in Tasks : t.receiver = "hidden") => \A t \in Tasks' : t.receiver = "hidden"
  BY <1>2, <1>3, <1>4 DEF Awaited, Tasks
<1>9. ASSUME ~overtaken'
      PROVE  ~overtaken /\ \A j \in 1..(k - 1) : Line[j].answer # Unserved
  <2>1. ~overtaken /\ \A j \in 1..(i - 1) : inFlight[j].answer # Unserved
    BY <1>9 DEF Serve
  <2>2. ASSUME NEW j \in 1..(k - 1)
        PROVE  Line[j].answer # Unserved
    <3>1. Line[j] = IF j <= Len(delivered) THEN delivered[j] ELSE inFlight[j - Len(delivered)]
      BY <1>1, LineIsTasks, LineFacts DEF Line
    <3>2. CASE j <= Len(delivered)
      <4>1. delivered[j] \in Ended
        BY <1>1, <3>2, RowsFacts DEF TasksFit
      <4> QED
        BY <3>1, <3>2, <4>1, TaskFacts
    <3>3. CASE ~(j <= Len(delivered))
      <4>1. j - Len(delivered) \in 1..(i - 1)
        BY <1>1, <3>3
      <4> QED
        BY <2>1, <3>1, <3>3, <4>1
    <3> QED
      BY <3>2, <3>3
  <2> QED
    BY <2>1, <2>2
<1>10. TasksFit'
  BY <1>3, <1>4, <1>7 DEF TasksFit
<1> QED
  BY <1>1, <1>5, <1>6, <1>8, <1>9, <1>10 DEF x

\* Completing the i-th task; in its turn, it stays where it is in the line.
LEMMA CompleteFacts ==
    ASSUME TasksFit, NEW i \in DOMAIN inFlight, Complete(i)
    PROVE  /\ TasksFit'
           /\ \A id : Awaited(id)' <=> Awaited(id)
           /\ (\A t \in Tasks : t.receiver = "hidden") => \A t \in Tasks' : t.receiver = "hidden"
           /\ ~overtaken' =>
                /\ ~overtaken
                /\ \E x \in Ended : LET k == Len(delivered) + 1 IN
                    /\ k \in DOMAIN Line
                    /\ Line' = [Line EXCEPT ![k] = x]
                    /\ x.receiver = Line[k].receiver /\ x.id = Line[k].id
                    /\ x.answer = Line[k].answer \/ x.answer = NoData
                    /\ \A j \in 1..(k - 1) : Line[j].answer # Unserved
<1>1. /\ inFlight[i] \in OnTheWay
      /\ i \in 1..Len(inFlight) /\ Len(inFlight) \in Nat /\ Len(delivered) \in Nat
      /\ DOMAIN delivered = 1..Len(delivered) /\ DOMAIN inFlight = 1..Len(inFlight)
  BY RowsFacts DEF TasksFit
<1>2. PICK answer \in {inFlight[i].answer, NoData} \ {Unserved} :
        delivered' = Append(delivered, Answered(inFlight[i], answer))
  BY DEF Complete, Answered
<1> DEFINE x == Answered(inFlight[i], answer)
<1>3. /\ x \in Ended
      /\ x.receiver = inFlight[i].receiver /\ x.id = inFlight[i].id
      /\ x.answer = answer
  <2>1. inFlight[i].answer \in [status : {"unserved", "accepted", "refused", "malformed"}, body : Seq(RankRow)]
    BY <1>1 DEF OnTheWay, TaskTypes
  <2>2. answer \in [status : {"accepted", "refused", "malformed", "no data"}, body : Seq(RankRow)]
    <3>1. CASE answer = NoData
      BY <3>1, AnswersFit
    <3>2. CASE answer = inFlight[i].answer /\ answer # Unserved
      BY <1>1, <2>1, <3>2, TaskFacts
    <3> QED
      BY <1>2, <3>1, <3>2
  <2> QED
    BY <1>1, <2>2, AnsweredFacts
<1> HIDE DEF x
<1>4. /\ delivered' = Append(delivered, x)
      /\ inFlight' = RemoveAt(inFlight, i)
      /\ overtaken' \in BOOLEAN
      /\ ~overtaken' => ~overtaken /\ ~(i > 1)
  BY <1>2 DEF Complete, TasksFit, x
<1>5. /\ delivered' \in Seq(Ended)
      /\ ToSet(delivered') = ToSet(delivered) \cup {x}
  BY <1>3, <1>4, AppendFacts DEF TasksFit
<1>6. /\ inFlight' \in Seq(OnTheWay)
      /\ ToSet(inFlight) = ToSet(inFlight') \cup {inFlight[i]}
  BY <1>4, RemoveAtFacts DEF TasksFit
<1>7. TasksFit'
  BY <1>4, <1>5, <1>6 DEF TasksFit
<1>8. /\ \A id : Awaited(id)' <=> Awaited(id)
      /\ (\A t \in Tasks : t.receiver = "hidden") => \A t \in Tasks' : t.receiver = "hidden"
  BY <1>3, <1>5, <1>6 DEF Awaited, Tasks
<1>9. ASSUME ~overtaken'
      PROVE  LET k == Len(delivered) + 1
             IN  /\ k \in DOMAIN Line /\ Line[k] = inFlight[i]
                 /\ Line' = [Line EXCEPT ![k] = x]
                 /\ \A j \in 1..(k - 1) : Line[j].answer # Unserved
  <2>1. i = 1 /\ inFlight # <<>>
    BY <1>1, <1>4, <1>9, EmptySeq
  <2>2. x \in Task
    BY <1>3 DEF Task
  <2>3. Line' = [Line EXCEPT ![Len(delivered) + 1] = x]
    <3>1. inFlight \in Seq(Task) /\ delivered \in Seq(Task)
      BY LineIsTasks
    <3>2. /\ RemoveAt(inFlight, 1) = Tail(inFlight)
          /\ Append(delivered, x) \o Tail(inFlight)
                = [delivered \o inFlight EXCEPT ![Len(delivered) + 1] = x]
      BY <2>1, <2>2, <3>1, LineMove
    <3> QED
      BY <1>4, <2>1, <3>2 DEF Line
  <2>4. Len(delivered) + 1 \in DOMAIN Line /\ Line[Len(delivered) + 1] = inFlight[i]
    BY <1>1, <2>1, <2>2, LineIsTasks, LineReplace DEF Line
  <2>5. ASSUME NEW j \in 1..Len(delivered)
        PROVE  Line[j].answer # Unserved
    <3>1. Line[j] = delivered[j]
      BY <1>1, LineIsTasks, LineFacts DEF Line
    <3>2. delivered[j] \in Ended
      BY <1>1, RowsFacts DEF TasksFit
    <3> QED
      BY <3>1, <3>2, TaskFacts
  <2> QED
    BY <1>1, <2>3, <2>4, <2>5
<1>10. ~overtaken' => \E y \in Ended : LET k == Len(delivered) + 1 IN
           /\ k \in DOMAIN Line
           /\ Line' = [Line EXCEPT ![k] = y]
           /\ y.receiver = Line[k].receiver /\ y.id = Line[k].id
           /\ y.answer = Line[k].answer \/ y.answer = NoData
           /\ \A j \in 1..(k - 1) : Line[j].answer # Unserved
  BY <1>2, <1>3, <1>9
<1> QED
  BY <1>4, <1>7, <1>8, <1>10

-----------------------------------------------------------------------------
(* The line                                                                  *)

\* A request sent now, not a vote of a covered screen, is the last of the line.
LEMMA AppendKeepsOrder ==
    ASSUME NEW line \in Seq(Task), NEW t \in Task, t.answer = Unserved, ~HiddenVote(t)
    PROVE  LET more == Append(line, t)
           IN  /\ ServedInTurn(line) => ServedInTurn(more)
               /\ HiddenVotesFirst(line) => HiddenVotesFirst(more)
               /\ NoHiddenVote(line) => NoHiddenVote(more)
               /\ \A opinions : RepliesAgree(line, opinions) => RepliesAgree(more, opinions)
               /\ \A list, opinions :
                    ListAgrees(list, line, opinions) => ListAgrees(list, more, opinions)
<1> DEFINE n == Len(line)
           more == Append(line, t)
<1>1. /\ n \in Nat
      /\ DOMAIN line = 1..n
      /\ more \in Seq(Task)
      /\ Len(more) = n + 1
      /\ \A j \in 1..n : more[j] = line[j]
      /\ more[n + 1] = t
  BY LenProperties
<1>2. DOMAIN more = 1..(n + 1)
  BY <1>1, LenProperties
<1>3. ~ListReply(t)
  BY TaskFacts DEF ListReply
<1> HIDE DEF n, more
<1>4. ServedInTurn(line) => ServedInTurn(more)
  BY <1>1, <1>2 DEF ServedInTurn
<1>5. HiddenVotesFirst(line) => HiddenVotesFirst(more)
  BY <1>1, <1>2 DEF HiddenVotesFirst
<1>6. NoHiddenVote(line) => NoHiddenVote(more)
  BY <1>1, <1>2 DEF NoHiddenVote
<1>7. ASSUME NEW opinions, RepliesAgree(line, opinions)
      PROVE  RepliesAgree(more, opinions)
  <2> SUFFICES ASSUME NEW i \in DOMAIN more, ListReply(more[i]),
                      ~Agrees(more[i].answer.body, opinions)
               PROVE  \E j \in DOMAIN more : i < j /\ Changes(more[j])
    BY DEF RepliesAgree
  <2>1. i \in 1..n /\ more[i] = line[i]
    BY <1>1, <1>2, <1>3
  <2>2. PICK j \in 1..n : i < j /\ Changes(line[j])
    BY <1>1, <1>7, <2>1 DEF RepliesAgree
  <2> QED
    BY <1>1, <1>2, <2>2
<1>8. ASSUME NEW list, NEW opinions, ListAgrees(list, line, opinions)
      PROVE  ListAgrees(list, more, opinions)
  BY <1>1, <1>2, <1>8 DEF ListAgrees
<1> QED
  BY <1>4, <1>5, <1>6, <1>7, <1>8 DEF more

\* The first of the line is taken.
LEMMA TailKeepsOrder ==
    ASSUME NEW line \in Seq(Task), line # <<>>
    PROVE  /\ ServedInTurn(line) => ServedInTurn(Tail(line))
           /\ HiddenVotesFirst(line) => HiddenVotesFirst(Tail(line))
           /\ HiddenVotesFirst(line) /\ Head(line).receiver = "front" =>
                NoHiddenVote(Tail(line))
           /\ NoHiddenVote(line) => NoHiddenVote(Tail(line))
           /\ \A opinions : RepliesAgree(line, opinions) =>
                /\ RepliesAgree(Tail(line), opinions)
                /\ ListReply(Head(line)) =>
                     ListAgrees(Head(line).answer.body, Tail(line), opinions)
           /\ \A list, opinions : ListAgrees(list, line, opinions) =>
                \/ Changes(Head(line))
                \/ ListAgrees(list, Tail(line), opinions)
<1> DEFINE n == Len(line)
           less == Tail(line)
<1>1. /\ n \in Nat \ {0}
      /\ DOMAIN line = 1..n
      /\ Head(line) = line[1]
      /\ less \in Seq(Task)
      /\ Len(less) = n - 1
      /\ \A j \in 1..(n - 1) : less[j] = line[j + 1]
  BY LenProperties, EmptySeq, TailFacts
<1>2. DOMAIN less = 1..(n - 1)
  BY <1>1, LenProperties
<1> HIDE DEF n, less
<1>3. \A j \in 1..(n - 1) : j + 1 \in 1..n /\ less[j] = line[j + 1]
  BY <1>1
<1>4. ASSUME ServedInTurn(line)
      PROVE  ServedInTurn(less)
  <2> SUFFICES ASSUME NEW j \in 1..(n - 1), NEW i \in 1..(j - 1), less[j].answer # Unserved
               PROVE  less[i].answer # Unserved
    BY <1>2 DEF ServedInTurn
  <2>1. i + 1 \in 1..((j + 1) - 1) /\ i \in 1..(n - 1)
    BY <1>1
  <2> QED
    BY <1>1, <1>3, <1>4, <2>1 DEF ServedInTurn
<1>5. ASSUME HiddenVotesFirst(line)
      PROVE  HiddenVotesFirst(less)
  <2> SUFFICES ASSUME NEW i \in 1..(n - 1), NEW j \in 1..(n - 1),
                      less[i].receiver = "front", HiddenVote(less[j])
               PROVE  j < i
    BY <1>2 DEF HiddenVotesFirst
  <2>1. j + 1 < i + 1
    BY <1>1, <1>3, <1>5 DEF HiddenVotesFirst
  <2> QED
    BY <1>1, <2>1
<1>6. ASSUME HiddenVotesFirst(line), Head(line).receiver = "front"
      PROVE  NoHiddenVote(less)
  <2> SUFFICES ASSUME NEW j \in 1..(n - 1), HiddenVote(less[j])
               PROVE  FALSE
    BY <1>2 DEF NoHiddenVote
  <2>1. j + 1 < 1
    BY <1>1, <1>3, <1>6 DEF HiddenVotesFirst
  <2> QED
    BY <1>1, <2>1
<1>7. NoHiddenVote(line) => NoHiddenVote(less)
  BY <1>1, <1>2, <1>3 DEF NoHiddenVote
<1>8. ASSUME NEW j \in 1..n, j # 1, Changes(line[j])
      PROVE  j - 1 \in 1..(n - 1) /\ Changes(less[j - 1])
  <2>1. j - 1 \in 1..(n - 1) /\ (j - 1) + 1 = j
    BY <1>1, <1>8
  <2> QED
    BY <1>1, <1>8, <2>1
<1>9. ASSUME NEW opinions, RepliesAgree(line, opinions)
      PROVE  /\ RepliesAgree(less, opinions)
             /\ ListReply(Head(line)) => ListAgrees(Head(line).answer.body, less, opinions)
  <2>1. ASSUME NEW i \in 1..(n - 1), ListReply(less[i]), ~Agrees(less[i].answer.body, opinions)
        PROVE  \E j \in DOMAIN less : i < j /\ Changes(less[j])
    <3>1. i + 1 \in 1..n /\ less[i] = line[i + 1]
      BY <1>3
    <3>2. PICK j \in 1..n : i + 1 < j /\ Changes(line[j])
      BY <1>1, <1>9, <2>1, <3>1 DEF RepliesAgree
    <3>3. j - 1 \in 1..(n - 1) /\ Changes(less[j - 1]) /\ i < j - 1
      BY <1>1, <1>8, <3>2
    <3> QED
      BY <1>2, <3>3
  <2>2. ASSUME ListReply(Head(line)), ~Agrees(Head(line).answer.body, opinions)
        PROVE  \E j \in DOMAIN less : Changes(less[j])
    <3>1. PICK j \in 1..n : 1 < j /\ Changes(line[j])
      BY <1>1, <1>9, <2>2 DEF RepliesAgree
    <3> QED
      BY <1>2, <1>8, <3>1
  <2> QED
    BY <1>2, <2>1, <2>2 DEF RepliesAgree, ListAgrees
<1>10. ASSUME NEW list, NEW opinions, ListAgrees(list, line, opinions), ~Changes(Head(line))
       PROVE  ListAgrees(list, less, opinions)
  BY <1>1, <1>2, <1>8, <1>10 DEF ListAgrees
<1> QED
  BY <1>4, <1>5, <1>6, <1>7, <1>9, <1>10 DEF less

\* The k-th request is served, or its task completes, in its turn.
LEMMA ReplaceKeepsOrder ==
    ASSUME NEW line \in Seq(Task), NEW k \in DOMAIN line, NEW x \in Task,
           x.receiver = line[k].receiver, x.id = line[k].id, x.answer # Unserved,
           \A j \in 1..(k - 1) : line[j].answer # Unserved
    PROVE  LET new == [line EXCEPT ![k] = x]
           IN  /\ ServedInTurn(line) => ServedInTurn(new)
               /\ HiddenVotesFirst(line) => HiddenVotesFirst(new)
               /\ NoHiddenVote(line) => NoHiddenVote(new)
               /\ \A opinions :
                    /\ RepliesAgree(line, opinions)
                    /\ ListReply(x) => x.answer = line[k].answer \/ Agrees(x.answer.body, opinions)
                    => RepliesAgree(new, opinions)
               /\ \A list, opinions :
                    ListAgrees(list, line, opinions) => ListAgrees(list, new, opinions)
<1> DEFINE n == Len(line)
           new == [line EXCEPT ![k] = x]
<1>1. /\ n \in Nat
      /\ DOMAIN line = 1..n
      /\ DOMAIN new = 1..n
      /\ \A j \in 1..n : new[j] = IF j = k THEN x ELSE line[j]
  BY LenProperties
<1> HIDE DEF n, new
<1>2. ServedInTurn(line) => ServedInTurn(new)
  BY <1>1 DEF ServedInTurn
<1>3. HiddenVotesFirst(line) => HiddenVotesFirst(new)
  BY <1>1 DEF HiddenVotesFirst, HiddenVote
<1>4. NoHiddenVote(line) => NoHiddenVote(new)
  BY <1>1 DEF NoHiddenVote, HiddenVote
<1>5. \A j \in 1..n : Changes(line[j]) => Changes(new[j])
  BY <1>1 DEF Changes
<1>6. ASSUME NEW opinions, RepliesAgree(line, opinions),
             ListReply(x) => x.answer = line[k].answer \/ Agrees(x.answer.body, opinions)
      PROVE  RepliesAgree(new, opinions)
  <2> SUFFICES ASSUME NEW i \in 1..n, ListReply(new[i]),
                      ~Agrees(new[i].answer.body, opinions)
               PROVE  \E j \in 1..n : i < j /\ Changes(new[j])
    BY <1>1 DEF RepliesAgree
  <2>1. ListReply(line[i]) /\ ~Agrees(line[i].answer.body, opinions)
    BY <1>1, <1>6 DEF ListReply
  <2> QED
    BY <1>1, <1>5, <1>6, <2>1 DEF RepliesAgree
<1>7. ASSUME NEW list, NEW opinions, ListAgrees(list, line, opinions)
      PROVE  ListAgrees(list, new, opinions)
  BY <1>1, <1>5, <1>7 DEF ListAgrees
<1> QED
  BY <1>2, <1>3, <1>4, <1>6, <1>7 DEF new

\* A vote served in its turn: no reply behind it has been made, and what is
\* before it is given up, or was never shown.
LEMMA VoteKeepsOrder ==
    ASSUME NEW line \in Seq(Task), NEW k \in DOMAIN line, NEW x \in Task, NEW opinions,
           NEW list,
           x.receiver = line[k].receiver, x.id = line[k].id, x.answer # Unserved,
           line[k].answer = Unserved, line[k].id = "RANK_UPDATE_COMMENT",
           ServedInTurn(line), HiddenVotesFirst(line),
           NoHiddenVote(line) \/ list = <<>>
    PROVE  LET new == [line EXCEPT ![k] = x]
           IN  /\ RepliesAgree(new, opinions)
               /\ ListAgrees(list, new, opinions)
<1> DEFINE n == Len(line)
           new == [line EXCEPT ![k] = x]
<1>1. /\ n \in Nat
      /\ k \in 1..n
      /\ DOMAIN line = 1..n
      /\ DOMAIN new = 1..n
      /\ \A j \in 1..n : new[j] = IF j = k THEN x ELSE line[j]
      /\ \A j \in 1..n : line[j] \in Task
  BY RowsFacts
<1> HIDE DEF n, new
<1>2. ASSUME NEW i \in 1..n, ListReply(new[i])
      PROVE  i < k
  <2>1. i # k /\ new[i] = line[i]
    BY <1>1, <1>2 DEF ListReply
  <2>2. line[i].answer # Unserved
    BY <1>1, <1>2, <2>1, TaskFacts DEF ListReply
  <2>3. ~(k \in 1..(i - 1))
    BY <1>1, <2>2 DEF ServedInTurn
  <2> QED
    BY <1>1, <2>1, <2>3
<1>3. CASE x.receiver = "front"
  <2>1. Changes(new[k])
    BY <1>1, <1>3 DEF Changes
  <2> QED
    BY <1>1, <1>2, <2>1 DEF RepliesAgree, ListAgrees, new
<1>4. CASE x.receiver # "front"
  <2>1. HiddenVote(line[k])
    BY <1>1, <1>4, TaskFacts DEF HiddenVote
  <2>2. list = <<>>
    BY <1>1, <2>1 DEF NoHiddenVote
  <2>3. Agrees(list, opinions)
    BY <2>2 DEF Agrees, ToSet
  <2>4. ASSUME NEW i \in 1..n, ListReply(new[i])
        PROVE  FALSE
    <3>1. i < k /\ new[i] = line[i]
      BY <1>1, <1>2, <2>4
    <3>2. k < i
      BY <1>1, <2>1, <2>4, <3>1 DEF HiddenVotesFirst, ListReply
    <3> QED
      BY <1>1, <3>1, <3>2
  <2> QED
    BY <1>1, <2>3, <2>4 DEF RepliesAgree, ListAgrees, new
<1> QED
  BY <1>3, <1>4

\* The line after the first reply is taken, and after a request follows it.
LEMMA LineTaken ==
    ASSUME TasksFit, delivered # <<>>, Taken, UNCHANGED <<inFlight, overtaken>>
    PROVE  TasksFit' /\ Line' = Tail(Line) /\ Tasks = Tasks' \cup {Reply}
BY TakenFacts DEF TasksFit, Taken, Line, Tasks

LEMMA LineTakenSend ==
    ASSUME TasksFit, delivered # <<>>, Taken, NEW request \in OnTheWay, Send(request),
           UNCHANGED overtaken
    PROVE  /\ TasksFit'
           /\ Tail(Line) \in Seq(Task)
           /\ Line' = Append(Tail(Line), request)
           /\ Tasks' \cup {Reply} = Tasks \cup {request}
           /\ request \in Tasks'
<1>1. delivered' = Tail(delivered) /\ inFlight' = Append(inFlight, request)
  BY DEF Taken, Send
<1>2. inFlight' \in Seq(OnTheWay) /\ ToSet(inFlight') = ToSet(inFlight) \cup {request}
  BY <1>1, AppendFacts DEF TasksFit
<1>3. /\ Tail(delivered) \in Seq(Ended)
      /\ Tail(delivered) \o inFlight = Tail(Line)
      /\ Tasks = (ToSet(inFlight) \cup ToSet(Tail(delivered))) \cup {Reply}
  BY TakenFacts
<1>4. /\ request \in Task
      /\ Tail(delivered) \in Seq(Task)
      /\ inFlight \in Seq(Task)
  BY <1>3, SeqMonotonic, LineIsTasks DEF Task
<1>5. Line' = Append(Tail(Line), request)
  BY <1>1, <1>3, <1>4, LineAppend DEF Line
<1>6. Tail(Line) \in Seq(Task)
  <2>1. Tail(delivered) \o inFlight \in Seq(Task)
    BY <1>4, LineFacts
  <2> QED
    BY <1>3, <2>1
<1> QED
  BY <1>1, <1>2, <1>3, <1>5, <1>6 DEF TasksFit, Tasks

\* Hiding the receivers changes no turn.
LEMMA HiddenKeepsTurn ==
    ASSUME NEW front \in Seq(Ended), NEW back \in Seq(OnTheWay), ServedInTurn(front \o back)
    PROVE  /\ ServedInTurn(Hidden(front) \o Hidden(back))
           /\ HiddenVotesFirst(Hidden(front) \o Hidden(back))
<1> DEFINE m == Len(front)
           n == Len(back)
           line == front \o back
           new == Hidden(front) \o Hidden(back)
<1>1. /\ Hidden(front) \in Seq(Ended) /\ Len(Hidden(front)) = m
      /\ Hidden(back) \in Seq(OnTheWay) /\ Len(Hidden(back)) = n
      /\ \A i \in DOMAIN front :
            Hidden(front)[i].receiver = "hidden" /\ Hidden(front)[i].answer = front[i].answer
      /\ \A i \in DOMAIN back :
            Hidden(back)[i].receiver = "hidden" /\ Hidden(back)[i].answer = back[i].answer
  BY HiddenFacts
<1>2. /\ m \in Nat /\ n \in Nat
      /\ DOMAIN front = 1..m /\ DOMAIN back = 1..n
  BY RowsFacts
<1>3. /\ line \in Seq(Task)
      /\ Len(line) = m + n
      /\ \A k \in 1..(m + n) : line[k] = IF k <= m THEN front[k] ELSE back[k - m]
  <2>1. front \in Seq(Task) /\ back \in Seq(Task)
    BY SeqMonotonic DEF Task
  <2> QED
    BY <2>1, LineFacts
<1>4. /\ new \in Seq(Task)
      /\ Len(new) = m + n
      /\ \A k \in 1..(m + n) :
           new[k] = IF k <= m THEN Hidden(front)[k] ELSE Hidden(back)[k - m]
  <2>1. Hidden(front) \in Seq(Task) /\ Hidden(back) \in Seq(Task)
    BY <1>1, SeqMonotonic DEF Task
  <2>2. /\ new \in Seq(Task)
        /\ Len(new) = Len(Hidden(front)) + Len(Hidden(back))
        /\ \A k \in 1..(Len(Hidden(front)) + Len(Hidden(back))) :
             new[k] = IF k <= Len(Hidden(front)) THEN Hidden(front)[k]
                                                 ELSE Hidden(back)[k - Len(Hidden(front))]
    BY <2>1, LineFacts
  <2> QED
    BY <1>1, <2>2
<1> HIDE DEF m, n, line, new
<1>5. DOMAIN line = 1..(m + n) /\ DOMAIN new = 1..(m + n)
  BY <1>3, <1>4, LenProperties
<1>6. ASSUME NEW k \in 1..(m + n)
      PROVE  new[k].receiver = "hidden" /\ new[k].answer = line[k].answer
  <2>1. CASE k <= m
    <3>1. k \in DOMAIN front
      BY <1>2, <2>1
    <3> QED
      BY <1>1, <1>3, <1>4, <2>1, <3>1
  <2>2. CASE ~(k <= m)
    <3>1. k - m \in DOMAIN back
      BY <1>2, <2>2
    <3> QED
      BY <1>1, <1>3, <1>4, <2>2, <3>1
  <2> QED
    BY <2>1, <2>2
<1>7. ServedInTurn(new)
  <2>1. ServedInTurn(line)
    BY DEF line
  <2>2. \A j \in 1..(m + n) : \A i \in 1..(j - 1) : i \in 1..(m + n)
    BY <1>2
  <2> QED
    BY <1>5, <1>6, <2>1, <2>2 DEF ServedInTurn
<1>8. HiddenVotesFirst(new)
  BY <1>5, <1>6 DEF HiddenVotesFirst
<1> QED
  BY <1>7, <1>8 DEF new

-----------------------------------------------------------------------------
(* IInv is inductive                                                         *)

LEMMA InitInv == Init => IInv
<1> SUFFICES ASSUME Init PROVE IInv
  OBVIOUS
<1> USE DEF Init, HttpInit, EmptyTable, NoRefill, NoCells
<1>1. TasksFit
  BY EmptySeq DEF TasksFit
<1>2. TableFits
  BY EmptySeq DEF TableFits
<1>3. ServerFits
  BY DEF ServerFits
<1>4. ScreenFits
  <2>1. DOMAIN cells = {}
    OBVIOUS
  <2> QED
    BY <2>1 DEF ScreenFits
<1>5. NothingElsewhere /\ VoteFits
  BY DEF NothingElsewhere, Tasks, ToSet, VoteFits, Voted
<1>6. CalmTable /\ ListsAgree
  BY DEF CalmTable, ListsAgree, Shown
<1>7. InOrder
  <2>1. DOMAIN Line = {}
    BY EmptySeq DEF Line
  <2> QED
    BY <2>1 DEF InOrder, ServedInTurn, HiddenVotesFirst
<1> QED
  BY <1>1, <1>2, <1>3, <1>4, <1>5, <1>6, <1>7 DEF IInv

LEMMA CrashKeeps ==
    ASSUME IInv, Crash
    PROVE  IInv'
<1> USE DEF Crash, NewTable, NoRefill, NoCells
<1>1. TasksFit'
  BY EmptySeq DEF TasksFit
<1>2. TableFits'
  BY EmptySeq DEF TableFits, NoRefill
<1>3. ServerFits'
  BY DEF IInv, ServerFits, serverVars
<1>4. ScreenFits'
  <2>1. DOMAIN cells' = {}
    OBVIOUS
  <2> QED
    BY <2>1 DEF ScreenFits
<1>5. NothingElsewhere' /\ VoteFits'
  BY DEF NothingElsewhere, Tasks, ToSet, EmptyTable, VoteFits, Voted
<1>6. CalmTable' /\ ListsAgree'
  BY DEF CalmTable, ListsAgree, Shown
<1>7. InOrder'
  <2>1. DOMAIN Line' = {}
    BY EmptySeq DEF Line
  <2> QED
    BY <2>1 DEF InOrder, ServedInTurn, HiddenVotesFirst
<1> QED
  BY <1>1, <1>2, <1>3, <1>4, <1>5, <1>6, <1>7 DEF IInv

LEMMA RelaunchKeeps ==
    ASSUME IInv, Relaunch
    PROVE  IInv'
<1> USE DEF IInv, Relaunch, httpVars, tableVars, serverVars
<1>1. TasksFit' /\ TableFits' /\ ServerFits'
  BY DEF TasksFit, TableFits, ServerFits
<1>2. ScreenFits'
  BY DEF ScreenFits
<1>3. NothingElsewhere' /\ VoteFits'
  BY DEF NothingElsewhere, EmptyTable, Tasks, VoteFits, Voted
<1>4. ~Shown'
  BY DEF NothingElsewhere, Shown
<1>5. InOrder'
  BY DEF InOrder, Line
<1> QED
  BY <1>1, <1>2, <1>3, <1>4, <1>5 DEF CalmTable, ListsAgree

\* Nothing in the line is for a new ranking but its own request.
LEMMA OpenKeeps ==
    ASSUME IInv, Open
    PROVE  IInv'
<1> USE DEF IInv
<1>0. /\ process = "running" /\ top # "RankListView" /\ top' = "RankListView"
      /\ UNCHANGED <<delivered, overtaken, tableVars, serverVars, process, cells, drawing, asking>>
      /\ \/ Send(LoadBucketRank("front"))
         \/ UNCHANGED inFlight
  BY DEF Open
<1>1. TableFits' /\ ServerFits' /\ ScreenFits'
  BY <1>0 DEF TableFits, ServerFits, ScreenFits, tableVars, serverVars
<1>2. NothingElsewhere' /\ VoteFits'
  BY <1>0 DEF NothingElsewhere, VoteFits, tableVars
<1>3. CalmTable'
  BY <1>0, EmptySeq DEF NothingElsewhere, EmptyTable, NoCells, CalmTable, tableVars
<1>4. ToCome' = <<>> /\ Agrees(<<>>, opinion') /\ Line \in Seq(Task)
  BY <1>0, LineIsTasks
  DEF NothingElsewhere, EmptyTable, NoRefill, ToCome, Voted, tableVars, Agrees, ToSet
<1>5. RepliesAgree(Line, opinion')
  <2>1. \A i \in DOMAIN Line : Line[i].receiver = "hidden"
    BY <1>0, LineIsTasks, RowsFacts DEF NothingElsewhere
  <2> QED
    BY <2>1 DEF RepliesAgree, ListReply
<1>6. CASE Send(LoadBucketRank("front"))
  <2> DEFINE request == LoadBucketRank("front")
  <2>1. /\ request \in OnTheWay /\ request \in Task
        /\ request.answer = Unserved /\ ~HiddenVote(request)
    BY RequestFacts DEF Task, LoadBucketRank, Request, HiddenVote
  <2> HIDE DEF request
  <2>2. inFlight' \in Seq(OnTheWay) /\ Line' = Append(Line, request)
    BY <1>0, <1>6, <2>1, SendFacts DEF request
  <2>3. TasksFit'
    BY <1>0, <2>2 DEF TasksFit
  <2>4. InOrder'
    BY <1>0, <1>4, <2>1, <2>2, AppendKeepsOrder DEF InOrder
  <2>5. RepliesAgree(Line', opinion')
    BY <1>4, <1>5, <2>1, <2>2, AppendKeepsOrder
  <2>6. ListsAgree'
    BY <1>4, <2>5 DEF ListsAgree, ListAgrees
  <2> QED
    BY <1>1, <1>2, <1>3, <2>3, <2>4, <2>6
<1>7. CASE UNCHANGED inFlight
  <2>1. Line' = Line
    BY <1>0, <1>7 DEF Line
  <2>2. TasksFit' /\ InOrder'
    BY <1>0, <1>7, <2>1 DEF TasksFit, InOrder
  <2>3. ListsAgree'
    BY <1>4, <1>5, <2>1 DEF ListsAgree, ListAgrees
  <2> QED
    BY <1>1, <1>2, <1>3, <2>2, <2>3
<1> QED
  BY <1>0, <1>6, <1>7

\* The main screen covers the ranking, with the reply that closed it taken or not.
LEMMA LeaveKeeps ==
    ASSUME IInv, NEW replies \in Seq(Ended), Leave(replies), process = "running",
           ~overtaken => ServedInTurn(replies \o inFlight)
    PROVE  IInv'
<1> USE DEF IInv
<1>0. /\ top' = "ViewController" /\ process' = "running"
      /\ inFlight' = Hidden(inFlight) /\ delivered' = Hidden(replies)
      /\ cells' = <<>> /\ drawing' = NoCell
      /\ UNCHANGED <<overtaken, serverVars>>
  BY DEF Leave, NoCells
<1>1. TasksFit'
  BY <1>0, HiddenFacts DEF TasksFit
<1>2. TableFits'
  <2>1. coveredRefill' \in BOOLEAN
    BY DEF Leave, CoverTable, TableFits
  <2> QED
    BY <2>1, EmptySeq DEF Leave, CoverTable, NewTable, NoRefill, TableFits
<1>3. ServerFits'
  BY <1>0 DEF ServerFits, serverVars
<1>4. ScreenFits'
  <2>1. DOMAIN cells' = {}
    BY <1>0
  <2> QED
    BY <1>0, <2>1 DEF ScreenFits
<1>5. NothingElsewhere'
  <2>1. /\ \A t \in ToSet(Hidden(inFlight)) : t.receiver = "hidden"
        /\ \A t \in ToSet(Hidden(replies)) : t.receiver = "hidden"
    BY HiddenFacts DEF TasksFit
  <2>2. ~Voted' /\ EmptyTable'
    BY DEF Voted, EmptyTable, Leave, CoverTable, NewTable
  <2> QED
    BY <1>0, <2>1, <2>2 DEF NothingElsewhere, NoCells, Tasks
<1>5a. VoteFits'
  BY DEF VoteFits, Voted, Leave, CoverTable, NewTable
<1>6. CalmTable' /\ ListsAgree'
  BY <1>0 DEF CalmTable, ListsAgree, Shown
<1>7. InOrder'
  BY <1>0, HiddenKeepsTurn DEF InOrder, Line, TasksFit
<1> QED
  BY <1>1, <1>2, <1>3, <1>4, <1>5, <1>5a, <1>6, <1>7

\* Steps that leave the table and the screen alone; at most the handler of a vote
\* on a covered screen ends.
LEMMA SameScreenFacts ==
    ASSUME IInv, UNCHANGED <<tableVars, process, top, cells, drawing>>,
           asking' = asking \/ (asking = "hidden" /\ asking' = "no")
    PROVE  /\ TableFits' /\ ScreenFits' /\ VoteFits'
           /\ ToCome' = ToCome /\ (Shown' <=> Shown)
           /\ (Awaited("RANK_LIST") => Awaited("RANK_LIST")') => CalmTable'
           /\ top = "RankListView" \/ (\A t \in Tasks' : t.receiver = "hidden") => NothingElsewhere'
<1> USE DEF IInv, tableVars
<1>1. TableFits' /\ ScreenFits' /\ VoteFits'
  BY DEF TableFits, ScreenFits, VoteFits
<1>2. Voted' <=> Voted
  BY DEF Voted
<1>3. ToCome' = ToCome /\ (Shown' <=> Shown)
  BY <1>2 DEF ToCome, Shown
<1>4. (Awaited("RANK_LIST") => Awaited("RANK_LIST")') => CalmTable'
  BY <1>2 DEF CalmTable, Shown, Calm, Refilling
<1>5. top = "RankListView" \/ (\A t \in Tasks' : t.receiver = "hidden") => NothingElsewhere'
  BY <1>2 DEF NothingElsewhere, EmptyTable
<1> QED
  BY <1>1, <1>3, <1>4, <1>5

\* Steps that leave requests and server alone.
LEMMA SameLineFacts ==
    ASSUME IInv, UNCHANGED <<httpVars, serverVars>>
    PROVE  /\ TasksFit' /\ ServerFits' /\ InOrder'
           /\ Tasks' = Tasks /\ (Awaited("RANK_LIST")' <=> Awaited("RANK_LIST"))
           /\ Shown /\ ToCome' = ToCome => ListsAgree'
<1> USE DEF IInv, httpVars, serverVars
<1>1. TasksFit' /\ ServerFits'
  BY DEF TasksFit, ServerFits
<1>2. InOrder'
  BY DEF InOrder, Line
<1>3. Tasks' = Tasks /\ (Awaited("RANK_LIST")' <=> Awaited("RANK_LIST"))
  BY DEF Tasks, Awaited
<1>4. Shown /\ ToCome' = ToCome => ListsAgree'
  <2>1. Line' = Line
    BY DEF Line
  <2> QED
    BY <2>1 DEF ListsAgree
<1> QED
  BY <1>1, <1>2, <1>3, <1>4

\* The rows are counted again, and the cells drawn anew.
LEMMA ReloadKeeps ==
    ASSUME IInv, Reload
    PROVE  IInv'
<1> USE DEF IInv
<1>0. /\ Shown /\ drawing = NoCell
      /\ posted > 0 /\ posted' = posted - 1
      /\ rows' = Len(mBucketDataList)
      /\ cells' = NoCells
      /\ UNCHANGED <<httpVars, serverVars, mBucketDataList, refill, coveredRefill>>
      /\ UNCHANGED <<process, top, drawing, asking>>
  BY DEF Reload, MainFree, ReloadData
<1>1. TableFits'
  BY <1>0, RowsFacts DEF TableFits
<1>2. DOMAIN cells' = {}
  BY <1>0 DEF NoCells
<1>3. ScreenFits' /\ VoteFits'
  BY <1>0, <1>2 DEF ScreenFits, VoteFits
<1>4. NothingElsewhere'
  BY <1>0 DEF NothingElsewhere, Shown
<1>5. CalmTable'
  BY <1>0, <1>2 DEF CalmTable
<1>6. ToCome' = ToCome
  BY <1>0 DEF ToCome, Voted
<1> QED
  BY <1>0, <1>1, <1>3, <1>4, <1>5, <1>6, SameLineFacts

LEMMA DrawContentKeeps ==
    ASSUME IInv, NEW i \in 1..rows, DrawContent(i)
    PROVE  IInv'
<1> USE DEF IInv
<1>1. CASE Crash
  BY <1>1, CrashKeeps
<1>2. CASE ~Crash
  <2>0. /\ Shown
        /\ i <= Len(mBucketDataList)
        /\ drawing' = [row |-> i, content |-> mBucketDataList[i].mIdx]
        /\ UNCHANGED <<httpVars, tableVars, serverVars, process, top, cells, asking>>
    BY <1>2 DEF DrawContent, MainFree, Readable
  <2>1. mBucketDataList[i].mIdx \in Memo
    <3>1. mBucketDataList[i] \in RankRow
      BY <2>0, RowsFacts DEF TableFits
    <3> QED
      BY <3>1 DEF RankRow
  <2>2. TableFits' /\ ScreenFits' /\ VoteFits'
    BY <2>0, <2>1 DEF TableFits, ScreenFits, VoteFits, tableVars
  <2>3. NothingElsewhere'
    BY <2>0 DEF NothingElsewhere, Shown
  <2>4. CalmTable'
    BY <2>0, SameLineFacts DEF CalmTable, Shown, Calm, Refilling, Voted, tableVars
  <2>5. ToCome' = ToCome
    BY <2>0 DEF ToCome, Voted, tableVars
  <2> QED
    BY <2>0, <2>2, <2>3, <2>4, <2>5, SameLineFacts
<1> QED
  BY <1>1, <1>2

\* In a calm table, the row the content was drawn from is still the row.
LEMMA DrawVoteKeeps ==
    ASSUME IInv, DrawVote
    PROVE  IInv'
<1> USE DEF IInv
<1>1. CASE Crash
  BY <1>1, CrashKeeps
<1>2. CASE ~Crash
  <2> DEFINE i == drawing.row
             cell == [content |-> drawing.content, mData |-> mBucketDataList[i].mIdx]
  <2>0. /\ Shown /\ drawing # NoCell
        /\ i <= Len(mBucketDataList)
        /\ cells' = WithCell(cells, i, cell)
        /\ drawing' = NoCell
        /\ UNCHANGED <<httpVars, tableVars, serverVars, process, top, asking>>
    BY <1>2 DEF DrawVote, Readable
  <2>1. i \in 1..rows /\ drawing.content \in Memo
    BY <2>0 DEF ScreenFits
  <2>2. mBucketDataList[i].mIdx \in Memo
    <3>1. mBucketDataList[i] \in RankRow
      BY <2>0, <2>1, RowsFacts DEF TableFits
    <3> QED
      BY <3>1 DEF RankRow
  <2>3. /\ DOMAIN cells' = DOMAIN cells \cup {i}
        /\ cells'[i] = cell
        /\ \A j \in DOMAIN cells : j # i => cells'[j] = cells[j]
    BY <2>0 DEF WithCell
  <2>4. TableFits' /\ ScreenFits' /\ VoteFits'
    BY <2>0, <2>1, <2>2, <2>3 DEF TableFits, ScreenFits, VoteFits, tableVars
  <2>5. NothingElsewhere'
    BY <2>0 DEF NothingElsewhere, Shown
  <2>6. CalmTable'
    BY <2>0, <2>3, SameLineFacts DEF CalmTable, Shown, Calm, Refilling, Voted, tableVars
  <2>7. ToCome' = ToCome
    BY <2>0 DEF ToCome, Voted, tableVars
  <2> QED
    BY <2>0, <2>4, <2>5, <2>6, <2>7, SameLineFacts
<1> QED
  BY <1>1, <1>2

\* A vote is the last of the line; it will change opinions when it is served.
LEMMA TouchKeeps ==
    ASSUME IInv, NEW i \in 1..rows, NEW comment \in Opinion, Touch(i, comment)
    PROVE  IInv'
<1> USE DEF IInv
<1>1. CASE Crash
  BY <1>1, CrashKeeps
<1>2. CASE ~Crash
  <2> DEFINE request == SendBucketRank(cells[i].mData, comment)
  <2>0. /\ Shown /\ i \in DOMAIN cells
        /\ Send(request)
        /\ UNCHANGED <<delivered, overtaken, tableVars, serverVars, process, top, cells, drawing, asking>>
    BY <1>2 DEF Touch, MainFree
  <2>1. cells[i].mData \in Memo
    BY <2>0 DEF ScreenFits
  <2>2. /\ request \in OnTheWay /\ request \in Task
        /\ request.answer = Unserved /\ ~HiddenVote(request)
    BY <2>1, RequestFacts DEF Task, SendBucketRank, Request, HiddenVote
  <2> HIDE DEF request
  <2>3. /\ inFlight' \in Seq(OnTheWay)
        /\ Line' = Append(Line, request)
        /\ Tasks' = Tasks \cup {request}
        /\ Line \in Seq(Task)
    BY <2>0, <2>2, SendFacts, LineIsTasks
  <2>4. TasksFit' /\ ServerFits'
    BY <2>0, <2>3 DEF TasksFit, ServerFits, serverVars
  <2>5. Awaited("RANK_LIST") => Awaited("RANK_LIST")'
    BY <2>3 DEF Awaited
  <2>6. InOrder'
    BY <2>0, <2>2, <2>3, AppendKeepsOrder DEF InOrder
  <2>7. ListsAgree'
    BY <2>0, <2>2, <2>3, AppendKeepsOrder, SameScreenFacts DEF ListsAgree, serverVars
  <2> QED
    BY <2>0, <2>4, <2>5, <2>6, <2>7, SameScreenFacts DEF Shown
<1> QED
  BY <1>1, <1>2

-----------------------------------------------------------------------------

\* An answer that is no list leaves the list as it is; another one agrees with
\* the opinions, or a vote behind it may have changed them.
LEMMA ReceiveRankingKeeps ==
    ASSUME IInv, ReceiveRanking
    PROVE  IInv'
<1> USE DEF IInv
<1>0. /\ process = "running" /\ ~Refilling /\ asking = "no"
      /\ delivered # <<>> /\ Taken
      /\ Reply.id = "RANK_LIST" /\ Reply.answer.status = "accepted" /\ Reply.receiver = "front"
      /\ UNCHANGED <<inFlight, overtaken, mBucketDataList, rows, coveredRefill>>
      /\ UNCHANGED <<serverVars, process, top, cells, drawing, asking>>
  BY DEF ReceiveRanking, QueueFree, AtRest, Receives, BeginRefill
<1>1. /\ Reply \in Ended /\ Reply \in Tasks
      /\ Reply.answer.body \in Seq(RankRow)
      /\ Line \in Seq(Task) /\ Line # <<>> /\ Head(Line) = Reply
      /\ ListReply(Reply) /\ ~Changes(Reply)
      /\ TasksFit' /\ Line' = Tail(Line)
  BY <1>0, TakenFacts, LineTaken, LineIsTasks, TaskFacts DEF Task, ListReply, Changes
<1>2. top = "RankListView"
  BY <1>0, <1>1 DEF NothingElsewhere
<1>3. ServerFits' /\ ScreenFits' /\ NothingElsewhere' /\ VoteFits' /\ ~Voted /\ ~Voted'
  BY <1>0, <1>2 DEF ServerFits, ScreenFits, NothingElsewhere, VoteFits, Voted, serverVars
<1>4. InOrder'
  BY <1>0, <1>1, TailKeepsOrder DEF InOrder
<1>5. ASSUME Shown', ~overtaken'
      PROVE  /\ RepliesAgree(Line', opinion')
             /\ NoHiddenVote(Line')
             /\ ListAgrees(Reply.answer.body, Line', opinion')
             /\ ListAgrees(ToCome, Line', opinion')
  BY <1>0, <1>1, <1>5, TailKeepsOrder DEF ListsAgree, InOrder, Shown, serverVars
<1>6. CASE Reply.answer.body = <<>>
  <2>1. posted' = posted + 1 /\ refill' = refill
    BY <1>6 DEF ReceiveRanking
  <2>2. TableFits'
    BY <1>0, <2>1 DEF TableFits
  <2>3. ~Calm'
    BY <2>1 DEF Calm, TableFits
  <2>4. ToCome' = ToCome
    BY <1>0, <1>3, <2>1 DEF ToCome
  <2> QED
    BY <1>1, <1>3, <1>4, <1>5, <2>2, <2>3, <2>4 DEF CalmTable, ListsAgree
<1>7. CASE Reply.answer.body # <<>>
  <2>1. refill' = [stage |-> "removeAll", rest |-> Reply.answer.body] /\ posted' = posted
    BY <1>7 DEF ReceiveRanking, BeginRefill
  <2>2. TableFits'
    BY <1>0, <1>1, <2>1 DEF TableFits
  <2>3. ~Calm' /\ ToCome' = Reply.answer.body
    BY <1>3, <2>1 DEF Calm, Refilling, NoRefill, ToCome
  <2> QED
    BY <1>1, <1>3, <1>4, <1>5, <2>2, <2>3 DEF CalmTable, ListsAgree
<1> QED
  BY <1>6, <1>7

\* Each step of refilling leaves the list to be as it is.
LEMMA RefillKeeps ==
    ASSUME IInv, process = "running", Refill,
           UNCHANGED <<httpVars, serverVars, process, top, cells, drawing, asking>>
    PROVE  IInv'
<1> USE DEF IInv
<1>0. UNCHANGED <<httpVars, serverVars, process, top, cells, drawing, asking, rows, coveredRefill>>
  BY DEF Refill, RemoveAll, AppendRow, PostReload
<1>1. /\ mBucketDataList \in Seq(RankRow)
      /\ refill \in [stage : {"none", "removeAll", "append"}, rest : Seq(RankRow)]
      /\ refill.rest \in Seq(RankRow)
      /\ posted \in Nat
      /\ refill.stage # "none"
  BY DEF Refill, RemoveAll, AppendRow, PostReload, TableFits
<1>1a. asking = "no" /\ ~Voted /\ ~Voted'
  BY <1>0, <1>1 DEF VoteFits, NoRefill, Voted
<1>2. /\ TableFits'
      /\ ToCome' = ToCome
      /\ ~Calm'
  <2>1. CASE RemoveAll
    <3>1. /\ refill.stage = "removeAll"
          /\ mBucketDataList' = <<>>
          /\ refill' = [stage |-> "append", rest |-> refill.rest]
          /\ posted' = posted
      BY <1>1, <2>1 DEF RemoveAll
    <3>2. <<>> \o refill.rest = refill.rest
      BY <1>1, ConcatEmptySeq
    <3>3. mBucketDataList' \o refill'.rest = refill.rest
      BY <3>1, <3>2
    <3>4. TableFits'
      BY <1>0, <1>1, <3>1, EmptySeq DEF TableFits
    <3>5. ToCome' = ToCome
      BY <1>1a, <3>1, <3>3 DEF ToCome
    <3> QED
      BY <3>1, <3>4, <3>5 DEF Calm, Refilling, NoRefill
  <2>2. CASE AppendRow
    <3>1. /\ refill.stage = "append" /\ refill.rest # <<>>
          /\ mBucketDataList' = Append(mBucketDataList, Head(refill.rest))
          /\ refill' = [stage |-> "append", rest |-> Tail(refill.rest)]
          /\ posted' = posted
      BY <1>1, <2>2 DEF AppendRow
    <3>2. Head(refill.rest) \in RankRow /\ Tail(refill.rest) \in Seq(RankRow)
      BY <1>1, <3>1, TailFacts
    <3>3. mBucketDataList' \o refill'.rest = mBucketDataList \o refill.rest
      BY <1>1, <3>1, MoveHeadFacts
    <3>4. TableFits'
      BY <1>0, <1>1, <3>1, <3>2, AppendFacts DEF TableFits
    <3>5. ToCome' = ToCome
      BY <1>1a, <3>1, <3>3 DEF ToCome
    <3> QED
      BY <3>1, <3>4, <3>5 DEF Calm, Refilling, NoRefill
  <2>3. CASE PostReload
    <3>1. /\ refill.stage = "append" /\ refill.rest = <<>>
          /\ mBucketDataList' = mBucketDataList
          /\ refill' = NoRefill
          /\ posted' = posted + 1
      BY <2>3 DEF PostReload
    <3>2. mBucketDataList \o refill.rest = mBucketDataList
      BY <1>1, <3>1, ConcatEmptySeq
    <3>4. TableFits'
      BY <1>0, <1>1, <3>1, EmptySeq DEF TableFits, NoRefill
    <3>5. ToCome' = ToCome
      BY <1>1a, <3>1, <3>2 DEF ToCome, NoRefill
    <3> QED
      BY <1>1, <3>1, <3>4, <3>5 DEF Calm
  <2> QED
    BY <2>1, <2>2, <2>3 DEF Refill
<1>3. ScreenFits' /\ VoteFits'
  BY <1>0, <1>1a DEF ScreenFits, VoteFits
<1>4. top = "RankListView"
  BY <1>1 DEF NothingElsewhere, EmptyTable, NoRefill
<1>5. NothingElsewhere'
  BY <1>0, <1>4 DEF NothingElsewhere
<1>6. CalmTable'
  BY <1>2 DEF CalmTable
<1> QED
  BY <1>0, <1>2, <1>3, <1>4, <1>5, <1>6, SameLineFacts DEF Shown

LEMMA RefillListKeeps ==
    ASSUME IInv, RefillList
    PROVE  IInv'
<1>0. /\ process = "running"
      /\ UNCHANGED <<httpVars, serverVars, process, top, cells, drawing, asking>>
  BY DEF RefillList
<1>1. CASE Refill
  BY <1>0, <1>1, RefillKeeps
<1>2. CASE FinishCovered
  <2> USE DEF IInv, FinishCovered
  <2>1. TableFits' /\ ScreenFits' /\ VoteFits'
    BY <1>0, <1>2 DEF TableFits, ScreenFits, VoteFits
  <2>2. NothingElsewhere'
    BY <1>0, <1>2, SameLineFacts DEF NothingElsewhere, EmptyTable, Voted
  <2>3. CalmTable'
    BY <1>0, <1>2, SameLineFacts DEF CalmTable, Shown, Calm, Refilling, Voted
  <2>4. ToCome' = ToCome /\ (Shown' <=> Shown)
    BY <1>0, <1>2 DEF ToCome, Voted, Shown
  <2>5. ListsAgree'
    BY <1>0, <2>4, SameLineFacts DEF ListsAgree
  <2> QED
    BY <1>0, <2>1, <2>2, <2>3, <2>5, SameLineFacts
<1> QED
  BY <1>1, <1>2 DEF RefillList

\* The list is given up with the vote that changed opinions taken.
LEMMA ReceiveVotedKeeps ==
    ASSUME IInv, ReceiveVoted
    PROVE  IInv'
<1> USE DEF IInv
<1>0. /\ process = "running" /\ ~Refilling
      /\ delivered # <<>> /\ Taken
      /\ Reply.receiver = "front"
      /\ asking' = "emptying"
      /\ UNCHANGED <<inFlight, overtaken, tableVars, serverVars, process, top, cells, drawing>>
  BY DEF ReceiveVoted, QueueFree, AtRest, Receives
<1>1. /\ Reply \in Tasks
      /\ Line \in Seq(Task) /\ Line # <<>> /\ Head(Line) = Reply
      /\ TasksFit'
      /\ Line' = Tail(Line)
  BY <1>0, TakenFacts, LineTaken, LineIsTasks
<1>2. top = "RankListView"
  BY <1>0, <1>1 DEF NothingElsewhere
<1>3. TableFits' /\ VoteFits' /\ Voted' /\ ToCome' = <<>>
  BY <1>0 DEF TableFits, VoteFits, Voted, ToCome, Refilling, tableVars
<1>4. ServerFits' /\ ScreenFits' /\ NothingElsewhere'
  BY <1>0, <1>2 DEF ServerFits, ScreenFits, NothingElsewhere, serverVars, tableVars
<1>5. CalmTable'
  BY <1>3 DEF CalmTable
<1>6. InOrder'
  BY <1>0, <1>1, TailKeepsOrder DEF InOrder
<1>7. ListsAgree'
  <2>1. ASSUME Shown', ~overtaken'
        PROVE  RepliesAgree(Line', opinion')
    BY <1>0, <1>1, <2>1, TailKeepsOrder DEF ListsAgree, Shown, serverVars
  <2> QED
    BY <1>3, <2>1 DEF ListsAgree, ListAgrees, Agrees, ToSet
<1> QED
  BY <1>1, <1>3, <1>4, <1>5, <1>6, <1>7

\* The list given up becomes empty.
LEMMA EmptyListKeeps ==
    ASSUME IInv, EmptyList
    PROVE  IInv'
<1> USE DEF IInv
<1>0. /\ process = "running"
      /\ asking = "emptying" /\ asking' = "emptied"
      /\ mBucketDataList' = <<>>
      /\ UNCHANGED <<refill, posted, rows, coveredRefill>>
      /\ UNCHANGED <<httpVars, serverVars, process, top, cells, drawing>>
  BY DEF EmptyList
<1>1. TableFits' /\ ScreenFits' /\ VoteFits'
  BY <1>0, EmptySeq DEF TableFits, ScreenFits, VoteFits
<1>2. Voted /\ Voted' /\ ToCome' = ToCome
  BY <1>0 DEF Voted, ToCome
<1>3. top = "RankListView"
  BY <1>2 DEF NothingElsewhere
<1>4. NothingElsewhere' /\ CalmTable'
  BY <1>0, <1>2, <1>3 DEF NothingElsewhere, CalmTable
<1> QED
  BY <1>0, <1>1, <1>2, <1>3, <1>4, SameLineFacts DEF Shown

\* The ranking is asked for again, for the screen in front or one covered since.
LEMMA AskAgainKeeps ==
    ASSUME IInv, AskAgain
    PROVE  IInv'
<1> USE DEF IInv
<1> DEFINE receiver == IF asking = "hidden" THEN "hidden" ELSE "front"
           request == LoadBucketRank(receiver)
<1>0. /\ process = "running"
      /\ asking \in {"emptied", "hidden"} /\ asking' = "no"
      /\ Send(request)
      /\ UNCHANGED <<delivered, overtaken, tableVars, serverVars, process, top, cells, drawing>>
  BY DEF AskAgain
<1>1. /\ request \in OnTheWay /\ request \in Task
      /\ request.answer = Unserved /\ ~HiddenVote(request)
      /\ request.id = "RANK_LIST"
      /\ request.receiver = receiver
  BY RequestFacts DEF Task, LoadBucketRank, Request, HiddenVote
<1> HIDE DEF request
<1>2. /\ inFlight' \in Seq(OnTheWay)
      /\ Line' = Append(Line, request)
      /\ Tasks' = Tasks \cup {request}
      /\ Line \in Seq(Task)
  BY <1>0, <1>1, SendFacts, LineIsTasks
<1>3. TasksFit' /\ ServerFits'
  BY <1>0, <1>2 DEF TasksFit, ServerFits, serverVars
<1>4. InOrder'
  BY <1>0, <1>1, <1>2, AppendKeepsOrder DEF InOrder
<1>5. TableFits' /\ ScreenFits' /\ VoteFits'
  BY <1>0 DEF TableFits, ScreenFits, VoteFits, tableVars
<1>6. ToCome' = ToCome /\ (Shown' <=> Shown)
  <2>1. CASE asking = "emptied"
    BY <1>0, <2>1 DEF VoteFits, Voted, ToCome, NoRefill, Shown, tableVars
  <2>2. CASE asking = "hidden"
    BY <1>0, <2>2, SameScreenFacts
  <2> QED
    BY <1>0, <2>1, <2>2
<1>7. ListsAgree'
  BY <1>0, <1>1, <1>2, <1>6, AppendKeepsOrder DEF ListsAgree, serverVars
<1>8. CalmTable' /\ NothingElsewhere'
  <2>1. CASE asking = "emptied"
    <3>1. Awaited("RANK_LIST")'
      BY <1>1, <1>2, <2>1 DEF Awaited
    <3>2. top = "RankListView"
      BY <2>1 DEF NothingElsewhere, Voted
    <3> QED
      BY <1>0, <3>1, <3>2 DEF CalmTable, NothingElsewhere
  <2>2. CASE asking = "hidden"
    <3>1. /\ Awaited("RANK_LIST") => Awaited("RANK_LIST")'
          /\ top = "RankListView" \/ \A t \in Tasks' : t.receiver = "hidden"
      BY <1>1, <1>2, <2>2 DEF Awaited, NothingElsewhere
    <3> QED
      BY <1>0, <2>2, <3>1, SameScreenFacts
  <2> QED
    BY <1>0, <2>1, <2>2
<1> QED
  BY <1>3, <1>4, <1>5, <1>7, <1>8

\* The screen is closed with the reply taken.
LEMMA ReceiveRefusalKeeps ==
    ASSUME IInv, ReceiveRefusal
    PROVE  IInv'
<1>1. process = "running" /\ delivered # <<>> /\ Leave(Tail(delivered))
  BY DEF ReceiveRefusal, QueueFree, Receives
<1>2. Tail(delivered) \in Seq(Ended) /\ Tail(delivered) \o inFlight = Tail(Line)
      /\ Line \in Seq(Task) /\ Line # <<>>
  BY <1>1, TakenFacts, LineIsTasks DEF IInv
<1>3. ~overtaken => ServedInTurn(Tail(delivered) \o inFlight)
  BY <1>2, TailKeepsOrder DEF IInv, InOrder
<1> QED
  BY <1>1, <1>2, <1>3, LeaveKeeps

LEMMA BackKeeps ==
    ASSUME IInv, onBackPressed
    PROVE  IInv'
<1>1. process = "running" /\ Leave(delivered) /\ delivered \in Seq(Ended)
  BY DEF onBackPressed, MainFree, Shown, IInv, TasksFit
<1>2. ~overtaken => ServedInTurn(delivered \o inFlight)
  BY DEF IInv, InOrder, Line
<1> QED
  BY <1>1, <1>2, LeaveKeeps

\* A reply to a covered screen is for no list in front, nor is what it asks for.
LEMMA ReceiveHiddenKeeps ==
    ASSUME IInv, ReceiveHidden
    PROVE  IInv'
<1> USE DEF IInv
<1> DEFINE request == LoadBucketRank("hidden")
<1>0. /\ delivered # <<>> /\ Taken
      /\ Reply.receiver = "hidden"
      /\ Send(request) \/ UNCHANGED inFlight
      /\ UNCHANGED <<overtaken, tableVars, serverVars, process, top, cells, drawing, asking>>
  BY DEF ReceiveHidden, Receives
<1>1. /\ request \in OnTheWay /\ request \in Task
      /\ request.answer = Unserved /\ ~HiddenVote(request) /\ request.receiver = "hidden"
  BY RequestFacts DEF Task, LoadBucketRank, Request, HiddenVote
<1> HIDE DEF request
<1>2. /\ Line \in Seq(Task) /\ Line # <<>> /\ Head(Line) = Reply /\ ~Changes(Reply)
      /\ Tail(Line) \in Seq(Task)
  BY <1>0, TakenFacts, LineIsTasks, TailFacts DEF Changes
<1>3. /\ TasksFit'
      /\ Line' = Tail(Line) \/ Line' = Append(Tail(Line), request)
      /\ Tasks' \cup {Reply} = Tasks \/ Tasks' \cup {Reply} = Tasks \cup {request}
  <2>1. CASE Send(request)
    BY <1>0, <1>1, <2>1, LineTakenSend
  <2>2. CASE UNCHANGED inFlight
    BY <1>0, <2>2, LineTaken
  <2> QED
    BY <1>0, <2>1, <2>2
<1>4. Awaited("RANK_LIST") => Awaited("RANK_LIST")'
  BY <1>0, <1>3 DEF Awaited
<1>5. NothingElsewhere'
  <2>1. top = "RankListView" \/ \A t \in Tasks' : t.receiver = "hidden"
    BY <1>1, <1>3 DEF NothingElsewhere
  <2> QED
    BY <1>0, <2>1, SameScreenFacts
<1>6. ServerFits'
  BY <1>0 DEF ServerFits, serverVars
<1>7. InOrder'
  BY <1>0, <1>1, <1>2, <1>3, TailKeepsOrder, AppendKeepsOrder DEF InOrder
<1>8. ListsAgree'
  <2> SUFFICES ASSUME Shown', ~overtaken'
               PROVE  /\ RepliesAgree(Line', opinion')
                      /\ ListAgrees(ToCome', Line', opinion')
                      /\ NoHiddenVote(Line') \/ ToCome' = <<>>
    BY DEF ListsAgree
  <2>1. /\ RepliesAgree(Tail(Line), opinion)
        /\ ListAgrees(ToCome, Tail(Line), opinion)
        /\ NoHiddenVote(Tail(Line)) \/ ToCome = <<>>
    BY <1>0, <1>2, TailKeepsOrder, SameScreenFacts DEF ListsAgree
  <2>2. opinion' = opinion /\ ToCome' = ToCome
    BY <1>0, SameScreenFacts DEF serverVars
  <2> QED
    BY <1>1, <1>2, <1>3, <2>1, <2>2, AppendKeepsOrder
<1> QED
  BY <1>0, <1>3, <1>4, <1>5, <1>6, <1>7, <1>8, SameScreenFacts

-----------------------------------------------------------------------------

\* An answer of the server agrees with the opinions it is made from.
LEMMA RankingFacts ==
    ASSUME ServerFits, NEW list \in Rankings
    PROVE  list \in Seq(RankRow) /\ Agrees(list, opinion)
<1> DEFINE lines == {RowOf(m) : m \in ranked}
<1>1. lines \subseteq RankRow
  BY DEF ServerFits, RowOf, RankRow
<1>2. IsFiniteSet(lines)
  <2>1. IsFiniteSet(ranked)
    BY MemoAssumption, FS_Subset DEF ServerFits
  <2>2. [m \in ranked |-> RowOf(m)] \in Surjection(ranked, lines)
    BY DEF Surjection
  <2> QED
    BY <2>1, <2>2, FS_Surjection
<1>3. \A x \in lines : x.mComment = opinion[x.mIdx]
  BY DEF RowOf
<1> HIDE DEF lines
<1>4. list \in Seq(lines) /\ ToSet(list) = lines
  BY <1>2, ArrangementFacts DEF Rankings, lines
<1>5. list \in Seq(RankRow)
  BY <1>1, <1>4, SeqMonotonic
<1> QED
  BY <1>3, <1>4, <1>5 DEF Agrees

LEMMA ServeRankingKeeps ==
    ASSUME IInv, NEW i \in DOMAIN inFlight, ServeRanking(i)
    PROVE  IInv'
<1> USE DEF IInv
<1>1. PICK answer \in {Accepted(list) : list \in Rankings} \cup {Refused, Malformed} :
        Serve(i, answer)
  BY DEF ServeRanking
<1>0. /\ inFlight[i].id = "RANK_LIST"
      /\ UNCHANGED serverVars
      /\ UNCHANGED <<tableVars, process, top, cells, drawing, asking>>
  BY DEF ServeRanking, Outside
<1>2. /\ answer \in [status : {"accepted", "refused", "malformed"}, body : Seq(RankRow)]
      /\ Agrees(answer.body, opinion)
  <2>1. CASE answer = Refused
    <3>1. Refused \in [status : {"accepted", "refused", "malformed"}, body : Seq(RankRow)]
      BY AnswersFit
    <3>2. Refused.body = <<>>
      BY DEF Refused
    <3> QED
      BY <2>1, <3>1, <3>2 DEF Agrees, ToSet
  <2>1a. CASE answer = Malformed
    <3>1. Malformed \in [status : {"accepted", "refused", "malformed"}, body : Seq(RankRow)]
      BY AnswersFit
    <3>2. Malformed.body = <<>>
      BY DEF Malformed
    <3> QED
      BY <2>1a, <3>1, <3>2 DEF Agrees, ToSet
  <2>2. ASSUME NEW list \in Rankings, answer = Accepted(list)
        PROVE  /\ answer \in [status : {"accepted", "refused", "malformed"}, body : Seq(RankRow)]
               /\ Agrees(answer.body, opinion)
    BY <2>2, RankingFacts DEF Accepted
  <2> QED
    BY <1>1, <2>1, <2>1a, <2>2
<1> DEFINE k == Len(delivered) + i
           x == Answered(inFlight[i], answer)
<1>3. /\ x \in Task
      /\ inFlight[i] \in OnTheWay
      /\ TasksFit'
      /\ k \in DOMAIN Line /\ Line[k] = inFlight[i]
      /\ Line' = [Line EXCEPT ![k] = x]
      /\ \A id : Awaited(id)' <=> Awaited(id)
      /\ (\A t \in Tasks : t.receiver = "hidden") => \A t \in Tasks' : t.receiver = "hidden"
      /\ ~overtaken' => ~overtaken /\ \A j \in 1..(k - 1) : Line[j].answer # Unserved
  BY <1>1, <1>2, ServeFacts
<1>4. /\ x.receiver = Line[k].receiver /\ x.id = Line[k].id
      /\ x.answer # Unserved /\ x.answer = answer
      /\ Line \in Seq(Task)
  <2>1. answer \in [status : {"accepted", "refused", "malformed", "no data"}, body : Seq(RankRow)]
    BY <1>2
  <2>2. /\ x.receiver = inFlight[i].receiver /\ x.id = inFlight[i].id
        /\ x.answer = answer /\ answer # Unserved
    BY <1>3, <2>1, AnsweredFacts
  <2> HIDE DEF x, k
  <2> QED
    BY <1>3, <2>2, LineIsTasks
<1> HIDE DEF k, x
<1>5. ServerFits'
  BY <1>0 DEF ServerFits, serverVars
<1>6. NothingElsewhere'
  BY <1>0, <1>3, SameScreenFacts DEF NothingElsewhere
<1>7. InOrder'
  BY <1>3, <1>4, ReplaceKeepsOrder DEF InOrder
<1>8. ListsAgree'
  BY <1>0, <1>2, <1>3, <1>4, ReplaceKeepsOrder, SameScreenFacts DEF ListsAgree, serverVars
<1> QED
  BY <1>0, <1>3, <1>5, <1>6, <1>7, <1>8, SameScreenFacts

LEMMA ServeVoteKeeps ==
    ASSUME IInv, NEW i \in DOMAIN inFlight, ServeVote(i)
    PROVE  IInv'
<1> USE DEF IInv
<1>1. PICK answer \in {Accepted(<<>>), Refused, Malformed} : Serve(i, answer)
  BY DEF ServeVote
<1>0. /\ inFlight[i].id = "RANK_UPDATE_COMMENT"
      /\ opinion' = opinion \/ opinion' = [opinion EXCEPT ![inFlight[i].data[1]] = inFlight[i].data[2]]
      /\ UNCHANGED ranked
      /\ UNCHANGED <<tableVars, process, top, cells, drawing, asking>>
  BY DEF ServeVote, Outside
<1>2. answer \in [status : {"accepted", "refused", "malformed"}, body : Seq(RankRow)]
  <2>1. <<>> \in Seq(RankRow)
    BY EmptySeq
  <2> QED
    BY <1>1, <2>1, AnswersFit
<1> DEFINE k == Len(delivered) + i
           x == Answered(inFlight[i], answer)
<1>3. /\ x \in Task
      /\ inFlight[i] \in OnTheWay /\ inFlight[i].answer = Unserved
      /\ TasksFit'
      /\ k \in DOMAIN Line /\ Line[k] = inFlight[i]
      /\ Line' = [Line EXCEPT ![k] = x]
      /\ \A id : Awaited(id)' <=> Awaited(id)
      /\ (\A t \in Tasks : t.receiver = "hidden") => \A t \in Tasks' : t.receiver = "hidden"
      /\ ~overtaken' => ~overtaken /\ \A j \in 1..(k - 1) : Line[j].answer # Unserved
  BY <1>1, <1>2, ServeFacts
<1>4. /\ x.receiver = Line[k].receiver /\ x.id = Line[k].id
      /\ x.answer # Unserved
      /\ Line \in Seq(Task)
  <2>1. answer \in [status : {"accepted", "refused", "malformed", "no data"}, body : Seq(RankRow)]
    BY <1>2
  <2>2. /\ x.receiver = inFlight[i].receiver /\ x.id = inFlight[i].id
        /\ x.answer = answer /\ answer # Unserved
    BY <1>3, <2>1, AnsweredFacts
  <2> HIDE DEF x, k
  <2> QED
    BY <1>3, <2>2, LineIsTasks
<1> HIDE DEF k, x
<1>5. ServerFits'
  <2>1. inFlight[i].data \in Memo \X Opinion
    BY <1>0, <1>3, TaskFacts
  <2>2. inFlight[i].data[1] \in Memo /\ inFlight[i].data[2] \in Opinion
    BY <2>1
  <2> QED
    BY <1>0, <2>2 DEF ServerFits
<1>6. NothingElsewhere'
  BY <1>0, <1>3, SameScreenFacts DEF NothingElsewhere
<1>7. InOrder'
  BY <1>3, <1>4, ReplaceKeepsOrder DEF InOrder
<1>8. ListsAgree'
  <2> SUFFICES ASSUME Shown', ~overtaken'
               PROVE  /\ RepliesAgree(Line', opinion')
                      /\ ListAgrees(ToCome', Line', opinion')
                      /\ NoHiddenVote(Line') \/ ToCome' = <<>>
    BY DEF ListsAgree
  <2>1. /\ ServedInTurn(Line) /\ HiddenVotesFirst(Line)
        /\ NoHiddenVote(Line) \/ ToCome = <<>>
        /\ ToCome' = ToCome
    BY <1>0, <1>3, SameScreenFacts DEF InOrder, ListsAgree
  <2>2. RepliesAgree(Line', opinion') /\ ListAgrees(ToCome', Line', opinion')
    BY <1>0, <1>3, <1>4, <2>1, VoteKeepsOrder
  <2>3. NoHiddenVote(Line') \/ ToCome' = <<>>
    BY <1>3, <1>4, <2>1, ReplaceKeepsOrder
  <2> QED
    BY <2>2, <2>3
<1> QED
  BY <1>0, <1>3, <1>5, <1>6, <1>7, <1>8, SameScreenFacts

LEMMA CompleteTaskKeeps ==
    ASSUME IInv, NEW i \in DOMAIN inFlight, CompleteTask(i)
    PROVE  IInv'
<1> USE DEF IInv
<1>0. /\ Complete(i)
      /\ UNCHANGED serverVars
      /\ UNCHANGED <<tableVars, process, top, cells, drawing, asking>>
  BY DEF CompleteTask, Outside
<1>1. /\ TasksFit'
      /\ \A id : Awaited(id)' <=> Awaited(id)
      /\ (\A t \in Tasks : t.receiver = "hidden") => \A t \in Tasks' : t.receiver = "hidden"
  BY <1>0, CompleteFacts
<1>2. ServerFits'
  BY <1>0 DEF ServerFits, serverVars
<1>3. NothingElsewhere'
  BY <1>0, <1>1, SameScreenFacts DEF NothingElsewhere
<1>4. CASE ~overtaken'
  <2> DEFINE k == Len(delivered) + 1
  <2>1. ~overtaken
    BY <1>0, <1>4, CompleteFacts
  <2>2. PICK x \in Ended :
          /\ k \in DOMAIN Line
          /\ Line' = [Line EXCEPT ![k] = x]
          /\ x.receiver = Line[k].receiver /\ x.id = Line[k].id
          /\ x.answer = Line[k].answer \/ x.answer = NoData
          /\ \A j \in 1..(k - 1) : Line[j].answer # Unserved
    BY <1>0, <1>4, CompleteFacts
  <2>3. /\ Line \in Seq(Task) /\ x \in Task /\ x.answer # Unserved
    BY LineIsTasks, TaskFacts DEF Task
  <2>4. ListReply(x) => x.answer = Line[k].answer
    <3>1. NoData.status # "accepted"
      BY DEF NoData
    <3> QED
      BY <2>2, <3>1 DEF ListReply
  <2> HIDE DEF k
  <2>5. InOrder'
    BY <2>1, <2>2, <2>3, ReplaceKeepsOrder DEF InOrder
  <2>6. ListsAgree'
    BY <1>0, <2>1, <2>2, <2>3, <2>4, ReplaceKeepsOrder, SameScreenFacts
    DEF ListsAgree, serverVars
  <2> QED
    BY <1>0, <1>1, <1>2, <1>3, <2>5, <2>6, SameScreenFacts
<1>5. CASE overtaken'
  BY <1>0, <1>1, <1>2, <1>3, <1>5, SameScreenFacts DEF InOrder, ListsAgree
<1> QED
  BY <1>4, <1>5

LEMMA ShareElsewhereKeeps ==
    ASSUME IInv, NEW m \in Memo, ShareElsewhere(m)
    PROVE  IInv'
<1> USE DEF IInv
<1>0. /\ ranked' = ranked \cup {m}
      /\ UNCHANGED <<inFlight, delivered, overtaken, opinion>>
      /\ UNCHANGED <<tableVars, process, top, cells, drawing, asking>>
  BY DEF ShareElsewhere, Outside, httpVars
<1>1. TasksFit' /\ ServerFits'
  BY <1>0 DEF TasksFit, ServerFits
<1>2. Line' = Line /\ Tasks' = Tasks
  BY <1>0 DEF Line, Tasks
<1>3. InOrder'
  BY <1>0, <1>2 DEF InOrder
<1>4. ListsAgree' /\ (Awaited("RANK_LIST") => Awaited("RANK_LIST")')
  BY <1>0, <1>2, SameScreenFacts DEF ListsAgree, Awaited
<1>5. NothingElsewhere'
  BY <1>0, <1>2, SameScreenFacts DEF NothingElsewhere
<1> QED
  BY <1>0, <1>1, <1>3, <1>4, <1>5, SameScreenFacts

LEMMA StutterKeeps ==
    ASSUME IInv, UNCHANGED vars
    PROVE  IInv'
<1> USE DEF IInv, vars
<1>1. ToCome' = ToCome /\ (Shown' <=> Shown) /\ TableFits' /\ ScreenFits' /\ VoteFits'
  BY SameScreenFacts
<1>2. CalmTable' /\ TasksFit' /\ ServerFits' /\ InOrder'
  BY SameLineFacts, SameScreenFacts
<1>3. NothingElsewhere'
  BY SameLineFacts, SameScreenFacts DEF NothingElsewhere
<1>4. ListsAgree'
  BY <1>1, SameLineFacts DEF ListsAgree
<1> QED
  BY <1>1, <1>2, <1>3, <1>4

LEMMA StepKeeps ==
    ASSUME IInv, [Next]_vars
    PROVE  IInv'
<1>1. CASE Relaunch
  BY <1>1, RelaunchKeeps
<1>2. CASE Open
  BY <1>2, OpenKeeps
<1>3. CASE onBackPressed
  BY <1>3, BackKeeps
<1>4. CASE Reload
  BY <1>4, ReloadKeeps
<1>5. CASE DrawVote
  BY <1>5, DrawVoteKeeps
<1>6. CASE \E i \in 1..rows : DrawContent(i) \/ \E o \in Opinion : Touch(i, o)
  BY <1>6, DrawContentKeeps, TouchKeeps
<1>7. CASE ReceiveNoData \/ ReceiveMalformed \/ ReceiveMalformedRow
  BY <1>7, CrashKeeps DEF ReceiveNoData, ReceiveMalformed, ReceiveMalformedRow
<1>8. CASE ReceiveRanking
  BY <1>8, ReceiveRankingKeeps
<1>9. CASE RefillList
  BY <1>9, RefillListKeeps
<1>10. CASE ReceiveVoted \/ EmptyList \/ AskAgain
  BY <1>10, ReceiveVotedKeeps, EmptyListKeeps, AskAgainKeeps
<1>11. CASE ReceiveRefusal
  BY <1>11, ReceiveRefusalKeeps
<1>12. CASE ReceiveHidden
  BY <1>12, ReceiveHiddenKeeps
<1>13. CASE \E i \in DOMAIN inFlight : ServeRanking(i) \/ ServeVote(i) \/ CompleteTask(i)
  BY <1>13, ServeRankingKeeps, ServeVoteKeeps, CompleteTaskKeeps
<1>14. CASE \E m \in Memo : ShareElsewhere(m)
  BY <1>14, ShareElsewhereKeeps
<1>15. CASE UNCHANGED vars
  BY <1>15, StutterKeeps
<1> QED
  BY <1>1, <1>2, <1>3, <1>4, <1>5, <1>6, <1>7, <1>8, <1>9, <1>10, <1>11, <1>12, <1>13, <1>14,
     <1>15
  DEF Next

LEMMA AlwaysIInv == Spec => []IInv
BY InitInv, StepKeeps, PTL DEF Spec

-----------------------------------------------------------------------------
(* What follows for every behaviour                                          *)

\* The state stays well typed: whatever the interleaving, no cell and no row
\* being drawn has a number beyond the rows the table view believes in.
THEOREM StateIsTyped == Spec => []TypeOK
<1>1. IInv => TypeOK
  <2> SUFFICES ASSUME IInv PROVE TypeOK
    OBVIOUS
  <2>1. /\ inFlight \in Seq(TaskTypes({"unserved", "accepted", "refused", "malformed"}))
        /\ delivered \in Seq(TaskTypes({"accepted", "refused", "malformed", "no data"}))
    <3>1. /\ OnTheWay \subseteq TaskTypes({"unserved", "accepted", "refused", "malformed"})
          /\ Ended \subseteq TaskTypes({"accepted", "refused", "malformed", "no data"})
      BY DEF OnTheWay, Ended
    <3> QED
      BY <3>1, SeqMonotonic DEF IInv, TasksFit
  <2>2. \A i \in DOMAIN cells : cells[i] \in [content : Memo, mData : Memo]
    BY DEF IInv, ScreenFits
  <2> QED
    BY <2>1, <2>2 DEF IInv, TasksFit, TableFits, ServerFits, ScreenFits, VoteFits, TypeOK
<1> QED
  BY <1>1, AlwaysIInv, PTL

LEMMA OutstandingFacts ==
    ASSUME TasksFit, NEW id
    PROVE  Outstanding(id) <=> Awaited(id)
BY DEF Outstanding, Awaited, Tasks, ToSet

LEMMA SettledFacts == IInv => SettledScreenIsCurrent
<1> SUFFICES ASSUME IInv, Shown, Settled
             PROVE  /\ rows = Len(mBucketDataList)
                    /\ \A i \in DOMAIN cells :
                        /\ cells[i].content = cells[i].mData
                        /\ cells[i].mData = mBucketDataList[i].mIdx
                    /\ \/ overtaken
                       \/ \A row \in Range(mBucketDataList) : row.mComment = opinion[row.mIdx]
  BY DEF SettledScreenIsCurrent
<1>1. ~Awaited("RANK_LIST") /\ ~Awaited("RANK_UPDATE_COMMENT") /\ Calm /\ ~Voted
  BY OutstandingFacts DEF IInv, Settled, Calm
<1>2. /\ rows = Len(mBucketDataList)
      /\ \A i \in DOMAIN cells :
          /\ cells[i].content = cells[i].mData
          /\ cells[i].mData = mBucketDataList[i].mIdx
  BY <1>1 DEF IInv, CalmTable
<1>3. ToCome = mBucketDataList
  BY <1>1 DEF Calm, Refilling, NoRefill, ToCome
<1>4. \A j \in DOMAIN Line : ~Changes(Line[j])
  BY <1>1, LineIsTasks, RowsFacts DEF IInv, Awaited, Changes
<1>5. overtaken \/ Agrees(mBucketDataList, opinion)
  BY <1>3, <1>4 DEF IInv, ListsAgree, ListAgrees
<1>6. Range(mBucketDataList) = ToSet(mBucketDataList)
  BY DEF Range, ToSet
<1> QED
  BY <1>2, <1>5, <1>6 DEF Agrees

\* When nothing is going on, the cells show and vote on the memos of their
\* rows, and the rows say what the server last accepted of the user, unless
\* requests overtook each other.
THEOREM SettledRankingIsCurrent == Spec => []SettledScreenIsCurrent
BY SettledFacts, AlwaysIInv, PTL

\* A crash needs a reply without data or without what is cast by force, or a list
\* that is emptied after a vote, asked for, replaced or about to be reloaded.
THEOREM CrashesOnlyWhileReplacing == Spec => CrashesWhileReplacing
<1>1. ASSUME IInv, [Next]_vars, process' = "crashed", process' # process
      PROVE  \/ ReplyTraps \/ CastTraps \/ coveredRefill
             \/ Voted \/ Outstanding("RANK_LIST") \/ Refilling \/ posted > 0
  <2>1. process = "running" /\ ~UNCHANGED process
    BY <1>1 DEF IInv, ScreenFits
  <2>2. ASSUME NEW i \in 1..rows, Shown, RowMayBeLost(i)
        PROVE  Voted \/ Outstanding("RANK_LIST") \/ Refilling \/ posted > 0
    <3>1. i \in Nat
      OBVIOUS
    <3> QED
      BY <1>1, <2>2, <3>1, OutstandingFacts
      DEF RowMayBeLost, ReadMayTrap, Voted, IInv, CalmTable, Calm, TableFits
  <2>3. CASE \E i \in 1..rows : DrawContent(i)
    BY <2>1, <2>2, <2>3 DEF DrawContent, MainFree
  <2>4. CASE \E i \in 1..rows : \E o \in Opinion : Touch(i, o)
    BY <2>1, <2>4 DEF Touch, Voted
  <2>5. CASE DrawVote
    <3>1. Shown /\ drawing # NoCell /\ RowMayBeLost(drawing.row)
      BY <2>1, <2>5 DEF DrawVote
    <3>2. drawing.row \in 1..rows
      BY <1>1, <3>1 DEF IInv, ScreenFits
    <3> QED
      BY <2>2, <3>1, <3>2
  <2>6. CASE ReceiveNoData \/ ReceiveMalformed
    BY <2>6 DEF ReceiveNoData, ReceiveMalformed
  <2>6a. CASE ReceiveMalformedRow
    BY <2>6a DEF ReceiveMalformedRow, RowMayTrap, Refilling, NoRefill
  <2>7. CASE Relaunch \/ Open \/ onBackPressed \/ Reload
    BY <1>1, <2>1, <2>7 DEF Relaunch, Open, onBackPressed, Leave, Reload
  <2>8. CASE \/ ReceiveRanking \/ RefillList \/ ReceiveVoted \/ EmptyList \/ AskAgain
             \/ ReceiveRefusal \/ ReceiveHidden
    BY <2>1, <2>8
    DEF ReceiveRanking, RefillList, ReceiveVoted, EmptyList, AskAgain, ReceiveRefusal, Leave,
        ReceiveHidden
  <2>9. CASE \E i \in DOMAIN inFlight : ServeRanking(i) \/ ServeVote(i) \/ CompleteTask(i)
    BY <2>1, <2>9 DEF ServeRanking, ServeVote, CompleteTask, Outside
  <2>10. CASE (\E m \in Memo : ShareElsewhere(m)) \/ UNCHANGED vars
    BY <2>1, <2>10 DEF ShareElsewhere, Outside, vars
  <2> QED
    BY <1>1, <2>3, <2>4, <2>5, <2>6, <2>6a, <2>7, <2>8, <2>9, <2>10 DEF Next
<1>2. IInv /\ [Next]_vars =>
        [process' = "crashed" =>
            \/ ReplyTraps \/ CastTraps \/ coveredRefill
            \/ Voted \/ Outstanding("RANK_LIST") \/ Refilling \/ posted > 0]_process
  BY <1>1
<1> QED
  BY <1>2, AlwaysIInv, PTL DEF Spec, CrashesWhileReplacing

\* A vote is sent from a settled screen only on a memo without one, unless
\* requests overtook each other: the guard reads a list that is up to date.
THEOREM SettledScreenTakesNoSecondVote == Spec => RevotesOnlyInFlux
<1>1. ASSUME IInv, [Next]_vars, NEW m \in Memo, NewVote(m), opinion[m] # 0, Settled
      PROVE  overtaken
  <2>0. /\ Len(inFlight) \in Nat /\ inFlight \in Seq(OnTheWay)
        /\ \A request : Append(inFlight, request)[Len(Append(inFlight, request))] = request
    <3>1. inFlight \in Seq(OnTheWay)
      BY <1>1 DEF IInv, TasksFit
    <3> QED
      BY <3>1, LenProperties
  <2>1. PICK i \in 1..rows, o \in Opinion : Touch(i, o) /\ ~Crash
    <3>1. /\ ~UNCHANGED inFlight /\ inFlight' # <<>>
      BY <1>1, <2>0, EmptySeq DEF NewVote
    <3>2. ~Crash
      BY <3>1 DEF Crash
    <3>3. ~(Relaunch \/ Open \/ onBackPressed \/ Reload \/ DrawVote)
      <4>1. ~(Relaunch \/ Reload \/ DrawVote)
        BY <3>1, <3>2 DEF Relaunch, Reload, DrawVote, httpVars
      <4>2. ~Open
        BY <1>1, <2>0, <3>1 DEF Open, NewVote, Last, Send, LoadBucketRank, Request
      <4>3. ~onBackPressed
        BY <1>1, <2>0, HiddenFacts DEF onBackPressed, Leave, NewVote
      <4> QED
        BY <4>1, <4>2, <4>3
    <3>4. ~\E i \in 1..rows : DrawContent(i)
      BY <3>1, <3>2 DEF DrawContent, httpVars
    <3>5. ~(\/ ReceiveNoData \/ ReceiveMalformed \/ ReceiveMalformedRow
            \/ ReceiveRanking \/ RefillList \/ ReceiveVoted \/ EmptyList \/ AskAgain)
      <4>1. ~(\/ ReceiveNoData \/ ReceiveMalformed \/ ReceiveMalformedRow
              \/ ReceiveRanking \/ RefillList \/ ReceiveVoted \/ EmptyList)
        BY <3>1, <3>2
        DEF ReceiveNoData, ReceiveMalformed, ReceiveMalformedRow, ReceiveRanking, RefillList,
            ReceiveVoted, EmptyList, httpVars
      <4>2. ~AskAgain
        BY <1>1, <2>0, <3>1 DEF AskAgain, NewVote, Last, Send, LoadBucketRank, Request
      <4> QED
        BY <4>1, <4>2
    <3>6. ~(ReceiveRefusal \/ ReceiveHidden)
      <4>1. ~ReceiveRefusal
        BY <1>1, <2>0, HiddenFacts DEF ReceiveRefusal, Leave, NewVote
      <4>2. ~ReceiveHidden
        BY <1>1, <2>0, <3>1 DEF ReceiveHidden, NewVote, Last, Send, LoadBucketRank, Request
      <4> QED
        BY <4>1, <4>2
    <3>7. ASSUME NEW i \in DOMAIN inFlight
          PROVE  ~(ServeRanking(i) \/ ServeVote(i) \/ CompleteTask(i))
      <4>1. ASSUME NEW answer, Serve(i, answer)
            PROVE  FALSE
        <5>1. Len(inFlight') = Len(inFlight)
          BY <2>0, <4>1, ExceptSeq DEF Serve
        <5> QED
          BY <1>1, <2>0, <5>1 DEF NewVote
      <4>2. ~CompleteTask(i)
        <5>1. Len(RemoveAt(inFlight, i)) = Len(inFlight) - 1
          BY <2>0, RemoveAtRows
        <5> QED
          BY <1>1, <2>0, <5>1 DEF CompleteTask, Complete, NewVote
      <4> QED
        BY <4>1, <4>2 DEF ServeRanking, ServeVote
    <3>8. ~(\E n \in Memo : ShareElsewhere(n)) /\ ~UNCHANGED vars
      BY <3>1 DEF ShareElsewhere, vars, httpVars
    <3> QED
      BY <1>1, <3>2, <3>3, <3>4, <3>5, <3>6, <3>7, <3>8 DEF Next
  <2>2. /\ Shown /\ i \in DOMAIN cells
        /\ ~getCommentCount(cells[i].mData)
        /\ Send(SendBucketRank(cells[i].mData, o))
    BY <2>1 DEF Touch, MainFree
  <2>3. cells[i].mData = m
    BY <1>1, <2>0, <2>2 DEF NewVote, Last, Send, SendBucketRank, Request
  <2>4. /\ rows = Len(mBucketDataList)
        /\ cells[i].mData = mBucketDataList[i].mIdx
        /\ overtaken \/ \A row \in Range(mBucketDataList) : row.mComment = opinion[row.mIdx]
    BY <1>1, <2>2, SettledFacts DEF SettledScreenIsCurrent
  <2>5. i \in DOMAIN mBucketDataList
    BY <1>1, <2>4, RowsFacts DEF IInv, TableFits
  <2>6. mBucketDataList[i].mComment = 0
    BY <2>2, <2>4, <2>5 DEF getCommentCount
  <2> QED
    BY <1>1, <2>3, <2>4, <2>5, <2>6 DEF Range
<1>2. IInv /\ [Next]_vars =>
        [\A m \in Memo : NewVote(m) /\ opinion[m] # 0 => ~Settled \/ overtaken]_inFlight
  BY <1>1
<1> QED
  BY <1>2, AlwaysIInv, PTL DEF Spec, RevotesOnlyInFlux
=============================================================================
