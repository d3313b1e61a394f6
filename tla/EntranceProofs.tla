----------------------------- MODULE EntranceProofs -----------------------------
(***************************************************************************)
(* Proofs about the main screen and the gate for a nickname.  What is on   *)
(* its way to a main screen, queued for it or shown by it is counted: each *)
(* asks for the version once, and shows no more pop-ups than it was asked  *)
(* questions.                                                              *)
(***************************************************************************)
EXTENDS Entrance, RowLemmas, WellFoundedInduction

-----------------------------------------------------------------------------
(* Versions                                                                  *)

LEMMA MinFacts ==
    ASSUME NEW S \in SUBSET Nat, S # {}
    PROVE  Min(S) \in S /\ \A x \in S : Min(S) <= x
<1>1. PICK x \in S : \A y \in S : ~(<<y, x>> \in OpToRel(<, Nat))
  BY NatLessThanWellFounded, WFMin
<1>2. ASSUME NEW y \in S
      PROVE  x <= y
  <2>1. <<y, x>> \in Nat \X Nat /\ <<y, x>>[1] = y /\ <<y, x>>[2] = x
    OBVIOUS
  <2>2. ~(y < x)
    BY <1>1, <2>1 DEF OpToRel
  <2> QED
    BY <2>2
<1> QED
  BY <1>2 DEF Min

\* An announced version is newer, or has another number of components.
Announced ==
    {v \in Offered \ {Garbled} : Newer(v, Installed) \/ Len(v) # Len(Installed)}

LEMMA VersionFacts ==
    ASSUME NEW version \in Offered \ {Garbled}, compareVersion(Installed, version) > 0
    PROVE  version \in Announced
<1> SUFFICES ASSUME Len(version) = Len(Installed)
             PROVE  Newer(version, Installed)
  BY DEF Announced
<1> DEFINE n == Len(Installed)
           differ == {i \in DOMAIN Installed : Installed[i] # version[i]}
<1>1. /\ n \in Nat
      /\ DOMAIN Installed = 1..n /\ DOMAIN version = 1..n
      /\ \A i \in 1..n : Installed[i] \in Nat /\ version[i] \in Nat
  BY VersionAssumption, RowsFacts
<1>2. differ # {} /\ version[Min(differ)] > Installed[Min(differ)]
  BY DEF compareVersion
<1>3. differ \in SUBSET Nat
  BY <1>1
<1>4. Min(differ) \in differ /\ \A i \in differ : Min(differ) <= i
  BY <1>2, <1>3, MinFacts
<1> DEFINE m == Min(differ)
<1>5. m \in 1..n
  BY <1>1, <1>4
<1>6. ASSUME NEW j \in 1..(m - 1)
      PROVE  j \in 1..n /\ j \notin differ
  <2> HIDE DEF m, differ, n
  <2>1. j \in 1..n /\ ~(m <= j)
    BY <1>1, <1>5
  <2> QED
    BY <1>4, <2>1 DEF m
<1>7. \A j \in 1..(m - 1) : j \in 1..n /\ Installed[j] = version[j]
  BY <1>1, <1>6
<1> HIDE DEF m
<1>8. version[m] > Installed[m]
  BY <1>2 DEF m
<1> QED
  BY <1>1, <1>5, <1>7, <1>8 DEF Newer, Component

-----------------------------------------------------------------------------
(* The inductive invariant                                                   *)

\* Requests, and what lies over the screens, for any main screen.
Task(statuses) ==
    [ id       : {"UPDATE_VERSION", "UPDATE_USER", "REQUEST_AI"},
      data     : {<<>>},
      receiver : 1..MaxMains,
      answer   : [status : statuses, body : {<<>>} \cup Offered] ]
Waiting ==
    {t \in Task({"unserved", "accepted", "refused"}) :
        t.answer.status = "unserved" => t.answer = Unserved}
Done == Task({"accepted", "refused", "no data"})
Layer ==
    [kind : {"popup"}, main : 1..MaxMains, live : BOOLEAN, version : {<<>>}] \cup
    [kind : {"alert"}, main : 1..MaxMains, live : {TRUE}, version : Announced]

TasksFit ==
    /\ inFlight \in Seq(Waiting)
    /\ delivered \in Seq(Done)
    /\ overtaken \in BOOLEAN

StateFits ==
    /\ nickname \in Name \cup {NoName}
    /\ running \in BOOLEAN /\ appeared \in BOOLEAN
    /\ top \in {"main", "gate", "other"}
    /\ mains \in 0..MaxMains /\ (running <=> mains > 0)
    /\ posted \in Seq(1..MaxMains)
    /\ questions \in [1..MaxMains -> 0..MaxQuestions]
    /\ history \in [asked : BOOLEAN, beaten : BOOLEAN, blanked : BOOLEAN]
    /\ layers \in Seq(Layer)

\* Everything belongs to a main screen of this run.
Pending == ToSet(inFlight) \cup ToSet(delivered)
OfThisRun ==
    /\ \A t \in Pending : t.receiver \in 1..mains
    /\ \A k \in ToSet(posted) : k \in 1..mains
    /\ \A l \in ToSet(layers) : l.main \in 1..mains

\* The main screen is only left once it has appeared, and without a nickname only
\* for the gate, unless something came between.
CoveredAppeared == running /\ top # "main" => appeared
Excused == history.asked \/ history.blanked \/ history.beaten
NamelessExcused ==
    running /\ nickname = NoName /\ (appeared \/ mains > 1) => Excused

\* Alerts are of the main screen in front.
AlertsInFront == \A l \in ToSet(layers) : l.kind = "alert" => l.main = mains /\ top = "main"

\* A main screen asks for the version once, so it presents one alert at most.
For(id, k) ==
    {t \in Task({"unserved", "accepted", "refused", "no data"}) : t.id = id /\ t.receiver = k}
OnItsWay(id, k) == HowMany(inFlight, For(id, k)) + HowMany(delivered, For(id, k))
Alerts(k) == {l \in Layer : l.kind = "alert" /\ l.main = k}
OneAlert ==
    \A k \in 1..MaxMains : OnItsWay("UPDATE_VERSION", k) + HowMany(layers, Alerts(k)) <= 1

\* It shows no more pop-ups than it was asked questions.
Popups(k) == {l \in Layer : l.kind = "popup" /\ l.main = k}
AnswersToQuestions ==
    \A k \in 1..MaxMains :
        OnItsWay("REQUEST_AI", k) + HowMany(posted, {k}) + HowMany(layers, Popups(k))
            <= questions[k]

IInv ==
    /\ TasksFit
    /\ StateFits
    /\ OfThisRun
    /\ CoveredAppeared
    /\ NamelessExcused
    /\ AlertsInFront
    /\ OneAlert
    /\ AnswersToQuestions
    /\ PopupsCanBeClosed

-----------------------------------------------------------------------------
(* Requests on their way                                                     *)

LEMMA NumbersFit ==
    ASSUME TasksFit, StateFits
    PROVE  /\ \A id, k : OnItsWay(id, k) \in Nat
           /\ \A S : HowMany(layers, S) \in Nat /\ HowMany(posted, S) \in Nat
           /\ \A k \in 1..MaxMains : questions[k] \in Nat
           /\ mains \in Nat /\ MaxMains \in Nat
<1>1. \A id, k : HowMany(inFlight, For(id, k)) \in Nat /\ HowMany(delivered, For(id, k)) \in Nat
  BY CountFacts DEF TasksFit
<1>2. \A S : HowMany(layers, S) \in Nat /\ HowMany(posted, S) \in Nat
  BY CountFacts DEF StateFits
<1>3. \A k \in 1..MaxMains : questions[k] \in Nat
  BY BoundsAssumption DEF StateFits
<1> QED
  BY <1>1, <1>2, <1>3, BoundsAssumption DEF OnItsWay, StateFits

\* A request that is sent.
LEMMA RequestFacts ==
    ASSUME NEW id \in {"UPDATE_VERSION", "UPDATE_USER", "REQUEST_AI"}, NEW k \in 1..MaxMains
    PROVE  LET request == Request(id, <<>>, k)
           IN  /\ request \in Waiting
               /\ request.receiver = k
               /\ \A other, j : request \in For(other, j) <=> other = id /\ j = k
BY DEF Request, Unserved, Waiting, Task, For

LEMMA SendFacts ==
    ASSUME TasksFit,
           NEW id \in {"UPDATE_VERSION", "UPDATE_USER", "REQUEST_AI"}, NEW k \in 1..MaxMains,
           Send(Request(id, <<>>, k)), UNCHANGED <<delivered, overtaken>>
    PROVE  /\ TasksFit'
           /\ \A t \in Pending' : t \in Pending \/ t.receiver = k
           /\ \A other, j : OnItsWay(other, j)' =
                  OnItsWay(other, j) + (IF other = id /\ j = k THEN 1 ELSE 0)
<1> DEFINE request == Request(id, <<>>, k)
<1>1. /\ request \in Waiting
      /\ request.receiver = k
      /\ \A other, j : request \in For(other, j) <=> other = id /\ j = k
  BY RequestFacts
<1> HIDE DEF request
<1>2. inFlight' = Append(inFlight, request)
  BY DEF Send, request
<1>3. inFlight' \in Seq(Waiting) /\ ToSet(inFlight') = ToSet(inFlight) \cup {request}
  BY <1>1, <1>2, AppendFacts DEF TasksFit
<1>4. ASSUME NEW other, NEW j
      PROVE  OnItsWay(other, j)' = OnItsWay(other, j) + (IF other = id /\ j = k THEN 1 ELSE 0)
  <2> DEFINE S == For(other, j)
  <2>1. HowMany(inFlight', S) = HowMany(inFlight, S) + (IF request \in S THEN 1 ELSE 0)
    BY <1>1, <1>2, CountAppend DEF TasksFit
  <2>2. HowMany(inFlight, S) \in Nat /\ HowMany(delivered, S) \in Nat
    BY CountFacts DEF TasksFit
  <2> QED
    BY <1>1, <2>1, <2>2 DEF OnItsWay
<1> QED
  BY <1>1, <1>3, <1>4 DEF TasksFit, Pending

\* The first reply is taken.
LEMMA TakenFacts ==
    ASSUME TasksFit, delivered # <<>>, Taken, UNCHANGED <<inFlight, overtaken>>
    PROVE  /\ TasksFit'
           /\ Reply \in Done /\ Reply \in Pending
           /\ Pending' \subseteq Pending
           /\ \A id, k : OnItsWay(id, k) =
                  OnItsWay(id, k)' + (IF Reply.id = id /\ Reply.receiver = k THEN 1 ELSE 0)
<1>1. /\ Reply \in Done
      /\ delivered' \in Seq(Done)
      /\ ToSet(delivered) = ToSet(delivered') \cup {Reply}
  BY TailFacts DEF TasksFit, Taken, Reply
<1>2. \A id, k : Reply \in For(id, k) <=> Reply.id = id /\ Reply.receiver = k
  BY <1>1 DEF Done, Task, For
<1>3. ASSUME NEW id, NEW k
      PROVE  OnItsWay(id, k) =
                 OnItsWay(id, k)' + (IF Reply.id = id /\ Reply.receiver = k THEN 1 ELSE 0)
  <2> DEFINE S == For(id, k)
  <2>1. HowMany(delivered, S) = HowMany(delivered', S) + (IF Reply \in S THEN 1 ELSE 0)
    BY CountTail DEF TasksFit, Taken, Reply
  <2>2. HowMany(inFlight, S) \in Nat /\ HowMany(delivered, S) \in Nat /\ HowMany(delivered', S) \in Nat
    BY <1>1, CountFacts DEF TasksFit
  <2> QED
    BY <1>2, <2>1, <2>2 DEF OnItsWay
<1> QED
  BY <1>1, <1>3 DEF TasksFit, Pending

\* A request with an answer is still of its kind.
LEMMA AnsweredFacts ==
    ASSUME NEW t \in Waiting, NEW answer \in [status : {"accepted", "refused", "no data"},
                                              body : {<<>>} \cup Offered]
    PROVE  LET x == [t EXCEPT !.answer = answer]
           IN  /\ x \in Done
               /\ answer.status # "no data" => x \in Waiting
               /\ x.receiver = t.receiver
               /\ \A id, k : x \in For(id, k) <=> t \in For(id, k)
<1>1. Unserved.status = "unserved"
  BY DEF Unserved
<1> QED
  BY <1>1 DEF Waiting, Done, Task, For

LEMMA AnswersFit ==
    /\ NoData \in [status : {"no data"}, body : {<<>>} \cup Offered]
    /\ \A id : Answers(id) \subseteq [status : {"accepted", "refused"}, body : {<<>>} \cup Offered]
BY DEF NoData, Answers, Refused, Accepted

\* Serving and completing requests adds none and loses none.
LEMMA SessionFacts ==
    ASSUME TasksFit, OnTheWay
    PROVE  /\ TasksFit'
           /\ \A t \in Pending' : \E u \in Pending : t.receiver = u.receiver
           /\ \A id, k : OnItsWay(id, k)' = OnItsWay(id, k)
<1>0. PICK i \in DOMAIN inFlight :
        (\E answer \in Answers(inFlight[i].id) : Serve(i, answer)) \/ Complete(i)
  BY DEF OnTheWay
<1>1. inFlight[i] \in Waiting /\ inFlight[i] \in Pending
  BY RowsFacts DEF TasksFit, Pending
<1>2. ASSUME NEW answer \in Answers(inFlight[i].id), Serve(i, answer)
      PROVE  /\ TasksFit'
             /\ \A t \in Pending' : \E u \in Pending : t.receiver = u.receiver
             /\ \A id, k : OnItsWay(id, k)' = OnItsWay(id, k)
  <2> DEFINE x == [inFlight[i] EXCEPT !.answer = answer]
  <2>1. /\ x \in Waiting
        /\ x.receiver = inFlight[i].receiver
        /\ \A id, k : x \in For(id, k) <=> inFlight[i] \in For(id, k)
    <3>1. /\ answer \in [status : {"accepted", "refused", "no data"}, body : {<<>>} \cup Offered]
          /\ answer.status # "no data"
      <4>1. answer \in [status : {"accepted", "refused"}, body : {<<>>} \cup Offered]
        BY <1>2, AnswersFit
      <4> QED
        BY <4>1
    <3> QED
      BY <1>1, <3>1, AnsweredFacts
  <2>2. inFlight' = [inFlight EXCEPT ![i] = x] /\ delivered' = delivered /\ overtaken' \in BOOLEAN
    BY <1>1, <1>2 DEF Serve, TasksFit
  <2> HIDE DEF x
  <2>3. inFlight \in Seq(Waiting)
    BY DEF TasksFit
  <2>4. LET new == [inFlight EXCEPT ![i] = x]
        IN  /\ new \in Seq(Waiting)
            /\ ToSet(new) \cup {inFlight[i]} = ToSet(inFlight) \cup {x}
            /\ \A id, k : HowMany(new, For(id, k)) = HowMany(inFlight, For(id, k))
    <3> DEFINE new == [inFlight EXCEPT ![i] = x]
    <3>1. /\ new \in Seq(Waiting)
          /\ ToSet(new) \cup {inFlight[i]} = ToSet(inFlight) \cup {x}
      BY <2>1, <2>3, ReplaceFacts
    <3>2. ASSUME NEW id, NEW k
          PROVE  HowMany(new, For(id, k)) = HowMany(inFlight, For(id, k))
      BY <2>1, <2>3, CountReplace
    <3> QED
      BY <3>1, <3>2
  <2>5. TasksFit'
    BY <2>2, <2>4 DEF TasksFit
  <2>6. \A id, k : OnItsWay(id, k)' = OnItsWay(id, k)
    BY <2>2, <2>4 DEF OnItsWay
  <2> QED
    BY <1>1, <2>1, <2>2, <2>4, <2>5, <2>6 DEF Pending
<1>3. ASSUME Complete(i)
      PROVE  /\ TasksFit'
             /\ \A t \in Pending' : \E u \in Pending : t.receiver = u.receiver
             /\ \A id, k : OnItsWay(id, k)' = OnItsWay(id, k)
  <2>1. PICK answer \in {inFlight[i].answer, NoData} \ {Unserved} :
          delivered' = Append(delivered, [inFlight[i] EXCEPT !.answer = answer])
    BY <1>3 DEF Complete
  <2> DEFINE x == [inFlight[i] EXCEPT !.answer = answer]
  <2>2. /\ x \in Done
        /\ x.receiver = inFlight[i].receiver
        /\ \A id, k : x \in For(id, k) <=> inFlight[i] \in For(id, k)
    <3>1. answer \in [status : {"accepted", "refused", "no data"}, body : {<<>>} \cup Offered]
      <4>1. CASE answer = NoData
        BY <4>1, AnswersFit
      <4>2. CASE answer = inFlight[i].answer /\ answer # Unserved
        BY <1>1, <4>2 DEF Waiting, Task
      <4> QED
        BY <2>1, <4>1, <4>2
    <3> QED
      BY <1>1, <3>1, AnsweredFacts
  <2> HIDE DEF x
  <2>3. /\ delivered' = Append(delivered, x)
        /\ inFlight' = RemoveAt(inFlight, i)
        /\ overtaken' \in BOOLEAN
    BY <1>3, <2>1 DEF Complete, TasksFit, x
  <2>4. /\ inFlight' \in Seq(Waiting)
        /\ ToSet(inFlight) = ToSet(inFlight') \cup {inFlight[i]}
    BY <2>3, RemoveAtFacts DEF TasksFit
  <2>5. /\ delivered' \in Seq(Done)
        /\ ToSet(delivered') = ToSet(delivered) \cup {x}
    BY <2>2, <2>3, AppendFacts DEF TasksFit
  <2>6. ASSUME NEW id, NEW k
        PROVE  OnItsWay(id, k)' = OnItsWay(id, k)
    <3> DEFINE S == For(id, k)
    <3>1. HowMany(inFlight, S) = HowMany(inFlight', S) + (IF inFlight[i] \in S THEN 1 ELSE 0)
      BY <2>3, CountRemoveAt DEF TasksFit
    <3>2. HowMany(delivered', S) = HowMany(delivered, S) + (IF x \in S THEN 1 ELSE 0)
      BY <2>2, <2>3, CountAppend DEF TasksFit
    <3>3. /\ HowMany(inFlight', S) \in Nat /\ HowMany(delivered, S) \in Nat
          /\ (x \in S <=> inFlight[i] \in S)
      BY <2>2, <2>4, CountFacts DEF TasksFit
    <3> HIDE DEF S
    <3> QED
      BY <3>1, <3>2, <3>3 DEF OnItsWay, S
  <2>7. TasksFit'
    BY <2>3, <2>4, <2>5 DEF TasksFit
  <2> QED
    BY <1>1, <2>2, <2>4, <2>5, <2>6, <2>7 DEF Pending
<1> QED
  BY <1>0, <1>2, <1>3

-----------------------------------------------------------------------------
(* IInv is inductive                                                         *)

LEMMA NothingCounts ==
    ASSUME NEW S
    PROVE  HowMany(<<>>, S) = 0
<1>1. <<>> \in Seq({})
  BY EmptySeq
<1>2. DOMAIN <<>> = {}
  OBVIOUS
<1> QED
  BY <1>1, <1>2, CountFacts

\* A process that has not started, or has ended.
Blank ==
    /\ inFlight = <<>> /\ delivered = <<>> /\ overtaken = FALSE
    /\ nickname \in Name \cup {NoName} /\ running = FALSE
    /\ top = "other" /\ mains = 0 /\ appeared = FALSE
    /\ layers = <<>> /\ posted = <<>> /\ questions = NoQuestions /\ history = NewRun

LEMMA EndedFits == Blank => IInv
<1> SUFFICES ASSUME Blank
             PROVE  IInv
  OBVIOUS
<1> USE DEF Blank
<1>1. TasksFit
  BY EmptySeq DEF TasksFit
<1>2. StateFits
  <2>1. /\ posted \in Seq(1..MaxMains)
        /\ layers \in Seq(Layer)
    BY EmptySeq
  <2>2. mains \in 0..MaxMains /\ 0 \in 0..MaxQuestions /\ (running <=> mains > 0)
    BY BoundsAssumption
  <2>3. questions \in [1..MaxMains -> 0..MaxQuestions]
    BY <2>2 DEF NoQuestions
  <2>4. history \in [asked : BOOLEAN, beaten : BOOLEAN, blanked : BOOLEAN]
    BY DEF NewRun
  <2>5. running \in BOOLEAN /\ appeared \in BOOLEAN
    OBVIOUS
  <2> QED
    BY <2>1, <2>2, <2>3, <2>4, <2>5 DEF StateFits
<1>3. DOMAIN inFlight = {} /\ DOMAIN delivered = {} /\ DOMAIN layers = {} /\ DOMAIN posted = {}
  OBVIOUS
<1>4. OfThisRun /\ AlertsInFront /\ PopupsCanBeClosed
  BY <1>3 DEF OfThisRun, Pending, ToSet, AlertsInFront, PopupsCanBeClosed
<1>5. CoveredAppeared /\ NamelessExcused
  BY DEF CoveredAppeared, NamelessExcused
<1>6. OneAlert /\ AnswersToQuestions
  BY NothingCounts DEF OneAlert, AnswersToQuestions, OnItsWay, NoQuestions
<1> QED
  BY <1>1, <1>2, <1>4, <1>5, <1>6 DEF IInv

LEMMA InitInv == Init => IInv
BY EndedFits DEF Init, HttpInit, Blank

LEMMA EndedKeeps ==
    ASSUME IInv, Ended
    PROVE  IInv'
<1>1. Blank'
  BY DEF Ended, Blank, IInv, StateFits
<1> QED
  BY <1>1, EndedFits, PTL

\* Steps on what is over the screens, and on what they ask.
LEMMA SameCounts ==
    ASSUME IInv, UNCHANGED <<layers, posted, questions>>,
           \A id \in {"UPDATE_VERSION", "REQUEST_AI"}, k \in 1..MaxMains :
               OnItsWay(id, k)' \in Nat /\ OnItsWay(id, k)' <= OnItsWay(id, k)
    PROVE  OneAlert' /\ AnswersToQuestions' /\ PopupsCanBeClosed'
<1>1. TasksFit /\ StateFits /\ OneAlert /\ AnswersToQuestions
  BY DEF IInv
<1>2. OneAlert'
  BY <1>1, NumbersFit DEF OneAlert
<1>3. AnswersToQuestions'
  BY <1>1, NumbersFit DEF AnswersToQuestions
<1>4. PopupsCanBeClosed'
  BY DEF PopupsCanBeClosed, IInv
<1> QED
  BY <1>2, <1>3, <1>4

\* A new main screen in front.
LEMMA ShowMainKeeps ==
    ASSUME IInv, ShowMain, layers = <<>>, running',
           running /\ nickname' = NoName => Excused',
           nickname' \in Name \cup {NoName},
           history' \in [asked : BOOLEAN, beaten : BOOLEAN, blanked : BOOLEAN],
           running' \in BOOLEAN
    PROVE  IInv'
<1> USE DEF IInv
<1>0. /\ mains < MaxMains /\ mains' = mains + 1
      /\ top' = "main" /\ appeared' = FALSE
      /\ UNCHANGED <<delivered, overtaken, layers, posted, questions>>
      /\ mains \in 0..MaxMains /\ mains' \in 1..MaxMains /\ mains \in Nat /\ MaxMains \in Nat
  BY BoundsAssumption DEF ShowMain, StateFits
<1>1. /\ TasksFit'
      /\ \A t \in Pending' : t \in Pending \/ t.receiver = mains'
      /\ \A id, k : OnItsWay(id, k)' = OnItsWay(id, k)
             \/ (OnItsWay(id, k)' = OnItsWay(id, k) + 1 /\ id = "UPDATE_VERSION" /\ k = mains')
  <2>1. CASE UNCHANGED inFlight
    <3>1. TasksFit' /\ Pending' = Pending /\ \A id, k : OnItsWay(id, k)' = OnItsWay(id, k)
      BY <1>0, <2>1 DEF TasksFit, Pending, OnItsWay
    <3> QED
      BY <3>1
  <2>2. CASE Send(Request("UPDATE_VERSION", <<>>, mains + 1))
    <3>1. Send(Request("UPDATE_VERSION", <<>>, mains'))
      BY <1>0, <2>2
    <3>2. /\ TasksFit'
          /\ \A t \in Pending' : t \in Pending \/ t.receiver = mains'
          /\ \A id, k : OnItsWay(id, k)' = OnItsWay(id, k)
                + (IF id = "UPDATE_VERSION" /\ k = mains' THEN 1 ELSE 0)
      BY <1>0, <3>1, SendFacts
    <3>3. \A id, k : OnItsWay(id, k) \in Nat
      BY NumbersFit
    <3>4. ASSUME NEW id, NEW k
          PROVE  OnItsWay(id, k)' = OnItsWay(id, k)
                    \/ (OnItsWay(id, k)' = OnItsWay(id, k) + 1 /\ id = "UPDATE_VERSION" /\ k = mains')
      <4>1. CASE id = "UPDATE_VERSION" /\ k = mains'
        BY <3>2, <4>1
      <4>2. CASE ~(id = "UPDATE_VERSION" /\ k = mains')
        <5>1. OnItsWay(id, k)' = OnItsWay(id, k) + 0
          BY <3>2, <4>2
        <5> QED
          BY <3>3, <5>1
      <4> QED
        BY <4>1, <4>2
    <3> QED
      BY <3>2, <3>4
  <2> QED
    BY <2>1, <2>2 DEF ShowMain, SendIfConnected
<1>2. StateFits'
  <2>1. mains' \in 0..MaxMains /\ mains' > 0
    BY <1>0
  <2>2. appeared' \in BOOLEAN
    BY <1>0
  <2>3. /\ posted' \in Seq(1..MaxMains) /\ layers' \in Seq(Layer)
        /\ questions' \in [1..MaxMains -> 0..MaxQuestions]
    BY <1>0 DEF StateFits
  <2> QED
    BY <1>0, <2>1, <2>2, <2>3 DEF StateFits
<1>3. OfThisRun'
  <2>1. 1..mains \subseteq 1..mains' /\ mains' \in 1..mains'
    BY <1>0
  <2> QED
    BY <1>0, <1>1, <2>1 DEF OfThisRun
<1>4. CoveredAppeared' /\ NamelessExcused'
  <2>1. running \/ mains' = 1
    BY <1>0 DEF StateFits
  <2>2. ~appeared' /\ ~(mains' = 1 /\ mains' > 1)
    BY <1>0
  <2> QED
    BY <1>0, <2>1, <2>2 DEF CoveredAppeared, NamelessExcused
<1>5. DOMAIN layers = {}
  OBVIOUS
<1>6. AlertsInFront' /\ PopupsCanBeClosed'
  BY <1>0, <1>5 DEF AlertsInFront, PopupsCanBeClosed, ToSet
<1>7. OneAlert'
  <2> SUFFICES ASSUME NEW k \in 1..MaxMains
               PROVE  (OnItsWay("UPDATE_VERSION", k) + HowMany(layers, Alerts(k)))' <= 1
    BY DEF OneAlert
  <2>1. /\ OnItsWay("UPDATE_VERSION", k) + HowMany(layers, Alerts(k)) <= 1
        /\ HowMany(layers, Alerts(k)) = 0
        /\ OnItsWay("UPDATE_VERSION", k) \in Nat
    BY NothingCounts, NumbersFit DEF OneAlert
  <2>2. CASE k = mains'
    <3>1. ASSUME NEW t \in Pending
          PROVE  t \notin For("UPDATE_VERSION", k)
      <4>1. t.receiver \in 1..mains
        BY DEF OfThisRun
      <4>2. t.receiver # k
        BY <1>0, <2>2, <4>1
      <4> QED
        BY <4>2 DEF For
    <3>2. /\ \A i \in DOMAIN inFlight : inFlight[i] \notin For("UPDATE_VERSION", k)
          /\ \A i \in DOMAIN delivered : delivered[i] \notin For("UPDATE_VERSION", k)
      BY <3>1, RowsFacts DEF TasksFit, Pending
    <3>3. /\ HowMany(inFlight, For("UPDATE_VERSION", k)) = 0
          /\ HowMany(delivered, For("UPDATE_VERSION", k)) = 0
      BY <3>2, CountFacts DEF TasksFit
    <3>4. OnItsWay("UPDATE_VERSION", k) = 0
      BY <3>3 DEF OnItsWay
    <3>5. \/ OnItsWay("UPDATE_VERSION", k)' = 0
          \/ OnItsWay("UPDATE_VERSION", k)' = 0 + 1
      BY <1>1, <3>4
    <3>6. HowMany(layers, Alerts(k))' = 0
      BY <1>0, <2>1
    <3> QED
      BY <3>5, <3>6
  <2>3. CASE k # mains'
    BY <1>0, <1>1, <2>1, <2>3
  <2> QED
    BY <2>2, <2>3
<1>8. AnswersToQuestions'
  BY <1>0, <1>1 DEF AnswersToQuestions
<1> QED
  BY <1>1, <1>2, <1>3, <1>4, <1>6, <1>7, <1>8

LEMMA LaunchKeeps ==
    ASSUME IInv, Launch
    PROVE  IInv'
<1>1. layers = <<>>
  <2>1. ToSet(layers) = {} /\ layers \in Seq(Layer)
    BY DEF Launch, IInv, StateFits, OfThisRun
  <2> QED
    BY <2>1, RowsFacts, EmptySeq DEF ToSet
<1> QED
  BY <1>1, ShowMainKeeps DEF Launch, IInv, StateFits

LEMMA SaveNicknameKeeps ==
    ASSUME IInv, SaveNickname
    PROVE  IInv'
<1>1. PICK rest \in Name \cup {NoName} :
        /\ nickname' = rest
        /\ history' = [history EXCEPT !.blanked = @ \/ rest = NoName]
  BY DEF SaveNickname
<1>2. /\ ShowMain /\ layers = <<>> /\ running /\ running' = running
      /\ history \in [asked : BOOLEAN, beaten : BOOLEAN, blanked : BOOLEAN]
  BY DEF SaveNickname, Touchable, IInv, StateFits
<1>3. /\ history' \in [asked : BOOLEAN, beaten : BOOLEAN, blanked : BOOLEAN]
      /\ rest = NoName => history'.blanked
  BY <1>1, <1>2
<1> QED
  BY <1>1, <1>2, <1>3, ShowMainKeeps, NameAssumption DEF Excused, IInv, StateFits

LEMMA BackKeeps ==
    ASSUME IInv, onBackPressed
    PROVE  IInv'
<1>1. /\ ShowMain /\ layers = <<>> /\ running /\ top # "main"
      /\ UNCHANGED <<nickname, running, history>>
  BY DEF onBackPressed, Touchable
<1>2. nickname = NoName => Excused
  BY <1>1 DEF IInv, CoveredAppeared, NamelessExcused
<1> QED
  BY <1>1, <1>2, ShowMainKeeps DEF Excused, IInv, StateFits

\* The gate comes up without an alert below it; an alert in its way is noted.
LEMMA AppearKeeps ==
    ASSUME IInv, viewDidAppear
    PROVE  IInv'
<1> USE DEF IInv
<1>0. /\ running /\ top = "main" /\ appeared' = TRUE
      /\ UNCHANGED <<nickname, running, mains, delivered, overtaken, layers, posted, questions>>
      /\ mains \in 1..MaxMains
      /\ history \in [asked : BOOLEAN, beaten : BOOLEAN, blanked : BOOLEAN]
  BY DEF viewDidAppear, StateFits
<1>1. /\ TasksFit'
      /\ \A t \in Pending' : t \in Pending \/ t.receiver = mains
      /\ \A id \in {"UPDATE_VERSION", "REQUEST_AI"}, k \in 1..MaxMains :
             OnItsWay(id, k)' \in Nat /\ OnItsWay(id, k)' <= OnItsWay(id, k)
  <2>1. CASE UNCHANGED inFlight
    BY <1>0, <2>1, NumbersFit DEF TasksFit, Pending, OnItsWay
  <2>2. CASE Send(Request("UPDATE_USER", <<>>, mains))
    BY <1>0, <2>2, SendFacts, NumbersFit
  <2> QED
    BY <2>1, <2>2 DEF viewDidAppear, SendIfConnected
<1>2. /\ history' \in [asked : BOOLEAN, beaten : BOOLEAN, blanked : BOOLEAN]
      /\ top' \in {"main", "gate"}
      /\ Excused => Excused'
      /\ nickname = NoName => Excused' \/ mains > 1
      /\ top' # "main" => mains = 1 /\ ~AlertOf(1)
  <2>1. CASE nickname = NoName /\ ~RootPresents /\ top' = "gate"
                /\ history' = [history EXCEPT !.asked = TRUE]
    <3>1. /\ history'.asked
          /\ history' \in [asked : BOOLEAN, beaten : BOOLEAN, blanked : BOOLEAN]
      BY <1>0, <2>1
    <3>2. mains = 1 /\ ~AlertOf(1)
      BY <1>0, <2>1 DEF RootPresents
    <3> QED
      BY <2>1, <3>1, <3>2 DEF Excused
  <2>2. CASE nickname = NoName /\ RootPresents /\ top' = top
                /\ history' = [history EXCEPT !.beaten = @ \/ AlertOf(1)]
    <3>1. AlertOf(1) \in BOOLEAN
      BY DEF AlertOf
    <3>2. /\ history'.beaten = (history.beaten \/ AlertOf(1))
          /\ history'.asked = history.asked /\ history'.blanked = history.blanked
          /\ history' \in [asked : BOOLEAN, beaten : BOOLEAN, blanked : BOOLEAN]
      BY <1>0, <2>2, <3>1
    <3> QED
      BY <1>0, <2>2, <3>2 DEF RootPresents, Excused
  <2>3. CASE nickname # NoName /\ UNCHANGED <<top, history>>
    BY <1>0, <2>3 DEF Excused
  <2> QED
    BY <2>1, <2>2, <2>3 DEF viewDidAppear
<1>3. StateFits'
  BY <1>0, <1>2 DEF StateFits
<1>4. OfThisRun'
  BY <1>0, <1>1 DEF OfThisRun
<1>5. CoveredAppeared' /\ NamelessExcused'
  BY <1>0, <1>2 DEF CoveredAppeared, NamelessExcused
<1>6. AlertsInFront'
  <2> SUFFICES ASSUME NEW l \in ToSet(layers), l.kind = "alert"
               PROVE  l.main = mains /\ top' = "main"
    BY <1>0 DEF AlertsInFront
  <2>1. l.main = mains
    BY DEF AlertsInFront
  <2>2. mains = 1 => AlertOf(1)
    BY <2>1 DEF AlertOf, ToSet
  <2> QED
    BY <1>2, <2>1, <2>2
<1> QED
  BY <1>0, <1>1, <1>3, <1>4, <1>5, <1>6, SameCounts

LEMMA OpenScreenKeeps ==
    ASSUME IInv, OpenScreen
    PROVE  IInv'
<1> USE DEF IInv
<1>0. /\ running /\ layers = <<>> /\ top' \in {"other", "gate"}
      /\ (top = "main" => appeared)
      /\ UNCHANGED <<httpVars, nickname, running, mains, appeared, layers, posted, questions,
                     history>>
  BY DEF OpenScreen, Touchable
<1>1. TasksFit' /\ StateFits'
  BY <1>0 DEF TasksFit, StateFits, httpVars
<1>2. OfThisRun'
  BY <1>0 DEF OfThisRun, Pending, httpVars
<1>3. CoveredAppeared' /\ NamelessExcused'
  BY <1>0 DEF CoveredAppeared, NamelessExcused, Excused
<1>4. DOMAIN layers = {}
  BY <1>0
<1>5. AlertsInFront'
  BY <1>0, <1>4 DEF AlertsInFront, ToSet
<1>6. OneAlert' /\ AnswersToQuestions' /\ PopupsCanBeClosed'
  BY <1>0, NumbersFit, SameCounts DEF OnItsWay, httpVars
<1> QED
  BY <1>1, <1>2, <1>3, <1>5, <1>6

\* A question more, and a request that may be answered by a pop-up.
LEMMA AskAIKeeps ==
    ASSUME IInv, AskAI
    PROVE  IInv'
<1> USE DEF IInv
<1>0. /\ questions' = [questions EXCEPT ![mains] = @ + 1]
      /\ questions[mains] < MaxQuestions
      /\ Send(Request("REQUEST_AI", <<>>, mains))
      /\ UNCHANGED <<delivered, overtaken, nickname, running, top, mains, appeared, layers, posted,
                     history>>
      /\ mains \in 1..MaxMains
  BY DEF AskAI, Touchable, StateFits, screenVars
<1>1. /\ TasksFit'
      /\ \A t \in Pending' : t \in Pending \/ t.receiver = mains
      /\ \A id, k : OnItsWay(id, k)' =
             OnItsWay(id, k) + (IF id = "REQUEST_AI" /\ k = mains THEN 1 ELSE 0)
  BY <1>0, SendFacts
<1>2. /\ questions' \in [1..MaxMains -> 0..MaxQuestions]
      /\ \A k \in 1..MaxMains : questions'[k] = questions[k] + (IF k = mains THEN 1 ELSE 0)
  <2>1. questions[mains] + 1 \in 0..MaxQuestions
    BY <1>0, BoundsAssumption DEF StateFits
  <2> QED
    BY <1>0, <2>1, BoundsAssumption DEF StateFits
<1>3. StateFits'
  BY <1>0, <1>2 DEF StateFits
<1>4. OfThisRun'
  BY <1>0, <1>1 DEF OfThisRun
<1>5. CoveredAppeared' /\ NamelessExcused' /\ AlertsInFront'
  BY <1>0 DEF CoveredAppeared, NamelessExcused, Excused, AlertsInFront
<1>6. OneAlert'
  BY <1>0, <1>1, NumbersFit DEF OneAlert
<1>7. AnswersToQuestions'
  <2> SUFFICES ASSUME NEW k \in 1..MaxMains
               PROVE  (OnItsWay("REQUEST_AI", k) + HowMany(posted, {k})
                           + HowMany(layers, Popups(k)))' <= questions'[k]
    BY DEF AnswersToQuestions
  <2>1. OnItsWay("REQUEST_AI", k) + HowMany(posted, {k}) + HowMany(layers, Popups(k))
            <= questions[k]
    BY DEF AnswersToQuestions
  <2>2. /\ OnItsWay("REQUEST_AI", k)' = OnItsWay("REQUEST_AI", k) + (IF k = mains THEN 1 ELSE 0)
        /\ questions'[k] = questions[k] + (IF k = mains THEN 1 ELSE 0)
        /\ HowMany(posted, {k})' = HowMany(posted, {k})
        /\ HowMany(layers, Popups(k))' = HowMany(layers, Popups(k))
    BY <1>0, <1>1, <1>2
  <2>3. /\ OnItsWay("REQUEST_AI", k) \in Nat /\ HowMany(posted, {k}) \in Nat
        /\ HowMany(layers, Popups(k)) \in Nat /\ questions[k] \in Nat
    BY NumbersFit
  <2> QED
    BY <2>1, <2>2, <2>3
<1>8. PopupsCanBeClosed'
  <2>1. \A i \in DOMAIN layers : layers[i] \in Layer
    BY RowsFacts DEF StateFits
  <2>2. \A l \in Layer : l.main \in 1..MaxMains
    BY DEF Layer
  <2>3. \A k \in 1..MaxMains : questions[k] > 1 => questions'[k] > 1
    BY <1>2, NumbersFit
  <2> QED
    BY <1>0, <2>1, <2>2, <2>3 DEF PopupsCanBeClosed
<1> QED
  BY <1>1, <1>3, <1>4, <1>5, <1>6, <1>7, <1>8

\* A pop-up replaced before it was closed is the second answer to its screen.
LEMMA ShowAnswerKeeps ==
    ASSUME IInv, ShowAnswer
    PROVE  IInv'
<1> USE DEF IInv
<1> DEFINE m == Head(posted)
           old == Released(m)
<1>0. /\ posted # <<>>
      /\ layers' = Append(old, Popup(m))
      /\ posted' = Tail(posted)
      /\ UNCHANGED <<httpVars, nickname, running, top, mains, appeared, questions, history>>
  BY DEF ShowAnswer, screenVars
<1>1. /\ m \in 1..MaxMains /\ m \in 1..mains
      /\ posted' \in Seq(1..MaxMains)
      /\ ToSet(posted) = ToSet(posted') \cup {m}
      /\ \A S : HowMany(posted, S) = HowMany(posted', S) + (IF m \in S THEN 1 ELSE 0)
      /\ \A S : HowMany(posted', S) \in Nat
  <2>1. posted \in Seq(1..MaxMains)
    BY DEF StateFits
  <2>2. /\ m \in 1..MaxMains
        /\ posted' \in Seq(1..MaxMains)
        /\ ToSet(posted) = ToSet(posted') \cup {m}
    BY <1>0, <2>1, TailFacts
  <2>3. \A S : HowMany(posted, S) = HowMany(posted', S) + (IF m \in S THEN 1 ELSE 0)
    BY <1>0, <2>1, CountTail
  <2>4. \A S : HowMany(posted', S) \in Nat
    BY <2>2, CountFacts
  <2> QED
    BY <2>2, <2>3, <2>4 DEF OfThisRun
<1> HIDE DEF m
<1>2. Popup(m) \in Layer /\ Popup(m).main = m /\ Popup(m).live /\ Popup(m).kind = "popup"
  BY <1>1 DEF Popup, Layer
<1>3. /\ DOMAIN layers = 1..Len(layers)
      /\ \A i \in DOMAIN layers : layers[i] \in Layer
      /\ layers \in Seq(Layer)
  BY RowsFacts DEF StateFits
<1>4. ASSUME NEW i \in DOMAIN layers
      PROVE  /\ old[i] \in Layer
             /\ old[i].kind = layers[i].kind /\ old[i].main = layers[i].main
             /\ ~old[i].live => ~layers[i].live \/ layers[i] = Popup(m)
  <2>1. CASE layers[i] = Popup(m)
    <3>1. old[i] = [Popup(m) EXCEPT !.live = FALSE]
      BY <2>1 DEF Released
    <3> QED
      BY <1>1, <2>1, <3>1 DEF Layer, Popup
  <2>2. CASE layers[i] # Popup(m)
    <3>1. old[i] = layers[i]
      BY <2>2 DEF Released
    <3> QED
      BY <1>3, <3>1
  <2> QED
    BY <2>1, <2>2
<1>5. DOMAIN old = DOMAIN layers /\ old \in [DOMAIN layers -> Layer]
  BY <1>4 DEF Released
<1>6. old \in Seq(Layer)
  BY <1>3, <1>5, MappedFacts
<1> HIDE DEF old
<1>7. \A k : HowMany(old, Alerts(k)) = HowMany(layers, Alerts(k))
             /\ HowMany(old, Popups(k)) = HowMany(layers, Popups(k))
  <2>1. ASSUME NEW k
        PROVE  HowMany(old, Alerts(k)) = HowMany(layers, Alerts(k))
    BY <1>3, <1>4, <1>5, CountSame DEF Alerts
  <2>2. ASSUME NEW k
        PROVE  HowMany(old, Popups(k)) = HowMany(layers, Popups(k))
    BY <1>3, <1>4, <1>5, CountSame DEF Popups
  <2> QED
    BY <2>1, <2>2
<1>8. /\ layers' \in Seq(Layer)
      /\ ToSet(layers') = ToSet(old) \cup {Popup(m)}
      /\ \A S : HowMany(layers', S) = HowMany(old, S) + (IF Popup(m) \in S THEN 1 ELSE 0)
  BY <1>0, <1>2, <1>6, AppendFacts, CountAppend
<1>9. /\ \A k : HowMany(layers', Alerts(k)) = HowMany(layers, Alerts(k))
      /\ \A k : HowMany(layers', Popups(k)) = HowMany(layers, Popups(k)) + (IF k = m THEN 1 ELSE 0)
  <2>1. \A k : Popup(m) \notin Alerts(k) /\ (Popup(m) \in Popups(k) <=> k = m)
    BY <1>2 DEF Alerts, Popups
  <2>2. \A k : HowMany(layers, Alerts(k)) \in Nat
    BY NumbersFit
  <2> QED
    BY <1>7, <1>8, <2>1, <2>2
<1>10. \A l \in ToSet(layers') : l = Popup(m) \/
         \E u \in ToSet(layers) :
             /\ l.kind = u.kind /\ l.main = u.main
             /\ ~l.live => ~u.live \/ u = Popup(m)
  BY <1>4, <1>5, <1>8 DEF ToSet
<1>11. TasksFit' /\ StateFits'
  BY <1>0, <1>1, <1>8 DEF TasksFit, StateFits, httpVars
<1>12. OfThisRun'
  BY <1>0, <1>1, <1>2, <1>10 DEF OfThisRun, Pending, httpVars
<1>13. CoveredAppeared' /\ NamelessExcused' /\ AlertsInFront'
  BY <1>0, <1>2, <1>10 DEF CoveredAppeared, NamelessExcused, Excused, AlertsInFront
<1>14. \A id, k : OnItsWay(id, k)' = OnItsWay(id, k)
  BY <1>0 DEF OnItsWay, httpVars
<1>15. OneAlert'
  BY <1>9, <1>14 DEF OneAlert
<1>16. AnswersToQuestions'
  <2> SUFFICES ASSUME NEW k \in 1..MaxMains
               PROVE  (OnItsWay("REQUEST_AI", k) + HowMany(posted, {k})
                           + HowMany(layers, Popups(k)))' <= questions'[k]
    BY DEF AnswersToQuestions
  <2>1. OnItsWay("REQUEST_AI", k) + HowMany(posted, {k}) + HowMany(layers, Popups(k))
            <= questions[k]
    BY DEF AnswersToQuestions
  <2>2. HowMany(posted, {k}) = HowMany(posted', {k}) + (IF m = k THEN 1 ELSE 0)
    BY <1>1
  <2>3. /\ OnItsWay("REQUEST_AI", k) \in Nat /\ HowMany(layers, Popups(k)) \in Nat
        /\ HowMany(posted', {k}) \in Nat /\ questions[k] \in Nat
    BY <1>1, NumbersFit
  <2> QED
    BY <1>0, <1>9, <1>14, <2>1, <2>2, <2>3
<1>17. PopupsCanBeClosed'
  <2> SUFFICES ASSUME NEW l \in ToSet(layers'), ~l.live
               PROVE  questions[l.main] > 1
    BY <1>0 DEF PopupsCanBeClosed, ToSet
  <2>1. PICK u \in ToSet(layers) : l.main = u.main /\ (~u.live \/ u = Popup(m))
    BY <1>2, <1>10
  <2>2. CASE ~u.live
    BY <2>1, <2>2 DEF PopupsCanBeClosed, ToSet
  <2>3. CASE u = Popup(m)
    <3>1. u \in Popups(m)
      BY <1>2, <2>3 DEF Popups
    <3>2. HowMany(layers, Popups(m)) # 0
      BY <1>3, <3>1, CountFacts DEF ToSet
    <3>3. HowMany(posted, {m}) = HowMany(posted', {m}) + 1
      BY <1>1
    <3>4. OnItsWay("REQUEST_AI", m) + HowMany(posted, {m}) + HowMany(layers, Popups(m))
            <= questions[m]
      BY <1>1 DEF AnswersToQuestions
    <3>5. /\ OnItsWay("REQUEST_AI", m) \in Nat /\ HowMany(layers, Popups(m)) \in Nat
          /\ HowMany(posted', {m}) \in Nat /\ questions[m] \in Nat
      BY <1>1, NumbersFit
    <3>6. l.main = m
      BY <1>2, <2>1, <2>3
    <3> QED
      BY <3>2, <3>3, <3>4, <3>5, <3>6
  <2> QED
    BY <2>1, <2>2, <2>3
<1> QED
  BY <1>11, <1>12, <1>13, <1>15, <1>16, <1>17

\* Whatever is taken away was the last.
LEMMA CloseKeeps ==
    ASSUME IInv, Close
    PROVE  IInv'
<1> USE DEF IInv
<1> DEFINE gone == layers[Len(layers)]
<1>0. /\ layers # <<>> /\ layers' = Front(layers)
      /\ UNCHANGED <<httpVars, nickname, running, top, mains, appeared, posted, questions, history>>
  BY DEF Close, screenVars
<1>1. layers \in Seq(Layer)
  BY DEF StateFits
<1>2. Len(layers) \in DOMAIN layers /\ layers' = RemoveAt(layers, Len(layers))
  BY <1>0, <1>1, FrontFacts
<1>3. layers' \in Seq(Layer) /\ ToSet(layers) = ToSet(layers') \cup {gone}
  BY <1>1, <1>2, RemoveAtFacts
<1>4. ASSUME NEW S
      PROVE  HowMany(layers', S) \in Nat /\ HowMany(layers', S) <= HowMany(layers, S)
  <2>1. HowMany(layers, S) = HowMany(layers', S) + (IF gone \in S THEN 1 ELSE 0)
    BY <1>1, <1>2, CountRemoveAt
  <2>2. HowMany(layers', S) \in Nat
    BY <1>3, CountFacts
  <2> QED
    BY <2>1, <2>2
<1>5. TasksFit' /\ StateFits'
  BY <1>0, <1>3 DEF TasksFit, StateFits, httpVars
<1>6. OfThisRun' /\ AlertsInFront'
  BY <1>0, <1>3 DEF OfThisRun, AlertsInFront, Pending, httpVars
<1>7. CoveredAppeared' /\ NamelessExcused'
  BY <1>0 DEF CoveredAppeared, NamelessExcused, Excused
<1>8. \A id, k : OnItsWay(id, k)' = OnItsWay(id, k)
  BY <1>0 DEF OnItsWay, httpVars
<1>9. OneAlert'
  <2> SUFFICES ASSUME NEW k \in 1..MaxMains
               PROVE  (OnItsWay("UPDATE_VERSION", k) + HowMany(layers, Alerts(k)))' <= 1
    BY DEF OneAlert
  <2>1. /\ OnItsWay("UPDATE_VERSION", k) + HowMany(layers, Alerts(k)) <= 1
        /\ HowMany(layers, Alerts(k)) \in Nat /\ OnItsWay("UPDATE_VERSION", k) \in Nat
    BY NumbersFit DEF OneAlert
  <2>2. HowMany(layers', Alerts(k)) \in Nat /\ HowMany(layers', Alerts(k)) <= HowMany(layers, Alerts(k))
    BY <1>4
  <2> QED
    BY <1>8, <2>1, <2>2
<1>10. AnswersToQuestions'
  <2> SUFFICES ASSUME NEW k \in 1..MaxMains
               PROVE  (OnItsWay("REQUEST_AI", k) + HowMany(posted, {k})
                           + HowMany(layers, Popups(k)))' <= questions'[k]
    BY DEF AnswersToQuestions
  <2>1. OnItsWay("REQUEST_AI", k) + HowMany(posted, {k}) + HowMany(layers, Popups(k))
            <= questions[k]
    BY DEF AnswersToQuestions
  <2>2. HowMany(layers', Popups(k)) \in Nat /\ HowMany(layers', Popups(k)) <= HowMany(layers, Popups(k))
    BY <1>4
  <2>3. /\ OnItsWay("REQUEST_AI", k) \in Nat /\ HowMany(posted, {k}) \in Nat
        /\ HowMany(layers, Popups(k)) \in Nat /\ questions[k] \in Nat
    BY NumbersFit
  <2> QED
    BY <1>0, <1>8, <2>1, <2>2, <2>3
<1>11. PopupsCanBeClosed'
  BY <1>0, <1>3 DEF PopupsCanBeClosed, ToSet
<1> QED
  BY <1>5, <1>6, <1>7, <1>9, <1>10, <1>11

\* A reply that only is taken.
LEMMA TakenKeeps ==
    ASSUME IInv, delivered # <<>>, Taken,
           UNCHANGED <<inFlight, overtaken, nickname, running, screenVars, layers, posted,
                       questions, history>>
    PROVE  IInv'
<1> USE DEF IInv
<1>1. /\ TasksFit' /\ Pending' \subseteq Pending
      /\ \A id, k : OnItsWay(id, k)' \in Nat /\ OnItsWay(id, k)' <= OnItsWay(id, k)
  <2>1. /\ TasksFit' /\ Pending' \subseteq Pending
        /\ \A id, k : OnItsWay(id, k) =
               OnItsWay(id, k)' + (IF Reply.id = id /\ Reply.receiver = k THEN 1 ELSE 0)
    BY TakenFacts
  <2>2. ASSUME NEW id, NEW k
        PROVE  OnItsWay(id, k)' \in Nat
    BY <2>1, CountFacts DEF TasksFit, OnItsWay
  <2>3. ASSUME NEW id, NEW k
        PROVE  OnItsWay(id, k)' <= OnItsWay(id, k)
    <3>1. CASE Reply.id = id /\ Reply.receiver = k
      BY <2>1, <2>2, <3>1
    <3>2. CASE ~(Reply.id = id /\ Reply.receiver = k)
      <4>1. OnItsWay(id, k) = OnItsWay(id, k)' + 0
        BY <2>1, <3>2
      <4> QED
        BY <2>2, <4>1
    <3> QED
      BY <3>1, <3>2
  <2> QED
    BY <2>1, <2>2, <2>3
<1>2. StateFits'
  BY DEF StateFits, screenVars
<1>3. OfThisRun'
  BY <1>1 DEF OfThisRun, screenVars
<1>4. CoveredAppeared' /\ NamelessExcused' /\ AlertsInFront'
  BY DEF CoveredAppeared, NamelessExcused, Excused, AlertsInFront, screenVars
<1>5. OneAlert' /\ AnswersToQuestions' /\ PopupsCanBeClosed'
  BY <1>1, SameCounts
<1> QED
  BY <1>1, <1>2, <1>3, <1>4, <1>5

LEMMA ReceiveUserUpdateKeeps ==
    ASSUME IInv, ReceiveUserUpdate
    PROVE  IInv'
BY TakenKeeps DEF ReceiveUserUpdate

LEMMA ReceiveRefusalKeeps ==
    ASSUME IInv, ReceiveRefusal
    PROVE  IInv'
BY TakenKeeps DEF ReceiveRefusal, Receives

\* The answer of the AI moves from the delegate queue to the main queue.
LEMMA ReceiveAnswerKeeps ==
    ASSUME IInv, ReceiveAnswer
    PROVE  IInv'
<1> USE DEF IInv
<1>0. PICK k \in 1..mains :
        /\ delivered # <<>> /\ Reply.id = "REQUEST_AI" /\ Reply.receiver = k
        /\ posted' = Append(posted, k)
        /\ Taken
        /\ UNCHANGED <<inFlight, overtaken, nickname, running, top, mains, appeared, layers,
                       questions, history>>
  BY DEF ReceiveAnswer, Receives, screenVars
<1>1. k \in 1..MaxMains
  BY <1>0, BoundsAssumption DEF StateFits
<1>2. /\ TasksFit' /\ Pending' \subseteq Pending
      /\ \A id, j : OnItsWay(id, j) =
             OnItsWay(id, j)' + (IF Reply.id = id /\ Reply.receiver = j THEN 1 ELSE 0)
  BY <1>0, TakenFacts
<1>3. \A id, j : OnItsWay(id, j)' \in Nat
  BY <1>2, CountFacts DEF TasksFit, OnItsWay
<1>4. posted \in Seq(1..MaxMains)
  BY DEF StateFits
<1>5. /\ posted' \in Seq(1..MaxMains)
      /\ ToSet(posted') = ToSet(posted) \cup {k}
  <2> DEFINE S == 1..MaxMains
  <2>1. posted \in Seq(S) /\ k \in S
    BY <1>1, <1>4
  <2> HIDE DEF S
  <2>2. Append(posted, k) \in Seq(S) /\ ToSet(Append(posted, k)) = ToSet(posted) \cup {k}
    BY <2>1, AppendFacts
  <2> QED
    BY <1>0, <2>2 DEF S
<1>6. StateFits'
  BY <1>0, <1>5 DEF StateFits
<1>7. OfThisRun'
  BY <1>0, <1>2, <1>5 DEF OfThisRun
<1>8. CoveredAppeared' /\ NamelessExcused' /\ AlertsInFront' /\ PopupsCanBeClosed'
  BY <1>0 DEF CoveredAppeared, NamelessExcused, Excused, AlertsInFront, PopupsCanBeClosed
<1>9. OneAlert'
  <2> SUFFICES ASSUME NEW j \in 1..MaxMains
               PROVE  (OnItsWay("UPDATE_VERSION", j) + HowMany(layers, Alerts(j)))' <= 1
    BY DEF OneAlert
  <2>1. OnItsWay("UPDATE_VERSION", j) = OnItsWay("UPDATE_VERSION", j)' + 0
    BY <1>0, <1>2
  <2>2. OnItsWay("UPDATE_VERSION", j) = OnItsWay("UPDATE_VERSION", j)'
    BY <1>3, <2>1
  <2> QED
    BY <1>0, <2>2 DEF OneAlert
<1>10. AnswersToQuestions'
  <2> SUFFICES ASSUME NEW j \in 1..MaxMains
               PROVE  (OnItsWay("REQUEST_AI", j) + HowMany(posted, {j})
                           + HowMany(layers, Popups(j)))' <= questions'[j]
    BY DEF AnswersToQuestions
  <2>1. OnItsWay("REQUEST_AI", j) + HowMany(posted, {j}) + HowMany(layers, Popups(j))
            <= questions[j]
    BY DEF AnswersToQuestions
  <2>2. OnItsWay("REQUEST_AI", j) = OnItsWay("REQUEST_AI", j)' + (IF j = k THEN 1 ELSE 0)
    BY <1>0, <1>2
  <2>3. HowMany(posted', {j}) = HowMany(posted, {j}) + (IF j = k THEN 1 ELSE 0)
    <3>1. HowMany(posted', {j}) = HowMany(posted, {j}) + (IF k \in {j} THEN 1 ELSE 0)
      BY <1>0, <1>1, <1>4, CountAppend
    <3> QED
      BY <3>1
  <2>4. /\ OnItsWay("REQUEST_AI", j)' \in Nat /\ HowMany(posted, {j}) \in Nat
        /\ HowMany(layers, Popups(j)) \in Nat /\ questions[j] \in Nat
    BY <1>3, NumbersFit
  <2> QED
    BY <1>0, <2>1, <2>2, <2>3, <2>4
<1> QED
  BY <1>2, <1>6, <1>7, <1>8, <1>9, <1>10

\* The alert takes the place of the only answer about the version that is on its
\* way to its screen.
LEMMA ReceiveVersionKeeps ==
    ASSUME IInv, ReceiveVersion
    PROVE  IInv'
<1> USE DEF IInv
<1>0. PICK k \in 1..mains :
        /\ Receives("UPDATE_VERSION", "accepted", k)
        /\ Reply.answer.body # Garbled
        /\ IF Reply.answer.body # <<>> /\ compareVersion(Installed, Reply.answer.body) > 0
             THEN Presented(k, Alert(k, Reply.answer.body))
             ELSE UNCHANGED layers
  BY DEF ReceiveVersion
<1>1. /\ delivered # <<>> /\ Reply.id = "UPDATE_VERSION" /\ Reply.receiver = k
      /\ Taken
      /\ UNCHANGED <<inFlight, overtaken, nickname, running, top, mains, appeared, posted,
                     questions, history>>
  BY <1>0 DEF ReceiveVersion, Receives, screenVars
<1>2. CASE UNCHANGED layers
  BY <1>1, <1>2, TakenKeeps DEF screenVars
<1> DEFINE alert == Alert(k, Reply.answer.body)
<1>3. CASE /\ Reply.answer.body # <<>> /\ compareVersion(Installed, Reply.answer.body) > 0
           /\ k = mains /\ top = "main" /\ layers' = Append(layers, alert)
  <2>1. /\ TasksFit' /\ Pending' \subseteq Pending /\ Reply \in Done
        /\ \A id, j : OnItsWay(id, j) =
               OnItsWay(id, j)' + (IF Reply.id = id /\ Reply.receiver = j THEN 1 ELSE 0)
    BY <1>1, TakenFacts
  <2>2. \A id, j : OnItsWay(id, j)' \in Nat
    BY <2>1, CountFacts DEF TasksFit, OnItsWay
  <2>3. alert \in Layer /\ alert.kind = "alert" /\ alert.main = k /\ alert.live
    <3>1. Reply.answer.body \in {<<>>} \cup Offered
      BY <2>1 DEF Done, Task
    <3>2. Reply.answer.body \in Announced
      BY <1>0, <1>3, <3>1, VersionFacts
    <3>3. k \in 1..MaxMains
      BY BoundsAssumption DEF StateFits
    <3> QED
      BY <3>2, <3>3 DEF Alert, Layer
  <2>4. layers \in Seq(Layer)
    BY DEF StateFits
  <2> HIDE DEF alert
  <2>5. /\ layers' \in Seq(Layer)
        /\ ToSet(layers') = ToSet(layers) \cup {alert}
        /\ \A S : HowMany(layers', S) = HowMany(layers, S) + (IF alert \in S THEN 1 ELSE 0)
    BY <1>3, <2>3, <2>4, AppendFacts, CountAppend
  <2>6. StateFits'
    BY <1>1, <2>5 DEF StateFits
  <2>7. OfThisRun'
    BY <1>1, <2>1, <2>3, <2>5 DEF OfThisRun
  <2>8. CoveredAppeared' /\ NamelessExcused'
    BY <1>1 DEF CoveredAppeared, NamelessExcused, Excused
  <2>9. AlertsInFront'
    BY <1>1, <1>3, <2>3, <2>5 DEF AlertsInFront
  <2>10. PopupsCanBeClosed'
    <3>1. \A l \in ToSet(layers) : ~l.live => questions[l.main] > 1
      BY DEF PopupsCanBeClosed, ToSet
    <3>2. \A l \in ToSet(layers') : ~l.live => questions'[l.main] > 1
      BY <1>1, <2>3, <2>5, <3>1
    <3> QED
      BY <3>2 DEF PopupsCanBeClosed, ToSet
  <2>11. OneAlert'
    <3> SUFFICES ASSUME NEW j \in 1..MaxMains
                 PROVE  (OnItsWay("UPDATE_VERSION", j) + HowMany(layers, Alerts(j)))' <= 1
      BY DEF OneAlert
    <3>1. OnItsWay("UPDATE_VERSION", j) + HowMany(layers, Alerts(j)) <= 1
      BY DEF OneAlert
    <3>2. OnItsWay("UPDATE_VERSION", j) =
              OnItsWay("UPDATE_VERSION", j)' + (IF j = k THEN 1 ELSE 0)
      BY <1>1, <2>1
    <3>3. HowMany(layers', Alerts(j)) = HowMany(layers, Alerts(j)) + (IF j = k THEN 1 ELSE 0)
      <4>1. alert \in Alerts(j) <=> j = k
        BY <2>3 DEF Alerts
      <4> QED
        BY <2>5, <4>1
    <3>4. OnItsWay("UPDATE_VERSION", j)' \in Nat /\ HowMany(layers, Alerts(j)) \in Nat
      BY <2>2, NumbersFit
    <3> QED
      BY <3>1, <3>2, <3>3, <3>4
  <2>12. AnswersToQuestions'
    <3> SUFFICES ASSUME NEW j \in 1..MaxMains
                 PROVE  (OnItsWay("REQUEST_AI", j) + HowMany(posted, {j})
                             + HowMany(layers, Popups(j)))' <= questions'[j]
      BY DEF AnswersToQuestions
    <3>1. OnItsWay("REQUEST_AI", j) + HowMany(posted, {j}) + HowMany(layers, Popups(j))
              <= questions[j]
      BY DEF AnswersToQuestions
    <3>2. OnItsWay("REQUEST_AI", j) = OnItsWay("REQUEST_AI", j)' + 0
      BY <1>1, <2>1
    <3>3. HowMany(layers', Popups(j)) = HowMany(layers, Popups(j)) + 0
      <4>1. alert \notin Popups(j)
        BY <2>3 DEF Popups
      <4> QED
        BY <2>5, <4>1
    <3>4. OnItsWay("REQUEST_AI", j)' \in Nat /\ HowMany(layers, Popups(j)) \in Nat
      BY <2>2, NumbersFit
    <3>5. /\ OnItsWay("REQUEST_AI", j) = OnItsWay("REQUEST_AI", j)'
          /\ HowMany(layers', Popups(j)) = HowMany(layers, Popups(j))
      BY <3>2, <3>3, <3>4
    <3> QED
      BY <1>1, <3>1, <3>5
  <2> QED
    BY <2>1, <2>6, <2>7, <2>8, <2>9, <2>10, <2>11, <2>12
<1> QED
  BY <1>0, <1>2, <1>3 DEF Presented

LEMMA ReceiveTrapKeeps ==
    ASSUME IInv, ReceiveTrap
    PROVE  IInv'
BY EndedKeeps DEF ReceiveTrap

LEMMA KillKeeps ==
    ASSUME IInv, Kill
    PROVE  IInv'
BY EndedKeeps DEF Kill

LEMMA OnTheWayKeeps ==
    ASSUME IInv, OnTheWay
    PROVE  IInv'
<1> USE DEF IInv
<1>0. UNCHANGED <<nickname, running, top, mains, appeared, layers, posted, questions, history>>
  BY DEF OnTheWay, screenVars
<1>1. /\ TasksFit'
      /\ \A t \in Pending' : \E u \in Pending : t.receiver = u.receiver
      /\ \A id, k : OnItsWay(id, k)' = OnItsWay(id, k)
  BY SessionFacts
<1>2. StateFits'
  BY <1>0 DEF StateFits
<1>3. OfThisRun'
  BY <1>0, <1>1 DEF OfThisRun
<1>4. CoveredAppeared' /\ NamelessExcused' /\ AlertsInFront'
  BY <1>0 DEF CoveredAppeared, NamelessExcused, Excused, AlertsInFront
<1>5. \A id, k : OnItsWay(id, k)' \in Nat /\ OnItsWay(id, k)' <= OnItsWay(id, k)
  BY <1>1, NumbersFit
<1>6. OneAlert' /\ AnswersToQuestions' /\ PopupsCanBeClosed'
  BY <1>0, <1>5, SameCounts
<1> QED
  BY <1>1, <1>2, <1>3, <1>4, <1>6

LEMMA StutterKeeps ==
    ASSUME IInv, UNCHANGED vars
    PROVE  IInv'
<1> USE DEF IInv, vars, httpVars, screenVars
<1>1. TasksFit' /\ StateFits'
  BY DEF TasksFit, StateFits
<1>2. OfThisRun' /\ CoveredAppeared' /\ NamelessExcused' /\ AlertsInFront'
  BY DEF OfThisRun, Pending, CoveredAppeared, NamelessExcused, Excused, AlertsInFront
<1>3. OneAlert' /\ AnswersToQuestions' /\ PopupsCanBeClosed'
  BY DEF OneAlert, AnswersToQuestions, PopupsCanBeClosed, OnItsWay
<1> QED
  BY <1>1, <1>2, <1>3

LEMMA StepKeeps == IInv /\ [Next]_vars => IInv'
<1> SUFFICES ASSUME IInv, [Next]_vars
             PROVE  IInv'
  OBVIOUS
<1>1. CASE Launch
  BY <1>1, LaunchKeeps
<1>2. CASE viewDidAppear
  BY <1>2, AppearKeeps
<1>3. CASE SaveNickname
  BY <1>3, SaveNicknameKeeps
<1>4. CASE onBackPressed
  BY <1>4, BackKeeps
<1>5. CASE OpenScreen
  BY <1>5, OpenScreenKeeps
<1>6. CASE AskAI
  BY <1>6, AskAIKeeps
<1>7. CASE ShowAnswer
  BY <1>7, ShowAnswerKeeps
<1>8. CASE Close
  BY <1>8, CloseKeeps
<1>9. CASE Kill
  BY <1>9, KillKeeps
<1>10. CASE ReceiveUserUpdate
  BY <1>10, ReceiveUserUpdateKeeps
<1>11. CASE ReceiveTrap
  BY <1>11, ReceiveTrapKeeps
<1>12. CASE ReceiveRefusal
  BY <1>12, ReceiveRefusalKeeps
<1>13. CASE ReceiveAnswer
  BY <1>13, ReceiveAnswerKeeps
<1>14. CASE ReceiveVersion
  BY <1>14, ReceiveVersionKeeps
<1>15. CASE OnTheWay
  BY <1>15, OnTheWayKeeps
<1>16. CASE UNCHANGED vars
  BY <1>16, StutterKeeps
<1> QED
  BY <1>1, <1>2, <1>3, <1>4, <1>5, <1>6, <1>7, <1>8, <1>9, <1>10, <1>11, <1>12, <1>13, <1>14,
     <1>15, <1>16 DEF Next

LEMMA AlwaysIInv == Spec => []IInv
BY InitInv, StepKeeps, PTL DEF Spec

-----------------------------------------------------------------------------
(* Theorems                                                                  *)

\* The state is well typed, everything belongs to a main screen of this run, and
\* there is at most one alert of ViewController, that of the screen in front.
THEOREM StateIsTyped == Spec => []TypeOK
<1>1. IInv => TypeOK
  <2> SUFFICES ASSUME IInv
               PROVE  TypeOK
    OBVIOUS
  <2> USE DEF IInv
  <2>1. inFlight \in Seq(Tasks({"unserved", "accepted", "refused"}))
    <3>1. \A t \in ToSet(inFlight) : t \in Waiting /\ t.receiver \in 1..mains
      BY RowsFacts DEF TasksFit, OfThisRun, Pending
    <3>2. \A t \in Waiting : t.receiver \in 1..mains
                                => t \in Tasks({"unserved", "accepted", "refused"})
      BY DEF Waiting, Task, Tasks
    <3>3. ToSet(inFlight) \subseteq Tasks({"unserved", "accepted", "refused"})
      BY <3>1, <3>2
    <3> QED
      BY <3>3, RowsFacts DEF TasksFit
  <2>2. delivered \in Seq(Tasks({"accepted", "refused", "no data"}))
    <3>1. \A t \in ToSet(delivered) : t \in Done /\ t.receiver \in 1..mains
      BY RowsFacts DEF TasksFit, OfThisRun, Pending
    <3>2. \A t \in Done : t.receiver \in 1..mains
                              => t \in Tasks({"accepted", "refused", "no data"})
      BY DEF Done, Task, Tasks
    <3>3. ToSet(delivered) \subseteq Tasks({"accepted", "refused", "no data"})
      BY <3>1, <3>2
    <3> QED
      BY <3>3, RowsFacts DEF TasksFit
  <2>3. posted \in Seq(1..mains)
    <3>1. ToSet(posted) \subseteq 1..mains
      BY DEF OfThisRun
    <3> QED
      BY <3>1, RowsFacts DEF StateFits
  <2>4. ASSUME NEW i \in DOMAIN layers
        PROVE  \/ layers[i] \in [kind : {"popup"}, main : 1..mains, live : BOOLEAN,
                                 version : {<<>>}]
               \/ /\ layers[i] \in [kind : {"alert"}, main : {mains}, live : {TRUE},
                                    version : Offered]
                  /\ top = "main"
                  /\ \A j \in DOMAIN layers \ {i} : layers[j].kind = "popup"
    <3>1. \A j \in DOMAIN layers : layers[j] \in Layer /\ layers[j] \in ToSet(layers)
      BY RowsFacts DEF StateFits
    <3>2. layers[i] \in Layer /\ layers[i].main \in 1..mains
      BY <3>1 DEF OfThisRun
    <3>3. CASE layers[i].kind = "popup"
      BY <3>2, <3>3 DEF Layer
    <3>4. CASE layers[i].kind = "alert"
      <4>1. layers[i].main = mains /\ top = "main"
        BY <3>1, <3>4 DEF AlertsInFront
      <4>2. layers[i] \in [kind : {"alert"}, main : {mains}, live : {TRUE}, version : Offered]
        BY <3>2, <3>4, <4>1 DEF Layer, Announced
      <4>3. ASSUME NEW j \in DOMAIN layers \ {i}
            PROVE  layers[j].kind = "popup"
        <5> SUFFICES ASSUME layers[j].kind # "popup"
                     PROVE  FALSE
          OBVIOUS
        <5>1. layers[j] \in Layer /\ layers[j].kind = "alert"
          BY <3>1 DEF Layer
        <5>2. layers[j].main = mains
          BY <3>1, <5>1 DEF AlertsInFront
        <5>3. layers[i] \in Alerts(mains) /\ layers[j] \in Alerts(mains)
          BY <3>2, <3>4, <4>1, <5>1, <5>2 DEF Alerts
        <5>4. HowMany(layers, Alerts(mains)) >= 2
          BY <5>3, CountFacts DEF StateFits
        <5>5. mains \in 1..MaxMains
          BY <3>2, BoundsAssumption DEF StateFits
        <5>6. OnItsWay("UPDATE_VERSION", mains) + HowMany(layers, Alerts(mains)) <= 1
          BY <5>5 DEF OneAlert
        <5>7. /\ OnItsWay("UPDATE_VERSION", mains) \in Nat
              /\ HowMany(layers, Alerts(mains)) \in Nat
          BY NumbersFit
        <5> QED
          BY <5>4, <5>6, <5>7
      <4> QED
        BY <4>1, <4>2, <4>3
    <3> QED
      BY <3>2, <3>3, <3>4 DEF Layer
  <2>5. {running, appeared, overtaken} \subseteq BOOLEAN
    <3>1. running \in BOOLEAN /\ appeared \in BOOLEAN /\ overtaken \in BOOLEAN
      BY DEF StateFits, TasksFit
    <3> QED
      BY <3>1
  <2> QED
    BY <2>1, <2>2, <2>3, <2>4, <2>5 DEF TypeOK, StateFits
<1> QED
  BY <1>1, AlwaysIInv, PTL

\* viewDidAppear lets nobody without a nickname stay on the main screen unasked, but
\* for the two cases the property names.
THEOREM NamelessIsAsked == Spec => []NamelessWasAsked
<1>1. IInv => NamelessWasAsked
  BY DEF IInv, NamelessExcused, Excused, NamelessWasAsked, Touchable
<1> QED
  BY <1>1, AlwaysIInv, PTL

\* A pop-up of the AI that nothing closes needs a main screen that was asked twice.
THEOREM PopupsStayClosable == Spec => []PopupsCanBeClosed
<1>1. IInv => PopupsCanBeClosed
  BY DEF IInv
<1> QED
  BY <1>1, AlwaysIInv, PTL

\* compareVersion announces newer versions only, whatever the server offers, and
\* those with another number of components.
THEOREM AnnouncedUpdatesAreNewer == Spec => []UpdatesAreNewer
<1>1. IInv => UpdatesAreNewer
  <2> SUFFICES ASSUME IInv, NEW i \in DOMAIN layers, layers[i].kind = "alert"
               PROVE  \/ Newer(layers[i].version, Installed)
                      \/ Len(layers[i].version) # Len(Installed)
    BY DEF UpdatesAreNewer
  <2>1. layers[i] \in Layer
    BY RowsFacts DEF IInv, StateFits
  <2>2. layers[i].version \in Announced
    BY <2>1 DEF Layer
  <2> QED
    BY <2>2 DEF Announced
<1> QED
  BY <1>1, AlwaysIInv, PTL
=============================================================================
