----------------------------- MODULE MemoShareProofs -----------------------------
(***************************************************************************)
(* Proofs about sharing a memo from its form.  A share is on one errand at *)
(* a time: its text is on the way to the server or back, or the reply is   *)
(* being looked at, or its picture is on the way, or the user was told how *)
(* it ended.  As long as the user has not changed the picture, the form    *)
(* shows and names what it did when the share button was touched.          *)
(***************************************************************************)
EXTENDS MemoShare, RowLemmas

-----------------------------------------------------------------------------
(* The inductive invariant                                                   *)

Image == Picture \cup {None}
Ends == {"success", "failure", Unheard, Dropped}
ShareRecord ==
    [ shown : Image, said : BOOLEAN, changed : BOOLEAN, sent : Image, told : Ends \cup {"nothing"} ]

\* Requests, for any share.
Task(statuses) ==
    [ id       : {"INSERT_BUCKET", "INSERT_IMAGE"},
      data     : Nat \ {0},
      receiver : {"front"},
      answer   : [status : statuses, body : {<<>>}] ]
Waiting ==
    {t \in Task({"unserved", "accepted", "refused"}) :
        t.answer.status = "unserved" => t.answer = Unserved}
Done == Task({"accepted", "refused", "no data"})

TasksFit ==
    /\ inFlight \in Seq(Waiting)
    /\ delivered \in Seq(Done)

FormFits ==
    /\ mPhotoPath \in Image /\ choosing \in Image
    /\ ivImage \in [picture : Image, isHidden : BOOLEAN]
    /\ receiving \in [step : {"none", "UPLOAD_IMAGE", "image"}, share : Nat]
    /\ (receiving.step = "none" => receiving = Idle)
    /\ shares \in Seq(ShareRecord)

\* Whatever is under way is about a share that was made.
Pending == ToSet(inFlight) \cup ToSet(delivered)
Receiving == receiving.step # "none"
OfShares ==
    /\ \A t \in Pending : t.data \in DOMAIN shares
    /\ Receiving => receiving.share \in DOMAIN shares

\* The form shows a picture exactly if it names a file, which may be of no use;
\* while the picker's picture is half taken, the form shows that one already.
FormIsNamed ==
    IF choosing = None
      THEN /\ ivImage.isHidden <=> mPhotoPath = None
           /\ ~ivImage.isHidden => ivImage.picture \in {mPhotoPath, None}
      ELSE /\ top = "picker"
           /\ ivImage = [picture |-> choosing, isHidden |-> FALSE]
           /\ \A n \in DOMAIN shares : shares[n].changed

\* A share the user changed nothing about is about the form as it is.
FormIsAsShared ==
    \A n \in DOMAIN shares : ~shares[n].changed =>
        /\ shares[n].shown = Shown
        /\ shares[n].said <=> mPhotoPath # None

\* One errand at a time, and none when the user was told how the share ended.
For(n) == {t \in Task({"unserved", "accepted", "refused", "no data"}) : t.data = n}
OnItsWay(n) == HowMany(inFlight, For(n)) + HowMany(delivered, For(n))
OneErrand ==
    \A n \in DOMAIN shares :
        OnItsWay(n) + (IF Receiving /\ receiving.share = n THEN 1 ELSE 0)
                    + (IF shares[n].told = "nothing" THEN 0 ELSE 1) <= 1

\* The picture is sent once the server took the text, and only if it was told to
\* expect one, unless the user changed the picture.
Announced(n) == shares[n].changed \/ shares[n].said
Errands ==
    /\ \A t \in Pending :
          IF t.id = "INSERT_BUCKET" THEN shares[t.data].sent = None
                                    ELSE shares[t.data].sent # None /\ Announced(t.data)
    /\ Receiving => shares[receiving.share].sent = None
    /\ receiving.step = "image" => Announced(receiving.share)

IInv ==
    /\ TasksFit
    /\ FormFits
    /\ OfShares
    /\ FormIsNamed
    /\ FormIsAsShared
    /\ OneErrand
    /\ Errands
    /\ SharesSendWhatWasShown

-----------------------------------------------------------------------------
(* Requests on their way                                                     *)

LEMMA NumbersFit ==
    ASSUME TasksFit
    PROVE  \A n : OnItsWay(n) \in Nat
<1>1. \A n : HowMany(inFlight, For(n)) \in Nat /\ HowMany(delivered, For(n)) \in Nat
  BY CountFacts DEF TasksFit
<1> QED
  BY <1>1 DEF OnItsWay

LEMMA SendFacts ==
    ASSUME TasksFit, NEW id \in {"INSERT_BUCKET", "INSERT_IMAGE"}, NEW n \in Nat \ {0},
           Send(Request(id, n, "front")), UNCHANGED delivered
    PROVE  /\ TasksFit'
           /\ \A t \in Pending' : t \in Pending \/ (t.id = id /\ t.data = n)
           /\ \A k : OnItsWay(k)' = OnItsWay(k) + (IF k = n THEN 1 ELSE 0)
<1> DEFINE request == Request(id, n, "front")
<1>1. /\ request \in Waiting
      /\ request.id = id /\ request.data = n
      /\ \A k : request \in For(k) <=> k = n
  BY DEF Request, Unserved, Waiting, Task, For
<1> HIDE DEF request
<1>2. inFlight' = Append(inFlight, request)
  BY DEF Send, request
<1>3. inFlight' \in Seq(Waiting) /\ ToSet(inFlight') = ToSet(inFlight) \cup {request}
  BY <1>1, <1>2, AppendFacts DEF TasksFit
<1>4. ASSUME NEW k
      PROVE  OnItsWay(k)' = OnItsWay(k) + (IF k = n THEN 1 ELSE 0)
  <2> DEFINE S == For(k)
  <2>1. HowMany(inFlight', S) = HowMany(inFlight, S) + (IF request \in S THEN 1 ELSE 0)
    BY <1>1, <1>2, CountAppend DEF TasksFit
  <2>2. HowMany(inFlight, S) \in Nat /\ HowMany(delivered, S) \in Nat
    BY CountFacts DEF TasksFit
  <2> QED
    BY <1>1, <2>1, <2>2 DEF OnItsWay
<1> QED
  BY <1>1, <1>3, <1>4 DEF TasksFit, Pending

LEMMA TakenFacts ==
    ASSUME TasksFit, delivered # <<>>, Taken, UNCHANGED inFlight
    PROVE  /\ TasksFit'
           /\ Reply \in Done /\ Reply \in Pending
           /\ Pending' \subseteq Pending
           /\ \A k : OnItsWay(k) = OnItsWay(k)' + (IF k = Reply.data THEN 1 ELSE 0)
<1>1. /\ Reply \in Done
      /\ delivered' \in Seq(Done)
      /\ ToSet(delivered) = ToSet(delivered') \cup {Reply}
  BY TailFacts DEF TasksFit, Taken, Reply
<1>2. \A k : Reply \in For(k) <=> k = Reply.data
  BY <1>1 DEF Done, Task, For
<1>3. ASSUME NEW k
      PROVE  OnItsWay(k) = OnItsWay(k)' + (IF k = Reply.data THEN 1 ELSE 0)
  <2> DEFINE S == For(k)
  <2>1. HowMany(delivered, S) = HowMany(delivered', S) + (IF Reply \in S THEN 1 ELSE 0)
    BY CountTail DEF TasksFit, Taken, Reply
  <2>2. HowMany(inFlight, S) \in Nat /\ HowMany(delivered, S) \in Nat /\ HowMany(delivered', S) \in Nat
    BY <1>1, CountFacts DEF TasksFit
  <2> QED
    BY <1>2, <2>1, <2>2 DEF OnItsWay
<1> QED
  BY <1>1, <1>3 DEF TasksFit, Pending

\* A share that has a request on its way is on no other errand.
LEMMA PendingFacts ==
    ASSUME TasksFit, NEW t \in Pending
    PROVE  OnItsWay(t.data) # 0
<1>1. t \in For(t.data)
  <2>1. t \in Waiting \cup Done
    BY RowsFacts DEF TasksFit, Pending
  <2> QED
    BY <2>1 DEF Waiting, Done, Task, For
<1> DEFINE S == For(t.data)
<1>2. HowMany(inFlight, S) \in Nat /\ HowMany(delivered, S) \in Nat
  BY CountFacts DEF TasksFit
<1>3. HowMany(inFlight, S) # 0 \/ HowMany(delivered, S) # 0
  BY <1>1, CountFacts DEF TasksFit, Pending, ToSet
<1> QED
  BY <1>2, <1>3 DEF OnItsWay

\* A request with an answer is still of its kind.
LEMMA AnsweredFacts ==
    ASSUME NEW t \in Waiting, NEW answer \in [status : {"accepted", "refused", "no data"}, body : {<<>>}]
    PROVE  LET x == [t EXCEPT !.answer = answer]
           IN  /\ x \in Done
               /\ answer.status # "no data" => x \in Waiting
               /\ x.data = t.data /\ x.id = t.id
               /\ \A k : x \in For(k) <=> t \in For(k)
<1>1. Unserved.status = "unserved"
  BY DEF Unserved
<1> QED
  BY <1>1 DEF Waiting, Done, Task, For

\* Serving and completing requests adds none and loses none.
LEMMA SessionFacts ==
    ASSUME TasksFit, NEW i \in DOMAIN inFlight, ServeShare(i) \/ CompleteTask(i)
    PROVE  /\ TasksFit'
           /\ \A t \in Pending' : \E u \in Pending : t.data = u.data /\ t.id = u.id
           /\ \A k : OnItsWay(k)' = OnItsWay(k)
<1>1. inFlight[i] \in Waiting /\ inFlight[i] \in Pending
  BY RowsFacts DEF TasksFit, Pending
<1>2. ASSUME NEW answer \in {Accepted(<<>>), Refused}, Serve(i, answer)
      PROVE  /\ TasksFit'
             /\ \A t \in Pending' : \E u \in Pending : t.data = u.data /\ t.id = u.id
             /\ \A k : OnItsWay(k)' = OnItsWay(k)
  <2> DEFINE x == [inFlight[i] EXCEPT !.answer = answer]
  <2>1. /\ x \in Waiting
        /\ x.data = inFlight[i].data /\ x.id = inFlight[i].id
        /\ \A k : x \in For(k) <=> inFlight[i] \in For(k)
    <3>1. /\ answer \in [status : {"accepted", "refused", "no data"}, body : {<<>>}]
          /\ answer.status # "no data"
      <4>1. /\ Accepted(<<>>).status = "accepted"
            /\ Accepted(<<>>) \in [status : {"accepted", "refused", "no data"}, body : {<<>>}]
        BY DEF Accepted
      <4>2. /\ Refused.status = "refused"
            /\ Refused \in [status : {"accepted", "refused", "no data"}, body : {<<>>}]
        BY DEF Refused
      <4> QED
        BY <4>1, <4>2
    <3> QED
      BY <1>1, <3>1, AnsweredFacts
  <2>2. inFlight' = [inFlight EXCEPT ![i] = x] /\ delivered' = delivered
    BY <1>2 DEF Serve
  <2> HIDE DEF x
  <2>3. inFlight \in Seq(Waiting)
    BY DEF TasksFit
  <2>4. LET new == [inFlight EXCEPT ![i] = x]
        IN  /\ new \in Seq(Waiting)
            /\ ToSet(new) \cup {inFlight[i]} = ToSet(inFlight) \cup {x}
            /\ \A k : HowMany(new, For(k)) = HowMany(inFlight, For(k))
    <3> DEFINE new == [inFlight EXCEPT ![i] = x]
    <3>1. /\ new \in Seq(Waiting)
          /\ ToSet(new) \cup {inFlight[i]} = ToSet(inFlight) \cup {x}
      BY <2>1, <2>3, ReplaceFacts
    <3>2. ASSUME NEW k
          PROVE  HowMany(new, For(k)) = HowMany(inFlight, For(k))
      BY <2>1, <2>3, CountReplace
    <3> QED
      BY <3>1, <3>2
  <2>5. TasksFit'
    BY <2>2, <2>4 DEF TasksFit
  <2>6. \A k : OnItsWay(k)' = OnItsWay(k)
    BY <2>2, <2>4 DEF OnItsWay
  <2> QED
    BY <1>1, <2>1, <2>2, <2>4, <2>5, <2>6 DEF Pending
<1>3. ASSUME Complete(i)
      PROVE  /\ TasksFit'
             /\ \A t \in Pending' : \E u \in Pending : t.data = u.data /\ t.id = u.id
             /\ \A k : OnItsWay(k)' = OnItsWay(k)
  <2>1. PICK answer \in {inFlight[i].answer, NoData} \ {Unserved} :
          delivered' = Append(delivered, [inFlight[i] EXCEPT !.answer = answer])
    BY <1>3 DEF Complete
  <2> DEFINE x == [inFlight[i] EXCEPT !.answer = answer]
  <2>2. /\ x \in Done
        /\ x.data = inFlight[i].data /\ x.id = inFlight[i].id
        /\ \A k : x \in For(k) <=> inFlight[i] \in For(k)
    <3>1. answer \in [status : {"accepted", "refused", "no data"}, body : {<<>>}]
      <4>1. CASE answer = NoData
        BY <4>1 DEF NoData
      <4>2. CASE answer = inFlight[i].answer /\ answer # Unserved
        BY <1>1, <4>2 DEF Waiting, Task
      <4> QED
        BY <2>1, <4>1, <4>2
    <3> QED
      BY <1>1, <3>1, AnsweredFacts
  <2> HIDE DEF x
  <2>3. delivered' = Append(delivered, x) /\ inFlight' = RemoveAt(inFlight, i)
    BY <1>3, <2>1 DEF Complete, x
  <2>4. /\ inFlight' \in Seq(Waiting)
        /\ ToSet(inFlight) = ToSet(inFlight') \cup {inFlight[i]}
    BY <2>3, RemoveAtFacts DEF TasksFit
  <2>5. /\ delivered' \in Seq(Done)
        /\ ToSet(delivered') = ToSet(delivered) \cup {x}
    BY <2>2, <2>3, AppendFacts DEF TasksFit
  <2>6. ASSUME NEW k
        PROVE  OnItsWay(k)' = OnItsWay(k)
    <3> DEFINE S == For(k)
    <3>1. HowMany(inFlight, S) = HowMany(inFlight', S) + (IF inFlight[i] \in S THEN 1 ELSE 0)
      BY <2>3, CountRemoveAt DEF TasksFit
    <3>2. HowMany(delivered', S) = HowMany(delivered, S) + (IF x \in S THEN 1 ELSE 0)
      BY <2>2, <2>3, CountAppend DEF TasksFit
    <3>3. /\ HowMany(inFlight', S) \in Nat /\ HowMany(delivered, S) \in Nat
          /\ (x \in S <=> inFlight[i] \in S)
      BY <2>2, <2>4, CountFacts DEF TasksFit
    <3> HIDE DEF S
    <3> QED
      BY <3>1, <3>2, <3>3 DEF OnItsWay, S
  <2>7. TasksFit'
    BY <2>4, <2>5 DEF TasksFit
  <2> QED
    BY <1>1, <2>2, <2>4, <2>5, <2>6, <2>7 DEF Pending
<1> QED
  BY <1>2, <1>3 DEF ServeShare, CompleteTask

-----------------------------------------------------------------------------
(* Shares                                                                    *)

LEMMA NothingFits ==
    ASSUME NEW S
    PROVE  /\ <<>> \in Seq(S) /\ ToSet(<<>>) = {}
           /\ \A T : HowMany(<<>>, T) = 0
<1>1. <<>> \in Seq(S)
  BY EmptySeq
<1>2. DOMAIN <<>> = {}
  OBVIOUS
<1>3. \A T : HowMany(<<>>, T) = 0
  BY <1>1, <1>2, CountFacts
<1> QED
  BY <1>1, <1>2, <1>3 DEF ToSet

LEMMA ShareFields ==
    ASSUME FormFits, NEW n \in DOMAIN shares
    PROVE  /\ n \in Nat \ {0}
           /\ shares[n] \in ShareRecord
           /\ DOMAIN shares = 1..Len(shares) /\ Len(shares) \in Nat
<1>1. /\ DOMAIN shares = 1..Len(shares) /\ Len(shares) \in Nat
      /\ \A j \in DOMAIN shares : shares[j] \in ShareRecord
  BY RowsFacts DEF FormFits
<1> QED
  BY <1>1

LEMMA ChangedFacts ==
    ASSUME FormFits, Changed
    PROVE  /\ shares' \in Seq(ShareRecord)
           /\ DOMAIN shares' = DOMAIN shares
           /\ \A n \in DOMAIN shares :
                /\ shares'[n].changed
                /\ UNCHANGED <<shares[n].shown, shares[n].said, shares[n].sent, shares[n].told>>
<1>1. ASSUME NEW n \in DOMAIN shares
      PROVE  /\ [shares[n] EXCEPT !.changed = TRUE] \in ShareRecord
             /\ shares'[n] = [shares[n] EXCEPT !.changed = TRUE]
             /\ shares'[n].changed
             /\ UNCHANGED <<shares[n].shown, shares[n].said, shares[n].sent, shares[n].told>>
  <2>1. shares[n] \in ShareRecord
    BY ShareFields
  <2>2. shares'[n] = [shares[n] EXCEPT !.changed = TRUE]
    BY DEF Changed
  <2> QED
    BY <2>1, <2>2 DEF ShareRecord
<1>2. shares' \in [DOMAIN shares -> ShareRecord]
  BY <1>1 DEF Changed
<1>3. shares \in Seq(ShareRecord)
  BY DEF FormFits
<1> QED
  BY <1>1, <1>2, <1>3, MappedFacts

LEMMA ToldFacts ==
    ASSUME FormFits, NEW n \in DOMAIN shares, NEW what \in Ends, Told(n, what)
    PROVE  /\ shares' \in Seq(ShareRecord)
           /\ DOMAIN shares' = DOMAIN shares
           /\ \A k \in DOMAIN shares :
                /\ UNCHANGED <<shares[k].shown, shares[k].said, shares[k].changed, shares[k].sent>>
                /\ shares'[k].told = IF k = n THEN what ELSE shares[k].told
<1> DEFINE x == [shares[n] EXCEPT !.told = what]
<1>1. /\ x \in ShareRecord
      /\ x.shown = shares[n].shown /\ x.said = shares[n].said /\ x.changed = shares[n].changed
      /\ x.sent = shares[n].sent /\ x.told = what
  <2>1. shares[n] \in ShareRecord
    BY ShareFields
  <2> QED
    BY <2>1 DEF ShareRecord
<1>2. shares' = [shares EXCEPT ![n] = x]
  BY DEF Told
<1> HIDE DEF x
<1>3. shares \in Seq(ShareRecord)
  BY DEF FormFits
<1>4. shares' \in Seq(ShareRecord)
  BY <1>1, <1>2, <1>3, ReplaceFacts
<1>5. DOMAIN shares' = DOMAIN shares /\ \A k \in DOMAIN shares :
        shares'[k] = IF k = n THEN x ELSE shares[k]
  BY <1>2
<1> QED
  BY <1>1, <1>4, <1>5

\* The user changes the form: what is under way goes on as it was.
LEMMA FormChangeKeeps ==
    ASSUME IInv, UNCHANGED <<httpVars, receiving>>, DOMAIN shares' = DOMAIN shares,
           \A n \in DOMAIN shares :
               /\ UNCHANGED <<shares[n].shown, shares[n].said, shares[n].sent, shares[n].told>>
               /\ shares[n].changed => shares'[n].changed
    PROVE  TasksFit' /\ OfShares' /\ OneErrand' /\ Errands' /\ SharesSendWhatWasShown'
<1> USE DEF IInv, httpVars
<1>1. TasksFit'
  BY DEF TasksFit
<1>2. Pending' = Pending /\ (Receiving' <=> Receiving) /\ \A n : OnItsWay(n)' = OnItsWay(n)
  BY DEF Pending, Receiving, OnItsWay
<1>3. OfShares'
  BY <1>2 DEF OfShares
<1>4. OneErrand'
  BY <1>2 DEF OneErrand
<1>5. Errands'
  <2>1. \A n \in DOMAIN shares : Announced(n) => Announced(n)'
    BY DEF Announced
  <2>2. ASSUME NEW t \in Pending
        PROVE  IF t.id = "INSERT_BUCKET"
                 THEN shares'[t.data].sent = None
                 ELSE shares'[t.data].sent # None /\ Announced(t.data)'
    <3>1. t.data \in DOMAIN shares
      BY DEF OfShares
    <3> QED
      BY <2>1, <3>1 DEF Errands
  <2>3. Receiving => /\ shares'[receiving.share].sent = None
                     /\ receiving.step = "image" => Announced(receiving.share)'
    BY <2>1 DEF Errands, OfShares
  <2>4. receiving.step = "image" => Receiving
    BY DEF Receiving
  <2> QED
    BY <1>2, <2>2, <2>3, <2>4 DEF Errands
<1>6. SharesSendWhatWasShown'
  BY DEF SharesSendWhatWasShown
<1> QED
  BY <1>1, <1>3, <1>4, <1>5, <1>6

-----------------------------------------------------------------------------
(* IInv is inductive                                                         *)

LEMMA InitInv == Init => IInv
<1> SUFFICES ASSUME Init
             PROVE  IInv
  OBVIOUS
<1> USE DEF Init, HttpInit
<1>1. TasksFit
  BY NothingFits DEF TasksFit
<1>2. shares \in Seq(ShareRecord) /\ DOMAIN shares = {} /\ Pending = {} /\ ~Receiving
  BY NothingFits DEF Pending, Receiving, Idle
<1>3. /\ mPhotoPath \in Image /\ choosing = None
      /\ ivImage \in [picture : Image, isHidden : BOOLEAN]
      /\ ivImage.isHidden <=> mPhotoPath = None
      /\ ~ivImage.isHidden => ivImage.picture \in {mPhotoPath, None}
  <2>1. CASE mPhotoPath = None /\ ivImage = [picture |-> None, isHidden |-> TRUE]
    BY <2>1 DEF Image
  <2>2. CASE mPhotoPath \in Picture /\ ivImage \in [picture : {mPhotoPath, None}, isHidden : {FALSE}]
    <3>1. ivImage.isHidden = FALSE /\ ivImage.picture \in {mPhotoPath, None}
      BY <2>2
    <3>2. ivImage \in [picture : Image, isHidden : BOOLEAN]
      BY <2>2 DEF Image
    <3> QED
      BY <2>2, <3>1, <3>2, PictureAssumption DEF Image
  <2> QED
    BY <2>1, <2>2
<1>4. FormFits /\ FormIsNamed
  <2>1. receiving \in [step : {"none", "UPLOAD_IMAGE", "image"}, share : Nat]
    BY DEF Idle
  <2> QED
    BY <1>2, <1>3, <2>1 DEF FormFits, FormIsNamed, Image
<1>5. OfShares /\ FormIsAsShared /\ OneErrand /\ SharesSendWhatWasShown
  BY <1>2 DEF OfShares, FormIsAsShared, OneErrand, SharesSendWhatWasShown
<1>6. Errands
  BY <1>2 DEF Errands, Receiving
<1> QED
  BY <1>1, <1>4, <1>5, <1>6 DEF IInv

LEMMA CrashKeeps ==
    ASSUME IInv, Crash
    PROVE  IInv'
<1> USE DEF IInv, Crash, formVars
<1>1. TasksFit'
  BY NothingFits DEF TasksFit
<1>2. Pending' = {} /\ ~Receiving' /\ \A n : OnItsWay(n)' = 0 /\ receiving'.step = "none"
  <2>1. \A n : OnItsWay(n)' = 0
    BY NothingFits DEF OnItsWay
  <2> QED
    BY <2>1, NothingFits DEF Pending, Receiving, Idle
<1>3. FormFits'
  BY DEF FormFits, Idle
<1>4. OfShares' /\ Errands'
  BY <1>2 DEF OfShares, Errands
<1>5. FormIsNamed' /\ FormIsAsShared' /\ SharesSendWhatWasShown'
  BY DEF FormIsNamed, FormIsAsShared, Shown, SharesSendWhatWasShown
<1>6. OneErrand'
  BY <1>2 DEF OneErrand
<1> QED
  BY <1>1, <1>3, <1>4, <1>5, <1>6

LEMMA RemoveImageKeeps ==
    ASSUME IInv, RemoveImage
    PROVE  IInv'
<1> USE DEF IInv
<1>0. /\ top = "WriteDetailView"
      /\ mPhotoPath' = None /\ ivImage' = [ivImage EXCEPT !.isHidden = TRUE] /\ Changed
      /\ UNCHANGED <<httpVars, top, choosing, receiving>>
  BY DEF RemoveImage, MainFree
<1>1. /\ shares' \in Seq(ShareRecord)
      /\ DOMAIN shares' = DOMAIN shares
      /\ \A n \in DOMAIN shares :
           /\ shares'[n].changed
           /\ UNCHANGED <<shares[n].shown, shares[n].said, shares[n].sent, shares[n].told>>
  BY <1>0, ChangedFacts
<1>2. ivImage' \in [picture : Image, isHidden : BOOLEAN] /\ ivImage'.isHidden
  BY <1>0 DEF FormFits
<1>3. FormFits'
  BY <1>0, <1>1, <1>2 DEF FormFits, Image
<1>4. FormIsNamed'
  BY <1>0, <1>2 DEF FormIsNamed
<1>5. FormIsAsShared'
  BY <1>1 DEF FormIsAsShared
<1> QED
  BY <1>0, <1>1, <1>3, <1>4, <1>5, FormChangeKeeps

\* Opening the picker, coming back from it without a picture, and leaving.
LEMMA ScreenKeeps ==
    ASSUME IInv, OpenPicker \/ imagePickerControllerDidCancel \/ Leave
    PROVE  IInv'
<1> USE DEF IInv
<1>0. /\ choosing = None
      /\ UNCHANGED <<httpVars, mPhotoPath, ivImage, choosing, receiving, shares>>
  BY DEF OpenPicker, imagePickerControllerDidCancel, Leave, MainFree, FormIsNamed
<1>1. FormFits' /\ FormIsNamed' /\ FormIsAsShared'
  BY <1>0 DEF FormFits, FormIsNamed, FormIsAsShared, Shown
<1> QED
  BY <1>0, <1>1, FormChangeKeeps

LEMMA ShowImageKeeps ==
    ASSUME IInv, NEW picture \in Picture, ShowImage(picture)
    PROVE  IInv'
<1> USE DEF IInv
<1>0. /\ top = "picker" /\ choosing' = picture
      /\ ivImage' = [picture |-> picture, isHidden |-> FALSE] /\ Changed
      /\ UNCHANGED <<httpVars, top, mPhotoPath, receiving>>
  BY DEF ShowImage
<1>1. /\ shares' \in Seq(ShareRecord)
      /\ DOMAIN shares' = DOMAIN shares
      /\ \A n \in DOMAIN shares :
           /\ shares'[n].changed
           /\ UNCHANGED <<shares[n].shown, shares[n].said, shares[n].sent, shares[n].told>>
  BY <1>0, ChangedFacts
<1>2. FormFits'
  BY <1>0, <1>1 DEF FormFits, Image
<1>3. FormIsNamed'
  BY <1>0, <1>1, PictureAssumption DEF FormIsNamed
<1>4. FormIsAsShared'
  BY <1>1 DEF FormIsAsShared
<1> QED
  BY <1>0, <1>1, <1>2, <1>3, <1>4, FormChangeKeeps

LEMMA SaveImageKeeps ==
    ASSUME IInv, SaveImage
    PROVE  IInv'
<1> USE DEF IInv
<1>1. CASE Crash
  BY <1>1, CrashKeeps
<1>2. CASE /\ choosing # None /\ mPhotoPath' = choosing /\ choosing' = None
           /\ UNCHANGED <<httpVars, ivImage, receiving, shares>>
  <2>1. /\ ivImage = [picture |-> choosing, isHidden |-> FALSE]
        /\ \A n \in DOMAIN shares : shares[n].changed
    BY <1>2 DEF FormIsNamed
  <2>2. FormFits'
    BY <1>2 DEF FormFits, Image
  <2>3. FormIsNamed' /\ FormIsAsShared'
    BY <1>2, <2>1 DEF FormIsNamed, FormIsAsShared
  <2> QED
    BY <1>2, <2>2, <2>3, FormChangeKeeps
<1> QED
  BY <1>1, <1>2 DEF SaveImage

\* The new share says of the form what the form is.
LEMMA ShareKeeps ==
    ASSUME IInv, Share
    PROVE  IInv'
<1> USE DEF IInv
<1>n. PICK n : n = Len(shares) + 1
  OBVIOUS
<1> DEFINE new == NewShare(Shown, mPhotoPath # None)
<1>0. /\ choosing = None
      /\ shares' = Append(shares, new)
      /\ Send(Request("INSERT_BUCKET", n, "front"))
      /\ UNCHANGED <<delivered, overtaken, mPhotoPath, ivImage, choosing, top, receiving>>
  BY <1>n DEF Share, MainFree, FormIsNamed, formVars
<1>1. /\ new \in ShareRecord
      /\ new.shown = Shown /\ new.said = (mPhotoPath # None)
      /\ new.sent = None /\ new.told = "nothing"
  <2>1. (mPhotoPath # None) \in BOOLEAN
    OBVIOUS
  <2>2. Shown \in Image /\ None \in Image
    BY DEF Shown, FormFits, Image
  <2> QED
    BY <2>1, <2>2 DEF NewShare, ShareRecord
<1> HIDE DEF new
<1>2. /\ DOMAIN shares = 1..Len(shares) /\ Len(shares) \in Nat /\ n \in Nat \ {0}
      /\ shares \in Seq(ShareRecord)
  BY <1>n, RowsFacts DEF FormFits
<1>3. /\ shares' \in Seq(ShareRecord)
      /\ DOMAIN shares' = 1..n /\ shares'[n] = new
      /\ n \notin DOMAIN shares
      /\ DOMAIN shares' = DOMAIN shares \cup {n}
      /\ \A k \in DOMAIN shares : shares'[k] = shares[k]
  <2>1. shares' \in Seq(ShareRecord) /\ Len(shares') = n
    BY <1>n, <1>0, <1>1, <1>2, AppendFacts
  <2>2. \A k \in 1..n : shares'[k] = IF k = n THEN new ELSE shares[k]
    BY <1>n, <1>0, <1>2
  <2>3. DOMAIN shares' = 1..n
    BY <2>1, RowsFacts
  <2>4. 1..n = DOMAIN shares \cup {n} /\ n \notin DOMAIN shares
    BY <1>n, <1>2
  <2> QED
    BY <2>1, <2>2, <2>3, <2>4
<1>4. /\ TasksFit'
      /\ \A t \in Pending' : t \in Pending \/ (t.id = "INSERT_BUCKET" /\ t.data = n)
      /\ \A k : OnItsWay(k)' = OnItsWay(k) + (IF k = n THEN 1 ELSE 0)
  BY <1>0, <1>2, SendFacts
<1>5. FormFits'
  BY <1>0, <1>3 DEF FormFits
<1>6. OfShares'
  BY <1>0, <1>3, <1>4 DEF OfShares, Receiving
<1>7. FormIsNamed'
  BY <1>0 DEF FormIsNamed
<1>8. FormIsAsShared'
  <2> SUFFICES ASSUME NEW k \in DOMAIN shares', ~shares'[k].changed
               PROVE  shares'[k].shown = Shown /\ (shares'[k].said <=> mPhotoPath # None)
    BY <1>0 DEF FormIsAsShared, Shown
  <2>1. CASE k = n
    BY <1>1, <1>3, <2>1
  <2>2. CASE k \in DOMAIN shares
    BY <1>3, <2>2 DEF FormIsAsShared
  <2> QED
    BY <1>3, <2>1, <2>2
<1>9. OneErrand'
  <2> SUFFICES ASSUME NEW k \in DOMAIN shares'
               PROVE  OnItsWay(k)' + (IF Receiving /\ receiving.share = k THEN 1 ELSE 0)
                          + (IF shares'[k].told = "nothing" THEN 0 ELSE 1) <= 1
    BY <1>0 DEF OneErrand, Receiving
  <2>1. CASE k = n
    <3>1. ASSUME NEW t \in Pending
          PROVE  t \notin For(n)
      BY <1>3 DEF OfShares, For
    <3>2. /\ \A i \in DOMAIN inFlight : inFlight[i] \notin For(n)
          /\ \A i \in DOMAIN delivered : delivered[i] \notin For(n)
      BY <3>1, RowsFacts DEF TasksFit, Pending
    <3>3. HowMany(inFlight, For(n)) = 0 /\ HowMany(delivered, For(n)) = 0
      BY <3>2, CountFacts DEF TasksFit
    <3>4. OnItsWay(n)' = OnItsWay(n) + 1
      BY <1>4
    <3>6. OnItsWay(n) = 0
      BY <3>3 DEF OnItsWay
    <3>5. ~(Receiving /\ receiving.share = n) /\ shares'[n].told = "nothing"
      BY <1>1, <1>3 DEF OfShares
    <3> QED
      BY <2>1, <3>4, <3>5, <3>6
  <2>2. CASE k \in DOMAIN shares
    <3>1. OnItsWay(k)' = OnItsWay(k) + 0
      BY <1>3, <1>4, <2>2
    <3>2. OnItsWay(k)' = OnItsWay(k)
      BY <3>1, NumbersFit
    <3> QED
      BY <1>3, <2>2, <3>2 DEF OneErrand
  <2> QED
    BY <1>3, <2>1, <2>2
<1>10. Errands'
  <2>1. ASSUME NEW t \in Pending'
        PROVE  IF t.id = "INSERT_BUCKET"
                 THEN shares'[t.data].sent = None
                 ELSE shares'[t.data].sent # None /\ Announced(t.data)'
    <3>1. CASE t \in Pending
      BY <1>3, <3>1 DEF Errands, OfShares, Announced
    <3>2. CASE t.id = "INSERT_BUCKET" /\ t.data = n
      BY <1>1, <1>3, <3>2
    <3> QED
      BY <1>4, <3>1, <3>2
  <2>2. Receiving => /\ shares'[receiving.share].sent = None
                     /\ receiving.step = "image" => Announced(receiving.share)'
    <3> SUFFICES ASSUME Receiving
                 PROVE  /\ shares'[receiving.share].sent = None
                        /\ receiving.step = "image" => Announced(receiving.share)'
      OBVIOUS
    <3>1. shares'[receiving.share] = shares[receiving.share]
      BY <1>3 DEF OfShares
    <3> QED
      BY <1>0, <3>1 DEF Errands, Announced
  <2>3. receiving.step = "image" => Receiving
    BY DEF Receiving
  <2> QED
    BY <1>0, <2>1, <2>2, <2>3 DEF Errands, Receiving
<1>11. SharesSendWhatWasShown'
  <2> SUFFICES ASSUME NEW k \in DOMAIN shares'
               PROVE  \/ shares'[k].changed
                      \/ /\ shares'[k].sent \in {None, shares'[k].shown}
                         /\ shares'[k].told = "success" => (shares'[k].sent # None <=> shares'[k].said)
    BY DEF SharesSendWhatWasShown
  <2>1. CASE k = n
    BY <1>1, <1>3, <2>1
  <2>2. CASE k \in DOMAIN shares
    BY <1>3, <2>2 DEF SharesSendWhatWasShown
  <2> QED
    BY <1>3, <2>1, <2>2
<1> QED
  BY <1>4, <1>5, <1>6, <1>7, <1>8, <1>9, <1>10, <1>11

\* A handler that reports how the share ended.
LEMMA FinishedKeeps ==
    ASSUME IInv, NEW id, NEW status, NEW what \in Ends, Finished(id, status, what),
           what = "success" => \/ shares[Reply.data].changed
                               \/ shares[Reply.data].sent # None <=> shares[Reply.data].said
    PROVE  IInv'
<1> USE DEF IInv
<1> DEFINE n == Reply.data
<1>a. what # "nothing"
  BY DEF Ends, Unheard, Dropped
<1>0. /\ delivered # <<>> /\ receiving = Idle /\ Taken /\ Told(n, what)
      /\ UNCHANGED <<inFlight, overtaken, top, mPhotoPath, ivImage, choosing, receiving>>
  BY DEF Finished, QueueFree, Receives, formVars
<1>1. /\ TasksFit' /\ Pending' \subseteq Pending /\ Reply \in Pending
      /\ \A k : OnItsWay(k) = OnItsWay(k)' + (IF k = n THEN 1 ELSE 0)
  BY <1>0, TakenFacts
<1>2. n \in DOMAIN shares
  BY <1>1 DEF OfShares
<1> HIDE DEF n
<1>3. /\ shares' \in Seq(ShareRecord)
      /\ DOMAIN shares' = DOMAIN shares
      /\ \A k \in DOMAIN shares :
           /\ UNCHANGED <<shares[k].shown, shares[k].said, shares[k].changed, shares[k].sent>>
           /\ shares'[k].told = IF k = n THEN what ELSE shares[k].told
  BY <1>0, <1>2, ToldFacts
<1>4. ~Receiving /\ ~Receiving'
  BY <1>0 DEF Receiving, Idle
<1>5. FormFits' /\ FormIsNamed' /\ FormIsAsShared'
  BY <1>0, <1>3 DEF FormFits, FormIsNamed, FormIsAsShared, Shown
<1>6. OfShares'
  BY <1>1, <1>3, <1>4 DEF OfShares
<1>7. Errands'
  <2>1. \A t \in Pending : t.data \in DOMAIN shares
    BY DEF OfShares
  <2>2. receiving'.step # "image"
    BY <1>4 DEF Receiving
  <2> QED
    BY <1>1, <1>3, <1>4, <2>1, <2>2 DEF Errands, Announced
<1>8. OneErrand'
  <2> SUFFICES ASSUME NEW k \in DOMAIN shares
               PROVE  OnItsWay(k)' + (IF Receiving' /\ receiving'.share = k THEN 1 ELSE 0)
                          + (IF shares'[k].told = "nothing" THEN 0 ELSE 1) <= 1
    BY <1>3 DEF OneErrand
  <2>1. OnItsWay(k)' \in Nat
    BY <1>1, CountFacts DEF TasksFit, OnItsWay
  <2>2. OnItsWay(k) + (IF shares[k].told = "nothing" THEN 0 ELSE 1) <= 1
    <3>1. OnItsWay(k) + (IF Receiving /\ receiving.share = k THEN 1 ELSE 0)
              + (IF shares[k].told = "nothing" THEN 0 ELSE 1) <= 1
      BY DEF OneErrand
    <3>2. (IF Receiving /\ receiving.share = k THEN 1 ELSE 0) = 0
      BY <1>4
    <3>3. OnItsWay(k) \in Nat
      BY NumbersFit
    <3> QED
      BY <3>1, <3>2, <3>3
  <2>3. OnItsWay(k)' + (IF shares'[k].told = "nothing" THEN 0 ELSE 1) <= 1
    <3>1. CASE k = n
      <4>1. OnItsWay(k) = OnItsWay(k)' + 1
        BY <1>1, <3>1
      <4> QED
        BY <2>1, <2>2, <4>1
    <3>2. CASE k # n
      <4>1. OnItsWay(k) = OnItsWay(k)' + 0
        BY <1>1, <3>2
      <4>2. OnItsWay(k) = OnItsWay(k)' /\ shares'[k].told = shares[k].told
        BY <1>3, <2>1, <3>2, <4>1
      <4> QED
        BY <2>2, <4>2
    <3> QED
      BY <3>1, <3>2
  <2>4. (IF Receiving' /\ receiving'.share = k THEN 1 ELSE 0) = 0
    BY <1>4
  <2> QED
    BY <2>1, <2>3, <2>4
<1>9. SharesSendWhatWasShown'
  <2> SUFFICES ASSUME NEW k \in DOMAIN shares
               PROVE  \/ shares'[k].changed
                      \/ /\ shares'[k].sent \in {None, shares'[k].shown}
                         /\ shares'[k].told = "success" => (shares'[k].sent # None <=> shares'[k].said)
    BY <1>3 DEF SharesSendWhatWasShown
  <2>1. \/ shares[k].changed
        \/ /\ shares[k].sent \in {None, shares[k].shown}
           /\ shares[k].told = "success" => (shares[k].sent # None <=> shares[k].said)
    BY DEF SharesSendWhatWasShown
  <2>2. CASE k = n
    BY <1>3, <2>1, <2>2 DEF n
  <2>3. CASE k # n
    BY <1>3, <2>1, <2>3
  <2> QED
    BY <2>2, <2>3
<1> QED
  BY <1>1, <1>5, <1>6, <1>7, <1>8, <1>9

LEMMA ReceiveRefusalKeeps ==
    ASSUME IInv, ReceiveRefusal
    PROVE  IInv'
BY FinishedKeeps DEF ReceiveRefusal, Ends

LEMMA UploadUnansweredKeeps ==
    ASSUME IInv, UploadUnanswered
    PROVE  IInv'
BY FinishedKeeps DEF UploadUnanswered, Ends, Unheard

\* The form names no picture and did not when the share was made, or was changed.
LEMMA ReceiveInsertedKeeps ==
    ASSUME IInv, ReceiveInserted
    PROVE  IInv'
<1>1. /\ mPhotoPath = None /\ Finished("INSERT_BUCKET", "accepted", "success")
      /\ delivered # <<>> /\ Taken /\ UNCHANGED inFlight /\ Reply.id = "INSERT_BUCKET"
  BY DEF ReceiveInserted, Finished, Receives
<1>2. Reply \in Pending
  BY <1>1, TakenFacts DEF IInv
<1>3. shares[Reply.data].changed \/ (shares[Reply.data].sent = None /\ ~shares[Reply.data].said)
  BY <1>1, <1>2 DEF IInv, OfShares, Errands, FormIsAsShared
<1> QED
  BY <1>1, <1>3, FinishedKeeps DEF Ends

\* The upload of a picture the server was told to expect.
LEMMA UploadFinishedKeeps ==
    ASSUME IInv, UploadFinished
    PROVE  IInv'
<1>1. CASE Finished("INSERT_IMAGE", "accepted", "success")
  <2>1. delivered # <<>> /\ Taken /\ UNCHANGED inFlight /\ Reply.id = "INSERT_IMAGE"
    BY <1>1 DEF Finished, Receives
  <2>2. Reply \in Pending
    BY <2>1, TakenFacts DEF IInv
  <2>3. shares[Reply.data].changed \/ (shares[Reply.data].sent # None /\ shares[Reply.data].said)
    BY <2>1, <2>2 DEF IInv, Errands, Announced
  <2> QED
    BY <1>1, <2>3, FinishedKeeps DEF Ends
<1>2. CASE Finished("INSERT_IMAGE", "refused", "failure")
  BY <1>2, FinishedKeeps DEF Ends
<1> QED
  BY <1>1, <1>2 DEF UploadFinished

\* The reply about a form with a picture goes on to the upload.
LEMMA ReceiveInsertedWithPictureKeeps ==
    ASSUME IInv, ReceiveInsertedWithPicture
    PROVE  IInv'
<1> USE DEF IInv
<1> DEFINE n == Reply.data
<1>0. /\ delivered # <<>> /\ receiving = Idle /\ Taken /\ Reply.id = "INSERT_BUCKET"
      /\ receiving' = [step |-> "UPLOAD_IMAGE", share |-> n]
      /\ UNCHANGED <<inFlight, overtaken, top, mPhotoPath, ivImage, choosing, shares>>
  BY DEF ReceiveInsertedWithPicture, QueueFree, Receives, formVars
<1>1. /\ TasksFit' /\ Pending' \subseteq Pending /\ Reply \in Pending
      /\ \A k : OnItsWay(k) = OnItsWay(k)' + (IF k = n THEN 1 ELSE 0)
  BY <1>0, TakenFacts
<1>2. n \in DOMAIN shares /\ shares[n].sent = None
  BY <1>0, <1>1 DEF OfShares, Errands
<1>3. n \in Nat
  BY <1>2, ShareFields
<1> HIDE DEF n
<1>4. Receiving' /\ receiving'.share = n /\ receiving'.step = "UPLOAD_IMAGE"
      /\ receiving' \in [step : {"none", "UPLOAD_IMAGE", "image"}, share : Nat]
  BY <1>0, <1>3 DEF Receiving
<1>5. FormFits' /\ FormIsNamed' /\ FormIsAsShared'
  BY <1>0, <1>4 DEF FormFits, FormIsNamed, FormIsAsShared, Shown
<1>6. OfShares' /\ Errands'
  BY <1>0, <1>1, <1>2, <1>4 DEF OfShares, Errands, Announced
<1>7. OneErrand'
  <2> SUFFICES ASSUME NEW k \in DOMAIN shares
               PROVE  OnItsWay(k)' + (IF Receiving' /\ receiving'.share = k THEN 1 ELSE 0)
                          + (IF shares[k].told = "nothing" THEN 0 ELSE 1) <= 1
    BY <1>0 DEF OneErrand
  <2>1. OnItsWay(k) + (IF Receiving /\ receiving.share = k THEN 1 ELSE 0)
            + (IF shares[k].told = "nothing" THEN 0 ELSE 1) <= 1
    BY DEF OneErrand
  <2>2. (IF Receiving /\ receiving.share = k THEN 1 ELSE 0) = 0
    BY <1>0 DEF Receiving, Idle
  <2>3. OnItsWay(k) = OnItsWay(k)' + (IF Receiving' /\ receiving'.share = k THEN 1 ELSE 0)
    BY <1>1, <1>4
  <2>4. OnItsWay(k)' \in Nat
    BY <1>1, CountFacts DEF TasksFit, OnItsWay
  <2> QED
    BY <2>1, <2>2, <2>3, <2>4
<1>8. SharesSendWhatWasShown'
  BY <1>0 DEF SharesSendWhatWasShown
<1> QED
  BY <1>1, <1>5, <1>6, <1>7, <1>8

\* The name is looked at again: it is there, or the user has taken the picture off.
LEMMA ReadPhotoPathKeeps ==
    ASSUME IInv, ReadPhotoPath
    PROVE  IInv'
<1> USE DEF IInv
<1> DEFINE n == receiving.share
<1>0. /\ receiving.step = "UPLOAD_IMAGE"
      /\ UNCHANGED <<httpVars, process, top, mPhotoPath, ivImage, choosing>>
  BY DEF ReadPhotoPath, formVars
<1>1. Receiving /\ n \in DOMAIN shares /\ shares[n].sent = None
  BY <1>0 DEF Receiving, OfShares, Errands
<1>2. TasksFit' /\ Pending' = Pending /\ \A k : OnItsWay(k)' = OnItsWay(k)
  BY <1>0 DEF TasksFit, Pending, OnItsWay, httpVars
<1>3. CASE mPhotoPath # None /\ receiving' = [receiving EXCEPT !.step = "image"] /\ UNCHANGED shares
  <2>1. /\ receiving'.step = "image" /\ receiving'.share = n /\ Receiving'
        /\ receiving' \in [step : {"none", "UPLOAD_IMAGE", "image"}, share : Nat]
    BY <1>3 DEF Receiving, FormFits
  <2>2. Announced(n)
    BY <1>1, <1>3 DEF FormIsAsShared, Announced
  <2>3. FormFits' /\ FormIsNamed' /\ FormIsAsShared'
    BY <1>0, <1>3, <2>1 DEF FormFits, FormIsNamed, FormIsAsShared, Shown
  <2>4. OfShares' /\ Errands'
    BY <1>1, <1>2, <1>3, <2>1, <2>2 DEF OfShares, Errands, Announced
  <2>5. OneErrand'
    BY <1>1, <1>2, <1>3, <2>1 DEF OneErrand
  <2>6. SharesSendWhatWasShown'
    BY <1>3 DEF SharesSendWhatWasShown
  <2> QED
    BY <1>2, <2>3, <2>4, <2>5, <2>6
<1>4. CASE mPhotoPath = None /\ receiving' = Idle /\ Told(n, Dropped)
  <2>1. /\ shares' \in Seq(ShareRecord)
        /\ DOMAIN shares' = DOMAIN shares
        /\ \A k \in DOMAIN shares :
             /\ UNCHANGED <<shares[k].shown, shares[k].said, shares[k].changed, shares[k].sent>>
             /\ shares'[k].told = IF k = n THEN Dropped ELSE shares[k].told
    <3>1. Dropped \in Ends
      BY DEF Ends
    <3> QED
      BY <1>1, <1>4, <3>1, ToldFacts
  <2>2. ~Receiving' /\ receiving' \in [step : {"none", "UPLOAD_IMAGE", "image"}, share : Nat]
    BY <1>4 DEF Receiving, Idle
  <2>3. FormFits' /\ FormIsNamed' /\ FormIsAsShared'
    BY <1>0, <1>4, <2>1, <2>2 DEF FormFits, FormIsNamed, FormIsAsShared, Shown
  <2>4. OfShares'
    BY <1>2, <2>1, <2>2 DEF OfShares
  <2>5. Errands'
    <3>1. \A t \in Pending : t.data \in DOMAIN shares
      BY DEF OfShares
    <3>2. receiving'.step # "image"
      BY <2>2 DEF Receiving
    <3> QED
      BY <1>2, <2>1, <2>2, <3>1, <3>2 DEF Errands, Announced
  <2>6. OneErrand'
    <3> SUFFICES ASSUME NEW k \in DOMAIN shares
                 PROVE  OnItsWay(k) + (IF Receiving' /\ receiving'.share = k THEN 1 ELSE 0)
                            + (IF shares'[k].told = "nothing" THEN 0 ELSE 1) <= 1
      BY <1>2, <2>1 DEF OneErrand
    <3>1. OnItsWay(k) + (IF k = n THEN 1 ELSE 0)
              + (IF shares[k].told = "nothing" THEN 0 ELSE 1) <= 1
      BY <1>1 DEF OneErrand
    <3>2. (IF Receiving' /\ receiving'.share = k THEN 1 ELSE 0) = 0
      BY <2>2
    <3>3. OnItsWay(k) \in Nat
      BY NumbersFit
    <3>4. CASE k = n
      BY <3>1, <3>2, <3>3, <3>4
    <3>5. CASE k # n
      <4>1. shares'[k].told = shares[k].told
        BY <2>1, <3>5
      <4> QED
        BY <3>1, <3>2, <3>3, <3>5, <4>1
    <3> QED
      BY <3>4, <3>5
  <2>7. SharesSendWhatWasShown'
    BY <2>1 DEF SharesSendWhatWasShown, Dropped
  <2> QED
    BY <1>2, <2>3, <2>4, <2>5, <2>6, <2>7
<1> QED
  BY <1>3, <1>4 DEF ReadPhotoPath

\* The picture that is sent is the one the form shows, and if the user changed
\* nothing, the one it showed.
LEMMA UploadImageKeeps ==
    ASSUME IInv, UploadImage
    PROVE  IInv'
<1> USE DEF IInv
<1>n. PICK n : n = receiving.share
  OBVIOUS
<1> DEFINE x == [shares[n] EXCEPT !.sent = ivImage.picture]
<1>1. CASE ivImage.picture = None
  BY <1>1, CrashKeeps DEF UploadImage
<1>2. CASE ivImage.picture # None
  <2>0. /\ receiving.step = "image"
        /\ Send(Request("INSERT_IMAGE", n, "front"))
        /\ shares' = [shares EXCEPT ![n] = x]
        /\ receiving' = Idle
        /\ UNCHANGED <<delivered, overtaken, top, mPhotoPath, ivImage, choosing>>
    BY <1>n, <1>2 DEF UploadImage, formVars
  <2>1. Receiving /\ n \in DOMAIN shares /\ Announced(n)
    BY <1>n, <2>0 DEF Receiving, OfShares, Errands
  <2>2. n \in Nat \ {0} /\ shares[n] \in ShareRecord
    BY <2>1, ShareFields
  <2>3. ivImage.picture \in Image
    BY DEF FormFits
  <2>4. /\ x \in ShareRecord
        /\ x.shown = shares[n].shown /\ x.said = shares[n].said /\ x.changed = shares[n].changed
        /\ x.told = shares[n].told /\ x.sent = ivImage.picture
    BY <2>2, <2>3 DEF ShareRecord
  <2> HIDE DEF x
  <2>5. shares \in Seq(ShareRecord)
    BY DEF FormFits
  <2>6. shares' \in Seq(ShareRecord)
    BY <2>0, <2>1, <2>4, <2>5, ReplaceFacts
  <2>7. /\ DOMAIN shares' = DOMAIN shares
        /\ \A k \in DOMAIN shares : shares'[k] = IF k = n THEN x ELSE shares[k]
    BY <2>0
  <2>8. \A k \in DOMAIN shares :
          /\ UNCHANGED <<shares[k].shown, shares[k].said, shares[k].changed, shares[k].told>>
          /\ shares'[k].sent = IF k = n THEN ivImage.picture ELSE shares[k].sent
    BY <2>4, <2>7
  <2>9. /\ TasksFit'
        /\ \A t \in Pending' : t \in Pending \/ (t.id = "INSERT_IMAGE" /\ t.data = n)
        /\ \A k : OnItsWay(k)' = OnItsWay(k) + (IF k = n THEN 1 ELSE 0)
    BY <2>0, <2>2, SendFacts
  <2>10. OnItsWay(n) = 0 /\ shares[n].told = "nothing"
    <3>1. OnItsWay(n) + 1 + (IF shares[n].told = "nothing" THEN 0 ELSE 1) <= 1
      BY <1>n, <2>1 DEF OneErrand
    <3>2. OnItsWay(n) \in Nat
      BY NumbersFit
    <3> QED
      BY <3>1, <3>2
  <2>11. /\ ~Receiving' /\ receiving'.step = "none"
         /\ receiving' \in [step : {"none", "UPLOAD_IMAGE", "image"}, share : Nat]
    BY <2>0 DEF Receiving, Idle
  <2>12. FormFits' /\ FormIsNamed' /\ FormIsAsShared'
    BY <2>0, <2>6, <2>7, <2>8, <2>11 DEF FormFits, FormIsNamed, FormIsAsShared, Shown
  <2>13. OfShares'
    BY <1>n, <2>1, <2>7, <2>9, <2>11 DEF OfShares
  <2>14. Errands'
    <3>1. ASSUME NEW t \in Pending'
          PROVE  IF t.id = "INSERT_BUCKET"
                   THEN shares'[t.data].sent = None
                   ELSE shares'[t.data].sent # None /\ Announced(t.data)'
      <4>1. CASE t \in Pending
        <5>1. t.data # n /\ t.data \in DOMAIN shares
          BY <2>10, <4>1, PendingFacts DEF OfShares
        <5>2. shares'[t.data] = shares[t.data]
          BY <2>7, <5>1
        <5> QED
          BY <4>1, <5>2 DEF Errands, Announced
      <4>2. CASE t.id = "INSERT_IMAGE" /\ t.data = n
        <5>1. shares'[n].sent # None
          BY <1>n, <1>2, <2>1, <2>8
        <5>2. Announced(n)'
          <6>1. Announced(n) /\ n \in DOMAIN shares
            BY <1>n, <2>1
          <6> QED
            BY <2>8, <6>1 DEF Announced
        <5>3. t.id # "INSERT_BUCKET" /\ t.data = n
          BY <4>2
        <5> QED
          BY <5>1, <5>2, <5>3
      <4> QED
        BY <2>9, <4>1, <4>2
    <3> QED
      BY <2>11, <3>1 DEF Errands
  <2>15. OneErrand'
    <3> SUFFICES ASSUME NEW k \in DOMAIN shares
                 PROVE  OnItsWay(k)' + (IF Receiving' /\ receiving'.share = k THEN 1 ELSE 0)
                            + (IF shares'[k].told = "nothing" THEN 0 ELSE 1) <= 1
      BY <2>7 DEF OneErrand
    <3>1. OnItsWay(k) + (IF k = n THEN 1 ELSE 0)
              + (IF shares[k].told = "nothing" THEN 0 ELSE 1) <= 1
      BY <1>n, <2>1 DEF OneErrand
    <3>2. (IF Receiving' /\ receiving'.share = k THEN 1 ELSE 0) = 0
      BY <2>11
    <3>3. OnItsWay(k)' = OnItsWay(k) + (IF k = n THEN 1 ELSE 0) /\ OnItsWay(k)' \in Nat
      BY <2>9, CountFacts DEF TasksFit, OnItsWay
    <3>4. shares'[k].told = shares[k].told
      BY <2>8
    <3> QED
      BY <3>1, <3>2, <3>3, <3>4
  <2>16. SharesSendWhatWasShown'
    <3> SUFFICES ASSUME NEW k \in DOMAIN shares, ~shares[k].changed
                 PROVE  /\ shares'[k].sent \in {None, shares'[k].shown}
                        /\ shares'[k].told = "success" => (shares'[k].sent # None <=> shares'[k].said)
      BY <2>7, <2>8 DEF SharesSendWhatWasShown
    <3>1. CASE k = n
      <4>1. shares'[k].told # "success"
        BY <2>8, <2>10, <3>1
      <4>2. choosing = None /\ mPhotoPath # None
        BY <1>n, <2>1, <3>1 DEF FormIsNamed, FormIsAsShared, Announced
      <4>3. shares[k].shown = ivImage.picture
        BY <4>2 DEF FormIsNamed, FormIsAsShared, Shown
      <4> QED
        BY <2>8, <3>1, <4>1, <4>3
    <3>2. CASE k # n
      BY <2>7, <3>2 DEF SharesSendWhatWasShown
    <3> QED
      BY <3>1, <3>2
  <2> QED
    BY <2>9, <2>12, <2>13, <2>14, <2>15, <2>16
<1> QED
  BY <1>1, <1>2

LEMMA SessionKeeps ==
    ASSUME IInv, NEW i \in DOMAIN inFlight, ServeShare(i) \/ CompleteTask(i)
    PROVE  IInv'
<1> USE DEF IInv
<1>0. UNCHANGED <<top, mPhotoPath, ivImage, choosing, receiving, shares>>
  BY DEF ServeShare, CompleteTask, Outside, formVars
<1>1. /\ TasksFit'
      /\ \A t \in Pending' : \E u \in Pending : t.data = u.data /\ t.id = u.id
      /\ \A k : OnItsWay(k)' = OnItsWay(k)
  BY SessionFacts
<1>2. FormFits' /\ FormIsNamed' /\ FormIsAsShared' /\ SharesSendWhatWasShown'
  BY <1>0 DEF FormFits, FormIsNamed, FormIsAsShared, Shown, SharesSendWhatWasShown
<1>3. OfShares'
  BY <1>0, <1>1 DEF OfShares, Receiving
<1>4. Errands'
  BY <1>0, <1>1 DEF Errands, Announced, Receiving
<1>5. OneErrand'
  BY <1>0, <1>1 DEF OneErrand, Receiving
<1> QED
  BY <1>1, <1>2, <1>3, <1>4, <1>5

LEMMA StutterKeeps ==
    ASSUME IInv, UNCHANGED vars
    PROVE  IInv'
<1> USE DEF IInv, vars, formVars
<1>1. FormFits' /\ FormIsNamed' /\ FormIsAsShared'
  BY DEF FormFits, FormIsNamed, FormIsAsShared, Shown
<1> QED
  BY <1>1, FormChangeKeeps

LEMMA StepKeeps == IInv /\ [Next]_vars => IInv'
<1> SUFFICES ASSUME IInv, [Next]_vars
             PROVE  IInv'
  OBVIOUS
<1>1. CASE Share
  BY <1>1, ShareKeeps
<1>2. CASE RemoveImage
  BY <1>2, RemoveImageKeeps
<1>3. CASE OpenPicker \/ imagePickerControllerDidCancel \/ Leave
  BY <1>3, ScreenKeeps
<1>4. CASE \E picture \in Picture : ShowImage(picture)
  BY <1>4, ShowImageKeeps
<1>5. CASE SaveImage
  BY <1>5, SaveImageKeeps
<1>6. CASE ReceiveNoData
  BY <1>6, CrashKeeps DEF ReceiveNoData
<1>7. CASE ReceiveRefusal
  BY <1>7, ReceiveRefusalKeeps
<1>8. CASE ReceiveInserted
  BY <1>8, ReceiveInsertedKeeps
<1>9. CASE ReceiveInsertedWithPicture
  BY <1>9, ReceiveInsertedWithPictureKeeps
<1>10. CASE ReadPhotoPath
  BY <1>10, ReadPhotoPathKeeps
<1>11. CASE UploadImage
  BY <1>11, UploadImageKeeps
<1>12. CASE UploadUnanswered
  BY <1>12, UploadUnansweredKeeps
<1>13. CASE UploadFinished
  BY <1>13, UploadFinishedKeeps
<1>14. CASE \E i \in DOMAIN inFlight : ServeShare(i) \/ CompleteTask(i)
  BY <1>14, SessionKeeps
<1>15. CASE UNCHANGED vars
  BY <1>15, StutterKeeps
<1> QED
  BY <1>1, <1>2, <1>3, <1>4, <1>5, <1>6, <1>7, <1>8, <1>9, <1>10, <1>11, <1>12, <1>13, <1>14,
     <1>15 DEF Next, OnQueue

-----------------------------------------------------------------------------
(* Theorem                                                                   *)

\* However the touches on the form and the replies interleave, and whatever a form
\* shows and names, a share about which the user changed nothing sends what was
\* shown or nothing, and is reported a success only if that is what was announced.
THEOREM SharesAreFaithful == Spec => []SharesSendWhatWasShown
<1>1. IInv => SharesSendWhatWasShown
  BY DEF IInv
<1> QED
  BY <1>1, InitInv, StepKeeps, PTL DEF Spec
=============================================================================
