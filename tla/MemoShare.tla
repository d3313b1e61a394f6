------------------------------ MODULE MemoShare --------------------------------
(***************************************************************************)
(* Sharing a memo from its form, WriteDetailView: the text goes to the     *)
(* server with a flag that says whether a picture follows; when the server *)
(* takes it, the reply, on the delegate queue, looks at the form again and *)
(* uploads the picture it finds there.  Meanwhile the user may take the    *)
(* picture off, choose another, share once more, or leave; the form stays  *)
(* alive as long as a request will report to it.                           *)
(*                                                                         *)
(* One form, from its opening on.  The text sent is the one the form was   *)
(* opened for, the date sent is always empty and the number sent with the  *)
(* picture always -1: none of them is a variable.                          *)
(***************************************************************************)
EXTENDS HttpTasks

CONSTANT Picture    \* pictures a form may show

None == "none"      \* no picture; no file name

ASSUME PictureAssumption == None \notin Picture

VARIABLES
    process,    \* "running" or "crashed"
    top,        \* what is in front: the form, the picker, or another screen
    mPhotoPath, \* the file the form names, by its picture
    ivImage,    \* the picture held by the image view: picture, isHidden
    choosing,   \* the picture imagePickerController is half through taking
    receiving,  \* the upload onHttpReceive is half through: step, share
    shares      \* history: what became of every touch on the share button

formVars == <<top, mPhotoPath, ivImage, choosing>>
vars == <<httpVars, process, formVars, receiving, shares>>

\* `shown` is what the user saw when touching the button and `said` what the
\* server was told; `changed` since; `sent` to the server; `told` by a toast.
NewShare(shown, said) ==
    [shown |-> shown, said |-> said, changed |-> FALSE, sent |-> None, told |-> "nothing"]

\* Why a share may end without a toast: the upload had no response; or the
\* picture was gone when it came to uploading it.
Unheard == "no response"
Dropped == "no picture left"

Told(n, what) == shares' = [shares EXCEPT ![n].told = what]

Idle == [step |-> "none", share |-> 0]
QueueFree == process = "running" /\ receiving = Idle
MainFree == process = "running" /\ top = "WriteDetailView"

Shown == IF ivImage.isHidden THEN None ELSE ivImage.picture

\* setData: the form of a memo without picture, with one, or with one whose
\* file cannot be loaded.
Init ==
    /\ HttpInit
    /\ process = "running"
    /\ top = "WriteDetailView"
    /\ \/ mPhotoPath = None /\ ivImage = [picture |-> None, isHidden |-> TRUE]
       \/ /\ mPhotoPath \in Picture
          /\ ivImage \in [picture : {mPhotoPath, None}, isHidden : {FALSE}]
    /\ choosing = None
    /\ receiving = Idle
    /\ shares = <<>>

Crash ==
    /\ process' = "crashed"
    /\ inFlight' = <<>> /\ delivered' = <<>>
    /\ receiving' = Idle
    /\ UNCHANGED <<overtaken, formVars, shares>>

-----------------------------------------------------------------------------
(* Main thread                                                               *)

Changed ==
    shares' = [n \in DOMAIN shares |-> [shares[n] EXCEPT !.changed = TRUE]]

\* btShare: handleMessage UPLOAD_BUCKET, whatever the network.
Share ==
    /\ MainFree
    /\ Len(shares) < MaxRequests
    /\ shares' = Append(shares, NewShare(Shown, mPhotoPath # None))
    /\ Send(Request("INSERT_BUCKET", Len(shares) + 1, "front"))
    /\ UNCHANGED <<delivered, overtaken, process, formVars, receiving>>

\* Faulty variant: the picture is hidden and stays the picture of the form.
RemoveImageHidden ==
    /\ MainFree /\ ~ivImage.isHidden
    /\ ivImage' = [ivImage EXCEPT !.isHidden = TRUE]
    /\ Changed
    /\ UNCHANGED <<httpVars, process, top, mPhotoPath, choosing, receiving>>

\* btRemoveImage: the image view is hidden, and keeps its picture.
RemoveImage ==
    /\ MainFree /\ ~ivImage.isHidden
    /\ mPhotoPath' = None
    /\ ivImage' = [ivImage EXCEPT !.isHidden = TRUE]
    /\ Changed
    /\ UNCHANGED <<httpVars, process, top, choosing, receiving>>

\* btGallery, btCamera: only there while no picture is shown.
OpenPicker ==
    /\ MainFree /\ ivImage.isHidden
    /\ top' = "picker"
    /\ UNCHANGED <<httpVars, process, mPhotoPath, ivImage, choosing, receiving, shares>>

imagePickerControllerDidCancel ==
    /\ process = "running" /\ top = "picker" /\ choosing = None
    /\ top' = "WriteDetailView"
    /\ UNCHANGED <<httpVars, process, mPhotoPath, ivImage, choosing, receiving, shares>>

\* imagePickerController, up to the image view; the file is yet to be written.
ShowImage(picture) ==
    /\ process = "running" /\ top = "picker" /\ choosing = None
    /\ choosing' = picture
    /\ ivImage' = [picture |-> picture, isHidden |-> FALSE]
    /\ Changed
    /\ UNCHANGED <<httpVars, process, top, mPhotoPath, receiving>>

\* The rest of it.  A picture that cannot be encoded has no name: tempImageName!
SaveImage ==
    /\ process = "running" /\ choosing # None
    /\ \/ /\ mPhotoPath' = choosing
          /\ choosing' = None
          /\ top' = "WriteDetailView"
          /\ UNCHANGED <<httpVars, process, ivImage, receiving, shares>>
       \/ Crash

\* Save, delete or back: another screen covers the form.
Leave ==
    /\ MainFree
    /\ top' = "elsewhere"
    /\ UNCHANGED <<httpVars, process, mPhotoPath, ivImage, choosing, receiving, shares>>

-----------------------------------------------------------------------------
(* Delegate queue: onHttpReceive and the upload it starts                    *)

Finished(id, status, what) ==
    /\ QueueFree
    /\ Receives(id, status, "front")
    /\ Taken
    /\ Told(Reply.data, what)
    /\ UNCHANGED <<inFlight, overtaken, process, formVars, receiving>>

ReceiveNoData ==
    QueueFree /\ ReplyTraps /\ Reply.id = "INSERT_BUCKET" /\ Crash

ReceiveRefusal == Finished("INSERT_BUCKET", "refused", "failure")

\* The server took the memo, and the form names no picture by now.
ReceiveInserted ==
    mPhotoPath = None /\ Finished("INSERT_BUCKET", "accepted", "success")

\* It took the memo, and there is a picture: handleMessage UPLOAD_IMAGE.
ReceiveInsertedWithPicture ==
    /\ QueueFree
    /\ Receives("INSERT_BUCKET", "accepted", "front")
    /\ mPhotoPath # None
    /\ Taken
    /\ receiving' = [step |-> "UPLOAD_IMAGE", share |-> Reply.data]
    /\ UNCHANGED <<inFlight, overtaken, process, formVars, shares>>

\* UPLOAD_IMAGE reads the name again.
ReadPhotoPath ==
    /\ process = "running" /\ receiving.step = "UPLOAD_IMAGE"
    /\ \/ mPhotoPath # None /\ receiving' = [receiving EXCEPT !.step = "image"]
                            /\ UNCHANGED shares
       \/ mPhotoPath = None /\ receiving' = Idle /\ Told(receiving.share, Dropped)
    /\ UNCHANGED <<httpVars, process, formVars>>

\* It takes the picture from the image view, ivImage.image!, and sends it.
UploadImage ==
    /\ process = "running" /\ receiving.step = "image"
    /\ IF ivImage.picture = None THEN Crash ELSE
       /\ Send(Request("INSERT_IMAGE", receiving.share, "front"))
       /\ shares' = [shares EXCEPT ![receiving.share].sent = ivImage.picture]
       /\ receiving' = Idle
       /\ UNCHANGED <<delivered, overtaken, process, formVars>>

\* actionTask of the upload manager returns without calling its receiver.
UploadUnanswered == Finished("INSERT_IMAGE", "no data", Unheard)

\* Faulty variant: a refused upload is reported no more than an unanswered one.
UploadFinishedIfAccepted ==
    \/ Finished("INSERT_IMAGE", "accepted", "success")
    \/ Finished("INSERT_IMAGE", "refused", "nothing")

UploadFinished ==
    \/ Finished("INSERT_IMAGE", "accepted", "success")
    \/ Finished("INSERT_IMAGE", "refused", "failure")

-----------------------------------------------------------------------------
(* Session and server                                                        *)

Outside == process = "running" /\ UNCHANGED <<process, formVars, receiving, shares>>

ServeShare(i) ==
    /\ \E answer \in {Accepted(<<>>), Refused} : Serve(i, answer)
    /\ Outside

CompleteTask(i) == Complete(i) /\ Outside

-----------------------------------------------------------------------------

OnQueue ==
    \/ ReceiveNoData \/ ReceiveRefusal \/ ReceiveInserted \/ ReceiveInsertedWithPicture
    \/ ReadPhotoPath \/ UploadImage \/ UploadUnanswered \/ UploadFinished

Next ==
    \/ Share \/ RemoveImage \/ OpenPicker \/ imagePickerControllerDidCancel
    \/ \E picture \in Picture : ShowImage(picture)
    \/ SaveImage \/ Leave
    \/ OnQueue
    \/ \E i \in DOMAIN inFlight : ServeShare(i) \/ CompleteTask(i)

\* A task that is not answered is timed out by the session, and the delegate
\* queue runs its handlers.
Fairness ==
    /\ WF_vars(inFlight # <<>> /\ CompleteTask(1))
    /\ WF_vars(OnQueue)

Spec == Init /\ [][Next]_vars /\ Fairness

-----------------------------------------------------------------------------
(* Properties                                                                *)

\* Unless the user changed the picture after touching the button, a share sends
\* the picture the user saw or none, and the toast of success means that it
\* sent one exactly when the server was told to expect it, although the reply
\* reads the form a second and a third time on another thread.
SharesSendWhatWasShown ==
    \A n \in DOMAIN shares :
        LET share == shares[n] IN
        share.changed \/
            /\ share.sent \in {None, share.shown}
            /\ share.told = "success" => (share.sent # None <=> share.said)

\* Every touch on the share button ends in a toast, unless the process ends, the
\* upload has no response, or the picture was taken off just then.
SharesAreTold ==
    \A n \in 1..MaxRequests :
        n \in DOMAIN shares ~>
            \/ process = "crashed"
            \/ n \in DOMAIN shares /\ shares[n].told \in {"success", "failure", Unheard}
            \/ n \in DOMAIN shares /\ shares[n].told = Dropped /\ shares[n].changed
=============================================================================
