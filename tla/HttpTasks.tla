------------------------------- MODULE HttpTasks -------------------------------
(***************************************************************************)
(* HttpUrlTaskManager over the shared URLSession: requests on their way,   *)
(* and the completion handlers that wait for the session's delegate queue. *)
(*                                                                         *)
(* The server takes requests in any order, and tasks complete in any       *)
(* order; the delegate queue, a serial one, runs their handlers in the     *)
(* order in which they completed.  A handler calls onHttpReceive of the    *)
(* screen that sent the request, which the task keeps alive: it is the     *)
(* screen in front, or one that another screen has covered for good.       *)
(***************************************************************************)
EXTENDS Naturals, Sequences, SequencesExt

CONSTANT MaxRequests    \* bound: the user sends nothing beyond so many

ASSUME MaxRequestsAssumption == MaxRequests \in Nat \ {0}

VARIABLES
    inFlight,   \* requests not completed, in the order they were sent
    delivered,  \* completed ones whose handler has not run
    overtaken   \* history: some request was served or completed out of turn

httpVars == <<inFlight, delivered, overtaken>>

\* An answer is accepted (status 200 and isValid), refused, or malformed: it is
\* JSON, but lacks isValid, the list or what else a receiver casts by force,
\* whatever its status.  Or there is none and no data either: the connection
\* failed or the request timed out.
Accepted(body) == [status |-> "accepted", body |-> body]
Refused == [status |-> "refused", body |-> <<>>]
Malformed == [status |-> "malformed", body |-> <<>>]
NoData == [status |-> "no data", body |-> <<>>]
Unserved == [status |-> "unserved", body |-> <<>>]

HttpInit == inFlight = <<>> /\ delivered = <<>> /\ overtaken = FALSE

Request(id, data, receiver) ==
    [id |-> id, data |-> data, receiver |-> receiver, answer |-> Unserved]

\* actionTaskWithData
Send(request) == inFlight' = Append(inFlight, request)

RoomBeside(n) == Len(inFlight) + Len(delivered) + n < MaxRequests
Room == RoomBeside(0)

\* The server answers the i-th request.
Serve(i, answer) ==
    /\ inFlight[i].answer = Unserved
    /\ inFlight' = [inFlight EXCEPT ![i].answer = answer]
    /\ overtaken' = (overtaken \/ \E j \in 1..(i - 1) : inFlight[j].answer = Unserved)
    /\ UNCHANGED delivered

\* The i-th task completes: with its answer, or, at any time, without data.
Complete(i) ==
    /\ \E answer \in {inFlight[i].answer, NoData} \ {Unserved} :
           delivered' = Append(delivered, [inFlight[i] EXCEPT !.answer = answer])
    /\ inFlight' = RemoveAt(inFlight, i)
    /\ overtaken' = (overtaken \/ i > 1)

\* The next handler of the delegate queue has this to report, to this receiver.
Reply == Head(delivered)
Receives(id, status, receiver) ==
    /\ delivered # <<>>
    /\ Reply.id = id
    /\ Reply.answer.status = status
    /\ Reply.receiver = receiver
Taken == delivered' = Tail(delivered)

\* Without data `data!` traps before the receiver is called, whichever screen
\* that is.
ReplyTraps == delivered # <<>> /\ Reply.answer = NoData

\* A forced cast of what is not there traps in the receiver.
CastTraps == delivered # <<>> /\ Reply.answer = Malformed

\* Another screen covers the one in front: all receivers are hidden now.
Hidden(tasks) == [i \in DOMAIN tasks |-> [tasks[i] EXCEPT !.receiver = "hidden"]]

\* Requests of the screen in front, with or without answer.
Outstanding(id) ==
    \E tasks \in {inFlight, delivered} : \E i \in DOMAIN tasks :
        tasks[i].receiver = "front" /\ tasks[i].id = id
=============================================================================
