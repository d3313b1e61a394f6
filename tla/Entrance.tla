-------------------------------- MODULE Entrance --------------------------------
(***************************************************************************)
(* ViewController, the main screen, and SetNickNameView, the gate a user   *)
(* without a nickname is sent through: what happens at launch and at each  *)
(* return to the main screen, the check for a new version, and the pop-ups *)
(* of the AI button.                                                       *)
(*                                                                         *)
(* Screens are presented and never dismissed: each return to the main      *)
(* screen puts a new one in front, and the earlier ones live on below, as  *)
(* receivers of their replies.  UIKit refuses to present from a screen     *)
(* that presents another already, or that is not in the window.  Alerts    *)
(* and pop-ups lie over all screens in layers; only the top one is         *)
(* touched.  Replies are handled on the delegate queue of the session.     *)
(***************************************************************************)
EXTENDS HttpTasks, Integers, FiniteSetsExt

CONSTANTS
    Name,           \* nicknames, spaces removed
    NoName,         \* the empty nickname
    Installed,      \* VERSION_NAME, by components
    Offered,        \* versionName in the server's answer: empty, by components, or ...
    Garbled,        \* ... with a component that is no number
    MaxMains,       \* bound: main screens of one run of the application
    MaxQuestions    \* bound: touches of the AI button of one main screen

ASSUME NameAssumption == NoName \notin Name
ASSUME VersionAssumption ==
    /\ Installed \in Seq(Nat) \ {<<>>}
    /\ Offered \subseteq Seq(Nat) \cup {Garbled}
ASSUME BoundsAssumption == MaxMains \in Nat \ {0} /\ MaxQuestions \in Nat

VARIABLES
    nickname,   \* KEY_USER_NICKNAME of the user defaults, which outlive the process
    running,    \* the process
    top,        \* the screen in front: "main", "gate", or "other" for all others
    mains,      \* the main screens of this run; the last is in front or nearest to it
    appeared,   \* viewDidAppear of the last one has run
    layers,     \* alerts and pop-ups over the screens, the top one last
    posted,     \* main screens with an answer of the AI queued on the main thread
    questions,  \* touches of the AI button, by main screen
    history     \* of this run: the gate was opened for want of a name; an alert was
                \* in its way; the user saved a nickname of spaces

screenVars == <<top, mains, appeared>>
vars == <<httpVars, nickname, running, screenVars, layers, posted, questions, history>>

Popup(main) == [kind |-> "popup", main |-> main, live |-> TRUE, version |-> <<>>]
Alert(main, version) == [kind |-> "alert", main |-> main, live |-> TRUE, version |-> version]

NoQuestions == [k \in 1..MaxMains |-> 0]
NewRun == [asked |-> FALSE, beaten |-> FALSE, blanked |-> FALSE]

\* Nothing but the user defaults is left of a process that ends.
Ended ==
    /\ running' = FALSE
    /\ inFlight' = <<>> /\ delivered' = <<>> /\ overtaken' = FALSE
    /\ top' = "other" /\ mains' = 0 /\ appeared' = FALSE
    /\ layers' = <<>> /\ posted' = <<>>
    /\ questions' = NoQuestions /\ history' = NewRun
    /\ UNCHANGED nickname

\* The installed application, not started yet.
Init ==
    /\ HttpInit
    /\ nickname = NoName
    /\ running = FALSE
    /\ top = "other" /\ mains = 0 /\ appeared = FALSE
    /\ layers = <<>> /\ posted = <<>>
    /\ questions = NoQuestions /\ history = NewRun

-----------------------------------------------------------------------------
(* Versions                                                                  *)

\* Faulty variant: the first component is not looked at.
compareVersionTail(src, new) ==
    LET differ == {i \in DOMAIN src \ {1} : src[i] # new[i]}
    IN  IF Len(src) # Len(new) THEN 1
        ELSE IF differ = {} THEN 0
        ELSE IF new[Min(differ)] > src[Min(differ)] THEN 1 ELSE -1

compareVersion(src, new) ==
    LET differ == {i \in DOMAIN src : src[i] # new[i]}
    IN  IF Len(src) # Len(new) THEN 1
        ELSE IF differ = {} THEN 0
        ELSE IF new[Min(differ)] > src[Min(differ)] THEN 1 ELSE -1

-----------------------------------------------------------------------------
(* Main thread                                                               *)

\* A request is sent if the network is up.
SendIfConnected(request) == (Room /\ Send(request)) \/ UNCHANGED inFlight

\* A new main screen in front; its viewDidLoad asks for the version.
ShowMain ==
    /\ mains < MaxMains
    /\ mains' = mains + 1
    /\ top' = "main"
    /\ appeared' = FALSE
    /\ SendIfConnected(Request("UPDATE_VERSION", <<>>, mains + 1))
    /\ UNCHANGED <<delivered, overtaken, layers, posted, questions>>

Launch == ~running /\ running' = TRUE /\ ShowMain /\ UNCHANGED <<nickname, history>>

\* The screen in front can be touched.
Touchable(screen) == running /\ top = screen /\ layers = <<>> /\ (screen = "main" => appeared)

\* The root of the window is the first main screen.
AlertOf(main) == \E i \in DOMAIN layers : layers[i].kind = "alert" /\ layers[i].main = main
RootPresents == mains > 1 \/ top # "main" \/ AlertOf(1)

\* Faulty variant: offline, the nickname is not asked for.
AppearOnlineOnly ==
    /\ running /\ top = "main" /\ ~appeared
    /\ appeared' = TRUE
    /\ IF nickname = NoName /\ ~RootPresents
         THEN /\ \/ top' = "gate" /\ history' = [history EXCEPT !.asked = TRUE]
                 \/ UNCHANGED <<top, history>>
              /\ UNCHANGED inFlight
         ELSE UNCHANGED <<inFlight, top, history>>
    /\ UNCHANGED <<nickname, running, mains, delivered, overtaken, layers, posted, questions>>

\* Without a nickname the root is to present the gate, and does if it can;
\* otherwise the server is told who uses the application.
viewDidAppear ==
    /\ running /\ top = "main" /\ ~appeared
    /\ appeared' = TRUE
    /\ \/ /\ nickname = NoName /\ ~RootPresents
          /\ top' = "gate"
          /\ history' = [history EXCEPT !.asked = TRUE]
          /\ UNCHANGED inFlight
       \/ /\ nickname = NoName /\ RootPresents
          /\ history' = [history EXCEPT !.beaten = @ \/ AlertOf(1)]
          /\ UNCHANGED <<inFlight, top>>
       \/ /\ nickname # NoName
          /\ SendIfConnected(Request("UPDATE_USER", <<>>, mains))
          /\ UNCHANGED <<top, history>>
    /\ UNCHANGED <<nickname, running, mains, delivered, overtaken, layers, posted, questions>>

\* SetNickNameView.onClick: a text is tested for being empty and its spaces are
\* removed afterwards, so that it may leave nothing to be stored.
SaveNickname ==
    /\ Touchable("gate")
    /\ \E rest \in Name \cup {NoName} :
          /\ nickname' = rest
          /\ history' = [history EXCEPT !.blanked = @ \/ rest = NoName]
    /\ ShowMain
    /\ UNCHANGED running

\* Back from the gate or from any other screen: a new main screen.
onBackPressed ==
    /\ Touchable("gate") \/ Touchable("other")
    /\ ShowMain
    /\ UNCHANGED <<nickname, running, history>>

\* A button of the main screen opens another; from the settings, the gate.
OpenScreen ==
    /\ \/ Touchable("main") /\ top' = "other"
       \/ Touchable("other") /\ top' = "gate"
    /\ UNCHANGED <<httpVars, nickname, running, mains, appeared, layers, posted, questions, history>>

\* The AI button: without network there is a toast only.
AskAI ==
    /\ Touchable("main")
    /\ questions[mains] < MaxQuestions
    /\ Room /\ Send(Request("REQUEST_AI", <<>>, mains))
    /\ questions' = [questions EXCEPT ![mains] = @ + 1]
    /\ UNCHANGED <<delivered, overtaken, nickname, running, screenVars, layers, posted, history>>

\* Faulty variant: one variable holds the pop-up of all main screens.
ReleasedOfAll(main) ==
    [i \in DOMAIN layers |->
        IF layers[i].kind = "popup" THEN [layers[i] EXCEPT !.live = FALSE] ELSE layers[i]]

\* mAIPopup holds the main screen's last pop-up only.  One that is replaced there
\* is gone, though what it drew stays, with a button that has no target any more.
Released(main) ==
    [i \in DOMAIN layers |->
        IF layers[i] = Popup(main) THEN [layers[i] EXCEPT !.live = FALSE] ELSE layers[i]]

\* The main queue shows an answer of the AI, whatever screen is in front.
ShowAnswer ==
    /\ running /\ posted # <<>>
    /\ layers' = Append(Released(Head(posted)), Popup(Head(posted)))
    /\ posted' = Tail(posted)
    /\ UNCHANGED <<httpVars, nickname, running, screenVars, questions, history>>

\* The buttons of an alert dismiss it, also that of a forced update; the button
\* of a pop-up takes it away if there is someone to hear it.
Close ==
    /\ running /\ layers # <<>>
    /\ Last(layers).live
    /\ layers' = Front(layers)
    /\ UNCHANGED <<httpVars, nickname, running, screenVars, posted, questions, history>>

Kill == running /\ Ended

-----------------------------------------------------------------------------
(* Delegate queue                                                            *)

\* The answer of UserUpdateTask is not looked at.
ReceiveUserUpdate ==
    /\ running /\ delivered # <<>>
    /\ Reply.id = "UPDATE_USER"
    /\ Taken
    /\ UNCHANGED <<inFlight, overtaken, nickname, running, screenVars, layers, posted, questions, history>>

\* The other two trap without data, and on a version that is not made of numbers.
ReceiveTrap ==
    /\ running
    /\ \/ ReplyTraps /\ Reply.id # "UPDATE_USER"
       \/ delivered # <<>> /\ Reply.answer = Accepted(Garbled)
    /\ Ended

ReceiveRefusal ==
    /\ running
    /\ \E id \in {"UPDATE_VERSION", "REQUEST_AI"}, k \in 1..mains : Receives(id, "refused", k)
    /\ Taken
    /\ UNCHANGED <<inFlight, overtaken, nickname, running, screenVars, layers, posted, questions, history>>

ReceiveAnswer ==
    /\ running
    /\ \E k \in 1..mains :
          Receives("REQUEST_AI", "accepted", k) /\ posted' = Append(posted, k)
    /\ Taken
    /\ UNCHANGED <<inFlight, overtaken, nickname, running, screenVars, layers, questions, history>>

\* Faulty variant: the alert is presented over whatever screen is in front.
PresentedAnywhere(main, alert) == layers' = Append(layers, alert)

\* The alert is presented from this queue, not from the main thread.  A screen that
\* is covered cannot present it; one that is just coming up may or may not.
Presented(main, alert) ==
    \/ /\ main = mains /\ top = "main"
       /\ layers' = Append(layers, alert)
    \/ /\ ~(main = mains /\ top = "main" /\ appeared)
       /\ UNCHANGED layers

ReceiveVersion ==
    /\ running
    /\ \E k \in 1..mains :
          /\ Receives("UPDATE_VERSION", "accepted", k)
          /\ LET version == Reply.answer.body IN
             /\ version # Garbled
             /\ IF version # <<>> /\ compareVersion(Installed, version) > 0
                  THEN Presented(k, Alert(k, version))
                  ELSE UNCHANGED layers
    /\ Taken
    /\ UNCHANGED <<inFlight, overtaken, nickname, running, screenVars, posted, questions, history>>

-----------------------------------------------------------------------------
(* Session and server                                                        *)

Answers(id) ==
    {Refused} \cup IF id = "UPDATE_VERSION" THEN {Accepted(v) : v \in Offered} ELSE {Accepted(<<>>)}

OnTheWay ==
    /\ running
    /\ \E i \in DOMAIN inFlight :
          \/ \E answer \in Answers(inFlight[i].id) : Serve(i, answer)
          \/ Complete(i)
    /\ UNCHANGED <<nickname, running, screenVars, layers, posted, questions, history>>

Next ==
    \/ Launch \/ viewDidAppear \/ SaveNickname \/ onBackPressed \/ OpenScreen
    \/ AskAI \/ ShowAnswer \/ Close \/ Kill
    \/ ReceiveUserUpdate \/ ReceiveTrap \/ ReceiveRefusal \/ ReceiveAnswer \/ ReceiveVersion
    \/ OnTheWay

Spec == Init /\ [][Next]_vars

-----------------------------------------------------------------------------
(* Properties                                                                *)

Tasks(statuses) ==
    [ id       : {"UPDATE_VERSION", "UPDATE_USER", "REQUEST_AI"},
      data     : {<<>>},
      receiver : 1..mains,
      answer   : [status : statuses, body : {<<>>} \cup Offered] ]

\* The state is well typed; what is on its way, queued or shown belongs to a main
\* screen of this run, and there is at most one alert, of the screen in front.
TypeOK ==
    /\ inFlight \in Seq(Tasks({"unserved", "accepted", "refused"}))
    /\ delivered \in Seq(Tasks({"accepted", "refused", "no data"}))
    /\ nickname \in Name \cup {NoName}
    /\ {running, appeared, overtaken} \subseteq BOOLEAN
    /\ top \in {"main", "gate", "other"}
    /\ mains \in 0..MaxMains /\ (running <=> mains > 0)
    /\ posted \in Seq(1..mains)
    /\ questions \in [1..MaxMains -> 0..MaxQuestions]
    /\ history \in [asked : BOOLEAN, beaten : BOOLEAN, blanked : BOOLEAN]
    /\ \A i \in DOMAIN layers : LET l == layers[i] IN
          \/ l \in [kind : {"popup"}, main : 1..mains, live : BOOLEAN, version : {<<>>}]
          \/ /\ l \in [kind : {"alert"}, main : {mains}, live : {TRUE}, version : Offered]
             /\ top = "main"
             /\ \A j \in DOMAIN layers \ {i} : layers[j].kind = "popup"

\* Nobody uses the main screen without a nickname who was not sent through the gate
\* in this run, though only its first main screen can open it: but for a user
\* who saved a nickname of spaces, and for an update alert that came up before
\* the main screen had appeared and so kept the gate from being presented.
NamelessWasAsked ==
    Touchable("main") /\ nickname = NoName =>
        history.asked \/ history.blanked \/ history.beaten

\* A pop-up that nothing closes, and that keeps the user from every screen, is only
\* left behind where the AI button of one main screen was touched twice before the
\* first answer was there.
PopupsCanBeClosed ==
    \A i \in DOMAIN layers : ~layers[i].live => questions[layers[i].main] > 1

\* A version is newer if it is greater in the first component that differs, missing
\* ones being zero.
Component(v, i) == IF i \in DOMAIN v THEN v[i] ELSE 0
Newer(v, w) ==
    \E i \in DOMAIN v :
        /\ Component(v, i) > Component(w, i)
        /\ \A j \in 1..(i - 1) : Component(v, j) = Component(w, j)

\* An update is only announced for a newer version, as the comment of
\* compareVersion has it, or for one with another number of components, which
\* passes for newer even if it is older.
UpdatesAreNewer ==
    \A i \in DOMAIN layers : layers[i].kind = "alert" =>
        \/ Newer(layers[i].version, Installed)
        \/ Len(layers[i].version) # Len(Installed)
=============================================================================
