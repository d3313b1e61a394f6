-------------------------- MODULE RealmNotifications -------------------------
(***************************************************************************)
(* Change notifications of one collection: a Realm on its thread (the      *)
(* target), a notifier with its callbacks, the coordinator's background    *)
(* worker, and the writers of other Realms and processes.                  *)
(*                                                                         *)
(* Sources: impl/realm_coordinator.cpp, impl/collection_notifier.cpp,      *)
(* impl/results_notifier.cpp, impl/transact_log_handler.cpp and            *)
(* shared_realm.cpp of Realm's object store.                               *)
(*                                                                         *)
(* A commit is its version number; `touching` holds those that changed the *)
(* collection.  A step of the target that runs no user code between two    *)
(* lock regions is one action.  Assumed: auto-refresh is on, the Realm     *)
(* keeps its read transaction (no invalidate), the collection lives on,    *)
(* the file is watched, a begun write ends by commit or cancel, in the     *)
(* callback that began it if one did.                                      *)
(*                                                                         *)
(* Losses the code does not exclude mark the callback `excused`, each      *)
(* where it happens: see Suppressed, Committed, Packaged, Discarded,       *)
(* Called and WithoutLate.                                                 *)
(***************************************************************************)
EXTENDS NotifierCallbacks, FiniteSets

CONSTANTS MaxVersion,   \* bound: commits
          MaxTokens     \* bound: callbacks ever added

ASSUME BoundsAssumption == MaxVersion \in Nat /\ MaxTokens \in Nat

VARIABLES
    latest,       \* version of the newest snapshot of the file
    touching,     \* the commits that changed the collection
    realm,        \* version the target reads
    writing,      \* the target is in a write transaction
    suppressed,   \* the callbacks that the commit under way is to leave out
    notifier,     \* see NotifierCallbacks
    tokens,       \* m_next_token
    skip,         \* m_notifier_skip_version
    worker,       \* the background worker's round
    woken,        \* the worker has been woken (a commit, wake_up_notifier_worker)
    signalled,    \* the target's run loop is to call Realm::notify
    async_error,  \* m_async_error
    target        \* where the target's thread stands

vars == <<latest, touching, realm, writing, suppressed, notifier, tokens, skip, worker,
          woken, signalled, async_error, target>>
fileVars == <<latest, touching>>
workerVars == <<worker, skip, async_error>>

Versions == 0..MaxVersion
NoRound == [stage |-> "idle", skip |-> 0, to |-> 0,
            changes |-> {}, view |-> FALSE, gap |-> FALSE]
AtRest == [pc |-> "idle", then |-> "read", want |-> 0, at |-> 0,
           calling |-> NoToken, shortened |-> FALSE]
Loops == {"before", "after", "error"}

Init ==
    /\ latest = 0 /\ touching = {} /\ realm = 0 /\ writing = FALSE /\ suppressed = {}
    /\ notifier = NewNotifier(0) /\ tokens = 0 /\ skip = 0
    /\ worker = NoRound /\ woken = FALSE /\ signalled = FALSE /\ async_error = FALSE
    /\ target = AtRest

Idle == target.pc = "idle"
InCallback == target.pc \in {"after", "error"} /\ target.calling # NoToken
\* begin_transaction holds the write lock from before it waits for the worker.
Locked == writing \/ (target.then = "write" /\ target.pc \in {"waiting", "before"})
Touched(from, to) == touching \cap (from + 1)..to

-----------------------------------------------------------------------------
(***************************************************************************)
(* Commits.                                                                *)
(***************************************************************************)
Owing(n, v, muted) ==
    Each(n, LAMBDA c :
        IF c.token \in muted THEN [c EXCEPT !.muted = @ \cup {v}]
        ELSE IF c.initial THEN [c EXCEPT !.owed = @ \cup {v}] ELSE c)

\* Mistake: the others are not notified of a commit.
NewSnapshotUnheard(touches) ==
    /\ latest < MaxVersion
    /\ latest' = latest + 1
    /\ touching' = IF touches THEN touching \cup {latest + 1} ELSE touching
    /\ UNCHANGED woken

NewSnapshot(touches) ==
    /\ latest < MaxVersion
    /\ latest' = latest + 1
    /\ touching' = IF touches THEN touching \cup {latest + 1} ELSE touching
    /\ woken' = TRUE

\* A commit of another Realm, thread or process.
OtherCommit(touches) ==
    /\ ~Locked
    /\ NewSnapshot(touches)
    /\ notifier' = IF touches THEN Owing(notifier, latest + 1, {}) ELSE notifier
    /\ UNCHANGED <<realm, writing, suppressed, tokens, workerVars, signalled, target>>

(***************************************************************************)
(* commitWriteTransactionWithoutNotifying: suppress_next_notification for  *)
(* one callback after the other, under the callback mutex, and then        *)
(* commit_write, under the notifier mutex.  A callback's skip flag goes    *)
(* with the next handover, whatever that hands over, so it misses its      *)
(* commit when a round is under way at the commit or has come to its       *)
(* handover since the flag was set.  A callback's write has not waited for *)
(* the worker, and the flag may cost it what the next handover brings.     *)
(***************************************************************************)
OwnWrite == InCallback /\ writing /\ target.then = "read"
InWrite == (Idle /\ writing) \/ OwnWrite

Suppressed(n, token) ==
    Each(suppress_next(n, {token}), LAMBDA c :
        [c EXCEPT !.excused = @ \/ (c.token = token /\ target.calling # NoToken)])

suppress_next_notification(token) ==
    /\ InWrite /\ token \in Tokens(notifier)
    /\ latest < MaxVersion      \* its commit follows
    /\ suppressed' = suppressed \cup {token}
    /\ notifier' = Suppressed(notifier, token)
    /\ UNCHANGED <<fileVars, realm, writing, tokens, workerVars, woken, signalled, target>>

MissesCommit(c) ==
    /\ c.skip \/ c.token \in suppressed
    /\ ~c.skip \/ worker.stage # "idle" \/ target.calling # NoToken

Committed(n, touches) ==
    Each(IF touches THEN Owing(n, latest + 1, suppressed) ELSE n, LAMBDA c :
        [c EXCEPT !.excused = @ \/ MissesCommit(c)])

commit_write(touches) ==
    /\ InWrite
    /\ NewSnapshot(touches)
    /\ realm' = latest + 1
    /\ writing' = FALSE
    /\ suppressed' = {}
    /\ notifier' = Committed(notifier, touches)
    /\ skip' = IF notifier.new THEN skip ELSE latest + 1
    /\ UNCHANGED <<tokens, worker, async_error, signalled, target>>

cancel_transaction ==
    /\ InWrite /\ suppressed = {}
    /\ writing' = FALSE
    /\ UNCHANGED <<fileVars, realm, suppressed, notifier, tokens, workerVars, woken, signalled, target>>

\* A callback begins a write of its own: begin_transaction does not notify again.
BeginInCallback ==
    /\ InCallback /\ ~writing
    /\ writing' = TRUE
    /\ realm' = latest
    /\ UNCHANGED <<fileVars, suppressed, notifier, tokens, workerVars, woken, signalled, target>>

-----------------------------------------------------------------------------
(***************************************************************************)
(* The worker: run_async_notifiers, in the lock regions it has.            *)
(***************************************************************************)
WorkerStart ==
    /\ worker.stage = "idle" /\ woken
    /\ woken' = FALSE
    /\ IF async_error
       THEN signalled' = TRUE /\ UNCHANGED <<worker, skip>>
       ELSE /\ worker' = [NoRound EXCEPT !.stage = IF skip # 0 THEN "skip" ELSE "rest",
                                         !.skip = skip, !.to = latest]
            /\ skip' = 0
            /\ UNCHANGED signalled
    /\ notifier' = [notifier EXCEPT !.new = FALSE]
    /\ UNCHANGED <<fileVars, realm, writing, suppressed, tokens, async_error, target>>

\* The first round opens the file; if that fails the error is kept.
WorkerFails ==
    /\ worker.stage = "idle" /\ woken /\ notifier.new /\ ~async_error
    /\ woken' = FALSE /\ async_error' = TRUE /\ signalled' = TRUE
    /\ notifier' = [notifier EXCEPT !.new = FALSE]
    /\ UNCHANGED <<fileVars, realm, writing, suppressed, tokens, skip, worker, target>>

\* Advance to the skipped version or to the last one, and ResultsNotifier::run.
WorkerRun ==
    LET to == IF worker.stage = "skip" THEN worker.skip ELSE worker.to
        news == Touched(notifier.seen, to)
        runs == notifier.have \/ notifier.wants      \* need_to_run
        counts == notifier.has_run /\ notifier.have  \* calculate_changes
    IN
    /\ worker.stage \in {"skip", "rest"}
    /\ worker' = [worker EXCEPT !.stage = IF @ = "skip" THEN "skipped" ELSE "ran",
                                !.changes = IF runs /\ counts THEN news ELSE {},
                                !.view = runs /\ (~notifier.has_run \/ news # {}),
                                !.gap = ~counts \/ notifier.seen < notifier.version]
    /\ notifier' = [notifier EXCEPT !.seen = IF runs THEN to ELSE @]
    /\ UNCHANGED <<fileVars, realm, writing, suppressed, tokens, skip, woken, signalled, async_error, target>>

WorkerHandover ==
    /\ worker.stage \in {"skipped", "ran"}
    /\ LET last == worker.stage = "ran" IN
       /\ notifier' = prepare_handover(notifier, IF last THEN worker.to ELSE worker.skip,
                                       worker.changes, worker.view)
       /\ worker' = IF last THEN NoRound ELSE [NoRound EXCEPT !.stage = "rest", !.to = worker.to]
       /\ signalled' = (signalled \/ last)      \* on_change notifies the Realms
    /\ UNCHANGED <<fileVars, realm, writing, suppressed, tokens, skip, woken, async_error, target>>

-----------------------------------------------------------------------------
(***************************************************************************)
(* The target: what is packaged, and for which version.                    *)
(***************************************************************************)

\* A callback's first call says what the collection is at the package's version.
\* The changes that follow do not start from there when the rows behind them are
\* older (seen), or when the round under way counts no changes or counts them
\* from older rows (gap).
Packaged(n) ==
    Each(package_for_delivery(n), LAMBDA c :
        [c EXCEPT !.excused = @ \/ (~c.initial /\ (worker.gap \/ n.seen < n.version))])

\* set_table_view: background updates go on if the last view was read at all.
Delivered(n) == {[Packaged(n) EXCEPT !.wants = w] :
                    w \in IF n.view THEN BOOLEAN ELSE {n.wants}}

\* advance_to_ready drops a package older than what the Realm reads.
Discarded(n) ==
    Each(package_for_delivery(n), LAMBDA c :
        [c EXCEPT !.excused = @ \/ (c.deliver # {} /\ n.version < realm)])

deliver_error(n) ==
    [Each(n, LAMBDA c : [c EXCEPT !.late = FALSE]) EXCEPT !.count = Len(n.callbacks)]

Begin(phase, then, at) == target' = [AtRest EXCEPT !.pc = phase, !.then = then, !.at = at]

BeginErrors(then) ==
    /\ Begin("error", then, realm')
    /\ notifier' = deliver_error(notifier)

\* Realm::notify with nothing new: process_available_async.
process_available_async ==
    /\ latest = realm /\ UNCHANGED realm
    /\ \/ async_error /\ BeginErrors("read")
       \/ /\ ~async_error /\ notifier.has_run /\ notifier.version = realm
          /\ notifier' \in Delivered(notifier)
          /\ Begin("after", "read", realm)
       \/ /\ ~async_error /\ ~(notifier.has_run /\ notifier.version = realm)
          /\ UNCHANGED <<notifier, target>>

\* A package for an older version than the Realm reads is dropped.
OutOfDate(n) == n.version < realm

\* Realm::notify with new snapshots: advance_to_ready.
advance_to_ready ==
    /\ latest > realm
    /\ \/ async_error /\ realm' = latest /\ BeginErrors("read")
       \/ ~async_error /\ ~notifier.has_run /\ realm' = latest /\ UNCHANGED <<notifier, target>>
       \/ /\ ~async_error /\ notifier.has_run /\ OutOfDate(notifier)
          /\ notifier' = Discarded(notifier)
          /\ UNCHANGED <<realm, target>>
       \/ /\ ~async_error /\ notifier.has_run /\ ~OutOfDate(notifier)
          /\ notifier' \in Delivered(notifier)
          /\ Begin(IF notifier.version = realm THEN "after" ELSE "before", "read", notifier.version)
          /\ UNCHANGED realm

Notify ==
    /\ Idle /\ suppressed = {} /\ signalled
    /\ signalled' = FALSE
    /\ \/ writing /\ UNCHANGED <<realm, notifier, target>>
       \/ ~writing /\ (process_available_async \/ advance_to_ready)
    /\ UNCHANGED <<fileVars, writing, suppressed, tokens, workerVars, woken>>

-----------------------------------------------------------------------------
(***************************************************************************)
(* Realm::refresh and begin_transaction wait until the notifier has been   *)
(* run for the newest snapshot: package_and_wait.                          *)
(***************************************************************************)
\* Mistake: the worker must be ahead of the version, not at it.
IsBeyond(n, version) == ~n.have \/ (n.has_run /\ n.version > version)

IsReady(n, version) == ~n.have \/ (n.has_run /\ n.version >= version)

ToLatest(then) ==
    /\ Idle /\ ~writing
    /\ \/ /\ async_error
          /\ realm' = latest /\ writing' = (then = "write")
          /\ BeginErrors(then)
          /\ UNCHANGED woken
       \/ /\ ~async_error
          /\ target' = [AtRest EXCEPT !.pc = "waiting", !.then = then, !.want = latest]
          /\ woken' = (woken \/ ~IsReady(notifier, latest))
          /\ UNCHANGED <<realm, writing, notifier>>
    /\ UNCHANGED <<fileVars, suppressed, tokens, workerVars, signalled>>

Refresh == ToLatest("read")
BeginWrite == ToLatest("write")

\* Mistake: the target goes to the version it asked for, not to the package's.
EndWaitAsAsked ==
    /\ target.pc = "waiting" /\ IsReady(notifier, target.want)
    /\ notifier.has_run /\ notifier.version >= target.want
    /\ notifier' = Packaged(notifier)
    /\ Begin("before", target.then, target.want)
    /\ UNCHANGED <<realm, writing, fileVars, suppressed, tokens, workerVars, woken, signalled>>

EndWait ==
    LET forWrite == target.then = "write" IN
    /\ target.pc = "waiting" /\ IsReady(notifier, target.want)
    /\ IF notifier.has_run /\ notifier.version >= target.want
       THEN /\ IF forWrite THEN notifier' = Packaged(notifier)
                           ELSE notifier' \in Delivered(notifier)
            \* no before-callbacks when a write begins at the version read
            /\ LET straight == forWrite /\ latest = realm IN
               /\ Begin(IF straight THEN "after" ELSE "before", target.then, notifier.version)
               /\ writing' = straight
            /\ UNCHANGED realm
       ELSE /\ notifier' = IF notifier.has_run THEN package_for_delivery(notifier) ELSE notifier
            /\ realm' = latest /\ writing' = forWrite /\ target' = AtRest
    /\ UNCHANGED <<fileVars, suppressed, tokens, workerVars, woken, signalled>>

-----------------------------------------------------------------------------
(***************************************************************************)
(* Calling the callbacks.  An after-callback's changes are taken from it   *)
(* before it is called.  Its first call says what the collection is; that  *)
(* is not what was packaged when the write of an earlier callback has      *)
(* moved the Realm on, or when a loop without end calls a late callback.   *)
(***************************************************************************)
Called(c) ==
    [c EXCEPT !.initial = TRUE, !.deliver = {},
              !.owed = IF c.initial THEN @ \ c.deliver
                       ELSE Touched(realm, latest) \ c.muted,
              !.excused = @ \/ (~c.initial /\ (c.late \/ target.at # realm))]

\* Mistake: a callback stays after it was told of the error.
KeptAfterCall(n) == n

\* A callback told of an error is removed after its call.
AfterCall(n) ==
    IF target.pc = "error" /\ target.calling \in Tokens(n)
    THEN remove_callback(n, target.calling) ELSE n

CallNext ==
    LET phase == target.pc
        n == AfterCall(notifier)
        due == NextDue(n, phase)
        j == Earliest(due)
        at == [n EXCEPT !.index = j]
    IN
    /\ phase \in Loops /\ ~OwnWrite
    /\ \/ /\ due # {}
          /\ notifier' = IF phase = "after" THEN [at EXCEPT !.callbacks[j + 1] = Called(@)] ELSE at
          /\ target' = [target EXCEPT !.calling = n.callbacks[j + 1].token]
          /\ UNCHANGED <<realm, writing>>
       \/ /\ due = {} /\ Overruns(n)
          /\ notifier' = n
          /\ target' = [AtRest EXCEPT !.pc = "undefined", !.shortened = target.shortened]
          /\ UNCHANGED <<realm, writing>>
       \/ /\ due = {} /\ ~Overruns(n)
          /\ notifier' = [n EXCEPT !.index = NoCallback]
          /\ IF phase = "before"
             THEN /\ realm' = target.at /\ writing' = (target.then = "write")
                  /\ target' = [target EXCEPT !.pc = "after", !.calling = NoToken]
             ELSE target' = AtRest /\ UNCHANGED <<realm, writing>>
    /\ UNCHANGED <<fileVars, suppressed, tokens, workerVars, woken, signalled>>

\* On the target's thread, outside of write transactions.
AddCallback ==
    /\ Idle \/ InCallback
    /\ ~writing /\ tokens < MaxTokens
    /\ tokens' = tokens + 1
    /\ notifier' = add_callback(notifier, tokens + 1)
    /\ woken' = (woken \/ notifier.index = NoCallback)
    /\ UNCHANGED <<fileVars, realm, writing, suppressed, workerVars, signalled, target>>

(***************************************************************************)
(* On any thread, whenever the callback mutex is free.  Removing a late    *)
(* callback takes one from the count of the packaged ones, so the loop     *)
(* ends a callback early: those not called yet are excused.                *)
(***************************************************************************)
WithoutLate(n) ==
    [n EXCEPT !.callbacks = [i \in DOMAIN n.callbacks |->
        [n.callbacks[i] EXCEPT !.excused = @ \/ i > n.index + 1]]]

RemoveCallback(token) ==
    LET late == notifier.callbacks[Place(notifier, token)].late
        short == late /\ target.pc \in Loops
    IN
    /\ token \in Tokens(notifier)
    /\ notifier' = remove_callback(IF short THEN WithoutLate(notifier) ELSE notifier, token)
    /\ target' = [target EXCEPT !.shortened = @ \/ short]
    /\ UNCHANGED <<fileVars, realm, writing, suppressed, tokens, workerVars, woken, signalled>>

-----------------------------------------------------------------------------
TargetStep == Notify \/ EndWait \/ CallNext
EndWrite == cancel_transaction \/ \E touches \in BOOLEAN : commit_write(touches)
WorkerStep == WorkerStart \/ WorkerFails \/ WorkerRun \/ WorkerHandover

Next ==
    \/ TargetStep \/ WorkerStep \/ EndWrite
    \/ Refresh \/ BeginWrite \/ BeginInCallback \/ AddCallback
    \/ \E touches \in BOOLEAN : OtherCommit(touches)
    \/ \E token \in Tokens(notifier) : suppress_next_notification(token) \/ RemoveCallback(token)

(***************************************************************************)
(* The worker's thread and the target's run loop go on, a write that was   *)
(* begun ends, and a callback returns, however many writes it makes.       *)
(* Nobody has to write, refresh, add or remove.                            *)
(***************************************************************************)
Fairness ==
    /\ WF_vars(TargetStep) /\ SF_vars(CallNext)
    /\ WF_vars(WorkerStep) /\ WF_vars(EndWrite)

Spec == Init /\ [][Next]_vars /\ Fairness

-----------------------------------------------------------------------------
Callbacks == {notifier.callbacks[i] : i \in DOMAIN notifier.callbacks}
Counted == {c \in Callbacks : c.initial /\ ~c.excused}

\* Type invariant; the worker never runs ahead of the file, nor the target.
\* m_have_callbacks says whether there are callbacks, although removing and adding
\* in the middle of a delivery treat it differently.
TypeOK ==
    /\ latest \in Versions /\ touching \subseteq 1..latest /\ realm \in 0..latest
    /\ writing \in BOOLEAN /\ woken \in BOOLEAN /\ signalled \in BOOLEAN
    /\ async_error \in BOOLEAN /\ tokens \in 0..MaxTokens /\ skip \in 0..latest
    /\ suppressed \subseteq 1..tokens /\ (suppressed # {} => writing)
    /\ \A c \in Callbacks :
          /\ c.token \in 1..tokens
          /\ c.accumulated \cup c.deliver \cup c.owed \cup c.muted \subseteq 1..latest
          /\ {c.initial, c.skip, c.late, c.excused} \subseteq BOOLEAN
    /\ notifier.version \in 0..latest /\ notifier.seen \in 0..latest
    /\ {notifier.have, notifier.has_run, notifier.wants, notifier.view, notifier.new} \subseteq BOOLEAN
    /\ notifier.have <=> notifier.callbacks # <<>>
    /\ worker.stage \in {"idle", "skip", "skipped", "rest", "ran"}
    /\ worker.to \in 0..latest /\ worker.skip \in 0..worker.to
    /\ worker.changes \subseteq 1..latest
    /\ target.pc \in Loops \cup {"idle", "waiting", "undefined"}
    /\ target.at \in 0..latest /\ target.calling \in 0..tokens

(***************************************************************************)
(* No news is lost and none is told twice: what a callback has still to be *)
(* told of is what waits for it in its two change sets, in the worker's    *)
(* hands, and in the commits the worker has not read.                      *)
(***************************************************************************)
ComesLater(c) ==
    c.accumulated \cup (IF c.skip THEN {} ELSE worker.changes)
                  \cup (Touched(notifier.seen, latest) \ c.muted)

NewsIsConserved == \A c \in Counted : c.owed = c.deliver \cup ComesLater(c)

(***************************************************************************)
(* A package ends at the version it is delivered at: it announces nothing  *)
(* newer, and what comes after it is exactly what happened after that      *)
(* version.  So it is for first calls, which say what the collection is at *)
(* that version.                                                           *)
(***************************************************************************)
NewsMatchesVersion ==
    target.pc \in {"before", "after"} =>
        \A c \in Callbacks : ~c.late /\ ~c.excused =>
            /\ c.deliver \subseteq 1..target.at
            /\ ComesLater(c) = Touched(target.at, latest) \ c.muted

\* Everything the delivery loops rely on about their end: unless a late callback
\* was removed, the count is that of the packaged callbacks and no index overruns.
LoopSeesPackage ==
    /\ target.pc = "undefined" => target.shortened
    /\ target.pc \in Loops /\ ~target.shortened =>
          notifier.count = Cardinality({c \in Callbacks : ~c.late})

\* A round of error calls leaves no callback that was registered when it began.
ErrorsReachEveryone ==
    [][target.pc = "error" /\ target'.pc = "idle" /\ ~target.shortened
          => \A c \in {notifier'.callbacks[i] : i \in DOMAIN notifier'.callbacks} : c.late]_vars

\* A callback that is owed news is told, or removed, in the end.
Waits(token) == \E c \in Counted : c.token = token /\ c.owed # {}
Broken == async_error \/ target.pc = "undefined"
NewsArrives == \A token \in 1..MaxTokens : Waits(token) ~> (~Waits(token) \/ Broken)

\* RLMRealm.h: the callbacks passed to commitWriteTransactionWithoutNotifying are
\* those "you do not want to be notified for the changes made in this write".
SuppressedStaysSilent ==
    \A c \in Callbacks : c.initial => (c.accumulated \cup c.deliver) \cap c.muted = {}

\* A refresh or the begin of a write is not kept waiting for the worker for ever,
\* unless the worker could not open the file.
WaitsEnd == target.pc = "waiting" ~> (target.pc # "waiting" \/ async_error)
=============================================================================
