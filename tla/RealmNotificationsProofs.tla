------------------------ MODULE RealmNotificationsProofs ------------------------
(***************************************************************************)
(* Proofs about the change notifications of a collection: the news of a    *)
(* callback are told once and at the version they belong to, the loops     *)
(* over the callbacks see the package they deliver, and an error reaches   *)
(* everyone.                                                               *)
(*                                                                         *)
(* What a callback has still to be told of is followed by versions: what   *)
(* was accumulated up to the version of the last handover, and the commits *)
(* after that version which it is not to be left out of.                   *)
(***************************************************************************)
EXTENDS RealmNotifications, RowLemmas, WellFoundedInduction

-----------------------------------------------------------------------------
(* The inductive invariant                                                   *)

CallbackRecord ==
    [ token : Nat, accumulated : SUBSET Nat, deliver : SUBSET Nat, initial : BOOLEAN,
      skip : BOOLEAN, owed : SUBSET Nat, muted : SUBSET Nat, late : BOOLEAN, excused : BOOLEAN ]
NotifierRecord ==
    [ callbacks : Seq(CallbackRecord), index : Int, count : Int, have : BOOLEAN, version : Nat,
      has_run : BOOLEAN, seen : Nat, wants : BOOLEAN, view : BOOLEAN, new : BOOLEAN ]
Round ==
    [ stage : {"idle", "skip", "skipped", "rest", "ran"}, skip : Nat, to : Nat,
      changes : SUBSET Nat, view : BOOLEAN, gap : BOOLEAN ]
Standing ==
    [ pc : Loops \cup {"idle", "waiting", "undefined"}, then : {"read", "write"}, want : Nat,
      at : Nat, calling : Nat, shortened : BOOLEAN ]

StateFits ==
    /\ latest \in Versions /\ touching \in SUBSET (1..latest) /\ realm \in 0..latest
    /\ writing \in BOOLEAN /\ woken \in BOOLEAN /\ signalled \in BOOLEAN
    /\ async_error \in BOOLEAN /\ tokens \in 0..MaxTokens
    /\ suppressed \in SUBSET (1..tokens)
    /\ suppressed # {} => writing /\ target.pc \notin {"waiting", "before"}
    /\ notifier \in NotifierRecord
    /\ worker \in Round
    /\ target \in Standing /\ target.at <= latest /\ target.calling <= tokens

\* The worker's rounds follow each other, and never run ahead of the file.  The
\* rows it compares with are those of the last handover, or of a round without
\* callbacks; in the middle of a round, those of its end.
RoundEnd == IF worker.stage = "skipped" THEN worker.skip ELSE worker.to
RoundFits ==
    /\ skip \in 0..latest
    /\ skip # 0 => notifier.version < skip /\ worker.to < skip
    /\ notifier.version <= latest
    /\ notifier.new => ~notifier.has_run /\ worker.stage = "idle"
    /\ async_error => ~notifier.has_run /\ worker.stage = "idle" /\ ~notifier.new
    /\ worker.stage = "idle" => worker = NoRound
    /\ worker.stage # "idle" => notifier.version <= worker.to /\ worker.to <= latest
    /\ worker.stage \in {"skip", "skipped"} =>
           notifier.version < worker.skip /\ worker.skip <= worker.to
    /\ worker.skip <= worker.to
    /\ worker.stage \in {"idle", "skip", "rest"} =>
           worker.changes = {} /\ ~worker.gap /\ notifier.seen <= notifier.version
    /\ worker.stage \in {"skipped", "ran"} =>
           /\ notifier.seen <= RoundEnd
           /\ worker.changes \subseteq 1..RoundEnd
           /\ ~worker.gap => /\ notifier.seen = RoundEnd
                             /\ worker.changes = Touched(notifier.version, RoundEnd)

\* Who writes has waited for the worker, and nobody else commits meanwhile; a
\* callback that begins a write of its own has not.
Holding == (writing /\ ~OwnWrite) \/ (target.pc = "before" /\ target.then = "write")
WritersWaited ==
    /\ target.pc = "waiting" /\ target.then = "write" => target.want = latest
    /\ target.pc \in {"after", "error"} /\ target.then = "write" => writing
    /\ Holding /\ notifier.have /\ ~async_error =>
           notifier.has_run /\ notifier.version = latest

\* The delivery loops: the package is a prefix of the callbacks, unless a late one
\* was removed, and the index lies in the vector.
Telling == target.pc \in {"before", "after"}
LoopFits ==
    /\ notifier.index \in NoCallback..(Len(notifier.callbacks) - 1)
    /\ notifier.have <=> notifier.callbacks # <<>>
    /\ target.pc \in {"idle", "waiting"} =>
           notifier.index = NoCallback /\ ~target.shortened /\ target.calling = NoToken
    /\ target.pc = "before" => ~target.shortened
               /\ \A i \in DOMAIN notifier.callbacks : ~notifier.callbacks[i].late
    /\ target.pc = "undefined" => target.shortened
    /\ Telling => notifier.has_run
    /\ target.pc = "error" => async_error
    /\ target.pc \in Loops /\ ~target.shortened =>
           /\ notifier.count \in 0..Len(notifier.callbacks)
           /\ \A i \in DOMAIN notifier.callbacks :
                  notifier.callbacks[i].late <=> i > notifier.count

TokensDiffer ==
    \A i, j \in DOMAIN notifier.callbacks :
        notifier.callbacks[i].token = notifier.callbacks[j].token => i = j

\* A loop of error calls removes each callback it has called before it goes on.
ErrorLoopFits ==
    target.pc = "error" =>
        \/ notifier.index = NoCallback /\ target.calling \notin Tokens(notifier)
        \/ /\ notifier.index = 0 /\ notifier.callbacks[1].token = target.calling
           /\ target.shortened \/ ~notifier.callbacks[1].late

\* A callback.
ToCome(c) == Touched(notifier.version, latest) \ c.muted
Live(c) == ~c.excused /\ (c.initial \/ (Telling /\ ~c.late))

CallbackFits(c) ==
    /\ c.token \in 1..tokens
    /\ c.accumulated \subseteq 1..notifier.version
    /\ c.deliver \subseteq 1..latest /\ c.owed \subseteq 1..latest /\ c.muted \subseteq 1..latest
    /\ c.late => c.deliver = {} /\ (c.initial => c.excused)
    /\ ~notifier.has_run => /\ ~c.initial /\ c.deliver = {}
                            /\ ~async_error => c.muted = {} /\ ~c.skip
    /\ target.pc \in {"idle", "waiting", "error"} => c.excused \/ c.deliver = {}

\* Its skip flag, once the commit it is left out of is made, is set up to the
\* handover of the round that ends at that commit, and covers that commit and no
\* other.  Before, there is nothing that the flag could cost it.
SkipEnd == IF worker.stage = "idle" THEN skip ELSE worker.skip
FlagFits(c) ==
    ~c.excused /\ notifier.has_run =>
        IF c.skip /\ c.token \in suppressed
          THEN notifier.version = latest
        ELSE IF c.skip
          THEN /\ worker.stage \in {"idle", "skip", "skipped"}
               /\ notifier.version < SkipEnd
               /\ Touched(notifier.version, SkipEnd) \subseteq c.muted
               /\ Touched(SkipEnd, latest) \cap c.muted = {}
          ELSE Touched(notifier.version, latest) \cap c.muted = {}

\* What it is to be told of, once it knows a version of the collection.
NewsFits(c) ==
    /\ Live(c) => notifier.has_run /\ notifier.seen >= notifier.version /\ ~worker.gap
    /\ c.initial /\ ~c.excused => c.owed = c.deliver \cup c.accumulated \cup ToCome(c)
    /\ Telling /\ ~c.late /\ ~c.excused =>
           /\ c.deliver \subseteq 1..target.at
           /\ c.accumulated \cup ToCome(c) = Touched(target.at, latest) \ c.muted

CallbackInv(c) == CallbackFits(c) /\ FlagFits(c) /\ NewsFits(c)

\* The loop leaves nothing to be told behind it.
PassedAreTold ==
    target.pc = "after" =>
        \A i \in DOMAIN notifier.callbacks :
            i <= notifier.index + 1 \/ target.shortened =>
                notifier.callbacks[i].excused \/ notifier.callbacks[i].deliver = {}

IInv ==
    /\ StateFits
    /\ RoundFits
    /\ WritersWaited
    /\ LoopFits
    /\ TokensDiffer
    /\ ErrorLoopFits
    /\ \A i \in DOMAIN notifier.callbacks : CallbackInv(notifier.callbacks[i])
    /\ PassedAreTold

-----------------------------------------------------------------------------
(* Commits between two versions                                              *)

LEMMA TouchedFacts ==
    ASSUME StateFits, NEW a \in Nat, NEW b \in Nat
    PROVE  /\ Touched(a, b) \subseteq 1..b
           /\ Touched(a, b) \subseteq 1..latest
           /\ \A v \in Touched(a, b) : v \in Nat /\ a < v
           /\ \A m \in Nat : a <= m /\ m <= b =>
                 Touched(a, b) = Touched(a, m) \cup Touched(m, b)
           /\ b <= a => Touched(a, b) = {}
BY DEF StateFits, Versions, Touched

\* A new snapshot is a commit behind all others.
LEMMA SnapshotFacts ==
    ASSUME StateFits, NEW touches \in BOOLEAN, NewSnapshot(touches)
    PROVE  /\ latest' \in Versions /\ touching' \in SUBSET (1..latest')
           /\ latest \in Nat /\ latest' = latest + 1 /\ woken' = TRUE
           /\ \A a, b \in Nat : b <= latest => Touched(a, b)' = Touched(a, b)
           /\ \A a \in Nat : a <= latest =>
                 Touched(a, latest)' =
                     Touched(a, latest) \cup (IF touches THEN {latest + 1} ELSE {})
<1>1. /\ latest \in Nat /\ MaxVersion \in Nat /\ latest < MaxVersion
      /\ latest' = latest + 1 /\ touching \subseteq 1..latest /\ woken' = TRUE
      /\ touching' = IF touches THEN touching \cup {latest + 1} ELSE touching
  BY BoundsAssumption DEF StateFits, Versions, NewSnapshot
<1>2. latest' \in Versions
  BY <1>1 DEF Versions
<1>3. touching' \in SUBSET (1..latest')
  BY <1>1
<1>4. ASSUME NEW a \in Nat, NEW b \in Nat, b <= latest
      PROVE  Touched(a, b)' = Touched(a, b)
  BY <1>1, <1>4 DEF Touched
<1>5. ASSUME NEW a \in Nat, a <= latest
      PROVE  Touched(a, latest)' =
                 Touched(a, latest) \cup (IF touches THEN {latest + 1} ELSE {})
  BY <1>1, <1>5 DEF Touched
<1> QED
  BY <1>1, <1>2, <1>3, <1>4, <1>5

-----------------------------------------------------------------------------
(* The operations on the callbacks                                           *)

\* The callbacks of a notifier and the list itself.
LEMMA CallbacksFacts ==
    ASSUME NEW n \in NotifierRecord
    PROVE  /\ n.callbacks \in Seq(CallbackRecord)
           /\ Len(n.callbacks) \in Nat
           /\ DOMAIN n.callbacks = 1..Len(n.callbacks)
           /\ \A i \in DOMAIN n.callbacks : n.callbacks[i] \in CallbackRecord
           /\ n.callbacks = <<>> <=> Len(n.callbacks) = 0
<1>1. n.callbacks \in Seq(CallbackRecord)
  BY DEF NotifierRecord
<1> QED
  BY <1>1, RowsFacts

\* What changes the callbacks one by one changes nothing else.
Retold(n, m) ==
    /\ m \in NotifierRecord
    /\ DOMAIN m.callbacks = DOMAIN n.callbacks /\ Len(m.callbacks) = Len(n.callbacks)
OnlyRetold(n, m) == Retold(n, m) /\ m = [n EXCEPT !.callbacks = m.callbacks]

LEMMA EachFacts ==
    ASSUME NEW n \in NotifierRecord, NEW f, NEW m, m = [n EXCEPT !.callbacks = f],
           DOMAIN f = DOMAIN n.callbacks, f = [i \in DOMAIN f |-> f[i]],
           \A i \in DOMAIN n.callbacks : f[i] \in CallbackRecord
    PROVE  OnlyRetold(n, m) /\ m.callbacks = f
<1>1. n.callbacks \in Seq(CallbackRecord)
  BY DEF NotifierRecord
<1>2. f \in [DOMAIN n.callbacks -> CallbackRecord]
  OBVIOUS
<1>3. /\ f \in Seq(CallbackRecord)
      /\ DOMAIN f = DOMAIN n.callbacks /\ Len(f) = Len(n.callbacks)
  BY <1>1, <1>2, MappedFacts
<1>4. m.callbacks = f
  BY DEF NotifierRecord
<1>5. m \in NotifierRecord
  BY <1>3 DEF NotifierRecord
<1> QED
  BY <1>3, <1>4, <1>5 DEF Retold, OnlyRetold

LEMMA OwingFacts ==
    ASSUME NEW n \in NotifierRecord, NEW v \in Nat, NEW muted
    PROVE  LET m == Owing(n, v, muted) IN
           /\ OnlyRetold(n, m)
           /\ \A i \in DOMAIN n.callbacks :
                 m.callbacks[i] =
                     IF n.callbacks[i].token \in muted
                     THEN [n.callbacks[i] EXCEPT !.muted = @ \cup {v}]
                     ELSE IF n.callbacks[i].initial
                     THEN [n.callbacks[i] EXCEPT !.owed = @ \cup {v}]
                     ELSE n.callbacks[i]
<1> DEFINE m == Owing(n, v, muted)
<1>1. PICK f : f = [i \in DOMAIN n.callbacks |->
                       IF n.callbacks[i].token \in muted
                       THEN [n.callbacks[i] EXCEPT !.muted = @ \cup {v}]
                       ELSE IF n.callbacks[i].initial
                       THEN [n.callbacks[i] EXCEPT !.owed = @ \cup {v}]
                       ELSE n.callbacks[i]]
  OBVIOUS
<1>2. m = [n EXCEPT !.callbacks = f]
  BY <1>1 DEF Owing, Each
<1>3. ASSUME NEW i \in DOMAIN n.callbacks
      PROVE  f[i] \in CallbackRecord
  <2>1. PICK c \in CallbackRecord : c = n.callbacks[i]
    BY CallbacksFacts
  <2>2. [c EXCEPT !.muted = @ \cup {v}] \in CallbackRecord
    BY DEF CallbackRecord
  <2>3. [c EXCEPT !.owed = @ \cup {v}] \in CallbackRecord
    BY DEF CallbackRecord
  <2> QED
    BY <1>1, <2>1, <2>2, <2>3
<1>4. OnlyRetold(n, m) /\ m.callbacks = f
  <2> HIDE DEF m
  <2>1. DOMAIN f = DOMAIN n.callbacks /\ f = [i \in DOMAIN f |-> f[i]]
    BY <1>1
  <2> QED
    BY <1>2, <1>3, <2>1, EachFacts
<1> QED
  BY <1>1, <1>4

LEMMA SuppressFacts ==
    ASSUME NEW n \in NotifierRecord, NEW muted
    PROVE  LET m == suppress_next(n, muted) IN
           /\ OnlyRetold(n, m)
           /\ \A i \in DOMAIN n.callbacks :
                 m.callbacks[i] =
                     [n.callbacks[i] EXCEPT !.skip = @ \/ n.callbacks[i].token \in muted]
<1> DEFINE m == suppress_next(n, muted)
<1>1. PICK f : f = [i \in DOMAIN n.callbacks |->
                       [n.callbacks[i] EXCEPT !.skip = @ \/ n.callbacks[i].token \in muted]]
  OBVIOUS
<1>2. m = [n EXCEPT !.callbacks = f]
  BY <1>1 DEF suppress_next, Each
<1>3. ASSUME NEW i \in DOMAIN n.callbacks
      PROVE  f[i] \in CallbackRecord
  <2>1. PICK c \in CallbackRecord : c = n.callbacks[i]
    BY CallbacksFacts
  <2>2. [c EXCEPT !.skip = @ \/ c.token \in muted] \in CallbackRecord
    BY DEF CallbackRecord
  <2> QED
    BY <1>1, <2>1, <2>2
<1>4. OnlyRetold(n, m) /\ m.callbacks = f
  <2> HIDE DEF m
  <2>1. DOMAIN f = DOMAIN n.callbacks /\ f = [i \in DOMAIN f |-> f[i]]
    BY <1>1
  <2> QED
    BY <1>2, <1>3, <2>1, EachFacts
<1> QED
  BY <1>1, <1>4

LEMMA AddChangesFacts ==
    ASSUME NEW n \in NotifierRecord, NEW changes \in SUBSET Nat
    PROVE  LET m == add_changes(n, changes) IN
           /\ OnlyRetold(n, m)
           /\ \A i \in DOMAIN n.callbacks :
                 m.callbacks[i] =
                     [n.callbacks[i] EXCEPT !.skip = FALSE,
                         !.accumulated = IF n.callbacks[i].skip THEN @ ELSE @ \cup changes]
<1> DEFINE m == add_changes(n, changes)
<1>1. PICK f : f = [i \in DOMAIN n.callbacks |->
                       [n.callbacks[i] EXCEPT !.skip = FALSE,
                           !.accumulated = IF n.callbacks[i].skip THEN @ ELSE @ \cup changes]]
  OBVIOUS
<1>2. m = [n EXCEPT !.callbacks = f]
  BY <1>1 DEF add_changes, Each
<1>3. ASSUME NEW i \in DOMAIN n.callbacks
      PROVE  f[i] \in CallbackRecord
  <2>1. PICK c \in CallbackRecord : c = n.callbacks[i]
    BY CallbacksFacts
  <2>2. [c EXCEPT !.skip = FALSE,
            !.accumulated = IF c.skip THEN @ ELSE @ \cup changes] \in CallbackRecord
    BY DEF CallbackRecord
  <2> QED
    BY <1>1, <2>1, <2>2
<1>4. OnlyRetold(n, m) /\ m.callbacks = f
  <2> HIDE DEF m
  <2>1. DOMAIN f = DOMAIN n.callbacks /\ f = [i \in DOMAIN f |-> f[i]]
    BY <1>1
  <2> QED
    BY <1>2, <1>3, <2>1, EachFacts
<1> QED
  BY <1>1, <1>4

LEMMA WithoutLateFacts ==
    ASSUME NEW n \in NotifierRecord
    PROVE  LET m == WithoutLate(n) IN
           /\ OnlyRetold(n, m)
           /\ \A i \in DOMAIN n.callbacks :
                 m.callbacks[i] =
                     [n.callbacks[i] EXCEPT !.excused = @ \/ i > n.index + 1]
<1> DEFINE m == WithoutLate(n)
<1>1. PICK f : f = [i \in DOMAIN n.callbacks |->
                       [n.callbacks[i] EXCEPT !.excused = @ \/ i > n.index + 1]]
  OBVIOUS
<1>2. m = [n EXCEPT !.callbacks = f]
  BY <1>1 DEF WithoutLate
<1>3. ASSUME NEW i \in DOMAIN n.callbacks
      PROVE  f[i] \in CallbackRecord
  <2>1. PICK c \in CallbackRecord : c = n.callbacks[i]
    BY CallbacksFacts
  <2>2. [c EXCEPT !.excused = @ \/ i > n.index + 1] \in CallbackRecord
    BY DEF CallbackRecord
  <2> QED
    BY <1>1, <2>1, <2>2
<1>4. OnlyRetold(n, m) /\ m.callbacks = f
  <2> HIDE DEF m
  <2>1. DOMAIN f = DOMAIN n.callbacks /\ f = [i \in DOMAIN f |-> f[i]]
    BY <1>1
  <2> QED
    BY <1>2, <1>3, <2>1, EachFacts
<1> QED
  BY <1>1, <1>4

\* What a package takes from the callbacks.
Repackaged(n, m) ==
    Retold(n, m) /\ m = [n EXCEPT !.callbacks = m.callbacks, !.count = Len(n.callbacks),
                                  !.view = FALSE]

LEMMA PackageFacts ==
    ASSUME NEW n \in NotifierRecord
    PROVE  LET m == package_for_delivery(n) IN
           /\ Repackaged(n, m)
           /\ \A i \in DOMAIN n.callbacks :
                 m.callbacks[i] =
                     [n.callbacks[i] EXCEPT !.deliver = n.callbacks[i].accumulated,
                                            !.accumulated = {}, !.late = FALSE]
<1> DEFINE m == package_for_delivery(n)
<1>1. PICK f : f = [i \in DOMAIN n.callbacks |->
                       [n.callbacks[i] EXCEPT !.deliver = n.callbacks[i].accumulated,
                                              !.accumulated = {}, !.late = FALSE]]
  OBVIOUS
<1>2. PICK p : p = [n EXCEPT !.callbacks = f]
  OBVIOUS
<1>3. m = [p EXCEPT !.count = Len(n.callbacks), !.view = FALSE]
  BY <1>1, <1>2 DEF package_for_delivery, Each
<1>4. ASSUME NEW i \in DOMAIN n.callbacks
      PROVE  f[i] \in CallbackRecord
  <2>1. PICK c \in CallbackRecord : c = n.callbacks[i]
    BY CallbacksFacts
  <2>2. [c EXCEPT !.deliver = c.accumulated, !.accumulated = {}, !.late = FALSE]
            \in CallbackRecord
    BY DEF CallbackRecord
  <2> QED
    BY <1>1, <2>1, <2>2
<1>5. OnlyRetold(n, p) /\ p.callbacks = f
  <2>1. DOMAIN f = DOMAIN n.callbacks /\ f = [i \in DOMAIN f |-> f[i]]
    BY <1>1
  <2> QED
    BY <1>2, <1>4, <2>1, EachFacts
<1> HIDE DEF m
<1>6. m.callbacks = f /\ Repackaged(n, m)
  <2>1. Len(n.callbacks) \in Int
    BY CallbacksFacts
  <2>2. p \in NotifierRecord
    BY <1>5 DEF OnlyRetold, Retold
  <2>3. m \in NotifierRecord /\ m.callbacks = f
    BY <1>3, <1>5, <2>1, <2>2 DEF NotifierRecord
  <2>4. m = [n EXCEPT !.callbacks = m.callbacks, !.count = Len(n.callbacks), !.view = FALSE]
    BY <1>2, <1>3, <2>3 DEF NotifierRecord
  <2> QED
    BY <1>5, <2>3, <2>4 DEF OnlyRetold, Retold, Repackaged
<1> QED
  BY <1>1, <1>6 DEF m

LEMMA PackagedFacts ==
    ASSUME StateFits, NEW n \in NotifierRecord
    PROVE  LET m == Packaged(n) IN
           /\ Repackaged(n, m)
           /\ \A i \in DOMAIN n.callbacks :
                 m.callbacks[i] =
                     [n.callbacks[i] EXCEPT
                         !.deliver = n.callbacks[i].accumulated,
                         !.accumulated = {}, !.late = FALSE,
                         !.excused = @ \/ (~n.callbacks[i].initial /\ (worker.gap \/ n.seen < n.version))]
<1> DEFINE m == Packaged(n)
<1>1. PICK p : p = package_for_delivery(n)
  OBVIOUS
<1>2. /\ Repackaged(n, p)
      /\ \A i \in DOMAIN n.callbacks :
            p.callbacks[i] =
                [n.callbacks[i] EXCEPT !.deliver = n.callbacks[i].accumulated,
                                       !.accumulated = {}, !.late = FALSE]
  BY <1>1, PackageFacts
<1>3. PICK f : f = [i \in DOMAIN n.callbacks |->
                       [n.callbacks[i] EXCEPT
                           !.deliver = n.callbacks[i].accumulated,
                           !.accumulated = {}, !.late = FALSE,
                           !.excused = @ \/ (~n.callbacks[i].initial /\ (worker.gap \/ n.seen < n.version))]]
  OBVIOUS
<1>4. ASSUME NEW i \in DOMAIN n.callbacks
      PROVE  /\ f[i] \in CallbackRecord
             /\ f[i] = [p.callbacks[i] EXCEPT !.excused = @ \/ (~p.callbacks[i].initial /\ (worker.gap \/ n.seen < n.version))]
  <2>1. PICK c \in CallbackRecord : c = n.callbacks[i]
    BY CallbacksFacts
  <2>2. worker.gap \in BOOLEAN
    BY DEF StateFits, Round
  <2>3. [c EXCEPT !.deliver = c.accumulated, !.accumulated = {}, !.late = FALSE,
                  !.excused = @ \/ (~c.initial /\ (worker.gap \/ n.seen < n.version))]
            \in CallbackRecord
    BY <2>2 DEF CallbackRecord
  <2>4. PICK d : d = [c EXCEPT !.deliver = c.accumulated, !.accumulated = {}, !.late = FALSE]
    OBVIOUS
  <2>5. [c EXCEPT !.deliver = c.accumulated, !.accumulated = {}, !.late = FALSE,
                  !.excused = @ \/ (~c.initial /\ (worker.gap \/ n.seen < n.version))]
          = [d EXCEPT !.excused = @ \/ (~d.initial /\ (worker.gap \/ n.seen < n.version))]
    BY <2>4 DEF CallbackRecord
  <2> QED
    BY <1>2, <1>3, <2>1, <2>3, <2>4, <2>5
<1>5. m = [p EXCEPT !.callbacks = f]
  <2>1. DOMAIN p.callbacks = DOMAIN n.callbacks
    BY <1>2 DEF Repackaged, Retold
  <2>2. f = [i \in DOMAIN p.callbacks |->
               [p.callbacks[i] EXCEPT !.excused = @ \/ (~p.callbacks[i].initial /\ (worker.gap \/ n.seen < n.version))]]
    BY <1>3, <1>4, <2>1
  <2> QED
    BY <1>1, <2>2 DEF Packaged, Each
<1> HIDE DEF m
<1>6. p \in NotifierRecord /\ DOMAIN p.callbacks = DOMAIN n.callbacks
  BY <1>2 DEF Repackaged, Retold
<1>7. OnlyRetold(p, m) /\ m.callbacks = f
  <2>1. DOMAIN f = DOMAIN p.callbacks /\ f = [i \in DOMAIN f |-> f[i]]
    BY <1>3, <1>6
  <2> QED
    BY <1>4, <1>5, <1>6, <2>1, EachFacts
<1>8. Repackaged(n, m)
  BY <1>2, <1>7 DEF Repackaged, OnlyRetold, Retold, NotifierRecord
<1> QED
  BY <1>3, <1>7, <1>8 DEF m

LEMMA DiscardedFacts ==
    ASSUME StateFits, NEW n \in NotifierRecord
    PROVE  LET m == Discarded(n) IN
           /\ Repackaged(n, m)
           /\ \A i \in DOMAIN n.callbacks :
                 m.callbacks[i] =
                     [n.callbacks[i] EXCEPT
                         !.deliver = n.callbacks[i].accumulated,
                         !.accumulated = {}, !.late = FALSE,
                         !.excused = @ \/ (n.callbacks[i].accumulated # {} /\ n.version < realm)]
<1> DEFINE m == Discarded(n)
<1>1. PICK p : p = package_for_delivery(n)
  OBVIOUS
<1>2. /\ Repackaged(n, p)
      /\ \A i \in DOMAIN n.callbacks :
            p.callbacks[i] =
                [n.callbacks[i] EXCEPT !.deliver = n.callbacks[i].accumulated,
                                       !.accumulated = {}, !.late = FALSE]
  BY <1>1, PackageFacts
<1>3. PICK f : f = [i \in DOMAIN n.callbacks |->
                       [n.callbacks[i] EXCEPT
                           !.deliver = n.callbacks[i].accumulated,
                           !.accumulated = {}, !.late = FALSE,
                           !.excused = @ \/ (n.callbacks[i].accumulated # {} /\ n.version < realm)]]
  OBVIOUS
<1>4. ASSUME NEW i \in DOMAIN n.callbacks
      PROVE  /\ f[i] \in CallbackRecord
             /\ f[i] = [p.callbacks[i] EXCEPT !.excused = @ \/ (p.callbacks[i].deliver # {} /\ n.version < realm)]
  <2>1. PICK c \in CallbackRecord : c = n.callbacks[i]
    BY CallbacksFacts
  <2>2. worker.gap \in BOOLEAN
    BY DEF StateFits, Round
  <2>3. [c EXCEPT !.deliver = c.accumulated, !.accumulated = {}, !.late = FALSE,
                  !.excused = @ \/ (c.accumulated # {} /\ n.version < realm)]
            \in CallbackRecord
    BY <2>2 DEF CallbackRecord
  <2>4. PICK d : d = [c EXCEPT !.deliver = c.accumulated, !.accumulated = {}, !.late = FALSE]
    OBVIOUS
  <2>5. [c EXCEPT !.deliver = c.accumulated, !.accumulated = {}, !.late = FALSE,
                  !.excused = @ \/ (c.accumulated # {} /\ n.version < realm)]
          = [d EXCEPT !.excused = @ \/ (d.deliver # {} /\ n.version < realm)]
    BY <2>4 DEF CallbackRecord
  <2> QED
    BY <1>2, <1>3, <2>1, <2>3, <2>4, <2>5
<1>5. m = [p EXCEPT !.callbacks = f]
  <2>1. DOMAIN p.callbacks = DOMAIN n.callbacks
    BY <1>2 DEF Repackaged, Retold
  <2>2. f = [i \in DOMAIN p.callbacks |->
               [p.callbacks[i] EXCEPT !.excused = @ \/ (p.callbacks[i].deliver # {} /\ n.version < realm)]]
    BY <1>3, <1>4, <2>1
  <2> QED
    BY <1>1, <2>2 DEF Discarded, Each
<1> HIDE DEF m
<1>6. p \in NotifierRecord /\ DOMAIN p.callbacks = DOMAIN n.callbacks
  BY <1>2 DEF Repackaged, Retold
<1>7. OnlyRetold(p, m) /\ m.callbacks = f
  <2>1. DOMAIN f = DOMAIN p.callbacks /\ f = [i \in DOMAIN f |-> f[i]]
    BY <1>3, <1>6
  <2> QED
    BY <1>4, <1>5, <1>6, <2>1, EachFacts
<1>8. Repackaged(n, m)
  BY <1>2, <1>7 DEF Repackaged, OnlyRetold, Retold, NotifierRecord
<1> QED
  BY <1>3, <1>7, <1>8 DEF m

LEMMA DeliverErrorFacts ==
    ASSUME NEW n \in NotifierRecord
    PROVE  LET m == deliver_error(n) IN
           /\ Retold(n, m)
           /\ m = [n EXCEPT !.callbacks = m.callbacks, !.count = Len(n.callbacks)]
           /\ \A i \in DOMAIN n.callbacks :
                 m.callbacks[i] = [n.callbacks[i] EXCEPT !.late = FALSE]
<1> DEFINE m == deliver_error(n)
<1>1. PICK f : f = [i \in DOMAIN n.callbacks |-> [n.callbacks[i] EXCEPT !.late = FALSE]]
  OBVIOUS
<1>2. PICK p : p = [n EXCEPT !.callbacks = f]
  OBVIOUS
<1>3. m = [p EXCEPT !.count = Len(n.callbacks)]
  BY <1>1, <1>2 DEF deliver_error, Each
<1>4. ASSUME NEW i \in DOMAIN n.callbacks
      PROVE  f[i] \in CallbackRecord
  <2>1. PICK c \in CallbackRecord : c = n.callbacks[i]
    BY CallbacksFacts
  <2>2. [c EXCEPT !.late = FALSE] \in CallbackRecord
    BY DEF CallbackRecord
  <2> QED
    BY <1>1, <2>1, <2>2
<1>5. OnlyRetold(n, p) /\ p.callbacks = f
  <2>1. DOMAIN f = DOMAIN n.callbacks /\ f = [i \in DOMAIN f |-> f[i]]
    BY <1>1
  <2> QED
    BY <1>2, <1>4, <2>1, EachFacts
<1> HIDE DEF m
<1>6. Len(n.callbacks) \in Int
  BY CallbacksFacts
<1>7. m \in NotifierRecord /\ m.callbacks = f
  BY <1>3, <1>5, <1>6 DEF OnlyRetold, Retold, NotifierRecord
<1>8. m = [n EXCEPT !.callbacks = m.callbacks, !.count = Len(n.callbacks)]
  BY <1>2, <1>3, <1>7 DEF NotifierRecord
<1> QED
  BY <1>1, <1>5, <1>7, <1>8 DEF OnlyRetold, Retold, m

HandedOver(n, m, version, changes) ==
    /\ Retold(n, m)
    /\ m = [n EXCEPT !.callbacks = m.callbacks, !.version = version,
                     !.has_run = TRUE, !.view = m.view]
    /\ \A i \in DOMAIN n.callbacks :
          m.callbacks[i] =
              [n.callbacks[i] EXCEPT !.skip = FALSE,
                  !.accumulated = IF n.callbacks[i].skip THEN @ ELSE @ \cup changes]

LEMMA HandoverFacts ==
    ASSUME NEW n \in NotifierRecord, NEW version \in Nat, NEW changes \in SUBSET Nat,
           NEW view, view \in BOOLEAN,
           NEW m, m = prepare_handover(n, version, changes, view)
    PROVE  HandedOver(n, m, version, changes)
<1>1. PICK p : p = add_changes(n, changes)
  OBVIOUS
<1>2. /\ OnlyRetold(n, p)
      /\ \A i \in DOMAIN n.callbacks :
            p.callbacks[i] =
                [n.callbacks[i] EXCEPT !.skip = FALSE,
                    !.accumulated = IF n.callbacks[i].skip THEN @ ELSE @ \cup changes]
  BY <1>1, AddChangesFacts
<1>3. m = [p EXCEPT !.version = version, !.has_run = TRUE, !.view = @ \/ view]
  BY <1>1 DEF prepare_handover
<1>4. p \in NotifierRecord /\ p = [n EXCEPT !.callbacks = p.callbacks]
  BY <1>2 DEF OnlyRetold, Retold
<1>5. m \in NotifierRecord /\ m.callbacks = p.callbacks
  BY <1>3, <1>4 DEF NotifierRecord
<1>6. m = [n EXCEPT !.callbacks = m.callbacks, !.version = version,
                    !.has_run = TRUE, !.view = m.view]
  BY <1>3, <1>4, <1>5 DEF NotifierRecord
<1> QED
  BY <1>2, <1>5, <1>6 DEF OnlyRetold, Retold, HandedOver

\* What a callback is once it is to be left out of the next commit, and what it is
\* once that is made.
SuppressedAs(c, d, token) ==
    d = [c EXCEPT !.skip = @ \/ c.token = token,
                  !.excused = @ \/ (c.token = token /\ target.calling # NoToken)]
CommittedAs(c, d, touches) ==
    LET left == c.token \in suppressed IN
    /\ d.token = c.token /\ d.accumulated = c.accumulated
    /\ d.deliver = c.deliver /\ d.initial = c.initial /\ d.late = c.late
    /\ d.skip = c.skip
    /\ d.muted = IF touches /\ left THEN c.muted \cup {latest + 1} ELSE c.muted
    /\ d.owed = IF touches /\ ~left /\ c.initial THEN c.owed \cup {latest + 1} ELSE c.owed
    /\ d.excused <=> c.excused \/ MissesCommit(c)

\* One callback is to be left out of the next commit.
LEMMA SuppressedFacts ==
    ASSUME NEW n \in NotifierRecord, NEW token
    PROVE  LET m == Suppressed(n, token) IN
           /\ OnlyRetold(n, m)
           /\ \A i \in DOMAIN n.callbacks :
                 SuppressedAs(n.callbacks[i], m.callbacks[i], token)
<1> DEFINE m == Suppressed(n, token)
<1>1. PICK one : one = {token}
  OBVIOUS
<1>2. PICK quiet : quiet = suppress_next(n, one)
  OBVIOUS
<1>3. /\ OnlyRetold(n, quiet)
      /\ \A i \in DOMAIN n.callbacks :
            quiet.callbacks[i] = [n.callbacks[i] EXCEPT !.skip = @ \/ n.callbacks[i].token \in one]
  BY <1>2, SuppressFacts
<1>4. quiet \in NotifierRecord /\ DOMAIN quiet.callbacks = DOMAIN n.callbacks
  BY <1>3 DEF OnlyRetold, Retold
<1>5. PICK f : f = [i \in DOMAIN quiet.callbacks |->
                       [quiet.callbacks[i] EXCEPT
                           !.excused = @ \/ (quiet.callbacks[i].token = token /\ target.calling # NoToken)]]
  OBVIOUS
<1>6. m = [quiet EXCEPT !.callbacks = f]
  BY <1>1, <1>2, <1>5 DEF Suppressed, Each
<1>7. ASSUME NEW i \in DOMAIN quiet.callbacks
      PROVE  f[i] \in CallbackRecord
  <2>1. PICK c \in CallbackRecord : c = quiet.callbacks[i]
    BY <1>4, CallbacksFacts
  <2>2. [c EXCEPT !.excused = @ \/ (c.token = token /\ target.calling # NoToken)] \in CallbackRecord
    BY DEF CallbackRecord
  <2> QED
    BY <1>5, <2>1, <2>2
<1> HIDE DEF m
<1>8. OnlyRetold(quiet, m) /\ m.callbacks = f
  <2>1. DOMAIN f = DOMAIN quiet.callbacks /\ f = [i \in DOMAIN f |-> f[i]]
    BY <1>5
  <2> QED
    BY <1>4, <1>6, <1>7, <2>1, EachFacts
<1>9. OnlyRetold(n, m)
  BY <1>3, <1>8 DEF OnlyRetold, Retold, NotifierRecord
<1>10. ASSUME NEW i \in DOMAIN n.callbacks
       PROVE  SuppressedAs(n.callbacks[i], m.callbacks[i], token)
  <2>1. PICK c \in CallbackRecord : c = n.callbacks[i]
    BY CallbacksFacts
  <2>2. PICK q \in CallbackRecord : q = quiet.callbacks[i]
    BY <1>4, CallbacksFacts
  <2>3. q = [c EXCEPT !.skip = @ \/ c.token = token]
    BY <1>1, <1>3, <2>1, <2>2
  <2>4. m.callbacks[i] = [q EXCEPT !.excused = @ \/ (q.token = token /\ target.calling # NoToken)]
    BY <1>4, <1>5, <1>8, <2>2
  <2>5. m.callbacks[i] =
            [c EXCEPT !.skip = @ \/ c.token = token,
                      !.excused = @ \/ (c.token = token /\ target.calling # NoToken)]
    BY <2>3, <2>4 DEF CallbackRecord
  <2> QED
    BY <2>1, <2>5 DEF SuppressedAs
<1> QED
  BY <1>9, <1>10 DEF m

\* A commit: who is not to be told, and whose flag does not cover it.
LEMMA CommittedFacts ==
    ASSUME StateFits, NEW n \in NotifierRecord, NEW touches \in BOOLEAN
    PROVE  LET m == Committed(n, touches) IN
           /\ OnlyRetold(n, m)
           /\ \A i \in DOMAIN n.callbacks :
                 CommittedAs(n.callbacks[i], m.callbacks[i], touches)
<1> DEFINE m == Committed(n, touches)
<1>1. PICK marked : marked = IF touches THEN Owing(n, latest + 1, suppressed) ELSE n
  OBVIOUS
<1>2. /\ OnlyRetold(n, marked)
      /\ touches => \A i \in DOMAIN n.callbacks :
            marked.callbacks[i] =
                IF n.callbacks[i].token \in suppressed
                THEN [n.callbacks[i] EXCEPT !.muted = @ \cup {latest + 1}]
                ELSE IF n.callbacks[i].initial
                THEN [n.callbacks[i] EXCEPT !.owed = @ \cup {latest + 1}]
                ELSE n.callbacks[i]
  <2>1. CASE touches
    <3>1. latest + 1 \in Nat
      BY BoundsAssumption DEF StateFits, Versions
    <3> QED
      BY <1>1, <2>1, <3>1, OwingFacts
  <2>2. CASE ~touches
    <3>1. n = [n EXCEPT !.callbacks = n.callbacks]
      BY DEF NotifierRecord
    <3> QED
      BY <1>1, <2>2, <3>1 DEF OnlyRetold, Retold
  <2> QED
    BY <2>1, <2>2
<1>3. marked \in NotifierRecord /\ DOMAIN marked.callbacks = DOMAIN n.callbacks
  BY <1>2 DEF OnlyRetold, Retold
<1>4. PICK f : f = [i \in DOMAIN marked.callbacks |->
                       [marked.callbacks[i] EXCEPT
                           !.excused = @ \/ MissesCommit(marked.callbacks[i])]]
  OBVIOUS
<1>5. m = [marked EXCEPT !.callbacks = f]
  BY <1>1, <1>4 DEF Committed, Each
<1>6. ASSUME NEW i \in DOMAIN marked.callbacks
      PROVE  f[i] \in CallbackRecord
  <2>1. PICK c \in CallbackRecord : c = marked.callbacks[i]
    BY <1>3, CallbacksFacts
  <2>2. [c EXCEPT !.excused = @ \/ MissesCommit(c)] \in CallbackRecord
    BY DEF CallbackRecord, MissesCommit
  <2> QED
    BY <1>4, <2>1, <2>2
<1> HIDE DEF m
<1>7. OnlyRetold(marked, m) /\ m.callbacks = f
  <2>1. DOMAIN f = DOMAIN marked.callbacks /\ f = [i \in DOMAIN f |-> f[i]]
    BY <1>4
  <2> QED
    BY <1>3, <1>5, <1>6, <2>1, EachFacts
<1>8. OnlyRetold(n, m)
  BY <1>2, <1>7 DEF OnlyRetold, Retold, NotifierRecord
<1>9. ASSUME NEW i \in DOMAIN n.callbacks
      PROVE  CommittedAs(n.callbacks[i], m.callbacks[i], touches)
  <2>1. PICK c \in CallbackRecord : c = n.callbacks[i]
    BY CallbacksFacts
  <2>2. PICK k \in CallbackRecord :
          /\ k = marked.callbacks[i]
          /\ k.token = c.token /\ k.accumulated = c.accumulated /\ k.deliver = c.deliver
          /\ k.initial = c.initial /\ k.late = c.late /\ k.skip = c.skip /\ k.excused = c.excused
          /\ k.muted = IF touches /\ c.token \in suppressed
                       THEN c.muted \cup {latest + 1} ELSE c.muted
          /\ k.owed = IF touches /\ ~(c.token \in suppressed) /\ c.initial
                      THEN c.owed \cup {latest + 1} ELSE c.owed
    <3>1. marked.callbacks[i] \in CallbackRecord
      BY <1>3, CallbacksFacts
    <3>2. CASE touches
      BY <1>2, <2>1, <3>1, <3>2 DEF CallbackRecord
    <3>3. CASE ~touches
      BY <1>1, <2>1, <3>1, <3>3
    <3> QED
      BY <3>2, <3>3
  <2>3. MissesCommit(k) = MissesCommit(c)
    BY <2>2 DEF MissesCommit
  <2>4. PICK d : d = m.callbacks[i]
    OBVIOUS
  <2>5. d = [k EXCEPT !.excused = @ \/ MissesCommit(k)]
    BY <1>3, <1>4, <1>7, <2>2, <2>4
  <2>6. /\ d.token = k.token /\ d.accumulated = k.accumulated /\ d.deliver = k.deliver
        /\ d.initial = k.initial /\ d.late = k.late /\ d.muted = k.muted /\ d.owed = k.owed
        /\ d.skip = k.skip /\ d.excused = (k.excused \/ MissesCommit(k))
    BY <2>5 DEF CallbackRecord
  <2> QED
    BY <2>1, <2>2, <2>3, <2>4, <2>6 DEF CommittedAs
<1> QED
  BY <1>8, <1>9 DEF m

\* Taking a callback out moves those behind it up, and the loop's index with them.
TakenOut(n, m, p) ==
    /\ m \in NotifierRecord
    /\ Len(m.callbacks) = Len(n.callbacks) - 1
    /\ \A j \in 1..(Len(n.callbacks) - 1) :
          m.callbacks[j] = IF j < p THEN n.callbacks[j] ELSE n.callbacks[j + 1]
    /\ m = [n EXCEPT !.callbacks = m.callbacks, !.count = n.count - 1,
                     !.index = IF n.index # NoCallback /\ n.index >= p - 1
                               THEN n.index - 1 ELSE n.index,
                     !.have = Len(n.callbacks) > 1]

LEMMA RemoveFacts ==
    ASSUME NEW n \in NotifierRecord, NEW token \in Tokens(n)
    PROVE  /\ Place(n, token) \in DOMAIN n.callbacks
           /\ n.callbacks[Place(n, token)].token = token
           /\ TakenOut(n, remove_callback(n, token), Place(n, token))
<1>1. PICK p : p = Place(n, token)
  OBVIOUS
<1>2. p \in DOMAIN n.callbacks /\ n.callbacks[p].token = token
  BY <1>1 DEF Place, Tokens
<1>3. PICK rows : rows = RemoveAt(n.callbacks, p)
  OBVIOUS
<1>4. n.callbacks \in Seq(CallbackRecord) /\ Len(n.callbacks) \in Nat
      /\ DOMAIN n.callbacks = 1..Len(n.callbacks)
  BY CallbacksFacts
<1>5. /\ rows \in Seq(CallbackRecord)
      /\ Len(rows) = Len(n.callbacks) - 1
      /\ \A j \in 1..(Len(n.callbacks) - 1) :
            rows[j] = IF j < p THEN n.callbacks[j] ELSE n.callbacks[j + 1]
  BY <1>2, <1>3, <1>4, RemoveAtRows
<1>6. PICK m : m = remove_callback(n, token)
  OBVIOUS
<1>7. m = [n EXCEPT !.callbacks = rows, !.count = n.count - 1,
                    !.index = IF n.index # NoCallback /\ n.index >= p - 1
                              THEN n.index - 1 ELSE n.index,
                    !.have = Len(n.callbacks) > 1]
  BY <1>1, <1>3, <1>6 DEF remove_callback, NotifierRecord
<1>8. m \in NotifierRecord /\ m.callbacks = rows
  <2>1. /\ n.count - 1 \in Int /\ (Len(n.callbacks) > 1) \in BOOLEAN
        /\ (IF n.index # NoCallback /\ n.index >= p - 1 THEN n.index - 1 ELSE n.index) \in Int
    BY DEF NotifierRecord
  <2> QED
    BY <1>5, <1>7, <2>1 DEF NotifierRecord
<1> QED
  BY <1>1, <1>2, <1>5, <1>6, <1>7, <1>8 DEF TakenOut

LEMMA AddFacts ==
    ASSUME NEW n \in NotifierRecord, NEW token \in Nat
    PROVE  LET m == add_callback(n, token) IN
           /\ m \in NotifierRecord
           /\ Len(m.callbacks) = Len(n.callbacks) + 1
           /\ \A j \in DOMAIN n.callbacks : m.callbacks[j] = n.callbacks[j]
           /\ m.callbacks[Len(n.callbacks) + 1] = Callback(token)
           /\ m = [n EXCEPT !.callbacks = m.callbacks, !.have = n.have \/ n.index = NoCallback]
<1>1. PICK c : c = Callback(token)
  OBVIOUS
<1>2. c \in CallbackRecord
  BY <1>1 DEF Callback, CallbackRecord
<1>3. PICK rows : rows = Append(n.callbacks, c)
  OBVIOUS
<1>4. n.callbacks \in Seq(CallbackRecord) /\ Len(n.callbacks) \in Nat
      /\ DOMAIN n.callbacks = 1..Len(n.callbacks)
  BY CallbacksFacts
<1>5. /\ rows \in Seq(CallbackRecord)
      /\ Len(rows) = Len(n.callbacks) + 1
      /\ \A j \in DOMAIN n.callbacks : rows[j] = n.callbacks[j]
      /\ rows[Len(n.callbacks) + 1] = c
  BY <1>2, <1>3, <1>4
<1>6. PICK m : m = add_callback(n, token)
  OBVIOUS
<1>7. m = [n EXCEPT !.callbacks = rows, !.have = n.have \/ n.index = NoCallback]
  BY <1>1, <1>3, <1>6 DEF add_callback, NotifierRecord
<1>8. m \in NotifierRecord /\ m.callbacks = rows
  BY <1>5, <1>7 DEF NotifierRecord
<1> QED
  BY <1>1, <1>5, <1>6, <1>7, <1>8

-----------------------------------------------------------------------------
(* What every step has in common                                             *)

LEMMA RetoldFields ==
    ASSUME NEW n \in NotifierRecord, NEW m, OnlyRetold(n, m)
    PROVE  /\ m.index = n.index /\ m.count = n.count /\ m.have = n.have
           /\ m.version = n.version /\ m.has_run = n.has_run /\ m.seen = n.seen
           /\ m.wants = n.wants /\ m.view = n.view /\ m.new = n.new
BY DEF OnlyRetold, Retold, NotifierRecord

LEMMA NumberFacts ==
    ASSUME StateFits, RoundFits
    PROVE  /\ latest \in Nat /\ realm \in Nat /\ skip \in Nat /\ tokens \in Nat
           /\ realm <= latest /\ skip <= latest
           /\ notifier \in NotifierRecord
           /\ notifier.version \in Nat /\ notifier.seen \in Nat
           /\ notifier.version <= latest
           /\ notifier.index \in Int /\ notifier.count \in Int
           /\ worker.to \in Nat /\ worker.skip \in Nat
           /\ worker.to <= latest /\ worker.skip <= latest
           /\ RoundEnd \in Nat /\ RoundEnd <= latest
           /\ SkipEnd \in Nat /\ SkipEnd <= latest
           /\ target.at \in Nat /\ target.at <= latest
           /\ target.want \in Nat /\ target.calling \in Nat /\ target.calling <= tokens
<1>1. /\ latest \in Nat /\ realm \in Nat /\ tokens \in Nat /\ realm <= latest
      /\ notifier \in NotifierRecord /\ worker \in Round /\ target \in Standing
      /\ target.at <= latest /\ target.calling <= tokens
  BY BoundsAssumption DEF StateFits, Versions
<1>2. skip \in Nat /\ skip <= latest /\ notifier.version <= latest
  BY <1>1 DEF RoundFits
<1>3. /\ notifier.version \in Nat /\ notifier.seen \in Nat
      /\ notifier.index \in Int /\ notifier.count \in Int
  BY <1>1 DEF NotifierRecord
<1>4. worker.to \in Nat /\ worker.skip \in Nat
  BY <1>1 DEF Round
<1>5. worker.to <= latest /\ worker.skip <= worker.to
  BY <1>1, <1>4 DEF RoundFits, NoRound
<1>6. target.at \in Nat /\ target.want \in Nat /\ target.calling \in Nat
  BY <1>1 DEF Standing
<1> QED
  BY <1>1, <1>2, <1>3, <1>4, <1>5, <1>6 DEF RoundEnd, SkipEnd

\* One callback of the list.
LEMMA CallbackFacts ==
    ASSUME IInv, NEW i \in DOMAIN notifier.callbacks, NEW c, c = notifier.callbacks[i]
    PROVE  /\ c \in CallbackRecord
           /\ CallbackFits(c) /\ FlagFits(c) /\ NewsFits(c)
<1>1. notifier \in NotifierRecord
  BY DEF IInv, StateFits
<1> QED
  BY <1>1, CallbacksFacts DEF IInv, CallbackInv

\* The loops go on as before when only the news of callbacks change.
LEMMA LoopStays ==
    ASSUME StateFits, LoopFits, TokensDiffer, ErrorLoopFits, Retold(notifier, notifier'),
           notifier'.index = notifier.index, notifier'.count = notifier.count,
           notifier'.have = notifier.have, notifier.has_run => notifier'.has_run,
           async_error => async_error', UNCHANGED target,
           \A i \in DOMAIN notifier.callbacks :
               /\ notifier'.callbacks[i].token = notifier.callbacks[i].token
               /\ notifier'.callbacks[i].late = notifier.callbacks[i].late
    PROVE  LoopFits' /\ TokensDiffer' /\ ErrorLoopFits'
<1>1. /\ notifier \in NotifierRecord /\ notifier' \in NotifierRecord
      /\ DOMAIN notifier'.callbacks = DOMAIN notifier.callbacks
      /\ Len(notifier'.callbacks) = Len(notifier.callbacks)
  BY DEF StateFits, Retold
<1>2. /\ Len(notifier.callbacks) \in Nat
      /\ DOMAIN notifier.callbacks = 1..Len(notifier.callbacks)
      /\ notifier.callbacks = <<>> <=> Len(notifier.callbacks) = 0
      /\ notifier'.callbacks = <<>> <=> Len(notifier'.callbacks) = 0
  BY <1>1, CallbacksFacts
<1>3. LoopFits'
  BY <1>1, <1>2 DEF LoopFits, Telling
<1>4. TokensDiffer'
  BY <1>1 DEF TokensDiffer
<1>5. ErrorLoopFits'
  <2>1. Tokens(notifier') = Tokens(notifier)
    BY <1>1 DEF Tokens
  <2>2. notifier.index = 0 => 1 \in DOMAIN notifier.callbacks
    BY <1>2 DEF LoopFits
  <2> QED
    BY <2>1, <2>2 DEF ErrorLoopFits
<1> QED
  BY <1>3, <1>4, <1>5

\* What was told stays told.
LEMMA PassedStays ==
    ASSUME PassedAreTold, DOMAIN notifier'.callbacks = DOMAIN notifier.callbacks,
           notifier'.index = notifier.index, UNCHANGED target,
           \A i \in DOMAIN notifier.callbacks :
               /\ notifier'.callbacks[i].deliver = notifier.callbacks[i].deliver
               /\ notifier.callbacks[i].excused => notifier'.callbacks[i].excused
    PROVE  PassedAreTold'
BY DEF PassedAreTold

\* A callback that is excused needs to fit only in its shape.
LEMMA ExcusedFits ==
    ASSUME NEW d, d.excused, CallbackFits(d)
    PROVE  CallbackInv(d)
BY DEF CallbackInv, FlagFits, NewsFits, Live

-----------------------------------------------------------------------------
(* Commits                                                                   *)

LEMMA OtherCommitKeeps ==
    ASSUME IInv, NEW touches \in BOOLEAN, OtherCommit(touches)
    PROVE  IInv'
<1>0. NewSnapshot(touches) /\ UNCHANGED <<realm, writing, suppressed, tokens, worker, skip, async_error, signalled, target>>
  BY DEF OtherCommit, workerVars
<1>n. suppressed = {} /\ suppressed' = {}
  BY <1>0 DEF OtherCommit, Locked, IInv, StateFits
<1>1. /\ latest \in Nat /\ latest' = latest + 1 /\ woken' = TRUE
      /\ latest' \in Versions /\ touching' \in SUBSET (1..latest')
      /\ \A a, b \in Nat : b <= latest => Touched(a, b)' = Touched(a, b)
      /\ \A a \in Nat : a <= latest =>
            Touched(a, latest)' = Touched(a, latest) \cup (IF touches THEN {latest + 1} ELSE {})
  BY <1>0, SnapshotFacts DEF IInv
<1>v. PICK v \in Nat : v = latest + 1
  BY <1>1
<1>2. /\ OnlyRetold(notifier, notifier')
      /\ \A i \in DOMAIN notifier.callbacks :
            notifier'.callbacks[i] =
                IF touches /\ notifier.callbacks[i].initial
                THEN [notifier.callbacks[i] EXCEPT !.owed = @ \cup {v}]
                ELSE notifier.callbacks[i]
  <2>1. notifier \in NotifierRecord
    BY DEF IInv, StateFits
  <2>2. CASE touches
    <3>1. PICK none : none = {}
      OBVIOUS
    <3>2. PICK m : m = Owing(notifier, v, none)
      OBVIOUS
    <3>3. /\ OnlyRetold(notifier, m)
          /\ \A i \in DOMAIN notifier.callbacks :
                m.callbacks[i] =
                    IF notifier.callbacks[i].token \in none
                    THEN [notifier.callbacks[i] EXCEPT !.muted = @ \cup {v}]
                    ELSE IF notifier.callbacks[i].initial
                    THEN [notifier.callbacks[i] EXCEPT !.owed = @ \cup {v}]
                    ELSE notifier.callbacks[i]
      BY <2>1, <3>2, OwingFacts
    <3>4. notifier' = m
      BY <1>v, <2>2, <3>1, <3>2 DEF OtherCommit
    <3> QED
      BY <2>2, <3>1, <3>3, <3>4
  <2>3. CASE ~touches
    <3>1. notifier' = notifier /\ notifier = [notifier EXCEPT !.callbacks = notifier.callbacks]
      BY <2>1, <2>3 DEF OtherCommit, NotifierRecord
    <3> QED
      BY <2>1, <2>3, <3>1 DEF OnlyRetold, Retold
  <2> QED
    BY <2>2, <2>3
<1>3. /\ notifier'.index = notifier.index /\ notifier'.count = notifier.count
      /\ notifier'.have = notifier.have /\ notifier'.version = notifier.version
      /\ notifier'.has_run = notifier.has_run /\ notifier'.seen = notifier.seen
      /\ notifier'.new = notifier.new
      /\ Retold(notifier, notifier') /\ notifier' \in NotifierRecord
      /\ DOMAIN notifier'.callbacks = DOMAIN notifier.callbacks
  BY <1>2, RetoldFields DEF IInv, StateFits, OnlyRetold, Retold
<1>4. ASSUME NEW i \in DOMAIN notifier.callbacks
      PROVE  /\ notifier'.callbacks[i].token = notifier.callbacks[i].token
             /\ notifier'.callbacks[i].late = notifier.callbacks[i].late
             /\ notifier'.callbacks[i].deliver = notifier.callbacks[i].deliver
             /\ notifier'.callbacks[i].excused = notifier.callbacks[i].excused
             /\ CallbackInv(notifier.callbacks[i])'
  <2>1. PICK c : c = notifier.callbacks[i]
    OBVIOUS
  <2>2. PICK d : d = notifier'.callbacks[i]
    OBVIOUS
  <2>3. c \in CallbackRecord /\ CallbackFits(c) /\ FlagFits(c) /\ NewsFits(c)
    BY <2>1, CallbackFacts
  <2>4. /\ d.token = c.token /\ d.accumulated = c.accumulated /\ d.deliver = c.deliver
        /\ d.initial = c.initial /\ d.skip = c.skip /\ d.muted = c.muted /\ d.late = c.late
        /\ d.excused = c.excused
        /\ d.owed = IF touches /\ c.initial THEN c.owed \cup {latest + 1} ELSE c.owed
    BY <1>2, <1>v, <2>1, <2>2, <2>3 DEF CallbackRecord
  <2>5. CallbackFits(d)'
    BY <1>0, <1>1, <1>3, <2>3, <2>4, NumberFacts DEF IInv, CallbackFits
  <2>6. FlagFits(d)'
    BY <1>0, <1>n, <1>1, <1>3, <2>3, <2>4, NumberFacts DEF IInv, FlagFits, CallbackFits, SkipEnd
  <2>7. NewsFits(d)'
    BY <1>0, <1>1, <1>3, <2>3, <2>4, NumberFacts DEF IInv, NewsFits, CallbackFits, Live, ToCome, Telling
  <2> QED
    BY <2>1, <2>2, <2>4, <2>5, <2>6, <2>7 DEF CallbackInv
<1>5. StateFits'
  BY <1>0, <1>1, <1>3, NumberFacts DEF IInv, StateFits
<1>6. RoundFits'
  BY <1>0, <1>1, <1>3, NumberFacts DEF IInv, RoundFits, RoundEnd
<1>7. WritersWaited'
  BY <1>0, <1>3 DEF IInv, WritersWaited, Holding, OwnWrite, InCallback, OtherCommit, Locked
<1>8. LoopFits' /\ TokensDiffer' /\ ErrorLoopFits'
  BY <1>0, <1>3, <1>4, LoopStays DEF IInv
<1>9. PassedAreTold'
  BY <1>0, <1>3, <1>4, PassedStays DEF IInv
<1> QED
  BY <1>3, <1>4, <1>5, <1>6, <1>7, <1>8, <1>9 DEF IInv

\* A callback is suppressed: nothing else changes, and its flag can cost it nothing,
\* or it is excused.
LEMMA SuppressKeeps ==
    ASSUME IInv, NEW token \in Tokens(notifier), suppress_next_notification(token)
    PROVE  IInv'
<1>0. /\ UNCHANGED <<latest, touching, realm, writing, tokens, worker, skip, async_error, woken,
                     signalled, target>>
      /\ suppressed' = suppressed \cup {token} /\ writing
      /\ notifier' = Suppressed(notifier, token)
      /\ target.pc = "idle" \/ OwnWrite
      /\ target.pc \notin {"waiting", "before"}
  BY DEF suppress_next_notification, fileVars, workerVars, InWrite, Idle, OwnWrite, InCallback
<1>1. /\ OnlyRetold(notifier, notifier')
      /\ \A i \in DOMAIN notifier.callbacks :
            SuppressedAs(notifier.callbacks[i], notifier'.callbacks[i], token)
  <2>1. notifier \in NotifierRecord
    BY DEF IInv, StateFits
  <2>2. PICK m : m = Suppressed(notifier, token)
    OBVIOUS
  <2>3. /\ OnlyRetold(notifier, m)
        /\ \A i \in DOMAIN notifier.callbacks :
              SuppressedAs(notifier.callbacks[i], m.callbacks[i], token)
    BY <2>1, <2>2, SuppressedFacts
  <2> QED
    BY <1>0, <2>2, <2>3
<1>2. /\ notifier'.index = notifier.index /\ notifier'.count = notifier.count
      /\ notifier'.have = notifier.have /\ notifier'.version = notifier.version
      /\ notifier'.has_run = notifier.has_run /\ notifier'.seen = notifier.seen
      /\ notifier'.new = notifier.new
      /\ Retold(notifier, notifier') /\ notifier' \in NotifierRecord
      /\ DOMAIN notifier'.callbacks = DOMAIN notifier.callbacks
  BY <1>1, RetoldFields DEF IInv, StateFits, OnlyRetold, Retold
\* Out of callbacks who writes has waited for the worker.
<1>3. /\ target.calling = NoToken /\ ~async_error =>
             notifier.has_run /\ notifier.version = latest
      /\ async_error \/ notifier.has_run
  <2>1. notifier.have
    <3>1. notifier \in NotifierRecord
      BY DEF IInv, StateFits
    <3>2. notifier.callbacks # <<>>
      BY <3>1, CallbacksFacts DEF Tokens
    <3> QED
      BY <3>2 DEF IInv, LoopFits
  <2>2. CASE OwnWrite
    BY <2>2 DEF OwnWrite, InCallback, IInv, LoopFits, Telling
  <2>3. CASE ~OwnWrite
    BY <1>0, <2>1, <2>3 DEF IInv, WritersWaited, Holding, LoopFits
  <2> QED
    BY <2>2, <2>3
<1>4. ASSUME NEW i \in DOMAIN notifier.callbacks
      PROVE  /\ notifier'.callbacks[i].token = notifier.callbacks[i].token
             /\ notifier'.callbacks[i].late = notifier.callbacks[i].late
             /\ notifier'.callbacks[i].deliver = notifier.callbacks[i].deliver
             /\ notifier.callbacks[i].excused => notifier'.callbacks[i].excused
             /\ notifier.callbacks[i].token \in 1..tokens
             /\ CallbackInv(notifier.callbacks[i])'
  <2>1. PICK c : c = notifier.callbacks[i]
    OBVIOUS
  <2>2. PICK d : d = notifier'.callbacks[i]
    OBVIOUS
  <2>3. c \in CallbackRecord /\ CallbackFits(c) /\ FlagFits(c) /\ NewsFits(c)
    BY <2>1, CallbackFacts
  <2>4. /\ d.token = c.token /\ d.accumulated = c.accumulated /\ d.deliver = c.deliver
        /\ d.initial = c.initial /\ d.muted = c.muted /\ d.late = c.late /\ d.owed = c.owed
        /\ d.skip = (c.skip \/ c.token = token)
        /\ d.excused = (c.excused \/ (c.token = token /\ target.calling # NoToken))
    BY <1>1, <2>1, <2>2, <2>3 DEF CallbackRecord, SuppressedAs
  <2>5. CallbackFits(d)'
    BY <1>0, <1>2, <1>3, <2>3, <2>4 DEF CallbackFits
  <2>6. FlagFits(d)'
    <3>1. SUFFICES ASSUME ~d.excused, notifier.has_run
                   PROVE  FlagFits(d)'
      BY <1>2 DEF FlagFits
    <3>2. ~async_error
      BY <3>1 DEF IInv, RoundFits
    <3>3. CASE c.token = token
      <4>1. notifier.version = latest
        BY <1>3, <2>4, <3>1, <3>2, <3>3
      <4> QED
        BY <1>0, <1>2, <2>4, <3>3, <4>1 DEF FlagFits
    <3>4. CASE c.token # token
      BY <1>0, <1>2, <2>3, <2>4, <3>1, <3>4 DEF FlagFits, SkipEnd, Touched
    <3> QED
      BY <3>3, <3>4
  <2>7. NewsFits(d)'
    BY <1>0, <1>2, <2>3, <2>4 DEF NewsFits, Live, ToCome, Telling, Touched
  <2>8. c.token \in 1..tokens
    BY <2>3 DEF CallbackFits
  <2> QED
    BY <2>1, <2>2, <2>4, <2>5, <2>6, <2>7, <2>8 DEF CallbackInv
<1>5. StateFits'
  <2>1. token \in 1..tokens
    BY <1>4 DEF Tokens
  <2>2. suppressed' \in SUBSET (1..tokens)
    BY <1>0, <2>1 DEF IInv, StateFits
  <2> QED
    BY <1>0, <1>2, <2>2 DEF IInv, StateFits
<1>6. RoundFits'
  BY <1>0, <1>2 DEF IInv, RoundFits, RoundEnd, Touched
<1>7. WritersWaited'
  BY <1>0, <1>2 DEF IInv, WritersWaited, Holding, OwnWrite, InCallback
<1>8. LoopFits' /\ TokensDiffer' /\ ErrorLoopFits'
  BY <1>0, <1>2, <1>4, LoopStays DEF IInv
<1>9. PassedAreTold'
  BY <1>0, <1>2, <1>4, PassedStays DEF IInv
<1> QED
  BY <1>2, <1>4, <1>5, <1>6, <1>7, <1>8, <1>9 DEF IInv

\* The commit of the target: at the end of a write transaction, or in a callback.
LEMMA CommitKeeps ==
    ASSUME IInv, NEW touches \in BOOLEAN, commit_write(touches)
    PROVE  IInv'
<1>0. /\ NewSnapshot(touches) /\ realm' = latest + 1
      /\ notifier' = Committed(notifier, touches)
      /\ skip' = IF notifier.new THEN skip ELSE latest + 1
      /\ UNCHANGED <<tokens, worker, async_error, signalled, target>>
      /\ writing' = FALSE /\ suppressed' = {}
      /\ writing /\ (target.pc = "idle" \/ OwnWrite)
  BY DEF commit_write, InWrite, Idle, OwnWrite
<1>1. /\ latest \in Nat /\ latest' = latest + 1 /\ woken' = TRUE
      /\ latest' \in Versions /\ touching' \in SUBSET (1..latest')
      /\ \A a, b \in Nat : b <= latest => Touched(a, b)' = Touched(a, b)
      /\ \A a \in Nat : a <= latest =>
            Touched(a, latest)' = Touched(a, latest) \cup (IF touches THEN {latest + 1} ELSE {})
  BY <1>0, SnapshotFacts DEF IInv
<1>2. /\ OnlyRetold(notifier, notifier')
      /\ \A i \in DOMAIN notifier.callbacks :
            CommittedAs(notifier.callbacks[i], notifier'.callbacks[i], touches)
  <2>1. StateFits /\ notifier \in NotifierRecord
    BY DEF IInv, StateFits
  <2>2. PICK m : m = Committed(notifier, touches)
    OBVIOUS
  <2>3. /\ OnlyRetold(notifier, m)
        /\ \A i \in DOMAIN notifier.callbacks :
              CommittedAs(notifier.callbacks[i], m.callbacks[i], touches)
    BY <2>1, <2>2, CommittedFacts
  <2> QED
    BY <1>0, <2>2, <2>3
<1>3. /\ notifier'.index = notifier.index /\ notifier'.count = notifier.count
      /\ notifier'.have = notifier.have /\ notifier'.version = notifier.version
      /\ notifier'.has_run = notifier.has_run /\ notifier'.seen = notifier.seen
      /\ notifier'.new = notifier.new
      /\ Retold(notifier, notifier') /\ notifier' \in NotifierRecord
      /\ DOMAIN notifier'.callbacks = DOMAIN notifier.callbacks
  BY <1>2, RetoldFields DEF IInv, StateFits, OnlyRetold, Retold
\* Where the flag covers the commit, the worker had nothing left to read.
<1>4. ASSUME NEW i \in DOMAIN notifier.callbacks
      PROVE  /\ target.calling = NoToken /\ ~async_error =>
                    notifier.has_run /\ notifier.version = latest
             /\ async_error \/ notifier.has_run
  <2>1. notifier.have
    <3>1. notifier \in NotifierRecord
      BY DEF IInv, StateFits
    <3>2. notifier.callbacks # <<>>
      BY <3>1, CallbacksFacts
    <3> QED
      BY <3>2 DEF IInv, LoopFits
  <2>2. CASE OwnWrite
    BY <2>2 DEF OwnWrite, InCallback, IInv, LoopFits, Telling
  <2>3. CASE ~OwnWrite
    BY <1>0, <2>1, <2>3 DEF IInv, WritersWaited, Holding, LoopFits
  <2> QED
    BY <2>2, <2>3
<1>6. ASSUME NEW i \in DOMAIN notifier.callbacks
      PROVE  /\ notifier'.callbacks[i].token = notifier.callbacks[i].token
             /\ notifier'.callbacks[i].late = notifier.callbacks[i].late
             /\ notifier'.callbacks[i].deliver = notifier.callbacks[i].deliver
             /\ notifier.callbacks[i].excused => notifier'.callbacks[i].excused
             /\ CallbackInv(notifier.callbacks[i])'
  <2>1. PICK c : c = notifier.callbacks[i]
    OBVIOUS
  <2>2. PICK d : d = notifier'.callbacks[i]
    OBVIOUS
  <2>3. c \in CallbackRecord /\ CallbackFits(c) /\ FlagFits(c) /\ NewsFits(c)
    BY <2>1, CallbackFacts
  <2>4. /\ d.token = c.token /\ d.accumulated = c.accumulated
        /\ d.deliver = c.deliver /\ d.initial = c.initial /\ d.late = c.late
        /\ d.skip = c.skip
        /\ d.muted = IF touches /\ c.token \in suppressed
                     THEN c.muted \cup {latest + 1} ELSE c.muted
        /\ d.owed = IF touches /\ ~(c.token \in suppressed) /\ c.initial
                    THEN c.owed \cup {latest + 1} ELSE c.owed
        /\ d.excused <=> c.excused \/ MissesCommit(c)
    BY <1>2, <2>1, <2>2 DEF CommittedAs
  <2>5. async_error \/ notifier.has_run
    BY <1>4
  <2>6. CallbackFits(d)'
    BY <1>0, <1>1, <1>3, <2>3, <2>4, <2>5, NumberFacts DEF IInv, CallbackFits
  <2>7. FlagFits(d)'
    <3>1. SUFFICES ASSUME ~d.excused, notifier.has_run
                   PROVE  FlagFits(d)'
      BY <1>3 DEF FlagFits
    <3>2. ~async_error
      BY <3>1 DEF IInv, RoundFits
    <3>3. CASE d.skip
      <4>1. worker.stage = "idle" /\ target.calling = NoToken /\ ~c.excused /\ c.skip
        BY <2>4, <3>1, <3>3 DEF MissesCommit
      <4>2. notifier.version = latest
        BY <1>4, <3>2, <4>1
      <4>3. c.token \in suppressed
        BY <2>3, <3>1, <4>1, <4>2, NumberFacts DEF IInv, FlagFits
      <4>4. PICK v \in Nat : v = latest
        BY <1>1
      <4>5. notifier.version' = v /\ SkipEnd' = v + 1
        BY <1>0, <1>3, <3>1, <4>1, <4>2, <4>4 DEF IInv, RoundFits, SkipEnd
      <4>6. Touched(v, latest)' \subseteq d.muted
        <5>1. Touched(v, latest) = {}
          BY <4>4 DEF Touched
        <5>2. Touched(v, latest)' = Touched(v, latest) \cup (IF touches THEN {latest + 1} ELSE {})
          BY <1>1, <4>4
        <5>3. (IF touches THEN {latest + 1} ELSE {}) \subseteq d.muted
          BY <2>4, <4>3
        <5> QED
          BY <5>1, <5>2, <5>3
      <4>7. Touched(v, v + 1)' \subseteq d.muted /\ Touched(v + 1, latest)' = {}
        BY <1>1, <4>4, <4>6 DEF Touched
      <4>8. Touched(notifier.version, SkipEnd)' \subseteq d.muted
        BY <4>5, <4>7 DEF Touched
      <4>9. Touched(SkipEnd, latest)' = {}
        BY <4>5, <4>7 DEF Touched
      <4> QED
        BY <1>0, <3>3, <4>1, <4>4, <4>5, <4>8, <4>9 DEF FlagFits
    <3>4. CASE ~d.skip
      <4>1. ~c.skip /\ c.token \notin suppressed /\ ~c.excused
        BY <2>4, <3>1, <3>4 DEF MissesCommit
      <4> QED
        BY <1>1, <1>3, <2>3, <2>4, <3>1, <3>4, <4>1, NumberFacts DEF IInv, FlagFits, CallbackFits
    <3> QED
      BY <3>3, <3>4
  <2>8. NewsFits(d)'
    <3>1. ~d.excused => ~c.excused
      BY <2>4
    <3>2. (Live(d) => Live(c)) /\ (Live(d)' => Live(d))
      BY <1>0, <2>4, <3>1 DEF Live, Telling
    <3>3. ToCome(d)' = ToCome(c) \cup (IF touches /\ ~(c.token \in suppressed) THEN {latest + 1} ELSE {})
      BY <1>1, <1>3, <2>3, <2>4, NumberFacts, TouchedFacts DEF IInv, ToCome, CallbackFits
    <3>4. Touched(target.at, latest)' \ d.muted =
            (Touched(target.at, latest) \ c.muted)
                \cup (IF touches /\ ~(c.token \in suppressed) THEN {latest + 1} ELSE {})
      BY <1>0, <1>1, <2>3, <2>4, NumberFacts, TouchedFacts DEF IInv, CallbackFits
    <3> QED
      BY <1>0, <1>1, <1>3, <2>3, <2>4, <3>1, <3>2, <3>3, <3>4 DEF NewsFits, Telling
  <2> QED
    BY <2>1, <2>2, <2>4, <2>6, <2>7, <2>8 DEF CallbackInv
<1>7. StateFits'
  <2>1. realm' = latest' /\ latest' \in Nat
    BY <1>0, <1>1
  <2>2. realm' \in 0..latest'
    BY <2>1
  <2>3. writing' \in BOOLEAN /\ woken' \in BOOLEAN
    BY <1>0, <1>1
  <2>4. suppressed' \in SUBSET (1..tokens') /\ suppressed' = {}
    BY <1>0
  <2> QED
    BY <1>0, <1>1, <1>3, <2>2, <2>3, <2>4, NumberFacts DEF IInv, StateFits
<1>8. RoundFits'
  BY <1>0, <1>1, <1>3, NumberFacts DEF IInv, RoundFits, RoundEnd
<1>9. WritersWaited'
  BY <1>0, <1>3 DEF WritersWaited, Holding, OwnWrite, InCallback
<1>10. LoopFits' /\ TokensDiffer' /\ ErrorLoopFits'
  BY <1>0, <1>3, <1>6, LoopStays DEF IInv
<1>11. PassedAreTold'
  BY <1>0, <1>3, <1>6, PassedStays DEF IInv
<1> QED
  BY <1>3, <1>6, <1>7, <1>8, <1>9, <1>10, <1>11 DEF IInv

\* A write that is cancelled, and one that a callback begins.
LEMMA WritingKeeps ==
    ASSUME IInv, cancel_transaction \/ BeginInCallback
    PROVE  IInv'
<1>1. /\ UNCHANGED <<latest, touching, suppressed, notifier, tokens, worker, skip, async_error,
                     woken, signalled, target>>
      /\ writing' \in BOOLEAN /\ realm' \in {realm, latest}
      /\ suppressed # {} => writing' /\ target.pc \notin {"waiting", "before"}
  BY DEF cancel_transaction, BeginInCallback, fileVars, workerVars, IInv, StateFits
<1>2. StateFits'
  <2>1. realm' \in 0..latest
    BY <1>1, NumberFacts DEF IInv
  <2> QED
    BY <1>1, <2>1 DEF IInv, StateFits
<1>3. RoundFits' /\ LoopFits' /\ TokensDiffer' /\ PassedAreTold'
  BY <1>1 DEF IInv, RoundFits, RoundEnd, Touched, LoopFits, Telling, TokensDiffer, PassedAreTold
<1>4. WritersWaited'
  <2>1. CASE cancel_transaction
    BY <1>1, <2>1 DEF cancel_transaction, InWrite, Idle, IInv, WritersWaited, Holding, OwnWrite, InCallback
  <2>2. CASE BeginInCallback
    <3>1. InCallback /\ writing' /\ ~writing
      BY <2>2 DEF BeginInCallback
    <3>2. target.then = "read"
      BY <3>1 DEF IInv, InCallback, WritersWaited, StateFits, Standing
    <3> QED
      BY <1>1, <3>1, <3>2 DEF IInv, WritersWaited, Holding, OwnWrite, InCallback
  <2> QED
    BY <2>1, <2>2
<1>5. ErrorLoopFits'
  BY <1>1 DEF IInv, ErrorLoopFits
<1>6. ASSUME NEW i \in DOMAIN notifier.callbacks
      PROVE  CallbackInv(notifier.callbacks[i])'
  <2>1. PICK c : c = notifier.callbacks[i]
    OBVIOUS
  <2>2. CallbackFits(c) /\ FlagFits(c) /\ NewsFits(c)
    BY <2>1, CallbackFacts
  <2>3. CallbackFits(c)' /\ FlagFits(c)' /\ NewsFits(c)'
    BY <1>1, <2>2 DEF CallbackFits, FlagFits, SkipEnd, Touched, NewsFits, Live, ToCome, Telling
  <2> QED
    BY <1>1, <2>1, <2>3 DEF CallbackInv
<1> QED
  BY <1>1, <1>2, <1>3, <1>4, <1>5, <1>6 DEF IInv

-----------------------------------------------------------------------------
(* The worker                                                                *)

\* A step of the worker that leaves the callbacks alone, and moves nothing of the
\* target's.
LEMMA WorkerLeaves ==
    ASSUME IInv, notifier' \in NotifierRecord, notifier'.callbacks = notifier.callbacks,
           notifier'.index = notifier.index, notifier'.count = notifier.count,
           notifier'.have = notifier.have, notifier'.version = notifier.version,
           notifier'.has_run = notifier.has_run, async_error => async_error',
           UNCHANGED <<latest, touching, suppressed, realm, writing, tokens, target>>,
           worker' \in Round, woken' \in BOOLEAN, signalled' \in BOOLEAN, async_error' \in BOOLEAN
    PROVE  /\ StateFits' /\ WritersWaited' /\ LoopFits' /\ TokensDiffer' /\ ErrorLoopFits'
           /\ PassedAreTold'
           /\ (\A i \in DOMAIN notifier.callbacks :
                 CallbackFits(notifier.callbacks[i])
                     /\ FlagFits(notifier.callbacks[i]) /\ NewsFits(notifier.callbacks[i])
                 => (FlagFits(notifier.callbacks[i]) /\ NewsFits(notifier.callbacks[i]))')
              => \A i \in DOMAIN notifier'.callbacks : CallbackInv(notifier.callbacks[i])'
<1>1. StateFits'
  BY DEF IInv, StateFits
<1>2. WritersWaited'
  BY DEF IInv, WritersWaited, Holding, OwnWrite, InCallback
<1>3. LoopFits' /\ TokensDiffer' /\ ErrorLoopFits' /\ PassedAreTold'
  <2>1. Retold(notifier, notifier')
    BY DEF Retold
  <2> QED
    BY <2>1, LoopStays, PassedStays DEF IInv
<1>4. ASSUME NEW i \in DOMAIN notifier.callbacks
      PROVE  /\ CallbackFits(notifier.callbacks[i])'
             /\ CallbackFits(notifier.callbacks[i]) /\ FlagFits(notifier.callbacks[i])
             /\ NewsFits(notifier.callbacks[i])
  <2>1. PICK c : c = notifier.callbacks[i]
    OBVIOUS
  <2>2. CallbackFits(c) /\ FlagFits(c) /\ NewsFits(c)
    BY <2>1, CallbackFacts
  <2>3. CallbackFits(c)'
    BY <2>2 DEF CallbackFits
  <2> QED
    BY <2>1, <2>2, <2>3
<1> QED
  BY <1>1, <1>2, <1>3, <1>4 DEF CallbackInv

LEMMA WorkerStartKeeps ==
    ASSUME IInv, WorkerStart
    PROVE  IInv'
<1>1. /\ worker.stage = "idle"
      /\ UNCHANGED <<latest, touching, suppressed, realm, writing, tokens, async_error, target>>
      /\ notifier' = [notifier EXCEPT !.new = FALSE]
      /\ woken' = FALSE
  BY DEF WorkerStart, fileVars
<1>2. /\ notifier' \in NotifierRecord /\ notifier'.callbacks = notifier.callbacks
      /\ notifier'.index = notifier.index /\ notifier'.count = notifier.count
      /\ notifier'.have = notifier.have /\ notifier'.version = notifier.version
      /\ notifier'.has_run = notifier.has_run /\ notifier'.seen = notifier.seen
      /\ notifier'.new = FALSE
  BY <1>1 DEF IInv, StateFits, NotifierRecord
<1>3. \/ async_error /\ signalled' = TRUE /\ UNCHANGED <<worker, skip>>
      \/ /\ worker'.stage = IF skip # 0 THEN "skip" ELSE "rest"
         /\ worker'.skip = skip /\ worker'.to = latest /\ worker'.changes = {}
         /\ worker'.gap = FALSE /\ worker' \in Round
         /\ skip' = 0 /\ UNCHANGED signalled /\ ~async_error
  BY NumberFacts DEF WorkerStart, NoRound, Round, IInv
<1>4. woken' \in BOOLEAN /\ signalled' \in BOOLEAN /\ async_error' \in BOOLEAN /\ worker' \in Round
  BY <1>1, <1>3 DEF IInv, StateFits
<1>5. RoundFits'
  BY <1>1, <1>2, <1>3, NumberFacts DEF IInv, RoundFits, RoundEnd, NoRound
<1>6. ASSUME NEW i \in DOMAIN notifier.callbacks
      PROVE  (FlagFits(notifier.callbacks[i]) /\ NewsFits(notifier.callbacks[i]))'
  <2>1. PICK c : c = notifier.callbacks[i]
    OBVIOUS
  <2>2. CallbackFits(c) /\ FlagFits(c) /\ NewsFits(c)
    BY <2>1, CallbackFacts
  <2>3. FlagFits(c)'
    BY <1>1, <1>2, <1>3, <2>2, NumberFacts DEF IInv, FlagFits, SkipEnd, Touched
  <2>4. NewsFits(c)'
    BY <1>1, <1>2, <1>3, <2>2 DEF NewsFits, Live, ToCome, Telling, Touched
  <2> QED
    BY <1>2, <2>1, <2>3, <2>4
<1> QED
  BY <1>1, <1>2, <1>4, <1>5, <1>6, WorkerLeaves DEF IInv

LEMMA WorkerFailsKeeps ==
    ASSUME IInv, WorkerFails
    PROVE  IInv'
<1>1. /\ worker.stage = "idle" /\ notifier.new
      /\ UNCHANGED <<latest, touching, suppressed, realm, writing, tokens, skip, worker, target>>
      /\ notifier' = [notifier EXCEPT !.new = FALSE]
      /\ woken' = FALSE /\ async_error' = TRUE /\ signalled' = TRUE
  BY DEF WorkerFails, fileVars
<1>2. /\ notifier' \in NotifierRecord /\ notifier'.callbacks = notifier.callbacks
      /\ notifier'.index = notifier.index /\ notifier'.count = notifier.count
      /\ notifier'.have = notifier.have /\ notifier'.version = notifier.version
      /\ notifier'.has_run = notifier.has_run /\ notifier'.seen = notifier.seen
      /\ notifier'.new = FALSE /\ ~notifier.has_run
  BY <1>1 DEF IInv, StateFits, RoundFits, NotifierRecord
<1>3. woken' \in BOOLEAN /\ signalled' \in BOOLEAN /\ async_error' \in BOOLEAN /\ worker' \in Round
  BY <1>1 DEF IInv, StateFits
<1>4. RoundFits'
  BY <1>1, <1>2, NumberFacts DEF IInv, RoundFits, RoundEnd, Touched
<1>5. ASSUME NEW i \in DOMAIN notifier.callbacks
      PROVE  (FlagFits(notifier.callbacks[i]) /\ NewsFits(notifier.callbacks[i]))'
  <2>1. PICK c : c = notifier.callbacks[i]
    OBVIOUS
  <2>2. CallbackFits(c) /\ FlagFits(c) /\ NewsFits(c)
    BY <2>1, CallbackFacts
  <2>3. FlagFits(c)'
    BY <1>2 DEF FlagFits
  <2>4. NewsFits(c)'
    BY <1>1, <1>2, <2>2 DEF NewsFits, Live, ToCome, Telling, Touched
  <2> QED
    BY <1>2, <2>1, <2>3, <2>4
<1> QED
  BY <1>1, <1>2, <1>3, <1>4, <1>5, WorkerLeaves DEF IInv

\* The round compares with the rows of the last handover, unless it says gap.
LEMMA WorkerRunKeeps ==
    ASSUME IInv, WorkerRun
    PROVE  IInv'
<1> DEFINE to == IF worker.stage = "skip" THEN worker.skip ELSE worker.to
           news == Touched(notifier.seen, to)
           runs == notifier.have \/ notifier.wants
           counts == notifier.has_run /\ notifier.have
<1>1. /\ worker.stage \in {"skip", "rest"}
      /\ UNCHANGED <<latest, touching, suppressed, realm, writing, tokens, skip, woken, signalled,
                     async_error, target>>
      /\ worker' = [worker EXCEPT !.stage = IF @ = "skip" THEN "skipped" ELSE "ran",
                                   !.changes = IF runs /\ counts THEN news ELSE {},
                                   !.view = runs /\ (~notifier.has_run \/ news # {}),
                                   !.gap = ~counts \/ notifier.seen < notifier.version]
      /\ notifier' = [notifier EXCEPT !.seen = IF runs THEN to ELSE @]
  BY DEF WorkerRun, fileVars
<1>2. /\ to \in Nat /\ to <= latest /\ notifier.version <= to
      /\ notifier.seen <= notifier.version
      /\ news \subseteq 1..to
      /\ worker.skip <= worker.to
  <2>1. to \in Nat /\ to <= latest
    BY NumberFacts DEF IInv
  <2>2. notifier.version <= to /\ notifier.seen <= notifier.version /\ worker.skip <= worker.to
    BY <1>1, NumberFacts DEF IInv, RoundFits
  <2>3. news \subseteq 1..to
    BY <2>1, NumberFacts, TouchedFacts DEF IInv
  <2> QED
    BY <2>1, <2>2, <2>3
<1> HIDE DEF to
<1>3. /\ notifier' \in NotifierRecord /\ notifier'.callbacks = notifier.callbacks
      /\ notifier'.index = notifier.index /\ notifier'.count = notifier.count
      /\ notifier'.have = notifier.have /\ notifier'.version = notifier.version
      /\ notifier'.has_run = notifier.has_run /\ notifier'.new = notifier.new
      /\ notifier'.seen = IF runs THEN to ELSE notifier.seen
  BY <1>1, <1>2 DEF IInv, StateFits, NotifierRecord
<1>4. /\ worker' \in Round
      /\ worker'.stage = IF worker.stage = "skip" THEN "skipped" ELSE "ran"
      /\ worker'.skip = worker.skip /\ worker'.to = worker.to
      /\ worker'.changes = IF runs /\ counts THEN news ELSE {}
      /\ worker'.gap <=> (~counts \/ notifier.seen < notifier.version)
  <2>1. worker \in Round /\ notifier \in NotifierRecord
    BY DEF IInv, StateFits
  <2>2. PICK changes : changes = IF runs /\ counts THEN news ELSE {}
    OBVIOUS
  <2>3. PICK view : view = (runs /\ (~notifier.has_run \/ news # {}))
    OBVIOUS
  <2>4. PICK gap : gap = (~counts \/ notifier.seen < notifier.version)
    OBVIOUS
  <2>5. changes \in SUBSET Nat
    BY <1>2, <2>2
  <2>6. view \in BOOLEAN /\ gap \in BOOLEAN
    BY <2>3, <2>4
  <2>7. worker' = [worker EXCEPT !.stage = IF @ = "skip" THEN "skipped" ELSE "ran",
                                 !.changes = changes, !.view = view, !.gap = gap]
    BY <1>1, <2>2, <2>3, <2>4
  <2> HIDE DEF news, runs, counts
  <2>8. /\ worker' \in Round
        /\ worker'.stage = IF worker.stage = "skip" THEN "skipped" ELSE "ran"
        /\ worker'.skip = worker.skip /\ worker'.to = worker.to
        /\ worker'.changes = changes /\ worker'.gap = gap
    BY <2>1, <2>5, <2>6, <2>7 DEF Round
  <2> QED
    BY <2>2, <2>4, <2>8
<1>5. /\ RoundEnd' = to
      /\ SkipEnd' = SkipEnd
  BY <1>1, <1>4 DEF RoundEnd, SkipEnd, to
<1>6. RoundFits'
  <2>1. ASSUME ~worker'.gap
        PROVE  notifier'.seen = to /\ worker'.changes = Touched(notifier.version, to)
    <3>1. counts /\ runs /\ ~(notifier.seen < notifier.version)
      BY <1>4, <2>1
    <3>2. notifier.seen = notifier.version
      BY <1>2, <3>1, NumberFacts DEF IInv
    <3>3. notifier'.seen = to /\ worker'.changes = news
      BY <1>3, <1>4, <3>1
    <3> QED
      BY <3>2, <3>3
  <2>2. Touched(notifier.version, RoundEnd)' = Touched(notifier.version, to)
    BY <1>1, <1>3, <1>5 DEF Touched
  <2>3. worker'.changes \subseteq 1..to /\ notifier'.seen <= to
    BY <1>2, <1>3, <1>4, NumberFacts DEF IInv
  <2>4. worker'.stage \in {"skipped", "ran"} /\ (worker'.stage = "skipped" <=> worker.stage = "skip")
    BY <1>4
  <2>5. /\ worker.to <= latest /\ notifier.version <= worker.to
        /\ worker.stage = "skip" => notifier.version < worker.skip
    BY <1>1 DEF IInv, RoundFits
  <2>6. /\ skip \in 0..latest /\ (skip # 0 => notifier.version < skip /\ worker.to < skip)
        /\ notifier.version <= latest
        /\ ~notifier.new /\ ~async_error
    BY <1>1 DEF IInv, RoundFits
  <2> QED
    BY <1>1, <1>2, <1>3, <1>4, <1>5, <2>1, <2>2, <2>3, <2>4, <2>5, <2>6 DEF RoundFits
<1>7. ASSUME NEW i \in DOMAIN notifier.callbacks
      PROVE  (FlagFits(notifier.callbacks[i]) /\ NewsFits(notifier.callbacks[i]))'
  <2>1. PICK c : c = notifier.callbacks[i]
    OBVIOUS
  <2>2. CallbackFits(c) /\ FlagFits(c) /\ NewsFits(c)
    BY <2>1, CallbackFacts
  <2>3. FlagFits(c)'
    BY <1>1, <1>3, <1>4, <1>5, <2>2 DEF FlagFits, Touched
  <2>4. notifier.have
    <3>1. notifier \in NotifierRecord
      BY DEF IInv, StateFits
    <3>2. notifier.callbacks # <<>>
      BY <3>1, CallbacksFacts
    <3> QED
      BY <3>2 DEF IInv, LoopFits
  <2>5. Live(c)' => Live(c)
    BY <1>1 DEF Live, Telling
  <2>6. Live(c) => notifier'.has_run /\ notifier'.seen >= notifier'.version /\ ~worker'.gap
    <3>1. SUFFICES ASSUME Live(c)
                   PROVE  notifier'.has_run /\ notifier'.seen >= notifier'.version /\ ~worker'.gap
      OBVIOUS
    <3>2. notifier.has_run /\ notifier.seen >= notifier.version
      BY <2>2, <3>1 DEF NewsFits
    <3>3. runs /\ counts
      BY <2>4, <3>2
    <3>4. ~worker'.gap
      BY <1>4, <3>2, <3>3, NumberFacts DEF IInv
    <3>5. notifier'.seen = to
      BY <1>3, <3>3
    <3> QED
      BY <1>2, <1>3, <3>2, <3>4, <3>5, NumberFacts DEF IInv
  <2>7. NewsFits(c)'
    BY <1>1, <1>3, <2>2, <2>5, <2>6 DEF NewsFits, ToCome, Telling, Touched
  <2> QED
    BY <1>3, <2>1, <2>3, <2>7
<1>8. woken' \in BOOLEAN /\ signalled' \in BOOLEAN /\ async_error' \in BOOLEAN
  BY <1>1 DEF IInv, StateFits
<1> QED
  BY <1>1, <1>3, <1>4, <1>6, <1>7, <1>8, WorkerLeaves DEF IInv

\* The handover passes on what happened up to the end of the round; a callback
\* with its flag set is left out of exactly that.
LEMMA WorkerHandoverKeeps ==
    ASSUME IInv, WorkerHandover
    PROVE  IInv'
<1>1. /\ worker.stage \in {"skipped", "ran"}
      /\ UNCHANGED <<latest, touching, suppressed, realm, writing, tokens, skip, woken, async_error, target>>
      /\ signalled' = (signalled \/ worker.stage = "ran")
      /\ worker' = IF worker.stage = "ran" THEN NoRound
                   ELSE [NoRound EXCEPT !.stage = "rest", !.to = worker.to]
  BY DEF WorkerHandover, fileVars
<1>v. PICK v : v = RoundEnd
  OBVIOUS
<1>2. /\ v \in Nat /\ v <= latest /\ notifier.version <= v /\ v <= worker.to
      /\ notifier.seen <= v
      /\ worker.changes \in SUBSET Nat /\ worker.changes \subseteq 1..v
      /\ worker.view \in BOOLEAN
      /\ ~worker.gap => notifier.seen = v /\ worker.changes = Touched(notifier.version, v)
      /\ ~notifier.new /\ ~async_error
  <2>1. v \in Nat /\ v <= latest
    BY <1>v, NumberFacts DEF IInv
  <2>2. notifier.version <= v /\ v <= worker.to
    BY <1>1, <1>v, NumberFacts DEF IInv, RoundFits, RoundEnd
  <2>3. worker.changes \in SUBSET Nat /\ worker.view \in BOOLEAN
    BY DEF IInv, StateFits, Round
  <2> QED
    BY <1>1, <1>v, <2>1, <2>2, <2>3 DEF IInv, RoundFits
<1>3. /\ Retold(notifier, notifier')
      /\ notifier' = [notifier EXCEPT !.callbacks = notifier'.callbacks, !.version = v,
                                      !.has_run = TRUE, !.view = notifier'.view]
      /\ \A i \in DOMAIN notifier.callbacks :
            notifier'.callbacks[i] =
                [notifier.callbacks[i] EXCEPT !.skip = FALSE,
                    !.accumulated = IF notifier.callbacks[i].skip THEN @
                                    ELSE @ \cup worker.changes]
  <2>1. PICK changes \in SUBSET Nat, view \in BOOLEAN : changes = worker.changes /\ view = worker.view
    BY <1>2
  <2>2. PICK m : m = prepare_handover(notifier, v, changes, view)
    OBVIOUS
  <2>3. notifier \in NotifierRecord
    BY DEF IInv, StateFits
  <2>4. HandedOver(notifier, m, v, changes)
    BY <1>2, <2>2, <2>3, HandoverFacts
  <2>5. v = IF worker.stage = "ran" THEN worker.to ELSE worker.skip
    BY <1>1, <1>v DEF RoundEnd
  <2>6. notifier' = m
    BY <2>1, <2>2, <2>5 DEF WorkerHandover
  <2> QED
    BY <2>1, <2>4, <2>6 DEF HandedOver
<1>4. /\ notifier' \in NotifierRecord
      /\ DOMAIN notifier'.callbacks = DOMAIN notifier.callbacks
      /\ notifier'.index = notifier.index /\ notifier'.count = notifier.count
      /\ notifier'.have = notifier.have /\ notifier'.version = v
      /\ notifier'.has_run = TRUE /\ notifier'.seen = notifier.seen
      /\ notifier'.new = notifier.new
  BY <1>3 DEF IInv, StateFits, Retold, NotifierRecord
<1>5. /\ worker' \in Round /\ worker'.gap = FALSE /\ worker'.changes = {}
      /\ worker'.skip = 0
      /\ worker.stage = "ran" => worker' = NoRound /\ worker'.stage = "idle" /\ worker'.to = 0
      /\ worker.stage = "skipped" => worker'.stage = "rest" /\ worker'.to = worker.to
  BY <1>1, NumberFacts DEF IInv, NoRound, Round
<1>6. StateFits'
  <2>1. signalled' \in BOOLEAN
    BY <1>1
  <2> QED
    BY <1>1, <1>4, <1>5, <2>1 DEF IInv, StateFits
<1>7. RoundFits'
  <2>1. skip \in 0..latest /\ (skip # 0 => worker.to < skip)
    BY DEF IInv, RoundFits
  <2>2. worker.to \in Nat /\ worker.to <= latest
    BY NumberFacts DEF IInv
  <2> QED
    BY <1>1, <1>2, <1>4, <1>5, <2>1, <2>2 DEF RoundFits
<1>8. WritersWaited'
  BY <1>1, <1>2, <1>4, NumberFacts DEF IInv, WritersWaited, Holding, OwnWrite, InCallback
<1>9. ASSUME NEW i \in DOMAIN notifier.callbacks
      PROVE  /\ notifier'.callbacks[i].token = notifier.callbacks[i].token
             /\ notifier'.callbacks[i].late = notifier.callbacks[i].late
             /\ notifier'.callbacks[i].deliver = notifier.callbacks[i].deliver
             /\ notifier'.callbacks[i].excused = notifier.callbacks[i].excused
             /\ CallbackInv(notifier.callbacks[i])'
  <2>1. PICK c : c = notifier.callbacks[i]
    OBVIOUS
  <2>2. PICK d : d = notifier'.callbacks[i]
    OBVIOUS
  <2>3. c \in CallbackRecord /\ CallbackFits(c) /\ FlagFits(c) /\ NewsFits(c)
    BY <2>1, CallbackFacts
  <2>4. /\ d.token = c.token /\ d.deliver = c.deliver /\ d.initial = c.initial
        /\ d.owed = c.owed /\ d.muted = c.muted /\ d.late = c.late /\ d.excused = c.excused
        /\ d.skip = FALSE
        /\ d.accumulated = IF c.skip THEN c.accumulated ELSE c.accumulated \cup worker.changes
    <3>1. PICK acc : acc = IF c.skip THEN c.accumulated ELSE c.accumulated \cup worker.changes
      OBVIOUS
    <3>2. d = [c EXCEPT !.skip = FALSE, !.accumulated = acc]
      BY <1>3, <2>1, <2>2, <3>1
    <3>3. /\ d.token = c.token /\ d.deliver = c.deliver /\ d.initial = c.initial
          /\ d.owed = c.owed /\ d.muted = c.muted /\ d.late = c.late /\ d.excused = c.excused
          /\ d.skip = FALSE /\ d.accumulated = acc
      BY <2>3, <3>2 DEF CallbackRecord
    <3> QED
      BY <3>1, <3>3
  <2>5. CallbackFits(d)'
    BY <1>1, <1>2, <1>4, <2>3, <2>4, NumberFacts DEF IInv, CallbackFits
  <2>6. /\ Touched(notifier.version, latest) = Touched(notifier.version, v) \cup Touched(v, latest)
        /\ Touched(v, latest)' = Touched(v, latest)
    <3>1. Touched(notifier.version, latest) = Touched(notifier.version, v) \cup Touched(v, latest)
      BY <1>2, NumberFacts, TouchedFacts DEF IInv
    <3> QED
      BY <1>1, <3>1 DEF Touched
  <2>7. ~c.excused /\ notifier.has_run /\ c.skip =>
            /\ Touched(notifier.version, v) \subseteq c.muted
            /\ Touched(v, latest) \cap c.muted = {}
    <3>1. SUFFICES ASSUME ~c.excused, notifier.has_run, c.skip
                   PROVE  /\ Touched(notifier.version, v) \subseteq c.muted
                          /\ Touched(v, latest) \cap c.muted = {}
      OBVIOUS
    <3>2. CASE c.token \in suppressed
      <4>1. notifier.version = latest /\ v = latest
        BY <1>2, <2>3, <3>1, <3>2, NumberFacts DEF IInv, FlagFits
      <4> QED
        BY <4>1, NumberFacts, TouchedFacts DEF IInv
    <3>3. CASE c.token \notin suppressed
      BY <1>1, <1>v, <2>3, <3>1, <3>3 DEF FlagFits, SkipEnd, RoundEnd
    <3> QED
      BY <3>2, <3>3
  <2>8. ~c.excused => Touched(v, latest) \cap c.muted = {}
    <3>1. CASE notifier.has_run
      BY <2>3, <2>6, <2>7, <3>1 DEF FlagFits
    <3>2. CASE ~notifier.has_run
      BY <1>2, <2>3, <3>2 DEF CallbackFits
    <3> QED
      BY <3>1, <3>2
  <2>9. FlagFits(d)'
    <3>1. Touched(notifier.version, latest)' = Touched(v, latest)'
      BY <1>4 DEF Touched
    <3> QED
      BY <2>4, <2>6, <2>8, <3>1 DEF FlagFits
  <2>10. Live(c) => /\ notifier.has_run /\ ~worker.gap
                    /\ d.accumulated \cup ToCome(d)' = c.accumulated \cup ToCome(c)
    <3>1. SUFFICES ASSUME Live(c)
                   PROVE  /\ notifier.has_run /\ ~worker.gap
                          /\ d.accumulated \cup ToCome(d)' = c.accumulated \cup ToCome(c)
      OBVIOUS
    <3>2. notifier.has_run /\ ~worker.gap /\ ~c.excused
      BY <2>3, <3>1 DEF NewsFits, Live
    <3>3. ToCome(d)' = Touched(v, latest) \ c.muted
      BY <1>1, <1>4, <2>4 DEF ToCome, Touched
    <3>4. CASE c.skip
      BY <2>4, <2>6, <2>7, <3>2, <3>3, <3>4 DEF ToCome
    <3>5. CASE ~c.skip
      <4>1. Touched(notifier.version, latest) \cap c.muted = {}
        BY <2>3, <3>2, <3>5 DEF FlagFits
      <4> QED
        BY <1>2, <2>4, <2>6, <3>2, <3>3, <3>5, <4>1 DEF ToCome
    <3> QED
      BY <3>2, <3>4, <3>5
  <2>11. NewsFits(d)'
    <3>1. Live(d)' => Live(c)
      BY <1>1, <2>4 DEF Live, Telling
    <3>2. Live(d)' => notifier'.has_run /\ notifier'.seen >= notifier'.version /\ ~worker'.gap
      BY <1>2, <1>4, <1>5, <2>10, <3>1
    <3>3. c.initial /\ ~c.excused => Live(c)
      BY DEF Live
    <3>4. Telling /\ ~c.late /\ ~c.excused => Live(c)
      BY DEF Live
    <3>5. d.initial /\ ~d.excused => d.owed = d.deliver \cup d.accumulated \cup ToCome(d)'
      BY <2>3, <2>4, <2>10, <3>3 DEF NewsFits
    <3>6. Telling /\ ~d.late /\ ~d.excused =>
              /\ d.deliver \subseteq 1..target.at
              /\ d.accumulated \cup ToCome(d)' = Touched(target.at, latest) \ d.muted
      BY <2>3, <2>4, <2>10, <3>4 DEF NewsFits
    <3>7. Touched(target.at, latest)' = Touched(target.at, latest) /\ (Telling' <=> Telling)
      BY <1>1 DEF Touched, Telling
    <3> QED
      BY <1>1, <3>2, <3>5, <3>6, <3>7 DEF NewsFits
  <2> QED
    BY <2>1, <2>2, <2>4, <2>5, <2>9, <2>11 DEF CallbackInv
<1>10. LoopFits' /\ TokensDiffer' /\ ErrorLoopFits'
  BY <1>1, <1>3, <1>4, <1>9, LoopStays DEF IInv
<1>11. PassedAreTold'
  BY <1>1, <1>4, <1>9, PassedStays DEF IInv
<1> QED
  BY <1>4, <1>6, <1>7, <1>8, <1>9, <1>10, <1>11 DEF IInv


-----------------------------------------------------------------------------
(* What is packaged for the target                                           *)

PackagedAs(n, m) ==
    /\ m \in NotifierRecord
    /\ DOMAIN m.callbacks = DOMAIN n.callbacks /\ Len(m.callbacks) = Len(n.callbacks)
    /\ m.index = n.index /\ m.count = Len(n.callbacks) /\ m.have = n.have
    /\ m.version = n.version /\ m.has_run = n.has_run /\ m.seen = n.seen /\ m.new = n.new

LEMMA RepackagedFields ==
    ASSUME NEW n \in NotifierRecord, NEW m, Repackaged(n, m)
    PROVE  PackagedAs(n, m)
BY DEF Repackaged, Retold, PackagedAs, NotifierRecord

LEMMA DeliveredFacts ==
    ASSUME StateFits, NEW n \in NotifierRecord, NEW m, m = Packaged(n) \/ m \in Delivered(n)
    PROVE  /\ PackagedAs(n, m)
           /\ \A i \in DOMAIN n.callbacks :
                 m.callbacks[i] =
                     [n.callbacks[i] EXCEPT
                         !.deliver = n.callbacks[i].accumulated,
                         !.accumulated = {}, !.late = FALSE,
                         !.excused = @ \/ (~n.callbacks[i].initial /\ (worker.gap \/ n.seen < n.version))]
<1>1. PICK p : p = Packaged(n)
  OBVIOUS
<1>2. /\ Repackaged(n, p)
      /\ \A i \in DOMAIN n.callbacks :
            p.callbacks[i] =
                [n.callbacks[i] EXCEPT
                    !.deliver = n.callbacks[i].accumulated,
                    !.accumulated = {}, !.late = FALSE,
                    !.excused = @ \/ (~n.callbacks[i].initial /\ (worker.gap \/ n.seen < n.version))]
  BY <1>1, PackagedFacts
<1>3. PackagedAs(n, p)
  BY <1>2, RepackagedFields
<1>4. PackagedAs(n, m) /\ m.callbacks = p.callbacks
  <2>1. CASE m = p
    BY <1>3, <2>1
  <2>2. CASE m \in Delivered(n)
    <3>1. PICK w : /\ w \in IF n.view THEN BOOLEAN ELSE {n.wants}
                   /\ m = [p EXCEPT !.wants = w]
      BY <1>1, <2>2 DEF Delivered
    <3>2. w \in BOOLEAN
      BY <3>1 DEF NotifierRecord
    <3> QED
      BY <1>3, <3>1, <3>2 DEF PackagedAs, NotifierRecord
  <2> QED
    BY <1>1, <2>1, <2>2
<1> QED
  BY <1>2, <1>4

\* A package is delivered at the version of the last handover; only callbacks
\* that know a version, or whose rows are those of that version, count on it.
LEMMA PackagedKeeps ==
    ASSUME IInv, target.pc \in {"idle", "waiting"}, notifier.has_run,
           notifier' = Packaged(notifier) \/ notifier' \in Delivered(notifier),
           NEW phase \in {"before", "after"}, NEW then \in {"read", "write"},
           target' = [AtRest EXCEPT !.pc = phase, !.then = then, !.at = notifier.version],
           UNCHANGED <<latest, touching, suppressed, realm, tokens, worker, skip, async_error>>,
           writing' \in BOOLEAN, woken' \in BOOLEAN, signalled' \in BOOLEAN,
           notifier.have /\ (writing' \/ then = "write") => notifier.version = latest,
           suppressed = {}, phase = "after" /\ then = "write" => writing'
    PROVE  IInv'
<1>1. StateFits /\ notifier \in NotifierRecord
  BY DEF IInv, StateFits
<1>2. /\ PackagedAs(notifier, notifier')
      /\ \A i \in DOMAIN notifier.callbacks :
            notifier'.callbacks[i] =
                [notifier.callbacks[i] EXCEPT
                    !.deliver = notifier.callbacks[i].accumulated,
                    !.accumulated = {}, !.late = FALSE,
                    !.excused = @ \/ (~notifier.callbacks[i].initial
                                        /\ (worker.gap \/ notifier.seen < notifier.version))]
  <2>1. PICK m : m = notifier'
    OBVIOUS
  <2>2. m = Packaged(notifier) \/ m \in Delivered(notifier)
    BY <2>1
  <2>3. /\ PackagedAs(notifier, m)
        /\ \A i \in DOMAIN notifier.callbacks :
              m.callbacks[i] =
                  [notifier.callbacks[i] EXCEPT
                      !.deliver = notifier.callbacks[i].accumulated,
                      !.accumulated = {}, !.late = FALSE,
                      !.excused = @ \/ (~notifier.callbacks[i].initial
                                          /\ (worker.gap \/ notifier.seen < notifier.version))]
    BY <1>1, <2>2, DeliveredFacts
  <2> QED
    BY <2>1, <2>3
<1>3. /\ target' \in Standing /\ target'.pc = phase /\ target'.then = then
      /\ target'.at = notifier.version /\ target'.calling = 0 /\ ~target'.shortened
  BY NumberFacts DEF IInv, AtRest, NoToken, Standing, Loops
<1>4. /\ notifier.index = NoCallback /\ notifier'.index = NoCallback
      /\ notifier'.version = notifier.version /\ notifier'.has_run = notifier.has_run
      /\ notifier'.seen = notifier.seen /\ notifier'.new = notifier.new
      /\ notifier'.have = notifier.have /\ notifier' \in NotifierRecord
      /\ DOMAIN notifier'.callbacks = DOMAIN notifier.callbacks
      /\ Len(notifier'.callbacks) = Len(notifier.callbacks)
      /\ notifier'.count = Len(notifier.callbacks)
  BY <1>2 DEF PackagedAs, IInv, LoopFits
<1>5. ASSUME NEW i \in DOMAIN notifier.callbacks
      PROVE  /\ notifier'.callbacks[i].token = notifier.callbacks[i].token
             /\ notifier'.callbacks[i].late = FALSE
             /\ CallbackInv(notifier.callbacks[i])'
  <2>1. PICK c : c = notifier.callbacks[i]
    OBVIOUS
  <2>2. PICK d : d = notifier'.callbacks[i]
    OBVIOUS
  <2>3. c \in CallbackRecord /\ CallbackFits(c) /\ FlagFits(c) /\ NewsFits(c)
    BY <2>1, CallbackFacts
  <2>4. /\ d.token = c.token /\ d.deliver = c.accumulated /\ d.initial = c.initial
        /\ d.owed = c.owed /\ d.muted = c.muted /\ d.late = FALSE /\ d.skip = c.skip
        /\ d.accumulated = {}
        /\ d.excused <=> c.excused \/ (~c.initial /\ (worker.gap \/ notifier.seen < notifier.version))
    <3>1. PICK acc, ex : /\ acc = c.accumulated
                         /\ ex = (c.excused \/ (~c.initial /\ (worker.gap \/ notifier.seen < notifier.version)))
      OBVIOUS
    <3>2. d = [c EXCEPT !.deliver = acc, !.accumulated = {}, !.late = FALSE, !.excused = ex]
      BY <1>2, <2>1, <2>2, <3>1
    <3>3. /\ d.token = c.token /\ d.deliver = acc /\ d.initial = c.initial
          /\ d.owed = c.owed /\ d.muted = c.muted /\ d.late = FALSE /\ d.skip = c.skip
          /\ d.accumulated = {} /\ d.excused = ex
      BY <2>3, <3>2 DEF CallbackRecord
    <3> QED
      BY <3>1, <3>3
  <2>5. CallbackFits(d)'
    <3>1. c.accumulated \subseteq 1..latest
      BY <2>3, NumberFacts DEF IInv, CallbackFits
    <3>2. /\ c.token \in 1..tokens /\ c.owed \subseteq 1..latest /\ c.muted \subseteq 1..latest
          /\ {} \subseteq 1..notifier.version
      BY <2>3 DEF CallbackFits
    <3>3. ~d.late /\ target'.pc \notin {"idle", "waiting", "error"} /\ notifier'.has_run
      BY <1>3, <1>4, <2>4
    <3> QED
      BY <1>4, <2>4, <3>1, <3>2, <3>3 DEF CallbackFits
  <2>6. FlagFits(d)'
    BY <1>4, <2>3, <2>4 DEF FlagFits, SkipEnd, Touched
  <2>7. NewsFits(d)'
    <3>1. SUFFICES ASSUME ~d.excused
                   PROVE  NewsFits(d)'
      BY DEF NewsFits, Live
    <3>2. ~c.excused /\ ~worker.gap /\ notifier.seen >= notifier.version
      BY <2>3, <2>4, <3>1, NumberFacts DEF IInv, NewsFits, Live
    <3>3. ToCome(d)' = ToCome(c) /\ ToCome(c) = Touched(notifier.version, latest) \ c.muted
      BY <1>4, <2>4 DEF ToCome, Touched
    <3>4. c.deliver = {} /\ c.accumulated \subseteq 1..notifier.version
      BY <2>3, <3>2 DEF CallbackFits
    <3>5. d.initial => d.owed = d.deliver \cup d.accumulated \cup ToCome(d)'
      BY <2>3, <2>4, <3>2, <3>3, <3>4 DEF NewsFits
    <3>6. /\ d.deliver \subseteq 1..target'.at
          /\ d.accumulated \cup ToCome(d)' = Touched(target'.at, latest) \ d.muted
      BY <1>3, <2>4, <3>3, <3>4
    <3>7. Touched(target.at, latest)' = Touched(target'.at, latest)
      BY DEF Touched
    <3> QED
      BY <1>4, <3>2, <3>5, <3>6, <3>7 DEF NewsFits
  <2> QED
    BY <2>1, <2>2, <2>4, <2>5, <2>6, <2>7 DEF CallbackInv
<1>6. StateFits'
  BY <1>3, <1>4, NumberFacts DEF IInv, StateFits
<1>7. RoundFits'
  BY <1>4 DEF IInv, RoundFits, RoundEnd, Touched
<1>8. WritersWaited'
  BY <1>3, <1>4 DEF WritersWaited, Holding, OwnWrite, InCallback
<1>9. LoopFits'
  <2>1. /\ Len(notifier.callbacks) \in Nat
        /\ DOMAIN notifier.callbacks = 1..Len(notifier.callbacks)
        /\ notifier.callbacks = <<>> <=> Len(notifier.callbacks) = 0
        /\ notifier'.callbacks = <<>> <=> Len(notifier'.callbacks) = 0
    BY <1>1, <1>4, CallbacksFacts
  <2>2. NoCallback \in NoCallback..(Len(notifier.callbacks) - 1)
    BY <2>1 DEF NoCallback
  <2>3. notifier.have <=> notifier.callbacks # <<>>
    BY DEF IInv, LoopFits
  <2>4. \A i \in DOMAIN notifier'.callbacks :
           ~notifier'.callbacks[i].late
    BY <1>4, <1>5, Zenon
  <2>5. notifier'.count \in 0..Len(notifier'.callbacks) /\ notifier'.count \in Nat
    BY <1>4, <2>1
  <2>6. \A i \in DOMAIN notifier'.callbacks : ~(i > notifier'.count)
    BY <1>4, <2>1
  <2> QED
    BY <1>3, <1>4, <2>1, <2>2, <2>3, <2>4, <2>5, <2>6 DEF LoopFits, Telling
<1>10. TokensDiffer'
  BY <1>4, <1>5 DEF IInv, TokensDiffer
<1>11. ErrorLoopFits'
  BY <1>3 DEF ErrorLoopFits
<1>12. PassedAreTold'
  <2>1. \A i \in DOMAIN notifier.callbacks : ~(i <= NoCallback + 1)
    BY <1>1, CallbacksFacts DEF NoCallback
  <2> QED
    BY <1>3, <1>4, <2>1 DEF PassedAreTold
<1> QED
  BY <1>4, <1>5, <1>6, <1>7, <1>8, <1>9, <1>10, <1>11, <1>12 DEF IInv


\* Between deliveries the index is at rest, and nothing is being told.
LEMMA RestKeeps ==
    ASSUME IInv, target.pc \in {"idle", "waiting"}, target'.pc \in {"idle", "waiting"},
           target' \in Standing, target'.at <= latest, target'.calling = NoToken,
           ~target'.shortened, suppressed = {},
           UNCHANGED <<latest, touching, suppressed, tokens, worker, skip, async_error>>,
           realm' \in 0..latest, writing' \in BOOLEAN, woken' \in BOOLEAN, signalled' \in BOOLEAN,
           WritersWaited', notifier' \in NotifierRecord,
           DOMAIN notifier'.callbacks = DOMAIN notifier.callbacks,
           Len(notifier'.callbacks) = Len(notifier.callbacks),
           notifier'.index = notifier.index, notifier'.have = notifier.have,
           notifier'.version = notifier.version, notifier'.has_run = notifier.has_run,
           notifier'.seen = notifier.seen, notifier'.new = notifier.new,
           \A i \in DOMAIN notifier.callbacks :
               notifier'.callbacks[i].token = notifier.callbacks[i].token
                   /\ CallbackInv(notifier.callbacks[i])'
    PROVE  IInv'
<1>1. StateFits'
  BY NumberFacts DEF IInv, StateFits, NoToken
<1>2. RoundFits'
  BY DEF IInv, RoundFits, RoundEnd, Touched
<1>3. LoopFits'
  <2>1. /\ notifier.callbacks = <<>> <=> Len(notifier.callbacks) = 0
        /\ notifier'.callbacks = <<>> <=> Len(notifier'.callbacks) = 0
    BY <1>1, CallbacksFacts DEF IInv, StateFits
  <2>2. /\ notifier.index = NoCallback /\ (notifier.have <=> notifier.callbacks # <<>>)
        /\ notifier.index \in NoCallback..(Len(notifier.callbacks) - 1)
    BY DEF IInv, LoopFits
  <2> QED
    BY <2>1, <2>2 DEF LoopFits, Telling, Loops
<1>4. TokensDiffer'
  BY DEF IInv, TokensDiffer
<1>5. ErrorLoopFits' /\ PassedAreTold'
  BY DEF ErrorLoopFits, PassedAreTold
<1>6. \A i \in DOMAIN notifier'.callbacks : CallbackInv(notifier.callbacks[i])'
  OBVIOUS
<1> QED
  BY <1>1, <1>2, <1>3, <1>4, <1>5, <1>6 DEF IInv

LEMMA QuietKeeps ==
    ASSUME IInv, target.pc \in {"idle", "waiting"}, target'.pc \in {"idle", "waiting"},
           target' \in Standing, target'.at <= latest, target'.calling = NoToken,
           ~target'.shortened, suppressed = {},
           UNCHANGED <<latest, touching, suppressed, tokens, worker, skip, async_error, notifier>>,
           realm' \in 0..latest, writing' \in BOOLEAN, woken' \in BOOLEAN, signalled' \in BOOLEAN,
           WritersWaited'
    PROVE  IInv'
<1>1. ASSUME NEW i \in DOMAIN notifier.callbacks
      PROVE  CallbackInv(notifier.callbacks[i])'
  <2>1. PICK c : c = notifier.callbacks[i]
    OBVIOUS
  <2>2. CallbackFits(c) /\ FlagFits(c) /\ NewsFits(c)
    BY <2>1, CallbackFacts
  <2>3. CallbackFits(c)'
    BY <2>2 DEF CallbackFits
  <2>4. FlagFits(c)'
    BY <2>2 DEF FlagFits, SkipEnd, Touched
  <2>5. NewsFits(c)'
    BY <2>2 DEF NewsFits, Live, ToCome, Telling, Touched
  <2> QED
    BY <2>1, <2>3, <2>4, <2>5 DEF CallbackInv
<1>2. notifier' \in NotifierRecord
  BY DEF IInv, StateFits
<1> QED
  BY <1>1, <1>2, RestKeeps

\* A dropped package: who loses changes by it is excused.
LEMMA DiscardedKeeps ==
    ASSUME IInv, target.pc = "idle", notifier.has_run, OutOfDate(notifier), suppressed = {},
           notifier' = Discarded(notifier),
           UNCHANGED <<latest, touching, suppressed, realm, writing, tokens, worker, skip, async_error, target>>,
           woken' \in BOOLEAN, signalled' \in BOOLEAN
    PROVE  IInv'
<1>1. StateFits /\ notifier \in NotifierRecord
  BY DEF IInv, StateFits
<1>2. /\ Repackaged(notifier, notifier')
      /\ \A i \in DOMAIN notifier.callbacks :
            notifier'.callbacks[i] =
                [notifier.callbacks[i] EXCEPT
                    !.deliver = notifier.callbacks[i].accumulated,
                    !.accumulated = {}, !.late = FALSE,
                    !.excused = @ \/ (notifier.callbacks[i].accumulated # {} /\ notifier.version < realm)]
  <2>1. PICK m : m = Discarded(notifier)
    OBVIOUS
  <2>2. /\ Repackaged(notifier, m)
        /\ \A i \in DOMAIN notifier.callbacks :
              m.callbacks[i] =
                  [notifier.callbacks[i] EXCEPT
                      !.deliver = notifier.callbacks[i].accumulated,
                      !.accumulated = {}, !.late = FALSE,
                      !.excused = @ \/ (notifier.callbacks[i].accumulated # {} /\ notifier.version < realm)]
    BY <1>1, <2>1, DiscardedFacts
  <2>3. notifier' = m
    BY <2>1
  <2> QED
    BY <2>2, <2>3
<1>3. PackagedAs(notifier, notifier')
  <2>1. PICK m : m = notifier'
    OBVIOUS
  <2>2. PackagedAs(notifier, m)
    BY <1>1, <1>2, <2>1, RepackagedFields
  <2> QED
    BY <2>1, <2>2
<1>4. /\ notifier' \in NotifierRecord
      /\ DOMAIN notifier'.callbacks = DOMAIN notifier.callbacks
      /\ Len(notifier'.callbacks) = Len(notifier.callbacks)
      /\ notifier'.index = notifier.index
      /\ notifier'.version = notifier.version /\ notifier'.has_run = notifier.has_run
      /\ notifier'.seen = notifier.seen /\ notifier'.new = notifier.new
      /\ notifier'.have = notifier.have
  BY <1>3 DEF PackagedAs
<1>5. ASSUME NEW i \in DOMAIN notifier.callbacks
      PROVE  /\ notifier'.callbacks[i].token = notifier.callbacks[i].token
             /\ CallbackInv(notifier.callbacks[i])'
  <2>1. PICK c : c = notifier.callbacks[i]
    OBVIOUS
  <2>2. PICK d : d = notifier'.callbacks[i]
    OBVIOUS
  <2>3. c \in CallbackRecord /\ CallbackFits(c) /\ FlagFits(c) /\ NewsFits(c)
    BY <2>1, CallbackFacts
  <2>4. /\ d.token = c.token /\ d.deliver = c.accumulated /\ d.initial = c.initial
        /\ d.owed = c.owed /\ d.muted = c.muted /\ d.late = FALSE /\ d.skip = c.skip
        /\ d.accumulated = {}
        /\ d.excused <=> c.excused \/ c.accumulated # {}
    <3>1. PICK acc, ex : /\ acc = c.accumulated
                         /\ ex = (c.excused \/ (c.accumulated # {} /\ notifier.version < realm))
      OBVIOUS
    <3>2. d = [c EXCEPT !.deliver = acc, !.accumulated = {}, !.late = FALSE, !.excused = ex]
      BY <1>2, <2>1, <2>2, <3>1
    <3>3. /\ d.token = c.token /\ d.deliver = acc /\ d.initial = c.initial
          /\ d.owed = c.owed /\ d.muted = c.muted /\ d.late = FALSE /\ d.skip = c.skip
          /\ d.accumulated = {} /\ d.excused = ex
      BY <2>3, <3>2 DEF CallbackRecord
    <3> QED
      BY <3>1, <3>3 DEF OutOfDate
  <2>5. CallbackFits(d)'
    <3>1. c.accumulated \subseteq 1..latest
      BY <2>3, NumberFacts DEF IInv, CallbackFits
    <3>2. /\ c.token \in 1..tokens /\ c.owed \subseteq 1..latest /\ c.muted \subseteq 1..latest
          /\ {} \subseteq 1..notifier.version
      BY <2>3 DEF CallbackFits
    <3>3. ~d.late /\ notifier'.has_run /\ (d.excused \/ d.deliver = {})
      BY <1>4, <2>4
    <3> QED
      BY <1>4, <2>4, <3>1, <3>2, <3>3 DEF CallbackFits
  <2>6. FlagFits(d)'
    BY <1>4, <2>3, <2>4 DEF FlagFits, SkipEnd, Touched
  <2>7. NewsFits(d)'
    <3>1. SUFFICES ASSUME ~d.excused, d.initial
                   PROVE  NewsFits(d)'
      BY DEF NewsFits, Live, Telling
    <3>2. Live(c) /\ c.initial /\ ~c.excused /\ c.accumulated = {}
      BY <2>3, <2>4, <3>1 DEF Live
    <3>3. c.deliver = {}
      BY <2>3, <3>2 DEF CallbackFits
    <3>4. ToCome(d)' = ToCome(c)
      BY <1>4, <2>4 DEF ToCome, Touched
    <3>5. d.owed = d.deliver \cup d.accumulated \cup ToCome(d)'
      BY <2>3, <2>4, <3>2, <3>3, <3>4 DEF NewsFits
    <3> QED
      BY <1>4, <2>3, <3>2, <3>5 DEF NewsFits, Telling
  <2> QED
    BY <2>1, <2>2, <2>4, <2>5, <2>6, <2>7 DEF CallbackInv
<1>6. WritersWaited'
  BY <1>4 DEF IInv, WritersWaited, Holding, OwnWrite, InCallback
<1>7. /\ target' \in Standing /\ target'.at <= latest /\ realm' \in 0..latest /\ writing' \in BOOLEAN
      /\ target'.calling = NoToken /\ ~target'.shortened
  BY DEF IInv, StateFits, LoopFits
<1> QED
  BY <1>4, <1>5, <1>6, <1>7, RestKeeps

\* Nobody has been told anything yet when the worker could not open the file.
LEMMA BeginErrorsKeeps ==
    ASSUME IInv, target.pc = "idle", async_error, NEW then \in {"read", "write"},
           notifier' = deliver_error(notifier),
           target' = [AtRest EXCEPT !.pc = "error", !.then = then, !.at = realm'],
           UNCHANGED <<latest, touching, suppressed, tokens, worker, skip, async_error>>,
           suppressed = {}, then = "write" => writing',
           realm' \in 0..latest, writing' \in BOOLEAN, woken' \in BOOLEAN, signalled' \in BOOLEAN
    PROVE  IInv'
<1>1. notifier \in NotifierRecord /\ ~notifier.has_run
  BY DEF IInv, StateFits, RoundFits
<1>2. /\ Retold(notifier, notifier')
      /\ notifier' = [notifier EXCEPT !.callbacks = notifier'.callbacks,
                                      !.count = Len(notifier.callbacks)]
      /\ \A i \in DOMAIN notifier.callbacks :
            notifier'.callbacks[i] = [notifier.callbacks[i] EXCEPT !.late = FALSE]
  <2>1. PICK m : m = deliver_error(notifier)
    OBVIOUS
  <2>2. /\ Retold(notifier, m)
        /\ m = [notifier EXCEPT !.callbacks = m.callbacks, !.count = Len(notifier.callbacks)]
        /\ \A i \in DOMAIN notifier.callbacks :
              m.callbacks[i] = [notifier.callbacks[i] EXCEPT !.late = FALSE]
    BY <1>1, <2>1, DeliverErrorFacts
  <2>3. notifier' = m
    BY <2>1
  <2> QED
    BY <2>2, <2>3
<1>3. /\ notifier' \in NotifierRecord
      /\ DOMAIN notifier'.callbacks = DOMAIN notifier.callbacks
      /\ Len(notifier'.callbacks) = Len(notifier.callbacks)
      /\ notifier'.index = NoCallback /\ notifier'.count = Len(notifier.callbacks)
      /\ notifier'.version = notifier.version /\ ~notifier'.has_run
      /\ notifier'.seen = notifier.seen /\ notifier'.new = notifier.new
      /\ notifier'.have = notifier.have
  BY <1>1, <1>2 DEF Retold, NotifierRecord, IInv, LoopFits
<1>4. /\ target' \in Standing /\ target'.pc = "error"
      /\ target'.at = realm' /\ target'.calling = 0 /\ ~target'.shortened
  <2>1. realm' \in Nat
    BY NumberFacts DEF IInv
  <2> QED
    BY <2>1 DEF AtRest, NoToken, Standing, Loops
<1>5. ASSUME NEW i \in DOMAIN notifier.callbacks
      PROVE  /\ notifier'.callbacks[i].token = notifier.callbacks[i].token
             /\ notifier'.callbacks[i].token # 0
             /\ ~notifier'.callbacks[i].late
             /\ CallbackInv(notifier.callbacks[i])'
  <2>1. PICK c : c = notifier.callbacks[i]
    OBVIOUS
  <2>2. PICK d : d = notifier'.callbacks[i]
    OBVIOUS
  <2>3. c \in CallbackRecord /\ CallbackFits(c) /\ FlagFits(c) /\ NewsFits(c)
    BY <2>1, CallbackFacts
  <2>4. /\ d.token = c.token /\ d.deliver = c.deliver /\ d.initial = c.initial
        /\ d.owed = c.owed /\ d.muted = c.muted /\ d.late = FALSE /\ d.skip = c.skip
        /\ d.accumulated = c.accumulated /\ d.excused = c.excused
    <3>1. d = [c EXCEPT !.late = FALSE]
      BY <1>2, <2>1, <2>2
    <3> QED
      BY <2>3, <3>1 DEF CallbackRecord
  <2>5. /\ ~d.late /\ ~d.initial /\ d.deliver = {} /\ c.token \in 1..tokens
    BY <1>1, <2>3, <2>4 DEF CallbackFits
  <2>6. CallbackFits(d)'
    BY <1>3, <2>3, <2>4, <2>5 DEF CallbackFits
  <2>7. FlagFits(d)'
    BY <1>3 DEF FlagFits
  <2>8. NewsFits(d)'
    BY <1>4, <2>5 DEF NewsFits, Live, Telling
  <2>9. c.token # 0
    BY <2>5, NumberFacts DEF IInv
  <2> QED
    BY <2>1, <2>2, <2>4, <2>5, <2>6, <2>7, <2>8, <2>9 DEF CallbackInv
<1>6. StateFits'
  BY <1>3, <1>4, NumberFacts DEF IInv, StateFits
<1>7. RoundFits'
  BY <1>1, <1>3 DEF IInv, RoundFits, RoundEnd, Touched
<1>8. WritersWaited'
  BY <1>4 DEF WritersWaited, Holding, OwnWrite, InCallback
<1>9. LoopFits'
  <2>1. /\ Len(notifier.callbacks) \in Nat
        /\ DOMAIN notifier.callbacks = 1..Len(notifier.callbacks)
        /\ notifier.callbacks = <<>> <=> Len(notifier.callbacks) = 0
        /\ notifier'.callbacks = <<>> <=> Len(notifier'.callbacks) = 0
    BY <1>1, <1>3, CallbacksFacts
  <2>2. NoCallback \in NoCallback..(Len(notifier.callbacks) - 1)
    BY <2>1 DEF NoCallback
  <2>3. notifier.have <=> notifier.callbacks # <<>>
    BY DEF IInv, LoopFits
  <2>4. \A i \in DOMAIN notifier'.callbacks : ~notifier'.callbacks[i].late
    BY <1>3, <1>5, Zenon
  <2>5. notifier'.count \in 0..Len(notifier'.callbacks)
    BY <1>3, <2>1
  <2>6. \A i \in DOMAIN notifier'.callbacks : ~(i > notifier'.count)
    BY <1>3, <2>1
  <2> QED
    BY <1>3, <1>4, <2>1, <2>2, <2>3, <2>4, <2>5, <2>6 DEF LoopFits, Telling
<1>10. TokensDiffer'
  BY <1>3, <1>5 DEF IInv, TokensDiffer
<1>11. ErrorLoopFits'
  <2>1. target'.calling \notin Tokens(notifier')
    BY <1>3, <1>4, <1>5, Zenon DEF Tokens
  <2> QED
    BY <1>3, <2>1 DEF ErrorLoopFits
<1>12. PassedAreTold'
  BY <1>4 DEF PassedAreTold
<1> QED
  BY <1>3, <1>5, <1>6, <1>7, <1>8, <1>9, <1>10, <1>11, <1>12 DEF IInv


-----------------------------------------------------------------------------
(* The target comes to the newest version                                    *)

LEMMA NotifyKeeps ==
    ASSUME IInv, Notify
    PROVE  IInv'
<1>1. /\ target.pc = "idle" /\ signalled' = FALSE /\ suppressed = {}
      /\ UNCHANGED <<latest, touching, suppressed, writing, tokens, worker, skip, async_error, woken>>
  BY DEF Notify, Idle, fileVars, workerVars
<1>2. /\ signalled' \in BOOLEAN /\ woken' \in BOOLEAN /\ writing' \in BOOLEAN
      /\ realm \in 0..latest /\ latest \in 0..latest
      /\ target \in Standing /\ target.at <= latest
      /\ target.calling = NoToken /\ ~target.shortened
  <2>1. latest \in 0..latest
    BY NumberFacts DEF IInv
  <2>2. target.calling = NoToken /\ ~target.shortened
    BY <1>1 DEF IInv, LoopFits
  <2>3. /\ woken \in BOOLEAN /\ writing \in BOOLEAN /\ realm \in 0..latest
        /\ target \in Standing /\ target.at <= latest
    BY DEF IInv, StateFits
  <2>4. signalled' \in BOOLEAN
    BY <1>1
  <2> QED
    BY <1>1, <2>1, <2>2, <2>3, <2>4
<1>3. ASSUME UNCHANGED <<notifier, target>>, realm' \in 0..latest
      PROVE  IInv'
  <2>1. WritersWaited'
    BY <1>1, <1>3 DEF IInv, WritersWaited, Holding, OwnWrite, InCallback
  <2> QED
    BY <1>1, <1>2, <1>3, <2>1, QuietKeeps
<1>4. ASSUME async_error, BeginErrors("read"), realm' \in 0..latest
      PROVE  IInv'
  <2>1. "read" \in {"read", "write"} /\ "read" # "write"
    OBVIOUS
  <2>2. /\ notifier' = deliver_error(notifier)
        /\ target' = [AtRest EXCEPT !.pc = "error", !.then = "read", !.at = realm']
    BY <1>4 DEF BeginErrors, Begin
  <2> QED
    BY <1>1, <1>2, <1>4, <2>1, <2>2, BeginErrorsKeeps
<1>5. ASSUME ~writing, notifier.has_run, notifier' \in Delivered(notifier), UNCHANGED realm,
             NEW phase \in {"before", "after"}, Begin(phase, "read", notifier.version)
      PROVE  IInv'
  <2>1. "read" \in {"read", "write"} /\ "read" # "write" /\ target.pc \in {"idle", "waiting"}
    BY <1>1
  <2>2. target' = [AtRest EXCEPT !.pc = phase, !.then = "read", !.at = notifier.version]
    BY <1>5 DEF Begin
  <2>3. ~writing'
    BY <1>1, <1>5
  <2> QED
    BY <1>1, <1>2, <1>5, <2>1, <2>2, <2>3, PackagedKeeps
<1>6. CASE writing
  BY <1>2, <1>3, <1>6 DEF Notify
<1>7. CASE ~writing /\ process_available_async
  <2>1. UNCHANGED realm
    BY <1>7 DEF process_available_async
  <2>2. CASE async_error /\ BeginErrors("read")
    BY <1>2, <1>4, <2>1, <2>2
  <2>3. CASE /\ ~async_error /\ notifier.has_run /\ notifier.version = realm
             /\ notifier' \in Delivered(notifier)
             /\ Begin("after", "read", realm)
    <3>1. Begin("after", "read", notifier.version) /\ "after" \in {"before", "after"}
      BY <2>3
    <3> QED
      BY <1>5, <1>7, <2>1, <2>3, <3>1
  <2>4. CASE UNCHANGED <<notifier, target>>
    BY <1>2, <1>3, <2>1, <2>4
  <2> QED
    BY <1>7, <2>2, <2>3, <2>4 DEF process_available_async
<1>8. CASE ~writing /\ advance_to_ready
  <2>1. CASE async_error /\ realm' = latest /\ BeginErrors("read")
    BY <1>2, <1>4, <2>1
  <2>2. CASE realm' = latest /\ UNCHANGED <<notifier, target>>
    BY <1>2, <1>3, <2>2
  <2>3. CASE /\ ~async_error /\ notifier.has_run /\ OutOfDate(notifier)
             /\ notifier' = Discarded(notifier)
             /\ UNCHANGED <<realm, target>>
    BY <1>1, <1>2, <2>3, DiscardedKeeps
  <2>4. CASE /\ ~async_error /\ notifier.has_run /\ ~OutOfDate(notifier)
             /\ notifier' \in Delivered(notifier)
             /\ Begin(IF notifier.version = realm THEN "after" ELSE "before", "read", notifier.version)
             /\ UNCHANGED realm
    <3>1. PICK phase : phase = IF notifier.version = realm THEN "after" ELSE "before"
      OBVIOUS
    <3>2. phase \in {"before", "after"}
      BY <3>1
    <3>3. Begin(phase, "read", notifier.version)
      BY <2>4, <3>1
    <3> QED
      BY <1>5, <1>8, <2>4, <3>2, <3>3
  <2> QED
    BY <1>8, <2>1, <2>2, <2>3, <2>4 DEF advance_to_ready
<1> QED
  BY <1>6, <1>7, <1>8 DEF Notify

LEMMA ToLatestKeeps ==
    ASSUME IInv, NEW then \in {"read", "write"}, ToLatest(then)
    PROVE  IInv'
<1>1. /\ target.pc = "idle" /\ ~writing
      /\ UNCHANGED <<latest, touching, suppressed, tokens, worker, skip, async_error, signalled>>
  BY DEF ToLatest, Idle, fileVars, workerVars
<1>n. suppressed = {}
  BY <1>1 DEF IInv, StateFits
<1>2. latest \in Nat /\ latest \in 0..latest /\ realm \in 0..latest /\ signalled' \in BOOLEAN
  BY <1>1, NumberFacts DEF IInv, StateFits
<1>3. CASE /\ async_error
           /\ realm' = latest /\ writing' = (then = "write")
           /\ BeginErrors(then)
           /\ UNCHANGED woken
  <2>1. writing' \in BOOLEAN /\ woken' \in BOOLEAN
    BY <1>3 DEF IInv, StateFits
  <2> QED
    BY <1>1, <1>n, <1>2, <1>3, <2>1, BeginErrorsKeeps DEF BeginErrors, Begin
<1>4. CASE /\ ~async_error
           /\ target' = [AtRest EXCEPT !.pc = "waiting", !.then = then, !.want = latest]
           /\ woken' = (woken \/ ~IsReady(notifier, latest))
           /\ UNCHANGED <<realm, writing, notifier>>
  <2>1. /\ target' \in Standing /\ target'.pc = "waiting" /\ target'.want = latest
        /\ target'.at <= latest /\ target'.calling = NoToken /\ ~target'.shortened
    <3>1. PICK v \in Nat : v = latest
      BY <1>2
    <3>2. target' = [AtRest EXCEPT !.pc = "waiting", !.then = then, !.want = v]
      BY <1>4, <3>1
    <3>3. /\ target' \in Standing /\ target'.pc = "waiting" /\ target'.want = v
          /\ target'.at = 0 /\ target'.calling = NoToken /\ ~target'.shortened
      BY <3>2 DEF AtRest, Standing, NoToken, Loops
    <3> QED
      BY <1>2, <3>1, <3>3
  <2>2. WritersWaited'
    BY <1>1, <1>4, <2>1 DEF WritersWaited, Holding, OwnWrite, InCallback
  <2>3. woken' \in BOOLEAN /\ writing' \in BOOLEAN
    BY <1>4 DEF IInv, StateFits
  <2>4. target.pc \in {"idle", "waiting"} /\ target'.pc \in {"idle", "waiting"}
    BY <1>1, <2>1
  <2> QED
    BY <1>1, <1>n, <1>2, <1>4, <2>1, <2>2, <2>3, <2>4, QuietKeeps
<1> QED
  BY <1>3, <1>4 DEF ToLatest

LEMMA EndWaitKeeps ==
    ASSUME IInv, EndWait
    PROVE  IInv'
<1>1. /\ target.pc = "waiting" /\ IsReady(notifier, target.want)
      /\ UNCHANGED <<latest, touching, suppressed, tokens, worker, skip, async_error, woken, signalled>>
  BY DEF EndWait, fileVars, workerVars
<1>n. suppressed = {}
  BY <1>1 DEF IInv, StateFits
<1>2. /\ latest \in Nat /\ latest \in 0..latest /\ realm \in 0..latest
      /\ signalled' \in BOOLEAN /\ woken' \in BOOLEAN
      /\ target.then \in {"read", "write"} /\ target.want \in Nat
      /\ notifier.version \in Nat /\ notifier.version <= latest
      /\ notifier \in NotifierRecord
  BY <1>1, NumberFacts DEF IInv, StateFits, Standing
<1>3. CASE notifier.has_run /\ notifier.version >= target.want
  <2>1. PICK phase, then, straight :
          /\ straight = (target.then = "write" /\ latest = realm)
          /\ phase = IF straight THEN "after" ELSE "before"
          /\ then = target.then
    OBVIOUS
  <2>2. /\ notifier' = Packaged(notifier) \/ notifier' \in Delivered(notifier)
        /\ target' = [AtRest EXCEPT !.pc = phase, !.then = then, !.at = notifier.version]
        /\ writing' = straight
        /\ UNCHANGED realm
    BY <1>3, <2>1 DEF EndWait, Begin
  <2>3. writing' \in BOOLEAN /\ phase \in {"before", "after"} /\ then \in {"read", "write"}
    BY <1>2, <2>1, <2>2
  <2>4. writing' \/ then = "write" => notifier.version = latest
    <3>1. SUFFICES ASSUME target.then = "write"
                   PROVE  notifier.version = latest
      BY <2>1, <2>2
    <3>2. target.want = latest
      BY <1>1, <3>1 DEF IInv, WritersWaited
    <3> QED
      BY <1>2, <1>3, <3>2
  <2>5. phase = "after" /\ then = "write" => writing'
    BY <2>1, <2>2
  <2> QED
    BY <1>1, <1>n, <1>2, <1>3, <2>2, <2>3, <2>4, <2>5, PackagedKeeps
<1>4. CASE ~(notifier.has_run /\ notifier.version >= target.want)
  <2>1. ~notifier.have /\ notifier.callbacks = <<>>
    BY <1>1, <1>4 DEF IsReady, IInv, LoopFits
  <2>2. /\ notifier' = IF notifier.has_run THEN package_for_delivery(notifier) ELSE notifier
        /\ realm' = latest /\ writing' = (target.then = "write") /\ target' = AtRest
    BY <1>4 DEF EndWait
  <2>3. PackagedAs(notifier, notifier') \/ notifier' = notifier
    <3>1. PICK m : m = package_for_delivery(notifier)
      OBVIOUS
    <3>2. PackagedAs(notifier, m)
      BY <1>2, <3>1, PackageFacts, RepackagedFields
    <3> QED
      BY <2>2, <3>1, <3>2
  <2>4. /\ notifier' \in NotifierRecord
        /\ DOMAIN notifier'.callbacks = DOMAIN notifier.callbacks
        /\ Len(notifier'.callbacks) = Len(notifier.callbacks)
        /\ notifier'.index = notifier.index
        /\ notifier'.version = notifier.version /\ notifier'.has_run = notifier.has_run
        /\ notifier'.seen = notifier.seen /\ notifier'.new = notifier.new
        /\ notifier'.have = notifier.have
    BY <1>2, <2>3 DEF PackagedAs
  <2>5. DOMAIN notifier.callbacks = {}
    <3>1. DOMAIN <<>> = {}
      OBVIOUS
    <3> QED
      BY <2>1, <3>1
  <2>6. /\ target' \in Standing /\ target'.pc = "idle" /\ target'.at <= latest
        /\ target'.calling = NoToken /\ ~target'.shortened
    BY <1>2, <2>2 DEF AtRest, Standing, NoToken, Loops
  <2>7. WritersWaited'
    BY <2>1, <2>4, <2>6 DEF WritersWaited, Holding, OwnWrite, InCallback
  <2>8. writing' \in BOOLEAN /\ target.pc \in {"idle", "waiting"} /\ target'.pc \in {"idle", "waiting"}
    BY <1>1, <2>2, <2>6
  <2> QED
    BY <1>1, <1>n, <1>2, <2>2, <2>4, <2>5, <2>6, <2>7, <2>8, RestKeeps
<1> QED
  BY <1>3, <1>4


-----------------------------------------------------------------------------
(* Callbacks come and go                                                     *)

\* A step of the target that leaves the worker's round alone.
LEMMA RoundStays ==
    ASSUME IInv, UNCHANGED <<latest, touching, suppressed, worker, skip, async_error>>,
           notifier' \in NotifierRecord, target' \in Standing, target'.at <= latest,
           target'.calling <= tokens', tokens <= tokens', tokens' \in 0..MaxTokens, realm' \in 0..latest,
           suppressed # {} => writing' /\ target'.pc \notin {"waiting", "before"},
           writing' \in BOOLEAN, woken' \in BOOLEAN, signalled' \in BOOLEAN,
           notifier'.version = notifier.version, notifier'.has_run = notifier.has_run,
           notifier'.seen = notifier.seen, notifier'.new = notifier.new
    PROVE  StateFits' /\ RoundFits'
<1>1. StateFits'
  <2>1. suppressed' \in SUBSET (1..tokens')
    <3>1. suppressed \in SUBSET (1..tokens) /\ tokens \in Nat /\ tokens' \in Nat
      BY NumberFacts, BoundsAssumption DEF IInv, StateFits
    <3> QED
      BY <3>1
  <2> QED
    BY <2>1 DEF IInv, StateFits
<1>2. RoundFits'
  BY DEF IInv, RoundFits, RoundEnd, Touched
<1> QED
  BY <1>1, <1>2

LEMMA AddCallbackKeeps ==
    ASSUME IInv, AddCallback
    PROVE  IInv'
<1>t. PICK t : t = tokens + 1
  OBVIOUS
<1>1. /\ target.pc = "idle" \/ target.pc \in {"after", "error"}
      /\ ~writing /\ tokens < MaxTokens /\ tokens' = t
      /\ notifier' = add_callback(notifier, t)
      /\ woken' = (woken \/ notifier.index = NoCallback)
      /\ UNCHANGED <<latest, touching, suppressed, realm, writing, worker, skip, async_error, signalled, target>>
  BY <1>t DEF AddCallback, Idle, InCallback, fileVars, workerVars
<1>2. /\ notifier \in NotifierRecord /\ t \in Nat /\ t \in 0..MaxTokens /\ tokens \in Nat
  BY <1>t, <1>1, NumberFacts, BoundsAssumption DEF IInv, StateFits
<1>3. PICK e, k : e = Callback(t) /\ k = Len(notifier.callbacks) + 1
  OBVIOUS
<1>4. /\ notifier' \in NotifierRecord
      /\ Len(notifier'.callbacks) = k
      /\ \A j \in DOMAIN notifier.callbacks : notifier'.callbacks[j] = notifier.callbacks[j]
      /\ notifier'.callbacks[k] = e
      /\ notifier' = [notifier EXCEPT !.callbacks = notifier'.callbacks,
                                      !.have = notifier.have \/ notifier.index = NoCallback]
  <2>1. PICK m : m = add_callback(notifier, t)
    OBVIOUS
  <2>2. /\ m \in NotifierRecord
        /\ Len(m.callbacks) = Len(notifier.callbacks) + 1
        /\ \A j \in DOMAIN notifier.callbacks : m.callbacks[j] = notifier.callbacks[j]
        /\ m.callbacks[Len(notifier.callbacks) + 1] = Callback(t)
        /\ m = [notifier EXCEPT !.callbacks = m.callbacks,
                                !.have = notifier.have \/ notifier.index = NoCallback]
    BY <1>2, <2>1, AddFacts
  <2>3. notifier' = m
    BY <1>1, <2>1
  <2> QED
    BY <1>3, <2>2, <2>3
<1>5. /\ notifier'.index = notifier.index /\ notifier'.count = notifier.count
      /\ notifier'.version = notifier.version /\ notifier'.has_run = notifier.has_run
      /\ notifier'.seen = notifier.seen /\ notifier'.new = notifier.new
      /\ notifier'.have <=> notifier.have \/ notifier.index = NoCallback
  BY <1>2, <1>4 DEF NotifierRecord
<1>6. /\ Len(notifier.callbacks) \in Nat /\ k \in Nat \ {0}
      /\ DOMAIN notifier.callbacks = 1..Len(notifier.callbacks)
      /\ DOMAIN notifier'.callbacks = 1..k /\ k \in DOMAIN notifier'.callbacks
      /\ notifier.callbacks = <<>> <=> Len(notifier.callbacks) = 0
      /\ notifier'.callbacks # <<>>
      /\ \A i \in DOMAIN notifier'.callbacks :
            i = k \/ (i \in DOMAIN notifier.callbacks /\ i < k)
  <2>1. /\ Len(notifier.callbacks) \in Nat
        /\ DOMAIN notifier.callbacks = 1..Len(notifier.callbacks)
        /\ notifier.callbacks = <<>> <=> Len(notifier.callbacks) = 0
        /\ DOMAIN notifier'.callbacks = 1..Len(notifier'.callbacks)
        /\ notifier'.callbacks = <<>> <=> Len(notifier'.callbacks) = 0
    BY <1>2, <1>4, CallbacksFacts
  <2> QED
    BY <1>3, <1>4, <2>1
<1>7. /\ e.token = t /\ e.accumulated = {} /\ e.deliver = {} /\ e.initial = FALSE
      /\ e.skip = FALSE /\ e.owed = {} /\ e.muted = {} /\ e.late = TRUE /\ e.excused = FALSE
  BY <1>3 DEF Callback
<1>8. ASSUME NEW i \in DOMAIN notifier.callbacks
      PROVE  /\ notifier.callbacks[i].token \in 1..tokens
             /\ CallbackInv(notifier.callbacks[i])'
  <2>1. PICK c : c = notifier.callbacks[i]
    OBVIOUS
  <2>2. CallbackFits(c) /\ FlagFits(c) /\ NewsFits(c)
    BY <2>1, CallbackFacts
  <2>3. CallbackFits(c)'
    BY <1>t, <1>1, <1>2, <1>5, <2>2 DEF CallbackFits
  <2>4. FlagFits(c)'
    BY <1>1, <1>5, <2>2 DEF FlagFits, SkipEnd, Touched
  <2>5. NewsFits(c)'
    BY <1>1, <1>5, <2>2 DEF NewsFits, Live, ToCome, Telling, Touched
  <2>6. CallbackInv(c)' /\ c.token \in 1..tokens
    BY <2>2, <2>3, <2>4, <2>5 DEF CallbackInv, CallbackFits
  <2> QED
    BY <1>4, <2>1, <2>6
<1>9. CallbackInv(notifier.callbacks[k])'
  <2>1. CallbackFits(e)'
    <3>1. e.token \in 1..tokens'
      BY <1>t, <1>1, <1>2, <1>7
    <3> QED
      BY <1>7, <3>1 DEF CallbackFits
  <2>2. FlagFits(e)' /\ NewsFits(e)'
    BY <1>7 DEF FlagFits, NewsFits, Live
  <2> QED
    BY <1>4, <2>1, <2>2 DEF CallbackInv
<1>10. StateFits' /\ RoundFits'
  <2>1. woken' \in BOOLEAN
    BY <1>1 DEF IInv, StateFits
  <2>2. /\ target' \in Standing /\ target'.at <= latest /\ realm' \in 0..latest
        /\ writing' \in BOOLEAN /\ signalled' \in BOOLEAN
    BY <1>1 DEF IInv, StateFits
  <2>3. target'.calling <= tokens'
    BY <1>t, <1>1, <1>2, NumberFacts DEF IInv
  <2>4. suppressed = {} /\ tokens <= tokens'
    BY <1>t, <1>1, <1>2 DEF IInv, StateFits
  <2> QED
    BY <1>1, <1>2, <1>4, <1>5, <2>1, <2>2, <2>3, <2>4, RoundStays
<1>11. WritersWaited'
  BY <1>1 DEF IInv, WritersWaited, Holding, OwnWrite, InCallback
<1>12. LoopFits'
  <2>1. /\ notifier.index \in NoCallback..(Len(notifier.callbacks) - 1)
        /\ notifier.have <=> notifier.callbacks # <<>>
        /\ target.pc = "idle" =>
               notifier.index = NoCallback /\ ~target.shortened /\ target.calling = NoToken
        /\ Telling => notifier.has_run
        /\ target.pc = "error" => async_error
    BY DEF IInv, LoopFits
  <2>2. notifier'.index \in NoCallback..(Len(notifier'.callbacks) - 1) /\ notifier'.have
    BY <1>3, <1>4, <1>5, <1>6, <2>1 DEF NoCallback
  <2>3. target.pc \in Loops /\ ~target.shortened =>
           /\ notifier'.count \in 0..Len(notifier'.callbacks)
           /\ \A i \in DOMAIN notifier'.callbacks :
                  notifier'.callbacks[i].late <=> i > notifier'.count
    <3>1. SUFFICES ASSUME target.pc \in Loops, ~target.shortened
                   PROVE  /\ notifier'.count \in 0..Len(notifier'.callbacks)
                          /\ \A i \in DOMAIN notifier'.callbacks :
                                 notifier'.callbacks[i].late <=> i > notifier'.count
      OBVIOUS
    <3>2. /\ notifier.count \in 0..Len(notifier.callbacks)
          /\ \A i \in DOMAIN notifier.callbacks :
                 notifier.callbacks[i].late <=> i > notifier.count
      BY <3>1 DEF IInv, LoopFits
    <3>3. k > notifier.count
      BY <1>3, <1>6, <3>2
    <3>4. e.late <=> k > notifier.count
      BY <1>7, <3>3
    <3>5. \A i \in DOMAIN notifier'.callbacks :
             notifier'.callbacks[i].late <=> i > notifier.count
      BY <1>4, <1>6, <3>2, <3>4
    <3>6. notifier.count \in 0..k
      BY <1>3, <1>6, <3>2
    <3> QED
      BY <1>4, <1>5, <3>5, <3>6
  <2> QED
    BY <1>1, <1>5, <1>6, <2>1, <2>2, <2>3 DEF LoopFits, Telling
<1>13. TokensDiffer'
  <2>1. \A i \in DOMAIN notifier.callbacks : notifier.callbacks[i].token # t
    BY <1>t, <1>2, <1>8
  <2> QED
    BY <1>4, <1>6, <1>7, <2>1 DEF IInv, TokensDiffer
<1>14. ErrorLoopFits'
  <2>1. SUFFICES ASSUME target.pc = "error"
                 PROVE  ErrorLoopFits'
    BY <1>1 DEF ErrorLoopFits
  <2>2. CASE notifier.index = NoCallback /\ target.calling \notin Tokens(notifier)
    <3>1. target.calling # t
      BY <1>t, <1>2, NumberFacts DEF IInv
    <3>2. \A i \in DOMAIN notifier.callbacks : notifier.callbacks[i].token # target.calling
      BY <2>2 DEF Tokens
    <3>3. \A i \in DOMAIN notifier'.callbacks : notifier'.callbacks[i].token # target.calling
      BY <1>4, <1>6, <1>7, <3>1, <3>2
    <3> QED
      BY <1>1, <1>5, <2>2, <3>3 DEF ErrorLoopFits, Tokens
  <2>3. CASE /\ notifier.index = 0 /\ notifier.callbacks[1].token = target.calling
             /\ target.shortened \/ ~notifier.callbacks[1].late
    <3>1. 1 \in DOMAIN notifier.callbacks
      BY <1>6, <2>3 DEF IInv, LoopFits
    <3> QED
      BY <1>1, <1>4, <1>5, <2>3, <3>1 DEF ErrorLoopFits
  <2> QED
    BY <2>1, <2>2, <2>3 DEF IInv, ErrorLoopFits
<1>15. PassedAreTold'
  BY <1>1, <1>4, <1>5, <1>6, <1>7 DEF IInv, PassedAreTold
<1> QED
  BY <1>6, <1>8, <1>9, <1>10, <1>11, <1>12, <1>13, <1>14, <1>15 DEF IInv


\* What is left of the list when a callback is taken out: the others, in order.
Moved(j, p) == IF j < p THEN j ELSE j + 1
LEMMA MovedFacts ==
    ASSUME NEW len \in Nat, NEW p \in 1..len, NEW j \in 1..(len - 1)
    PROVE  /\ Moved(j, p) \in 1..len /\ Moved(j, p) # p
           /\ j <= Moved(j, p) /\ Moved(j, p) <= j + 1
           /\ \A i \in 1..(len - 1) : Moved(i, p) = Moved(j, p) => i = j
BY DEF Moved

LEMMA RemoveCallbackKeeps ==
    ASSUME IInv, NEW token \in Tokens(notifier), RemoveCallback(token)
    PROVE  IInv'
<1>p. PICK p : p = Place(notifier, token)
  OBVIOUS
<1>s. PICK short : short = (notifier.callbacks[p].late /\ target.pc \in Loops)
  OBVIOUS
<1>b. PICK base : base = IF short THEN WithoutLate(notifier) ELSE notifier
  OBVIOUS
<1>1. /\ notifier' = remove_callback(base, token)
      /\ target' = [target EXCEPT !.shortened = @ \/ short]
      /\ UNCHANGED <<latest, touching, suppressed, realm, writing, tokens, worker, skip, async_error,
                     woken, signalled>>
  BY <1>p, <1>s, <1>b DEF RemoveCallback, fileVars, workerVars
<1>2. notifier \in NotifierRecord /\ p \in DOMAIN notifier.callbacks
      /\ notifier.callbacks[p].token = token
  <2>1. notifier \in NotifierRecord
    BY DEF IInv, StateFits
  <2> QED
    BY <1>p, <2>1, RemoveFacts
<1>3. /\ base \in NotifierRecord
      /\ DOMAIN base.callbacks = DOMAIN notifier.callbacks
      /\ Len(base.callbacks) = Len(notifier.callbacks)
      /\ base.index = notifier.index /\ base.count = notifier.count /\ base.have = notifier.have
      /\ base.version = notifier.version /\ base.has_run = notifier.has_run
      /\ base.seen = notifier.seen /\ base.new = notifier.new
      /\ \A i \in DOMAIN notifier.callbacks :
            \/ ~short /\ base.callbacks[i] = notifier.callbacks[i]
            \/ short /\ base.callbacks[i] =
                   [notifier.callbacks[i] EXCEPT !.excused = @ \/ i > notifier.index + 1]
  <2>1. CASE short
    <3>1. PICK m : m = WithoutLate(notifier)
      OBVIOUS
    <3>2. /\ OnlyRetold(notifier, m)
          /\ \A i \in DOMAIN notifier.callbacks :
                m.callbacks[i] =
                    [notifier.callbacks[i] EXCEPT !.excused = @ \/ i > notifier.index + 1]
      BY <1>2, <3>1, WithoutLateFacts
    <3>3. base = m
      BY <1>b, <2>1, <3>1
    <3>4. /\ m.index = notifier.index /\ m.count = notifier.count /\ m.have = notifier.have
          /\ m.version = notifier.version /\ m.has_run = notifier.has_run
          /\ m.seen = notifier.seen /\ m.new = notifier.new
      BY <1>2, <3>2, RetoldFields
    <3> QED
      BY <2>1, <3>2, <3>3, <3>4 DEF OnlyRetold, Retold
  <2>2. CASE ~short
    BY <1>2, <1>b, <2>2
  <2> QED
    BY <2>1, <2>2
<1>4. ASSUME NEW i \in DOMAIN notifier.callbacks
      PROVE  /\ base.callbacks[i].token = notifier.callbacks[i].token
             /\ base.callbacks[i].late = notifier.callbacks[i].late
             /\ base.callbacks[i].deliver = notifier.callbacks[i].deliver
             /\ notifier.callbacks[i].excused => base.callbacks[i].excused
             /\ short /\ i > notifier.index + 1 => base.callbacks[i].excused
             /\ CallbackInv(base.callbacks[i])
             /\ CallbackFits(base.callbacks[i])
  <2>1. PICK c : c = notifier.callbacks[i]
    OBVIOUS
  <2>2. PICK d : d = base.callbacks[i]
    OBVIOUS
  <2>3. c \in CallbackRecord /\ CallbackFits(c) /\ FlagFits(c) /\ NewsFits(c)
    BY <2>1, CallbackFacts
  <2>4. CASE ~short
    BY <1>3, <2>1, <2>3, <2>4 DEF CallbackInv
  <2>5. CASE short
    <3>1. PICK ex : ex = (i > notifier.index + 1)
      OBVIOUS
    <3>2. d = [c EXCEPT !.excused = @ \/ ex]
      BY <1>3, <2>1, <2>2, <2>5, <3>1
    <3>3. /\ d.token = c.token /\ d.accumulated = c.accumulated /\ d.deliver = c.deliver
          /\ d.initial = c.initial /\ d.skip = c.skip /\ d.owed = c.owed /\ d.muted = c.muted
          /\ d.late = c.late /\ (d.excused <=> c.excused \/ ex)
      BY <2>3, <3>2 DEF CallbackRecord
    <3>4. CallbackFits(d)
      BY <2>3, <3>3 DEF CallbackFits
    <3>5. FlagFits(d)
      BY <2>3, <3>3 DEF FlagFits
    <3>6. NewsFits(d)
      BY <2>3, <3>3 DEF NewsFits, Live, ToCome
    <3> QED
      BY <2>1, <2>2, <3>1, <3>3, <3>4, <3>5, <3>6 DEF CallbackInv
  <2> QED
    BY <2>4, <2>5
<1>5. /\ Len(notifier.callbacks) \in Nat
      /\ DOMAIN notifier.callbacks = 1..Len(notifier.callbacks)
      /\ notifier.callbacks = <<>> <=> Len(notifier.callbacks) = 0
      /\ p \in 1..Len(notifier.callbacks)
  BY <1>2, CallbacksFacts
<1>6. /\ notifier' \in NotifierRecord
      /\ Len(notifier'.callbacks) = Len(notifier.callbacks) - 1
      /\ \A j \in 1..(Len(notifier.callbacks) - 1) :
            notifier'.callbacks[j] = base.callbacks[Moved(j, p)]
      /\ notifier'.count = notifier.count - 1
      /\ notifier'.index = IF notifier.index # NoCallback /\ notifier.index >= p - 1
                           THEN notifier.index - 1 ELSE notifier.index
      /\ notifier'.have <=> Len(notifier.callbacks) > 1
      /\ notifier'.version = notifier.version /\ notifier'.has_run = notifier.has_run
      /\ notifier'.seen = notifier.seen /\ notifier'.new = notifier.new
  <2>1. token \in Tokens(base)
    BY <1>2, <1>3, <1>4 DEF Tokens
  <2>2. PICK q, m : q = Place(base, token) /\ m = remove_callback(base, token)
    OBVIOUS
  <2>3. /\ q \in DOMAIN base.callbacks /\ base.callbacks[q].token = token
        /\ m \in NotifierRecord
        /\ Len(m.callbacks) = Len(base.callbacks) - 1
        /\ \A j \in 1..(Len(base.callbacks) - 1) :
              m.callbacks[j] = IF j < q THEN base.callbacks[j] ELSE base.callbacks[j + 1]
        /\ m = [base EXCEPT !.callbacks = m.callbacks, !.count = base.count - 1,
                            !.index = IF base.index # NoCallback /\ base.index >= q - 1
                                      THEN base.index - 1 ELSE base.index,
                            !.have = Len(base.callbacks) > 1]
    <3>1. /\ q \in DOMAIN base.callbacks /\ base.callbacks[q].token = token
          /\ TakenOut(base, m, q)
      BY <1>3, <2>1, <2>2, RemoveFacts
    <3> QED
      BY <3>1 DEF TakenOut
  <2>4. q = p
    BY <1>2, <1>3, <1>4, <2>3 DEF IInv, TokensDiffer
  <2>5. PICK index, have : /\ index = IF notifier.index # NoCallback /\ notifier.index >= p - 1
                                      THEN notifier.index - 1 ELSE notifier.index
                           /\ have = (Len(notifier.callbacks) > 1)
    OBVIOUS
  <2>6. m = [base EXCEPT !.callbacks = m.callbacks, !.count = notifier.count - 1,
                         !.index = index, !.have = have]
    BY <1>3, <2>3, <2>4, <2>5
  <2>7. /\ m.count = notifier.count - 1 /\ m.index = index /\ m.have = have
        /\ m.version = notifier.version /\ m.has_run = notifier.has_run
        /\ m.seen = notifier.seen /\ m.new = notifier.new
    BY <1>3, <2>6 DEF NotifierRecord
  <2>8. \A j \in 1..(Len(notifier.callbacks) - 1) : m.callbacks[j] = base.callbacks[Moved(j, p)]
    BY <1>3, <2>3, <2>4 DEF Moved
  <2>9. notifier' = m
    BY <1>1, <2>2
  <2> QED
    BY <1>3, <2>3, <2>5, <2>7, <2>8, <2>9
<1>7. /\ DOMAIN notifier'.callbacks = 1..(Len(notifier.callbacks) - 1)
      /\ notifier'.callbacks = <<>> <=> Len(notifier.callbacks) = 1
  <2>1. /\ DOMAIN notifier'.callbacks = 1..Len(notifier'.callbacks)
        /\ notifier'.callbacks = <<>> <=> Len(notifier'.callbacks) = 0
    BY <1>6, CallbacksFacts
  <2> QED
    BY <1>5, <1>6, <2>1
<1>8. /\ target' \in Standing /\ target'.pc = target.pc /\ target'.then = target.then
      /\ target'.want = target.want /\ target'.at = target.at /\ target'.calling = target.calling
      /\ target'.shortened <=> target.shortened \/ short
  <2>1. short \in BOOLEAN
    <3>1. notifier.callbacks[p].late \in BOOLEAN
      BY <1>2, CallbacksFacts DEF CallbackRecord
    <3> QED
      BY <1>s, <3>1
  <2>2. target \in Standing
    BY DEF IInv, StateFits
  <2> QED
    BY <1>1, <2>1, <2>2 DEF Standing
<1>9. ASSUME NEW j \in DOMAIN notifier'.callbacks
      PROVE  /\ Moved(j, p) \in DOMAIN notifier.callbacks /\ Moved(j, p) # p
             /\ j <= Moved(j, p) /\ Moved(j, p) <= j + 1
             /\ notifier'.callbacks[j] = base.callbacks[Moved(j, p)]
             /\ CallbackInv(notifier.callbacks[j])'
  <2>1. /\ Moved(j, p) \in DOMAIN notifier.callbacks /\ Moved(j, p) # p
        /\ j <= Moved(j, p) /\ Moved(j, p) <= j + 1
    BY <1>5, <1>7, MovedFacts
  <2>2. PICK d : d = base.callbacks[Moved(j, p)]
    OBVIOUS
  <2>3. notifier'.callbacks[j] = d
    BY <1>6, <1>7, <2>2
  <2>4. CallbackFits(d) /\ FlagFits(d) /\ NewsFits(d)
    BY <1>4, <2>1, <2>2 DEF CallbackInv
  <2>5. CallbackFits(d)'
    BY <1>1, <1>6, <1>8, <2>4 DEF CallbackFits
  <2>6. FlagFits(d)'
    BY <1>1, <1>6, <2>4 DEF FlagFits, SkipEnd, Touched
  <2>7. NewsFits(d)'
    BY <1>1, <1>6, <1>8, <2>4 DEF NewsFits, Live, ToCome, Telling, Touched
  <2> QED
    BY <2>1, <2>2, <2>3, <2>5, <2>6, <2>7 DEF CallbackInv
<1>10. StateFits' /\ RoundFits'
  <2>1. /\ target'.at <= latest /\ target'.calling <= tokens'
        /\ tokens' \in 0..MaxTokens /\ realm' \in 0..latest
        /\ writing' \in BOOLEAN /\ woken' \in BOOLEAN /\ signalled' \in BOOLEAN
    BY <1>1, <1>8 DEF IInv, StateFits
  <2>9. (suppressed # {} => writing' /\ target'.pc \notin {"waiting", "before"}) /\ tokens <= tokens'
    BY <1>1, <1>8, NumberFacts DEF IInv, StateFits
  <2> QED
    BY <1>1, <1>6, <1>8, <2>1, <2>9, RoundStays
<1>11. WritersWaited'
  <2>1. notifier'.have => notifier.have
    BY <1>5, <1>6 DEF IInv, LoopFits
  <2> QED
    BY <1>1, <1>6, <1>8, <2>1 DEF IInv, WritersWaited, Holding, OwnWrite, InCallback
<1>12. LoopFits'
  <2>1. /\ notifier.index \in NoCallback..(Len(notifier.callbacks) - 1)
        /\ target.pc \in {"idle", "waiting"} =>
               notifier.index = NoCallback /\ ~target.shortened /\ target.calling = NoToken
        /\ target.pc = "before" => ~target.shortened
                   /\ \A i \in DOMAIN notifier.callbacks : ~notifier.callbacks[i].late
        /\ target.pc = "undefined" => target.shortened
        /\ Telling => notifier.has_run
        /\ target.pc = "error" => async_error
    BY DEF IInv, LoopFits
  <2>2. notifier'.index \in NoCallback..(Len(notifier'.callbacks) - 1)
    BY <1>5, <1>6, <2>1 DEF NoCallback
  <2>3. notifier'.have <=> notifier'.callbacks # <<>>
    BY <1>5, <1>6, <1>7
  <2>4. target.pc \in {"idle", "waiting", "before"} => ~short
    BY <1>2, <1>s, <2>1 DEF Loops
  <2>5. target.pc \in {"idle", "waiting"} => notifier'.index = NoCallback
    BY <1>6, <2>1
  <2>6. target.pc = "before" =>
            \A j \in DOMAIN notifier'.callbacks : ~notifier'.callbacks[j].late
    BY <1>4, <1>9, <2>1
  <2>7. target'.pc \in Loops /\ ~target'.shortened =>
           /\ notifier'.count \in 0..Len(notifier'.callbacks)
           /\ \A j \in DOMAIN notifier'.callbacks :
                  notifier'.callbacks[j].late <=> j > notifier'.count
    <3>1. SUFFICES ASSUME target.pc \in Loops, ~target.shortened, ~short
                   PROVE  /\ notifier'.count \in 0..Len(notifier'.callbacks)
                          /\ \A j \in DOMAIN notifier'.callbacks :
                                 notifier'.callbacks[j].late <=> j > notifier'.count
      BY <1>8
    <3>2. /\ notifier.count \in 0..Len(notifier.callbacks)
          /\ \A i \in DOMAIN notifier.callbacks :
                 notifier.callbacks[i].late <=> i > notifier.count
      BY <3>1 DEF IInv, LoopFits
    <3>3. ~notifier.callbacks[p].late
      BY <1>s, <3>1
    <3>4. p <= notifier.count
      BY <1>5, <3>2, <3>3
    <3>5. ASSUME NEW j \in DOMAIN notifier'.callbacks
          PROVE  notifier'.callbacks[j].late <=> j > notifier.count - 1
      <4>1. notifier'.callbacks[j].late <=> Moved(j, p) > notifier.count
        BY <1>4, <1>9, <3>2
      <4>2. j \in Nat /\ p \in Nat /\ notifier.count \in Nat
        BY <1>5, <1>7, <3>2
      <4>3. Moved(j, p) > notifier.count <=> j > notifier.count - 1
        BY <3>4, <4>2 DEF Moved
      <4> QED
        BY <4>1, <4>3
    <3>6. notifier.count - 1 \in 0..(Len(notifier.callbacks) - 1)
      BY <1>5, <3>2, <3>4
    <3> QED
      BY <1>6, <3>5, <3>6
  <2> QED
    BY <1>1, <1>6, <1>8, <2>1, <2>2, <2>3, <2>4, <2>5, <2>6, <2>7 DEF LoopFits, Telling
<1>13. TokensDiffer'
  <2>1. SUFFICES ASSUME NEW i \in DOMAIN notifier'.callbacks,
                        NEW j \in DOMAIN notifier'.callbacks,
                        notifier'.callbacks[i].token = notifier'.callbacks[j].token
                 PROVE  i = j
    BY DEF TokensDiffer
  <2>2. Moved(i, p) = Moved(j, p)
    BY <1>4, <1>9, <2>1 DEF IInv, TokensDiffer
  <2> QED
    BY <1>5, <1>7, <2>2, MovedFacts
<1>14. ErrorLoopFits'
  <2>1. SUFFICES ASSUME target.pc = "error"
                 PROVE  ErrorLoopFits'
    BY <1>8 DEF ErrorLoopFits
  <2>2. CASE notifier.index = NoCallback /\ target.calling \notin Tokens(notifier)
    <3>1. \A j \in DOMAIN notifier'.callbacks : notifier'.callbacks[j].token # target.calling
      BY <1>4, <1>9, <2>2 DEF Tokens
    <3> QED
      BY <1>6, <1>8, <2>2, <3>1 DEF ErrorLoopFits, Tokens
  <2>3. CASE /\ notifier.index = 0 /\ notifier.callbacks[1].token = target.calling
             /\ target.shortened \/ ~notifier.callbacks[1].late
    <3>1. CASE p = 1
      <4>1. notifier'.index = NoCallback
        BY <1>6, <2>3, <3>1 DEF NoCallback
      <4>2. \A j \in DOMAIN notifier'.callbacks : notifier'.callbacks[j].token # target.calling
        BY <1>2, <1>4, <1>9, <2>3, <3>1 DEF IInv, TokensDiffer
      <4> QED
        BY <1>8, <4>1, <4>2 DEF ErrorLoopFits, Tokens
    <3>2. CASE p # 1
      <4>1. 1 < p /\ 1 \in DOMAIN notifier.callbacks /\ 1 \in DOMAIN notifier'.callbacks
        BY <1>5, <1>7, <3>2
      <4>2. notifier'.index = 0
        BY <1>5, <1>6, <2>3, <4>1
      <4>3. notifier'.callbacks[1] = base.callbacks[1]
        BY <1>9, <4>1 DEF Moved
      <4> QED
        BY <1>4, <1>8, <2>3, <4>1, <4>2, <4>3 DEF ErrorLoopFits
    <3> QED
      BY <3>1, <3>2
  <2> QED
    BY <2>1, <2>2, <2>3 DEF IInv, ErrorLoopFits
<1>15. PassedAreTold'
  <2>1. SUFFICES ASSUME target.pc = "after", NEW j \in DOMAIN notifier'.callbacks,
                        j <= notifier'.index + 1 \/ target.shortened \/ short
                 PROVE  notifier'.callbacks[j].excused \/ notifier'.callbacks[j].deliver = {}
    BY <1>8 DEF PassedAreTold
  <2>2. PICK k : k = Moved(j, p)
    OBVIOUS
  <2>3. /\ k \in DOMAIN notifier.callbacks /\ notifier'.callbacks[j] = base.callbacks[k]
        /\ k <= j + 1 /\ j \in Nat /\ p \in Nat
    BY <1>5, <1>7, <1>9, <2>2
  <2>4. notifier.index \in Int /\ notifier.index >= -1
    BY NumberFacts DEF IInv, LoopFits, NoCallback
  <2>5. j <= notifier'.index + 1 => k <= notifier.index + 1
    <3>1. j \in Nat /\ p \in Nat /\ notifier.index \in Int /\ notifier.index >= -1
      BY <2>3, <2>4
    <3>2. CASE notifier.index # NoCallback /\ notifier.index >= p - 1
      BY <1>6, <2>3, <3>1, <3>2
    <3>3. CASE notifier.index = NoCallback
      BY <1>6, <1>7, <3>1, <3>3 DEF NoCallback
    <3>4. CASE notifier.index # NoCallback /\ ~(notifier.index >= p - 1)
      BY <1>6, <2>2, <3>1, <3>4 DEF Moved
    <3> QED
      BY <3>2, <3>3, <3>4
  <2>6. \/ k <= notifier.index + 1 \/ target.shortened
        \/ short /\ k > notifier.index + 1
    BY <1>5, <2>1, <2>3, <2>4, <2>5
  <2> QED
    BY <1>4, <2>1, <2>3, <2>6 DEF IInv, PassedAreTold
<1> QED
  BY <1>6, <1>9, <1>10, <1>11, <1>12, <1>13, <1>14, <1>15 DEF IInv


-----------------------------------------------------------------------------
(* The loops                                                                 *)

Less == OpToRel(<, Nat)

\* Of a set of indices there is an earliest one.
LEMMA EarliestFacts ==
    ASSUME NEW S \in SUBSET Nat, S # {}
    PROVE  Earliest(S) \in S /\ \A k \in S : Earliest(S) <= k
<1>1. \A a, b \in Nat : a < b => <<a, b>> \in Less
  BY DEF Less, OpToRel
<1>2. IsWellFoundedOn(Less, Nat)
  BY NatLessThanWellFounded DEF Less
<1>3. PICK j \in S : \A k \in S : ~(<<k, j>> \in Less)
  BY <1>2, WFMin
<1>4. ASSUME NEW k \in S
      PROVE  j <= k
  <2>1. ~(k < j)
    BY <1>1, <1>3
  <2> QED
    BY <2>1
<1> QED
  BY <1>4 DEF Earliest

\* Who is due is behind the index and packaged, or the count is beyond all.
LEMMA DueFacts ==
    ASSUME NEW n \in NotifierRecord, n.index >= -1, NEW phase
    PROVE  /\ NextDue(n, phase) \in SUBSET Nat
           /\ \A j \in NextDue(n, phase) :
                 /\ j + 1 \in DOMAIN n.callbacks /\ n.index < j
                 /\ j < n.count \/ n.count < 0
           /\ \A i \in DOMAIN n.callbacks :
                 /\ i > n.index + 1
                 /\ i <= n.count \/ n.count < 0
                 /\ Due(phase, n.callbacks[i])
                 => i - 1 \in NextDue(n, phase)
<1>1. /\ n.index \in Int /\ n.count \in Int
      /\ Len(n.callbacks) \in Nat /\ DOMAIN n.callbacks = 1..Len(n.callbacks)
  BY CallbacksFacts DEF NotifierRecord
<1>2. NextDue(n, phase) \in SUBSET Nat
  BY <1>1 DEF NextDue
<1>3. ASSUME NEW j \in NextDue(n, phase)
      PROVE  /\ j + 1 \in DOMAIN n.callbacks /\ n.index < j
             /\ j < n.count \/ n.count < 0
  BY <1>1, <1>3 DEF NextDue
<1>4. ASSUME NEW i \in DOMAIN n.callbacks, i > n.index + 1, i <= n.count \/ n.count < 0,
             Due(phase, n.callbacks[i])
      PROVE  i - 1 \in NextDue(n, phase)
  <2>1. PICK j : j = i - 1
    OBVIOUS
  <2>2. /\ j \in (n.index + 1)..(Len(n.callbacks) - 1) /\ i = j + 1
        /\ j < n.count \/ n.count < 0
    BY <1>1, <1>4, <2>1
  <2>3. Due(phase, n.callbacks[j + 1])
    BY <1>4, <2>2
  <2> QED
    BY <2>1, <2>2, <2>3 DEF NextDue
<1> QED
  BY <1>2, <1>3, <1>4

\* What an after-callback is told of, it is no longer to be told of.
LEMMA CalledFits ==
    ASSUME IInv, target.pc = "after", NEW i \in DOMAIN notifier.callbacks,
           NEW c, c = notifier.callbacks[i], NEW d, d = Called(c)
    PROVE  /\ d \in CallbackRecord /\ d.token = c.token /\ d.late = c.late /\ d.deliver = {}
           /\ CallbackFits(d) /\ FlagFits(d) /\ NewsFits(d)
<1>1. c \in CallbackRecord /\ CallbackFits(c) /\ FlagFits(c) /\ NewsFits(c)
  BY CallbackFacts
<1>2. /\ touching \in SUBSET (1..latest) /\ latest \in Nat /\ realm \in Nat /\ target.at \in Nat
      /\ notifier.version \in Nat /\ notifier.version <= latest
  BY NumberFacts DEF IInv, StateFits
<1>3. PICK owed, ex : /\ owed = IF c.initial THEN c.owed \ c.deliver
                                ELSE Touched(realm, latest) \ c.muted
                      /\ ex = (c.excused \/ (~c.initial /\ (c.late \/ target.at # realm)))
  OBVIOUS
<1>4. d = [c EXCEPT !.initial = TRUE, !.deliver = {}, !.owed = owed, !.excused = ex]
  BY <1>3 DEF Called
<1>5. /\ d.token = c.token /\ d.accumulated = c.accumulated /\ d.deliver = {}
      /\ d.initial = TRUE /\ d.skip = c.skip /\ d.owed = owed /\ d.muted = c.muted
      /\ d.late = c.late /\ d.excused = ex
  BY <1>1, <1>4 DEF CallbackRecord
<1>6. owed \subseteq 1..latest
  <2>1. Touched(realm, latest) \subseteq 1..latest
    BY <1>2 DEF Touched
  <2> QED
    BY <1>1, <1>3, <2>1 DEF CallbackFits
<1>7. d \in CallbackRecord
  <2>1. owed \in SUBSET Nat /\ ex \in BOOLEAN
    <3>1. owed \in SUBSET Nat
      BY <1>2, <1>6
    <3>2. c.excused \in BOOLEAN
      BY <1>1 DEF CallbackRecord
    <3> QED
      BY <1>3, <3>1, <3>2
  <2> QED
    BY <1>1, <1>4, <2>1 DEF CallbackRecord
<1>8. notifier.has_run /\ Telling
  BY DEF IInv, LoopFits, Telling
<1>9. CallbackFits(d)
  <2>1. d.late => ex
    BY <1>1, <1>3, <1>5 DEF CallbackFits
  <2>2. /\ c.token \in 1..tokens /\ c.accumulated \subseteq 1..notifier.version
        /\ c.muted \subseteq 1..latest /\ {} \subseteq 1..latest
    BY <1>1 DEF CallbackFits
  <2> QED
    BY <1>5, <1>6, <1>8, <2>1, <2>2 DEF CallbackFits
<1>10. FlagFits(d)
  BY <1>1, <1>3, <1>5 DEF FlagFits
<1>11. NewsFits(d)
  <2>1. SUFFICES ASSUME ~d.excused
                 PROVE  NewsFits(d)
    BY DEF NewsFits, Live
  <2>2. ~c.excused /\ (c.initial \/ (~c.late /\ target.at = realm))
    BY <1>3, <1>5, <2>1
  <2>3. ~c.late
    BY <1>1, <2>2 DEF CallbackFits
  <2>4. Live(c)
    BY <1>8, <2>2, <2>3 DEF Live
  <2>5. /\ c.deliver \subseteq 1..target.at
        /\ c.accumulated \cup ToCome(c) = Touched(target.at, latest) \ c.muted
    BY <1>1, <1>8, <2>2, <2>3 DEF NewsFits
  <2>6. ToCome(d) = ToCome(c)
    BY <1>5 DEF ToCome
  <2>7. d.owed = c.accumulated \cup ToCome(c)
    <3>1. CASE c.initial
      <4>1. c.owed = c.deliver \cup (c.accumulated \cup ToCome(c))
        BY <1>1, <2>2, <3>1 DEF NewsFits
      <4>2. c.deliver \cap Touched(target.at, latest) = {}
        BY <1>2, <2>5 DEF Touched
      <4>3. c.deliver \cap (c.accumulated \cup ToCome(c)) = {}
        BY <2>5, <4>2
      <4> QED
        BY <1>3, <1>5, <3>1, <4>1, <4>3
    <3>2. CASE ~c.initial
      BY <1>3, <1>5, <2>2, <2>5, <3>2
    <3> QED
      BY <3>1, <3>2
  <2>8. notifier.has_run /\ notifier.seen >= notifier.version /\ ~worker.gap
    BY <1>1, <2>4 DEF NewsFits
  <2>9. {} \subseteq 1..target.at
    OBVIOUS
  <2> QED
    BY <1>5, <2>5, <2>6, <2>7, <2>8, <2>9 DEF NewsFits
<1> QED
  BY <1>5, <1>7, <1>9, <1>10, <1>11


\* The next callback is called.
LEMMA TellsNextKeeps ==
    ASSUME IInv, CallNext, target.pc \in {"before", "after"},
           NextDue(notifier, target.pc) # {}
    PROVE  IInv'
<1>j. PICK j : j = Earliest(NextDue(notifier, target.pc))
  OBVIOUS
<1>1. /\ UNCHANGED <<latest, touching, suppressed, tokens, worker, skip, async_error, woken, signalled,
                     realm, writing>>
      /\ notifier' = IF target.pc = "after"
                     THEN [[notifier EXCEPT !.index = j] EXCEPT
                              !.callbacks[j + 1] = Called([notifier EXCEPT !.index = j].callbacks[j + 1])]
                     ELSE [notifier EXCEPT !.index = j]
      /\ target' = [target EXCEPT !.calling = notifier.callbacks[j + 1].token]
  <2>1. AfterCall(notifier) = notifier
    BY DEF AfterCall
  <2> QED
    BY <1>j, <2>1 DEF CallNext, fileVars, workerVars
<1>2. /\ notifier \in NotifierRecord /\ Len(notifier.callbacks) \in Nat
      /\ DOMAIN notifier.callbacks = 1..Len(notifier.callbacks)
      /\ notifier.index \in Int /\ notifier.index >= -1
  <2>1. notifier \in NotifierRecord
    BY DEF IInv, StateFits
  <2> QED
    BY <2>1, CallbacksFacts, NumberFacts DEF IInv, LoopFits, NoCallback
<1>3. /\ j \in Nat /\ j + 1 \in DOMAIN notifier.callbacks /\ notifier.index < j
      /\ \A k \in NextDue(notifier, target.pc) : j <= k
  BY <1>2, <1>j, DueFacts, EarliestFacts
<1>i. PICK i : i = j + 1
  OBVIOUS
<1>4. PICK c : c = notifier.callbacks[i]
  OBVIOUS
<1>5. i \in DOMAIN notifier.callbacks /\ c \in CallbackRecord
  BY <1>2, <1>3, <1>i, <1>4, CallbacksFacts
<1>6. PICK d : d = IF target.pc = "after" THEN Called(c) ELSE c
  OBVIOUS
<1>7. /\ d \in CallbackRecord /\ d.token = c.token /\ d.late = c.late
      /\ target.pc = "after" => d.deliver = {}
      /\ CallbackFits(d) /\ FlagFits(d) /\ NewsFits(d)
  <2>1. CASE target.pc = "after"
    BY <1>4, <1>5, <1>6, <2>1, CalledFits
  <2>2. CASE target.pc # "after"
    BY <1>4, <1>5, <1>6, <2>2, CallbackFacts
  <2> QED
    BY <2>1, <2>2
<1>8. PICK rows : rows = [notifier.callbacks EXCEPT ![i] = d]
  OBVIOUS
<1>9. /\ rows \in Seq(CallbackRecord) /\ Len(rows) = Len(notifier.callbacks)
      /\ DOMAIN rows = DOMAIN notifier.callbacks
      /\ \A k \in DOMAIN notifier.callbacks :
            rows[k] = IF k = i THEN d ELSE notifier.callbacks[k]
  <2>1. notifier.callbacks \in Seq(CallbackRecord)
    BY <1>2 DEF NotifierRecord
  <2>2. /\ rows \in Seq(CallbackRecord) /\ Len(rows) = Len(notifier.callbacks)
        /\ \A k \in 1..Len(notifier.callbacks) :
              rows[k] = IF k = i THEN d ELSE notifier.callbacks[k]
    BY <1>5, <1>7, <1>8, <2>1, ReplaceFacts
  <2> QED
    BY <1>2, <1>8, <2>2
<1>10. notifier' = [notifier EXCEPT !.index = j, !.callbacks = rows]
  <2>1. CASE target.pc = "after"
    <3>1. PICK at : at = [notifier EXCEPT !.index = j]
      OBVIOUS
    <3>2. at.callbacks = notifier.callbacks
      BY <1>2, <3>1 DEF NotifierRecord
    <3>3. notifier' = [at EXCEPT !.callbacks[i] = Called(at.callbacks[i])]
      BY <1>1, <1>i, <2>1, <3>1
    <3>4. notifier' = [at EXCEPT !.callbacks[i] = d]
      BY <1>4, <1>6, <2>1, <3>2, <3>3
    <3>5. notifier' = [at EXCEPT !.callbacks = rows]
      BY <1>8, <3>2, <3>4
    <3> QED
      BY <1>2, <3>1, <3>5 DEF NotifierRecord
  <2>2. CASE target.pc = "before"
    <3>1. d = notifier.callbacks[i]
      BY <1>4, <1>6, <2>2
    <3>2. \A k \in DOMAIN notifier.callbacks : rows[k] = notifier.callbacks[k]
      BY <1>9, <3>1
    <3>3. rows = notifier.callbacks
      <4>1. notifier.callbacks \in Seq(CallbackRecord)
        BY <1>2 DEF NotifierRecord
      <4> QED
        BY <1>2, <1>9, <3>2, <4>1, SeqEqual
    <3>4. notifier' = [notifier EXCEPT !.index = j]
      BY <1>1, <2>2
    <3> QED
      BY <1>2, <3>3, <3>4 DEF NotifierRecord
  <2> QED
    BY <2>1, <2>2
<1>11. /\ notifier' \in NotifierRecord /\ notifier'.callbacks = rows /\ notifier'.index = j
       /\ notifier'.count = notifier.count /\ notifier'.have = notifier.have
       /\ notifier'.version = notifier.version /\ notifier'.has_run = notifier.has_run
       /\ notifier'.seen = notifier.seen /\ notifier'.new = notifier.new
  <2>1. notifier \in NotifierRecord /\ rows \in Seq(CallbackRecord) /\ j \in Int
    BY <1>2, <1>3, <1>9
  <2> QED
    BY <1>10, <2>1 DEF NotifierRecord
<1>12. /\ target' \in Standing /\ target'.pc = target.pc /\ target'.then = target.then
       /\ target'.want = target.want /\ target'.at = target.at
       /\ target'.shortened = target.shortened /\ target'.calling \in Nat
       /\ target'.calling <= tokens
  <2>1. target' = [target EXCEPT !.calling = c.token] /\ target \in Standing
    BY <1>1, <1>i, <1>4 DEF IInv, StateFits
  <2>2. c.token \in Nat /\ c.token <= tokens
    <3>1. c.token \in 1..tokens
      BY <1>7 DEF CallbackFits
    <3> QED
      BY <3>1, NumberFacts DEF IInv
  <2> QED
    BY <2>1, <2>2 DEF Standing
<1>13. ASSUME NEW k \in DOMAIN notifier.callbacks
       PROVE  /\ notifier'.callbacks[k].token = notifier.callbacks[k].token
              /\ notifier'.callbacks[k].late = notifier.callbacks[k].late
              /\ CallbackInv(notifier.callbacks[k])'
  <2>1. PICK e : e = rows[k]
    OBVIOUS
  <2>2. /\ e.token = notifier.callbacks[k].token /\ e.late = notifier.callbacks[k].late
        /\ CallbackFits(e) /\ FlagFits(e) /\ NewsFits(e)
    <3>1. CASE k = i
      BY <1>4, <1>5, <1>7, <1>9, <2>1, <3>1
    <3>2. CASE k # i
      <4>1. e = notifier.callbacks[k]
        BY <1>9, <2>1, <3>2
      <4> QED
        BY <4>1, CallbackFacts
    <3> QED
      BY <3>1, <3>2
  <2>3. CallbackFits(e)'
    BY <1>1, <1>11, <1>12, <2>2 DEF CallbackFits
  <2>4. FlagFits(e)'
    BY <1>1, <1>11, <2>2 DEF FlagFits, SkipEnd, Touched
  <2>5. NewsFits(e)'
    BY <1>1, <1>11, <1>12, <2>2 DEF NewsFits, Live, ToCome, Telling, Touched
  <2> QED
    BY <1>11, <2>1, <2>2, <2>3, <2>4, <2>5 DEF CallbackInv
<1>14. StateFits' /\ RoundFits'
  <2>1. /\ target'.at <= latest /\ target'.calling <= tokens'
        /\ tokens' \in 0..MaxTokens /\ realm' \in 0..latest
        /\ writing' \in BOOLEAN /\ woken' \in BOOLEAN /\ signalled' \in BOOLEAN
    BY <1>1, <1>12 DEF IInv, StateFits
  <2>9. (suppressed # {} => writing' /\ target'.pc \notin {"waiting", "before"}) /\ tokens <= tokens'
    BY <1>1, <1>12, NumberFacts DEF IInv, StateFits
  <2> QED
    BY <1>1, <1>11, <1>12, <2>1, <2>9, RoundStays
<1>15. WritersWaited'
  <2>1. ~OwnWrite
    BY DEF CallNext
  <2> QED
    BY <1>1, <1>11, <1>12, <2>1 DEF IInv, WritersWaited, Holding
<1>16. LoopFits'
  <2>1. j \in NoCallback..(Len(rows) - 1)
    BY <1>2, <1>3, <1>9 DEF NoCallback
  <2>2. rows = <<>> <=> notifier.callbacks = <<>>
    BY <1>2, <1>9, <1>11, CallbacksFacts
  <2>3. /\ notifier.have <=> notifier.callbacks # <<>>
        /\ target.pc = "before" => ~target.shortened
                   /\ \A k \in DOMAIN notifier.callbacks : ~notifier.callbacks[k].late
        /\ Telling => notifier.has_run
        /\ ~target.shortened =>
             /\ notifier.count \in 0..Len(notifier.callbacks)
             /\ \A k \in DOMAIN notifier.callbacks :
                    notifier.callbacks[k].late <=> k > notifier.count
    BY DEF IInv, LoopFits, Loops
  <2>4. \A k \in DOMAIN rows : rows[k].late = notifier.callbacks[k].late
    BY <1>9, <1>11, <1>13
  <2>5. ~target.shortened =>
             \A k \in DOMAIN rows : rows[k].late <=> k > notifier.count
    BY <1>9, <2>3, <2>4
  <2>6. target.pc = "before" => \A k \in DOMAIN rows : ~rows[k].late
    BY <1>9, <2>3, <2>4
  <2> QED
    BY <1>1, <1>9, <1>11, <1>12, <2>1, <2>2, <2>3, <2>5, <2>6 DEF LoopFits, Telling
<1>17. TokensDiffer'
  BY <1>9, <1>11, <1>13 DEF IInv, TokensDiffer
<1>18. ErrorLoopFits'
  BY <1>12 DEF ErrorLoopFits
<1>19. PassedAreTold'
  <2>1. SUFFICES ASSUME target.pc = "after", NEW k \in DOMAIN notifier.callbacks,
                        k <= j + 1 \/ target.shortened
                 PROVE  rows[k].excused \/ rows[k].deliver = {}
    BY <1>9, <1>11, <1>12 DEF PassedAreTold
  <2>2. CASE k = i
    BY <1>7, <1>9, <2>1, <2>2
  <2>3. CASE k # i
    <3>1. rows[k] = notifier.callbacks[k]
      BY <1>9, <2>3
    <3>2. CASE k <= notifier.index + 1 \/ target.shortened
      BY <2>1, <3>1, <3>2 DEF IInv, PassedAreTold
    <3>3. CASE ~(k <= notifier.index + 1 \/ target.shortened)
      <4>1. /\ k \in Nat /\ k > notifier.index + 1 /\ k < i /\ ~(j <= k - 1)
        BY <1>2, <1>3, <1>i, <2>1, <2>3, <3>3
      <4>2. k - 1 \notin NextDue(notifier, target.pc)
        BY <1>3, <4>1
      <4>3. k <= notifier.count \/ notifier.count < 0
        <5>1. j < notifier.count \/ notifier.count < 0
          BY <1>2, <1>j, DueFacts, EarliestFacts
        <5>2. notifier.count \in Int
          BY <1>2 DEF NotifierRecord
        <5> QED
          BY <1>3, <1>i, <4>1, <5>1, <5>2
      <4>4. ~Due("after", notifier.callbacks[k])
        BY <1>2, <2>1, <4>1, <4>2, <4>3, DueFacts
      <4> QED
        BY <3>1, <4>4 DEF Due
    <3> QED
      BY <3>2, <3>3
  <2> QED
    BY <2>2, <2>3
<1> QED
  BY <1>9, <1>11, <1>13, <1>14, <1>15, <1>16, <1>17, <1>18, <1>19 DEF IInv


\* Nobody is left to be called: the target moves on to the package's version, or
\* the round is over.  Only a loop whose count was cut short reads beyond the end.
LEMMA LoopEndsKeeps ==
    ASSUME IInv, CallNext, target.pc \in {"before", "after"},
           NextDue(notifier, target.pc) = {}
    PROVE  IInv'
<1>1. /\ UNCHANGED <<latest, touching, suppressed, tokens, worker, skip, async_error, woken, signalled>>
      /\ \/ /\ Overruns(notifier)
            /\ notifier' = notifier
            /\ target' = [AtRest EXCEPT !.pc = "undefined", !.shortened = target.shortened]
            /\ UNCHANGED <<realm, writing>>
         \/ /\ ~Overruns(notifier)
            /\ notifier' = [notifier EXCEPT !.index = NoCallback]
            /\ IF target.pc = "before"
               THEN /\ realm' = target.at /\ writing' = (target.then = "write")
                    /\ target' = [target EXCEPT !.pc = "after", !.calling = NoToken]
               ELSE target' = AtRest /\ UNCHANGED <<realm, writing>>
  <2>1. AfterCall(notifier) = notifier
    BY DEF AfterCall
  <2> QED
    BY <2>1 DEF CallNext, fileVars, workerVars
<1>2. /\ notifier \in NotifierRecord /\ target \in Standing
      /\ Len(notifier.callbacks) \in Nat
      /\ DOMAIN notifier.callbacks = 1..Len(notifier.callbacks)
      /\ notifier.index \in Int /\ notifier.index >= -1 /\ notifier.count \in Int
  <2>1. notifier \in NotifierRecord /\ target \in Standing
    BY DEF IInv, StateFits
  <2> QED
    BY <2>1, CallbacksFacts, NumberFacts DEF IInv, LoopFits, NoCallback
<1>3. /\ notifier' \in NotifierRecord /\ notifier'.callbacks = notifier.callbacks
      /\ notifier'.index = notifier.index \/ notifier'.index = NoCallback
      /\ ~Overruns(notifier) => notifier'.index = NoCallback
      /\ notifier'.count = notifier.count /\ notifier'.have = notifier.have
      /\ notifier'.version = notifier.version /\ notifier'.has_run = notifier.has_run
      /\ notifier'.seen = notifier.seen /\ notifier'.new = notifier.new
  <2>1. CASE notifier' = notifier /\ Overruns(notifier)
    BY <1>2, <2>1
  <2>2. CASE notifier' = [notifier EXCEPT !.index = NoCallback]
    BY <1>2, <2>2 DEF NotifierRecord, NoCallback
  <2> QED
    BY <1>1, <2>1, <2>2
<1>4. /\ notifier.index \in NoCallback..(Len(notifier.callbacks) - 1)
      /\ notifier.have <=> notifier.callbacks # <<>>
      /\ target.pc = "before" => ~target.shortened
               /\ \A i \in DOMAIN notifier.callbacks : ~notifier.callbacks[i].late
      /\ notifier.has_run
      /\ ~target.shortened =>
           /\ notifier.count \in 0..Len(notifier.callbacks)
           /\ \A i \in DOMAIN notifier.callbacks :
                  notifier.callbacks[i].late <=> i > notifier.count
  BY DEF IInv, LoopFits, Telling, Loops
<1>5. Overruns(notifier) => target.shortened
  BY <1>2, <1>4 DEF Overruns
\* Where it ends, nothing is left to be told.
<1>6. ASSUME target.pc = "after", ~Overruns(notifier), NEW i \in DOMAIN notifier.callbacks
      PROVE  notifier.callbacks[i].excused \/ notifier.callbacks[i].deliver = {}
  <2>1. CASE i <= notifier.index + 1 \/ target.shortened
    BY <1>6, <2>1 DEF IInv, PassedAreTold
  <2>2. CASE ~(i <= notifier.index + 1 \/ target.shortened)
    <3>1. i \in Nat /\ i > notifier.index + 1
      BY <1>2, <2>2
    <3>2. CASE i <= notifier.count
      <4>1. ~Due("after", notifier.callbacks[i])
        BY <1>2, <1>6, <3>1, <3>2, DueFacts
      <4> QED
        BY <4>1 DEF Due
    <3>3. CASE ~(i <= notifier.count)
      <4>1. notifier.callbacks[i].late
        BY <1>2, <1>4, <2>2, <3>1, <3>3
      <4>2. PICK c : c = notifier.callbacks[i]
        OBVIOUS
      <4>3. CallbackFits(c)
        BY <4>2, CallbackFacts
      <4> QED
        BY <4>1, <4>2, <4>3 DEF CallbackFits
    <3> QED
      BY <3>2, <3>3
  <2> QED
    BY <2>1, <2>2
<1>7. /\ target' \in Standing /\ target'.at <= latest /\ target'.calling = NoToken
      /\ realm' \in 0..latest /\ writing' \in BOOLEAN
      /\ \/ target'.pc = "undefined" /\ target'.shortened /\ UNCHANGED writing
         \/ /\ target.pc = "before" /\ target'.pc = "after" /\ ~Overruns(notifier)
            /\ target'.at = target.at /\ target'.then = target.then /\ ~target'.shortened
            /\ writing' = (target.then = "write")
         \/ /\ target.pc = "after" /\ target'.pc = "idle" /\ ~target'.shortened
            /\ ~Overruns(notifier) /\ UNCHANGED writing
  <2>1. realm \in 0..latest /\ writing \in BOOLEAN /\ target.at \in 0..latest /\ 0 <= latest
    BY NumberFacts DEF IInv, StateFits
  <2>2. CASE /\ Overruns(notifier)
             /\ target' = [AtRest EXCEPT !.pc = "undefined", !.shortened = target.shortened]
             /\ UNCHANGED <<realm, writing>>
    <3>1. target.shortened = TRUE
      BY <1>2, <1>5, <2>2 DEF Standing
    <3>2. target' = [AtRest EXCEPT !.pc = "undefined", !.shortened = TRUE]
      BY <2>2, <3>1
    <3>3. /\ target' \in Standing /\ target'.pc = "undefined" /\ target'.shortened
          /\ target'.at = 0 /\ target'.calling = NoToken
      BY <3>2 DEF AtRest, Standing, NoToken, Loops
    <3> QED
      BY <2>1, <2>2, <3>3
  <2>3. CASE /\ ~Overruns(notifier) /\ target.pc = "before"
             /\ realm' = target.at /\ writing' = (target.then = "write")
             /\ target' = [target EXCEPT !.pc = "after", !.calling = NoToken]
    <3>1. /\ target' \in Standing /\ target'.pc = "after" /\ target'.calling = NoToken
          /\ target'.at = target.at /\ target'.shortened = target.shortened
      BY <1>2, <2>3 DEF Standing, NoToken, Loops
    <3>2. (target.then = "write") \in BOOLEAN
      OBVIOUS
    <3> QED
      BY <1>4, <2>1, <2>3, <3>1, <3>2
  <2>4. CASE /\ ~Overruns(notifier) /\ target.pc = "after"
             /\ target' = AtRest /\ UNCHANGED <<realm, writing>>
    <3>1. /\ target' \in Standing /\ target'.pc = "idle" /\ ~target'.shortened
          /\ target'.at = 0 /\ target'.calling = NoToken
      BY <2>4 DEF AtRest, Standing, NoToken, Loops
    <3> QED
      BY <2>1, <2>4, <3>1
  <2> QED
    BY <1>1, <2>2, <2>3, <2>4
<1>8. ASSUME NEW i \in DOMAIN notifier.callbacks
      PROVE  CallbackInv(notifier.callbacks[i])'
  <2>1. PICK c : c = notifier.callbacks[i]
    OBVIOUS
  <2>2. CallbackFits(c) /\ FlagFits(c) /\ NewsFits(c)
    BY <2>1, CallbackFacts
  <2>3. target'.pc = "idle" => c.excused \/ c.deliver = {}
    BY <1>6, <1>7, <2>1
  <2>4. CallbackFits(c)'
    BY <1>1, <1>3, <1>7, <2>2, <2>3 DEF CallbackFits
  <2>5. FlagFits(c)'
    BY <1>1, <1>3, <2>2 DEF FlagFits, SkipEnd, Touched
  <2>6. NewsFits(c)'
    <3>1. Telling
      BY DEF Telling
    <3>2. Telling' => target'.at = target.at
      BY <1>7 DEF Telling
    <3> QED
      BY <1>1, <1>3, <2>2, <3>1, <3>2 DEF NewsFits, Live, ToCome, Touched
  <2> QED
    BY <1>3, <2>1, <2>4, <2>5, <2>6 DEF CallbackInv
<1>9. StateFits' /\ RoundFits'
  <2>1. /\ target'.calling <= tokens' /\ tokens' \in 0..MaxTokens
        /\ woken' \in BOOLEAN /\ signalled' \in BOOLEAN
    BY <1>1, <1>7, NumberFacts DEF IInv, StateFits, NoToken
  <2>9. (suppressed # {} => writing' /\ target'.pc \notin {"waiting", "before"}) /\ tokens <= tokens'
    BY <1>1, <1>7, NumberFacts DEF IInv, StateFits
  <2> QED
    BY <1>1, <1>3, <1>7, <2>1, <2>9, RoundStays
<1>10. WritersWaited'
  <2>1. ~OwnWrite
    BY DEF CallNext
  <2>2. Holding' => Holding
    BY <1>7, <2>1 DEF Holding
  <2> QED
    BY <1>1, <1>3, <1>7, <2>2 DEF IInv, WritersWaited
<1>11. LoopFits'
  <2>1. notifier'.index \in NoCallback..(Len(notifier.callbacks) - 1)
    BY <1>2, <1>3, <1>4 DEF NoCallback
  <2> QED
    BY <1>1, <1>3, <1>4, <1>7, <2>1 DEF LoopFits, Telling, Loops
<1>12. TokensDiffer'
  BY <1>3 DEF IInv, TokensDiffer
<1>13. ErrorLoopFits'
  BY <1>7 DEF ErrorLoopFits
<1>14. PassedAreTold'
  <2>1. SUFFICES ASSUME target'.pc = "after", NEW i \in DOMAIN notifier.callbacks,
                        i <= notifier'.index + 1 \/ target'.shortened
                 PROVE  FALSE
    BY <1>3 DEF PassedAreTold
  <2>2. ~target'.shortened /\ notifier'.index = NoCallback
    BY <1>3, <1>7, <2>1
  <2> QED
    BY <1>2, <2>1, <2>2 DEF NoCallback
<1> QED
  BY <1>3, <1>8, <1>9, <1>10, <1>11, <1>12, <1>13, <1>14 DEF IInv


\* A loop of error calls that goes on has taken the one just called out.
ErrorList(n) ==
    /\ n \in NotifierRecord /\ n.index = NoCallback
    /\ n.have <=> n.callbacks # <<>>
    /\ n.version = notifier.version /\ n.has_run = notifier.has_run
    /\ n.seen = notifier.seen /\ n.new = notifier.new
    /\ \A j \in DOMAIN n.callbacks :
          \E k \in DOMAIN notifier.callbacks : n.callbacks[j] = notifier.callbacks[k]
    /\ \A i, j \in DOMAIN n.callbacks :
          n.callbacks[i].token = n.callbacks[j].token => i = j
    /\ ~target.shortened =>
          /\ n.count \in 0..Len(n.callbacks)
          /\ \A i \in DOMAIN n.callbacks : n.callbacks[i].late <=> i > n.count

LEMMA AfterErrorCall ==
    ASSUME IInv, target.pc = "error"
    PROVE  ErrorList(AfterCall(notifier))
<1>1. /\ notifier \in NotifierRecord /\ Len(notifier.callbacks) \in Nat
      /\ DOMAIN notifier.callbacks = 1..Len(notifier.callbacks)
      /\ notifier.callbacks = <<>> <=> Len(notifier.callbacks) = 0
  <2>1. notifier \in NotifierRecord
    BY DEF IInv, StateFits
  <2> QED
    BY <2>1, CallbacksFacts
<1>2. /\ notifier.have <=> notifier.callbacks # <<>>
      /\ notifier.index \in NoCallback..(Len(notifier.callbacks) - 1)
      /\ ~target.shortened =>
           /\ notifier.count \in 0..Len(notifier.callbacks)
           /\ \A i \in DOMAIN notifier.callbacks :
                  notifier.callbacks[i].late <=> i > notifier.count
  BY DEF IInv, LoopFits, Loops
<1>3. CASE notifier.index = NoCallback /\ target.calling \notin Tokens(notifier)
  <2>1. AfterCall(notifier) = notifier
    BY <1>3 DEF AfterCall
  <2> QED
    BY <1>1, <1>2, <1>3, <2>1 DEF ErrorList, IInv, TokensDiffer
<1>4. CASE /\ notifier.index = 0 /\ notifier.callbacks[1].token = target.calling
           /\ target.shortened \/ ~notifier.callbacks[1].late
  <2>1. 1 \in DOMAIN notifier.callbacks
    BY <1>1, <1>2, <1>4
  <2>2. PICK token : token = target.calling
    OBVIOUS
  <2>3. token \in Tokens(notifier)
    BY <1>4, <2>1, <2>2 DEF Tokens
  <2>4. PICK n, p : n = remove_callback(notifier, token) /\ p = Place(notifier, token)
    OBVIOUS
  <2>5. AfterCall(notifier) = n
    BY <2>2, <2>3, <2>4 DEF AfterCall
  <2>6. p \in DOMAIN notifier.callbacks /\ notifier.callbacks[p].token = token
        /\ TakenOut(notifier, n, p)
    BY <1>1, <2>3, <2>4, RemoveFacts
  <2>7. p = 1
    BY <1>4, <2>1, <2>2, <2>6 DEF IInv, TokensDiffer
  <2>8. PICK have : have = (Len(notifier.callbacks) > 1)
    OBVIOUS
  <2>9. /\ n \in NotifierRecord /\ Len(n.callbacks) = Len(notifier.callbacks) - 1
        /\ \A j \in 1..(Len(notifier.callbacks) - 1) : n.callbacks[j] = notifier.callbacks[j + 1]
        /\ n = [notifier EXCEPT !.callbacks = n.callbacks, !.count = notifier.count - 1,
                                !.index = NoCallback, !.have = have]
    <3>1. /\ n \in NotifierRecord /\ Len(n.callbacks) = Len(notifier.callbacks) - 1
          /\ \A j \in 1..(Len(notifier.callbacks) - 1) :
                n.callbacks[j] = IF j < p THEN notifier.callbacks[j] ELSE notifier.callbacks[j + 1]
      BY <2>6 DEF TakenOut
    <3>2. PICK index : index = IF notifier.index # NoCallback /\ notifier.index >= p - 1
                               THEN notifier.index - 1 ELSE notifier.index
      OBVIOUS
    <3>3. n = [notifier EXCEPT !.callbacks = n.callbacks, !.count = notifier.count - 1,
                               !.index = index, !.have = have]
      BY <2>6, <2>8, <3>2 DEF TakenOut
    <3>4. index = NoCallback
      BY <1>4, <2>7, <3>2 DEF NoCallback
    <3>5. \A j \in 1..(Len(notifier.callbacks) - 1) : ~(j < p)
      BY <1>1, <2>7
    <3> QED
      BY <3>1, <3>3, <3>4, <3>5
  <2>10. /\ n.index = NoCallback /\ n.count = notifier.count - 1 /\ n.have = have
         /\ n.version = notifier.version /\ n.has_run = notifier.has_run
         /\ n.seen = notifier.seen /\ n.new = notifier.new
    BY <1>1, <2>9 DEF NotifierRecord
  <2>11. /\ DOMAIN n.callbacks = 1..(Len(notifier.callbacks) - 1)
         /\ n.callbacks = <<>> <=> Len(notifier.callbacks) - 1 = 0
    BY <2>9, CallbacksFacts
  <2>12. n.have <=> n.callbacks # <<>>
    <3>1. n.callbacks # <<>> <=> Len(notifier.callbacks) > 1
      BY <1>1, <2>1, <2>11
    <3>2. n.have <=> Len(notifier.callbacks) > 1
      BY <2>8, <2>10
    <3> QED
      BY <3>1, <3>2
  <2>13. ASSUME NEW j \in DOMAIN n.callbacks
         PROVE  /\ j \in Nat /\ j + 1 \in DOMAIN notifier.callbacks
                /\ n.callbacks[j] = notifier.callbacks[j + 1]
    BY <1>1, <2>9, <2>11
  <2>14. \A i, j \in DOMAIN n.callbacks : n.callbacks[i].token = n.callbacks[j].token => i = j
    <3>1. SUFFICES ASSUME NEW i \in DOMAIN n.callbacks, NEW j \in DOMAIN n.callbacks,
                          n.callbacks[i].token = n.callbacks[j].token
                   PROVE  i = j
      OBVIOUS
    <3>2. i + 1 = j + 1
      BY <2>13, <3>1 DEF IInv, TokensDiffer
    <3> QED
      BY <2>13, <3>2
  <2>15. ~target.shortened =>
            /\ n.count \in 0..Len(n.callbacks)
            /\ \A i \in DOMAIN n.callbacks : n.callbacks[i].late <=> i > n.count
    <3>1. SUFFICES ASSUME ~target.shortened
                   PROVE  /\ n.count \in 0..Len(n.callbacks)
                          /\ \A i \in DOMAIN n.callbacks : n.callbacks[i].late <=> i > n.count
      OBVIOUS
    <3>2. 1 <= notifier.count /\ notifier.count \in 0..Len(notifier.callbacks)
      BY <1>2, <1>4, <2>1, <3>1
    <3>3. n.count \in 0..Len(n.callbacks)
      BY <1>1, <2>9, <2>10, <3>2
    <3>4. ASSUME NEW i \in DOMAIN n.callbacks
          PROVE  n.callbacks[i].late <=> i > n.count
      <4>1. n.callbacks[i].late <=> i + 1 > notifier.count
        BY <1>2, <2>13, <3>1
      <4> QED
        BY <2>10, <2>13, <3>2, <4>1
    <3> QED
      BY <3>3, <3>4
  <2> QED
    BY <2>5, <2>9, <2>10, <2>12, <2>13, <2>14, <2>15 DEF ErrorList
<1> QED
  BY <1>3, <1>4 DEF IInv, ErrorLoopFits

\* Who is packaged is called: the first of the list comes next.
LEMMA FirstIsDue ==
    ASSUME NEW n \in NotifierRecord, n.index = NoCallback
    PROVE  /\ NextDue(n, "error") # {} =>
                 /\ Earliest(NextDue(n, "error")) = 0 /\ 1 \in DOMAIN n.callbacks
                 /\ 0 < n.count \/ n.count < 0
           /\ 1 \in DOMAIN n.callbacks /\ n.count >= 1 => NextDue(n, "error") # {}
<1>1. /\ n.index >= -1 /\ n.count \in Int /\ Len(n.callbacks) \in Nat
      /\ DOMAIN n.callbacks = 1..Len(n.callbacks)
  BY CallbacksFacts DEF NoCallback, NotifierRecord
<1>2. \A c : Due("error", c)
  BY DEF Due
<1>3. 1 \in DOMAIN n.callbacks /\ (n.count >= 1 \/ n.count < 0) => 0 \in NextDue(n, "error")
  <2>1. SUFFICES ASSUME 1 \in DOMAIN n.callbacks, n.count >= 1 \/ n.count < 0
                 PROVE  0 \in NextDue(n, "error")
    OBVIOUS
  <2>2. 1 > n.index + 1 /\ (1 <= n.count \/ n.count < 0)
    BY <1>1, <2>1 DEF NoCallback
  <2>3. 1 - 1 \in NextDue(n, "error")
    BY <1>1, <1>2, <2>1, <2>2, DueFacts
  <2> QED
    BY <2>3
<1>4. ASSUME NextDue(n, "error") # {}
      PROVE  /\ Earliest(NextDue(n, "error")) = 0 /\ 1 \in DOMAIN n.callbacks
             /\ 0 < n.count \/ n.count < 0
  <2>1. PICK j : j = Earliest(NextDue(n, "error"))
    OBVIOUS
  <2>2. /\ j \in Nat /\ j + 1 \in DOMAIN n.callbacks
        /\ j < n.count \/ n.count < 0
        /\ \A k \in NextDue(n, "error") : j <= k
    BY <1>1, <1>4, <2>1, DueFacts, EarliestFacts
  <2>3. 1 \in DOMAIN n.callbacks /\ (n.count >= 1 \/ n.count < 0)
    BY <1>1, <2>2
  <2>4. j <= 0
    BY <1>3, <2>2, <2>3
  <2> QED
    BY <1>1, <2>1, <2>2, <2>3, <2>4
<1> QED
  BY <1>3, <1>4

LEMMA ErrorGoesOnKeeps ==
    ASSUME IInv, CallNext, target.pc = "error"
    PROVE  IInv'
<1>1. PICK n : n = AfterCall(notifier)
  OBVIOUS
<1>2. ErrorList(n)
  BY <1>1, AfterErrorCall
<1>3. /\ UNCHANGED <<latest, touching, suppressed, tokens, worker, skip, async_error, woken, signalled,
                     realm, writing>>
      /\ \/ /\ NextDue(n, "error") # {}
            /\ notifier' = [n EXCEPT !.index = 0]
            /\ target' = [target EXCEPT !.calling = n.callbacks[1].token]
         \/ /\ Overruns(n)
            /\ notifier' = n
            /\ target' = [AtRest EXCEPT !.pc = "undefined", !.shortened = target.shortened]
         \/ /\ notifier' = [n EXCEPT !.index = NoCallback]
            /\ target' = AtRest
  <2>1. n \in NotifierRecord /\ n.index = NoCallback
    BY <1>2 DEF ErrorList
  <2>2. NextDue(n, "error") # {} => Earliest(NextDue(n, "error")) = 0
    BY <2>1, FirstIsDue
  <2> QED
    BY <1>1, <2>2 DEF CallNext, fileVars, workerVars
<1>4. /\ n \in NotifierRecord /\ n.index = NoCallback /\ target \in Standing
      /\ Len(n.callbacks) \in Nat /\ DOMAIN n.callbacks = 1..Len(n.callbacks)
      /\ async_error /\ ~notifier.has_run
  <2>1. n \in NotifierRecord /\ n.index = NoCallback
    BY <1>2 DEF ErrorList
  <2>2. target \in Standing /\ async_error
    BY DEF IInv, StateFits, LoopFits
  <2> QED
    BY <2>1, <2>2, CallbacksFacts DEF IInv, RoundFits
<1>5. PICK i : i \in {0, NoCallback} /\ notifier' = [n EXCEPT !.index = i]
               /\ (i = 0 => /\ NextDue(n, "error") # {}
                            /\ target' = [target EXCEPT !.calling = n.callbacks[1].token])
               /\ (i = NoCallback => target'.calling = NoToken /\ target'.pc \in {"undefined", "idle"})
  <2>1. CASE /\ NextDue(n, "error") # {}
             /\ notifier' = [n EXCEPT !.index = 0]
             /\ target' = [target EXCEPT !.calling = n.callbacks[1].token]
    <3>1. 0 # NoCallback
      BY DEF NoCallback
    <3> QED
      BY <2>1, <3>1
  <2>2. CASE /\ Overruns(n)
             /\ notifier' = n
             /\ target' = [AtRest EXCEPT !.pc = "undefined", !.shortened = target.shortened]
    <3>1. target'.calling = NoToken /\ target'.pc = "undefined"
      BY <2>2 DEF AtRest
    <3>2. n = [n EXCEPT !.index = NoCallback]
      BY <1>4 DEF NotifierRecord
    <3>3. 0 # NoCallback /\ NoCallback \in {0, NoCallback}
      BY DEF NoCallback
    <3>4. notifier' = [n EXCEPT !.index = NoCallback]
      BY <2>2, <3>2
    <3> QED
      BY <3>1, <3>3, <3>4
  <2>3. CASE /\ notifier' = [n EXCEPT !.index = NoCallback]
             /\ target' = AtRest
    <3>1. target'.calling = NoToken /\ target'.pc = "idle"
      BY <2>3 DEF AtRest
    <3> QED
      BY <2>3, <3>1 DEF NoCallback
  <2> QED
    BY <1>3, <2>1, <2>2, <2>3
<1>6. /\ notifier' \in NotifierRecord /\ notifier'.callbacks = n.callbacks /\ notifier'.index = i
      /\ notifier'.count = n.count /\ notifier'.have = n.have
      /\ notifier'.version = notifier.version /\ notifier'.has_run = notifier.has_run
      /\ notifier'.seen = notifier.seen /\ notifier'.new = notifier.new
  <2>1. notifier' = [n EXCEPT !.index = i] /\ i \in Int
    BY <1>5 DEF NoCallback
  <2>2. /\ n.version = notifier.version /\ n.has_run = notifier.has_run
        /\ n.seen = notifier.seen /\ n.new = notifier.new
    BY <1>2 DEF ErrorList
  <2> QED
    BY <1>4, <2>1, <2>2 DEF NotifierRecord
<1>7. /\ ~target.shortened =>
           /\ n.count \in 0..Len(n.callbacks)
           /\ \A k \in DOMAIN n.callbacks : n.callbacks[k].late <=> k > n.count
      /\ Overruns(n) => target.shortened
  <2>1. ~target.shortened =>
           /\ n.count \in 0..Len(n.callbacks)
           /\ \A k \in DOMAIN n.callbacks : n.callbacks[k].late <=> k > n.count
    BY <1>2 DEF ErrorList
  <2> QED
    BY <1>4, <2>1 DEF Overruns
<1>8. ASSUME NEW k \in DOMAIN n.callbacks
      PROVE  /\ n.callbacks[k].token \in 1..tokens
             /\ CallbackInv(notifier.callbacks[k])'
  <2>1. PICK k2 \in DOMAIN notifier.callbacks : n.callbacks[k] = notifier.callbacks[k2]
    BY <1>2 DEF ErrorList
  <2>2. PICK c : c = n.callbacks[k]
    OBVIOUS
  <2>3. CallbackFits(c)
    BY <2>1, <2>2, CallbackFacts
  <2>4. ~c.initial /\ c.deliver = {}
    BY <1>4, <2>3 DEF CallbackFits
  <2>5. CallbackFits(c)'
    BY <1>3, <1>6, <2>3, <2>4 DEF CallbackFits
  <2>6. FlagFits(c)'
    BY <1>4, <1>6 DEF FlagFits
  <2>7. NewsFits(c)'
    <3>1. ~Telling'
      <4>1. target'.pc \in {"error", "undefined", "idle"}
        BY <1>4, <1>5 DEF Standing
      <4> QED
        BY <4>1 DEF Telling
    <3> QED
      BY <2>4, <3>1 DEF NewsFits, Live
  <2>8. c.token \in 1..tokens
    BY <2>3 DEF CallbackFits
  <2> QED
    BY <1>6, <2>2, <2>5, <2>6, <2>7, <2>8 DEF CallbackInv
<1>9. /\ target' \in Standing /\ target'.at <= latest /\ target'.calling <= tokens
      /\ \/ /\ i = 0 /\ target'.pc = "error" /\ target'.shortened = target.shortened
            /\ target'.then = target.then
            /\ 1 \in DOMAIN n.callbacks /\ target'.calling = n.callbacks[1].token
            /\ 0 < n.count \/ n.count < 0
         \/ i = NoCallback /\ target'.pc = "undefined" /\ target'.shortened
         \/ i = NoCallback /\ target'.pc = "idle" /\ ~target'.shortened
      /\ i = NoCallback => target'.calling = NoToken
  <2>1. latest \in Nat /\ tokens \in Nat /\ target.at <= latest
    BY NumberFacts DEF IInv
  <2>2. CASE i = 0
    <3>1. 1 \in DOMAIN n.callbacks /\ (0 < n.count \/ n.count < 0)
      BY <1>4, <1>5, <2>2, FirstIsDue
    <3>2. PICK token : token = n.callbacks[1].token
      OBVIOUS
    <3>3. token \in Nat /\ token <= tokens
      BY <1>8, <2>1, <3>1, <3>2
    <3>4. target' = [target EXCEPT !.calling = token]
      BY <1>5, <2>2, <3>2
    <3>5. /\ target' \in Standing /\ target'.at = target.at /\ target'.calling = token
          /\ target'.pc = "error" /\ target'.shortened = target.shortened
          /\ target'.then = target.then
      BY <1>4, <3>3, <3>4 DEF Standing
    <3> QED
      BY <2>1, <2>2, <3>1, <3>2, <3>3, <3>5 DEF NoCallback
  <2>3. CASE i = NoCallback
    <3>1. target'.pc \in {"undefined", "idle"} /\ target'.calling = NoToken
      BY <1>5, <2>3
    <3>2. CASE /\ Overruns(n)
               /\ target' = [AtRest EXCEPT !.pc = "undefined", !.shortened = target.shortened]
      <4>1. target.shortened = TRUE
        BY <1>4, <1>7, <3>2 DEF Standing
      <4>2. target' = [AtRest EXCEPT !.pc = "undefined", !.shortened = TRUE]
        BY <3>2, <4>1
      <4>3. /\ target' \in Standing /\ target'.pc = "undefined" /\ target'.shortened
            /\ target'.at = 0
        BY <4>2 DEF AtRest, Standing, NoToken, Loops
      <4> QED
        BY <2>1, <2>3, <3>1, <4>3 DEF NoToken
    <3>3. CASE target' = AtRest
      <4>1. /\ target' \in Standing /\ target'.pc = "idle" /\ ~target'.shortened
            /\ target'.at = 0
        BY <3>3 DEF AtRest, Standing, NoToken, Loops
      <4> QED
        BY <2>1, <2>3, <3>1, <4>1 DEF NoToken
    <3>4. target' # [target EXCEPT !.calling = n.callbacks[1].token]
      <4>1. [target EXCEPT !.calling = n.callbacks[1].token].pc = "error"
        BY <1>4 DEF Standing
      <4> QED
        BY <3>1, <4>1
    <3> QED
      BY <1>3, <3>2, <3>3, <3>4
  <2> QED
    BY <1>5, <2>2, <2>3
<1>10. StateFits' /\ RoundFits'
  <2>1. /\ tokens' \in 0..MaxTokens /\ realm' \in 0..latest
        /\ writing' \in BOOLEAN /\ woken' \in BOOLEAN /\ signalled' \in BOOLEAN
    BY <1>3 DEF IInv, StateFits
  <2>9. (suppressed # {} => writing' /\ target'.pc \notin {"waiting", "before"}) /\ tokens <= tokens'
    BY <1>3, <1>9, NumberFacts DEF IInv, StateFits
  <2> QED
    BY <1>3, <1>6, <1>9, <2>1, <2>9, RoundStays
<1>11. WritersWaited'
  BY <1>3, <1>4, <1>9 DEF IInv, WritersWaited, Holding, OwnWrite, InCallback
<1>12. LoopFits'
  <2>1. n.have <=> n.callbacks # <<>>
    BY <1>2 DEF ErrorList
  <2>2. i \in NoCallback..(Len(n.callbacks) - 1)
    BY <1>4, <1>9 DEF NoCallback
  <2> QED
    BY <1>3, <1>4, <1>6, <1>7, <1>9, <2>1, <2>2 DEF LoopFits, Telling, Loops
<1>13. TokensDiffer'
  BY <1>2, <1>6 DEF ErrorList, TokensDiffer
<1>14. ErrorLoopFits'
  <2>1. SUFFICES ASSUME target'.pc = "error"
                 PROVE  ErrorLoopFits'
    BY DEF ErrorLoopFits
  <2>2. /\ i = 0 /\ target'.shortened = target.shortened
        /\ 1 \in DOMAIN n.callbacks /\ target'.calling = n.callbacks[1].token
        /\ 0 < n.count \/ n.count < 0
    BY <1>9, <2>1
  <2>3. ~target.shortened => ~n.callbacks[1].late
    <3>1. ~target.shortened => n.count \in Nat /\ ~(1 > n.count)
      BY <1>4, <1>7, <2>2
    <3> QED
      BY <1>7, <2>2, <3>1
  <2> QED
    BY <1>6, <2>2, <2>3 DEF ErrorLoopFits
<1>15. PassedAreTold'
  BY <1>9 DEF PassedAreTold
<1> QED
  BY <1>6, <1>8, <1>10, <1>11, <1>12, <1>13, <1>14, <1>15 DEF IInv


-----------------------------------------------------------------------------
(* The invariant of every behaviour                                          *)

LEMMA InitInv == Init => IInv
<1> SUFFICES ASSUME Init PROVE IInv
  OBVIOUS
<1>1. /\ latest = 0 /\ touching = {} /\ realm = 0 /\ writing = FALSE /\ suppressed = {}
      /\ notifier = NewNotifier(0) /\ tokens = 0 /\ skip = 0
      /\ worker = NoRound /\ woken = FALSE /\ signalled = FALSE /\ async_error = FALSE
      /\ target = AtRest
  BY DEF Init
<1>2. /\ notifier.callbacks = <<>> /\ notifier.index = NoCallback /\ ~notifier.have
      /\ notifier.version = 0 /\ ~notifier.has_run /\ notifier.seen = 0 /\ notifier.new = TRUE
  BY <1>1 DEF NewNotifier
<1>3. notifier \in NotifierRecord
  <2>1. <<>> \in Seq(CallbackRecord) /\ NoCallback \in Int
    BY EmptySeq DEF NoCallback
  <2> QED
    BY <1>1, <2>1 DEF NewNotifier, NotifierRecord
<1>4. /\ worker \in Round /\ worker.stage = "idle" /\ worker.skip = 0 /\ worker.to = 0
      /\ worker.changes = {} /\ ~worker.gap
  BY <1>1 DEF NoRound, Round
<1>5. /\ target \in Standing /\ target.pc = "idle" /\ target.at = 0
      /\ target.calling = NoToken /\ ~target.shortened
  BY <1>1 DEF AtRest, Standing, NoToken, Loops
<1>6. DOMAIN notifier.callbacks = {} /\ Len(notifier.callbacks) = 0
  <2>1. DOMAIN <<>> = {} /\ Len(<<>>) = 0
    OBVIOUS
  <2> QED
    BY <1>2, <2>1
<1>7. StateFits
  <2>1. 0 \in Versions /\ 0 \in 0..MaxTokens
    BY BoundsAssumption DEF Versions
  <2>2. {} \in SUBSET (1..0) /\ 0 \in 0..0 /\ 0 <= 0
    OBVIOUS
  <2>3. latest \in Versions /\ touching \in SUBSET (1..latest) /\ realm \in 0..latest
        /\ tokens \in 0..MaxTokens
    BY <1>1, <2>1, <2>2
  <2>4. /\ writing \in BOOLEAN /\ woken \in BOOLEAN /\ signalled \in BOOLEAN
        /\ async_error \in BOOLEAN
    BY <1>1
  <2>5. target.at <= latest /\ target.calling <= tokens
    BY <1>1, <1>5, <2>2 DEF NoToken
  <2>6. suppressed \in SUBSET (1..tokens) /\ suppressed = {}
    BY <1>1
  <2> QED
    BY <1>3, <1>4, <1>5, <2>3, <2>4, <2>5, <2>6 DEF StateFits
<1>8. RoundFits
  BY <1>1, <1>2, <1>4 DEF RoundFits
<1>9. WritersWaited
  BY <1>1, <1>5 DEF WritersWaited, Holding, OwnWrite, InCallback
<1>10. LoopFits
  <2>1. NoCallback \in NoCallback..(0 - 1)
    BY DEF NoCallback
  <2> QED
    BY <1>2, <1>5, <1>6, <2>1 DEF LoopFits, Telling, Loops
<1>11. TokensDiffer /\ ErrorLoopFits /\ PassedAreTold
  BY <1>5, <1>6 DEF TokensDiffer, ErrorLoopFits, PassedAreTold
<1> QED
  BY <1>6, <1>7, <1>8, <1>9, <1>10, <1>11 DEF IInv

LEMMA StutterKeeps ==
    ASSUME IInv, UNCHANGED vars
    PROVE  IInv'
<1>1. UNCHANGED <<latest, touching, suppressed, realm, writing, notifier, tokens, skip, worker,
                  woken, signalled, async_error, target>>
  BY DEF vars
<1>2. StateFits' /\ RoundFits' /\ WritersWaited' /\ LoopFits'
  BY <1>1 DEF IInv, StateFits, RoundFits, RoundEnd, Touched, WritersWaited, Holding, OwnWrite, InCallback, LoopFits,
              Telling
<1>3. TokensDiffer' /\ ErrorLoopFits' /\ PassedAreTold'
  BY <1>1 DEF IInv, TokensDiffer, ErrorLoopFits, PassedAreTold
<1>4. ASSUME NEW i \in DOMAIN notifier.callbacks
      PROVE  CallbackInv(notifier.callbacks[i])'
  <2>1. PICK c : c = notifier.callbacks[i]
    OBVIOUS
  <2>2. CallbackFits(c) /\ FlagFits(c) /\ NewsFits(c)
    BY <2>1, CallbackFacts
  <2>3. CallbackFits(c)' /\ FlagFits(c)' /\ NewsFits(c)'
    BY <1>1, <2>2 DEF CallbackFits, FlagFits, SkipEnd, Touched, NewsFits, Live, ToCome, Telling
  <2> QED
    BY <1>1, <2>1, <2>3 DEF CallbackInv
<1> QED
  BY <1>1, <1>2, <1>3, <1>4 DEF IInv

LEMMA CallNextKeeps ==
    ASSUME IInv, CallNext
    PROVE  IInv'
<1>1. target.pc \in {"before", "after", "error"}
  BY DEF CallNext, Loops
<1> QED
  BY <1>1, TellsNextKeeps, LoopEndsKeeps, ErrorGoesOnKeeps

LEMMA StepKeeps == IInv /\ [Next]_vars => IInv'
<1> SUFFICES ASSUME IInv, [Next]_vars PROVE IInv'
  OBVIOUS
<1>1. CASE TargetStep
  BY <1>1, NotifyKeeps, EndWaitKeeps, CallNextKeeps DEF TargetStep
<1>2. CASE WorkerStep
  BY <1>2, WorkerStartKeeps, WorkerFailsKeeps, WorkerRunKeeps, WorkerHandoverKeeps DEF WorkerStep
<1>3. CASE EndWrite
  BY <1>3, WritingKeeps, CommitKeeps DEF EndWrite
<1>4. CASE Refresh \/ BeginWrite
  BY <1>4, ToLatestKeeps DEF Refresh, BeginWrite
<1>5. CASE AddCallback
  BY <1>5, AddCallbackKeeps
<1>6. CASE \E touches \in BOOLEAN : OtherCommit(touches)
  BY <1>6, OtherCommitKeeps
<1>7. CASE BeginInCallback
  BY <1>7, WritingKeeps
<1>8. CASE \E token \in Tokens(notifier) : RemoveCallback(token)
  BY <1>8, RemoveCallbackKeeps
<1>9. CASE \E token \in Tokens(notifier) : suppress_next_notification(token)
  BY <1>9, SuppressKeeps
<1>10. CASE UNCHANGED vars
  BY <1>10, StutterKeeps
<1> QED
  BY <1>1, <1>2, <1>3, <1>4, <1>5, <1>6, <1>7, <1>8, <1>9, <1>10 DEF Next

LEMMA AlwaysIInv == Spec => []IInv
BY InitInv, StepKeeps, PTL DEF Spec

-----------------------------------------------------------------------------
(* The results                                                               *)

\* The state keeps its types; neither the worker nor the target runs ahead of the
\* file, and m_have_callbacks says whether there are callbacks.
THEOREM StateIsTyped == Spec => []TypeOK
<1>1. IInv => TypeOK
  <2> SUFFICES ASSUME IInv PROVE TypeOK
    OBVIOUS
  <2>1. /\ latest \in Versions /\ touching \subseteq 1..latest /\ realm \in 0..latest
        /\ writing \in BOOLEAN /\ woken \in BOOLEAN /\ signalled \in BOOLEAN
        /\ async_error \in BOOLEAN /\ tokens \in 0..MaxTokens /\ skip \in 0..latest
        /\ suppressed \subseteq 1..tokens /\ (suppressed # {} => writing)
        /\ notifier \in NotifierRecord /\ worker \in Round /\ target \in Standing
    BY DEF IInv, StateFits, RoundFits
  <2>2. ASSUME NEW c \in Callbacks
        PROVE  /\ c.token \in 1..tokens
               /\ c.accumulated \cup c.deliver \cup c.owed \cup c.muted \subseteq 1..latest
               /\ {c.initial, c.skip, c.late, c.excused} \subseteq BOOLEAN
    <3>1. PICK i \in DOMAIN notifier.callbacks : c = notifier.callbacks[i]
      BY DEF Callbacks
    <3>2. c \in CallbackRecord /\ CallbackFits(c)
      BY <3>1, CallbackFacts
    <3>3. c.accumulated \subseteq 1..latest
      BY <3>2, NumberFacts DEF IInv, CallbackFits
    <3>4. /\ c.initial \in BOOLEAN /\ c.skip \in BOOLEAN /\ c.late \in BOOLEAN
          /\ c.excused \in BOOLEAN
      BY <3>2 DEF CallbackRecord
    <3> QED
      BY <3>2, <3>3, <3>4 DEF CallbackFits
  <2>3. notifier.version \in 0..latest /\ notifier.seen \in 0..latest
    <3>1. notifier.seen <= notifier.version \/ notifier.seen <= RoundEnd
      BY <2>1 DEF IInv, RoundFits, Round
    <3> QED
      BY <3>1, NumberFacts DEF IInv
  <2>4. /\ notifier.have \in BOOLEAN /\ notifier.has_run \in BOOLEAN /\ notifier.wants \in BOOLEAN
        /\ notifier.view \in BOOLEAN /\ notifier.new \in BOOLEAN
    BY <2>1 DEF NotifierRecord
  <2>5. notifier.have <=> notifier.callbacks # <<>>
    BY DEF IInv, LoopFits
  <2>6. /\ worker.stage \in {"idle", "skip", "skipped", "rest", "ran"}
        /\ worker.to \in 0..latest /\ worker.skip \in 0..worker.to
        /\ worker.changes \subseteq 1..latest
    <3>1. worker.stage \in {"idle", "skip", "skipped", "rest", "ran"}
      BY <2>1 DEF Round
    <3>2. worker.changes = {} \/ worker.changes \subseteq 1..RoundEnd
      BY <3>1 DEF IInv, RoundFits
    <3>3. worker.skip <= worker.to
      BY DEF IInv, RoundFits
    <3> QED
      BY <3>1, <3>2, <3>3, NumberFacts DEF IInv
  <2>7. /\ target.pc \in Loops \cup {"idle", "waiting", "undefined"}
        /\ target.at \in 0..latest /\ target.calling \in 0..tokens
    BY <2>1, NumberFacts DEF IInv, Standing
  <2> QED
    BY <2>1, <2>2, <2>3, <2>4, <2>5, <2>6, <2>7 DEF TypeOK
<1> QED
  BY <1>1, AlwaysIInv, PTL

\* What waits for a callback and what is still to be read is, in the middle of a
\* round or not, what happened after the last handover.
LEMMA NewsComes ==
    ASSUME IInv, NEW i \in DOMAIN notifier.callbacks, NEW c, c = notifier.callbacks[i], Live(c)
    PROVE  ComesLater(c) = c.accumulated \cup ToCome(c)
<1>1. c \in CallbackRecord /\ CallbackFits(c) /\ FlagFits(c) /\ NewsFits(c)
  BY CallbackFacts
<1>2. notifier.has_run /\ notifier.seen >= notifier.version /\ ~worker.gap /\ ~c.excused
  BY <1>1 DEF NewsFits, Live
<1>3. worker.stage \in {"idle", "skip", "skipped", "rest", "ran"}
  BY DEF IInv, StateFits, Round
<1>4. CASE worker.stage \in {"idle", "skip", "rest"}
  <2>1. worker.changes = {} /\ notifier.seen <= notifier.version
    BY <1>4 DEF IInv, RoundFits
  <2>2. notifier.seen = notifier.version
    BY <1>2, <2>1, NumberFacts DEF IInv
  <2> QED
    BY <2>1, <2>2 DEF ComesLater, ToCome
<1>5. CASE worker.stage \in {"skipped", "ran"}
  <2>1. PICK e : e = RoundEnd
    OBVIOUS
  <2>2. notifier.seen = e /\ worker.changes = Touched(notifier.version, e)
    BY <1>2, <1>5, <2>1 DEF IInv, RoundFits
  <2>3. e \in Nat /\ notifier.version <= e /\ e <= latest
    BY <1>2, <2>1, <2>2, NumberFacts DEF IInv
  <2>4. Touched(notifier.version, latest) = Touched(notifier.version, e) \cup Touched(e, latest)
    BY <2>3, NumberFacts, TouchedFacts DEF IInv
  <2>5. CASE c.skip
    <3>1. Touched(notifier.version, e) \subseteq c.muted
      <4>1. CASE c.token \in suppressed
        <5>1. notifier.version = e
          BY <1>1, <1>2, <2>3, <2>5, <4>1, NumberFacts DEF IInv, FlagFits
        <5> QED
          BY <2>3, <5>1, TouchedFacts DEF IInv
      <4>2. CASE c.token \notin suppressed
        <5>1. worker.stage = "skipped" /\ SkipEnd = e
          BY <1>1, <1>2, <1>5, <2>1, <2>5, <4>2 DEF FlagFits, SkipEnd, RoundEnd
        <5> QED
          BY <1>1, <1>2, <2>5, <4>2, <5>1 DEF FlagFits
      <4> QED
        BY <4>1, <4>2
    <3> QED
      BY <2>2, <2>4, <2>5, <3>1 DEF ComesLater, ToCome
  <2>6. CASE ~c.skip
    <3>1. Touched(notifier.version, latest) \cap c.muted = {}
      BY <1>1, <1>2, <2>6 DEF FlagFits
    <3> QED
      BY <2>2, <2>4, <2>6, <3>1 DEF ComesLater, ToCome
  <2> QED
    BY <2>5, <2>6
<1> QED
  BY <1>3, <1>4, <1>5

\* What a callback has still to be told of is what waits for it in its two change
\* sets, in the worker's hands, and in the commits the worker has not read.
THEOREM NewsStaysConserved == Spec => []NewsIsConserved
<1>1. IInv => NewsIsConserved
  <2> SUFFICES ASSUME IInv, NEW c \in Counted
               PROVE  c.owed = c.deliver \cup ComesLater(c)
    BY DEF NewsIsConserved
  <2>1. PICK i \in DOMAIN notifier.callbacks : c = notifier.callbacks[i]
    BY DEF Counted, Callbacks
  <2>2. c.initial /\ ~c.excused /\ NewsFits(c)
    BY <2>1, CallbackFacts DEF Counted
  <2>3. ComesLater(c) = c.accumulated \cup ToCome(c)
    BY <2>1, <2>2, NewsComes DEF Live
  <2> QED
    BY <2>2, <2>3 DEF NewsFits
<1> QED
  BY <1>1, AlwaysIInv, PTL

\* A package ends at the version it is delivered at, and what comes after it is
\* what happened after that version.
THEOREM PackagesMatchVersions == Spec => []NewsMatchesVersion
<1>1. IInv => NewsMatchesVersion
  <2> SUFFICES ASSUME IInv, target.pc \in {"before", "after"}, NEW c \in Callbacks,
                      ~c.late, ~c.excused
               PROVE  /\ c.deliver \subseteq 1..target.at
                      /\ ComesLater(c) = Touched(target.at, latest) \ c.muted
    BY DEF NewsMatchesVersion
  <2>1. PICK i \in DOMAIN notifier.callbacks : c = notifier.callbacks[i]
    BY DEF Callbacks
  <2>2. Telling /\ NewsFits(c)
    BY <2>1, CallbackFacts DEF Telling
  <2>3. ComesLater(c) = c.accumulated \cup ToCome(c)
    BY <2>1, <2>2, NewsComes DEF Live
  <2> QED
    BY <2>2, <2>3 DEF NewsFits
<1> QED
  BY <1>1, AlwaysIInv, PTL

\* Unless a late callback was removed, the loops' count is that of the packaged
\* callbacks, and no index overruns.
THEOREM LoopsSeePackages == Spec => []LoopSeesPackage
<1>1. IInv => LoopSeesPackage
  <2> SUFFICES ASSUME IInv, target.pc \in Loops, ~target.shortened
               PROVE  notifier.count = Cardinality({c \in Callbacks : ~c.late})
    BY DEF LoopSeesPackage, IInv, LoopFits
  <2>1. /\ Len(notifier.callbacks) \in Nat
        /\ DOMAIN notifier.callbacks = 1..Len(notifier.callbacks)
    BY CallbacksFacts DEF IInv, StateFits
  <2>2. /\ notifier.count \in 0..Len(notifier.callbacks)
        /\ \A i \in DOMAIN notifier.callbacks :
               notifier.callbacks[i].late <=> i > notifier.count
    BY DEF IInv, LoopFits
  <2>3. PICK n, packaged : n = notifier.count /\ packaged = {c \in Callbacks : ~c.late}
    OBVIOUS
  <2>4. n \in Nat /\ 1..n \subseteq DOMAIN notifier.callbacks
    BY <2>1, <2>2, <2>3
  <2>5. PICK f : f = [i \in 1..n |-> notifier.callbacks[i]]
    OBVIOUS
  <2>6. \A i \in 1..n : f[i] \in packaged
    <3>1. SUFFICES ASSUME NEW i \in 1..n
                   PROVE  f[i] \in packaged
      OBVIOUS
    <3>2. i \in DOMAIN notifier.callbacks /\ ~(i > notifier.count)
      BY <2>3, <2>4
    <3> QED
      BY <2>2, <2>3, <2>5, <3>2 DEF Callbacks
  <2>7. \A c \in packaged : \E i \in 1..n : f[i] = c
    <3>1. SUFFICES ASSUME NEW c \in packaged
                   PROVE  \E i \in 1..n : f[i] = c
      OBVIOUS
    <3>2. PICK i \in DOMAIN notifier.callbacks : c = notifier.callbacks[i]
      BY <2>3 DEF Callbacks
    <3>3. ~(i > notifier.count)
      BY <2>2, <2>3, <3>2
    <3>4. i \in 1..n
      BY <2>1, <2>2, <2>3, <3>3
    <3> QED
      BY <2>5, <3>2, <3>4
  <2>8. \A i, j \in 1..n : f[i] = f[j] => i = j
    BY <2>4, <2>5 DEF IInv, TokensDiffer
  <2>9. f \in Bijection(1..n, packaged)
    BY <2>5, <2>6, <2>7, <2>8 DEF Bijection, Injection, Surjection, IsInjective
  <2>10. IsFiniteSet(1..n) /\ Cardinality(1..n) = n
    BY <2>4, FS_Interval
  <2>11. Cardinality(packaged) = n
    BY <2>9, <2>10, FS_Bijection DEF ExistsBijection
  <2> QED
    BY <2>3, <2>11
<1> QED
  BY <1>1, AlwaysIInv, PTL

\* A round of error calls leaves no callback that was registered when it began.
THEOREM EveryoneHearsErrors == Spec => ErrorsReachEveryone
<1>1. IInv /\ [Next]_vars =>
        (target.pc = "error" /\ target'.pc = "idle" /\ ~target.shortened
            => \A c \in {notifier'.callbacks[i] : i \in DOMAIN notifier'.callbacks} : c.late)
  <2> SUFFICES ASSUME IInv, [Next]_vars,
                      target.pc = "error", target'.pc = "idle", ~target.shortened
               PROVE  \A i \in DOMAIN notifier'.callbacks : notifier'.callbacks[i].late
    OBVIOUS
  <2>1. CallNext
    <3>1. target' # target
      OBVIOUS
    <3>2. ~(\E token \in Tokens(notifier) : RemoveCallback(token))
      <4>1. SUFFICES ASSUME NEW token, RemoveCallback(token)
                     PROVE  target'.pc = target.pc
        OBVIOUS
      <4>2. PICK short : target' = [target EXCEPT !.shortened = short]
        BY <4>1 DEF RemoveCallback
      <4> QED
        BY <4>2 DEF IInv, StateFits, Standing
    <3>3. ~WorkerStep
      BY <3>1 DEF WorkerStep, WorkerStart, WorkerFails, WorkerRun, WorkerHandover
    <3>4. ~Notify /\ ~EndWait /\ ~Refresh /\ ~BeginWrite
      BY DEF Notify, Idle, EndWait, Refresh, BeginWrite, ToLatest
    <3>5. ~EndWrite /\ ~AddCallback
      BY <3>1 DEF EndWrite, cancel_transaction, commit_write, AddCallback
    <3>6. ~(\E touches \in BOOLEAN : OtherCommit(touches))
      BY <3>1 DEF OtherCommit
    <3>7. ~BeginInCallback /\ ~(\E token \in Tokens(notifier) : suppress_next_notification(token))
      BY <3>1 DEF BeginInCallback, suppress_next_notification
    <3>8. ~UNCHANGED vars
      BY <3>1 DEF vars
    <3> QED
      BY <3>2, <3>3, <3>4, <3>5, <3>6, <3>7, <3>8 DEF Next, TargetStep
  <2>2. PICK n : n = AfterCall(notifier)
    OBVIOUS
  <2>3. ErrorList(n)
    BY <2>2, AfterErrorCall
  <2>4. n \in NotifierRecord /\ n.index = NoCallback
    BY <2>3 DEF ErrorList
  <2>5. NextDue(n, "error") = {} /\ notifier' = [n EXCEPT !.index = NoCallback]
    <3>1. CASE /\ NextDue(n, "error") # {}
               /\ target' = [target EXCEPT !.calling = n.callbacks[Earliest(NextDue(n, "error")) + 1].token]
      BY <3>1 DEF IInv, StateFits, Standing
    <3>2. CASE target' = [AtRest EXCEPT !.pc = "undefined", !.shortened = target.shortened]
      BY <3>2 DEF AtRest
    <3> QED
      BY <2>1, <2>2, <3>1, <3>2 DEF CallNext
  <2>6. /\ Len(n.callbacks) \in Nat /\ DOMAIN n.callbacks = 1..Len(n.callbacks)
    BY <2>4, CallbacksFacts
  <2>7. /\ n.count \in 0..Len(n.callbacks)
        /\ \A i \in DOMAIN n.callbacks : n.callbacks[i].late <=> i > n.count
    BY <2>3 DEF ErrorList
  <2>8. n.count = 0
    <3>1. ~(1 \in DOMAIN n.callbacks /\ n.count >= 1)
      BY <2>4, <2>5, FirstIsDue
    <3> QED
      BY <2>6, <2>7, <3>1
  <2>9. notifier'.callbacks = n.callbacks
    BY <2>4, <2>5 DEF NotifierRecord
  <2> QED
    BY <2>6, <2>7, <2>8, <2>9
<1>2. IInv /\ [Next]_vars =>
        [target.pc = "error" /\ target'.pc = "idle" /\ ~target.shortened
            => \A c \in {notifier'.callbacks[i] : i \in DOMAIN notifier'.callbacks} : c.late]_vars
  BY <1>1
<1> QED
  BY <1>2, AlwaysIInv, PTL DEF Spec, ErrorsReachEveryone
=============================================================================
