-------------------------- MODULE NotifierCallbacks --------------------------
(***************************************************************************)
(* The callbacks of one collection notifier: the operations of             *)
(* CollectionNotifier (collection_notifier.cpp) that run under its         *)
(* callback mutex, each one a function of the notifier's record.           *)
(*                                                                         *)
(* A change set is the set of the commits it describes: merging two change *)
(* sets is their union (ChangeBuilder says what merging does to rows).     *)
(*                                                                         *)
(* In a callback's record the last four fields are not the program's:      *)
(*   owed     the commits it must still be told of                         *)
(*   muted    the commits it was to be left out of                         *)
(*   late     it is not part of the package that is being delivered        *)
(*   excused  one of the losses named in RealmNotifications befell it      *)
(***************************************************************************)
EXTENDS Integers, Sequences, SequencesExt

NoCallback == -1      \* npos, m_callback_index outside of a loop
NoToken == 0

Callback(token) ==
    [token |-> token, accumulated |-> {}, deliver |-> {}, initial |-> FALSE,
     skip |-> FALSE, owed |-> {}, muted |-> {}, late |-> TRUE, excused |-> FALSE]

(***************************************************************************)
(* A notifier just registered at `version`.  `seen` is the version of the  *)
(* rows it compares with (m_previous_rows), `view` is m_tv_handover.       *)
(***************************************************************************)
NewNotifier(version) ==
    [callbacks |-> <<>>, index |-> NoCallback, count |-> NoCallback, have |-> FALSE,
     version |-> version, has_run |-> FALSE, seen |-> version,
     wants |-> TRUE, view |-> FALSE, new |-> TRUE]

Tokens(n) == {n.callbacks[i].token : i \in DOMAIN n.callbacks}
Place(n, token) == CHOOSE i \in DOMAIN n.callbacks : n.callbacks[i].token = token
Each(n, Op(_)) == [n EXCEPT !.callbacks = [i \in DOMAIN @ |-> Op(@[i])]]

(***************************************************************************)
(* Plausible mistakes, for the mutants.                                    *)
(***************************************************************************)

\* The loop's index is not moved back when a callback before it goes.
remove_callback_only(n, token) ==
    [n EXCEPT !.callbacks = RemoveAt(@, Place(n, token)),
              !.count = @ - 1,
              !.have = Len(n.callbacks) > 1]

\* The number of packaged callbacks is not adjusted.
remove_uncounted(n, token) ==
    LET at == Place(n, token) IN
    [n EXCEPT !.callbacks = RemoveAt(@, at),
              !.index = IF @ # NoCallback /\ @ >= at - 1 THEN @ - 1 ELSE @,
              !.have = Len(n.callbacks) > 1]

\* New changes replace those not yet delivered.
add_changes_over(n, changes) ==
    Each(n, LAMBDA c : [c EXCEPT !.skip = FALSE,
                                 !.accumulated = IF c.skip THEN @ ELSE changes])

-----------------------------------------------------------------------------
\* A callback added while callbacks are being called neither wakes the worker
\* nor touches m_have_callbacks.
add_callback(n, token) ==
    [n EXCEPT !.callbacks = Append(@, Callback(token)),
              !.have = @ \/ n.index = NoCallback]

remove_callback(n, token) ==
    LET at == Place(n, token) IN
    [n EXCEPT !.callbacks = RemoveAt(@, at),
              !.index = IF @ # NoCallback /\ @ >= at - 1 THEN @ - 1 ELSE @,
              !.count = @ - 1,
              !.have = Len(n.callbacks) > 1]

suppress_next(n, tokens) ==
    Each(n, LAMBDA c : [c EXCEPT !.skip = @ \/ c.token \in tokens])

package_for_delivery(n) ==
    [Each(n, LAMBDA c : [c EXCEPT !.deliver = c.accumulated, !.accumulated = {},
                                  !.late = FALSE])
        EXCEPT !.count = Len(n.callbacks), !.view = FALSE]

add_changes(n, changes) ==
    Each(n, LAMBDA c : [c EXCEPT !.skip = FALSE,
                                 !.accumulated = IF c.skip THEN @ ELSE @ \cup changes])

\* What the worker's round leaves behind under the coordinator's lock.
prepare_handover(n, version, changes, view) ==
    [add_changes(n, changes) EXCEPT !.version = version, !.has_run = TRUE,
                                    !.view = @ \/ view]

-----------------------------------------------------------------------------
(***************************************************************************)
(* for_each_callback.  An iteration calls the callbacks that are due: the  *)
(* before-callbacks with changes, the after-callbacks with changes or not  *)
(* yet called at all, and on an error everyone.  m_callback_count is       *)
(* unsigned: below zero it is beyond every index.                          *)
(***************************************************************************)
Due(phase, c) ==
    CASE phase = "before" -> c.deliver # {}
      [] phase = "after"  -> ~c.initial \/ c.deliver # {}
      [] phase = "error"  -> TRUE

NextDue(n, phase) ==
    {j \in (n.index + 1)..(Len(n.callbacks) - 1) :
        /\ j < n.count \/ n.count < 0
        /\ Due(phase, n.callbacks[j + 1])}

\* The loop's next index would lie beyond the vector: the read is undefined.
Overruns(n) == n.count < 0 \/ n.count > Len(n.callbacks)

Earliest(S) == CHOOSE j \in S : \A k \in S : j <= k
=============================================================================
