-------------------------- MODULE CollectionChanges --------------------------
(***************************************************************************)
(* A collection with an observer: transactions change it, the parser of    *)
(* the transaction log (transact_log_handler.cpp) tells a ChangeBuilder,   *)
(* the changes of several transactions are merged, and the observer gets   *)
(* them at once.  kind is "list" for a list of links or values, "table"    *)
(* for a table with a sorted query, "unsorted" for a table with a query in *)
(* table order; ResultsNotifier compares the results of the query when the *)
(* changes of the table are taken.  Rows of a table whose query is in      *)
(* table order are neither swapped nor merged: calculate_moves_unsorted    *)
(* relies on rows that only move to the front, and the application has no  *)
(* way to do otherwise, as synchronised Realms have.                       *)
(*                                                                         *)
(* Every entry of a list and every object of a table has an identity here  *)
(* that its index in the code has not; a new one gets an unused identity.  *)
(*                                                                         *)
(* Bounds: MaxLen entries at once and MaxSteps steps until the observer is *)
(* told.                                                                   *)
(***************************************************************************)
EXTENDS ChangeBuilder

CONSTANTS Kinds, MaxLen, MaxSteps

\* There are no more rows than MaxRows.
ASSUME BoundsAssumption ==
    MaxLen \in Nat /\ MaxSteps \in Nat /\ MaxRows \in Nat /\ MaxLen <= MaxRows

VARIABLES
    kind,       \* what the collection is
    old,        \* its entries when the observer was last told
    cur,        \* its entries
    touched,    \* entries modified since the observer was last told
    building,   \* the changes of the transaction
    changes,    \* the merged changes of the transactions before it
    steps       \* steps since the observer was last told

vars == <<kind, old, cur, touched, building, changes, steps>>

Entries(s) == ToSet(s)
Unused == Min(1 .. (2 * MaxLen + 1) \ (Entries(old) \cup Entries(cur)))
Rows == Positions(cur)
InTable == kind # "list"

Init ==
    /\ kind \in Kinds
    /\ \E n \in 0 .. MaxLen : old = [k \in 1 .. n |-> k]
    /\ cur = old
    /\ touched = {}
    /\ building = Empty /\ changes = Empty
    /\ steps = 0

Change(b, s) ==
    /\ steps < MaxSteps
    /\ steps' = steps + 1
    /\ building' = b
    /\ cur' = s
    /\ UNCHANGED <<kind, old, changes>>

Moved(s, from, to) == InsertAt(RemoveAt(s, from + 1), to + 1, At0(s, from))
Swapped(s, i, j) == [s EXCEPT ![i + 1] = s[j + 1], ![j + 1] = s[i + 1]]
MovedOver(s, i) == Front(IF i + 1 = Len(s) THEN s ELSE [s EXCEPT ![i + 1] = Last(s)])

-----------------------------------------------------------------------------
(* The instructions of the transaction log *)

\* link_list_insert, insert_empty_rows.  Objects are appended to their table.
Insert ==
    /\ Len(cur) < MaxLen
    /\ \E i \in (IF InTable THEN {Len(cur)} ELSE 0 .. Len(cur)) :
          Change(insert(building, i, 1), InsertAt(cur, i + 1, Unused))
    /\ UNCHANGED touched

\* link_list_set; set of a column of a row
Modify ==
    \E i \in Rows :
        /\ Change(modify(building, i), cur)
        /\ touched' = touched \cup {At0(cur, i)}

\* link_list_swap: the entries stay, with each other's values.
link_list_swap ==
    /\ kind = "list"
    /\ \E i, j \in Rows :
          /\ i < j
          /\ Change(modify(modify(building, i), j), cur)
          /\ touched' = touched \cup {At0(cur, i), At0(cur, j)}

\* link_list_erase, link_list_nullify; erase_rows of a subtable
link_list_erase ==
    /\ kind = "list"
    /\ \E i \in Rows : Change(erase(building, i), RemoveAt(cur, i + 1))
    /\ UNCHANGED touched

link_list_move ==
    /\ kind = "list"
    /\ \E from, to \in Rows :
          from # to /\ Change(move(building, from, to), Moved(cur, from, to))
    /\ UNCHANGED touched

link_list_clear ==
    /\ kind = "list"
    /\ Change(clear(building, Len(cur)), <<>>)
    /\ UNCHANGED touched

\* swap_rows of a subtable
SwapInSubtable(i, j) ==
    LET b == move(building, i, j) IN
    Change(IF i + 1 = j THEN b ELSE move(b, j - 1, i), Swapped(cur, i, j))

swap_rows ==
    \E i, j \in Rows :
        /\ i < j
        /\ kind # "unsorted"
        /\ IF InTable THEN Change(swap(building, i, j), Swapped(cur, i, j))
           ELSE SwapInSubtable(i, j)
        /\ UNCHANGED touched

\* erase_rows of a table
erase_rows ==
    /\ InTable
    /\ \E i \in Rows : Change(move_over(building, i, Len(cur) - 1), MovedOver(cur, i))
    /\ UNCHANGED touched

clear_table ==
    /\ InTable
    /\ Change(clear(building, MaxRows), <<>>)
    /\ UNCHANGED touched

\* The object in row `from` goes on in the new row `to`, and its row is removed.
merge_rows ==
    /\ kind = "table"
    /\ \E from, to \in Rows :
          /\ from # to
          /\ to \in building.insertions /\ to \notin DOMAIN building.mapping
          /\ LET s == Swapped(cur, from, to) IN
             Change(move_over(subsume(building, from, to), from, Len(cur) - 1),
                    MovedOver(s, from))
          /\ touched' = IF to \in building.modifications THEN touched \cup {At0(cur, from)}
                        ELSE touched

\* The end of the transaction: parse_complete of the handler, then the merge with
\* what earlier transactions changed.
Parsed(b) == IF InTable THEN parse_complete(b) ELSE clean_up_stale_moves(b)

Commit ==
    /\ building # Empty
    /\ changes' = merge(changes, Parsed(building))
    /\ building' = Empty
    /\ UNCHANGED <<kind, old, cur, touched, steps>>

\* The observer gets the changes.
Deliver ==
    /\ building = Empty /\ steps > 0
    /\ changes' = Empty
    /\ old' = [k \in DOMAIN cur |-> k]
    /\ cur' = [k \in DOMAIN cur |-> k]
    /\ touched' = {}
    /\ steps' = 0
    /\ UNCHANGED <<kind, building>>

Next ==
    \/ Insert \/ Modify \/ link_list_swap \/ link_list_erase \/ link_list_move
    \/ link_list_clear \/ swap_rows \/ erase_rows \/ clear_table \/ merge_rows
    \/ Commit \/ Deliver

Spec == Init /\ [][Next]_vars

-----------------------------------------------------------------------------
\* The entries of s that are not at the positions P.
Without(s, P) == Chosen(s, {i + 1 : i \in Positions(s) \ P})

\* Applied in the order CollectionChangeSet documents, deletions to the old entries,
\* then insertions, the change set makes the new ones: what is neither deleted nor
\* inserted is the same in the same order.  Its moves are such: a row deleted at
\* `from` and inserted at `to` is one entry, and no row is moved twice.
Turns(c, s, t) ==
    /\ Without(s, c.deletions) = Without(t, c.insertions)
    /\ c.insertions \subseteq Positions(t)
    /\ \A k \in DOMAIN c.moves : LET m == c.moves[k] IN
          /\ m.from \in c.deletions /\ m.to \in c.insertions
          /\ At0(s, m.from) = At0(t, m.to)
          /\ \A l \in DOMAIN c.moves \ {k} :
                c.moves[l].from # m.from /\ c.moves[l].to # m.to

\* Whatever the transactions did, and however many change sets were merged, what
\* is handed to the callback turns the entries it last saw into those there are.
ChangesTurnOldIntoNew ==
    building = Empty => Turns(changes, old, cur)

\* From s to t with the changes c, the modifications told are those of the entries of
\* T that survive, by their numbers in t as by their numbers in s.
TellsModified(c, s, t, T) ==
    LET f == finalize(c)
        told == {At0(t, i) : i \in f.modifications_new}
        stays == {At0(t, i) : i \in Positions(t) \ c.insertions}
    IN  told = T \cap stays /\ {At0(s, i) : i \in f.modifications} = told

\* What the callback is told of modifications: every surviving entry that was
\* modified and no other, under its old and under its new number.
ModificationsAreComplete ==
    building = Empty => TellsModified(changes, old, cur, touched)
=============================================================================
