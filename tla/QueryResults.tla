---------------------------- MODULE QueryResults ----------------------------
(***************************************************************************)
(* A query over the table of CollectionChanges: ResultsNotifier compares   *)
(* its results with those of its last run when the changes of the table    *)
(* are taken.  A query that has run takes the changes of one reading of    *)
(* the log, however many transactions are in it; the merged ones           *)
(* (realm_coordinator.cpp) go to those that have not run yet, which have   *)
(* nothing to compare.                                                     *)
(***************************************************************************)
EXTENDS CollectionChanges, ResultsDiff

\* What the query may find in the table s: any of its entries, in the order of the
\* table or, sorted, in any.
Results(s) ==
    IF kind = "unsorted" THEN {Chosen(s, K) : K \in SUBSET DOMAIN s}
    ELSE UNION {SetToSeqs(E) : E \in SUBSET Entries(s)}

\* What is calculated between the results `was` and `is` with the table's changes c.
calculate_changes(c, was, is) ==
    calculate(Renumbered([k \in DOMAIN was |-> PlaceOf(old, was[k])], c),
              [k \in DOMAIN is |-> PlaceOf(cur, is[k])],
              c.modifications, kind = "unsorted", c.insertions)

\* The results of the query, found again when the changes of the table are taken:
\* whichever rows it had and has, applying what is calculated turns the one into
\* the other, in table order too, where a row is taken for moved only if the changes
\* of the table say that it may have been.
ResultsTurnOldIntoNew ==
    (changes = Empty /\ InTable) =>
      \A was \in Results(old), is \in Results(cur) :
        Turns(calculate_changes(Parsed(building), was, is), was, is)
=============================================================================
