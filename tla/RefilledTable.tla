----------------------------- MODULE RefilledTable -----------------------------
(***************************************************************************)
(* The list of a screen that shows what a server answered: onHttpReceive,  *)
(* on the delegate queue of the session, empties the list, appends the     *)
(* rows one by one and posts a reload to the main queue, while the table   *)
(* view on the main thread counts the rows when it reloads and reads them  *)
(* one by one when it draws.  Nothing protects the list.                   *)
(***************************************************************************)
EXTENDS Naturals, Sequences

VARIABLES
    mBucketDataList,  \* the list
    refill,           \* what onHttpReceive still has to do to it
    posted,           \* reloads posted to the main queue
    rows,             \* the number of rows the table view believes in
    coveredRefill     \* onHttpReceive of a covered screen has rows to append

tableVars == <<mBucketDataList, refill, posted, rows, coveredRefill>>

NoRefill == [stage |-> "none", rest |-> <<>>]
Refilling == refill # NoRefill

\* viewDidLoad of a new screen.
EmptyTable == mBucketDataList = <<>> /\ refill = NoRefill /\ posted = 0 /\ rows = 0
NewTable ==
    /\ mBucketDataList' = <<>>
    /\ refill' = NoRefill
    /\ posted' = 0
    /\ rows' = 0

BeginRefill(list) ==
    /\ refill' = [stage |-> "removeAll", rest |-> list]
    /\ UNCHANGED <<mBucketDataList, posted, rows, coveredRefill>>

\* Faulty variant: the rows of the last reply stay.
RemoveAllNot ==
    /\ refill.stage = "removeAll"
    /\ refill' = [refill EXCEPT !.stage = "append"]
    /\ UNCHANGED <<mBucketDataList, posted, rows, coveredRefill>>

RemoveAll ==
    /\ refill.stage = "removeAll"
    /\ mBucketDataList' = <<>>
    /\ refill' = [refill EXCEPT !.stage = "append"]
    /\ UNCHANGED <<posted, rows, coveredRefill>>

AppendRow ==
    /\ refill.stage = "append" /\ refill.rest # <<>>
    /\ mBucketDataList' = Append(mBucketDataList, Head(refill.rest))
    /\ refill' = [refill EXCEPT !.rest = Tail(refill.rest)]
    /\ UNCHANGED <<posted, rows, coveredRefill>>

PostReload ==
    /\ refill.stage = "append" /\ refill.rest = <<>>
    /\ refill' = NoRefill
    /\ posted' = posted + 1
    /\ UNCHANGED <<mBucketDataList, rows, coveredRefill>>

Refill == RemoveAll \/ AppendRow \/ PostReload

\* Another screen covers this one, with a table of its own; onHttpReceive still
\* goes through the rows.
CoverTable == NewTable /\ coveredRefill' = (coveredRefill \/ refill.rest # <<>>)
FinishCovered ==
    /\ coveredRefill
    /\ coveredRefill' = FALSE
    /\ UNCHANGED <<mBucketDataList, refill, posted, rows>>

\* The next row of the reply may lack a field that is cast by force.
RowMayTrap == coveredRefill \/ (refill.stage = "append" /\ refill.rest # <<>>)

\* Refilling a list is part of a handler, and those run one at a time.
AtRest == ~Refilling /\ ~coveredRefill

\* Faulty variant: a reload asks for the next.
ReloadDataPending ==
    /\ posted > 0
    /\ rows' = Len(mBucketDataList)
    /\ UNCHANGED <<mBucketDataList, refill, posted, coveredRefill>>

\* The main queue runs reloadData; rows are counted again, and drawn later.
ReloadData ==
    /\ posted > 0
    /\ posted' = posted - 1
    /\ rows' = Len(mBucketDataList)
    /\ UNCHANGED <<mBucketDataList, refill, coveredRefill>>

\* Reading row i on the main thread: beyond the list it traps, and while the
\* other thread changes the list it may read the list or trap.
ReadMayTrap(i) == i > Len(mBucketDataList) \/ Refilling
Readable(i) == i <= Len(mBucketDataList)

\* The cells on screen when the cell of row i is drawn, for the first time or again.
WithCell(cells, i, cell) ==
    [j \in DOMAIN cells \cup {i} |-> IF j = i THEN cell ELSE cells[j]]
=============================================================================
