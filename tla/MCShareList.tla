------------------------------ MODULE MCShareList ------------------------------
(* Values for checking ShareList with TLC.                                    *)
EXTENDS ShareList

\* One category has a list of two rows, the other one of one row.
TwoLists == (1 :> {<<"a1", "a2">>}) @@ (2 :> {<<"a2">>})
=============================================================================
