------------------------------ MODULE MCRankVote ------------------------------
(* Values for checking RankVote with TLC.                                    *)
EXTENDS RankVote

Symmetry == Permutations(Memo)
=============================================================================
