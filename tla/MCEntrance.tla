------------------------------ MODULE MCEntrance ------------------------------
(* Values for checking Entrance with TLC.                                    *)
EXTENDS Entrance

\* VERSION_NAME "2.0.03".
Installed203 == <<2, 0, 3>>

\* None, a newer one, an older one with greater later components, an older one
\* with fewer components, and one that is no version.
Offers == {<<>>, <<2, 1, 0>>, <<1, 9, 9>>, <<1, 9>>, Garbled}
=============================================================================
