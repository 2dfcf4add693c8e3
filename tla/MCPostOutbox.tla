----------------------------- MODULE MCPostOutbox -----------------------------
(***************************************************************************)
(* Instances of PostOutbox for TLC: posters of one request id, of which the *)
(* last asks for another command, and two daemons.                          *)
(***************************************************************************)
EXTENDS PostOutbox, TLC

CONSTANTS h1, h2, h3, h4, p1, p2, c1, c2

Commands == [h \in Poster |-> IF h = h4 THEN c2 ELSE c1]

=============================================================================
