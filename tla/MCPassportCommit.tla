--------------------------- MODULE MCPassportCommit ---------------------------
(***************************************************************************)
(* Instances of PassportCommit for TLC.  The first two committers ask for   *)
(* one command and one passport; the third leaves the passport there was   *)
(* at first, so that a version comes back; the fourth asks for the first   *)
(* command again with that passport.                                       *)
(***************************************************************************)
EXTENDS PassportCommit, TLC

CONSTANTS c1, c2, c3, c4, r1, k1, k2, v0, v1

Commands == [c \in Committer |-> IF c = c3 THEN k2 ELSE k1]
Versions == [c \in Committer |-> IF c \in {c3, c4} THEN v0 ELSE v1]
Anywhere == Locations \ {"done"}
(* Where a lock in the way names the process that died.                     *)
UnderTheLock == Holding \cup {"release", "unlock"}

=============================================================================
