--------------------------- MODULE MCProjectCommit ---------------------------
(***************************************************************************)
(* Small instances of ProjectCommit.  Two calls commit different commands  *)
(* and a third, where there is one, retries the first with the same bytes  *)
(* or, on another predecessor, competes with it.                           *)
(***************************************************************************)
EXTENDS ProjectCommit

MCBodies == {"open", "finish"}
MCIdentity == [b \in MCBodies |-> b]
MCEvents == [b \in MCBodies |-> {b}]
MCPayload == [w \in Writer |-> IF w \in {"w1", "w3"} THEN "open" ELSE "finish"]
MCOneHost == [w \in Writer |-> "host"]
MCTwoHosts == [w \in Writer |-> IF w = "w3" THEN "remote" ELSE "host"]
=============================================================================
