----------------------------- MODULE MCProjectLog -----------------------------
(***************************************************************************)
(* Every log of at most MaxLog transactions over a few bodies, reached by  *)
(* publishing them in any order, with or without damage to a file: gaps,   *)
(* forks, several roots and repeated identities all occur.                 *)
(***************************************************************************)
EXTENDS ProjectLog

CONSTANTS MaxLen,   \* longest path a digest may stand for
          MaxLog    \* most transactions in the log

VARIABLES log,          \* the transactions whose files are valid
          quarantined   \* artifacts the scan rejected

vars == <<log, quarantined>>

Digests == UNION {[1..n -> Body] : n \in 1..MaxLen}

Init == log = {} /\ quarantined = {}

Publish(d) ==
    /\ Cardinality(log) < MaxLog
    /\ log' = log \cup {d}
    /\ UNCHANGED quarantined

(* A published file whose bytes no longer match its name; which one it is  *)
(* makes no difference to the reduction of the others.                     *)
Damage(d) ==
    /\ quarantined = {}
    /\ log' = log \ {d}
    /\ quarantined' = {<<"digest_mismatch", << >>>>}

Next == \/ \E d \in Digests : Publish(d)
        \/ \E d \in log : Damage(d)

Spec == Init /\ [][Next]_vars

-----------------------------------------------------------------------------
(* The loop of reduceProjectTransactions applies exactly the transactions   *)
(* of the unambiguous chain, in chain order, whatever is in the log; and    *)
(* nothing is left out in silence: a transaction it does not apply is named *)
(* by a diagnostic, and the summary says "complete" exactly when every      *)
(* transaction is on the chain and no file was quarantined.                 *)
WalkIsTheChain ==
    /\ WalkApplied(log) = Applied(log)
    /\ IsHighWatermark(log, SourceHighWatermark(log))
    /\ \A i \in 2..Len(Walk(log)) : Previous(Walk(log)[i]) = Walk(log)[i - 1]
    /\ \A d \in log \ WalkApplied(log) : \E x \in ChainDiagnostics(log) : x[2] = d
    /\ WalkComplete(log, quarantined) <=> (Complete(log) /\ quarantined = {})

=============================================================================
