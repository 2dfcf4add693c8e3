------------------------------ MODULE ProjectLog ------------------------------
(***************************************************************************)
(* The project transaction log as its readers reduce it (project/src/      *)
(* projection.ts).  Transactions are immutable files named by the digest   *)
(* of their bytes, and the bytes hold the digest of the predecessor.  The  *)
(* only thing the properties need of such a hash chain is that a digest    *)
(* determines the transaction and every predecessor it names, so a digest  *)
(* is the sequence of bodies on the path from genesis: the body last, the  *)
(* predecessor's digest the front, and << >> is the code's null.           *)
(*                                                                         *)
(* A body is what a transaction says apart from its predecessor.  Bodies   *)
(* are abstract; the reduction asks of them only their command id and the  *)
(* ids of their events.                                                    *)
(***************************************************************************)
EXTENDS Naturals, Sequences, FiniteSets

CONSTANTS Body,        \* what transactions say
          Command,     \* command ids
          Event,       \* event ids
          CommandOf,   \* the command id of a body
          EventsOf     \* the event ids of a body

ASSUME BodyAssumption ==
    /\ CommandOf \in [Body -> Command]
    /\ EventsOf \in [Body -> SUBSET Event]

Digest == Seq(Body) \ {<< >>}          \* the digest of a transaction
Watermark == Seq(Body)                 \* a digest, or << >> for null

Previous(d) == SubSeq(d, 1, Len(d) - 1)
BodyOf(d) == d[Len(d)]
DigestOf(previous, body) == Append(previous, body)

-----------------------------------------------------------------------------
(* The maps of the reducer: transactions by predecessor, and the           *)
(* transactions that share a command id or an event id.                    *)

Children(log, p) == {d \in log : Previous(d) = p}

DuplicateCommand(log, d) ==
    \E e \in log \ {d} : CommandOf[BodyOf(e)] = CommandOf[BodyOf(d)]

DuplicateEvent(log, d) ==
    \E e \in log \ {d} : EventsOf[BodyOf(e)] \cap EventsOf[BodyOf(d)] # {}

IdentityConflict(log, d) == DuplicateCommand(log, d) \/ DuplicateEvent(log, d)

(* The same within one history: d says the command, or an event, of one of  *)
(* its own predecessors again.                                             *)
Reuses(d) ==
    \E i \in 1..(Len(d) - 1) :
        \/ CommandOf[d[i]] = CommandOf[BodyOf(d)]
        \/ EventsOf[d[i]] \cap EventsOf[BodyOf(d)] # {}

Reusing(log) == {d \in log : Reuses(d)}

(***************************************************************************)
(* The loop that walks from the single root: it stops at a transaction     *)
(* whose identity is not unique, which it does not apply, and after one    *)
(* that has no child or several.  walk[n] is what n turns of the loop have *)
(* applied; the log has no cycle to guard against, because the digest of   *)
(* a transaction is longer than that of its predecessor.                   *)
(***************************************************************************)
Turn_TakesOneChild(log, applied, n) ==                           \* mutant: a fork is followed
    LET last == IF applied = << >> THEN << >> ELSE applied[Len(applied)]
        next == {d \in Children(log, last) : ~IdentityConflict(log, d)}
    IN IF Len(applied) = n - 1 /\ next # {}
         THEN Append(applied, CHOOSE d \in next : TRUE)
         ELSE applied

Turn(log, applied, n) ==
    LET last == IF applied = << >> THEN << >> ELSE applied[Len(applied)]
        next == Children(log, last)
    IN IF Len(applied) = n - 1 /\ Cardinality(next) = 1 /\ \A d \in next : ~IdentityConflict(log, d)
         THEN Append(applied, CHOOSE d \in next : TRUE)
         ELSE applied

Walk(log) ==
    LET walk[n \in 0..Cardinality(log)] == IF n = 0 THEN << >> ELSE Turn(log, walk[n - 1], n)
    IN walk[Cardinality(log)]

WalkApplied(log) == {Walk(log)[i] : i \in 1..Len(Walk(log))}

SourceHighWatermark(log) ==
    LET applied == Walk(log)
    IN IF applied = << >> THEN << >> ELSE applied[Len(applied)]

(* The typed diagnostics of the reduction, as <<code, digest>>; the mutant *)
(* forgets the transactions nothing else is wrong with.                    *)
DirectDiagnostics(log) ==
    LET applied == WalkApplied(log)
        roots == Children(log, << >>)
    IN {<<"missing_predecessor", d>> : d \in {x \in log : Previous(x) \notin log \cup {<< >>}}}
         \cup {<<"duplicate_command", d>> : d \in {x \in log : DuplicateCommand(log, x)}}
         \cup {<<"duplicate_event", d>> : d \in {x \in log : DuplicateEvent(log, x)}}
         \cup {<<"cycle_or_no_root", d>> : d \in {x \in log : roots = {}}}
         \cup {<<"multiple_roots", d>> : d \in {x \in roots : Cardinality(roots) > 1}}
         \cup {<<"fork", d>> : d \in {x \in log : /\ Previous(x) \in applied
                                                  /\ Cardinality(Children(log, Previous(x))) > 1}}

ChainDiagnostics_OnlyDirect(log) == DirectDiagnostics(log)       \* mutant
ChainDiagnostics(log) ==
    LET direct == DirectDiagnostics(log)
        named == {x[2] : x \in direct}
    IN direct \cup {<<"unreachable_transaction", d>> : d \in (log \ WalkApplied(log)) \ named}

(* lag.complete: nothing unapplied and nothing quarantined. *)
WalkComplete(log, quarantined) ==
    /\ Cardinality(log) - Cardinality(WalkApplied(log)) = 0
    /\ quarantined \cup ChainDiagnostics(log) = {}

-----------------------------------------------------------------------------
(***************************************************************************)
(* The same reduction without the loop.  A transaction is applied when     *)
(* every transaction on its path is in the log, is the only child of its   *)
(* predecessor and has an identity no other transaction shares.  The       *)
(* modules built on the log, and the proofs about them, use this form.     *)
(***************************************************************************)
AppliedAt(log, d, i) ==
    /\ SubSeq(d, 1, i) \in log
    /\ ~IdentityConflict(log, SubSeq(d, 1, i))
    /\ \A e \in log : Previous(e) = SubSeq(d, 1, i - 1) => e = SubSeq(d, 1, i)

Applied(log) == {d \in log : \A i \in 1..Len(d) : AppliedAt(log, d, i)}

Complete(log) == log \subseteq Applied(log)

(* h is the high watermark: the longest applied digest, null if there is none. *)
IsHighWatermark(log, h) ==
    /\ h \in Applied(log) \cup {<< >>}
    /\ \A d \in Applied(log) : Len(d) <= Len(h)

(* Two transactions never share a predecessor; two roots are such a pair. *)
Forkless(log) == \A d, e \in log : Previous(d) = Previous(e) => d = e
=============================================================================
