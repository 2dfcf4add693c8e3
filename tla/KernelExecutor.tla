---------------------------- MODULE KernelExecutor ----------------------------
(***************************************************************************)
(* The command executor of the kernel (kernel/src/executor.ts): calls of   *)
(* execute and recover, in any number of processes, over one project log   *)
(* and one outbox.  Each step is what a call does between two operations   *)
(* another process can come between.  A call whose process dies is one that *)
(* takes no further step: it holds nothing another call waits for.         *)
(*                                                                         *)
(* Every execute call plans a transaction of its own, with event ids drawn *)
(* at random, so the call is the body of the transaction it may publish:   *)
(* a retry of a request is another call with the same command, scope and   *)
(* input.  The scope is the principal, command name and idempotency key;   *)
(* the input stands for the input digest and the command version.          *)
(*                                                                         *)
(* commitProjectTransaction is the compare-and-set ProjectCommit is shown  *)
(* to implement while its lock is undisturbed: one step, which may also    *)
(* fail before or after it has published.                                  *)
(***************************************************************************)
EXTENDS ProjectLog

CONSTANTS Recoverer,   \* recover calls, each of which is made again and again
          Scope,       \* idempotency scopes
          Input,       \* input digests
          Effect,      \* effect keys
          Required,    \* the effects that govern the outcome of their command
          ScopeOf,     \* the scope of an execute call
          InputOf,     \* the input of an execute call
          EffectsOf    \* the effects its plan declares, in their order

Call == Body \cup Recoverer

ASSUME KernelAssumption ==
    /\ Body \cap Recoverer = {}
    /\ Required \subseteq Effect
    /\ ScopeOf \in [Body -> Scope]
    /\ InputOf \in [Body -> Input]
    /\ EffectsOf \in [Body -> Seq(Effect)]

(* Callers that give a command id to one request only, and event ids that   *)
(* are never drawn twice.  The kernel does not check the first.            *)
DistinctCommands == \A b, c \in Body : CommandOf[b] = CommandOf[c] => ScopeOf[b] = ScopeOf[c]
DistinctEvents == \A b, c \in Body : b # c => EventsOf[b] \cap EventsOf[c] = {}

VARIABLES log,        \* the published transactions
          index,      \* the log the projection index on disk was reduced from
          outbox,     \* what the outbox recorded for each effect key
          pc,         \* where each call stands
          expected,   \* the state version an execute call was made with
          snapshot,   \* the log as a rebuild of the index has scanned it
          stored,     \* the transaction whose outcome a call materializes
          results,    \* what it heard from the outbox, effect by effect
          answer      \* the outcome it returned, or the kind of its error

vars == <<log, index, outbox, pc, expected, snapshot, stored, results, answer>>

durable == <<log, index, outbox>>

Locations == {"idle", "lookup", "commit", "rescan", "materialize", "rebuild", "write",
              "reread", "dispatch", "returned"}
Settled == {"delivered", "dead_letter"}
Heard == Settled \cup {"pending", "failed"}
Receipts == {"completed", "effects_pending", "needs_repair"}
Refusals == {"unauthorized", "invalid", "conflict"}
Answers == {"none", "error"} \cup Refusals \cup Receipts

TypeOK ==
    /\ log \subseteq Digest
    /\ index \subseteq Digest
    /\ outbox \in [Effect -> {"none"} \cup Settled]
    /\ pc \in [Call -> Locations]
    /\ expected \in [Body -> Watermark]
    /\ snapshot \in [Call -> SUBSET Digest]
    /\ stored \in [Call -> Watermark]
    /\ results \in [Call -> Seq(Heard)]
    /\ answer \in [Call -> Answers]

Init ==
    /\ log = {} /\ index = {}
    /\ outbox = [e \in Effect |-> "none"]
    /\ pc = [c \in Call |-> "idle"]
    /\ expected = [c \in Body |-> << >>]
    /\ snapshot = [c \in Call |-> {}]
    /\ stored = [c \in Call |-> << >>]
    /\ results = [c \in Call |-> << >>]
    /\ answer = [c \in Call |-> "none"]

GoTo(c, location) == pc' = [pc EXCEPT ![c] = location]
Return(c, a) == GoTo(c, "returned") /\ answer' = [answer EXCEPT ![c] = a]
Continue(c, location) == GoTo(c, location) /\ UNCHANGED answer

Effects(c) == EffectsOf[BodyOf(stored[c])]

-----------------------------------------------------------------------------
(* execute.                                                                *)

(* The request is valid and its principal resolved; the authorizer decides. *)
Execute(c) ==
    /\ pc[c] = "idle"
    /\ \E version \in log \cup {<< >>} : expected' = [expected EXCEPT ![c] = version]
    /\ Continue(c, "lookup") \/ Return(c, "unauthorized")
    /\ UNCHANGED <<durable, snapshot, stored, results>>

(* findIdempotentTransaction *)
SameScope(c) == {d \in log : ScopeOf[BodyOf(d)] = ScopeOf[c]}

SameRequest_AnyInput(c) == {d \in SameScope(c) : SameScope(c) = {d}}          \* mutant
SameRequest(c) == {d \in SameScope(c) : SameScope(c) = {d} /\ InputOf[BodyOf(d)] = InputOf[c]}

MaterializeStored(c, d) == stored' = [stored EXCEPT ![c] = d] /\ Continue(c, "materialize")

(* One scan decides: a replay, a refusal, or a plan made on this snapshot.  *)
MayPlan(c) == SameScope(c) = {} /\ Complete(log) /\ IsHighWatermark(log, expected[c])

LookUp(c) ==
    /\ pc[c] = "lookup"
    /\ \/ \E d \in SameRequest(c) : MaterializeStored(c, d)
       \/ SameRequest(c) = {} /\ ~MayPlan(c) /\ Return(c, "conflict") /\ UNCHANGED stored
       \/ SameScope(c) = {} /\ Complete(log) /\ Return(c, "invalid") /\ UNCHANGED stored
       \/ MayPlan(c) /\ Continue(c, "commit") /\ UNCHANGED stored
    /\ UNCHANGED <<durable, expected, snapshot, results>>

Planned(c) == DigestOf(expected[c], c)

Acceptable_NoCas(c) == Complete(log)                                          \* mutant
Acceptable(c) == Complete(log) /\ IsHighWatermark(log, expected[c])

CommitSucceeds(c) ==
    /\ pc[c] = "commit"
    /\ Acceptable(c)
    /\ log' = log \cup {Planned(c)} /\ Complete(log')
    /\ index' = log'
    /\ MaterializeStored(c, Planned(c))
    /\ UNCHANGED <<outbox, expected, snapshot, results>>

(* The transaction is there, but what comes after its link throws: a        *)
(* conflict, which the executor looks into, or anything else.              *)
CommitFailsLate(c) ==
    /\ pc[c] = "commit"
    /\ Acceptable(c)
    /\ log' = log \cup {Planned(c)}
    /\ index' \in {index, log'}
    /\ \/ Continue(c, "rescan")
       \/ Complete(log') /\ Return(c, "error")
    /\ UNCHANGED <<outbox, expected, snapshot, stored, results>>

(* A stale version, an incomplete log or the lock: nothing is published.    *)
(* The mutant runs the effects before the commit.                          *)
CommitRefused_EffectsFirst(c) ==                                              \* mutant
    /\ pc[c] = "commit"
    /\ outbox' = [e \in Effect |-> IF \E i \in 1..Len(EffectsOf[c]) : EffectsOf[c][i] = e
                                   THEN "delivered" ELSE outbox[e]]
    /\ Continue(c, "rescan")
    /\ UNCHANGED <<log, index, expected, snapshot, stored, results>>

CommitRefused(c) ==
    /\ pc[c] = "commit"
    /\ \/ Continue(c, "rescan")
       \/ Acceptable(c) /\ Return(c, "error")
    /\ UNCHANGED <<durable, expected, snapshot, stored, results>>

(* After a conflict: if the scope has a winner by now, that is the outcome. *)
Rescan_Rethrows(c) ==                                                         \* mutant
    /\ pc[c] = "rescan"
    /\ Return(c, "conflict")
    /\ UNCHANGED <<durable, expected, snapshot, stored, results>>

Rescan(c) ==
    /\ pc[c] = "rescan"
    /\ \/ \E d \in SameRequest(c) : MaterializeStored(c, d)
       \/ SameRequest(c) = {} /\ Return(c, "conflict") /\ UNCHANGED stored
    /\ UNCHANGED <<durable, expected, snapshot, results>>

-----------------------------------------------------------------------------
(* recover: exactly one transaction has the command id.                    *)
Recover(r) ==
    /\ pc[r] \in {"idle", "returned"}
    /\ \E command \in Command :
         LET matches == {d \in log : CommandOf[BodyOf(d)] = command}
         IN \/ \E d \in matches : matches = {d} /\ MaterializeStored(r, d)
            \/ Cardinality(matches) # 1 /\ Return(r, "invalid") /\ UNCHANGED stored
            \/ Cardinality(matches) = 1 /\ Return(r, "unauthorized") /\ UNCHANGED stored
    /\ results' = [results EXCEPT ![r] = << >>]
    /\ UNCHANGED <<durable, expected, snapshot>>

-----------------------------------------------------------------------------
(* materializeOutcome: the projection is rebuilt outside the writer lock,   *)
(* in a scan, a write and a look at what was written, and the transaction   *)
(* must be one of the applied.                                             *)

Materialize(c) ==
    /\ pc[c] = "materialize"
    /\ \/ Complete(log) /\ Continue(c, "rebuild")
       \/ ~Complete(log) /\ Return(c, "error")
    /\ UNCHANGED <<durable, expected, snapshot, stored, results>>

RebuildScan(c) ==
    /\ pc[c] = "rebuild"
    /\ snapshot' = [snapshot EXCEPT ![c] = log]
    /\ Continue(c, "write")
    /\ UNCHANGED <<durable, expected, stored, results>>

WriteIndex(c) ==
    /\ pc[c] = "write"
    /\ index' = snapshot[c]
    /\ Continue(c, "reread")
    /\ UNCHANGED <<log, outbox, expected, snapshot, stored, results>>

RereadIndex(c) ==
    /\ pc[c] = "reread"
    /\ \/ index = snapshot[c] /\ stored[c] \in log /\ Continue(c, "dispatch")
       \/ ~(index = snapshot[c] /\ stored[c] \in log) /\ Return(c, "error")
    /\ snapshot' = [snapshot EXCEPT ![c] = {}]
    /\ UNCHANGED <<durable, expected, stored, results>>

(* The outbox keeps one answer for an effect key and repeats it; the call   *)
(* may not reach it, may fail for good, or may miss the answer.            *)
Hear(c, what) == results' = [results EXCEPT ![c] = Append(@, what)]

Dispatch(c) ==
    /\ pc[c] = "dispatch"
    /\ Len(results[c]) < Len(Effects(c))
    /\ LET effect == Effects(c)[Len(results[c]) + 1]
       IN \/ \E s \in Settled :
               /\ outbox[effect] \in {"none", s}
               /\ outbox' = [outbox EXCEPT ![effect] = s]
               /\ Hear(c, s) \/ Hear(c, "pending")
          \/ \E failure \in {"pending", "failed"} : Hear(c, failure) /\ UNCHANGED outbox
    /\ UNCHANGED <<log, index, pc, expected, snapshot, stored, answer>>

(* Only required effects decide, and a dead letter or a final failure more  *)
(* than one that is pending.                                               *)
Governed(c) == {results[c][i] : i \in {j \in 1..Len(results[c]) : Effects(c)[j] \in Required}}

Outcome_PendingFirst(c) ==                                                    \* mutant
    IF "pending" \in Governed(c) THEN "effects_pending"
    ELSE IF Governed(c) \cap {"dead_letter"} # {} THEN "needs_repair"
    ELSE "completed"

Outcome(c) ==
    IF Governed(c) \cap {"dead_letter", "failed"} # {} THEN "needs_repair"
    ELSE IF "pending" \in Governed(c) THEN "effects_pending"
    ELSE "completed"

IssueReceipt(c) ==
    /\ pc[c] = "dispatch"
    /\ Len(results[c]) = Len(Effects(c))
    /\ Return(c, Outcome(c))
    /\ UNCHANGED <<durable, expected, snapshot, stored, results>>

Materializing(c) ==
    \/ Materialize(c) \/ RebuildScan(c) \/ WriteIndex(c) \/ RereadIndex(c)
    \/ Dispatch(c) \/ IssueReceipt(c)

Executing(c) ==
    \/ Execute(c) \/ LookUp(c) \/ Rescan(c)
    \/ CommitSucceeds(c) \/ CommitFailsLate(c) \/ CommitRefused(c)

Next ==
    \/ \E c \in Body : Executing(c)
    \/ \E r \in Recoverer : Recover(r)
    \/ \E c \in Call : Materializing(c)

Spec == Init /\ [][Next]_vars

-----------------------------------------------------------------------------
(***************************************************************************)
(* Properties.                                                             *)
(***************************************************************************)

(* ADR 0014, invariant 6: an idempotency scope resolves to one transaction, *)
(* however many calls race through the lookup, the plan and the commit.     *)
OneTransactionPerScope ==
    \A d, e \in log : ScopeOf[BodyOf(d)] = ScopeOf[BodyOf(e)] => d = e

(* ADR 0014, invariant 3: a command has one transaction.                   *)
OneTransactionPerCommand ==
    \A d, e \in log : CommandOf[BodyOf(d)] = CommandOf[BodyOf(e)] => d = e

(* The log is always one its readers accept, so that no command blocks the  *)
(* ones after it.                                                          *)
AlwaysComplete == Complete(log)

(* ADR 0014, invariant 8: the outbox never learns of an effect that no      *)
(* committed transaction declares, whoever crashed and was replaced.       *)
EffectsFollowCommit ==
    \A e \in Effect : outbox[e] # "none" =>
        \E d \in log : \E i \in 1..Len(EffectsOf[BodyOf(d)]) : EffectsOf[BodyOf(d)][i] = e

HasReceipt(c) == answer[c] \in Receipts /\ pc[c] = "returned"

(* A receipt is about a committed transaction with the scope and input of   *)
(* the request, whoever committed it, and says "completed" only when the    *)
(* outbox holds a delivery of every required effect.                       *)
ReceiptIsTrue ==
    \A c \in Call : HasReceipt(c) =>
        /\ stored[c] \in log
        /\ c \in Body => /\ ScopeOf[BodyOf(stored[c])] = ScopeOf[c]
                         /\ InputOf[BodyOf(stored[c])] = InputOf[c]
        /\ answer[c] = "completed" =>
             \A i \in 1..Len(Effects(c)) :
                Effects(c)[i] \in Required => outbox[Effects(c)[i]] = "delivered"

(* ADR 0014, invariant 11: a dead letter one call was told of shows in its  *)
(* receipt and in those of every later call: none says "completed" for the  *)
(* same transaction.  And an optional effect never holds a command back.    *)
ReceiptsAgree ==
    \A c, d \in Call : HasReceipt(c) /\ HasReceipt(d) /\ stored[c] = stored[d] =>
        /\ "dead_letter" \in Governed(c) => answer[c] = "needs_repair" /\ answer[d] # "completed"
        /\ Governed(c) \subseteq {"delivered"} => answer[c] = "completed"

(* ADR 0014, invariants 1 and 4: a refused call has published nothing, now  *)
(* or later, so that it is safe to correct and execute it again.           *)
RefusedPublishedNothing ==
    \A c \in Body : answer[c] \in Refusals => \A d \in log : BodyOf(d) # c
=============================================================================
