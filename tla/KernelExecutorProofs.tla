------------------------- MODULE KernelExecutorProofs -------------------------
(***************************************************************************)
(* What is proved of KernelExecutor for any number of calls, scopes and    *)
(* effects: an idempotency scope has one transaction, a refused call has   *)
(* none, effects follow commits, and callers that do not reuse command ids *)
(* never leave a log its readers refuse.                                   *)
(***************************************************************************)
EXTENDS KernelExecutor, ProjectLogTheorems

(* What a call plans is a transaction behind the version it was made with. *)
LEMMA PlannedParts ==
    ASSUME TypeOK, NEW c \in Body
    PROVE  /\ Planned(c) \in Digest
           /\ Len(Planned(c)) = Len(expected[c]) + 1
           /\ Previous(Planned(c)) = expected[c]
           /\ BodyOf(Planned(c)) = c
           /\ Len(expected[c]) \in Nat
  BY DigestParts DEF TypeOK, Planned, Watermark

(* The commit of a call publishes its plan, or leaves the log alone.        *)
LEMMA LogStep ==
    ASSUME TypeOK, [Next]_vars
    PROVE  \/ log' = log
           \/ \E c \in Body : /\ CommitSucceeds(c) \/ CommitFailsLate(c)
                              /\ pc[c] = "commit" /\ Acceptable(c)
                              /\ log' = log \cup {Planned(c)}
  BY DEF Next, vars, durable, Executing, Materializing, Execute, LookUp, CommitSucceeds,
         CommitFailsLate, CommitRefused, Rescan, Recover, Materialize, RebuildScan, WriteIndex,
         RereadIndex, Dispatch, IssueReceipt

(* Every step keeps the types.                                             *)
LEMMA TypeStep == TypeOK /\ [Next]_vars => TypeOK'
<1> SUFFICES ASSUME TypeOK, [Next]_vars PROVE TypeOK'
  OBVIOUS
<1> USE KernelAssumption, BodyAssumption
    DEF TypeOK, Locations, Settled, Heard, Receipts, Refusals, Answers, Call, durable
<1>1. \A c \in Call, l \in Locations : GoTo(c, l) => pc' \in [Call -> Locations]
  BY DEF GoTo
<1>2. \A c \in Call, l \in Locations :
        Continue(c, l) => pc' \in [Call -> Locations] /\ answer' \in [Call -> Answers]
  BY <1>1 DEF Continue
<1>3. \A c \in Call, a \in Answers :
        Return(c, a) => pc' \in [Call -> Locations] /\ answer' \in [Call -> Answers]
  BY <1>1 DEF Return
<1>4. ASSUME NEW c \in Call, NEW d \in Digest, MaterializeStored(c, d)
      PROVE  /\ pc' \in [Call -> Locations] /\ answer' \in [Call -> Answers]
             /\ stored' \in [Call -> Watermark]
  <2>1. pc' \in [Call -> Locations] /\ answer' \in [Call -> Answers]
    BY <1>2, <1>4 DEF MaterializeStored
  <2>2. d \in Watermark
    BY DEF Digest, Watermark
  <2> QED BY <1>4, <2>1, <2>2 DEF MaterializeStored
<1>5. log \cup {<< >>} \subseteq Watermark
  BY VersionsAreWatermarks
<1>6. \A c \in Body : Planned(c) \in Digest
  BY PlannedParts
<1>7. ASSUME NEW c \in Body, Execute(c) PROVE TypeOK'
  <2>1. expected' \in [Body -> Watermark]
    BY <1>5, <1>7 DEF Execute
  <2>2. pc' \in [Call -> Locations] /\ answer' \in [Call -> Answers]
    BY <1>2, <1>3, <1>7 DEF Execute
  <2> QED BY <1>7, <2>1, <2>2 DEF Execute
<1>8. ASSUME NEW c \in Body, LookUp(c) PROVE TypeOK'
  <2>1. \A d \in SameRequest(c) : d \in Digest
    BY DEF SameRequest, SameScope
  <2>2. /\ pc' \in [Call -> Locations] /\ answer' \in [Call -> Answers]
        /\ stored' \in [Call -> Watermark]
    BY <1>2, <1>3, <1>4, <1>8, <2>1 DEF LookUp
  <2> QED BY <1>8, <2>2 DEF LookUp
<1>9. ASSUME NEW c \in Body, CommitSucceeds(c) PROVE TypeOK'
  BY <1>4, <1>6, <1>9 DEF CommitSucceeds
<1>10. ASSUME NEW c \in Body, CommitFailsLate(c) PROVE TypeOK'
  <2>1. pc' \in [Call -> Locations] /\ answer' \in [Call -> Answers]
    BY <1>2, <1>3, <1>10 DEF CommitFailsLate
  <2> QED BY <1>6, <1>10, <2>1 DEF CommitFailsLate
<1>11. ASSUME NEW c \in Body, CommitRefused(c) PROVE TypeOK'
  <2>1. pc' \in [Call -> Locations] /\ answer' \in [Call -> Answers]
    BY <1>2, <1>3, <1>11 DEF CommitRefused
  <2> QED BY <1>11, <2>1 DEF CommitRefused
<1>12. ASSUME NEW c \in Body, Rescan(c) PROVE TypeOK'
  <2>1. \A d \in SameRequest(c) : d \in Digest
    BY DEF SameRequest, SameScope
  <2>2. /\ pc' \in [Call -> Locations] /\ answer' \in [Call -> Answers]
        /\ stored' \in [Call -> Watermark]
    BY <1>2, <1>3, <1>4, <1>12, <2>1 DEF Rescan
  <2> QED BY <1>12, <2>2 DEF Rescan
<1>13. ASSUME NEW r \in Recoverer, Recover(r) PROVE TypeOK'
  <2>1. /\ pc' \in [Call -> Locations] /\ answer' \in [Call -> Answers]
        /\ stored' \in [Call -> Watermark]
    BY <1>3, <1>4, <1>13 DEF Recover
  <2>2. results' \in [Call -> Seq(Heard)]
    BY <1>13, EmptySeq DEF Recover
  <2> QED BY <1>13, <2>1, <2>2 DEF Recover
<1>14. ASSUME NEW c \in Call, Materialize(c) PROVE TypeOK'
  <2>1. pc' \in [Call -> Locations] /\ answer' \in [Call -> Answers]
    BY <1>2, <1>3, <1>14 DEF Materialize
  <2> QED BY <1>14, <2>1 DEF Materialize
<1>15. ASSUME NEW c \in Call, RebuildScan(c) PROVE TypeOK'
  BY <1>2, <1>15 DEF RebuildScan
<1>16. ASSUME NEW c \in Call, WriteIndex(c) PROVE TypeOK'
  BY <1>2, <1>16 DEF WriteIndex
<1>17. ASSUME NEW c \in Call, RereadIndex(c) PROVE TypeOK'
  <2>1. pc' \in [Call -> Locations] /\ answer' \in [Call -> Answers]
    BY <1>2, <1>3, <1>17 DEF RereadIndex
  <2> QED BY <1>17, <2>1 DEF RereadIndex
<1>18. ASSUME NEW c \in Call, Dispatch(c) PROVE TypeOK'
  <2>1. \A what \in Heard : Hear(c, what) => results' \in [Call -> Seq(Heard)]
    BY <1>18 DEF Hear
  <2>2. results' \in [Call -> Seq(Heard)]
    BY <1>18, <2>1 DEF Dispatch
  <2>3. outbox' \in [Effect -> {"none"} \cup Settled]
    BY <1>18 DEF Dispatch
  <2> QED BY <1>18, <2>2, <2>3 DEF Dispatch
<1>19. ASSUME NEW c \in Call, IssueReceipt(c) PROVE TypeOK'
  <2>1. Outcome(c) \in Answers
    BY DEF Outcome
  <2> QED BY <1>3, <1>19, <2>1 DEF IssueReceipt
<1>20. CASE UNCHANGED vars
  BY <1>20 DEF vars
<1> QED
  BY <1>7, <1>8, <1>9, <1>10, <1>11, <1>12, <1>13, <1>14, <1>15, <1>16, <1>17, <1>18, <1>19, <1>20
  DEF Next, Executing, Materializing

(* The state of the executor keeps its types under every step.             *)
THEOREM Typed == Spec => []TypeOK
<1>1. Init => TypeOK
  BY KernelAssumption, EmptySeq DEF Init, TypeOK, Locations, Answers, Watermark
<1> QED BY <1>1, TypeStep, PTL DEF Spec

-----------------------------------------------------------------------------
(***************************************************************************)
(* Scopes.  Between its lookup and its commit a call relies on the scope    *)
(* being empty, and others may publish in it meanwhile.  What they publish  *)
(* is longer than the version the call names, and the commit accepts only   *)
(* a version nothing is longer than.                                       *)
(***************************************************************************)
ScopeInv ==
    /\ OneTransactionPerScope
    /\ \A c \in Body : expected[c] \in log \cup {<< >>}
    /\ \A c \in Body : pc[c] = "commit" =>
         \A d \in log : ScopeOf[BodyOf(d)] = ScopeOf[c] => Len(d) > Len(expected[c])

(* Nobody is longer than the version a commit accepts.                     *)
LEMMA AcceptedIsLongest ==
    ASSUME NEW c \in Body, Acceptable(c)
    PROVE  \A d \in log : Len(d) <= Len(expected[c])
  BY DEF Acceptable, Complete, IsHighWatermark

(* At the commit the scope of the call is still empty.                     *)
LEMMA ScopeStillEmpty ==
    ASSUME TypeOK, ScopeInv, NEW c \in Body, pc[c] = "commit", Acceptable(c)
    PROVE  SameScope(c) = {}
<1>1. SUFFICES ASSUME NEW d \in log, ScopeOf[BodyOf(d)] = ScopeOf[c] PROVE FALSE
  BY DEF SameScope
<1>2. Len(d) <= Len(expected[c]) /\ Len(d) > Len(expected[c])
  BY <1>1, AcceptedIsLongest DEF ScopeInv
<1>3. Len(d) \in Nat /\ Len(expected[c]) \in Nat
  BY PlannedParts, PreviousShorter DEF TypeOK
<1> QED BY <1>2, <1>3

(* What a step does to the call it is a step of, and to no other.          *)
LEMMA ScopeStep == TypeOK /\ ScopeInv /\ [Next]_vars => ScopeInv'
<1> SUFFICES ASSUME TypeOK, ScopeInv, [Next]_vars PROVE ScopeInv'
  OBVIOUS
<1> USE BodyAssumption, KernelAssumption
<1>1. CASE log' = log
  <2>1. \A c \in Body : expected'[c] # expected[c] => expected'[c] \in log \cup {<< >>} /\ pc'[c] # "commit"
    BY DEF TypeOK, Call, Next, vars, durable, Executing, Materializing, Execute, LookUp, CommitSucceeds,
           CommitFailsLate, CommitRefused, Rescan, Recover, Materialize, RebuildScan, WriteIndex,
           RereadIndex, Dispatch, IssueReceipt, Return, Continue, GoTo
  <2>2. \A c \in Body : pc'[c] = "commit" /\ pc[c] # "commit" => SameScope(c) = {}
    BY DEF TypeOK, Call, Next, vars, durable, Executing, Materializing, Execute, LookUp, CommitSucceeds,
           CommitFailsLate, CommitRefused, Rescan, Recover, Materialize, RebuildScan, WriteIndex,
           RereadIndex, Dispatch, IssueReceipt, Return, Continue, GoTo, MaterializeStored, MayPlan
  <2> QED BY <1>1, <2>1, <2>2 DEF ScopeInv, OneTransactionPerScope, SameScope
<1>2. ASSUME NEW c \in Body, CommitSucceeds(c) \/ CommitFailsLate(c), pc[c] = "commit", Acceptable(c),
             log' = log \cup {Planned(c)}
      PROVE  ScopeInv'
  <2>1. SameScope(c) = {}
    BY <1>2, ScopeStillEmpty
  <2>2. BodyOf(Planned(c)) = c /\ Len(Planned(c)) = Len(expected[c]) + 1
    BY PlannedParts
  <2>3. expected' = expected /\ pc'[c] # "commit" /\ \A b \in Body \ {c} : pc'[b] = pc[b]
    BY <1>2 DEF TypeOK, Call, CommitSucceeds, CommitFailsLate, MaterializeStored, Return, Continue, GoTo
  <2>4. OneTransactionPerScope'
    BY <1>2, <2>1, <2>2 DEF ScopeInv, OneTransactionPerScope, SameScope
  <2>5. \A b \in Body : Len(expected[b]) <= Len(expected[c]) /\ Len(expected[b]) \in Nat
    <3>1. \A b \in Body : Len(expected[b]) \in Nat
      BY PlannedParts
    <3>2. Len(<< >>) = 0
      OBVIOUS
    <3> QED BY <1>2, <3>1, <3>2, AcceptedIsLongest DEF ScopeInv
  <2>6. \A b \in Body : Len(Planned(c)) > Len(expected[b])
    BY <2>2, <2>5
  <2> QED BY <1>2, <2>2, <2>3, <2>4, <2>6 DEF ScopeInv
<1> QED BY <1>1, <1>2, LogStep

(* An idempotency scope resolves to one transaction, whichever calls race   *)
(* in it and wherever a commit fails.                                      *)
THEOREM ScopeHasOneTransaction == Spec => []OneTransactionPerScope
<1>1. Init => ScopeInv
  BY DEF Init, ScopeInv, OneTransactionPerScope
<1>2. Init => TypeOK
  BY KernelAssumption, EmptySeq DEF Init, TypeOK, Locations, Answers, Watermark
<1>3. ScopeInv => OneTransactionPerScope
  BY DEF ScopeInv
<1> QED BY <1>1, <1>2, <1>3, TypeStep, ScopeStep, PTL DEF Spec

-----------------------------------------------------------------------------
(***************************************************************************)
(* Where transactions come from.  A call that has published is past its     *)
(* commit and was not refused; a call that tells of a transaction tells of  *)
(* one in the log that answers its request.                                *)
(***************************************************************************)
Telling == {"materialize", "rebuild", "write", "reread", "dispatch"}

Told(c) == pc[c] \in Telling \/ HasReceipt(c)

OriginInv ==
    /\ \A c \in Body : pc[c] # "returned" => answer[c] = "none"
    /\ \A d \in log : /\ pc[BodyOf(d)] \notin {"idle", "lookup", "commit"}
                      /\ answer[BodyOf(d)] \notin Refusals
    /\ \A c \in Call : Told(c) => stored[c] \in log
    /\ \A c \in Body : Told(c) => /\ ScopeOf[BodyOf(stored[c])] = ScopeOf[c]
                                 /\ InputOf[BodyOf(stored[c])] = InputOf[c]

LEMMA OriginStep == TypeOK /\ ScopeInv /\ OriginInv /\ [Next]_vars => OriginInv'
<1> SUFFICES ASSUME TypeOK, ScopeInv, OriginInv, [Next]_vars PROVE OriginInv'
  OBVIOUS
<1> USE BodyAssumption, KernelAssumption
    DEF Call, durable, Told, HasReceipt, Telling, Receipts, Refusals
<1>1. \A d \in log : BodyOf(d) \in Body
  BY BodyOfDigest DEF TypeOK
<1>2. /\ Body \subseteq Call /\ Recoverer \subseteq Call
      /\ DOMAIN pc = Call /\ DOMAIN answer = Call /\ DOMAIN stored = Call
  BY DEF TypeOK
<1>3. ASSUME NEW c \in Body, Execute(c) PROVE OriginInv'
  BY <1>1, <1>2, <1>3 DEF Execute, OriginInv, Continue, Return, GoTo, TypeOK
<1>4. ASSUME NEW c \in Call, NEW d \in log, MaterializeStored(c, d), log' = log,
              c \in Body => /\ pc[c] # "returned"
                            /\ ScopeOf[BodyOf(d)] = ScopeOf[c]
                            /\ InputOf[BodyOf(d)] = InputOf[c]
       PROVE  OriginInv'
  <2>1. pc' = [pc EXCEPT ![c] = "materialize"] /\ answer' = answer /\ stored' = [stored EXCEPT ![c] = d]
    BY <1>4 DEF MaterializeStored, Continue, GoTo
  <2> QED BY <1>1, <1>2, <1>4, <2>1 DEF OriginInv
<1>5. ASSUME NEW c \in Call, NEW a \in Refusals, Return(c, a), log' = log, stored' = stored,
              \A d \in log : BodyOf(d) # c
       PROVE  OriginInv'
  <2>1. pc' = [pc EXCEPT ![c] = "returned"] /\ answer' = [answer EXCEPT ![c] = a]
    BY <1>5 DEF Return, GoTo
  <2>2. \A x \in Call : ~(x = c /\ Told(x)')
    BY <1>2, <1>5, <2>1
  <2>3. \A x \in Call \ {c} : pc'[x] = pc[x] /\ answer'[x] = answer[x]
    BY <1>2, <2>1
  <2> QED BY <1>1, <1>2, <1>5, <2>1, <2>2, <2>3 DEF OriginInv
<1>6. \A c \in Body : \A d \in SameRequest(c) :
         d \in log /\ ScopeOf[BodyOf(d)] = ScopeOf[c] /\ InputOf[BodyOf(d)] = InputOf[c]
  BY DEF SameRequest, SameScope
<1>7. ASSUME NEW c \in Body, LookUp(c) PROVE OriginInv'
  <2>1. \A d \in log : BodyOf(d) # c
    BY <1>7 DEF LookUp, OriginInv
  <2>2. CASE \E d \in SameRequest(c) : MaterializeStored(c, d)
    BY <1>2, <1>7, <1>4, <1>6, <2>2 DEF LookUp
  <2>3. CASE stored' = stored /\ \E a \in {"conflict", "invalid"} : Return(c, a)
    BY <1>2, <1>7, <1>5, <2>1, <2>3 DEF LookUp
  <2>4. CASE stored' = stored /\ Continue(c, "commit")
    BY <1>1, <1>2, <1>7, <2>1, <2>4 DEF LookUp, OriginInv, Continue, GoTo
  <2> QED BY <1>7, <2>2, <2>3, <2>4 DEF LookUp
<1>8. ASSUME NEW c \in Body, CommitSucceeds(c) PROVE OriginInv'
  <2>1. BodyOf(Planned(c)) = c
    BY PlannedParts
  <2> QED BY <1>1, <1>2, <1>8, <2>1 DEF CommitSucceeds, OriginInv, MaterializeStored, Continue, GoTo, TypeOK
<1>9. ASSUME NEW c \in Body, CommitFailsLate(c) PROVE OriginInv'
  <2>1. BodyOf(Planned(c)) = c
    BY PlannedParts
  <2> QED BY <1>1, <1>2, <1>9, <2>1 DEF CommitFailsLate, OriginInv, Continue, Return, GoTo, TypeOK
<1>10. ASSUME NEW c \in Body, CommitRefused(c) PROVE OriginInv'
  BY <1>1, <1>2, <1>10 DEF CommitRefused, OriginInv, Continue, Return, GoTo, TypeOK
<1>11. ASSUME NEW c \in Body, Rescan(c) PROVE OriginInv'
  <2>1. CASE \E d \in SameRequest(c) : MaterializeStored(c, d)
    BY <1>2, <1>11, <1>4, <1>6, <2>1 DEF Rescan
  <2>2. CASE SameRequest(c) = {} /\ Return(c, "conflict") /\ stored' = stored
    <3>1. ASSUME NEW d \in log, BodyOf(d) = c PROVE FALSE
      BY <2>2, <3>1 DEF SameRequest, SameScope, ScopeInv, OneTransactionPerScope
    <3> QED BY <1>2, <1>11, <1>5, <2>2, <3>1 DEF Rescan
  <2> QED BY <1>11, <2>1, <2>2 DEF Rescan
<1>12. ASSUME NEW r \in Recoverer, Recover(r) PROVE OriginInv'
  <2>1. r \notin Body
    OBVIOUS
  <2>2. CASE \E d \in log : MaterializeStored(r, d)
    BY <1>2, <1>12, <1>4, <2>1, <2>2 DEF Recover
  <2>3. CASE (Return(r, "invalid") \/ Return(r, "unauthorized")) /\ stored' = stored
    BY <1>1, <1>2, <1>12, <1>5, <2>1, <2>3 DEF Recover
  <2> QED BY <1>12, <2>2, <2>3 DEF Recover
<1>13. ASSUME NEW c \in Call, Materialize(c) PROVE OriginInv'
  BY <1>1, <1>2, <1>13 DEF Materialize, OriginInv, Continue, Return, GoTo, TypeOK
<1>14. ASSUME NEW c \in Call, RebuildScan(c) PROVE OriginInv'
  BY <1>1, <1>2, <1>14 DEF RebuildScan, OriginInv, Continue, GoTo, TypeOK
<1>15. ASSUME NEW c \in Call, WriteIndex(c) PROVE OriginInv'
  BY <1>1, <1>2, <1>15 DEF WriteIndex, OriginInv, Continue, GoTo, TypeOK
<1>16. ASSUME NEW c \in Call, RereadIndex(c) PROVE OriginInv'
  BY <1>1, <1>2, <1>16 DEF RereadIndex, OriginInv, Continue, Return, GoTo, TypeOK
<1>17. ASSUME NEW c \in Call, Dispatch(c) PROVE OriginInv'
  BY <1>1, <1>2, <1>17 DEF Dispatch, OriginInv, TypeOK
<1>18. ASSUME NEW c \in Call, IssueReceipt(c) PROVE OriginInv'
  <2>1. Outcome(c) \in Receipts
    BY DEF Outcome
  <2> QED BY <1>1, <1>2, <1>18, <2>1 DEF IssueReceipt, OriginInv, Return, GoTo, TypeOK
<1>19. CASE UNCHANGED vars
  BY <1>19 DEF vars, OriginInv
<1> QED
  BY <1>3, <1>7, <1>8, <1>9, <1>10, <1>11, <1>12, <1>13, <1>14, <1>15, <1>16, <1>17, <1>18, <1>19
  DEF Next, Executing, Materializing

LEMMA Initially == Init => TypeOK /\ ScopeInv /\ OriginInv
  BY KernelAssumption, EmptySeq
  DEF Init, TypeOK, Locations, Answers, Watermark, ScopeInv, OneTransactionPerScope, OriginInv, Told,
      HasReceipt, Telling, Receipts, Refusals, Call

LEMMA OriginKept == Spec => [](TypeOK /\ ScopeInv /\ OriginInv)
  BY Initially, TypeStep, ScopeStep, OriginStep, PTL DEF Spec

(* A call that was refused has published nothing: its request can be        *)
(* corrected and executed again.                                           *)
THEOREM RefusalsPublishNothing == Spec => []RefusedPublishedNothing
<1>1. OriginInv => RefusedPublishedNothing
  BY DEF OriginInv, RefusedPublishedNothing
<1> QED BY <1>1, OriginKept, PTL

-----------------------------------------------------------------------------
(***************************************************************************)
(* What calls hear.  A call has heard at most one answer for each effect of *)
(* its transaction, and an answer that settles an effect is the outbox's.   *)
(***************************************************************************)
HeardFrom(c) ==
    /\ Len(results[c]) <= Len(Effects(c))
    /\ \A i \in 1..Len(results[c]) :
         results[c][i] \in Settled => outbox[Effects(c)[i]] = results[c][i]

HeardOK(c) ==
    /\ c \in Body /\ pc[c] \notin {"dispatch", "returned"} => results[c] = << >>
    /\ pc[c] \in Telling \ {"dispatch"} => results[c] = << >>
    /\ pc[c] = "dispatch" => HeardFrom(c)
    /\ HasReceipt(c) =>
         HeardFrom(c) /\ Len(results[c]) = Len(Effects(c)) /\ answer[c] = Outcome(c)

HeardInv == EffectsFollowCommit /\ \A c \in Call : HeardOK(c)

(* The outbox never changes an answer it has given.                        *)
LEMMA OutboxKeeps ==
    ASSUME TypeOK, [Next]_vars
    PROVE  \A e \in Effect : outbox[e] # "none" => outbox'[e] = outbox[e]
<1>1. CASE outbox' = outbox
  BY <1>1
<1>2. ASSUME NEW c \in Call, Dispatch(c)
      PROVE  \A e \in Effect : outbox[e] # "none" => outbox'[e] = outbox[e]
  BY <1>2 DEF Dispatch, TypeOK
<1> QED
  BY <1>1, <1>2
  DEF Next, vars, durable, Executing, Materializing, Execute, LookUp, CommitSucceeds,
      CommitFailsLate, CommitRefused, Rescan, Recover, Materialize, RebuildScan, WriteIndex,
      RereadIndex, IssueReceipt

(* The effects of a transaction in the log are effect keys.                *)
LEMMA EffectsTyped ==
    ASSUME TypeOK, NEW d \in log
    PROVE  EffectsOf[BodyOf(d)] \in Seq(Effect)
  BY BodyOfDigest, KernelAssumption DEF TypeOK

(* A call that a step leaves alone has heard what it had heard.            *)
LEMMA HeardKept ==
    ASSUME TypeOK, OriginInv, [Next]_vars, NEW c \in Call, Told(c), HeardFrom(c),
           results'[c] = results[c], stored'[c] = stored[c]
    PROVE  HeardFrom(c)'
<1>1. Effects(c) \in Seq(Effect)
  BY EffectsTyped DEF OriginInv, Effects
<1>2. Effects(c)' = Effects(c)
  BY DEF Effects
<1>3. results[c] \in Seq(Heard)
  BY DEF TypeOK
<1>4. \A i \in 1..Len(results[c]) : Effects(c)[i] \in Effect
  BY <1>1, <1>3 DEF HeardFrom
<1> QED BY <1>2, <1>4, OutboxKeeps DEF HeardFrom, Settled

LEMMA HeardByOthers ==
    ASSUME TypeOK, OriginInv, [Next]_vars, NEW c \in Call, HeardOK(c),
           pc'[c] = pc[c], answer'[c] = answer[c], results'[c] = results[c], stored'[c] = stored[c]
    PROVE  HeardOK(c)'
<1>1. Effects(c)' = Effects(c) /\ Outcome(c)' = Outcome(c)
  BY DEF Effects, Outcome, Governed
<1>2. Told(c) /\ HeardFrom(c) => HeardFrom(c)'
  BY HeardKept
<1> QED BY <1>1, <1>2 DEF HeardOK, HasReceipt, Told, Telling

(* No step lets the outbox know an effect that no transaction declares.    *)
LEMMA EffectsStep == TypeOK /\ OriginInv /\ EffectsFollowCommit /\ [Next]_vars => EffectsFollowCommit'
<1> SUFFICES ASSUME TypeOK, OriginInv, EffectsFollowCommit, [Next]_vars PROVE EffectsFollowCommit'
  OBVIOUS
<1>1. CASE outbox' = outbox
  <2>1. log \subseteq log'
    BY LogStep
  <2> QED BY <1>1, <2>1 DEF EffectsFollowCommit
<1>2. ASSUME NEW c \in Call, Dispatch(c) PROVE EffectsFollowCommit'
  <2>1. stored[c] \in log /\ log' = log
    BY <1>2 DEF Dispatch, OriginInv, Told, Telling
  <2>2. Effects(c) \in Seq(Effect) /\ results[c] \in Seq(Heard) /\ Len(results[c]) < Len(Effects(c))
    BY <1>2, <2>1, EffectsTyped DEF Dispatch, TypeOK, Effects
  <2>3. Len(results[c]) + 1 \in 1..Len(Effects(c))
    BY <2>2
  <2>4. \A e \in Effect : outbox'[e] # outbox[e] => e = Effects(c)[Len(results[c]) + 1]
    BY <1>2 DEF Dispatch, TypeOK
  <2> QED BY <2>1, <2>3, <2>4 DEF EffectsFollowCommit, Effects
<1> QED
  BY <1>1, <1>2
  DEF Next, vars, durable, Executing, Materializing, Execute, LookUp, CommitSucceeds,
      CommitFailsLate, CommitRefused, Rescan, Recover, Materialize, RebuildScan, WriteIndex,
      RereadIndex, IssueReceipt

LEMMA HeardStep == TypeOK /\ OriginInv /\ HeardInv /\ [Next]_vars => HeardInv'
<1> SUFFICES ASSUME TypeOK, OriginInv, HeardInv, [Next]_vars PROVE HeardInv'
  OBVIOUS
<1> USE KernelAssumption DEF Call, durable
<1>1. /\ Body \subseteq Call /\ Recoverer \subseteq Call /\ Body \cap Recoverer = {}
      /\ DOMAIN pc = Call /\ DOMAIN answer = Call /\ DOMAIN stored = Call /\ DOMAIN results = Call
  BY DEF TypeOK
<1>2. EffectsFollowCommit'
  BY EffectsStep DEF HeardInv
(* What a step does to its own call is all that is left to look at.        *)
<1>3. ASSUME NEW c \in Call, HeardOK(c)',
             \A x \in Call \ {c} : /\ pc'[x] = pc[x] /\ answer'[x] = answer[x]
                                   /\ results'[x] = results[x] /\ stored'[x] = stored[x]
      PROVE  HeardInv'
  BY <1>2, <1>3, HeardByOthers DEF HeardInv
<1>4. ASSUME NEW c \in Call, NEW l \in {"lookup", "commit", "rescan", "rebuild", "write", "reread"},
             Continue(c, l), UNCHANGED <<results, stored>>,
             pc[c] \notin {"dispatch", "returned"}, pc[c] \in Telling \/ c \in Body
      PROVE  HeardInv'
  <2>1. pc'[c] = l /\ results'[c] = results[c]
    BY <1>1, <1>4 DEF Continue, GoTo
  <2>2. HeardOK(c)'
    BY <1>4, <2>1 DEF HeardInv, HeardOK, HasReceipt, Telling
  <2> QED BY <1>1, <1>3, <1>4, <2>2 DEF Continue, GoTo
<1>5. ASSUME NEW c \in Call, NEW a \in {"error"} \cup Refusals, Return(c, a), stored' = stored,
             \A x \in Call \ {c} : results'[x] = results[x]
      PROVE  HeardInv'
  <2>1. pc'[c] = "returned" /\ answer'[c] = a
    BY <1>1, <1>5 DEF Return, GoTo
  <2>2. HeardOK(c)'
    BY <1>5, <2>1 DEF HeardOK, HasReceipt, Telling, Receipts, Refusals
  <2> QED BY <1>1, <1>3, <1>5, <2>2 DEF Return, GoTo
<1>6. ASSUME NEW c \in Call, NEW d \in Digest, MaterializeStored(c, d), results'[c] = << >>,
             \A x \in Call \ {c} : results'[x] = results[x]
      PROVE  HeardInv'
  <2>1. pc'[c] = "materialize"
    BY <1>1, <1>6 DEF MaterializeStored, Continue, GoTo
  <2>2. HeardOK(c)'
    BY <1>6, <2>1 DEF HeardOK, HasReceipt, Telling
  <2> QED BY <1>1, <1>3, <1>6, <2>2 DEF MaterializeStored, Continue, GoTo
<1>7. \A c \in Body : pc[c] \notin {"dispatch", "returned"} => results[c] = << >>
  BY DEF HeardInv, HeardOK
<1>8. ASSUME NEW c \in Body, Executing(c) PROVE HeardInv'
  <2>1. \A d \in SameRequest(c) : d \in Digest
    BY DEF SameRequest, SameScope, TypeOK
  <2>2. Planned(c) \in Digest
    BY PlannedParts
  <2>3. CASE Execute(c)
    BY <1>1, <1>4, <1>5, <2>3 DEF Execute, Refusals
  <2>4. CASE LookUp(c)
    BY <1>1, <1>4, <1>5, <1>6, <1>7, <2>1, <2>4 DEF LookUp, Refusals
  <2>5. CASE CommitSucceeds(c)
    BY <1>1, <1>6, <1>7, <2>2, <2>5 DEF CommitSucceeds
  <2>6. CASE CommitFailsLate(c)
    BY <1>1, <1>4, <1>5, <2>6 DEF CommitFailsLate
  <2>7. CASE CommitRefused(c)
    BY <1>1, <1>4, <1>5, <2>7 DEF CommitRefused
  <2>8. CASE Rescan(c)
    BY <1>1, <1>5, <1>6, <1>7, <2>1, <2>8 DEF Rescan, Refusals
  <2> QED BY <1>8, <2>3, <2>4, <2>5, <2>6, <2>7, <2>8 DEF Executing
<1>9. ASSUME NEW r \in Recoverer, Recover(r) PROVE HeardInv'
  <2>1. results'[r] = << >> /\ \A x \in Call \ {r} : results'[x] = results[x]
    BY <1>1, <1>9 DEF Recover
  <2>2. log \subseteq Digest
    BY DEF TypeOK
  <2> QED BY <1>1, <1>5, <1>6, <1>9, <2>1, <2>2 DEF Recover, Refusals
<1>10. ASSUME NEW c \in Call, Materialize(c) \/ RebuildScan(c) \/ WriteIndex(c) PROVE HeardInv'
  BY <1>4, <1>5, <1>10 DEF Materialize, RebuildScan, WriteIndex, Telling
<1>11. ASSUME NEW c \in Call, RereadIndex(c) PROVE HeardInv'
  <2>1. CASE Continue(c, "dispatch")
    <3>1. pc'[c] = "dispatch" /\ results'[c] = << >> /\ Effects(c)' = Effects(c)
      BY <1>1, <1>11, <2>1 DEF RereadIndex, Continue, GoTo, HeardInv, HeardOK, Telling, Effects
    <3>2. Effects(c) \in Seq(Effect)
      BY <1>11, EffectsTyped DEF RereadIndex, OriginInv, Told, Telling, Effects
    <3>3. HeardOK(c)'
      BY <3>1, <3>2 DEF HeardOK, HeardFrom, HasReceipt, Telling
    <3> QED BY <1>1, <1>3, <1>11, <2>1, <3>3 DEF RereadIndex, Continue, GoTo
  <2>2. CASE Return(c, "error")
    BY <1>5, <1>11, <2>2 DEF RereadIndex
  <2> QED BY <1>11, <2>1, <2>2 DEF RereadIndex
<1>12. ASSUME NEW c \in Call, Dispatch(c) PROVE HeardInv'
  <2> DEFINE n == Len(results[c]) + 1
  <2>1. /\ pc[c] = "dispatch" /\ pc' = pc /\ answer' = answer /\ stored' = stored
        /\ Len(results[c]) < Len(Effects(c)) /\ HeardFrom(c)
    BY <1>12 DEF Dispatch, HeardInv, HeardOK
  <2>2. Effects(c) \in Seq(Effect) /\ results[c] \in Seq(Heard) /\ Effects(c)' = Effects(c)
    BY <2>1, EffectsTyped DEF OriginInv, Told, Telling, Effects, TypeOK
  <2>3. PICK what \in Heard : /\ results' = [results EXCEPT ![c] = Append(@, what)]
                              /\ what \in Settled => outbox'[Effects(c)[n]] = what
    <3>1. Effects(c)[n] \in Effect
      BY <2>1, <2>2
    <3> QED BY <1>12, <3>1 DEF Dispatch, Hear, Heard, Settled, TypeOK
  <2>4. /\ Len(results'[c]) = n /\ results'[c][n] = what
        /\ \A i \in 1..Len(results[c]) : results'[c][i] = results[c][i]
    BY <1>1, <2>2, <2>3
  <2>5. \A i \in 1..Len(results[c]) : Effects(c)[i] \in Effect
    BY <2>1, <2>2
  <2>6. HeardFrom(c)'
    <3>1. Len(results'[c]) <= Len(Effects(c)')
      BY <2>1, <2>2, <2>4
    <3>2. ASSUME NEW i \in 1..n, results'[c][i] \in Settled
          PROVE  outbox'[Effects(c)[i]] = results'[c][i]
      <4>1. CASE i = n
        BY <2>3, <2>4, <3>2, <4>1
      <4>2. CASE i # n
        <5>1. i \in 1..Len(results[c])
          BY <2>2, <4>2
        <5> QED BY <2>1, <2>4, <2>5, <3>2, <5>1, OutboxKeeps DEF HeardFrom, Settled
      <4> QED BY <4>1, <4>2
    <3> QED BY <2>2, <2>4, <3>1, <3>2 DEF HeardFrom, Settled
  <2>7. HeardOK(c)'
    BY <2>1, <2>6 DEF HeardOK, HasReceipt, Telling
  <2> QED BY <1>1, <1>3, <2>1, <2>3, <2>7
<1>13. ASSUME NEW c \in Call, IssueReceipt(c) PROVE HeardInv'
  <2>1. /\ pc[c] = "dispatch" /\ HeardFrom(c) /\ Len(results[c]) = Len(Effects(c))
        /\ pc'[c] = "returned" /\ answer'[c] = Outcome(c) /\ results' = results /\ stored' = stored
    BY <1>1, <1>13 DEF IssueReceipt, Return, GoTo, HeardInv, HeardOK
  <2>2. Effects(c)' = Effects(c) /\ Outcome(c)' = Outcome(c)
    BY <2>1 DEF Effects, Outcome, Governed
  <2>3. HeardFrom(c)'
    BY <2>1, HeardKept DEF Told, Telling
  <2>4. HeardOK(c)'
    BY <2>1, <2>2, <2>3 DEF HeardOK, Telling
  <2> QED BY <1>1, <1>3, <1>13, <2>4 DEF IssueReceipt, Return, GoTo
<1>14. CASE UNCHANGED vars
  BY <1>2, <1>14, HeardByOthers DEF vars, HeardInv
<1> QED
  BY <1>8, <1>9, <1>10, <1>11, <1>12, <1>13, <1>14 DEF Next, Materializing

LEMMA HeardInitially == Init => HeardInv
  BY DEF Init, HeardInv, HeardOK, EffectsFollowCommit, HasReceipt, Receipts, Telling, Call

(* The outbox never learns of an effect that no committed transaction       *)
(* declares.                                                               *)
THEOREM EffectsComeAfterCommits == Spec => []EffectsFollowCommit
<1>1. HeardInv => EffectsFollowCommit
  BY DEF HeardInv
<1>2. Init => TypeOK /\ OriginInv
  BY Initially
<1> QED BY <1>1, <1>2, HeardInitially, HeardStep, OriginKept, PTL DEF Spec

(* A receipt is about a committed transaction that answers the request, and *)
(* "completed" means that the outbox delivered every required effect.      *)
THEOREM ReceiptsAreTrue == Spec => []ReceiptIsTrue
<1>1. TypeOK /\ OriginInv /\ HeardInv => ReceiptIsTrue
  <2> SUFFICES ASSUME TypeOK, OriginInv, HeardInv, NEW c \in Call, HasReceipt(c),
                      answer[c] = "completed", NEW i \in 1..Len(Effects(c)),
                      Effects(c)[i] \in Required
               PROVE  outbox[Effects(c)[i]] = "delivered"
    BY DEF ReceiptIsTrue, OriginInv, Told
  <2>1. HeardFrom(c) /\ Len(results[c]) = Len(Effects(c)) /\ Outcome(c) = "completed"
    BY DEF HeardInv, HeardOK
  <2>2. results[c][i] \in Governed(c)
    BY <2>1 DEF Governed
  <2>3. results[c][i] \notin {"dead_letter", "failed", "pending"}
    BY <2>1, <2>2 DEF Outcome
  <2>4. results[c][i] \in Heard
    BY <2>1 DEF TypeOK
  <2> QED BY <2>1, <2>3, <2>4 DEF HeardFrom, Heard, Settled
<1>2. Init => TypeOK /\ OriginInv
  BY Initially
<1> QED BY <1>1, <1>2, HeardInitially, HeardStep, OriginKept, PTL DEF Spec

(***************************************************************************)
(* Receipts never contradict each other.  A settled effect is the same in   *)
(* the outbox and in what every call heard of it, so that a dead letter one *)
(* call was told of is in the way of every "completed" for the transaction; *)
(* and a call all of whose required effects were delivered is completed,    *)
(* whatever became of its optional ones (ADR 0014, invariant 11).           *)
(***************************************************************************)
LEMMA ReceiptsAgreeNow ==
    ASSUME TypeOK, OriginInv, HeardInv
    PROVE  ReceiptsAgree
<1> SUFFICES ASSUME NEW c \in Call, NEW d \in Call, HasReceipt(c), HasReceipt(d), stored[c] = stored[d]
             PROVE  /\ "dead_letter" \in Governed(c) => answer[c] = "needs_repair" /\ answer[d] # "completed"
                    /\ Governed(c) \subseteq {"delivered"} => answer[c] = "completed"
  BY DEF ReceiptsAgree
<1>1. /\ HeardFrom(c) /\ Len(results[c]) = Len(Effects(c)) /\ answer[c] = Outcome(c)
      /\ HeardFrom(d) /\ Len(results[d]) = Len(Effects(d)) /\ answer[d] = Outcome(d)
  BY DEF HeardInv, HeardOK
<1>2. Effects(d) = Effects(c)
  BY DEF Effects
<1>3. ASSUME "dead_letter" \in Governed(c)
      PROVE  answer[c] = "needs_repair" /\ answer[d] # "completed"
  <2>1. answer[c] = "needs_repair"
    BY <1>1, <1>3 DEF Outcome
  <2>2. PICK i \in 1..Len(results[c]) : Effects(c)[i] \in Required /\ results[c][i] = "dead_letter"
    BY <1>3 DEF Governed
  <2>3. outbox[Effects(c)[i]] = "dead_letter"
    BY <1>1, <2>2 DEF HeardFrom, Settled
  <2>4. results[d][i] \in Governed(d) /\ results[d][i] \in Heard
    BY <1>1, <1>2, <2>2 DEF Governed, TypeOK
  <2>5. results[d][i] # "delivered"
    BY <1>1, <1>2, <2>2, <2>3 DEF HeardFrom, Settled
  <2>6. Governed(d) \cap {"dead_letter", "failed", "pending"} # {}
    BY <2>4, <2>5 DEF Heard, Settled
  <2>7. Outcome(d) # "completed"
    BY <2>6 DEF Outcome
  <2> QED BY <1>1, <2>1, <2>7
<1>4. ASSUME Governed(c) \subseteq {"delivered"}
      PROVE  answer[c] = "completed"
  BY <1>1, <1>4 DEF Outcome
<1> QED BY <1>3, <1>4

(* Any two receipts of one transaction agree, in every reachable state.     *)
THEOREM ReceiptsNeverDisagree == Spec => []ReceiptsAgree
<1>1. Init => TypeOK /\ OriginInv
  BY Initially
<1> QED BY <1>1, ReceiptsAgreeNow, HeardInitially, HeardStep, OriginKept, PTL DEF Spec

-----------------------------------------------------------------------------
(***************************************************************************)
(* The log stays readable.  The command of a call is on no transaction of   *)
(* the history it extends, because the same command would be in the same    *)
(* scope and the scope is empty.  This is where callers must not give one   *)
(* command id to two requests.                                             *)
(***************************************************************************)
ChainInv == Forkless(log) /\ Nested(log) /\ Complete(log)

LEMMA CommitIsFresh ==
    ASSUME TypeOK, ScopeInv, NEW c \in Body, pc[c] = "commit", Acceptable(c),
           DistinctCommands, DistinctEvents
    PROVE  FreshFor(expected[c], c)
<1>1. SUFFICES ASSUME NEW i \in 1..Len(expected[c])
               PROVE  /\ CommandOf[expected[c][i]] # CommandOf[c]
                      /\ EventsOf[expected[c][i]] \cap EventsOf[c] = {}
  BY DEF FreshFor
<1> DEFINE h == expected[c]
           d == SubSeq(h, 1, i)
<1>2. h \in Seq(Body) /\ i \in 1..Len(h)
  BY <1>1 DEF TypeOK, Watermark
<1>3. h \in log
  <2>1. h # << >>
    BY <1>2
  <2> QED BY <2>1 DEF ScopeInv
<1>4. d \in log
  BY <1>2, <1>3 DEF Acceptable, Complete, Applied, AppliedAt
<1>5. BodyOf(d) = h[i] /\ h[i] \in Body
  BY <1>2 DEF BodyOf
<1>6. ScopeOf[h[i]] # ScopeOf[c]
  BY <1>4, <1>5, ScopeStillEmpty DEF SameScope
<1> QED BY <1>5, <1>6 DEF DistinctCommands, DistinctEvents

LEMMA ChainStep ==
    ASSUME DistinctCommands, DistinctEvents
    PROVE  TypeOK /\ ScopeInv /\ ChainInv /\ [Next]_vars => ChainInv'
<1> SUFFICES ASSUME TypeOK, ScopeInv, ChainInv, [Next]_vars PROVE ChainInv'
  OBVIOUS
<1>1. CASE log' = log
  BY <1>1 DEF ChainInv
<1>2. ASSUME NEW c \in Body, pc[c] = "commit", Acceptable(c), log' = log \cup {Planned(c)}
      PROVE  ChainInv'
  <2>1. FreshFor(expected[c], c)
    BY <1>2, CommitIsFresh
  <2>2. log \in SUBSET Digest /\ expected[c] \in Watermark
    BY DEF TypeOK
  <2>3. Complete(log') /\ Forkless(log') /\ Nested(log')
    BY <1>2, <2>1, <2>2, ExtendComplete, ExtendForkless, ExtendNested
    DEF ChainInv, Acceptable, Planned
  <2> QED BY <2>3 DEF ChainInv, Complete, Forkless, Nested, Applied, AppliedAt, IdentityConflict,
                      DuplicateCommand, DuplicateEvent
<1> QED BY <1>1, <1>2, LogStep

LEMMA ChainKept ==
    ASSUME DistinctCommands, DistinctEvents
    PROVE  Spec => [](TypeOK /\ ChainInv)
<1>1. Init => TypeOK /\ ScopeInv /\ ChainInv
  BY Initially DEF Init, ChainInv, Forkless, Nested, Complete
<1>2. TypeOK /\ ScopeInv /\ ChainInv /\ [Next]_vars => (TypeOK /\ ScopeInv /\ ChainInv)'
  BY TypeStep, ScopeStep, ChainStep
<1> QED BY <1>1, <1>2, PTL DEF Spec

(* Callers that give each command id to one request never leave a log its   *)
(* readers refuse, so no command can block the commands after it.          *)
THEOREM NeverIncomplete ==
    ASSUME DistinctCommands, DistinctEvents
    PROVE  Spec => []AlwaysComplete
<1>1. ChainInv => AlwaysComplete
  BY DEF ChainInv, AlwaysComplete
<1> QED BY <1>1, ChainKept, PTL

(* And each of their commands has one transaction.                         *)
THEOREM CommandHasOneTransaction ==
    ASSUME DistinctCommands, DistinctEvents
    PROVE  Spec => []OneTransactionPerCommand
<1>1. TypeOK /\ ChainInv => OneTransactionPerCommand
  <2> SUFFICES ASSUME TypeOK, ChainInv, NEW d \in log, NEW e \in log,
                      CommandOf[BodyOf(d)] = CommandOf[BodyOf(e)], d # e
               PROVE  FALSE
    BY DEF OneTransactionPerCommand
  <2>1. Len(d) \in 1..Len(d) /\ SubSeq(d, 1, Len(d)) = d
    BY EmptySeq, SubSeqFull DEF TypeOK, Digest
  <2>2. ~DuplicateCommand(log, d)
    BY <2>1 DEF ChainInv, Complete, Applied, AppliedAt, IdentityConflict
  <2> QED BY <2>2 DEF DuplicateCommand
<1> QED BY <1>1, ChainKept, PTL
=============================================================================
