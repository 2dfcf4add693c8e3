-------------------------- MODULE ProjectCommitProofs --------------------------
(***************************************************************************)
(* What is proved of ProjectCommit for any number of writers, crashes and  *)
(* transactions.  With an undisturbed lock there is one holder at a time,  *)
(* the log never forks, and only a reused id makes it incomplete.          *)
(***************************************************************************)
EXTENDS ProjectCommit, ProjectLogTheorems

(* Every step keeps the types; the lock protocol plays no part in it.      *)
LEMMA TypeStep == TypeOK /\ [Next]_vars => TypeOK'
<1> SUFFICES ASSUME TypeOK, [Next]_vars PROVE TypeOK'
  OBVIOUS
<1> USE WriterAssumption, BodyAssumption DEF TypeOK, Locations, Outcomes, Status
<1>1. \A w \in Writer : TransactionDigest(w) \in Digest
  BY DigestParts DEF TransactionDigest
<1>a. \A w \in Writer, l \in Locations : GoTo(w, l) => pc' \in [Writer -> Locations]
  BY DEF GoTo
<1>b. \A w \in Writer, r \in Outcomes : Decide(w, r) => outcome' \in [Writer -> Outcomes]
  BY DEF Decide
<1>2. ASSUME NEW w \in Writer, Submit(w) PROVE TypeOK'
  <2>1. log \cup {<< >>} \subseteq Watermark
    BY VersionsAreWatermarks
  <2>2. PICK expected, previous \in log \cup {<< >>} :
          request' = [request EXCEPT ![w] = [previous |-> previous, expected |-> expected]]
    BY <1>2 DEF Submit
  <2>3. request' \in [Writer -> [previous : Watermark, expected : Watermark]]
    BY <2>1, <2>2
  <2>4. aged' \subseteq Writer
    BY <1>2 DEF Submit, SampleClock
  <2> QED BY <1>2, <2>3, <2>4 DEF Submit, GoTo
<1>3. ASSUME NEW w \in Writer, MakeLock(w) PROVE TypeOK'
  BY <1>3 DEF MakeLock, ChangeLock, Lock, GoTo, files
<1>4. ASSUME NEW w \in Writer, OpenOwner(w) PROVE TypeOK'
  <2>1. lock' \in [status : Status, token : Writer \cup {NoWriter}] /\ aged' \subseteq Writer
    BY <1>4 DEF OpenOwner, ChangeLock, Lock
  <2>2. pc' \in [Writer -> Locations] /\ outcome' \in [Writer -> Outcomes]
    BY <1>4, <1>a, <1>b DEF OpenOwner
  <2> QED BY <1>4, <2>1, <2>2 DEF OpenOwner, files
<1>5. ASSUME NEW w \in Writer, WriteOwner(w) PROVE TypeOK'
  BY <1>5 DEF WriteOwner, Lock, GoTo, Decide, files
<1>6. ASSUME NEW w \in Writer, InspectOwner(w) PROVE TypeOK'
  <2>1. aged' \subseteq Writer
    BY <1>6 DEF InspectOwner, WaitOrGiveUp, Retry, GiveUp, SampleClock
  <2>2. pc' \in [Writer -> Locations] /\ outcome' \in [Writer -> Outcomes]
    BY <1>6, <1>a, <1>b DEF InspectOwner, WaitOrGiveUp, Retry, GiveUp
  <2> QED BY <1>6, <2>1, <2>2 DEF InspectOwner, files
<1>7. ASSUME NEW w \in Writer, StatLock(w) PROVE TypeOK'
  BY <1>7 DEF StatLock, WaitOrGiveUp, Retry, GiveUp, SampleClock, GoTo, Decide, files
<1>8. ASSUME NEW w \in Writer, StealLock(w) PROVE TypeOK'
  BY <1>8 DEF StealLock, WaitOrGiveUp, Retry, GiveUp, SampleClock, NoLock, Lock, GoTo, Decide, files
<1>9. ASSUME NEW w \in Writer, ScanLog(w) PROVE TypeOK'
  BY <1>9 DEF ScanLog, GoTo, Decide, files
<1>10. ASSUME NEW w \in Writer, StageTransaction(w) PROVE TypeOK'
  BY <1>1, <1>10 DEF StageTransaction, GoTo
<1>11. ASSUME NEW w \in Writer, AssertOwned(w) PROVE TypeOK'
  BY <1>11 DEF AssertOwned, GoTo, Decide, files
<1>12. ASSUME NEW w \in Writer, LinkTransaction(w) PROVE TypeOK'
  BY <1>1, <1>12 DEF LinkTransaction, GoTo, Decide
<1>13. ASSUME NEW w \in Writer, CleanupMatchingTemps(w) PROVE TypeOK'
  BY <1>13 DEF CleanupMatchingTemps, GoTo
<1>14. ASSUME NEW w \in Writer, RebuildScan(w) PROVE TypeOK'
  BY <1>14 DEF RebuildScan, GoTo, files
<1>15. ASSUME NEW w \in Writer, WriteIndex(w) PROVE TypeOK'
  BY <1>15 DEF WriteIndex, GoTo
<1>16. ASSUME NEW w \in Writer, VerifyCommit(w) PROVE TypeOK'
  BY <1>16 DEF VerifyCommit, GoTo, Decide, files
<1>17. ASSUME NEW w \in Writer, ReleaseLock(w) PROVE TypeOK'
  BY <1>17 DEF ReleaseLock, GoTo, Decide, files
<1>18. ASSUME NEW w \in Writer, UnlinkOwner(w) PROVE TypeOK'
  <2>1. lock' \in [status : Status, token : Writer \cup {NoWriter}] /\ aged' \subseteq Writer
    BY <1>18 DEF UnlinkOwner, ChangeLock, Lock
  <2>2. pc' \in [Writer -> Locations] /\ outcome' \in [Writer -> Outcomes]
    BY <1>18, <1>a, <1>b DEF UnlinkOwner
  <2> QED BY <1>18, <2>1, <2>2 DEF UnlinkOwner, files
<1>19. ASSUME NEW w \in Writer, RemoveLock(w) PROVE TypeOK'
  BY <1>19, <1>a, <1>b DEF RemoveLock, ChangeLock, NoLock, Lock, files
<1>20. ASSUME NEW w \in Writer, Crash(w) PROVE TypeOK'
  BY <1>20 DEF Crash, GoTo, files
<1>21. CASE UNCHANGED vars
  BY <1>21 DEF vars
<1> QED
  BY <1>2, <1>3, <1>4, <1>5, <1>6, <1>7, <1>8, <1>9, <1>10, <1>11, <1>12, <1>13, <1>14,
     <1>15, <1>16, <1>17, <1>18, <1>19, <1>20, <1>21
  DEF Next, CallStep

(* The state keeps its types, disturbed or not.                            *)
THEOREM Typed == Spec => []TypeOK
<1>1. Init => TypeOK
  BY WriterAssumption, EmptySeq
  DEF Init, TypeOK, Locations, Outcomes, Status, NoLock, Lock, Watermark
<1> QED BY <1>1, TypeStep, PTL DEF Spec

-----------------------------------------------------------------------------
(***************************************************************************)
(* The lock.  OneHolder is not inductive by itself: it holds because a      *)
(* holder's owner file is the one in the lock directory, because a valid   *)
(* owner file is a holder's or a dead process's, and because a contender   *)
(* about to rename a directory it found old finds there no owner or a dead *)
(* one.                                                                    *)
(***************************************************************************)
LockInv ==
    /\ \A w \in Writer : pc[w] \in Holding => lock = Lock("valid", w)
    /\ \A w \in Writer : pc[w] = "write" => lock = Lock("invalid", w)
    /\ lock.status = "valid" =>
         lock.token \in Writer /\ pc[lock.token] \in Holding \cup {"crashed"}
    /\ \A w \in Writer : pc[w] = "steal" /\ w \in aged =>
         \/ lock.status = "missing_owner"
         \/ lock.status = "valid" /\ pc[lock.token] = "crashed"

(* A writer between its scan and its link still finds the log as it was,   *)
(* and the log is one chain, complete but for a newest transaction that    *)
(* reuses an id.                                                           *)
LogInv ==
    /\ Forkless(log) /\ Nested(log) /\ Closed(log) /\ OnlyReuseBreaks
    /\ \A w \in Writer : pc[w] \in {"stage", "guard", "link"} => Acceptable(w)

IInv == TypeOK /\ LockInv /\ LogInv

(* The lock directory has one owner file, so one holder.                   *)
LEMMA HoldersAlone == LockInv => OneHolder
  BY DEF LockInv, OneHolder, Lock

(* Every undisturbed step keeps the lock's invariant.                      *)
LEMMA LockStep == TypeOK /\ LockInv /\ [UndisturbedNext]_vars => LockInv'
<1> SUFFICES ASSUME TypeOK, LockInv, [UndisturbedNext]_vars PROVE LockInv'
  OBVIOUS
<1>1. ASSUME NEW w \in Writer, NEW l, GoTo(w, l)
      PROVE  pc'[w] = l /\ \A v \in Writer \ {w} : pc'[v] = pc[v]
  BY <1>1 DEF GoTo, TypeOK
<1>2. NoWriter \notin Writer /\ lock.token \in Writer \cup {NoWriter} /\ lock.status \in Status
      /\ lock = [status |-> lock.status, token |-> lock.token]
  BY WriterAssumption DEF TypeOK
(* Steps that leave the lock alone: a holder goes on, or dies.             *)
<1>3. ASSUME NEW w \in Writer, UNCHANGED <<lock, aged>>,
             pc[w] \in Holding, pc'[w] \in Holding \cup {"crashed"},
             \A v \in Writer \ {w} : pc'[v] = pc[v]
      PROVE  LockInv'
  BY <1>3 DEF LockInv, Holding
(* ... or a process that does not hold it moves where it does not either.  *)
<1>4. ASSUME NEW w \in Writer, UNCHANGED lock, aged' \subseteq aged \cup {w},
             pc[w] \notin Holding \cup {"crashed"},
             pc'[w] \notin Holding \cup {"write", "steal"},
             \A v \in Writer \ {w} : pc'[v] = pc[v]
      PROVE  LockInv'
  BY <1>4 DEF LockInv, Holding
<1>5. ASSUME NEW w \in Writer, Submit(w) PROVE LockInv'
  BY <1>5, <1>1, <1>4 DEF Submit, SampleClock, Holding
<1>6. ASSUME NEW w \in Writer, MakeLock(w) PROVE LockInv'
  <2>1. CASE lock = NoLock
    <3>1. lock' = Lock("missing_owner", NoWriter) /\ aged' = {} /\ pc[w] = "mkdir" /\ GoTo(w, "open")
      BY <1>6, <2>1 DEF MakeLock, ChangeLock
    <3> QED BY <2>1, <3>1, <1>1 DEF LockInv, Lock, NoLock, Holding
  <2>2. CASE lock # NoLock
    BY <1>6, <2>2, <1>1, <1>4 DEF MakeLock, Holding
  <2> QED BY <2>1, <2>2
<1>7. ASSUME NEW w \in Writer, OpenOwner(w) PROVE LockInv'
  <2>1. CASE lock.status = "missing_owner"
    <3>1. lock' = Lock("invalid", w) /\ aged' = {} /\ pc[w] = "open" /\ GoTo(w, "write")
      BY <1>7, <2>1 DEF OpenOwner, ChangeLock, NoLock, Lock
    <3> QED BY <2>1, <3>1, <1>1 DEF LockInv, Lock, Holding
  <2>2. CASE lock.status # "missing_owner"
    <3>1. UNCHANGED <<lock, aged>> /\ pc[w] = "open" /\ (GoTo(w, "returned") \/ GoTo(w, "inspect"))
      BY <1>7, <2>2 DEF OpenOwner
    <3> QED BY <3>1, <1>1, <1>4 DEF Holding
  <2> QED BY <2>1, <2>2
<1>8. ASSUME NEW w \in Writer, WriteOwner(w) PROVE LockInv'
  <2>1. pc[w] = "write" /\ lock = Lock("invalid", w)
    BY <1>8 DEF WriteOwner, LockInv
  <2>2. lock' = Lock("valid", w) /\ aged' = aged /\ GoTo(w, "scan")
    BY <1>8, <2>1 DEF WriteOwner, NoLock, Lock
  <2> QED BY <2>1, <2>2, <1>1 DEF LockInv, Lock, Holding
<1>9. ASSUME NEW w \in Writer, InspectOwner(w) PROVE LockInv'
  <2>1. pc[w] = "inspect" /\ lock' = lock
    BY <1>9 DEF InspectOwner
  <2>2. CASE DeadLocalOwner(w) /\ GoTo(w, "steal") /\ aged' = aged \cup {w}
    BY <2>1, <2>2, <1>1 DEF LockInv, DeadLocalOwner, Alive, Holding
  <2>3. CASE (GoTo(w, "stat") /\ aged' = aged) \/ WaitOrGiveUp(w)
    BY <2>1, <2>3, <1>1, <1>4 DEF WaitOrGiveUp, Retry, GiveUp, SampleClock, Holding
  <2> QED BY <1>9, <2>2, <2>3 DEF InspectOwner
<1>10. ASSUME NEW w \in Writer, StatLock(w) PROVE LockInv'
  <2>1. pc[w] = "stat" /\ lock' = lock
    BY <1>10 DEF StatLock
  <2>2. CASE lock.status = "missing_owner" /\ GoTo(w, "steal") /\ aged' = aged
    BY <2>1, <2>2, <1>1 DEF LockInv, Holding
  <2>3. CASE (GoTo(w, "returned") /\ aged' = aged \ {w}) \/ WaitOrGiveUp(w)
    BY <2>1, <2>3, <1>1, <1>4 DEF WaitOrGiveUp, Retry, GiveUp, SampleClock, Holding
  <2> QED BY <1>10, <2>2, <2>3 DEF StatLock
<1>11. ASSUME NEW w \in Writer, UndisturbedSteal(w) PROVE LockInv'
  <2>1. pc[w] = "steal"
    BY <1>11 DEF UndisturbedSteal, StealLock
  <2>2. CASE lock = NoLock
    BY <1>11, <2>1, <2>2, <1>1, <1>4
    DEF UndisturbedSteal, StealLock, WaitOrGiveUp, Retry, GiveUp, SampleClock, Holding
  <2>3. CASE lock # NoLock
    <3>1. /\ lock' = NoLock /\ aged' = {} /\ w \in aged
          /\ GoTo(w, "mkdir") \/ GoTo(w, "returned")
      BY <1>11, <2>3 DEF UndisturbedSteal, StealLock
    <3>2. \A v \in Writer : pc[v] \notin Holding \cup {"write"}
      BY <2>1, <3>1 DEF LockInv, Lock, Holding
    <3> QED BY <2>1, <3>1, <3>2, <1>1 DEF LockInv, NoLock, Lock, Holding
  <2> QED BY <2>2, <2>3
<1>12. ASSUME NEW w \in Writer,
              \/ ScanLog(w) \/ StageTransaction(w) \/ AssertOwned(w) \/ LinkTransaction(w)
              \/ CleanupMatchingTemps(w) \/ RebuildScan(w) \/ WriteIndex(w) \/ VerifyCommit(w)
       PROVE  LockInv'
  BY <1>12, <1>1, <1>3
  DEF ScanLog, StageTransaction, AssertOwned, LinkTransaction, CleanupMatchingTemps,
      RebuildScan, WriteIndex, VerifyCommit, Holding
<1>13. ASSUME NEW w \in Writer, ReleaseLock(w) PROVE LockInv'
  <2>1. pc[w] = "release" /\ OwnsLock(w)
    BY <1>13 DEF ReleaseLock, LockInv, OwnsLock, Holding
  <2> QED BY <1>13, <2>1, <1>1, <1>3 DEF ReleaseLock, Holding
<1>14. ASSUME NEW w \in Writer, UnlinkOwner(w) PROVE LockInv'
  <2>1. pc[w] = "unlink" /\ lock = Lock("valid", w)
    BY <1>14 DEF UnlinkOwner, LockInv, Holding
  <2>2. lock' = Lock("missing_owner", NoWriter) /\ aged' = {} /\ GoTo(w, "rmdir")
    BY <1>14, <2>1 DEF UnlinkOwner, ChangeLock, Lock, NoLock
  <2> QED BY <2>1, <2>2, <1>1 DEF LockInv, Lock, Holding
<1>15. ASSUME NEW w \in Writer, RemoveLock(w) PROVE LockInv'
  <2>1. pc[w] = "rmdir" /\ GoTo(w, "returned")
    BY <1>15 DEF RemoveLock
  <2>2. CASE lock.status = "missing_owner"
    <3>1. lock' = NoLock /\ aged' = {}
      BY <1>15, <2>2 DEF RemoveLock, ChangeLock, NoLock, Lock
    <3> QED BY <2>1, <2>2, <3>1, <1>1 DEF LockInv, NoLock, Lock, Holding
  <2>3. CASE lock.status # "missing_owner"
    BY <1>15, <2>1, <2>3, <1>1, <1>4 DEF RemoveLock, Holding
  <2> QED BY <2>2, <2>3
<1>16. ASSUME NEW w \in Writer, Crash(w) PROVE LockInv'
  <2>1. GoTo(w, "crashed") /\ UNCHANGED <<lock, aged>>
    BY <1>16 DEF Crash
  <2> QED BY <2>1, <1>1 DEF LockInv, Holding
<1>17. CASE UNCHANGED vars
  BY <1>17 DEF vars, LockInv
<1> QED
  BY <1>5, <1>6, <1>7, <1>8, <1>9, <1>10, <1>11, <1>12, <1>13, <1>14, <1>15, <1>16, <1>17
  DEF UndisturbedNext, CallStep

(* A transaction behind the newest of a complete log leaves it complete,   *)
(* or reuses an id and is alone in that.                                   *)
LEMMA ExtendReuse ==
    ASSUME NEW l \in SUBSET Digest, NEW h \in Watermark, NEW b \in Body,
           Forkless(l), Nested(l), Complete(l), IsHighWatermark(l, h), DigestOf(h, b) \notin l
    PROVE  LET new == l \cup {DigestOf(h, b)}
           IN /\ Complete(new \ Reusing(new))
              /\ \A d \in Reusing(new) : IsHighWatermark(new \ Reusing(new), Previous(d))
<1> DEFINE n == DigestOf(h, b)
           new == l \cup {n}
<1>1. Reusing(l) = {} /\ n \in Digest /\ Previous(n) = h
  BY CompleteReusesNothing, DigestParts
<1>2. CASE FreshFor(h, b)
  <2>1. Complete(new) /\ new \in SUBSET Digest
    BY <1>1, <1>2, ExtendComplete
  <2> HIDE DEF new
  <2>2. Reusing(new) = {}
    BY <2>1, CompleteReusesNothing
  <2>3. new \ Reusing(new) = new
    BY <2>2
  <2> QED BY <2>1, <2>2, <2>3 DEF new
<1>3. CASE ~FreshFor(h, b)
  <2>1. Reuses(n)
    BY <1>3, ReuseIsNotFresh
  <2> HIDE DEF n
  <2>2. Reusing(new) = {n} /\ n \notin l
    BY <1>1, <2>1 DEF Reusing, n
  <2>3. new \ Reusing(new) = l
    BY <2>2
  <2> QED BY <1>1, <2>2, <2>3 DEF n
<1> QED BY <1>2, <1>3

(* Nothing but a link changes the log, and it changes it only behind the   *)
(* high watermark: the snapshot a holder checked is still the log.         *)
LEMMA LogStep ==
    IInv /\ [UndisturbedNext]_vars => LogInv'
<1> SUFFICES ASSUME IInv, [UndisturbedNext]_vars PROVE LogInv'
  OBVIOUS
<1> USE DEF IInv
<1>1. ASSUME NEW w \in Writer, NEW l, GoTo(w, l)
      PROVE  pc'[w] = l /\ \A v \in Writer \ {w} : pc'[v] = pc[v]
  BY <1>1 DEF GoTo, TypeOK
(* A step that changes neither the log nor a request, and enters the three *)
(* places between scan and link only from one of them.                     *)
<1>2. ASSUME NEW w \in Writer, UNCHANGED <<log, request>>, pc[w] # "idle",
             \A v \in Writer \ {w} : pc'[v] = pc[v],
             pc'[w] \in {"stage", "guard", "link"} => Acceptable(w)
      PROVE  LogInv'
  <2>1. \A v \in Writer : Acceptable(v)' <=> Acceptable(v)
    BY <1>2 DEF Acceptable, TransactionDigest, Expected
  <2> QED BY <1>2, <2>1 DEF LogInv, OnlyReuseBreaks
<1>3. ASSUME NEW w \in Writer, Submit(w) PROVE LogInv'
  <2>1. /\ log' = log /\ pc[w] = "idle" /\ GoTo(w, "mkdir")
        /\ \A v \in Writer \ {w} : request'[v] = request[v]
    BY <1>3 DEF Submit, TypeOK
  <2>2. \A v \in Writer \ {w} : Acceptable(v)' <=> Acceptable(v)
    BY <2>1 DEF Acceptable, TransactionDigest, Expected
  <2> QED BY <2>1, <2>2, <1>1 DEF LogInv, OnlyReuseBreaks
<1>4. ASSUME NEW w \in Writer, LinkTransaction(w) PROVE LogInv'
  <2>1. /\ pc[w] = "link" /\ UNCHANGED request /\ Acceptable(w)
        /\ GoTo(w, "settle") \/ GoTo(w, "release")
        /\ log' = log \/ log' = log \cup {TransactionDigest(w)}
    BY <1>4 DEF LinkTransaction, LogInv
  <2>2. CASE log' = log
    BY <2>1, <2>2, <1>1, <1>2
  <2>3. CASE log' # log
    <3> DEFINE h == request[w].previous
    <3>1. /\ h \in Watermark /\ Payload[w] \in Body /\ log \in SUBSET Digest
          /\ TransactionDigest(w) = DigestOf(h, Payload[w])
      BY WriterAssumption DEF TypeOK, TransactionDigest
    <3>2. TransactionDigest(w) \in Digest /\ TransactionDigest(w) # << >>
      BY <3>1, DigestParts DEF Digest
    <3>3. TransactionDigest(w) \notin log
      BY <2>1, <2>3
    <3>4. IsHighWatermark(log, h)
      BY <2>1, <3>2, <3>3 DEF Acceptable, Expected, IsHighWatermark, Applied
    <3>5. Complete(log)
      BY <2>1 DEF Acceptable
    <3>6. log' = log \cup {DigestOf(h, Payload[w])} /\ DigestOf(h, Payload[w]) \notin log
      BY <2>1, <2>3, <3>1
    <3> HIDE DEF h
    <3>a. h \in log \cup {<< >>}
      BY <3>4 DEF IsHighWatermark, Applied
    <3>b. Forkless(log') /\ Nested(log') /\ Closed(log')
      BY <3>1, <3>4, <3>5, <3>6, <3>a, ExtendForkless, ExtendNested, ExtendClosed DEF LogInv
    <3>c. OnlyReuseBreaks'
      BY <3>1, <3>4, <3>5, <3>6, ExtendReuse DEF LogInv, OnlyReuseBreaks
    <3>7. Forkless(log') /\ Nested(log') /\ Closed(log') /\ OnlyReuseBreaks'
      BY <3>b, <3>c
    <3>8. \A v \in Writer : pc'[v] \notin {"stage", "guard", "link"}
      BY <2>1, <1>1, HoldersAlone DEF OneHolder, Holding
    <3> QED BY <3>7, <3>8 DEF LogInv
  <2> QED BY <2>2, <2>3
<1>5. ASSUME NEW w \in Writer, ScanLog(w) PROVE LogInv'
  <2>1. /\ pc[w] = "scan" /\ UNCHANGED <<log, request>>
        /\ (Acceptable(w) /\ GoTo(w, "stage")) \/ GoTo(w, "release")
    BY <1>5 DEF ScanLog, files
  <2> QED BY <2>1, <1>1, <1>2
<1>6. ASSUME NEW w \in Writer, StageTransaction(w) \/ AssertOwned(w) PROVE LogInv'
  <2>1. /\ pc[w] \in {"stage", "guard"} /\ UNCHANGED <<log, request>>
        /\ GoTo(w, "guard") \/ GoTo(w, "link") \/ GoTo(w, "release")
    BY <1>6 DEF StageTransaction, AssertOwned, files
  <2>2. Acceptable(w)
    BY <2>1 DEF LogInv
  <2> QED BY <2>1, <2>2, <1>1, <1>2
<1>7. ASSUME NEW w \in Writer,
             \/ MakeLock(w) \/ OpenOwner(w) \/ WriteOwner(w)
             \/ InspectOwner(w) \/ StatLock(w) \/ UndisturbedSteal(w)
      PROVE  LogInv'
  <2>1. /\ pc[w] # "idle" /\ UNCHANGED <<log, request>>
        /\ \E l \in Locations \ {"stage", "guard", "link"} : GoTo(w, l)
    BY <1>7
    DEF MakeLock, OpenOwner, WriteOwner, InspectOwner, StatLock, UndisturbedSteal, StealLock,
        WaitOrGiveUp, Retry, GiveUp, files, Locations
  <2> QED BY <2>1, <1>1, <1>2
<1>8. ASSUME NEW w \in Writer,
             \/ CleanupMatchingTemps(w) \/ RebuildScan(w) \/ WriteIndex(w) \/ VerifyCommit(w)
             \/ ReleaseLock(w) \/ UnlinkOwner(w) \/ RemoveLock(w) \/ Crash(w)
      PROVE  LogInv'
  <2>1. /\ pc[w] # "idle" /\ UNCHANGED <<log, request>>
        /\ \E l \in Locations \ {"stage", "guard", "link"} : GoTo(w, l)
    BY <1>8
    DEF CleanupMatchingTemps, RebuildScan, WriteIndex, VerifyCommit, ReleaseLock,
        UnlinkOwner, RemoveLock, Crash, files, Locations
  <2> QED BY <2>1, <1>1, <1>2
<1>9. CASE UNCHANGED vars
  BY <1>9 DEF vars, LogInv, OnlyReuseBreaks, Acceptable, TransactionDigest, Expected
<1> QED
  BY <1>3, <1>4, <1>5, <1>6, <1>7, <1>8, <1>9 DEF UndisturbedNext, CallStep

LEMMA UndisturbedIsNext == UndisturbedNext => Next
  BY DEF UndisturbedNext, UndisturbedSteal, Next

(* The inductive invariant, from the initial state and through every step. *)
THEOREM Invariant == UndisturbedSpec => []IInv
<1>1. Init => IInv
  <2>1. Init => TypeOK
    BY WriterAssumption, EmptySeq
    DEF Init, TypeOK, Locations, Outcomes, Status, NoLock, Lock, Watermark
  <2>2. Init => LockInv
    BY DEF Init, LockInv, NoLock, Lock, Holding
  <2>3. Init => LogInv
    BY DEF Init, LogInv, Forkless, Nested, Closed, OnlyReuseBreaks, Reusing, Complete, Applied
  <2> QED BY <2>1, <2>2, <2>3 DEF IInv
<1>2. IInv /\ [UndisturbedNext]_vars => IInv'
  BY TypeStep, LockStep, LogStep, UndisturbedIsNext DEF IInv
<1> QED BY <1>1, <1>2, PTL DEF UndisturbedSpec

(* ADR 0014's "never a fork", for any number of writers and crashes: no    *)
(* two published transactions name the same predecessor.                   *)
THEOREM NeverAFork == UndisturbedSpec => []NoFork
<1>1. IInv => NoFork
  BY DEF IInv, LogInv, NoFork
<1> QED BY <1>1, Invariant, PTL

(* One writer at a time is between its acquisition and its release.        *)
THEOREM MutualExclusion == UndisturbedSpec => []OneHolder
<1>1. IInv => OneHolder
  BY HoldersAlone DEF IInv
<1> QED BY <1>1, Invariant, PTL

(* A log that readers refuse has one transaction that reuses a command or   *)
(* an event, its newest, and is complete without it, whatever commits,     *)
(* crashes and recoveries there were.                                      *)
THEOREM ReuseAloneBreaks == UndisturbedSpec => []OnlyReuseBreaks
<1>1. IInv => OnlyReuseBreaks
  BY DEF IInv, LogInv
<1> QED BY <1>1, Invariant, PTL

(* ADR 0014's "a live local PID lock is never stolen".                     *)
THEOREM LiveLockIsKept == UndisturbedSpec => LiveLockKept
<1> DEFINE Kept == \A w \in Writer :
              OwnsLock(w) /\ Alive(w) /\ lock' # lock => pc[w] = "unlink" /\ pc'[w] = "rmdir"
<1>1. IInv /\ [UndisturbedNext]_vars => [Kept]_vars
  <2> SUFFICES ASSUME IInv, UndisturbedNext, NEW w \in Writer,
                      OwnsLock(w), Alive(w), lock' # lock
               PROVE  pc[w] = "unlink" /\ pc'[w] = "rmdir"
    BY DEF vars
  <2>1. /\ lock = Lock("valid", w) /\ lock.status = "valid" /\ lock.token = w /\ lock # NoLock
        /\ pc[w] # "crashed" /\ pc \in [Writer -> Locations]
    BY DEF OwnsLock, Alive, Lock, NoLock, IInv, TypeOK
  <2>2. PICK v \in Writer : Submit(v) \/ CallStep(v) \/ UndisturbedSteal(v) \/ Crash(v)
    BY DEF UndisturbedNext
  <2>3. UnlinkOwner(v)
    <3>1. ~(MakeLock(v) \/ OpenOwner(v) \/ RemoveLock(v))
      BY <2>1 DEF MakeLock, OpenOwner, RemoveLock
    <3>2. ~WriteOwner(v)
      BY <2>1 DEF WriteOwner, IInv, LockInv, Lock
    <3>3. ~UndisturbedSteal(v)
      BY <2>1 DEF UndisturbedSteal, StealLock, IInv, LockInv
    <3> QED
      BY <2>2, <3>1, <3>2, <3>3
      DEF CallStep, Submit, InspectOwner, StatLock, ScanLog, StageTransaction, AssertOwned,
          LinkTransaction, CleanupMatchingTemps, RebuildScan, WriteIndex, VerifyCommit,
          ReleaseLock, Crash
  <2>4. v = w
    <3>1. pc[v] \in Holding
      BY <2>3 DEF UnlinkOwner, Holding
    <3>2. lock = Lock("valid", v)
      BY <3>1 DEF IInv, LockInv
    <3> QED BY <2>1, <3>2 DEF Lock
  <2>5. pc[w] = "unlink" /\ (GoTo(w, "rmdir") \/ lock = NoLock)
    BY <2>3, <2>4 DEF UnlinkOwner
  <2> QED BY <2>1, <2>5 DEF GoTo
<1> QED BY <1>1, Invariant, PTL DEF UndisturbedSpec, LiveLockKept

(* What is published stays published, and was put on top of a complete log *)
(* by a call whose predecessor was its newest transaction.                 *)
THEOREM OnlyOnTop == UndisturbedSpec => PublishedOnTop
<1> DEFINE OnTop == /\ log \subseteq log'
                    /\ \A d \in log' \ log : Complete(log) /\ IsHighWatermark(log, Previous(d))
<1>1. IInv /\ [UndisturbedNext]_vars => [OnTop]_vars
  <2> SUFFICES ASSUME IInv, UndisturbedNext PROVE OnTop
    OBVIOUS
  <2>1. CASE log' = log
    BY <2>1
  <2>2. CASE log' # log
    <3>1. PICK w \in Writer : LinkTransaction(w)
      BY <2>2
      DEF UndisturbedNext, CallStep, Submit, MakeLock, OpenOwner, WriteOwner, InspectOwner,
          StatLock, UndisturbedSteal, StealLock, ScanLog, StageTransaction, AssertOwned,
          CleanupMatchingTemps, RebuildScan, WriteIndex, VerifyCommit, ReleaseLock,
          UnlinkOwner, RemoveLock, Crash, files
    <3>2. log' = log \cup {TransactionDigest(w)} /\ TransactionDigest(w) \notin log
      BY <2>2, <3>1 DEF LinkTransaction
    <3>3. Acceptable(w)
      BY <3>1 DEF LinkTransaction, IInv, LogInv
    <3>4. TransactionDigest(w) \in Digest /\ Previous(TransactionDigest(w)) = request[w].previous
      BY WriterAssumption, DigestParts DEF IInv, TypeOK, TransactionDigest
    <3>5. IsHighWatermark(log, request[w].previous)
      BY <3>2, <3>3, <3>4 DEF Acceptable, Expected, IsHighWatermark, Applied, Digest
    <3> QED BY <3>2, <3>3, <3>4, <3>5 DEF Acceptable
  <2> QED BY <2>1, <2>2
<1> QED BY <1>1, Invariant, PTL DEF UndisturbedSpec, PublishedOnTop

-----------------------------------------------------------------------------
(***************************************************************************)
(* The compare-and-set that callers are promised.  What a call is told      *)
(* follows from what it may know at each place: until it links it has       *)
(* published nothing, from its link on its transaction is in the log, and   *)
(* while it holds the lock what it scanned and indexed is still the log.    *)
(***************************************************************************)
Contending == {"idle", "mkdir", "open", "write", "inspect", "stat", "steal", "scan"}
Publishing == {"stage", "guard", "link"}
Published == {"settle", "rebuild", "index", "verify"}
Leaving == {"release", "unlink", "rmdir", "returned"}

(* A call that may have published: dead, or past its link and not refused,  *)
(* unless for an id of its own that it found reused after its link.         *)
Publisher(w) ==
    /\ pc[w] \notin Contending \cup Publishing
    /\ \/ outcome[w] \notin {"conflict", "busy"}
       \/ outcome[w] = "conflict" /\ Reuses(TransactionDigest(w))

CallInv(w) ==
    /\ pc[w] # "idle" => request[w].previous \in log \cup {<< >>}
    /\ pc[w] \in Contending => outcome[w] = "pending"
    /\ pc[w] \in Publishing \cup Published => Succeeded(w)
    /\ pc[w] \in Leaving => outcome[w] # "pending"
    /\ pc[w] \in Published \cup Leaving /\ Succeeded(w) => TransactionDigest(w) \in log
    /\ pc[w] \in Leaving /\ Succeeded(w) => ~Reuses(TransactionDigest(w))
    /\ pc[w] \in Published => Complete(log) \/ Reuses(TransactionDigest(w))
    /\ pc[w] \in {"index", "verify"} => snapshot[w] = log
    /\ pc[w] = "verify" => index = log
    /\ pc[w] \in {"release", "unlink"} /\ Succeeded(w) => index = log

AnswerInv ==
    /\ \E h \in log \cup {<< >>} : \A d \in log : Len(d) <= Len(h)
    /\ \A d \in log : \E v \in Writer : Publisher(v) /\ TransactionDigest(v) = d
    /\ \A w \in Writer : CallInv(w)

(* Where a link puts a transaction that is not there yet.                   *)
LEMMA LinkOnTop ==
    ASSUME IInv, NEW w \in Writer, LinkTransaction(w), log' # log
    PROVE  /\ log' = log \cup {TransactionDigest(w)} /\ TransactionDigest(w) \notin log
           /\ IsHighWatermark(log, request[w].previous)
           /\ TransactionDigest(w) = DigestOf(request[w].previous, Payload[w])
           /\ request[w].previous \in Watermark /\ Payload[w] \in Body
<1>1. log' = log \cup {TransactionDigest(w)} /\ TransactionDigest(w) \notin log
  BY DEF LinkTransaction
<1>2. Acceptable(w)
  BY DEF LinkTransaction, IInv, LogInv
<1>3. request[w].previous \in Watermark /\ Payload[w] \in Body
  BY WriterAssumption DEF IInv, TypeOK
<1>4. TransactionDigest(w) \in Digest
  BY <1>3, DigestParts DEF TransactionDigest
<1>5. IsHighWatermark(log, request[w].previous)
  BY <1>1, <1>2, <1>4 DEF Acceptable, Expected, IsHighWatermark, Applied, Digest
<1> QED BY <1>1, <1>3, <1>5 DEF TransactionDigest

(* The transaction that was put on top is the newest.                       *)
LEMMA ExtendNewest ==
    ASSUME NEW l \in SUBSET Digest, NEW h \in Watermark, NEW b \in Body,
           Complete(l), IsHighWatermark(l, h)
    PROVE  \A d \in l \cup {DigestOf(h, b)} : Len(d) <= Len(DigestOf(h, b))
<1> DEFINE n == DigestOf(h, b)
<1>1. Len(n) = Len(h) + 1 /\ Len(h) \in Nat /\ Len(n) \in Nat
  BY DigestParts DEF Watermark
<1>2. \A e \in l : Len(e) <= Len(h) /\ Len(e) \in Nat
  BY PreviousShorter DEF Complete, IsHighWatermark
<1> QED BY <1>1, <1>2

LEMMA AnswerStep ==
    IInv /\ AnswerInv /\ [UndisturbedNext]_vars /\ IInv' => AnswerInv'
<1> SUFFICES ASSUME IInv, AnswerInv, [UndisturbedNext]_vars, IInv' PROVE AnswerInv'
  OBVIOUS
<1>1. ASSUME NEW w \in Writer, NEW l, GoTo(w, l)
      PROVE  pc'[w] = l /\ \A v \in Writer \ {w} : pc'[v] = pc[v]
  BY <1>1 DEF GoTo, IInv, TypeOK
<1>2. ASSUME NEW w \in Writer, NEW r, Decide(w, r)
      PROVE  outcome'[w] = r /\ \A v \in Writer \ {w} : outcome'[v] = outcome[v]
  BY <1>2 DEF Decide, IInv, TypeOK
(* A step of one call that changes neither log nor index, and after which   *)
(* it may still have published if it might have before.                     *)
<1>3. ASSUME NEW w \in Writer, UNCHANGED <<log, index>>,
             \A v \in Writer \ {w} : /\ pc'[v] = pc[v] /\ outcome'[v] = outcome[v]
                                     /\ request'[v] = request[v] /\ snapshot'[v] = snapshot[v],
             Publisher(w) => Publisher(w)' /\ request'[w] = request[w],
             CallInv(w)'
      PROVE  AnswerInv'
  <2>1. \E h \in log' \cup {<< >>} : \A d \in log' : Len(d) <= Len(h)
    BY <1>3 DEF AnswerInv
  <2>2. ASSUME NEW d \in log' PROVE \E v \in Writer : Publisher(v)' /\ TransactionDigest(v)' = d
    <3>1. PICK v \in Writer : Publisher(v) /\ TransactionDigest(v) = d
      BY <1>3 DEF AnswerInv
    <3>2. Publisher(v)' /\ request'[v] = request[v]
      BY <1>3, <3>1 DEF Publisher, TransactionDigest
    <3> QED BY <3>1, <3>2 DEF TransactionDigest
  <2>3. ASSUME NEW v \in Writer \ {w} PROVE CallInv(v)'
    BY <1>3, <2>3 DEF AnswerInv, CallInv, Succeeded, TransactionDigest
  <2> QED BY <1>3, <2>1, <2>2, <2>3 DEF AnswerInv
<1>4. ASSUME NEW w \in Writer, Submit(w) PROVE AnswerInv'
  <2>1. /\ pc[w] = "idle" /\ GoTo(w, "mkdir") /\ UNCHANGED <<log, index, snapshot, outcome>>
        /\ request'[w].previous \in log \cup {<< >>}
        /\ \A v \in Writer \ {w} : request'[v] = request[v]
    BY <1>4 DEF Submit, IInv, TypeOK
  <2>2. outcome[w] = "pending"
    BY <2>1 DEF AnswerInv, CallInv, Contending
  <2>3. CallInv(w)' /\ ~Publisher(w)
    BY <2>1, <2>2, <1>1
    DEF CallInv, Publisher, Contending, Publishing, Published, Leaving, Succeeded
  <2> QED BY <2>1, <2>3, <1>1, <1>3
(* A call that contends for the lock, or gives up.                          *)
<1>5. ASSUME NEW w \in Writer,
             \/ MakeLock(w) \/ OpenOwner(w) \/ WriteOwner(w)
             \/ InspectOwner(w) \/ StatLock(w) \/ UndisturbedSteal(w)
      PROVE  AnswerInv'
  <2>1. /\ pc[w] \in Contending \ {"idle"} /\ UNCHANGED <<log, index, request, snapshot>>
        /\ \/ UNCHANGED outcome /\ \E l \in Contending \ {"idle"} : GoTo(w, l)
           \/ GoTo(w, "returned") /\ \E r \in {"failed", "busy", "conflict"} : Decide(w, r)
    BY <1>5
    DEF MakeLock, OpenOwner, WriteOwner, InspectOwner, StatLock, UndisturbedSteal, StealLock,
        WaitOrGiveUp, Retry, GiveUp, files, Contending
  <2>2. outcome[w] = "pending" /\ request[w].previous \in log \cup {<< >>}
    BY <2>1 DEF AnswerInv, CallInv, Contending
  <2>3. ~Publisher(w)
    BY <2>1 DEF Publisher
  <2>4. CallInv(w)' /\ \A v \in Writer \ {w} : pc'[v] = pc[v] /\ outcome'[v] = outcome[v]
    <3>1. CASE UNCHANGED outcome /\ \E l \in Contending \ {"idle"} : GoTo(w, l)
      BY <2>1, <2>2, <3>1, <1>1
      DEF CallInv, Contending, Publishing, Published, Leaving, Succeeded
    <3>2. CASE GoTo(w, "returned") /\ \E r \in {"failed", "busy", "conflict"} : Decide(w, r)
      BY <2>1, <2>2, <3>2, <1>1, <1>2
      DEF CallInv, Contending, Publishing, Published, Leaving, Succeeded
    <3> QED BY <2>1, <3>1, <3>2
  <2> QED BY <2>1, <2>3, <2>4, <1>3
<1>6. ASSUME NEW w \in Writer, ScanLog(w) PROVE AnswerInv'
  <2>1. /\ pc[w] = "scan" /\ UNCHANGED <<log, index, request>>
        /\ \A v \in Writer \ {w} : snapshot'[v] = snapshot[v]
        /\ \/ GoTo(w, "stage") /\ \E r \in {"committed", "already_committed"} : Decide(w, r)
           \/ GoTo(w, "release") /\ Decide(w, "conflict")
    BY <1>6 DEF ScanLog, files, IInv, TypeOK
  <2>2. request[w].previous \in log \cup {<< >>} /\ ~Publisher(w)
    BY <2>1 DEF AnswerInv, CallInv, Publisher, Contending
  <2>3. CallInv(w)' /\ \A v \in Writer \ {w} : pc'[v] = pc[v] /\ outcome'[v] = outcome[v]
    BY <2>1, <2>2, <1>1, <1>2
    DEF CallInv, Contending, Publishing, Published, Leaving, Succeeded
  <2> QED BY <2>1, <2>2, <2>3, <1>3
<1>7. ASSUME NEW w \in Writer, StageTransaction(w) \/ AssertOwned(w) PROVE AnswerInv'
  <2>1. /\ pc[w] \in {"stage", "guard"} /\ UNCHANGED <<log, index, request, snapshot>>
        /\ \/ UNCHANGED outcome /\ \E l \in {"guard", "link"} : GoTo(w, l)
           \/ GoTo(w, "release") /\ Decide(w, "conflict")
    BY <1>7 DEF StageTransaction, AssertOwned, files
  <2>2. request[w].previous \in log \cup {<< >>} /\ ~Publisher(w) /\ Succeeded(w)
    BY <2>1 DEF AnswerInv, CallInv, Publisher, Publishing
  <2>3. CallInv(w)' /\ \A v \in Writer \ {w} : pc'[v] = pc[v] /\ outcome'[v] = outcome[v]
    BY <2>1, <2>2, <1>1, <1>2
    DEF CallInv, Contending, Publishing, Published, Leaving, Succeeded
  <2> QED BY <2>1, <2>2, <2>3, <1>3
(* The link: nobody else holds the lock, so nobody else's view of the log   *)
(* can have become old.                                                     *)
<1>8. ASSUME NEW w \in Writer, LinkTransaction(w) PROVE AnswerInv'
  <2>1. /\ pc[w] = "link" /\ UNCHANGED <<index, request, snapshot>>
        /\ \/ /\ log' = log \cup {TransactionDigest(w)}
              /\ GoTo(w, "settle") /\ UNCHANGED outcome
           \/ UNCHANGED log /\ GoTo(w, "release") /\ Decide(w, "failed")
    BY <1>8 DEF LinkTransaction
  <2>2. request[w].previous \in log \cup {<< >>} /\ ~Publisher(w) /\ Succeeded(w)
    BY <2>1 DEF AnswerInv, CallInv, Publisher, Publishing
  <2>3. CASE UNCHANGED log /\ GoTo(w, "release") /\ Decide(w, "failed")
    <3>1. CallInv(w)' /\ \A v \in Writer \ {w} : pc'[v] = pc[v] /\ outcome'[v] = outcome[v]
      BY <2>1, <2>2, <2>3, <1>1, <1>2
      DEF CallInv, Contending, Publishing, Published, Leaving, Succeeded
    <3> QED BY <2>1, <2>2, <2>3, <3>1, <1>3
  <2>4. CASE /\ log' = log \cup {TransactionDigest(w)}
             /\ GoTo(w, "settle") /\ UNCHANGED outcome
    <3>1. TransactionDigest(w) \in log' /\ \A v \in Writer : TransactionDigest(v)' = TransactionDigest(v)
      BY <2>1, <2>4 DEF TransactionDigest
    <3>a. Complete(log)' \/ Reuses(TransactionDigest(w))
      <4> SUFFICES ASSUME ~Reuses(TransactionDigest(w)) PROVE Complete(log')
        OBVIOUS
      <4>1. Complete(log) /\ log \in SUBSET Digest
        BY <2>1 DEF IInv, TypeOK, LogInv, Acceptable
      <4>2. Reusing(log) = {}
        BY <4>1, CompleteReusesNothing
      <4>3. Reusing(log') = {}
        BY <2>4, <4>2 DEF Reusing
      <4>4. Complete(log' \ Reusing(log'))
        BY DEF IInv, LogInv, OnlyReuseBreaks
      <4>5. log' \ Reusing(log') = log'
        BY <4>3
      <4> QED BY <4>4, <4>5
    <3>2. CallInv(w)'
      BY <2>1, <2>2, <2>4, <3>1, <3>a, <1>1
      DEF CallInv, Contending, Publishing, Published, Leaving, Succeeded
    <3>3. ASSUME NEW v \in Writer \ {w} PROVE CallInv(v)'
      <4>1. pc[v] \notin Holding
        BY <2>1, HoldersAlone DEF IInv, OneHolder, Holding
      <4> QED BY <2>1, <2>4, <3>1, <4>1, <1>1 DEF AnswerInv, CallInv, Succeeded, Holding, Published
    <3>4. ASSUME NEW d \in log' PROVE \E v \in Writer : Publisher(v)' /\ TransactionDigest(v)' = d
      <4>1. CASE d = TransactionDigest(w)
        <5>1. Publisher(w)'
          BY <2>2, <2>4, <1>1 DEF Publisher, Contending, Publishing, Succeeded
        <5> QED BY <4>1, <5>1, <3>1
      <4>2. CASE d \in log
        <5>1. PICK v \in Writer : Publisher(v) /\ TransactionDigest(v) = d
          BY <4>2 DEF AnswerInv
        <5>2. v # w
          BY <2>2, <5>1
        <5> QED BY <2>4, <3>1, <5>1, <5>2, <1>1 DEF Publisher
      <4> QED BY <2>4, <4>1, <4>2
    <3>5. \E h \in log' \cup {<< >>} : \A d \in log' : Len(d) <= Len(h)
      <4>1. CASE log' = log
        BY <4>1 DEF AnswerInv
      <4>2. CASE log' # log
        <5>1. log \in SUBSET Digest /\ Complete(log)
          BY <2>1 DEF IInv, TypeOK, LogInv, Acceptable
        <5>2. \A d \in log' : Len(d) <= Len(TransactionDigest(w))
          BY <1>8, <4>2, <5>1, LinkOnTop, ExtendNewest
        <5> QED BY <3>1, <5>2
      <4> QED BY <4>1, <4>2
    <3> QED BY <3>2, <3>3, <3>4, <3>5 DEF AnswerInv
  <2> QED BY <2>1, <2>3, <2>4
<1>9. ASSUME NEW w \in Writer, CleanupMatchingTemps(w) \/ RebuildScan(w) PROVE AnswerInv'
  <2>1. /\ pc[w] \in {"settle", "rebuild"} /\ UNCHANGED <<log, index, request, outcome>>
        /\ \A v \in Writer \ {w} : snapshot'[v] = snapshot[v]
        /\ \/ GoTo(w, "rebuild")
           \/ GoTo(w, "index") /\ snapshot'[w] = log
    BY <1>9 DEF CleanupMatchingTemps, RebuildScan, files, IInv, TypeOK
  <2>2. /\ request[w].previous \in log \cup {<< >>} /\ Succeeded(w) /\ TransactionDigest(w) \in log
        /\ Complete(log) \/ Reuses(TransactionDigest(w))
    BY <2>1 DEF AnswerInv, CallInv, Published
  <2>3. CallInv(w)' /\ Publisher(w)' /\ \A v \in Writer \ {w} : pc'[v] = pc[v]
    BY <2>1, <2>2, <1>1
    DEF CallInv, Publisher, Contending, Publishing, Published, Leaving, Succeeded, TransactionDigest
  <2> QED BY <2>1, <2>3, <1>3
<1>10. ASSUME NEW w \in Writer, WriteIndex(w) PROVE AnswerInv'
  <2>1. /\ pc[w] = "index" /\ GoTo(w, "verify") /\ index' = snapshot[w]
        /\ UNCHANGED <<log, request, outcome, snapshot>>
    BY <1>10 DEF WriteIndex
  <2>2. /\ request[w].previous \in log \cup {<< >>} /\ Succeeded(w)
        /\ TransactionDigest(w) \in log /\ snapshot[w] = log
        /\ Complete(log) \/ Reuses(TransactionDigest(w))
    BY <2>1 DEF AnswerInv, CallInv, Published
  <2>3. CallInv(w)'
    BY <2>1, <2>2, <1>1
    DEF CallInv, Contending, Publishing, Published, Leaving, Succeeded, TransactionDigest
  <2>4. ASSUME NEW v \in Writer \ {w} PROVE CallInv(v)'
    <3>1. pc[v] \notin Holding
      BY <2>1, HoldersAlone DEF IInv, OneHolder, Holding
    <3> QED BY <2>1, <3>1, <1>1 DEF AnswerInv, CallInv, Succeeded, Holding, Published, TransactionDigest
  <2>5. \A v \in Writer : /\ Publisher(v) => Publisher(v)'
                          /\ TransactionDigest(v)' = TransactionDigest(v)
    BY <2>1, <1>1 DEF Publisher, Contending, Publishing, TransactionDigest
  <2> QED BY <2>1, <2>3, <2>4, <2>5 DEF AnswerInv
<1>11. ASSUME NEW w \in Writer, VerifyCommit(w) PROVE AnswerInv'
  <2>1. /\ pc[w] = "verify" /\ GoTo(w, "release") /\ UNCHANGED <<log, index, request, snapshot>>
    BY <1>11 DEF VerifyCommit, files
  <2>2. /\ request[w].previous \in log \cup {<< >>} /\ Succeeded(w)
        /\ TransactionDigest(w) \in log /\ snapshot[w] = log /\ index = log
    BY <2>1 DEF AnswerInv, CallInv, Published
  <2>3. TransactionDigest(w)' = TransactionDigest(w) /\ log \in SUBSET Digest
    BY <2>1 DEF TransactionDigest, IInv, TypeOK
  <2>4. \/ UNCHANGED outcome /\ ~Reuses(TransactionDigest(w))
        \/ Decide(w, "failed")
        \/ Decide(w, "conflict") /\ Reuses(TransactionDigest(w))
    <3>1. CASE Complete(log)
      <4>1. ~Reuses(TransactionDigest(w))
        BY <2>2, <2>3, <3>1, CompleteReusesNothing DEF Reusing
      <4> QED BY <1>11, <2>2, <3>1, <4>1 DEF VerifyCommit
    <3>2. CASE ~Complete(log)
      <4>1. Decide(w, "conflict")
        BY <1>11, <2>2, <3>2 DEF VerifyCommit
      <4>2. Reuses(TransactionDigest(w))
        BY <2>1, <3>2 DEF AnswerInv, CallInv, Published
      <4> QED BY <4>1, <4>2
    <3> QED BY <3>1, <3>2
  <2>5. /\ CallInv(w)' /\ Publisher(w)'
        /\ \A v \in Writer \ {w} : pc'[v] = pc[v] /\ outcome'[v] = outcome[v]
    <3>1. CASE UNCHANGED outcome /\ ~Reuses(TransactionDigest(w))
      BY <2>1, <2>2, <2>3, <3>1, <1>1
      DEF CallInv, Publisher, Contending, Publishing, Published, Leaving, Succeeded
    <3>2. CASE Decide(w, "failed")
      BY <2>1, <2>2, <2>3, <3>2, <1>1, <1>2
      DEF CallInv, Publisher, Contending, Publishing, Published, Leaving, Succeeded
    <3>3. CASE Decide(w, "conflict") /\ Reuses(TransactionDigest(w))
      BY <2>1, <2>2, <2>3, <3>3, <1>1, <1>2
      DEF CallInv, Publisher, Contending, Publishing, Published, Leaving, Succeeded
    <3> QED BY <2>4, <3>1, <3>2, <3>3
  <2> QED BY <2>1, <2>5, <1>3
(* The way out: a holder finds that it owns the lock, so that nothing is    *)
(* refused any more.                                                        *)
<1>12. ASSUME NEW w \in Writer, ReleaseLock(w) \/ UnlinkOwner(w) \/ RemoveLock(w) PROVE AnswerInv'
  <2>1. /\ pc[w] \in {"release", "unlink", "rmdir"}
        /\ UNCHANGED <<log, index, request, snapshot>>
    BY <1>12 DEF ReleaseLock, UnlinkOwner, RemoveLock, files
  <2>2. /\ request[w].previous \in log \cup {<< >>} /\ outcome[w] # "pending"
        /\ Succeeded(w) => TransactionDigest(w) \in log /\ ~Reuses(TransactionDigest(w))
        /\ pc[w] \in {"release", "unlink"} /\ Succeeded(w) => index = log
    BY <2>1 DEF AnswerInv, CallInv, Leaving
  <2>3. pc[w] = "release" => OwnsLock(w)
    BY DEF IInv, LockInv, OwnsLock, Holding
  <2>4. /\ UNCHANGED outcome \/ Decide(w, "failed")
        /\ GoTo(w, "returned") \/ (pc[w] = "release" /\ GoTo(w, "unlink")) \/ GoTo(w, "rmdir")
    BY <1>12, <2>3 DEF ReleaseLock, UnlinkOwner, RemoveLock
  <2>5. /\ CallInv(w)'
        /\ \A v \in Writer \ {w} : pc'[v] = pc[v] /\ outcome'[v] = outcome[v]
    BY <2>1, <2>2, <2>4, <1>1, <1>2
    DEF CallInv, Contending, Publishing, Published, Leaving, Succeeded, TransactionDigest
  <2>6. Publisher(w) => Publisher(w)'
    BY <2>1, <2>4, <1>1, <1>2 DEF Publisher, Contending, Publishing, TransactionDigest
  <2> QED BY <2>1, <2>5, <2>6, <1>3
<1>13. ASSUME NEW w \in Writer, Crash(w) PROVE AnswerInv'
  <2>1. pc[w] # "idle" /\ GoTo(w, "crashed") /\ UNCHANGED <<log, index, request, snapshot, outcome>>
    BY <1>13 DEF Crash, files
  <2>2. request[w].previous \in log \cup {<< >>}
    BY <2>1 DEF AnswerInv, CallInv
  <2>3. CallInv(w)' /\ \A v \in Writer \ {w} : pc'[v] = pc[v]
    BY <2>1, <2>2, <1>1 DEF CallInv, Contending, Publishing, Published, Leaving
  <2>4. Publisher(w) => Publisher(w)'
    BY <2>1, <1>1 DEF Publisher, Contending, Publishing, TransactionDigest
  <2> QED BY <2>1, <2>3, <2>4, <1>3
<1>14. CASE UNCHANGED vars
  BY <1>14 DEF vars, AnswerInv, CallInv, Publisher, Succeeded, TransactionDigest
<1> QED
  BY <1>4, <1>5, <1>6, <1>7, <1>8, <1>9, <1>10, <1>11, <1>12, <1>13, <1>14
  DEF UndisturbedNext, CallStep

(* What calls know and are told, from the initial state on.                 *)
THEOREM Answered == UndisturbedSpec => [](IInv /\ AnswerInv)
<1>1. Init => AnswerInv
  <2> SUFFICES ASSUME Init PROVE AnswerInv
    OBVIOUS
  <2>1. << >> \in log \cup {<< >>} /\ \A d \in log : Len(d) <= Len(<< >>)
    BY DEF Init
  <2>2. \A w \in Writer : CallInv(w)
    BY DEF Init, CallInv, Contending, Publishing, Published, Leaving
  <2> QED BY <2>1, <2>2 DEF Init, AnswerInv
<1>2. IInv /\ AnswerInv /\ [UndisturbedNext]_vars /\ IInv' => AnswerInv'
  BY AnswerStep
<1> QED BY <1>1, <1>2, Invariant, PTL DEF UndisturbedSpec

(* A caller that is told "committed" finds its transaction applied ever     *)
(* after, but for what a later reuse stops at, and the index it may read at *)
(* that moment is that of the whole log.                                    *)
THEOREM CommittedIsApplied == UndisturbedSpec => []AcknowledgedApplied
<1>1. IInv /\ AnswerInv => AcknowledgedApplied
  <2> SUFFICES ASSUME IInv, AnswerInv, NEW w \in Writer, Succeeded(w)
               PROVE  /\ pc[w] = "returned" => TransactionDigest(w) \in Applied(log \ Reusing(log))
                      /\ pc[w] \in {"release", "unlink"} => index = log
    BY DEF AcknowledgedApplied
  <2>1. pc[w] = "returned" => TransactionDigest(w) \in log \ Reusing(log)
    BY DEF AnswerInv, CallInv, Leaving, Reusing
  <2> QED BY <2>1 DEF IInv, LogInv, OnlyReuseBreaks, Complete, AnswerInv, CallInv
<1> QED BY <1>1, Answered, PTL

(* A call that is refused has published nothing: its transaction is in the  *)
(* log only if another call has put it there, or it reused an id itself.    *)
THEOREM RefusalsPublishNothing == UndisturbedSpec => []RefusedPublishedNothing
<1>1. AnswerInv => RefusedPublishedNothing
  BY DEF AnswerInv, Publisher, RefusedPublishedNothing
<1> QED BY <1>1, Answered, PTL

-----------------------------------------------------------------------------
(* The refinement.                                                          *)

(* The newest transaction is the one with the longest history, and of two   *)
(* histories of one length in the log neither goes beyond the other.        *)
LEMMA NewestIsUnique ==
    ASSUME NEW l \in SUBSET Digest, Nested(l), NEW h \in l \cup {<< >>}, \A d \in l : Len(d) <= Len(h)
    PROVE  Newest(l) = h
<1> DEFINE g == Newest(l)
<1>2. g \in l \cup {<< >>} /\ \A d \in l : Len(d) <= Len(g)
  BY DEF Newest
<1> HIDE DEF g
<1>3. \A d \in l : /\ Len(d) \in Nat \ {0} /\ d \in Seq(Body)
                   /\ Len(d) <= Len(g) /\ Len(d) <= Len(h)
  BY <1>2, PreviousShorter DEF Digest
<1>4. CASE g = << >> \/ h = << >>
  <2>1. Len(<< >>) = 0
    OBVIOUS
  <2>2. l = {}
    BY <1>3, <1>4, <2>1
  <2> QED BY <1>2, <2>2 DEF g
<1>5. CASE g \in l /\ h \in l
  <2>1. Len(g) = Len(h) /\ Len(g) \in Nat
    BY <1>3, <1>5
  <2>2. SubSeq(g, 1, Len(h)) = h
    BY <1>5, <2>1 DEF Nested
  <2>3. SubSeq(g, 1, Len(g)) = g
    BY <1>3, <1>5, SubSeqFull
  <2> QED BY <2>1, <2>2, <2>3 DEF g
<1> QED BY <1>2, <1>4, <1>5

(* The history begins with exactly the transactions of the log.             *)
LEMMA HistoryIsTheLog ==
    ASSUME NEW l \in SUBSET Digest, Nested(l), Closed(l), NEW h \in l \cup {<< >>},
           \A d \in l : Len(d) <= Len(h)
    PROVE  /\ \A d \in l : Len(d) <= Len(h) /\ SubSeq(h, 1, Len(d)) = d
           /\ \A d \in Digest : Len(d) <= Len(h) /\ SubSeq(h, 1, Len(d)) = d => d \in l
<1>1. ASSUME NEW d \in l PROVE Len(d) <= Len(h) /\ SubSeq(h, 1, Len(d)) = d
  <2>1. Len(d) <= Len(h) /\ Len(d) \in Nat \ {0}
    BY PreviousShorter
  <2>2. h \in l
    <3>1. h # << >>
      BY <2>1
    <3> QED BY <3>1
  <2> QED BY <2>1, <2>2 DEF Nested
<1>2. ASSUME NEW d \in Digest, Len(d) <= Len(h), SubSeq(h, 1, Len(d)) = d PROVE d \in l
  <2>1. Len(d) \in Nat \ {0}
    BY PreviousShorter
  <2>2. h \in l
    <3>1. h # << >>
      BY <1>2, <2>1
    <3> QED BY <3>1
  <2>3. Len(h) \in Nat
    BY <2>2, PreviousShorter
  <2>4. Len(d) \in 1..Len(h)
    BY <1>2, <2>1, <2>3
  <2> QED BY <1>2, <2>2, <2>4 DEF Closed
<1> QED BY <1>1, <1>2

(* What the mapped state is, for the lemmas below.                          *)
LEMMA MappedState ==
    ASSUME IInv, AnswerInv
    PROVE  /\ Newest(log) \in Watermark
           /\ \A w \in Writer : /\ History!Version(w) = TransactionDigest(w)
                                /\ TransactionDigest(w) \in Digest
           /\ \A d \in Digest : History!InHistory(d) <=> d \in log
           /\ \A d \in log \cup {<< >>} :
                \E n \in 0..Len(Newest(log)) : SubSeq(Newest(log), 1, n) = d
<1>1. log \in SUBSET Digest /\ Nested(log) /\ Closed(log)
  BY DEF IInv, TypeOK, LogInv
<1>2. /\ Newest(log) \in log \cup {<< >>} /\ Newest(log) \in Watermark
      /\ \A d \in log : Len(d) <= Len(Newest(log))
  <2>1. PICK h \in log \cup {<< >>} : \A d \in log : Len(d) <= Len(h)
    BY DEF AnswerInv
  <2> QED BY <1>1, <2>1, NewestIsUnique, VersionsAreWatermarks
<1>3. ASSUME NEW w \in Writer
      PROVE  History!Version(w) = TransactionDigest(w) /\ TransactionDigest(w) \in Digest
  <2>1. request[w].previous \in Watermark /\ Payload[w] \in Body
    BY WriterAssumption DEF IInv, TypeOK
  <2> QED BY <2>1, DigestParts DEF History!Version, TransactionDigest, DigestOf
<1>4. \A d \in Digest : History!InHistory(d) <=> d \in log
  BY <1>1, <1>2, HistoryIsTheLog DEF History!InHistory
<1>5. ASSUME NEW d \in log \cup {<< >>}
      PROVE  \E n \in 0..Len(Newest(log)) : SubSeq(Newest(log), 1, n) = d
  <2> DEFINE h == Newest(log)
  <2>1. Len(h) \in Nat /\ h \in Seq(Body)
    BY <1>2 DEF Watermark
  <2>2. CASE d = << >>
    <3>1. SubSeq(h, 1, 0) = << >>
      BY <2>1
    <3> QED BY <2>1, <2>2, <3>1
  <2>3. CASE d \in log
    <3>1. Len(d) <= Len(h) /\ SubSeq(h, 1, Len(d)) = d /\ Len(d) \in Nat
      BY <1>1, <1>2, <2>3, HistoryIsTheLog, PreviousShorter
    <3>2. Len(d) \in 0..Len(h)
      BY <2>1, <3>1
    <3> WITNESS Len(d) \in 0..Len(h)
    <3> QED BY <3>1
  <2> QED BY <2>2, <2>3
<1>6. \A d \in log \cup {<< >>} :
        \E n \in 0..Len(Newest(log)) : SubSeq(Newest(log), 1, n) = d
  BY <1>5
<1>7. \A w \in Writer : History!Version(w) = TransactionDigest(w) /\ TransactionDigest(w) \in Digest
  BY <1>3
<1> QED BY <1>2, <1>4, <1>6, <1>7

(* A link of what is there already is no step, any other extends the        *)
(* history behind the version that its caller has named.                    *)
LEMMA LinkRefines ==
    ASSUME IInv, AnswerInv, NEW w \in Writer, LinkTransaction(w), IInv', AnswerInv'
    PROVE  [History!Next]_(History!vars)
<1>1. /\ pc[w] = "link" /\ UNCHANGED request
      /\ pc'[w] \in {"settle", "release"}
      /\ \A v \in Writer \ {w} : pc'[v] = pc[v] /\ outcome'[v] = outcome[v]
  BY DEF LinkTransaction, GoTo, Decide, IInv, TypeOK
<1>2. \A v \in Writer : Answer(v)' = Answer(v)
  BY <1>1 DEF Answer, Succeeded
<1>3. /\ [v \in Writer |-> Answer(v)]' = [v \in Writer |-> Answer(v)]
      /\ [v \in Writer |-> request[v].previous]' = [v \in Writer |-> request[v].previous]
  BY <1>1, <1>2
<1>4. CASE log' = log
  BY <1>3, <1>4 DEF History!vars
<1>5. CASE log' # log
  <2>1. /\ IsHighWatermark(log, request[w].previous)
        /\ log' = log \cup {TransactionDigest(w)}
        /\ TransactionDigest(w) = DigestOf(request[w].previous, Payload[w])
        /\ request[w].previous \in Watermark /\ Payload[w] \in Body
    BY <1>5, LinkOnTop
  <2>2. /\ log \in SUBSET Digest /\ Nested(log) /\ Complete(log)
        /\ log' \in SUBSET Digest /\ Nested(log')
    BY <1>1 DEF IInv, TypeOK, LogInv, Acceptable
  <2>3. Newest(log) = request[w].previous
    <3>1. /\ request[w].previous \in log \cup {<< >>}
          /\ \A d \in log : Len(d) <= Len(request[w].previous)
      BY <2>1, <2>2 DEF Complete, IsHighWatermark, Applied
    <3> QED BY <2>2, <3>1, NewestIsUnique
  <2>4. \A d \in log' : Len(d) <= Len(TransactionDigest(w))
    BY <2>1, <2>2, ExtendNewest
  <2>5. Newest(log') = TransactionDigest(w)
    BY <2>1, <2>2, <2>4, NewestIsUnique
  <2>a. ~History!Reuses(Newest(log))
    <3>1. CASE Newest(log) = << >>
      BY <3>1 DEF History!Reuses
    <3>2. CASE Newest(log) \in log
      <4>1. ~Reuses(Newest(log))
        BY <2>2, <3>2, CompleteReusesNothing DEF Reusing
      <4> QED BY <4>1 DEF Reuses, BodyOf, History!Reuses
    <3>3. request[w].previous \in log \cup {<< >>}
      BY <2>1 DEF IsHighWatermark, Applied
    <3> QED BY <2>3, <3>1, <3>2, <3>3
  <2>6. History!Extend(w)
    <3>1. Answer(w) = "asked"
      BY <1>1 DEF Answer
    <3>2. Newest(log)' = History!Version(w)
      BY <2>5, MappedState
    <3> QED BY <1>3, <2>3, <2>a, <3>1, <3>2 DEF History!Extend, History!Asking
  <2> QED BY <2>6 DEF History!Next
<1> QED BY <1>4, <1>5

(* Every other step of a call is no step of the history, or its answer.     *)
LEMMA StepsRefine ==
    ASSUME IInv, AnswerInv, [UndisturbedNext]_vars, IInv', AnswerInv'
    PROVE  [History!Next]_(History!vars)
<1>1. ASSUME NEW w \in Writer, NEW l, GoTo(w, l)
      PROVE  pc'[w] = l /\ \A v \in Writer \ {w} : pc'[v] = pc[v]
  BY <1>1 DEF GoTo, IInv, TypeOK
<1>2. ASSUME NEW w \in Writer, NEW r, Decide(w, r)
      PROVE  outcome'[w] = r /\ \A v \in Writer \ {w} : outcome'[v] = outcome[v]
  BY <1>2 DEF Decide, IInv, TypeOK
<1>3. ASSUME NEW w \in Writer, UNCHANGED <<log, request>>,
             pc[w] \notin {"idle", "returned"}, pc'[w] # "idle",
             \A v \in Writer \ {w} : pc'[v] = pc[v] /\ outcome'[v] = outcome[v]
      PROVE  [History!Next]_(History!vars)
  <2>1. Answer(w) = "asked" /\ \A v \in Writer \ {w} : Answer(v)' = Answer(v)
    BY <1>3 DEF Answer, Succeeded
  <2>2. [v \in Writer |-> request[v].previous]' = [v \in Writer |-> request[v].previous]
    BY <1>3
  <2>3. CASE pc'[w] # "returned"
    <3>1. Answer(w)' = "asked"
      BY <1>3, <2>3 DEF Answer
    <3> QED BY <1>3, <2>1, <2>2, <3>1 DEF History!vars
  <2>4. CASE pc'[w] = "returned"
    <3>1. outcome'[w] \in Outcomes \ {"pending"} /\ CallInv(w)'
      BY <2>4 DEF AnswerInv, CallInv, Leaving, IInv, TypeOK
    <3>2. [v \in Writer |-> Answer(v)]' = [[v \in Writer |-> Answer(v)] EXCEPT ![w] = Answer(w)']
      BY <2>1
    <3>3. TransactionDigest(w)' = TransactionDigest(w)
      BY <1>3 DEF TransactionDigest
    <3>4. CASE Succeeded(w)'
      <4>1. Answer(w)' = "ok" /\ TransactionDigest(w) \in log /\ ~Reuses(TransactionDigest(w))
        BY <1>3, <2>4, <3>1, <3>3, <3>4 DEF Answer, CallInv, Leaving
      <4>2. History!InHistory(History!Version(w)) /\ ~History!Reuses(History!Version(w))
        BY <4>1, MappedState DEF Reuses, BodyOf, History!Reuses
      <4>3. History!Confirm(w)
        BY <1>3, <2>1, <2>2, <3>2, <4>1, <4>2 DEF History!Confirm, History!Asking
      <4> QED BY <4>3 DEF History!Next
    <3>5. CASE ~Succeeded(w)'
      <4>1. Answer(w)' = outcome'[w] /\ outcome'[w] \in {"conflict", "busy", "failed"}
        BY <2>4, <3>1, <3>5 DEF Answer, Succeeded, Outcomes
      <4>2. ASSUME outcome'[w] # "failed", History!InHistory(History!Version(w))
            PROVE  \/ outcome'[w] = "conflict" /\ History!Reuses(History!Version(w))
                   \/ \E v \in Writer \ {w} :
                     [u \in Writer |-> Answer(u)][v] # "none" /\ History!Version(v) = History!Version(w)
        <5>1. TransactionDigest(w) \in log
          BY <4>2, MappedState
        <5>2. PICK v \in Writer : Publisher(v)' /\ TransactionDigest(v)' = TransactionDigest(w)
          BY <1>3, <5>1 DEF AnswerInv
        <5> SUFFICES ASSUME ~(outcome'[w] = "conflict" /\ History!Reuses(History!Version(w)))
                     PROVE  \E u \in Writer \ {w} :
                              [x \in Writer |-> Answer(x)][u] # "none" /\ History!Version(u) = History!Version(w)
          OBVIOUS
        <5>a. History!Reuses(History!Version(w)) <=> Reuses(TransactionDigest(w))
          BY MappedState DEF Reuses, BodyOf, History!Reuses
        <5>3. v # w
          BY <3>3, <4>1, <4>2, <5>2, <5>a DEF Publisher
        <5>4. Answer(v) # "none"
          BY <1>3, <5>2, <5>3 DEF Publisher, Contending, Answer, Succeeded, IInv, TypeOK, Outcomes
        <5>5. TransactionDigest(v) = TransactionDigest(w)
          BY <1>3, <5>2 DEF TransactionDigest
        <5> QED BY <5>3, <5>4, <5>5, MappedState
      <4>3. History!Refuse(w)
        BY <1>3, <2>1, <2>2, <3>2, <4>1, <4>2 DEF History!Refuse, History!Asking, History!Refusals
      <4> QED BY <4>3 DEF History!Next
    <3> QED BY <3>4, <3>5
  <2> QED BY <2>3, <2>4
<1>4. ASSUME NEW w \in Writer, Submit(w) PROVE [History!Next]_(History!vars)
  <2>1. /\ pc[w] = "idle" /\ GoTo(w, "mkdir") /\ UNCHANGED <<log, outcome>>
    BY <1>4 DEF Submit
  <2>2. PICK expected, previous \in log \cup {<< >>} :
          request' = [request EXCEPT ![w] = [previous |-> previous, expected |-> expected]]
    BY <1>4 DEF Submit
  <2>3. PICK n \in 0..Len(Newest(log)) : SubSeq(Newest(log), 1, n) = previous
    BY MappedState
  <2>4. [v \in Writer |-> request[v].previous]'
          = [[v \in Writer |-> request[v].previous] EXCEPT ![w] = previous]
    BY <2>2 DEF IInv, TypeOK
  <2>5. [v \in Writer |-> Answer(v)]' = [[v \in Writer |-> Answer(v)] EXCEPT ![w] = "asked"]
    <3>1. Answer(w)' = "asked" /\ \A v \in Writer \ {w} : Answer(v)' = Answer(v)
      BY <2>1, <1>1 DEF Answer, Succeeded
    <3> QED BY <3>1
  <2>6. Answer(w) = "none"
    BY <2>1 DEF Answer
  <2>7. History!Ask(w)
    BY <2>1, <2>3, <2>4, <2>5, <2>6 DEF History!Ask
  <2> QED BY <2>7 DEF History!Next
<1>5. ASSUME NEW w \in Writer,
             \/ MakeLock(w) \/ OpenOwner(w) \/ WriteOwner(w)
             \/ InspectOwner(w) \/ StatLock(w) \/ UndisturbedSteal(w)
      PROVE  [History!Next]_(History!vars)
  <2>1. /\ pc[w] \notin {"idle", "returned"} /\ UNCHANGED <<log, request>>
        /\ \E l \in Locations \ {"idle"} : GoTo(w, l)
        /\ UNCHANGED outcome \/ \E r \in Outcomes : Decide(w, r)
    BY <1>5
    DEF MakeLock, OpenOwner, WriteOwner, InspectOwner, StatLock, UndisturbedSteal, StealLock,
        WaitOrGiveUp, Retry, GiveUp, files, Locations, Outcomes
  <2> QED BY <2>1, <1>1, <1>2, <1>3
<1>6. ASSUME NEW w \in Writer,
             \/ ScanLog(w) \/ StageTransaction(w) \/ AssertOwned(w) \/ CleanupMatchingTemps(w)
             \/ RebuildScan(w) \/ WriteIndex(w) \/ VerifyCommit(w)
             \/ ReleaseLock(w) \/ UnlinkOwner(w) \/ RemoveLock(w) \/ Crash(w)
      PROVE  [History!Next]_(History!vars)
  <2>1. /\ pc[w] \notin {"idle", "returned"} /\ UNCHANGED <<log, request>>
        /\ \E l \in Locations \ {"idle"} : GoTo(w, l)
        /\ UNCHANGED outcome \/ \E r \in Outcomes : Decide(w, r)
    BY <1>6
    DEF ScanLog, StageTransaction, AssertOwned, CleanupMatchingTemps, RebuildScan, WriteIndex,
        VerifyCommit, ReleaseLock, UnlinkOwner, RemoveLock, Crash, files, Locations, Outcomes
  <2> QED BY <2>1, <1>1, <1>2, <1>3
<1>7. CASE UNCHANGED vars
  <2>1. \A v \in Writer : Answer(v)' = Answer(v)
    BY <1>7 DEF vars, Answer, Succeeded
  <2> QED BY <1>7, <2>1 DEF vars, History!vars
<1> QED
  BY <1>4, <1>5, <1>6, <1>7, LinkRefines DEF UndisturbedNext, CallStep

(* While its lock is undisturbed the file protocol implements the compare-  *)
(* and-set history of ADR 0014, for any number of calls, hosts and crashes. *)
THEOREM Refinement == UndisturbedSpec => ImplementsCommitLog
<1>1. Init => History!Init
  <2> SUFFICES ASSUME Init PROVE History!Init
    OBVIOUS
  <2>1. Newest(log) = << >>
    BY DEF Init, Newest
  <2>2. \A w \in Writer : Answer(w) = "none" /\ request[w].previous = << >>
    BY DEF Init, Answer
  <2> QED BY <2>1, <2>2 DEF History!Init
<1>2. IInv /\ AnswerInv /\ [UndisturbedNext]_vars /\ IInv' /\ AnswerInv'
        => [History!Next]_(History!vars)
  BY StepsRefine
<1> QED BY <1>1, <1>2, Answered, PTL DEF UndisturbedSpec, ImplementsCommitLog, History!Spec

-----------------------------------------------------------------------------
(***************************************************************************)
(* The code as it is, disturbed.  Its log can fork, but what calls have     *)
(* seen of it are states of one growing set, so that of any two snapshots   *)
(* one contains the other; and a call past its second look has seen its     *)
(* transaction newest in a complete snapshot, and complete logs are chains. *)
(***************************************************************************)
SeenInv ==
    /\ \A w \in Writer : request[w].previous \in log \cup {<< >>}
    /\ \A d \in log : Previous(d) \in log \cup {<< >>}
    /\ \A w \in Writer : snapshot[w] \subseteq log
    /\ \A v, w \in Writer : snapshot[v] \subseteq snapshot[w] \/ snapshot[w] \subseteq snapshot[v]
    /\ \A w \in Writer : Verified(w) =>
         Complete(snapshot[w]) /\ IsHighWatermark(snapshot[w], TransactionDigest(w))

(* What a disturbed step does to what SeenInv speaks of: the log gains a    *)
(* call's transaction, a snapshot is the log, a call verifies itself.      *)
LEMMA SeenStep == TypeOK /\ SeenInv /\ [Next]_vars => SeenInv'
<1> SUFFICES ASSUME TypeOK, SeenInv, [Next]_vars PROVE SeenInv'
  OBVIOUS
<1> USE DEF TypeOK
<1>1. ASSUME NEW w \in Writer, Submit(w) PROVE SeenInv'
  <2>1. /\ UNCHANGED <<log, snapshot, outcome>> /\ pc' = [pc EXCEPT ![w] = "mkdir"]
        /\ \A v \in Writer \ {w} : request'[v] = request[v]
        /\ request'[w].previous \in log \cup {<< >>}
    BY <1>1 DEF Submit, GoTo
  <2>2. \A v \in Writer : Verified(v)' => Verified(v) /\ v # w
    BY <2>1 DEF Verified, Succeeded
  <2>3. \A v \in Writer \ {w} : TransactionDigest(v)' = TransactionDigest(v)
    BY <2>1 DEF TransactionDigest
  <2>4. \A v \in Writer : Verified(v)' =>
          Complete(snapshot[v]) /\ IsHighWatermark(snapshot[v], TransactionDigest(v)')
    BY <2>2, <2>3 DEF SeenInv
  <2>5. \A v \in Writer : request'[v].previous \in log \cup {<< >>}
    BY <2>1 DEF SeenInv
  <2> QED BY <2>1, <2>4, <2>5 DEF SeenInv
<1>2. ASSUME UNCHANGED <<log, snapshot, request>>, \A v \in Writer : Verified(v)' => Verified(v)
      PROVE  SeenInv'
  <2>1. \A v \in Writer : TransactionDigest(v)' = TransactionDigest(v)
    BY <1>2 DEF TransactionDigest
  <2> QED BY <1>2, <2>1 DEF SeenInv
<1>4. ASSUME NEW w \in Writer, MakeLock(w) \/ Crash(w) PROVE SeenInv'
  <2>1. \A v \in Writer : Verified(v)' => Verified(v)
    BY <1>4 DEF MakeLock, Crash, GoTo, Verified, Succeeded
  <2> QED BY <1>2, <1>4, <2>1 DEF MakeLock, Crash, files
<1>5. ASSUME NEW w \in Writer, OpenOwner(w) PROVE SeenInv'
  <2>1. \A v \in Writer : Verified(v)' => Verified(v)
    BY <1>5 DEF OpenOwner, GoTo, Decide, Verified, Succeeded
  <2> QED BY <1>2, <1>5, <2>1 DEF OpenOwner, files
<1>6. ASSUME NEW w \in Writer, WriteOwner(w) PROVE SeenInv'
  <2>1. \A v \in Writer : Verified(v)' => Verified(v)
    BY <1>6 DEF WriteOwner, GoTo, Decide, Verified, Succeeded
  <2> QED BY <1>2, <1>6, <2>1 DEF WriteOwner, files
<1>7. ASSUME NEW w \in Writer, InspectOwner(w) PROVE SeenInv'
  <2>1. \A v \in Writer : Verified(v)' => Verified(v)
    BY <1>7 DEF InspectOwner, WaitOrGiveUp, Retry, GiveUp, GoTo, Decide, Verified, Succeeded
  <2> QED BY <1>2, <1>7, <2>1 DEF InspectOwner, files
<1>8. ASSUME NEW w \in Writer, StatLock(w) PROVE SeenInv'
  <2>1. \A v \in Writer : Verified(v)' => Verified(v)
    BY <1>8 DEF StatLock, WaitOrGiveUp, Retry, GiveUp, GoTo, Decide, Verified, Succeeded
  <2> QED BY <1>2, <1>8, <2>1 DEF StatLock, files
<1>9. ASSUME NEW w \in Writer, StealLock(w) PROVE SeenInv'
  <2>1. \A v \in Writer : Verified(v)' => Verified(v)
    BY <1>9 DEF StealLock, WaitOrGiveUp, Retry, GiveUp, GoTo, Decide, Verified, Succeeded
  <2> QED BY <1>2, <1>9, <2>1 DEF StealLock, files
<1>10. ASSUME NEW w \in Writer, StageTransaction(w) \/ CleanupMatchingTemps(w) \/ WriteIndex(w)
       PROVE  SeenInv'
  <2>1. \A v \in Writer : Verified(v)' => Verified(v)
    BY <1>10 DEF StageTransaction, CleanupMatchingTemps, WriteIndex, GoTo, Verified, Succeeded
  <2> QED BY <1>2, <1>10, <2>1 DEF StageTransaction, CleanupMatchingTemps, WriteIndex, files
<1>11. ASSUME NEW w \in Writer, AssertOwned(w) PROVE SeenInv'
  <2>1. \A v \in Writer : Verified(v)' => Verified(v)
    BY <1>11 DEF AssertOwned, GoTo, Decide, Verified, Succeeded
  <2> QED BY <1>2, <1>11, <2>1 DEF AssertOwned, files
<1>12. ASSUME NEW w \in Writer, ReleaseLock(w) \/ UnlinkOwner(w) \/ RemoveLock(w) PROVE SeenInv'
  <2>1. \A v \in Writer : Verified(v)' => Verified(v)
    BY <1>12 DEF ReleaseLock, UnlinkOwner, RemoveLock, GoTo, Decide, Verified, Succeeded
  <2> QED BY <1>2, <1>12, <2>1 DEF ReleaseLock, UnlinkOwner, RemoveLock, files
<1>13. ASSUME NEW w \in Writer, ScanLog(w) \/ RebuildScan(w) PROVE SeenInv'
  <2>1. /\ UNCHANGED <<log, request>>
        /\ snapshot'[w] = log
        /\ \A v \in Writer \ {w} : snapshot'[v] = snapshot[v]
    BY <1>13 DEF ScanLog, RebuildScan, files
  <2>2. \A v \in Writer : Verified(v)' => Verified(v) /\ v # w
    BY <1>13 DEF ScanLog, RebuildScan, GoTo, Decide, Verified, Succeeded
  <2>3. \A v \in Writer : TransactionDigest(v)' = TransactionDigest(v)
    BY <2>1 DEF TransactionDigest
  <2>4. \A v \in Writer : snapshot'[v] \subseteq log
    BY <2>1 DEF SeenInv
  <2>5. \A u, v \in Writer : snapshot'[u] \subseteq snapshot'[v] \/ snapshot'[v] \subseteq snapshot'[u]
    <3> TAKE u, v \in Writer
    <3> QED BY <2>1, <2>4 DEF SeenInv
  <2>6. \A v \in Writer : Verified(v)' =>
          Complete(snapshot'[v]) /\ IsHighWatermark(snapshot'[v], TransactionDigest(v)')
    BY <2>1, <2>2, <2>3 DEF SeenInv
  <2> QED BY <2>1, <2>4, <2>5, <2>6 DEF SeenInv
<1>14. ASSUME NEW w \in Writer, LinkTransaction(w) PROVE SeenInv'
  <2>1. /\ log' \in {log, log \cup {TransactionDigest(w)}}
        /\ UNCHANGED <<request, snapshot>>
    BY <1>14 DEF LinkTransaction
  <2>2. \A v \in Writer : Verified(v)' => Verified(v)
    BY <1>14 DEF LinkTransaction, GoTo, Decide, Verified, Succeeded
  <2>3. \A v \in Writer : TransactionDigest(v)' = TransactionDigest(v)
    BY <2>1 DEF TransactionDigest
  <2>4. Previous(TransactionDigest(w)) = request[w].previous
    BY DigestParts, WriterAssumption DEF TransactionDigest
  <2>5. \A d \in log' : Previous(d) \in log' \cup {<< >>}
    BY <2>1, <2>4 DEF SeenInv
  <2>6. \A v \in Writer : request'[v].previous \in log' \cup {<< >>} /\ snapshot'[v] \subseteq log'
    BY <2>1 DEF SeenInv
  <2>7. \A v \in Writer : Verified(v)' =>
          Complete(snapshot'[v]) /\ IsHighWatermark(snapshot'[v], TransactionDigest(v)')
    BY <2>1, <2>2, <2>3 DEF SeenInv
  <2> QED BY <2>1, <2>5, <2>6, <2>7 DEF SeenInv
<1>15. ASSUME NEW w \in Writer, VerifyCommit(w) PROVE SeenInv'
  <2>1. UNCHANGED <<log, request, snapshot>>
    BY <1>15 DEF VerifyCommit, files
  <2>2. \A v \in Writer : TransactionDigest(v)' = TransactionDigest(v)
    BY <2>1 DEF TransactionDigest
  <2>3. \A v \in Writer \ {w} : Verified(v)' => Verified(v)
    BY <1>15 DEF VerifyCommit, GoTo, Decide, Verified, Succeeded
  <2>4. Verified(w)' => Complete(snapshot[w]) /\ IsHighWatermark(snapshot[w], TransactionDigest(w))
    BY <1>15 DEF VerifyCommit, Decide, Verified, Succeeded
  <2>5. \A v \in Writer : Verified(v)' =>
          Complete(snapshot'[v]) /\ IsHighWatermark(snapshot'[v], TransactionDigest(v)')
    BY <2>1, <2>2, <2>3, <2>4 DEF SeenInv
  <2> QED BY <2>1, <2>5 DEF SeenInv
<1>16. CASE UNCHANGED vars
  BY <1>2, <1>16 DEF vars, Verified, Succeeded
<1> QED
  BY <1>1, <1>4, <1>5, <1>6, <1>7, <1>8, <1>9, <1>10, <1>11, <1>12, <1>13, <1>14, <1>15, <1>16
  DEF Next, CallStep

(* Of two snapshots that were verified, the transaction that is newest in   *)
(* the smaller begins the one that is newest in the larger.                *)
LEMMA VerifiedBegins ==
    ASSUME NEW small \in SUBSET Digest, NEW large \in SUBSET Digest, small \subseteq large,
           NEW d \in Digest, NEW e \in Digest, Complete(large),
           IsHighWatermark(small, d), IsHighWatermark(large, e)
    PROVE  /\ e \in large
           /\ Len(d) \in 1..Len(e) /\ SubSeq(e, 1, Len(d)) = d
           /\ Len(e) \in 1..Len(e) /\ SubSeq(e, 1, Len(e)) = e
<1>1. d \in small /\ e \in large
  BY DEF IsHighWatermark, Applied, Digest
<1>2. Len(d) <= Len(e)
  BY <1>1 DEF Complete, IsHighWatermark
<1>3. SubSeq(e, 1, Len(d)) = d
  BY <1>1, <1>2, CompleteIsNested DEF Nested
<1>4. Len(d) \in 1..Len(e) /\ Len(e) \in 1..Len(e)
  BY <1>2, PreviousShorter
<1>5. SubSeq(e, 1, Len(e)) = e
  BY SubSeqFull DEF Digest
<1> QED BY <1>1, <1>3, <1>4, <1>5

(* The log can fork, but no two callers are told "committed" on different   *)
(* branches, and no transaction is published without its predecessor.      *)
THEOREM ForksAreNotHidden == Spec => []NoHiddenFork
<1>1. TypeOK /\ SeenInv => NoHiddenFork
  <2> SUFFICES ASSUME TypeOK, SeenInv, NEW v \in Writer, NEW w \in Writer, Verified(v), Verified(w)
               PROVE  \E d \in log : /\ TransactionDigest(v) \in {SubSeq(d, 1, i) : i \in 1..Len(d)}
                                     /\ TransactionDigest(w) \in {SubSeq(d, 1, i) : i \in 1..Len(d)}
    BY DEF NoHiddenFork, SeenInv
  <2>1. \A u \in Writer : TransactionDigest(u) \in Digest /\ snapshot[u] \in SUBSET Digest
    BY DigestParts, WriterAssumption DEF TransactionDigest, TypeOK
  <2>2. \A u \in {v, w} : /\ snapshot[u] \subseteq log /\ Complete(snapshot[u])
                          /\ IsHighWatermark(snapshot[u], TransactionDigest(u))
    BY DEF SeenInv
  <2>3. ASSUME NEW x \in {v, w}, NEW y \in {v, w}, snapshot[x] \subseteq snapshot[y]
        PROVE  /\ TransactionDigest(y) \in log
               /\ \A u \in {x, y} : TransactionDigest(u) \in
                    {SubSeq(TransactionDigest(y), 1, i) : i \in 1..Len(TransactionDigest(y))}
    <3> DEFINE d == TransactionDigest(x)
               e == TransactionDigest(y)
               small == snapshot[x]
               large == snapshot[y]
    <3>1. small \in SUBSET Digest /\ large \in SUBSET Digest /\ d \in Digest /\ e \in Digest
      BY <2>1
    <3>2. /\ Complete(large) /\ IsHighWatermark(small, d) /\ IsHighWatermark(large, e)
          /\ small \subseteq large /\ large \subseteq log
      BY <2>2, <2>3
    <3> HIDE DEF d, e, small, large
    <3>3. /\ e \in large
          /\ Len(d) \in 1..Len(e) /\ SubSeq(e, 1, Len(d)) = d
          /\ Len(e) \in 1..Len(e) /\ SubSeq(e, 1, Len(e)) = e
      BY <3>1, <3>2, VerifiedBegins
    <3> QED BY <3>2, <3>3 DEF d, e
  <2>4. \E x, y \in {v, w} : snapshot[x] \subseteq snapshot[y] /\ {x, y} = {v, w}
    BY DEF SeenInv
  <2> QED BY <2>3, <2>4
<1>2. Init => SeenInv
  BY DEF Init, SeenInv, Verified, Succeeded
<1> QED BY <1>1, <1>2, SeenStep, Typed, PTL DEF Spec
=============================================================================
