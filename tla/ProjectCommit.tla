---------------------------- MODULE ProjectCommit ----------------------------
(***************************************************************************)
(* commitProjectTransaction (project/src/commit.ts): the writers of one    *)
(* project, each a process that makes one commit call, contending for the  *)
(* lock directory, publishing an immutable transaction file and rebuilding *)
(* the projection index.  Every file-system call that another process can  *)
(* observe is a step of its own; a process can crash between any two.      *)
(*                                                                         *)
(* Time.  Nothing here reads a clock: that the lock is past stale_after    *)
(* and that the acquisition deadline has passed are choices of the model,  *)
(* for a process may pause as long as it likes between two steps.  What is *)
(* kept is that a lock directory cannot be old for a contender that        *)
(* sampled its clock before the directory was last changed: aged is the    *)
(* set of contenders whose sample found the present directory old.         *)
(***************************************************************************)
EXTENDS ProjectLog

CONSTANTS Writer,       \* commit calls, each in a process of its own
          NoWriter,     \* no lock token
          HostOf,       \* the host name of each writer
          Payload,      \* the body each writer commits
          MaxCrashes    \* how many processes may die

ASSUME WriterAssumption ==
    /\ NoWriter \notin Writer
    /\ HostOf \in [Writer -> STRING]
    /\ Payload \in [Writer -> Body]
    /\ MaxCrashes \in Nat

VARIABLES log,        \* transactions/: the published digests
          staging,    \* staging/: <<digest, writer>> temp files
          index,      \* indexes/: the log the written projection was reduced from
          lock,       \* the lock directory, as readProjectWriterLockOwner reports it
          aged,       \* writers whose clock sample found the present lock old
          pc,         \* where each call stands
          request,    \* the arguments of each call
          snapshot,   \* the log as the call last scanned it
          outcome     \* what the call returns or throws

vars == <<log, staging, index, lock, aged, pc, request, snapshot, outcome>>

files == <<log, staging, index>>

Status == {"absent_lock", "missing_owner", "invalid", "valid"}

Locations == {"idle", "mkdir", "open", "write", "inspect", "stat", "steal", "scan", "stage",
              "guard", "link", "settle", "rebuild", "index", "verify", "release", "unlink",
              "rmdir", "returned", "crashed"}

Outcomes == {"pending", "committed", "already_committed", "conflict", "busy", "failed"}

Lock(status, token) == [status |-> status, token |-> token]
NoLock == Lock("absent_lock", NoWriter)

Alive(w) == pc[w] # "crashed"

TypeOK ==
    /\ log \subseteq Digest
    /\ staging \subseteq Digest \X Writer
    /\ index \subseteq Digest
    /\ lock \in [status : Status, token : Writer \cup {NoWriter}]
    /\ aged \subseteq Writer
    /\ pc \in [Writer -> Locations]
    /\ request \in [Writer -> [previous : Watermark, expected : Watermark]]
    /\ snapshot \in [Writer -> SUBSET Digest]
    /\ outcome \in [Writer -> Outcomes]

Init ==
    /\ log = {} /\ staging = {} /\ index = {}
    /\ lock = NoLock /\ aged = {}
    /\ pc = [w \in Writer |-> "idle"]
    /\ request = [w \in Writer |-> [previous |-> << >>, expected |-> << >>]]
    /\ snapshot = [w \in Writer |-> {}]
    /\ outcome = [w \in Writer |-> "pending"]

TransactionDigest(w) == DigestOf(request[w].previous, Payload[w])
Expected(w) == request[w].expected

GoTo(w, location) == pc' = [pc EXCEPT ![w] = location]
Decide(w, result) == outcome' = [outcome EXCEPT ![w] = result]

(* The lock directory becomes l: whoever found the old one old knows        *)
(* nothing of this one.                                                    *)
ChangeLock(l) == lock' = l /\ aged' = {}

(* Date.now() at the head of the acquisition loop.                         *)
SampleClock(w) ==
    \/ aged' = aged \ {w}
    \/ lock # NoLock /\ aged' = aged \cup {w}

OwnsLock(w) == lock = Lock("valid", w)

-----------------------------------------------------------------------------
(* The caller read some projection, now or long ago, and names its         *)
(* watermark; the transaction names a predecessor of its own.  Nothing      *)
(* looks whether its command or an event is in the log already.             *)
Submit(w) ==
    /\ pc[w] = "idle"
    /\ \E expected, previous \in log \cup {<< >>} :
         request' = [request EXCEPT ![w] = [previous |-> previous, expected |-> expected]]
    /\ SampleClock(w)
    /\ GoTo(w, "mkdir")
    /\ UNCHANGED <<log, staging, index, lock, snapshot, outcome>>

MakeLock(w) ==
    /\ pc[w] = "mkdir"
    /\ IF lock = NoLock
       THEN ChangeLock(Lock("missing_owner", NoWriter)) /\ GoTo(w, "open")
       ELSE GoTo(w, "inspect") /\ UNCHANGED <<lock, aged>>
    /\ UNCHANGED <<files, request, snapshot, outcome>>

(* open(owner.json, "wx") in whatever directory the path now names.        *)

OpenOwner(w) ==
    /\ pc[w] = "open"
    /\ \/ lock = NoLock
          /\ Decide(w, "failed") /\ GoTo(w, "returned") /\ UNCHANGED <<lock, aged>>
       \/ lock.status = "missing_owner"
          /\ ChangeLock(Lock("invalid", w)) /\ GoTo(w, "write") /\ UNCHANGED outcome
       \/ lock.status \in {"invalid", "valid"}
          /\ GoTo(w, "inspect") /\ UNCHANGED <<lock, aged, outcome>>
    /\ UNCHANGED <<files, request, snapshot>>

(* The bytes go to the file that was opened, wherever it has moved; syncing *)
(* the lock path fails when nothing is there any more.                      *)
WriteOwner(w) ==
    /\ pc[w] = "write"
    /\ lock' = IF lock = Lock("invalid", w) THEN Lock("valid", w) ELSE lock
    /\ IF lock = NoLock
       THEN Decide(w, "failed") /\ GoTo(w, "returned")
       ELSE GoTo(w, "scan") /\ UNCHANGED outcome
    /\ UNCHANGED <<files, aged, request, snapshot>>

-----------------------------------------------------------------------------
(* recoverDeadLocalLock, and the two ways out of it that keep waiting.      *)

Retry(w) == GoTo(w, "mkdir") /\ SampleClock(w) /\ UNCHANGED outcome
GiveUp(w) == Decide(w, "busy") /\ GoTo(w, "returned") /\ aged' = aged \ {w}

(* A second look at the clock after recovery: past the deadline the call   *)
(* fails, before it the call sleeps and tries again.                       *)
WaitOrGiveUp(w) == Retry(w) \/ GiveUp(w)

(* A valid owner is stale when it is of this host, expired and dead.       *)
DeadLocalOwner_AnyPid(w) ==                                      \* mutant
    lock.status = "valid" /\ HostOf[lock.token] = HostOf[w]

DeadLocalOwner(w) ==
    /\ lock.status = "valid"
    /\ HostOf[lock.token] = HostOf[w]
    /\ ~Alive(lock.token)

InspectOwner(w) ==
    /\ pc[w] = "inspect"
    /\ \/ lock.status \in {"missing_owner", "invalid"} /\ GoTo(w, "stat") /\ UNCHANGED <<aged, outcome>>
       \/ lock.status \in {"absent_lock", "valid"} /\ WaitOrGiveUp(w)
       \/ DeadLocalOwner(w) /\ GoTo(w, "steal") /\ aged' = aged \cup {w} /\ UNCHANGED outcome
    /\ UNCHANGED <<files, lock, request, snapshot>>

(* No owner, or half of one: the age of the directory decides.  An old      *)
(* directory with no owner is stale; an old one with a bad owner fails      *)
(* closed, even if its bytes were completed since they were read.           *)
StatLock(w) ==
    /\ pc[w] = "stat"
    /\ \/ w \in aged /\ lock.status \in {"invalid", "valid"}
          /\ Decide(w, "conflict") /\ GoTo(w, "returned") /\ aged' = aged \ {w}
       \/ w \in aged /\ lock.status = "missing_owner"
          /\ GoTo(w, "steal") /\ UNCHANGED <<aged, outcome>>
       \/ w \notin aged /\ WaitOrGiveUp(w)
    /\ UNCHANGED <<files, lock, request, snapshot>>

(* rename(lock, quarantine): it takes whatever directory is there now.      *)
StealLock(w) ==
    /\ pc[w] = "steal"
    /\ \/ lock # NoLock /\ lock' = NoLock
          /\ \/ GoTo(w, "mkdir") /\ UNCHANGED outcome
             \/ Decide(w, "busy") /\ GoTo(w, "returned")
          /\ aged' = {}
       \/ lock = NoLock /\ WaitOrGiveUp(w) /\ UNCHANGED lock
    /\ UNCHANGED <<files, request, snapshot>>

-----------------------------------------------------------------------------
(* With the lock: the scan, its checks, and the publication.               *)

(* The transaction is already the newest, or may follow the newest.        *)
Acceptable_Blind(w) ==                                           \* mutant: incomplete is good enough
    /\ \/ IsHighWatermark(log, TransactionDigest(w))
       \/ IsHighWatermark(log, Expected(w))
    /\ request[w].previous = Expected(w)

Acceptable_NoCas(w) == Complete(log) /\ request[w].previous = Expected(w)   \* mutant

Acceptable(w) ==
    /\ Complete(log)
    /\ \/ IsHighWatermark(log, TransactionDigest(w))
       \/ IsHighWatermark(log, Expected(w))
    /\ request[w].previous = Expected(w)

ScanLog_Swallows(w) ==                                           \* mutant: refusal not reported
    /\ pc[w] = "scan"
    /\ snapshot' = [snapshot EXCEPT ![w] = log]
    /\ Decide(w, "committed")
    /\ GoTo(w, IF Acceptable(w) THEN "stage" ELSE "release")
    /\ UNCHANGED <<files, lock, aged, request>>

ScanLog_PublishesFirst(w) ==                                     \* mutant: link, then compare
    /\ pc[w] = "scan"
    /\ snapshot' = [snapshot EXCEPT ![w] = log]
    /\ log' = log \cup {TransactionDigest(w)}
    /\ Decide(w, IF Acceptable(w) THEN "committed" ELSE "conflict")
    /\ GoTo(w, IF Acceptable(w) THEN "stage" ELSE "release")
    /\ UNCHANGED <<staging, index, lock, aged, request>>

ScanLog(w) ==
    /\ pc[w] = "scan"
    /\ snapshot' = [snapshot EXCEPT ![w] = log]
    /\ \/ Acceptable(w) /\ GoTo(w, "stage")
          /\ Decide(w, IF IsHighWatermark(log, TransactionDigest(w))
                       THEN "already_committed" ELSE "committed")
       \/ ~Acceptable(w) /\ GoTo(w, "release") /\ Decide(w, "conflict")
    /\ UNCHANGED <<files, lock, aged, request>>

StageTransaction(w) ==
    /\ pc[w] = "stage"
    /\ staging' = staging \cup {<<TransactionDigest(w), w>>}
    /\ GoTo(w, "guard")
    /\ UNCHANGED <<log, index, lock, aged, request, snapshot, outcome>>

(* publication_guard: assertOwned, just before the link.                   *)
AssertOwned(w) ==
    /\ pc[w] = "guard"
    /\ \/ OwnsLock(w) /\ GoTo(w, "link") /\ UNCHANGED outcome
       \/ ~OwnsLock(w) /\ GoTo(w, "release") /\ Decide(w, "conflict")
    /\ UNCHANGED <<files, lock, aged, request, snapshot>>

(* link(temp, final): never overwrites; EEXIST with the same bytes is       *)
(* already_present.  The temp is missing when a call with the same bytes    *)
(* has cleaned it away.                                                    *)
LinkTransaction(w) ==
    /\ pc[w] = "link"
    /\ \/ <<TransactionDigest(w), w>> \in staging
          /\ log' = log \cup {TransactionDigest(w)}
          /\ GoTo(w, "settle") /\ UNCHANGED outcome
       \/ <<TransactionDigest(w), w>> \notin staging
          /\ GoTo(w, "release") /\ Decide(w, "failed") /\ UNCHANGED log
    /\ UNCHANGED <<staging, index, lock, aged, request, snapshot>>

CleanupMatchingTemps(w) ==
    /\ pc[w] = "settle"
    /\ staging' = {t \in staging : t[1] # TransactionDigest(w)}
    /\ GoTo(w, "rebuild")
    /\ UNCHANGED <<log, index, lock, aged, request, snapshot, outcome>>

-----------------------------------------------------------------------------
(* rebuildProjectProjection: a second scan, the index, and reading it back. *)

RebuildScan(w) ==
    /\ pc[w] = "rebuild"
    /\ snapshot' = [snapshot EXCEPT ![w] = log]
    /\ GoTo(w, "index")
    /\ UNCHANGED <<files, lock, aged, request, outcome>>

WriteIndex(w) ==
    /\ pc[w] = "index"
    /\ index' = snapshot[w]
    /\ GoTo(w, "verify")
    /\ UNCHANGED <<log, staging, lock, aged, request, snapshot, outcome>>

VerifyCommit_Trusts(w) ==                                        \* mutant: no second look
    /\ pc[w] = "verify"
    /\ GoTo(w, "release")
    /\ UNCHANGED <<files, lock, aged, request, snapshot, outcome>>

VerifyCommit(w) ==
    /\ pc[w] = "verify"
    /\ GoTo(w, "release")
    /\ \/ index # snapshot[w] /\ Decide(w, "failed")
       \/ index = snapshot[w] /\ ~Complete(snapshot[w]) /\ Decide(w, "conflict")
       \/ /\ index = snapshot[w] /\ Complete(snapshot[w])
          /\ ~IsHighWatermark(snapshot[w], TransactionDigest(w))
          /\ Decide(w, "failed")
       \/ /\ index = snapshot[w] /\ Complete(snapshot[w])
          /\ IsHighWatermark(snapshot[w], TransactionDigest(w))
          /\ UNCHANGED outcome
    /\ UNCHANGED <<files, lock, aged, request, snapshot>>

-----------------------------------------------------------------------------
(* finally: release, which asserts ownership once more and then removes the *)
(* directory in two steps, the owner first.                                *)

ReleaseLock(w) ==
    /\ pc[w] = "release"
    /\ \/ OwnsLock(w) /\ GoTo(w, "unlink") /\ UNCHANGED outcome
       \/ ~OwnsLock(w) /\ GoTo(w, "returned") /\ Decide(w, "conflict")
    /\ UNCHANGED <<files, lock, aged, request, snapshot>>

UnlinkOwner(w) ==
    /\ pc[w] = "unlink"
    /\ \/ lock.status \in {"invalid", "valid"}
          /\ ChangeLock(Lock("missing_owner", NoWriter)) /\ GoTo(w, "rmdir") /\ UNCHANGED outcome
       \/ lock.status = "missing_owner"
          /\ GoTo(w, "rmdir") /\ UNCHANGED <<lock, aged, outcome>>
       \/ lock = NoLock
          /\ GoTo(w, "returned") /\ Decide(w, "failed") /\ UNCHANGED <<lock, aged>>
    /\ UNCHANGED <<files, request, snapshot>>

(* Only an empty directory goes; one with an owner in it is an error.       *)
RemoveLock(w) ==
    /\ pc[w] = "rmdir"
    /\ GoTo(w, "returned")
    /\ \/ lock.status = "missing_owner" /\ ChangeLock(NoLock) /\ UNCHANGED outcome
       \/ lock = NoLock /\ UNCHANGED <<lock, aged, outcome>>
       \/ lock.status \in {"invalid", "valid"} /\ Decide(w, "failed") /\ UNCHANGED <<lock, aged>>
    /\ UNCHANGED <<files, request, snapshot>>

-----------------------------------------------------------------------------
(* The process dies.  What it wrote stays; a half-written owner stays half. *)
Crash(w) ==
    /\ pc[w] \notin {"idle", "returned", "crashed"}
    /\ Cardinality({v \in Writer : pc[v] = "crashed"}) < MaxCrashes
    /\ GoTo(w, "crashed")
    /\ UNCHANGED <<files, lock, aged, request, snapshot, outcome>>

(* Every step of a call but the rename of a stale lock.                    *)
CallStep(w) ==
    \/ MakeLock(w) \/ OpenOwner(w) \/ WriteOwner(w)
    \/ InspectOwner(w) \/ StatLock(w)
    \/ ScanLog(w) \/ StageTransaction(w) \/ AssertOwned(w)
    \/ LinkTransaction(w) \/ CleanupMatchingTemps(w)
    \/ RebuildScan(w) \/ WriteIndex(w) \/ VerifyCommit(w)
    \/ ReleaseLock(w) \/ UnlinkOwner(w) \/ RemoveLock(w)

Next == \E w \in Writer : Submit(w) \/ CallStep(w) \/ StealLock(w) \/ Crash(w)

Spec == Init /\ [][Next]_vars

(***************************************************************************)
(* recoverDeadLocalLock judges the lock and then renames it, and nothing   *)
(* ties the two together.  UndisturbedSpec is the code run where no lock   *)
(* directory is ever replaced between a contender's judgement and its      *)
(* rename: the assumption under which the lock is one.                     *)
(***************************************************************************)
UndisturbedSteal(w) == StealLock(w) /\ (lock # NoLock => w \in aged)

UndisturbedNext ==
    \E w \in Writer : Submit(w) \/ CallStep(w) \/ UndisturbedSteal(w) \/ Crash(w)

UndisturbedSpec == Init /\ [][UndisturbedNext]_vars

-----------------------------------------------------------------------------
(***************************************************************************)
(* Properties.                                                             *)
(***************************************************************************)

(* ADR 0014: "Different commands with the same expected version produce    *)
(* one winner and explicit CAS conflicts, never a fork": no two published  *)
(* transactions name the same predecessor.                                 *)
NoFork == Forkless(log)

(* Commit checks no command or event id, so a caller that reuses one leaves *)
(* a log every reader refuses.  That is the only way, and it goes no        *)
(* further: without such a transaction the log is complete, and what one    *)
(* was put behind is a complete log whose newest it follows, so that it is  *)
(* alone and nothing is published behind it or beside it.                   *)
OnlyReuseBreaks ==
    /\ Complete(log \ Reusing(log))
    /\ \A d \in Reusing(log) : IsHighWatermark(log \ Reusing(log), Previous(d))

(* From its acquisition to the moment it starts removing the lock, a call  *)
(* is the only one between the two.                                        *)
Holding == {"scan", "stage", "guard", "link", "settle", "rebuild", "index", "verify",
            "release", "unlink"}

OneHolder ==
    \A v, w \in Writer : pc[v] \in Holding /\ pc[w] \in Holding => v = w

Succeeded(w) == outcome[w] \in {"committed", "already_committed"}

(* A caller told "committed" finds its transaction applied ever after, but  *)
(* for what a later reuse of an id makes the reducer stop at, and at that   *)
(* moment the index it may read is the reduction of the whole log.  Its own *)
(* transaction reuses nothing.                                             *)
AcknowledgedApplied ==
    \A w \in Writer : Succeeded(w) =>
        /\ pc[w] = "returned" => TransactionDigest(w) \in Applied(log \ Reusing(log))
        /\ pc[w] \in {"release", "unlink"} => index = log

(* ADR 0014, invariant 4: a refused call published nothing, unless a retry *)
(* of the very same transaction did, or the conflict was found in the      *)
(* second look, after publishing, because the call itself reused an id.    *)
RefusedPublishedNothing ==
    \A w \in Writer :
        /\ pc[w] = "returned"
        /\ outcome[w] \in {"conflict", "busy"}
        /\ TransactionDigest(w) \in log
        => \/ outcome[w] = "conflict" /\ Reuses(TransactionDigest(w))
           \/ \E v \in Writer \ {w} : TransactionDigest(v) = TransactionDigest(w)

(* ADR 0014: "A live local PID lock is never stolen": a lock directory     *)
(* that holds the owner file of a live process is taken away by no step    *)
(* but that process's own release.                                         *)
LiveLockKept ==
    [][\A w \in Writer :
         OwnsLock(w) /\ Alive(w) /\ lock' # lock => pc[w] = "unlink" /\ pc'[w] = "rmdir"]_vars

(* Published transactions are immutable and stay, and each is published by *)
(* a call that found its predecessor the newest of a complete log.         *)
PublishedOnTop ==
    [][/\ log \subseteq log'
       /\ \A d \in log' \ log : Complete(log) /\ IsHighWatermark(log, Previous(d))]_vars

(* What is left when contenders do disturb each other.  A published        *)
(* transaction never lacks its predecessor, and a fork is never hidden     *)
(* (ADR 0014, invariant 5): of two calls on diverging histories at most    *)
(* one gets past its second look at the log.                               *)
Verified(w) == Succeeded(w) /\ pc[w] \in {"release", "unlink", "rmdir", "returned"}

NoHiddenFork ==
    /\ \A d \in log : Previous(d) \in log \cup {<< >>}
    /\ \A v, w \in Writer :
         Verified(v) /\ Verified(w) =>
            \E d \in log : /\ TransactionDigest(v) \in {SubSeq(d, 1, i) : i \in 1..Len(d)}
                           /\ TransactionDigest(w) \in {SubSeq(d, 1, i) : i \in 1..Len(d)}

-----------------------------------------------------------------------------
(* The call as its caller sees it.                                         *)
Answer(w) == IF pc[w] = "idle" THEN "none"
             ELSE IF pc[w] # "returned" THEN "asked"
             ELSE IF Succeeded(w) THEN "ok" ELSE outcome[w]

(* The history the callers share is that of the newest transaction.        *)
Newest(l) == CHOOSE h \in l \cup {<< >>} : \A d \in l : Len(d) <= Len(h)

History == INSTANCE CommitLog WITH
             chain <- Newest(log),
             expected <- [w \in Writer |-> request[w].previous],
             answer <- [w \in Writer |-> Answer(w)]

(* With an undisturbed lock the file protocol implements the promised CAS: *)
(* each publication extends the one history behind the version its caller  *)
(* named, and what callers are told agrees with it.                        *)
ImplementsCommitLog == History!Spec
=============================================================================
