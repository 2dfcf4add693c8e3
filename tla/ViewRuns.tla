------------------------------- MODULE ViewRuns -------------------------------
(***************************************************************************)
(* The run journals of a workspace View (space/src/view.ts): starting,      *)
(* logging, finishing and sweeping runs, the claims a run makes on paths,   *)
(* the archive its claims end in, and the handoff task a finish creates.    *)
(*                                                                         *)
(* A call is a process of its own and is made once; a run is named by the   *)
(* call that starts it, and a handoff task by the call that creates it.     *)
(* Every journal has a lock file, which counts as stale by its age alone;   *)
(* the signals, the archive and the tasks have none.  Reading and writing a *)
(* file are two steps.                                                      *)
(***************************************************************************)
EXTENDS Naturals, FiniteSets

CONSTANTS Call,
          Agent,
          AgentOf,    \* the agent that makes a call
          Note,       \* what a handoff says
          Request,    \* what a finish may ask for: a status, and a note or None
          MaxDeaths,  \* how many calls die before they return
          None

Terminal == {"completed", "blocked", "failed"}

VARIABLES runs,      \* the journal of a run, or None
          lock,      \* the lock file beside a journal, or None
          live,      \* the runs whose claim is a live signal file
          archive,   \* the runs whose claim is in the archive file
          tasks,     \* the handoff task a call has created, or None
          op,        \* the operation a call is, once it is made
          asked,     \* what it asks for, when it is a finish
          pc,        \* where it stands
          target,    \* the run it works on
          todo,      \* the runs a sweep has listed and not yet come to
          copy,      \* the journal as it read it
          snapshot,  \* the archive as it read it
          removing,  \* the signals it archives and then unlinks
          task,      \* the handoff task it has found or created
          answer,    \* what it is answered
          deaths

files == <<runs, lock, live, archive, tasks>>
memory == <<op, asked, target, todo, copy, snapshot, removing, task, answer, deaths>>
vars == <<runs, lock, live, archive, tasks, pc, op, asked, target, todo, copy, snapshot,
          removing, task, answer, deaths>>

(* RUN_TRANSITION_TABLE: a run ends once.                                   *)
RunTransitions == [s \in {"in_progress"} \cup Terminal |->
                     IF s = "in_progress" THEN Terminal ELSE {}]

RunJournal == [agent : Agent, status : {"in_progress"} \cup Terminal, steps : SUBSET Call,
               untouched : BOOLEAN, ender : Call \cup {None}]
Lock == [holder : Call, old : BOOLEAN]
Handoff == [run : Call, note : Note, assigned : BOOLEAN, linked : BOOLEAN, ended : BOOLEAN]

ASSUME ViewRunsAssumption ==
    /\ AgentOf \in [Call -> Agent]
    /\ Request \subseteq [as : Terminal, note : Note \cup {None}]
    /\ MaxDeaths \in Nat
    /\ None \notin Call \cup Note \cup RunJournal \cup Lock \cup Handoff

Locations == {"idle", "write_run", "claim", "next", "lock", "reap", "read", "claims",
              "archive_claims", "unlink_claims", "look", "make", "assign", "link", "collect",
              "archive_expired", "unlink_expired", "write", "unlock", "done", "dead"}
Operations == {"none", "start", "log", "finish", "sweep", "sync"}
Answers == {"none", "ok", "timeout", "invalid", "refused"}

Init ==
    /\ runs = [r \in Call |-> None]
    /\ lock = [r \in Call |-> None]
    /\ live = {}
    /\ archive = {}
    /\ tasks = [f \in Call |-> None]
    /\ op = [c \in Call |-> "none"]
    /\ asked = [c \in Call |-> None]
    /\ pc = [c \in Call |-> "idle"]
    /\ target = [c \in Call |-> None]
    /\ todo = [c \in Call |-> {}]
    /\ copy = [c \in Call |-> None]
    /\ snapshot = [c \in Call |-> {}]
    /\ removing = [c \in Call |-> {}]
    /\ task = [c \in Call |-> None]
    /\ answer = [c \in Call |-> "none"]
    /\ deaths = 0

-----------------------------------------------------------------------------

Started == {r \in Call : runs[r] # None}
Created == {t \in Call : tasks[t] # None}

Go(c, location) == pc' = [pc EXCEPT ![c] = location]

Begin(c, operation) ==
    /\ pc[c] = "idle"
    /\ op' = [op EXCEPT ![c] = operation]

End(c, a) ==
    /\ Go(c, "done")
    /\ answer' = [answer EXCEPT ![c] = a]

Claimed(a) == {r \in live : AgentOf[r] # a}

-----------------------------------------------------------------------------
(* startRun                                                                 *)

(* The active run of the agent is returned unless a new one is asked for; a *)
(* path another agent claims is refused unless the start is forced.         *)
ReadForStart(c) ==
    /\ Begin(c, "start")
    /\ LET active == {r \in Started : runs[r].agent = AgentOf[c] /\ runs[r].status = "in_progress"}
       IN  \/ active \cup Claimed(AgentOf[c]) # {} /\ End(c, "refused")
           \/ Go(c, "write_run") /\ UNCHANGED answer
    /\ UNCHANGED <<files, asked, target, todo, copy, snapshot, removing, task, deaths>>

WriteNewRun(c) ==
    /\ pc[c] = "write_run"
    /\ runs' = [runs EXCEPT ![c] = [agent |-> AgentOf[c], status |-> "in_progress",
                                    steps |-> {}, untouched |-> FALSE, ender |-> None]]
    /\ Go(c, "claim")
    /\ UNCHANGED <<lock, live, archive, tasks, memory>>

(* claimSignal, when the start asks for a path at all.                      *)
ClaimPath(c) ==
    /\ pc[c] = "claim"
    /\ live' \in {live, live \cup {c}}
    /\ End(c, "ok")
    /\ UNCHANGED <<runs, lock, archive, tasks, op, asked, target, todo, copy, snapshot, removing,
                   task, deaths>>

-----------------------------------------------------------------------------
(* The choice of the run, and its lock                                      *)

(* resolveTargetRun: a run of the same agent, named or its active one.      *)
Select(c) ==
    /\ \/ Begin(c, "log") /\ UNCHANGED asked
       \/ /\ Begin(c, "finish")
          /\ \E request \in Request : asked' = [asked EXCEPT ![c] = request]
    /\ \E r \in Started :
         /\ runs[r].agent = AgentOf[c]
         /\ target' = [target EXCEPT ![c] = r]
    /\ Go(c, "lock")
    /\ UNCHANGED <<files, todo, copy, snapshot, removing, task, answer, deaths>>

(* A sweep lists the runs that nobody has touched for long, once.           *)
ListOrphans(c) ==
    /\ Begin(c, "sweep")
    /\ todo' = [todo EXCEPT ![c] =
                  {r \in Started : runs[r].status = "in_progress" /\ runs[r].untouched}]
    /\ Go(c, "next")
    /\ UNCHANGED <<files, asked, target, copy, snapshot, removing, task, answer, deaths>>

NextOrphan(c) ==
    /\ pc[c] = "next"
    /\ \/ \E r \in todo[c] :
            /\ target' = [target EXCEPT ![c] = r]
            /\ todo' = [todo EXCEPT ![c] = @ \ {r}]
            /\ Go(c, "lock")
            /\ UNCHANGED answer
       \/ /\ todo[c] = {}
          /\ End(c, "ok")
          /\ UNCHANGED <<target, todo>>
    /\ UNCHANGED <<files, op, asked, copy, snapshot, removing, task, deaths>>

Acquire_Anyway(c) == \* mutant
    /\ pc[c] = "lock"
    /\ lock' = [lock EXCEPT ![target[c]] = [holder |-> c, old |-> FALSE]]
    /\ Go(c, "read")
    /\ UNCHANGED <<runs, live, archive, tasks, memory>>

Acquire(c) ==
    /\ pc[c] = "lock"
    /\ lock[target[c]] = None
    /\ lock' = [lock EXCEPT ![target[c]] = [holder |-> c, old |-> FALSE]]
    /\ Go(c, "read")
    /\ UNCHANGED <<runs, live, archive, tasks, memory>>

(* removeStaleLock looks at the age of the file it finds ...                *)
StatLock(c) ==
    /\ pc[c] = "lock"
    /\ lock[target[c]] # None
    /\ lock[target[c]].old
    /\ Go(c, "reap")
    /\ UNCHANGED <<files, memory>>

(* ... and removes the file it then finds.                                  *)
Reap(c) ==
    /\ pc[c] = "reap"
    /\ lock' = [lock EXCEPT ![target[c]] = None]
    /\ Go(c, "lock")
    /\ UNCHANGED <<runs, live, archive, tasks, memory>>

TimeOut(c) ==
    /\ pc[c] = "lock"
    /\ lock[target[c]] # None
    /\ End(c, "timeout")
    /\ UNCHANGED <<files, op, asked, target, todo, copy, snapshot, removing, task, deaths>>

(* The release removes the lock file, whoever has created it.               *)
Unlock(c) ==
    /\ pc[c] = "unlock"
    /\ lock' = [lock EXCEPT ![target[c]] = None]
    /\ IF op[c] = "sweep" /\ answer[c] = "none" THEN Go(c, "next") ELSE Go(c, "done")
    /\ copy' = [copy EXCEPT ![c] = None]
    /\ task' = [task EXCEPT ![c] = None]
    /\ UNCHANGED <<runs, live, archive, tasks, op, asked, target, todo, snapshot, removing, answer,
                   deaths>>

-----------------------------------------------------------------------------
(* The mutation of the journal under its lock                               *)

ReadForLog(c) ==
    /\ op[c] = "log" /\ pc[c] = "read"
    /\ copy' = [copy EXCEPT ![c] = runs[target[c]]]
    /\ Go(c, "write")
    /\ UNCHANGED <<files, op, asked, target, todo, snapshot, removing, task, answer, deaths>>

Refused(c, a) ==
    /\ Go(c, "unlock")
    /\ answer' = [answer EXCEPT ![c] = a]

MayEnd_Always(r) == TRUE \* mutant
MayEnd(r) == RunTransitions[r.status] # {}

(* A run that has ended is refused, and so is a finish without a cause or    *)
(* over uncommitted work.                                                   *)
ReadForFinish(c) ==
    /\ op[c] = "finish" /\ pc[c] = "read"
    /\ copy' = [copy EXCEPT ![c] = runs[target[c]]]
    /\ \/ ~MayEnd(runs[target[c]]) /\ Refused(c, "invalid")
       \/ MayEnd(runs[target[c]]) /\ Refused(c, "refused")
       \/ MayEnd(runs[target[c]]) /\ Go(c, "claims") /\ UNCHANGED answer
    /\ UNCHANGED <<files, op, asked, target, todo, snapshot, removing, task, deaths>>

(* A run that has ended meanwhile ends the whole sweep with its error.      *)
ReadForSweep(c) ==
    /\ op[c] = "sweep" /\ pc[c] = "read"
    /\ copy' = [copy EXCEPT ![c] = runs[target[c]]]
    /\ \/ ~MayEnd(runs[target[c]]) /\ Refused(c, "invalid")
       \/ MayEnd(runs[target[c]]) /\ Go(c, "claims") /\ UNCHANGED answer
    /\ UNCHANGED <<files, op, asked, target, todo, snapshot, removing, task, deaths>>

AfterHandoff(c) == IF op[c] = "finish" /\ asked[c].as = "completed" THEN "collect" ELSE "write"

HandsOff(c) == op[c] = "finish" /\ asked[c].note # None

AfterClaims(c) == IF HandsOff(c) THEN "look" ELSE AfterHandoff(c)

AfterExpired(c) == IF op[c] = "sync" THEN "done" ELSE "write"

Forget(c) ==
    /\ removing' = [removing EXCEPT ![c] = {}]
    /\ snapshot' = [snapshot EXCEPT ![c] = {}]

(* archiveAndRemoveSignals, first for the claims of the run                 *)
(* (releaseRunClaims), then for claims that expired (gcExpiredSignals).      *)
ReadSignals(c, found, archiving, after) ==
    /\ removing' = [removing EXCEPT ![c] = found]
    /\ snapshot' = [snapshot EXCEPT ![c] = archive]
    /\ Go(c, IF found = {} THEN after ELSE archiving)
    /\ UNCHANGED <<files, asked, target, todo, copy, task, answer, deaths>>

ReadClaims(c) ==
    /\ pc[c] = "claims"
    /\ ReadSignals(c, live \cap {target[c]}, "archive_claims", AfterClaims(c))
    /\ UNCHANGED op

(* sync, called by itself or by a finish, takes those that expired long ago. *)
ReadExpired(c) ==
    \E found \in SUBSET live :
       \/ /\ pc[c] = "collect"
          /\ ReadSignals(c, found, "archive_expired", "write")
          /\ UNCHANGED op
       \/ /\ Begin(c, "sync")
          /\ ReadSignals(c, found, "archive_expired", "done")

WriteArchive(c) ==
    /\ pc[c] \in {"archive_claims", "archive_expired"}
    /\ archive' = snapshot[c] \cup removing[c]
    /\ Go(c, IF pc[c] = "archive_claims" THEN "unlink_claims" ELSE "unlink_expired")
    /\ UNCHANGED <<runs, lock, live, tasks, memory>>

UnlinkSignals(c) ==
    /\ pc[c] \in {"unlink_claims", "unlink_expired"}
    /\ live' = live \ removing[c]
    /\ Go(c, IF pc[c] = "unlink_claims" THEN AfterClaims(c) ELSE AfterExpired(c))
    /\ Forget(c)
    /\ UNCHANGED <<runs, lock, archive, tasks, op, asked, target, todo, copy, task, answer, deaths>>

(* The clean-up of signals never fails the call that does it.               *)
SwallowError(c) ==
    /\ \/ pc[c] \in {"claims", "archive_claims", "unlink_claims"} /\ Go(c, AfterClaims(c))
       \/ pc[c] \in {"collect", "archive_expired", "unlink_expired"} /\ Go(c, AfterExpired(c))
    /\ Forget(c)
    /\ UNCHANGED <<files, op, asked, target, todo, copy, task, answer, deaths>>

-----------------------------------------------------------------------------
(* createHandoffTask                                                        *)

Same(t, c) == tasks[t].run = target[c] /\ tasks[t].note = asked[c].note

AfterLook(t) == IF tasks[t].assigned THEN "link" ELSE "assign"

LookForTask_Never(c) == \* mutant
    /\ pc[c] = "look"
    /\ Go(c, "make")
    /\ UNCHANGED <<files, memory>>

(* createTask returns the task with the key of the run and the same title.  *)
LookForTask(c) ==
    /\ pc[c] = "look"
    /\ \/ \E t \in Created : /\ Same(t, c)
                             /\ task' = [task EXCEPT ![c] = t]
                             /\ Go(c, AfterLook(t))
       \/ /\ \A t \in Created : ~Same(t, c)
          /\ Go(c, "make")
          /\ UNCHANGED task
    /\ UNCHANGED <<files, op, asked, target, todo, copy, snapshot, removing, answer, deaths>>

MakeTask(c) ==
    /\ pc[c] = "make"
    /\ tasks' = [tasks EXCEPT ![c] = [run |-> target[c], note |-> asked[c].note, assigned |-> FALSE,
                                      linked |-> FALSE, ended |-> FALSE]]
    /\ task' = [task EXCEPT ![c] = c]
    /\ Go(c, "assign")
    /\ UNCHANGED <<runs, lock, live, archive, op, asked, target, todo, copy, snapshot, removing,
                   answer, deaths>>

(* A task that was dropped or done meanwhile cannot be assigned, and fails   *)
(* the finish.                                                              *)
AssignTask(c) ==
    /\ pc[c] = "assign"
    /\ \/ /\ tasks[task[c]].ended
          /\ Refused(c, "refused")
          /\ UNCHANGED tasks
       \/ /\ ~tasks[task[c]].ended
          /\ tasks' = [tasks EXCEPT ![task[c]].assigned = TRUE]
          /\ Go(c, "link")
          /\ UNCHANGED answer
    /\ UNCHANGED <<runs, lock, live, archive, op, asked, target, todo, copy, snapshot, removing,
                   task, deaths>>

LinkTask(c) ==
    /\ pc[c] = "link"
    /\ tasks' = [tasks EXCEPT ![task[c]].linked = TRUE]
    /\ Go(c, AfterHandoff(c))
    /\ UNCHANGED <<runs, lock, live, archive, memory>>

-----------------------------------------------------------------------------

(* What a mutation writes: the journal as it read it, with its change.      *)
Mutated(c) ==
    IF op[c] = "log"
    THEN [copy[c] EXCEPT !.steps = @ \cup {c}, !.untouched = FALSE]
    ELSE [copy[c] EXCEPT !.status = IF op[c] = "sweep" THEN "failed" ELSE asked[c].as,
                         !.ender = c, !.untouched = FALSE]

WriteRun(c) ==
    /\ pc[c] = "write"
    /\ runs' = [runs EXCEPT ![target[c]] = Mutated(c)]
    /\ answer' = [answer EXCEPT ![c] = IF op[c] = "sweep" THEN "none" ELSE "ok"]
    /\ Go(c, "unlock")
    /\ UNCHANGED <<lock, live, archive, tasks, op, asked, target, todo, copy, snapshot, removing,
                   task, deaths>>

-----------------------------------------------------------------------------
(* The world                                                                *)

Die(c) ==
    /\ deaths < MaxDeaths
    /\ pc[c] \notin {"idle", "done", "dead"}
    /\ Go(c, "dead")
    /\ deaths' = deaths + 1
    /\ UNCHANGED <<files, op, asked, target, todo, copy, snapshot, removing, task, answer>>

AgeLock(r) ==
    /\ lock[r] # None
    /\ ~lock[r].old
    /\ lock' = [lock EXCEPT ![r].old = TRUE]
    /\ UNCHANGED <<runs, live, archive, tasks, pc, memory>>

AgeRun(r) ==
    /\ r \in Started
    /\ runs[r].status = "in_progress"
    /\ ~runs[r].untouched
    /\ runs' = [runs EXCEPT ![r].untouched = TRUE]
    /\ UNCHANGED <<lock, live, archive, tasks, pc, memory>>

(* The recipient or whoever finds it unowned completes or drops a task.     *)
EndTask(t) ==
    /\ t \in Created
    /\ ~tasks[t].ended
    /\ tasks' = [tasks EXCEPT ![t].ended = TRUE]
    /\ UNCHANGED <<runs, lock, live, archive, pc, memory>>

-----------------------------------------------------------------------------

Start(c) == ReadForStart(c) \/ WriteNewRun(c) \/ ClaimPath(c)

Mutate(c) ==
    \/ Select(c) \/ ListOrphans(c) \/ NextOrphan(c)
    \/ Acquire(c) \/ StatLock(c) \/ TimeOut(c) \/ Unlock(c)
    \/ ReadForLog(c) \/ ReadForFinish(c) \/ ReadForSweep(c)
    \/ ReadClaims(c) \/ ReadExpired(c) \/ WriteArchive(c) \/ UnlinkSignals(c) \/ SwallowError(c)
    \/ LookForTask(c) \/ MakeTask(c) \/ AssignTask(c) \/ LinkTask(c)
    \/ WriteRun(c)

Around ==
    \/ \E r \in Call : AgeRun(r)
    \/ \E t \in Call : EndTask(t)
    \/ \E c \in Call : Die(c)

Next ==
    \/ \E c \in Call : Start(c) \/ Mutate(c) \/ Reap(c)
    \/ Around
    \/ \E r \in Call : AgeLock(r)

Spec == Init /\ [][Next]_vars

(* No call holds a lock for five minutes, and no lock file is replaced       *)
(* between the look at its age and its removal.                             *)
ReapPromptly(c) ==
    /\ pc[c] = "reap"
    /\ lock[target[c]] # None => lock[target[c]].old
    /\ Reap(c)
AgeDeadLock(r) == lock[r] # None /\ pc[lock[r].holder] = "dead" /\ AgeLock(r)

PromptNext ==
    \/ \E c \in Call : Start(c) \/ Mutate(c) \/ ReapPromptly(c)
    \/ Around
    \/ \E r \in Call : AgeDeadLock(r)

PromptSpec == Init /\ [][PromptNext]_vars

-----------------------------------------------------------------------------

TypeOK ==
    /\ runs \in [Call -> RunJournal \cup {None}]
    /\ lock \in [Call -> Lock \cup {None}]
    /\ live \subseteq Call /\ archive \subseteq Call
    /\ tasks \in [Call -> Handoff \cup {None}]
    /\ op \in [Call -> Operations]
    /\ asked \in [Call -> Request \cup {None}]
    /\ pc \in [Call -> Locations]
    /\ target \in [Call -> Call \cup {None}]
    /\ todo \in [Call -> SUBSET Call]
    /\ copy \in [Call -> RunJournal \cup {None}]
    /\ snapshot \in [Call -> SUBSET Call] /\ removing \in [Call -> SUBSET Call]
    /\ task \in [Call -> Call \cup {None}]
    /\ answer \in [Call -> Answers]
    /\ deaths \in Nat

(* While locks are held briefly, a journal only grows: nothing a run has     *)
(* logged is written over by a call that read it earlier (mutateRun), and a *)
(* run that ended keeps its end (transitionRun).                            *)
JournalsOnlyGrow ==
    [][\A r \in Call : runs[r] # None =>
         /\ runs'[r] # None
         /\ runs[r].steps \subseteq runs'[r].steps
         /\ runs[r].status \in Terminal =>
              runs'[r].status = runs[r].status /\ runs'[r].ender = runs[r].ender]_vars

(* While locks are held briefly, what a call was answered is so: a step that *)
(* was logged is in its journal, and a run that was finished was finished by *)
(* that call and no other, whoever swept or finished it at the same time.   *)
AnswersAreTrue ==
    /\ \A c \in Call : op[c] = "log" /\ answer[c] = "ok" => c \in runs[target[c]].steps
    /\ \A c \in Call : op[c] = "finish" /\ answer[c] = "ok" =>
         runs[target[c]].ender = c /\ runs[target[c]].status = asked[c].as

(* While locks are held briefly, a run is handed off once under one note,    *)
(* though a finish dies between creating the task and writing the run and   *)
(* is made again, and a finish that was answered has handed off.            *)
HandedOffOnce ==
    /\ \A t, u \in Created : tasks[t].run = tasks[u].run /\ tasks[t].note = tasks[u].note => t = u
    /\ \A c \in Call : HandsOff(c) /\ answer[c] = "ok" =>
         \E t \in Created : Same(t, c) /\ tasks[t].assigned /\ tasks[t].linked

(* A sweep ends only runs that nobody has touched (sweepOrphanedRuns).       *)
SweepsTheAbandoned ==
    [][\A r \in Started : runs'[r].status # runs[r].status /\ op[runs'[r].ender] = "sweep" =>
         runs[r].untouched]_vars

(* A claim leaves the signals only for the archive                          *)
(* (archiveAndRemoveSignals).                                               *)
ClaimsAreArchived == [][live \ live' \subseteq archive']_vars

=============================================================================
