---------------------------- MODULE ViewRunsProofs ----------------------------
(***************************************************************************)
(* What is proved of ViewRuns, for any calls, agents, notes and deaths, as  *)
(* long as no lock is held for five minutes (PromptSpec): journals only     *)
(* grow, answers are true, and a run is handed off once under one note.     *)
(***************************************************************************)
EXTENDS ViewRuns, TLAPS

(***************************************************************************)
(* What a call may be doing where it stands.  A run is named by the start    *)
(* that has written it, a task by the finish that has created it.           *)
(***************************************************************************)
PlaceOK(c) ==
    /\ pc[c] = "idle" <=> op[c] = "none"
    /\ pc[c] \in {"write_run", "claim"} => op[c] = "start"
    /\ pc[c] = "next" => op[c] = "sweep"
    /\ pc[c] \in {"lock", "reap", "read", "write", "unlock"} => op[c] \in {"log", "finish", "sweep"}
    /\ pc[c] \in {"claims", "archive_claims", "unlink_claims"} => op[c] \in {"finish", "sweep"}
    /\ pc[c] \in {"look", "make", "assign", "link"} => HandsOff(c)
    /\ pc[c] = "collect" => op[c] = "finish"
    /\ pc[c] \in {"archive_expired", "unlink_expired"} => op[c] \in {"finish", "sync"}
    /\ op[c] = "finish" => asked[c] \in Request
    /\ op[c] = "none" => answer[c] = "none"
    /\ op[c] \in {"log", "finish"} /\ answer[c] # "none" => pc[c] \in {"unlock", "done", "dead"}

Released == {"idle", "write_run", "claim", "next", "lock", "reap", "done", "dead"}
Holding(c) == pc[c] \notin Released /\ op[c] # "sync"

Targeting(c) == op[c] \in {"log", "finish"} \/ Holding(c) \/ pc[c] \in {"lock", "reap"}

NameInv ==
    /\ \A c \in Call : Targeting(c) => target[c] \in Started
    /\ \A c \in Call : todo[c] \subseteq Started
    /\ \A r \in Started : op[r] = "start" /\ pc[r] # "write_run"
    /\ \A t \in Created : op[t] = "finish" /\ pc[t] \in
         {"assign", "link", "collect", "archive_expired", "unlink_expired", "write", "unlock",
          "done", "dead"}

(* Whoever works on a run has its lock, and only locks of the dead are old. *)
LockInv ==
    /\ \A c \in Call : Holding(c) => lock[target[c]] = [holder |-> c, old |-> FALSE]
    /\ \A r \in Call : lock[r] # None /\ lock[r].old => pc[lock[r].holder] = "dead"

(* What a call has read of a journal is what the journal says, but for the   *)
(* mark of its age, until the call writes; and a call that is about to end   *)
(* a run has found it in progress.                                          *)
Agree(j, k) == j.agent = k.agent /\ j.status = k.status /\ j.steps = k.steps /\ j.ender = k.ender

CopyInv ==
    \A c \in Call : Holding(c) /\ pc[c] \notin {"read", "unlock"} =>
        /\ copy[c] # None
        /\ Agree(copy[c], runs[target[c]])
        /\ op[c] # "log" => copy[c].status = "in_progress"

(* How far the handoff task of a finish has come.                           *)
HasTask(c) ==
    \/ pc[c] \in {"assign", "link"}
    \/ HandsOff(c) /\ pc[c] \in {"collect", "archive_expired", "unlink_expired", "write"}

TaskInv ==
    /\ \A c \in Call : HasTask(c) =>
         /\ task[c] \in Created
         /\ Same(task[c], c)
         /\ pc[c] # "assign" => tasks[task[c]].assigned
         /\ pc[c] \notin {"assign", "link"} => tasks[task[c]].linked
    /\ \A c \in Call : pc[c] = "make" => \A t \in Created : ~Same(t, c)

IInv == /\ TypeOK /\ \A c \in Call : PlaceOK(c)
        /\ NameInv /\ LockInv /\ CopyInv /\ TaskInv
        /\ AnswersAreTrue /\ HandedOffOnce

-----------------------------------------------------------------------------
(* What a mutation writes is a journal.                                     *)
LEMMA MutatedType ==
    ASSUME TypeOK, NEW c \in Call, PlaceOK(c), CopyInv, pc[c] = "write"
    PROVE  Mutated(c) \in RunJournal
<1>1. copy[c] \in RunJournal /\ op[c] \in {"log", "finish", "sweep"}
  BY DEF CopyInv, PlaceOK, Holding, Released, TypeOK
<1>2. op[c] = "finish" => asked[c].as \in Terminal
  BY ViewRunsAssumption DEF PlaceOK
<1> QED BY <1>1, <1>2 DEF Mutated, RunJournal, Terminal

LEMMA NewTaskType ==
    ASSUME TypeOK, NEW c \in Call, PlaceOK(c), NameInv, pc[c] = "make"
    PROVE  [run |-> target[c], note |-> asked[c].note, assigned |-> FALSE, linked |-> FALSE,
            ended |-> FALSE] \in Handoff
BY ViewRunsAssumption DEF TypeOK, NameInv, Targeting, PlaceOK, HandsOff, Started, Handoff

(* Types.                                                                   *)
LEMMA TypeStep ==
  TypeOK /\ (\A c \in Call : PlaceOK(c)) /\ NameInv /\ CopyInv /\ TaskInv /\ [PromptNext]_vars => TypeOK'
<1> SUFFICES ASSUME TypeOK, \A c \in Call : PlaceOK(c), NameInv, CopyInv, TaskInv, [PromptNext]_vars
             PROVE  TypeOK'
  OBVIOUS
<1> USE ViewRunsAssumption DEF TypeOK, Locations, Operations, Answers, Go, files, memory
<1>1. ASSUME NEW c \in Call, ReadForStart(c) PROVE TypeOK'
  BY <1>1 DEF ReadForStart, Begin, End
<1>2. ASSUME NEW c \in Call, WriteNewRun(c) PROVE TypeOK'
  <2>1. [agent |-> AgentOf[c], status |-> "in_progress", steps |-> {}, untouched |-> FALSE,
         ender |-> None] \in RunJournal
    BY DEF RunJournal
  <2> QED BY <1>2, <2>1 DEF WriteNewRun
<1>3. ASSUME NEW c \in Call, ClaimPath(c) PROVE TypeOK'
  BY <1>3 DEF ClaimPath, End
<1>4. ASSUME NEW c \in Call, Select(c) PROVE TypeOK'
  BY <1>4 DEF Select, Begin, Started
<1>5. ASSUME NEW c \in Call, ListOrphans(c) PROVE TypeOK'
  BY <1>5 DEF ListOrphans, Begin, Started
<1>6. ASSUME NEW c \in Call, NextOrphan(c) PROVE TypeOK'
  <2>1. ASSUME NEW r \in todo[c], target' = [target EXCEPT ![c] = r], todo' = [todo EXCEPT ![c] = @ \ {r}],
               Go(c, "lock"), UNCHANGED answer
        PROVE  TypeOK'
    <3>1. target' \in [Call -> Call \cup {None}] /\ todo' \in [Call -> SUBSET Call]
      BY <2>1
    <3> QED BY <1>6, <2>1, <3>1 DEF NextOrphan
  <2>2. ASSUME End(c, "ok"), UNCHANGED <<target, todo>> PROVE TypeOK'
    BY <1>6, <2>2 DEF NextOrphan, End
  <2> QED BY <1>6, <2>1, <2>2 DEF NextOrphan
<1>7. ASSUME NEW c \in Call, Acquire(c) PROVE TypeOK'
  BY <1>7 DEF Acquire, Lock
<1>8. ASSUME NEW c \in Call, StatLock(c) PROVE TypeOK'
  BY <1>8 DEF StatLock
<1>9. ASSUME NEW c \in Call, TimeOut(c) PROVE TypeOK'
  BY <1>9 DEF TimeOut, End
<1>10. ASSUME NEW c \in Call, Unlock(c) PROVE TypeOK'
  BY <1>10 DEF Unlock
<1>11. ASSUME NEW c \in Call, ReadForLog(c) PROVE TypeOK'
  <2>1. runs[target[c]] \in RunJournal
    BY <1>11 DEF ReadForLog, NameInv, Targeting, Started
  <2> QED BY <1>11, <2>1 DEF ReadForLog
<1>12. ASSUME NEW c \in Call, ReadForFinish(c) PROVE TypeOK'
  <2>1. runs[target[c]] \in RunJournal
    BY <1>12 DEF ReadForFinish, NameInv, Targeting, Started
  <2> QED BY <1>12, <2>1 DEF ReadForFinish, Refused
<1>13. ASSUME NEW c \in Call, ReadForSweep(c) PROVE TypeOK'
  <2>1. runs[target[c]] \in RunJournal
    BY <1>13 DEF ReadForSweep, NameInv, Targeting, Holding, Released, Started
  <2> QED BY <1>13, <2>1 DEF ReadForSweep, Refused
<1>14. \A c \in Call : AfterClaims(c) \in Locations /\ AfterExpired(c) \in Locations /\ AfterHandoff(c) \in Locations
  BY DEF AfterClaims, AfterHandoff, AfterExpired
<1>15. ASSUME NEW c \in Call, ReadClaims(c) PROVE TypeOK'
  BY <1>14, <1>15 DEF ReadClaims, ReadSignals
<1>16. ASSUME NEW c \in Call, ReadExpired(c) PROVE TypeOK'
  <2>1. PICK found \in SUBSET live :
          /\ \E l \in {"write", "done"} : ReadSignals(c, found, "archive_expired", l)
          /\ UNCHANGED op \/ Begin(c, "sync")
    BY <1>16 DEF ReadExpired
  <2>2. op' \in [Call -> Operations]
    BY <2>1 DEF Begin
  <2>3. removing' \in [Call -> SUBSET Call] /\ snapshot' \in [Call -> SUBSET Call]
    BY <2>1 DEF ReadSignals
  <2> QED BY <2>1, <2>2, <2>3 DEF ReadSignals
<1>17. ASSUME NEW c \in Call, WriteArchive(c) PROVE TypeOK'
  BY <1>17 DEF WriteArchive
<1>18. ASSUME NEW c \in Call, UnlinkSignals(c) PROVE TypeOK'
  BY <1>14, <1>18 DEF UnlinkSignals, Forget
<1>19. ASSUME NEW c \in Call, SwallowError(c) PROVE TypeOK'
  BY <1>14, <1>19 DEF SwallowError, Forget
<1>20. ASSUME NEW c \in Call, LookForTask(c) PROVE TypeOK'
  BY <1>20 DEF LookForTask, Created, AfterLook
<1>21. ASSUME NEW c \in Call, MakeTask(c) PROVE TypeOK'
  BY NewTaskType, <1>21 DEF MakeTask
<1>22. ASSUME NEW c \in Call, AssignTask(c) PROVE TypeOK'
  <2>1. PICK t \in Call : t = task[c] /\ tasks[t] \in Handoff
    BY <1>22 DEF AssignTask, TaskInv, HasTask, Created
  <2>2. [tasks[t] EXCEPT !.assigned = TRUE] \in Handoff
    BY <2>1 DEF Handoff
  <2>3. tasks' = tasks \/ tasks' = [tasks EXCEPT ![t].assigned = TRUE]
    BY <1>22, <2>1 DEF AssignTask
  <2>4. tasks' \in [Call -> Handoff \cup {None}]
    BY <2>2, <2>3
  <2>5. /\ \/ pc' = [pc EXCEPT ![c] = "unlock"] /\ answer' = [answer EXCEPT ![c] = "refused"]
           \/ pc' = [pc EXCEPT ![c] = "link"] /\ answer' = answer
        /\ UNCHANGED <<runs, lock, live, archive, op, asked, target, todo, copy, snapshot, removing,
                       task, deaths>>
    BY <1>22 DEF AssignTask, Refused
  <2> QED BY <2>4, <2>5
<1>23. ASSUME NEW c \in Call, LinkTask(c) PROVE TypeOK'
  <2>1. tasks[task[c]] \in Handoff /\ task[c] \in Call
    BY <1>23 DEF LinkTask, TaskInv, HasTask, Created
  <2> QED BY <1>14, <1>23, <2>1 DEF LinkTask, Handoff
<1>24. ASSUME NEW c \in Call, WriteRun(c) PROVE TypeOK'
  <2> QED BY MutatedType, <1>24 DEF WriteRun
<1>25. ASSUME NEW c \in Call, Die(c) PROVE TypeOK'
  BY <1>25 DEF Die
<1>26. ASSUME NEW c \in Call, ReapPromptly(c) PROVE TypeOK'
  BY <1>26 DEF ReapPromptly, Reap
<1>27. ASSUME NEW r \in Call, AgeDeadLock(r) PROVE TypeOK'
  <2>1. lock[r] \in Lock /\ lock' = [lock EXCEPT ![r].old = TRUE]
    BY <1>27 DEF AgeDeadLock, AgeLock
  <2>2. [lock[r] EXCEPT !.old = TRUE] \in Lock
    BY <2>1 DEF Lock
  <2>3. lock' \in [Call -> Lock \cup {None}]
    BY <2>1, <2>2
  <2> QED BY <1>27, <2>3 DEF AgeDeadLock, AgeLock
<1>28. ASSUME NEW r \in Call, AgeRun(r) PROVE TypeOK'
  <2>1. runs[r] \in RunJournal /\ runs' = [runs EXCEPT ![r].untouched = TRUE]
    BY <1>28 DEF AgeRun, Started
  <2>2. [runs[r] EXCEPT !.untouched = TRUE] \in RunJournal
    BY <2>1 DEF RunJournal
  <2>3. runs' \in [Call -> RunJournal \cup {None}]
    BY <2>1, <2>2
  <2> QED BY <1>28, <2>3 DEF AgeRun
<1>29. ASSUME NEW t \in Call, EndTask(t) PROVE TypeOK'
  <2>1. tasks[t] \in Handoff /\ tasks' = [tasks EXCEPT ![t].ended = TRUE]
    BY <1>29 DEF EndTask, Created
  <2>2. [tasks[t] EXCEPT !.ended = TRUE] \in Handoff
    BY <2>1 DEF Handoff
  <2>3. tasks' \in [Call -> Handoff \cup {None}]
    BY <2>1, <2>2
  <2> QED BY <1>29, <2>3 DEF EndTask
<1>30. CASE UNCHANGED vars
  BY <1>30 DEF vars
<1> QED
  BY <1>1, <1>2, <1>3, <1>4, <1>5, <1>6, <1>7, <1>8, <1>9, <1>10, <1>11, <1>12, <1>13, <1>15, <1>16,
     <1>17, <1>18, <1>19, <1>20, <1>21, <1>22, <1>23, <1>24, <1>25, <1>26, <1>27, <1>28, <1>29, <1>30
  DEF PromptNext, Start, Mutate, Around

(* Places.                                                                  *)
LEMMA PlaceStep ==
    TypeOK /\ (\A c \in Call : PlaceOK(c)) /\ [PromptNext]_vars => \A c \in Call : PlaceOK(c)'
<1> SUFFICES ASSUME TypeOK, \A c \in Call : PlaceOK(c), [PromptNext]_vars, NEW d \in Call
             PROVE  PlaceOK(d)'
  OBVIOUS
<1> USE DEF TypeOK, Go, files, memory, PlaceOK, HandsOff
<1>1. ASSUME NEW c \in Call, ReadForStart(c) PROVE PlaceOK(d)'
  BY <1>1 DEF ReadForStart, Begin, End
<1>2. ASSUME NEW c \in Call, WriteNewRun(c) PROVE PlaceOK(d)'
  BY <1>2 DEF WriteNewRun
<1>3. ASSUME NEW c \in Call, ClaimPath(c) PROVE PlaceOK(d)'
  BY <1>3 DEF ClaimPath, End
<1>4. ASSUME NEW c \in Call, Select(c) PROVE PlaceOK(d)'
  BY <1>4 DEF Select, Begin
<1>5. ASSUME NEW c \in Call, ListOrphans(c) PROVE PlaceOK(d)'
  BY <1>5 DEF ListOrphans, Begin
<1>6. ASSUME NEW c \in Call, NextOrphan(c) PROVE PlaceOK(d)'
  BY <1>6 DEF NextOrphan, End
<1>7. ASSUME NEW c \in Call, Acquire(c) PROVE PlaceOK(d)'
  BY <1>7 DEF Acquire
<1>8. ASSUME NEW c \in Call, StatLock(c) PROVE PlaceOK(d)'
  BY <1>8 DEF StatLock
<1>9. ASSUME NEW c \in Call, TimeOut(c) PROVE PlaceOK(d)'
  BY <1>9 DEF TimeOut, End
<1>10. ASSUME NEW c \in Call, Unlock(c) PROVE PlaceOK(d)'
  BY <1>10 DEF Unlock
<1>11. ASSUME NEW c \in Call, ReadForLog(c) PROVE PlaceOK(d)'
  BY <1>11 DEF ReadForLog
<1>12. ASSUME NEW c \in Call, ReadForFinish(c) PROVE PlaceOK(d)'
  BY <1>12 DEF ReadForFinish, Refused
<1>13. ASSUME NEW c \in Call, ReadForSweep(c) PROVE PlaceOK(d)'
  BY <1>13 DEF ReadForSweep, Refused
<1>14. ASSUME NEW c \in Call, ReadClaims(c) PROVE PlaceOK(d)'
  BY <1>14 DEF ReadClaims, ReadSignals, AfterClaims, AfterHandoff
<1>15. ASSUME NEW c \in Call, ReadExpired(c) PROVE PlaceOK(d)'
  BY <1>15 DEF ReadExpired, ReadSignals, Begin
<1>16. ASSUME NEW c \in Call, WriteArchive(c) PROVE PlaceOK(d)'
  BY <1>16 DEF WriteArchive
<1>17. ASSUME NEW c \in Call, UnlinkSignals(c) PROVE PlaceOK(d)'
  BY <1>17 DEF UnlinkSignals, Forget, AfterClaims, AfterHandoff, AfterExpired
<1>18. ASSUME NEW c \in Call, SwallowError(c) PROVE PlaceOK(d)'
  BY <1>18 DEF SwallowError, Forget, AfterClaims, AfterHandoff, AfterExpired
<1>19. ASSUME NEW c \in Call, LookForTask(c) PROVE PlaceOK(d)'
  BY <1>19 DEF LookForTask, AfterLook
<1>20. ASSUME NEW c \in Call, MakeTask(c) PROVE PlaceOK(d)'
  BY <1>20 DEF MakeTask
<1>21. ASSUME NEW c \in Call, AssignTask(c) PROVE PlaceOK(d)'
  BY <1>21 DEF AssignTask, Refused
<1>22. ASSUME NEW c \in Call, LinkTask(c) PROVE PlaceOK(d)'
  BY <1>22 DEF LinkTask, AfterHandoff
<1>23. ASSUME NEW c \in Call, WriteRun(c) PROVE PlaceOK(d)'
  BY <1>23 DEF WriteRun
<1>24. ASSUME NEW c \in Call, Die(c) PROVE PlaceOK(d)'
  BY <1>24 DEF Die
<1>25. ASSUME NEW c \in Call, ReapPromptly(c) PROVE PlaceOK(d)'
  BY <1>25 DEF ReapPromptly, Reap
<1>26. ASSUME NEW r \in Call, AgeDeadLock(r) PROVE PlaceOK(d)'
  BY <1>26 DEF AgeDeadLock, AgeLock
<1>27. ASSUME NEW r \in Call, AgeRun(r) PROVE PlaceOK(d)'
  BY <1>27 DEF AgeRun
<1>28. ASSUME NEW t \in Call, EndTask(t) PROVE PlaceOK(d)'
  BY <1>28 DEF EndTask
<1>29. CASE UNCHANGED vars
  BY <1>29 DEF vars
<1> QED
  BY <1>1, <1>2, <1>3, <1>4, <1>5, <1>6, <1>7, <1>8, <1>9, <1>10, <1>11, <1>12, <1>13, <1>14, <1>15,
     <1>16, <1>17, <1>18, <1>19, <1>20, <1>21, <1>22, <1>23, <1>24, <1>25, <1>26, <1>27, <1>28, <1>29
  DEF PromptNext, Start, Mutate, Around

-----------------------------------------------------------------------------
(* A run once written stays a journal.                                      *)
LEMMA StartedStays ==
    TypeOK /\ (\A c \in Call : PlaceOK(c)) /\ NameInv /\ CopyInv /\ [PromptNext]_vars
        => Started \subseteq Started'
<1> SUFFICES ASSUME TypeOK, \A c \in Call : PlaceOK(c), NameInv, CopyInv, [PromptNext]_vars
             PROVE  Started \subseteq Started'
  OBVIOUS
<1> USE ViewRunsAssumption DEF files, Started
<1>1. ASSUME NEW c \in Call, ReadForStart(c) PROVE Started \subseteq Started'
  BY <1>1 DEF ReadForStart, Begin, End
<1>2. ASSUME NEW c \in Call, WriteNewRun(c) PROVE Started \subseteq Started'
  <2>1. [agent |-> AgentOf[c], status |-> "in_progress", steps |-> {}, untouched |-> FALSE,
         ender |-> None] \in RunJournal
    BY DEF RunJournal
  <2> QED BY <1>2, <2>1 DEF WriteNewRun, TypeOK
<1>3. ASSUME NEW c \in Call, ClaimPath(c) PROVE Started \subseteq Started'
  BY <1>3 DEF ClaimPath, End
<1>4. ASSUME NEW c \in Call, Select(c) PROVE Started \subseteq Started'
  BY <1>4 DEF Select, Begin
<1>5. ASSUME NEW c \in Call, ListOrphans(c) PROVE Started \subseteq Started'
  BY <1>5 DEF ListOrphans, Begin
<1>6. ASSUME NEW c \in Call, NextOrphan(c) PROVE Started \subseteq Started'
  BY <1>6 DEF NextOrphan, End
<1>7. ASSUME NEW c \in Call, Acquire(c) PROVE Started \subseteq Started'
  BY <1>7 DEF Acquire
<1>8. ASSUME NEW c \in Call, StatLock(c) PROVE Started \subseteq Started'
  BY <1>8 DEF StatLock
<1>9. ASSUME NEW c \in Call, TimeOut(c) PROVE Started \subseteq Started'
  BY <1>9 DEF TimeOut, End
<1>10. ASSUME NEW c \in Call, Unlock(c) PROVE Started \subseteq Started'
  BY <1>10 DEF Unlock
<1>11. ASSUME NEW c \in Call, ReadForLog(c) PROVE Started \subseteq Started'
  BY <1>11 DEF ReadForLog
<1>12. ASSUME NEW c \in Call, ReadForFinish(c) PROVE Started \subseteq Started'
  BY <1>12 DEF ReadForFinish, Refused
<1>13. ASSUME NEW c \in Call, ReadForSweep(c) PROVE Started \subseteq Started'
  BY <1>13 DEF ReadForSweep, Refused
<1>14. ASSUME NEW c \in Call, ReadClaims(c) PROVE Started \subseteq Started'
  BY <1>14 DEF ReadClaims, ReadSignals, AfterClaims, AfterHandoff
<1>15. ASSUME NEW c \in Call, ReadExpired(c) PROVE Started \subseteq Started'
  BY <1>15 DEF ReadExpired, ReadSignals, Begin
<1>16. ASSUME NEW c \in Call, WriteArchive(c) PROVE Started \subseteq Started'
  BY <1>16 DEF WriteArchive
<1>17. ASSUME NEW c \in Call, UnlinkSignals(c) PROVE Started \subseteq Started'
  BY <1>17 DEF UnlinkSignals, Forget, AfterClaims, AfterHandoff, AfterExpired
<1>18. ASSUME NEW c \in Call, SwallowError(c) PROVE Started \subseteq Started'
  BY <1>18 DEF SwallowError, Forget, AfterClaims, AfterHandoff, AfterExpired
<1>19. ASSUME NEW c \in Call, LookForTask(c) PROVE Started \subseteq Started'
  BY <1>19 DEF LookForTask, AfterLook
<1>20. ASSUME NEW c \in Call, MakeTask(c) PROVE Started \subseteq Started'
  BY <1>20 DEF MakeTask
<1>21. ASSUME NEW c \in Call, AssignTask(c) PROVE Started \subseteq Started'
  BY <1>21 DEF AssignTask, Refused
<1>22. ASSUME NEW c \in Call, LinkTask(c) PROVE Started \subseteq Started'
  BY <1>22 DEF LinkTask, AfterHandoff
<1>23. ASSUME NEW c \in Call, WriteRun(c) PROVE Started \subseteq Started'
  <2>1. Mutated(c) \in RunJournal
    BY <1>23, MutatedType DEF WriteRun
  <2> QED BY <1>23, <2>1 DEF WriteRun, TypeOK
<1>24. ASSUME NEW c \in Call, Die(c) PROVE Started \subseteq Started'
  BY <1>24 DEF Die
<1>25. ASSUME NEW c \in Call, ReapPromptly(c) PROVE Started \subseteq Started'
  BY <1>25 DEF ReapPromptly, Reap
<1>26. ASSUME NEW r \in Call, AgeDeadLock(r) PROVE Started \subseteq Started'
  BY <1>26 DEF AgeDeadLock, AgeLock
<1>27. ASSUME NEW r \in Call, AgeRun(r) PROVE Started \subseteq Started'
  <2>1. runs[r] \in RunJournal
    BY <1>27 DEF AgeRun, TypeOK
  <2>2. [runs[r] EXCEPT !.untouched = TRUE] \in RunJournal
    BY <2>1 DEF RunJournal
  <2> QED BY <1>27, <2>2 DEF AgeRun, TypeOK
<1>28. ASSUME NEW t \in Call, EndTask(t) PROVE Started \subseteq Started'
  BY <1>28 DEF EndTask
<1>29. CASE UNCHANGED vars
  BY <1>29 DEF vars
<1> QED
  BY <1>1, <1>2, <1>3, <1>4, <1>5, <1>6, <1>7, <1>8, <1>9, <1>10, <1>11, <1>12, <1>13, <1>14, <1>15,
     <1>16, <1>17, <1>18, <1>19, <1>20, <1>21, <1>22, <1>23, <1>24, <1>25, <1>26, <1>27, <1>28, <1>29
  DEF PromptNext, Start, Mutate, Around

(* Who works on a run works on one that has been written.                    *)
LEMMA TargetStep ==
    TypeOK /\ (\A c \in Call : PlaceOK(c)) /\ NameInv /\ CopyInv /\ [PromptNext]_vars
        => \A d \in Call : (Targeting(d)' => target'[d] \in Started') /\ todo'[d] \subseteq Started'
<1> SUFFICES ASSUME TypeOK, \A c \in Call : PlaceOK(c), NameInv, CopyInv, [PromptNext]_vars,
                    NEW d \in Call
             PROVE  (Targeting(d)' => target'[d] \in Started') /\ todo'[d] \subseteq Started'
  OBVIOUS
<1> DEFINE Fine == (Targeting(d)' => target'[d] \in Started') /\ todo'[d] \subseteq Started'
<1> USE DEF TypeOK, Go, files, memory, Targeting, Holding, Released
<1>0. /\ Targeting(d) => target[d] \in Started
      /\ todo[d] \subseteq Started
      /\ Started \subseteq Started'
      /\ PlaceOK(d)
  BY StartedStays DEF NameInv
<1> USE <1>0
<1>1. ASSUME NEW c \in Call, ReadForStart(c) PROVE Fine
  BY <1>1 DEF ReadForStart, Begin, End, PlaceOK
<1>2. ASSUME NEW c \in Call, WriteNewRun(c) PROVE Fine
  BY <1>2 DEF WriteNewRun, PlaceOK
<1>3. ASSUME NEW c \in Call, ClaimPath(c) PROVE Fine
  BY <1>3 DEF ClaimPath, End, PlaceOK
<1>4. ASSUME NEW c \in Call, Select(c) PROVE Fine
  BY <1>4 DEF Select, Begin, PlaceOK
<1>5. ASSUME NEW c \in Call, ListOrphans(c) PROVE Fine
  BY <1>5 DEF ListOrphans, Begin, PlaceOK
<1>6. ASSUME NEW c \in Call, NextOrphan(c) PROVE Fine
  BY <1>6 DEF NextOrphan, End, PlaceOK
<1>7. ASSUME NEW c \in Call, Acquire(c) PROVE Fine
  BY <1>7 DEF Acquire, PlaceOK
<1>8. ASSUME NEW c \in Call, StatLock(c) PROVE Fine
  BY <1>8 DEF StatLock, PlaceOK
<1>9. ASSUME NEW c \in Call, TimeOut(c) PROVE Fine
  BY <1>9 DEF TimeOut, End, PlaceOK
<1>10. ASSUME NEW c \in Call, Unlock(c) PROVE Fine
  BY <1>10 DEF Unlock, PlaceOK
<1>11. ASSUME NEW c \in Call, ReadForLog(c) PROVE Fine
  BY <1>11 DEF ReadForLog, PlaceOK
<1>12. ASSUME NEW c \in Call, ReadForFinish(c) PROVE Fine
  BY <1>12 DEF ReadForFinish, Refused, PlaceOK
<1>13. ASSUME NEW c \in Call, ReadForSweep(c) PROVE Fine
  BY <1>13 DEF ReadForSweep, Refused, PlaceOK
<1>14. ASSUME NEW c \in Call, ReadClaims(c) PROVE Fine
  BY <1>14 DEF ReadClaims, ReadSignals, AfterClaims, AfterHandoff, PlaceOK
<1>15. ASSUME NEW c \in Call, ReadExpired(c) PROVE Fine
  BY <1>15 DEF ReadExpired, ReadSignals, Begin, PlaceOK
<1>16. ASSUME NEW c \in Call, WriteArchive(c) PROVE Fine
  BY <1>16 DEF WriteArchive, PlaceOK
<1>17. ASSUME NEW c \in Call, UnlinkSignals(c) PROVE Fine
  BY <1>17 DEF UnlinkSignals, Forget, AfterClaims, AfterHandoff, AfterExpired, PlaceOK
<1>18. ASSUME NEW c \in Call, SwallowError(c) PROVE Fine
  BY <1>18 DEF SwallowError, Forget, AfterClaims, AfterHandoff, AfterExpired, PlaceOK
<1>19. ASSUME NEW c \in Call, LookForTask(c) PROVE Fine
  BY <1>19 DEF LookForTask, AfterLook, PlaceOK
<1>20. ASSUME NEW c \in Call, MakeTask(c) PROVE Fine
  BY <1>20 DEF MakeTask, PlaceOK
<1>21. ASSUME NEW c \in Call, AssignTask(c) PROVE Fine
  BY <1>21 DEF AssignTask, Refused, PlaceOK
<1>22. ASSUME NEW c \in Call, LinkTask(c) PROVE Fine
  BY <1>22 DEF LinkTask, AfterHandoff, PlaceOK
<1>23. ASSUME NEW c \in Call, WriteRun(c) PROVE Fine
  BY <1>23 DEF WriteRun, PlaceOK
<1>24. ASSUME NEW c \in Call, Die(c) PROVE Fine
  BY <1>24 DEF Die, PlaceOK
<1>25. ASSUME NEW c \in Call, ReapPromptly(c) PROVE Fine
  BY <1>25 DEF ReapPromptly, Reap, PlaceOK
<1>26. ASSUME NEW r \in Call, AgeDeadLock(r) PROVE Fine
  BY <1>26 DEF AgeDeadLock, AgeLock, PlaceOK
<1>27. ASSUME NEW r \in Call, AgeRun(r) PROVE Fine
  BY <1>27 DEF AgeRun, PlaceOK
<1>28. ASSUME NEW t \in Call, EndTask(t) PROVE Fine
  BY <1>28 DEF EndTask, PlaceOK
<1>29. CASE UNCHANGED vars
  BY <1>29 DEF vars, PlaceOK
<1> QED
  BY <1>1, <1>2, <1>3, <1>4, <1>5, <1>6, <1>7, <1>8, <1>9, <1>10, <1>11, <1>12, <1>13, <1>14, <1>15,
     <1>16, <1>17, <1>18, <1>19, <1>20, <1>21, <1>22, <1>23, <1>24, <1>25, <1>26, <1>27, <1>28, <1>29
  DEF PromptNext, Start, Mutate, Around

(* How a journal may change in one step.                                    *)
RunMoves(r) ==
    \/ runs'[r] = runs[r]
    \/ WriteNewRun(r)
    \/ AgeRun(r)
    \/ \E c \in Call : WriteRun(c) /\ target[c] = r

LEMMA RunsMove ==
    TypeOK /\ (\A c \in Call : PlaceOK(c)) /\ NameInv /\ [PromptNext]_vars
        => \A r \in Call : RunMoves(r)
<1> SUFFICES ASSUME TypeOK, \A c \in Call : PlaceOK(c), NameInv, [PromptNext]_vars, NEW d \in Call
             PROVE  RunMoves(d)
  OBVIOUS
<1> USE DEF files
<1>1. ASSUME NEW c \in Call, ReadForStart(c) PROVE RunMoves(d)
  BY <1>1 DEF ReadForStart, Begin, End, RunMoves
<1>2. ASSUME NEW c \in Call, WriteNewRun(c) PROVE RunMoves(d)
  <2>1. c = d \/ runs'[d] = runs[d]
    BY <1>2 DEF WriteNewRun, TypeOK
  <2> QED BY <1>2, <2>1 DEF RunMoves
<1>3. ASSUME NEW c \in Call, ClaimPath(c) PROVE RunMoves(d)
  BY <1>3 DEF ClaimPath, End, RunMoves
<1>4. ASSUME NEW c \in Call, Select(c) PROVE RunMoves(d)
  BY <1>4 DEF Select, Begin, RunMoves
<1>5. ASSUME NEW c \in Call, ListOrphans(c) PROVE RunMoves(d)
  BY <1>5 DEF ListOrphans, Begin, RunMoves
<1>6. ASSUME NEW c \in Call, NextOrphan(c) PROVE RunMoves(d)
  BY <1>6 DEF NextOrphan, End, RunMoves
<1>7. ASSUME NEW c \in Call, Acquire(c) PROVE RunMoves(d)
  BY <1>7 DEF Acquire, RunMoves
<1>8. ASSUME NEW c \in Call, StatLock(c) PROVE RunMoves(d)
  BY <1>8 DEF StatLock, RunMoves
<1>9. ASSUME NEW c \in Call, TimeOut(c) PROVE RunMoves(d)
  BY <1>9 DEF TimeOut, End, RunMoves
<1>10. ASSUME NEW c \in Call, Unlock(c) PROVE RunMoves(d)
  BY <1>10 DEF Unlock, RunMoves
<1>11. ASSUME NEW c \in Call, ReadForLog(c) PROVE RunMoves(d)
  BY <1>11 DEF ReadForLog, RunMoves
<1>12. ASSUME NEW c \in Call, ReadForFinish(c) PROVE RunMoves(d)
  BY <1>12 DEF ReadForFinish, Refused, RunMoves
<1>13. ASSUME NEW c \in Call, ReadForSweep(c) PROVE RunMoves(d)
  BY <1>13 DEF ReadForSweep, Refused, RunMoves
<1>14. ASSUME NEW c \in Call, ReadClaims(c) PROVE RunMoves(d)
  BY <1>14 DEF ReadClaims, ReadSignals, AfterClaims, AfterHandoff, RunMoves
<1>15. ASSUME NEW c \in Call, ReadExpired(c) PROVE RunMoves(d)
  BY <1>15 DEF ReadExpired, ReadSignals, Begin, RunMoves
<1>16. ASSUME NEW c \in Call, WriteArchive(c) PROVE RunMoves(d)
  BY <1>16 DEF WriteArchive, RunMoves
<1>17. ASSUME NEW c \in Call, UnlinkSignals(c) PROVE RunMoves(d)
  BY <1>17 DEF UnlinkSignals, Forget, AfterClaims, AfterHandoff, AfterExpired, RunMoves
<1>18. ASSUME NEW c \in Call, SwallowError(c) PROVE RunMoves(d)
  BY <1>18 DEF SwallowError, Forget, AfterClaims, AfterHandoff, AfterExpired, RunMoves
<1>19. ASSUME NEW c \in Call, LookForTask(c) PROVE RunMoves(d)
  BY <1>19 DEF LookForTask, AfterLook, RunMoves
<1>20. ASSUME NEW c \in Call, MakeTask(c) PROVE RunMoves(d)
  BY <1>20 DEF MakeTask, RunMoves
<1>21. ASSUME NEW c \in Call, AssignTask(c) PROVE RunMoves(d)
  BY <1>21 DEF AssignTask, Refused, RunMoves
<1>22. ASSUME NEW c \in Call, LinkTask(c) PROVE RunMoves(d)
  BY <1>22 DEF LinkTask, AfterHandoff, RunMoves
<1>23. ASSUME NEW c \in Call, WriteRun(c) PROVE RunMoves(d)
  <2>1. target[c] = d \/ runs'[d] = runs[d]
    BY <1>23 DEF WriteRun, TypeOK
  <2> QED BY <1>23, <2>1 DEF RunMoves
<1>24. ASSUME NEW c \in Call, Die(c) PROVE RunMoves(d)
  BY <1>24 DEF Die, RunMoves
<1>25. ASSUME NEW c \in Call, ReapPromptly(c) PROVE RunMoves(d)
  BY <1>25 DEF ReapPromptly, Reap, RunMoves
<1>26. ASSUME NEW r \in Call, AgeDeadLock(r) PROVE RunMoves(d)
  BY <1>26 DEF AgeDeadLock, AgeLock, RunMoves
<1>27. ASSUME NEW r \in Call, AgeRun(r) PROVE RunMoves(d)
  <2>1. r = d \/ runs'[d] = runs[d]
    BY <1>27 DEF AgeRun, TypeOK
  <2> QED BY <1>27, <2>1 DEF RunMoves
<1>28. ASSUME NEW t \in Call, EndTask(t) PROVE RunMoves(d)
  BY <1>28 DEF EndTask, RunMoves
<1>29. CASE UNCHANGED vars
  BY <1>29 DEF vars, RunMoves
<1> QED
  BY <1>1, <1>2, <1>3, <1>4, <1>5, <1>6, <1>7, <1>8, <1>9, <1>10, <1>11, <1>12, <1>13,
     <1>14, <1>15, <1>16, <1>17, <1>18, <1>19, <1>20, <1>21, <1>22, <1>23, <1>24, <1>25,
     <1>26, <1>27, <1>28, <1>29
  DEF PromptNext, Start, Mutate, Around

(* What a call is, what it asks for and what it works on are fixed once made. *)
Settled(d) ==
    pc[d] # "idle" => /\ op'[d] = op[d] /\ asked'[d] = asked[d]
                      /\ pc'[d] # "idle" /\ (pc'[d] = "write_run" => pc[d] = "write_run")
                      /\ pc[d] # "next" => target'[d] = target[d]

LEMMA SettledStep ==
    TypeOK /\ (\A c \in Call : PlaceOK(c)) /\ [PromptNext]_vars => \A d \in Call : Settled(d)
<1> SUFFICES ASSUME TypeOK, \A c \in Call : PlaceOK(c), [PromptNext]_vars, NEW d \in Call
             PROVE  Settled(d)
  OBVIOUS
<1> USE DEF TypeOK, Go, files, memory, Settled
<1>1. ASSUME NEW c \in Call, ReadForStart(c) PROVE Settled(d)
  BY <1>1 DEF ReadForStart, Begin, End
<1>2. ASSUME NEW c \in Call, WriteNewRun(c) PROVE Settled(d)
  BY <1>2 DEF WriteNewRun
<1>3. ASSUME NEW c \in Call, ClaimPath(c) PROVE Settled(d)
  BY <1>3 DEF ClaimPath, End
<1>4. ASSUME NEW c \in Call, Select(c) PROVE Settled(d)
  BY <1>4 DEF Select, Begin
<1>5. ASSUME NEW c \in Call, ListOrphans(c) PROVE Settled(d)
  BY <1>5 DEF ListOrphans, Begin
<1>6. ASSUME NEW c \in Call, NextOrphan(c) PROVE Settled(d)
  BY <1>6 DEF NextOrphan, End
<1>7. ASSUME NEW c \in Call, Acquire(c) PROVE Settled(d)
  BY <1>7 DEF Acquire
<1>8. ASSUME NEW c \in Call, StatLock(c) PROVE Settled(d)
  BY <1>8 DEF StatLock
<1>9. ASSUME NEW c \in Call, TimeOut(c) PROVE Settled(d)
  BY <1>9 DEF TimeOut, End
<1>10. ASSUME NEW c \in Call, Unlock(c) PROVE Settled(d)
  BY <1>10 DEF Unlock
<1>11. ASSUME NEW c \in Call, ReadForLog(c) PROVE Settled(d)
  BY <1>11 DEF ReadForLog
<1>12. ASSUME NEW c \in Call, ReadForFinish(c) PROVE Settled(d)
  BY <1>12 DEF ReadForFinish, Refused
<1>13. ASSUME NEW c \in Call, ReadForSweep(c) PROVE Settled(d)
  BY <1>13 DEF ReadForSweep, Refused
<1>14. ASSUME NEW c \in Call, ReadClaims(c) PROVE Settled(d)
  BY <1>14 DEF ReadClaims, ReadSignals, AfterClaims, AfterHandoff
<1>15. ASSUME NEW c \in Call, ReadExpired(c) PROVE Settled(d)
  BY <1>15 DEF ReadExpired, ReadSignals, Begin
<1>16. ASSUME NEW c \in Call, WriteArchive(c) PROVE Settled(d)
  BY <1>16 DEF WriteArchive
<1>17. ASSUME NEW c \in Call, UnlinkSignals(c) PROVE Settled(d)
  BY <1>17 DEF UnlinkSignals, Forget, AfterClaims, AfterHandoff, AfterExpired
<1>18. ASSUME NEW c \in Call, SwallowError(c) PROVE Settled(d)
  BY <1>18 DEF SwallowError, Forget, AfterClaims, AfterHandoff, AfterExpired
<1>19. ASSUME NEW c \in Call, LookForTask(c) PROVE Settled(d)
  BY <1>19 DEF LookForTask, AfterLook
<1>20. ASSUME NEW c \in Call, MakeTask(c) PROVE Settled(d)
  BY <1>20 DEF MakeTask
<1>21. ASSUME NEW c \in Call, AssignTask(c) PROVE Settled(d)
  BY <1>21 DEF AssignTask, Refused
<1>22. ASSUME NEW c \in Call, LinkTask(c) PROVE Settled(d)
  BY <1>22 DEF LinkTask, AfterHandoff
<1>23. ASSUME NEW c \in Call, WriteRun(c) PROVE Settled(d)
  BY <1>23 DEF WriteRun
<1>24. ASSUME NEW c \in Call, Die(c) PROVE Settled(d)
  BY <1>24 DEF Die
<1>25. ASSUME NEW c \in Call, ReapPromptly(c) PROVE Settled(d)
  BY <1>25 DEF ReapPromptly, Reap
<1>26. ASSUME NEW r \in Call, AgeDeadLock(r) PROVE Settled(d)
  BY <1>26 DEF AgeDeadLock, AgeLock
<1>27. ASSUME NEW r \in Call, AgeRun(r) PROVE Settled(d)
  BY <1>27 DEF AgeRun
<1>28. ASSUME NEW t \in Call, EndTask(t) PROVE Settled(d)
  BY <1>28 DEF EndTask
<1>29. CASE UNCHANGED vars
  BY <1>29 DEF vars
<1> QED
  BY <1>1, <1>2, <1>3, <1>4, <1>5, <1>6, <1>7, <1>8, <1>9, <1>10, <1>11, <1>12, <1>13,
     <1>14, <1>15, <1>16, <1>17, <1>18, <1>19, <1>20, <1>21, <1>22, <1>23, <1>24, <1>25,
     <1>26, <1>27, <1>28, <1>29
  DEF PromptNext, Start, Mutate, Around

(* A run is written by the start it is named by, and by it alone.            *)
LEMMA RunsNamed ==
    TypeOK /\ (\A c \in Call : PlaceOK(c)) /\ NameInv /\ [PromptNext]_vars
        => \A r \in Started' : op'[r] = "start" /\ pc'[r] # "write_run"
<1> SUFFICES ASSUME TypeOK, \A c \in Call : PlaceOK(c), NameInv, [PromptNext]_vars, NEW r \in Started'
             PROVE  op'[r] = "start" /\ pc'[r] # "write_run"
  OBVIOUS
<1>1. r \in Call /\ RunMoves(r) /\ Settled(r)
  BY RunsMove, SettledStep DEF Started
<1>2. CASE r \in Started
  BY <1>1, <1>2 DEF NameInv, PlaceOK, Settled
<1>3. CASE r \notin Started
  <2>1. ~AgeRun(r) /\ runs'[r] # runs[r]
    BY <1>1, <1>3 DEF AgeRun, Started
  <2>2. ASSUME NEW c \in Call, WriteRun(c), target[c] = r PROVE FALSE
    <3>1. Targeting(c)
      BY <2>2 DEF WriteRun, Targeting, Holding, Released, PlaceOK
    <3> QED BY <1>3, <2>2, <3>1 DEF NameInv
  <2>3. WriteNewRun(r)
    BY <1>1, <2>1, <2>2 DEF RunMoves
  <2> QED BY <1>1, <2>3 DEF WriteNewRun, PlaceOK, memory, Go, TypeOK
<1> QED BY <1>2, <1>3

(* How a handoff task may change in one step.                               *)
TaskMoves(t) ==
    \/ tasks'[t] = tasks[t]
    \/ MakeTask(t)
    \/ EndTask(t)
    \/ \E c \in Call : (AssignTask(c) \/ LinkTask(c)) /\ task[c] = t

LEMMA TasksMove == TypeOK /\ [PromptNext]_vars => \A t \in Call : TaskMoves(t)
<1> SUFFICES ASSUME TypeOK, [PromptNext]_vars, NEW d \in Call PROVE TaskMoves(d)
  OBVIOUS
<1> USE DEF files
<1>1. ASSUME NEW c \in Call, ReadForStart(c) PROVE TaskMoves(d)
  BY <1>1 DEF ReadForStart, Begin, End, TaskMoves
<1>2. ASSUME NEW c \in Call, WriteNewRun(c) PROVE TaskMoves(d)
  BY <1>2 DEF WriteNewRun, TaskMoves
<1>3. ASSUME NEW c \in Call, ClaimPath(c) PROVE TaskMoves(d)
  BY <1>3 DEF ClaimPath, End, TaskMoves
<1>4. ASSUME NEW c \in Call, Select(c) PROVE TaskMoves(d)
  BY <1>4 DEF Select, Begin, TaskMoves
<1>5. ASSUME NEW c \in Call, ListOrphans(c) PROVE TaskMoves(d)
  BY <1>5 DEF ListOrphans, Begin, TaskMoves
<1>6. ASSUME NEW c \in Call, NextOrphan(c) PROVE TaskMoves(d)
  BY <1>6 DEF NextOrphan, End, TaskMoves
<1>7. ASSUME NEW c \in Call, Acquire(c) PROVE TaskMoves(d)
  BY <1>7 DEF Acquire, TaskMoves
<1>8. ASSUME NEW c \in Call, StatLock(c) PROVE TaskMoves(d)
  BY <1>8 DEF StatLock, TaskMoves
<1>9. ASSUME NEW c \in Call, TimeOut(c) PROVE TaskMoves(d)
  BY <1>9 DEF TimeOut, End, TaskMoves
<1>10. ASSUME NEW c \in Call, Unlock(c) PROVE TaskMoves(d)
  BY <1>10 DEF Unlock, TaskMoves
<1>11. ASSUME NEW c \in Call, ReadForLog(c) PROVE TaskMoves(d)
  BY <1>11 DEF ReadForLog, TaskMoves
<1>12. ASSUME NEW c \in Call, ReadForFinish(c) PROVE TaskMoves(d)
  BY <1>12 DEF ReadForFinish, Refused, TaskMoves
<1>13. ASSUME NEW c \in Call, ReadForSweep(c) PROVE TaskMoves(d)
  BY <1>13 DEF ReadForSweep, Refused, TaskMoves
<1>14. ASSUME NEW c \in Call, ReadClaims(c) PROVE TaskMoves(d)
  BY <1>14 DEF ReadClaims, ReadSignals, AfterClaims, AfterHandoff, TaskMoves
<1>15. ASSUME NEW c \in Call, ReadExpired(c) PROVE TaskMoves(d)
  BY <1>15 DEF ReadExpired, ReadSignals, Begin, TaskMoves
<1>16. ASSUME NEW c \in Call, WriteArchive(c) PROVE TaskMoves(d)
  BY <1>16 DEF WriteArchive, TaskMoves
<1>17. ASSUME NEW c \in Call, UnlinkSignals(c) PROVE TaskMoves(d)
  BY <1>17 DEF UnlinkSignals, Forget, AfterClaims, AfterHandoff, AfterExpired, TaskMoves
<1>18. ASSUME NEW c \in Call, SwallowError(c) PROVE TaskMoves(d)
  BY <1>18 DEF SwallowError, Forget, AfterClaims, AfterHandoff, AfterExpired, TaskMoves
<1>19. ASSUME NEW c \in Call, LookForTask(c) PROVE TaskMoves(d)
  BY <1>19 DEF LookForTask, AfterLook, TaskMoves
<1>20. ASSUME NEW c \in Call, MakeTask(c) PROVE TaskMoves(d)
  <2>1. c = d \/ tasks'[d] = tasks[d]
    BY <1>20 DEF MakeTask, TypeOK
  <2> QED BY <1>20, <2>1 DEF TaskMoves
<1>21. ASSUME NEW c \in Call, AssignTask(c) PROVE TaskMoves(d)
  <2>1. task[c] = d \/ tasks'[d] = tasks[d]
    BY <1>21 DEF AssignTask, TypeOK
  <2> QED BY <1>21, <2>1 DEF TaskMoves
<1>22. ASSUME NEW c \in Call, LinkTask(c) PROVE TaskMoves(d)
  <2>1. task[c] = d \/ tasks'[d] = tasks[d]
    BY <1>22 DEF LinkTask, TypeOK
  <2> QED BY <1>22, <2>1 DEF TaskMoves
<1>23. ASSUME NEW c \in Call, WriteRun(c) PROVE TaskMoves(d)
  BY <1>23 DEF WriteRun, TaskMoves
<1>24. ASSUME NEW c \in Call, Die(c) PROVE TaskMoves(d)
  BY <1>24 DEF Die, TaskMoves
<1>25. ASSUME NEW c \in Call, ReapPromptly(c) PROVE TaskMoves(d)
  BY <1>25 DEF ReapPromptly, Reap, TaskMoves
<1>26. ASSUME NEW r \in Call, AgeDeadLock(r) PROVE TaskMoves(d)
  BY <1>26 DEF AgeDeadLock, AgeLock, TaskMoves
<1>27. ASSUME NEW r \in Call, AgeRun(r) PROVE TaskMoves(d)
  BY <1>27 DEF AgeRun, TaskMoves
<1>28. ASSUME NEW t \in Call, EndTask(t) PROVE TaskMoves(d)
  <2>1. t = d \/ tasks'[d] = tasks[d]
    BY <1>28 DEF EndTask, TypeOK
  <2> QED BY <1>28, <2>1 DEF TaskMoves
<1>29. CASE UNCHANGED vars
  BY <1>29 DEF vars, TaskMoves
<1> QED
  BY <1>1, <1>2, <1>3, <1>4, <1>5, <1>6, <1>7, <1>8, <1>9, <1>10, <1>11, <1>12, <1>13,
     <1>14, <1>15, <1>16, <1>17, <1>18, <1>19, <1>20, <1>21, <1>22, <1>23, <1>24, <1>25,
     <1>26, <1>27, <1>28, <1>29
  DEF PromptNext, Start, Mutate, Around

(* A task keeps what it is about, and what was done to it stays done.        *)
TaskKept(t) == /\ t \in Created'
               /\ tasks'[t].run = tasks[t].run /\ tasks'[t].note = tasks[t].note
               /\ tasks[t].assigned => tasks'[t].assigned
               /\ tasks[t].linked => tasks'[t].linked

LEMMA TasksStay ==
    TypeOK /\ (\A c \in Call : PlaceOK(c)) /\ NameInv /\ TaskInv /\ [PromptNext]_vars
        => (\A t \in Created : TaskKept(t)) /\ (\A t \in Created' : t \in Created \/ MakeTask(t))
<1> SUFFICES ASSUME TypeOK, \A c \in Call : PlaceOK(c), NameInv, TaskInv, [PromptNext]_vars
             PROVE  (\A t \in Created : TaskKept(t)) /\ (\A t \in Created' : t \in Created \/ MakeTask(t))
  OBVIOUS
<1>1. \A t \in Call : TaskMoves(t)
  BY TasksMove
<1>2. ASSUME NEW t \in Created PROVE TaskKept(t)
  <2>1. t \in Call /\ tasks[t] \in Handoff /\ tasks[t] # None
    BY DEF Created, TypeOK
  <2>2. ~MakeTask(t)
    BY DEF MakeTask, NameInv
  <2>3. \/ tasks'[t] = tasks[t]
        \/ tasks'[t] = [tasks[t] EXCEPT !.ended = TRUE]
        \/ tasks'[t] = [tasks[t] EXCEPT !.assigned = TRUE]
        \/ tasks'[t] = [tasks[t] EXCEPT !.linked = TRUE]
    <3>1. CASE EndTask(t)
      BY <2>1, <3>1 DEF EndTask, TypeOK
    <3>2. ASSUME NEW c \in Call, AssignTask(c), task[c] = t
          PROVE  tasks'[t] = tasks[t] \/ tasks'[t] = [tasks[t] EXCEPT !.assigned = TRUE]
      BY <2>1, <3>2 DEF AssignTask, TypeOK
    <3>3. ASSUME NEW c \in Call, LinkTask(c), task[c] = t
          PROVE  tasks'[t] = [tasks[t] EXCEPT !.linked = TRUE]
      BY <2>1, <3>3 DEF LinkTask, TypeOK
    <3> QED BY <1>1, <2>1, <2>2, <3>1, <3>2, <3>3 DEF TaskMoves
  <2>4. /\ tasks'[t] \in Handoff
        /\ tasks'[t].run = tasks[t].run /\ tasks'[t].note = tasks[t].note
        /\ tasks[t].assigned => tasks'[t].assigned
        /\ tasks[t].linked => tasks'[t].linked
    BY <2>1, <2>3 DEF Handoff
  <2> QED BY <2>1, <2>4, ViewRunsAssumption DEF TaskKept, Created
<1>3. ASSUME NEW t \in Created' PROVE t \in Created \/ MakeTask(t)
  <2>1. t \in Call /\ tasks'[t] # None
    BY DEF Created
  <2>2. ASSUME t \notin Created PROVE MakeTask(t)
    <3>1. tasks[t] = None
      BY <2>1, <2>2 DEF Created
    <3>2. ~EndTask(t)
      BY <2>2 DEF EndTask
    <3>3. ASSUME NEW c \in Call, AssignTask(c) \/ LinkTask(c), task[c] = t PROVE FALSE
      <4>1. HasTask(c)
        BY <3>3 DEF HasTask, AssignTask, LinkTask
      <4> QED BY <2>2, <3>3, <4>1 DEF TaskInv
    <3> QED BY <1>1, <2>1, <3>1, <3>2, <3>3 DEF TaskMoves
  <2> QED BY <2>2
<1> QED BY <1>2, <1>3

(* A finish that has created its task never looks for one again.             *)
Past == {"assign", "link", "collect", "archive_expired", "unlink_expired", "write", "unlock",
         "done", "dead"}

LEMMA PastStep ==
    TypeOK /\ (\A c \in Call : PlaceOK(c)) /\ [PromptNext]_vars
        => \A d \in Call : op[d] = "finish" /\ pc[d] \in Past => pc'[d] \in Past
<1> SUFFICES ASSUME TypeOK, \A c \in Call : PlaceOK(c), [PromptNext]_vars, NEW d \in Call,
                    op[d] = "finish", pc[d] \in Past
             PROVE  pc'[d] \in Past
  OBVIOUS
<1> USE DEF TypeOK, Go, Past, vars
<1>1. ASSUME NEW c \in Call, ReadForStart(c) PROVE pc'[d] \in Past
  BY <1>1 DEF ReadForStart, Begin, End
<1>2. ASSUME NEW c \in Call, WriteNewRun(c) PROVE pc'[d] \in Past
  BY <1>2 DEF WriteNewRun
<1>3. ASSUME NEW c \in Call, ClaimPath(c) PROVE pc'[d] \in Past
  BY <1>3 DEF ClaimPath, End
<1>4. ASSUME NEW c \in Call, Select(c) PROVE pc'[d] \in Past
  BY <1>4 DEF Select, Begin
<1>5. ASSUME NEW c \in Call, ListOrphans(c) PROVE pc'[d] \in Past
  BY <1>5 DEF ListOrphans, Begin
<1>6. ASSUME NEW c \in Call, NextOrphan(c) PROVE pc'[d] \in Past
  BY <1>6 DEF NextOrphan, End
<1>7. ASSUME NEW c \in Call, Acquire(c) PROVE pc'[d] \in Past
  BY <1>7 DEF Acquire
<1>8. ASSUME NEW c \in Call, StatLock(c) PROVE pc'[d] \in Past
  BY <1>8 DEF StatLock
<1>9. ASSUME NEW c \in Call, TimeOut(c) PROVE pc'[d] \in Past
  BY <1>9 DEF TimeOut, End
<1>10. ASSUME NEW c \in Call, Unlock(c) PROVE pc'[d] \in Past
  BY <1>10 DEF Unlock
<1>11. ASSUME NEW c \in Call, ReadForLog(c) PROVE pc'[d] \in Past
  BY <1>11 DEF ReadForLog
<1>12. ASSUME NEW c \in Call, ReadForFinish(c) PROVE pc'[d] \in Past
  BY <1>12 DEF ReadForFinish, Refused
<1>13. ASSUME NEW c \in Call, ReadForSweep(c) PROVE pc'[d] \in Past
  BY <1>13 DEF ReadForSweep, Refused
<1>14. ASSUME NEW c \in Call, ReadClaims(c) PROVE pc'[d] \in Past
  BY <1>14 DEF ReadClaims, ReadSignals, AfterClaims, AfterHandoff
<1>15. ASSUME NEW c \in Call, ReadExpired(c) PROVE pc'[d] \in Past
  BY <1>15 DEF ReadExpired, ReadSignals, Begin
<1>16. ASSUME NEW c \in Call, WriteArchive(c) PROVE pc'[d] \in Past
  BY <1>16 DEF WriteArchive
<1>17. ASSUME NEW c \in Call, UnlinkSignals(c) PROVE pc'[d] \in Past
  BY <1>17 DEF UnlinkSignals, Forget, AfterClaims, AfterHandoff, AfterExpired
<1>18. ASSUME NEW c \in Call, SwallowError(c) PROVE pc'[d] \in Past
  BY <1>18 DEF SwallowError, Forget, AfterClaims, AfterHandoff, AfterExpired
<1>19. ASSUME NEW c \in Call, LookForTask(c) PROVE pc'[d] \in Past
  BY <1>19 DEF LookForTask, AfterLook
<1>20. ASSUME NEW c \in Call, MakeTask(c) PROVE pc'[d] \in Past
  BY <1>20 DEF MakeTask
<1>21. ASSUME NEW c \in Call, AssignTask(c) PROVE pc'[d] \in Past
  BY <1>21 DEF AssignTask, Refused
<1>22. ASSUME NEW c \in Call, LinkTask(c) PROVE pc'[d] \in Past
  BY <1>22 DEF LinkTask, AfterHandoff
<1>23. ASSUME NEW c \in Call, WriteRun(c) PROVE pc'[d] \in Past
  BY <1>23 DEF WriteRun
<1>24. ASSUME NEW c \in Call, Die(c) PROVE pc'[d] \in Past
  BY <1>24 DEF Die
<1>25. ASSUME NEW c \in Call, ReapPromptly(c) PROVE pc'[d] \in Past
  BY <1>25 DEF ReapPromptly, Reap
<1>26. ASSUME NEW r \in Call, AgeDeadLock(r) PROVE pc'[d] \in Past
  BY <1>26 DEF AgeDeadLock, AgeLock
<1>27. ASSUME NEW r \in Call, AgeRun(r) PROVE pc'[d] \in Past
  BY <1>27 DEF AgeRun
<1>28. ASSUME NEW t \in Call, EndTask(t) PROVE pc'[d] \in Past
  BY <1>28 DEF EndTask
<1>29. CASE UNCHANGED vars
  BY <1>29 DEF vars
<1> QED
  BY <1>1, <1>2, <1>3, <1>4, <1>5, <1>6, <1>7, <1>8, <1>9, <1>10, <1>11, <1>12, <1>13,
     <1>14, <1>15, <1>16, <1>17, <1>18, <1>19, <1>20, <1>21, <1>22, <1>23, <1>24, <1>25,
     <1>26, <1>27, <1>28, <1>29
  DEF PromptNext, Start, Mutate, Around

LEMMA NameStep ==
    TypeOK /\ (\A c \in Call : PlaceOK(c)) /\ NameInv /\ CopyInv /\ TaskInv /\ [PromptNext]_vars
        => NameInv'
<1> SUFFICES ASSUME TypeOK, \A c \in Call : PlaceOK(c), NameInv, CopyInv, TaskInv, [PromptNext]_vars
             PROVE  NameInv'
  OBVIOUS
<1>1. ASSUME NEW t \in Created' PROVE op'[t] = "finish" /\ pc'[t] \in Past
  <2>1. t \in Call /\ Settled(t) /\ PlaceOK(t)
    BY SettledStep DEF Created
  <2>2. CASE t \in Created
    <3>1. op[t] = "finish" /\ pc[t] \in Past
      BY <2>2 DEF NameInv, Past
    <3> QED BY <2>1, <3>1, PastStep DEF Settled, PlaceOK
  <2>3. CASE MakeTask(t)
    BY <2>1, <2>3 DEF MakeTask, memory, PlaceOK, HandsOff, Past, Go, TypeOK
  <2> QED BY <2>2, <2>3, TasksStay
<1> QED BY <1>1, TargetStep, RunsNamed DEF NameInv, Past

-----------------------------------------------------------------------------
(* Locks.                                                                   *)
LEMMA HoldStep ==
    TypeOK /\ (\A c \in Call : PlaceOK(c)) /\ NameInv /\ LockInv /\ [PromptNext]_vars
        => \A d \in Call : Holding(d)' => lock'[target'[d]] = [holder |-> d, old |-> FALSE]
<1> SUFFICES ASSUME TypeOK, \A c \in Call : PlaceOK(c), NameInv, LockInv, [PromptNext]_vars,
                    NEW d \in Call, Holding(d)'
             PROVE  lock'[target'[d]] = [holder |-> d, old |-> FALSE]
  OBVIOUS
<1>0. ASSUME NEW c \in Call, Holding(c)
      PROVE  /\ lock[target[c]] = [holder |-> c, old |-> FALSE]
             /\ lock[target[c]].holder = c /\ ~lock[target[c]].old /\ lock[target[c]] # None
  <2>1. [holder |-> c, old |-> FALSE] \in Lock
    BY DEF Lock
  <2> QED BY <1>0, <2>1, ViewRunsAssumption DEF LockInv
<1> USE <1>0 DEF TypeOK, Go, files, memory, Holding, Released
<1>1. ASSUME NEW c \in Call, ReadForStart(c) PROVE lock'[target'[d]] = [holder |-> d, old |-> FALSE]
  BY <1>1 DEF ReadForStart, Begin, End, PlaceOK
<1>2. ASSUME NEW c \in Call, WriteNewRun(c) PROVE lock'[target'[d]] = [holder |-> d, old |-> FALSE]
  BY <1>2 DEF WriteNewRun, PlaceOK
<1>3. ASSUME NEW c \in Call, ClaimPath(c) PROVE lock'[target'[d]] = [holder |-> d, old |-> FALSE]
  BY <1>3 DEF ClaimPath, End, PlaceOK
<1>4. ASSUME NEW c \in Call, Select(c) PROVE lock'[target'[d]] = [holder |-> d, old |-> FALSE]
  BY <1>4 DEF Select, Begin, PlaceOK
<1>5. ASSUME NEW c \in Call, ListOrphans(c) PROVE lock'[target'[d]] = [holder |-> d, old |-> FALSE]
  BY <1>5 DEF ListOrphans, Begin, PlaceOK
<1>6. ASSUME NEW c \in Call, NextOrphan(c) PROVE lock'[target'[d]] = [holder |-> d, old |-> FALSE]
  BY <1>6 DEF NextOrphan, End, PlaceOK
<1>7. ASSUME NEW c \in Call, Acquire(c) PROVE lock'[target'[d]] = [holder |-> d, old |-> FALSE]
  <2>1. target[c] \in Call
    BY <1>7 DEF Acquire, NameInv, Targeting, Started
  <2>2. CASE d = c
    BY <1>7, <2>1, <2>2 DEF Acquire
  <2>3. CASE d # c
    <3>1. Holding(d)
      BY <1>7, <2>3 DEF Acquire
    <3>2. target[d] # target[c]
      BY <1>7, <3>1, <1>0 DEF Acquire
    <3> QED BY <1>7, <2>1, <2>3, <3>1, <3>2 DEF Acquire
  <2> QED BY <2>2, <2>3
<1>8. ASSUME NEW c \in Call, StatLock(c) PROVE lock'[target'[d]] = [holder |-> d, old |-> FALSE]
  BY <1>8 DEF StatLock, PlaceOK
<1>9. ASSUME NEW c \in Call, TimeOut(c) PROVE lock'[target'[d]] = [holder |-> d, old |-> FALSE]
  BY <1>9 DEF TimeOut, End, PlaceOK
<1>10. ASSUME NEW c \in Call, Unlock(c) PROVE lock'[target'[d]] = [holder |-> d, old |-> FALSE]
  <2>1. d # c /\ Holding(c) /\ Holding(d)
    BY <1>10 DEF Unlock, PlaceOK
  <2>2. target[d] # target[c]
    BY <2>1
  <2> QED BY <1>10, <2>1, <2>2 DEF Unlock
<1>11. ASSUME NEW c \in Call, ReadForLog(c) PROVE lock'[target'[d]] = [holder |-> d, old |-> FALSE]
  BY <1>11 DEF ReadForLog, PlaceOK
<1>12. ASSUME NEW c \in Call, ReadForFinish(c) PROVE lock'[target'[d]] = [holder |-> d, old |-> FALSE]
  BY <1>12 DEF ReadForFinish, Refused, PlaceOK
<1>13. ASSUME NEW c \in Call, ReadForSweep(c) PROVE lock'[target'[d]] = [holder |-> d, old |-> FALSE]
  BY <1>13 DEF ReadForSweep, Refused, PlaceOK
<1>14. ASSUME NEW c \in Call, ReadClaims(c) PROVE lock'[target'[d]] = [holder |-> d, old |-> FALSE]
  BY <1>14 DEF ReadClaims, ReadSignals, AfterClaims, AfterHandoff, PlaceOK
<1>15. ASSUME NEW c \in Call, ReadExpired(c) PROVE lock'[target'[d]] = [holder |-> d, old |-> FALSE]
  BY <1>15 DEF ReadExpired, ReadSignals, Begin, PlaceOK
<1>16. ASSUME NEW c \in Call, WriteArchive(c) PROVE lock'[target'[d]] = [holder |-> d, old |-> FALSE]
  BY <1>16 DEF WriteArchive, PlaceOK
<1>17. ASSUME NEW c \in Call, UnlinkSignals(c) PROVE lock'[target'[d]] = [holder |-> d, old |-> FALSE]
  BY <1>17 DEF UnlinkSignals, Forget, AfterClaims, AfterHandoff, AfterExpired, PlaceOK
<1>18. ASSUME NEW c \in Call, SwallowError(c) PROVE lock'[target'[d]] = [holder |-> d, old |-> FALSE]
  BY <1>18 DEF SwallowError, Forget, AfterClaims, AfterHandoff, AfterExpired, PlaceOK
<1>19. ASSUME NEW c \in Call, LookForTask(c) PROVE lock'[target'[d]] = [holder |-> d, old |-> FALSE]
  BY <1>19 DEF LookForTask, AfterLook, PlaceOK
<1>20. ASSUME NEW c \in Call, MakeTask(c) PROVE lock'[target'[d]] = [holder |-> d, old |-> FALSE]
  BY <1>20 DEF MakeTask, PlaceOK
<1>21. ASSUME NEW c \in Call, AssignTask(c) PROVE lock'[target'[d]] = [holder |-> d, old |-> FALSE]
  BY <1>21 DEF AssignTask, Refused, PlaceOK
<1>22. ASSUME NEW c \in Call, LinkTask(c) PROVE lock'[target'[d]] = [holder |-> d, old |-> FALSE]
  BY <1>22 DEF LinkTask, AfterHandoff, PlaceOK
<1>23. ASSUME NEW c \in Call, WriteRun(c) PROVE lock'[target'[d]] = [holder |-> d, old |-> FALSE]
  BY <1>23 DEF WriteRun, PlaceOK
<1>24. ASSUME NEW c \in Call, Die(c) PROVE lock'[target'[d]] = [holder |-> d, old |-> FALSE]
  BY <1>24 DEF Die, PlaceOK
<1>25. ASSUME NEW c \in Call, ReapPromptly(c) PROVE lock'[target'[d]] = [holder |-> d, old |-> FALSE]
  BY <1>25 DEF ReapPromptly, Reap, PlaceOK
<1>26. ASSUME NEW r \in Call, AgeDeadLock(r) PROVE lock'[target'[d]] = [holder |-> d, old |-> FALSE]
  BY <1>26 DEF AgeDeadLock, AgeLock, PlaceOK
<1>27. ASSUME NEW r \in Call, AgeRun(r) PROVE lock'[target'[d]] = [holder |-> d, old |-> FALSE]
  BY <1>27 DEF AgeRun, PlaceOK
<1>28. ASSUME NEW t \in Call, EndTask(t) PROVE lock'[target'[d]] = [holder |-> d, old |-> FALSE]
  BY <1>28 DEF EndTask, PlaceOK
<1>29. CASE UNCHANGED vars
  BY <1>29 DEF vars, PlaceOK
<1> QED
  BY <1>1, <1>2, <1>3, <1>4, <1>5, <1>6, <1>7, <1>8, <1>9, <1>10, <1>11, <1>12, <1>13,
     <1>14, <1>15, <1>16, <1>17, <1>18, <1>19, <1>20, <1>21, <1>22, <1>23, <1>24, <1>25,
     <1>26, <1>27, <1>28, <1>29
  DEF PromptNext, Start, Mutate, Around

LEMMA OldStep ==
    TypeOK /\ (\A c \in Call : PlaceOK(c)) /\ LockInv /\ [PromptNext]_vars
        => \A r \in Call : lock'[r] # None /\ lock'[r].old => pc'[lock'[r].holder] = "dead"
<1> SUFFICES ASSUME TypeOK, \A c \in Call : PlaceOK(c), LockInv, [PromptNext]_vars,
                    NEW d \in Call, lock'[d] # None, lock'[d].old
             PROVE  pc'[lock'[d].holder] = "dead"
  OBVIOUS
<1>0. /\ \A k \in Lock : k.holder \in Call /\ k.old \in BOOLEAN
      /\ \A k \in Call : lock[k] # None => lock[k] \in Lock
      /\ \A k \in Call : lock[k] # None /\ lock[k].old => pc[lock[k].holder] = "dead"
  BY DEF LockInv, TypeOK, Lock
<1> USE <1>0 DEF TypeOK, Go, files, memory
<1>1. ASSUME NEW c \in Call, ReadForStart(c) PROVE pc'[lock'[d].holder] = "dead"
  BY <1>1 DEF ReadForStart, Begin, End
<1>2. ASSUME NEW c \in Call, WriteNewRun(c) PROVE pc'[lock'[d].holder] = "dead"
  BY <1>2 DEF WriteNewRun
<1>3. ASSUME NEW c \in Call, ClaimPath(c) PROVE pc'[lock'[d].holder] = "dead"
  BY <1>3 DEF ClaimPath, End
<1>4. ASSUME NEW c \in Call, Select(c) PROVE pc'[lock'[d].holder] = "dead"
  BY <1>4 DEF Select, Begin
<1>5. ASSUME NEW c \in Call, ListOrphans(c) PROVE pc'[lock'[d].holder] = "dead"
  BY <1>5 DEF ListOrphans, Begin
<1>6. ASSUME NEW c \in Call, NextOrphan(c) PROVE pc'[lock'[d].holder] = "dead"
  BY <1>6 DEF NextOrphan, End
<1>7. ASSUME NEW c \in Call, Acquire(c) PROVE pc'[lock'[d].holder] = "dead"
  BY <1>7 DEF Acquire
<1>8. ASSUME NEW c \in Call, StatLock(c) PROVE pc'[lock'[d].holder] = "dead"
  BY <1>8 DEF StatLock
<1>9. ASSUME NEW c \in Call, TimeOut(c) PROVE pc'[lock'[d].holder] = "dead"
  BY <1>9 DEF TimeOut, End
<1>10. ASSUME NEW c \in Call, Unlock(c) PROVE pc'[lock'[d].holder] = "dead"
  BY <1>10 DEF Unlock
<1>11. ASSUME NEW c \in Call, ReadForLog(c) PROVE pc'[lock'[d].holder] = "dead"
  BY <1>11 DEF ReadForLog
<1>12. ASSUME NEW c \in Call, ReadForFinish(c) PROVE pc'[lock'[d].holder] = "dead"
  BY <1>12 DEF ReadForFinish, Refused
<1>13. ASSUME NEW c \in Call, ReadForSweep(c) PROVE pc'[lock'[d].holder] = "dead"
  BY <1>13 DEF ReadForSweep, Refused
<1>14. ASSUME NEW c \in Call, ReadClaims(c) PROVE pc'[lock'[d].holder] = "dead"
  BY <1>14 DEF ReadClaims, ReadSignals, AfterClaims, AfterHandoff
<1>15. ASSUME NEW c \in Call, ReadExpired(c) PROVE pc'[lock'[d].holder] = "dead"
  BY <1>15 DEF ReadExpired, ReadSignals, Begin
<1>16. ASSUME NEW c \in Call, WriteArchive(c) PROVE pc'[lock'[d].holder] = "dead"
  BY <1>16 DEF WriteArchive
<1>17. ASSUME NEW c \in Call, UnlinkSignals(c) PROVE pc'[lock'[d].holder] = "dead"
  BY <1>17 DEF UnlinkSignals, Forget, AfterClaims, AfterHandoff, AfterExpired
<1>18. ASSUME NEW c \in Call, SwallowError(c) PROVE pc'[lock'[d].holder] = "dead"
  BY <1>18 DEF SwallowError, Forget, AfterClaims, AfterHandoff, AfterExpired
<1>19. ASSUME NEW c \in Call, LookForTask(c) PROVE pc'[lock'[d].holder] = "dead"
  BY <1>19 DEF LookForTask, AfterLook
<1>20. ASSUME NEW c \in Call, MakeTask(c) PROVE pc'[lock'[d].holder] = "dead"
  BY <1>20 DEF MakeTask
<1>21. ASSUME NEW c \in Call, AssignTask(c) PROVE pc'[lock'[d].holder] = "dead"
  BY <1>21 DEF AssignTask, Refused
<1>22. ASSUME NEW c \in Call, LinkTask(c) PROVE pc'[lock'[d].holder] = "dead"
  BY <1>22 DEF LinkTask, AfterHandoff
<1>23. ASSUME NEW c \in Call, WriteRun(c) PROVE pc'[lock'[d].holder] = "dead"
  BY <1>23 DEF WriteRun
<1>24. ASSUME NEW c \in Call, Die(c) PROVE pc'[lock'[d].holder] = "dead"
  BY <1>24 DEF Die
<1>25. ASSUME NEW c \in Call, ReapPromptly(c) PROVE pc'[lock'[d].holder] = "dead"
  BY <1>25 DEF ReapPromptly, Reap
<1>26. ASSUME NEW r \in Call, AgeDeadLock(r) PROVE pc'[lock'[d].holder] = "dead"
  BY <1>26 DEF AgeDeadLock, AgeLock
<1>27. ASSUME NEW r \in Call, AgeRun(r) PROVE pc'[lock'[d].holder] = "dead"
  BY <1>27 DEF AgeRun
<1>28. ASSUME NEW t \in Call, EndTask(t) PROVE pc'[lock'[d].holder] = "dead"
  BY <1>28 DEF EndTask
<1>29. CASE UNCHANGED vars
  BY <1>29 DEF vars
<1> QED
  BY <1>1, <1>2, <1>3, <1>4, <1>5, <1>6, <1>7, <1>8, <1>9, <1>10, <1>11, <1>12, <1>13,
     <1>14, <1>15, <1>16, <1>17, <1>18, <1>19, <1>20, <1>21, <1>22, <1>23, <1>24, <1>25,
     <1>26, <1>27, <1>28, <1>29
  DEF PromptNext, Start, Mutate, Around

LEMMA LockStep ==
    TypeOK /\ (\A c \in Call : PlaceOK(c)) /\ NameInv /\ LockInv /\ [PromptNext]_vars => LockInv'
BY HoldStep, OldStep DEF LockInv

(* No two calls work on one run at a time.                                  *)
LEMMA Alone ==
    ASSUME LockInv, NEW c \in Call, NEW d \in Call, Holding(c), Holding(d), target[c] = target[d]
    PROVE  c = d
<1>1. [holder |-> c, old |-> FALSE].holder = [holder |-> d, old |-> FALSE].holder
  BY Zenon DEF LockInv
<1> QED BY <1>1

-----------------------------------------------------------------------------
(* Copies.                                                                  *)
Reading(d) == Holding(d) /\ pc[d] \notin {"read", "unlock"}

(* A journal that a call has read and not yet written back is changed by no  *)
(* other call, but for the mark of its age.                                 *)
LEMMA ReadKept ==
    ASSUME TypeOK, \A c \in Call : PlaceOK(c), NameInv, LockInv, [PromptNext]_vars,
           NEW d \in Call, Holding(d), pc'[d] # "unlock"
    PROVE  Agree(runs'[target[d]], runs[target[d]])
<1> DEFINE r == target[d]
<1>1. r \in Call /\ r \in Started /\ runs[r] \in RunJournal
  BY DEF NameInv, Targeting, Started, TypeOK
<1>2. CASE runs'[r] = runs[r]
  BY <1>2 DEF Agree
<1>3. ~WriteNewRun(r)
  BY <1>1 DEF WriteNewRun, NameInv
<1>4. CASE AgeRun(r)
  <2>1. runs'[r] = [runs[r] EXCEPT !.untouched = TRUE]
    BY <1>1, <1>4 DEF AgeRun, TypeOK
  <2> QED BY <1>1, <2>1 DEF Agree, RunJournal
<1>5. ASSUME NEW c \in Call, WriteRun(c), target[c] = r PROVE FALSE
  <2>1. Holding(c)
    BY <1>5 DEF WriteRun, Holding, Released, PlaceOK
  <2>2. c = d
    BY <1>5, <2>1, Alone
  <2> QED BY <1>5, <2>2 DEF WriteRun, Go, TypeOK
<1> QED BY <1>1, <1>2, <1>3, <1>4, <1>5, RunsMove DEF RunMoves

(* A call reads the journal once, and goes on to end a run it has found in   *)
(* progress.                                                                *)
Reads(d) ==
    /\ pc[d] = "read" /\ Holding(d) /\ target[d] \in Call
    /\ runs[target[d]] # None
    /\ runs' = runs /\ target'[d] = target[d] /\ op'[d] = op[d]
    /\ copy'[d] = runs[target[d]]
    /\ op[d] # "log" => runs[target[d]].status = "in_progress"

KeepsCopy(d) ==
    /\ Holding(d) /\ pc[d] \notin {"read", "unlock"} /\ pc'[d] # "unlock"
    /\ target'[d] = target[d] /\ op'[d] = op[d] /\ copy'[d] = copy[d]

LEMMA InProgress ==
    ASSUME NEW j \in RunJournal, MayEnd(j) PROVE j.status = "in_progress"
BY DEF MayEnd, RunTransitions, RunJournal, Terminal

LEMMA ReadingStep ==
    TypeOK /\ (\A c \in Call : PlaceOK(c)) /\ NameInv /\ [PromptNext]_vars
        => \A d \in Call : Reading(d)' => Reads(d) \/ KeepsCopy(d)
<1> SUFFICES ASSUME TypeOK, \A c \in Call : PlaceOK(c), NameInv, [PromptNext]_vars,
                    NEW d \in Call, Reading(d)'
             PROVE  Reads(d) \/ KeepsCopy(d)
  OBVIOUS
<1> DEFINE Fine == Reads(d) \/ KeepsCopy(d)
<1>0. Holding(d) => target[d] \in Call /\ runs[target[d]] # None /\ runs[target[d]] \in RunJournal
  BY DEF NameInv, Targeting, Started, TypeOK
<1>100. PlaceOK(d)
  OBVIOUS
<1> USE <1>0, <1>100 DEF TypeOK, Go, files, memory, Holding, Released, Reading, Reads, KeepsCopy
<1>1. ASSUME NEW c \in Call, ReadForStart(c) PROVE Fine
  BY <1>1 DEF ReadForStart, Begin, End, PlaceOK
<1>2. ASSUME NEW c \in Call, WriteNewRun(c) PROVE Fine
  BY <1>2 DEF WriteNewRun, PlaceOK
<1>3. ASSUME NEW c \in Call, ClaimPath(c) PROVE Fine
  BY <1>3 DEF ClaimPath, End, PlaceOK
<1>4. ASSUME NEW c \in Call, Select(c) PROVE Fine
  BY <1>4 DEF Select, Begin, PlaceOK
<1>5. ASSUME NEW c \in Call, ListOrphans(c) PROVE Fine
  BY <1>5 DEF ListOrphans, Begin, PlaceOK
<1>6. ASSUME NEW c \in Call, NextOrphan(c) PROVE Fine
  BY <1>6 DEF NextOrphan, End, PlaceOK
<1>7. ASSUME NEW c \in Call, Acquire(c) PROVE Fine
  BY <1>7 DEF Acquire, PlaceOK
<1>8. ASSUME NEW c \in Call, StatLock(c) PROVE Fine
  BY <1>8 DEF StatLock, PlaceOK
<1>9. ASSUME NEW c \in Call, TimeOut(c) PROVE Fine
  BY <1>9 DEF TimeOut, End, PlaceOK
<1>10. ASSUME NEW c \in Call, Unlock(c) PROVE Fine
  BY <1>10 DEF Unlock, PlaceOK
<1>11. ASSUME NEW c \in Call, ReadForLog(c) PROVE Fine
  BY <1>11 DEF ReadForLog, PlaceOK
<1>12. ASSUME NEW c \in Call, ReadForFinish(c) PROVE Fine
  <2>1. CASE d # c
    BY <1>12, <2>1 DEF ReadForFinish, Refused, PlaceOK
  <2>2. CASE d = c
    <3>1. Holding(d) /\ MayEnd(runs[target[d]])
      BY <1>12, <2>2 DEF ReadForFinish, Refused
    <3>2. runs[target[d]].status = "in_progress"
      BY <3>1, InProgress
    <3> QED BY <1>12, <2>2, <3>1, <3>2 DEF ReadForFinish, Refused, PlaceOK
  <2> QED BY <2>1, <2>2
<1>13. ASSUME NEW c \in Call, ReadForSweep(c) PROVE Fine
  <2>1. CASE d # c
    BY <1>13, <2>1 DEF ReadForSweep, Refused, PlaceOK
  <2>2. CASE d = c
    <3>1. Holding(d) /\ MayEnd(runs[target[d]])
      BY <1>13, <2>2 DEF ReadForSweep, Refused
    <3>2. runs[target[d]].status = "in_progress"
      BY <3>1, InProgress
    <3> QED BY <1>13, <2>2, <3>1, <3>2 DEF ReadForSweep, Refused, PlaceOK
  <2> QED BY <2>1, <2>2
<1>14. ASSUME NEW c \in Call, ReadClaims(c) PROVE Fine
  BY <1>14 DEF ReadClaims, ReadSignals, AfterClaims, AfterHandoff, PlaceOK
<1>15. ASSUME NEW c \in Call, ReadExpired(c) PROVE Fine
  BY <1>15 DEF ReadExpired, ReadSignals, Begin, PlaceOK
<1>16. ASSUME NEW c \in Call, WriteArchive(c) PROVE Fine
  BY <1>16 DEF WriteArchive, PlaceOK
<1>17. ASSUME NEW c \in Call, UnlinkSignals(c) PROVE Fine
  BY <1>17 DEF UnlinkSignals, Forget, AfterClaims, AfterHandoff, AfterExpired, PlaceOK
<1>18. ASSUME NEW c \in Call, SwallowError(c) PROVE Fine
  BY <1>18 DEF SwallowError, Forget, AfterClaims, AfterHandoff, AfterExpired, PlaceOK
<1>19. ASSUME NEW c \in Call, LookForTask(c) PROVE Fine
  BY <1>19 DEF LookForTask, AfterLook, PlaceOK
<1>20. ASSUME NEW c \in Call, MakeTask(c) PROVE Fine
  BY <1>20 DEF MakeTask, PlaceOK
<1>21. ASSUME NEW c \in Call, AssignTask(c) PROVE Fine
  BY <1>21 DEF AssignTask, Refused, PlaceOK
<1>22. ASSUME NEW c \in Call, LinkTask(c) PROVE Fine
  BY <1>22 DEF LinkTask, AfterHandoff, PlaceOK
<1>23. ASSUME NEW c \in Call, WriteRun(c) PROVE Fine
  BY <1>23 DEF WriteRun, PlaceOK
<1>24. ASSUME NEW c \in Call, Die(c) PROVE Fine
  BY <1>24 DEF Die, PlaceOK
<1>25. ASSUME NEW c \in Call, ReapPromptly(c) PROVE Fine
  BY <1>25 DEF ReapPromptly, Reap, PlaceOK
<1>26. ASSUME NEW r \in Call, AgeDeadLock(r) PROVE Fine
  BY <1>26 DEF AgeDeadLock, AgeLock, PlaceOK
<1>27. ASSUME NEW r \in Call, AgeRun(r) PROVE Fine
  BY <1>27 DEF AgeRun, PlaceOK
<1>28. ASSUME NEW t \in Call, EndTask(t) PROVE Fine
  BY <1>28 DEF EndTask, PlaceOK
<1>29. CASE UNCHANGED vars
  BY <1>29 DEF vars, PlaceOK
<1> QED
  BY <1>1, <1>2, <1>3, <1>4, <1>5, <1>6, <1>7, <1>8, <1>9, <1>10, <1>11, <1>12, <1>13,
     <1>14, <1>15, <1>16, <1>17, <1>18, <1>19, <1>20, <1>21, <1>22, <1>23, <1>24, <1>25,
     <1>26, <1>27, <1>28, <1>29
  DEF PromptNext, Start, Mutate, Around

LEMMA CopyStep ==
    TypeOK /\ (\A c \in Call : PlaceOK(c)) /\ NameInv /\ LockInv /\ CopyInv /\ [PromptNext]_vars
        => CopyInv'
<1> SUFFICES ASSUME TypeOK, \A c \in Call : PlaceOK(c), NameInv, LockInv, CopyInv, [PromptNext]_vars,
                    NEW d \in Call, Reading(d)'
             PROVE  /\ copy'[d] # None
                    /\ Agree(copy'[d], runs'[target'[d]])
                    /\ op'[d] # "log" => copy'[d].status = "in_progress"
  BY DEF CopyInv, Reading
<1>1. CASE Reads(d)
  BY <1>1 DEF Reads, Agree
<1>2. CASE KeepsCopy(d)
  <2>1. Agree(runs'[target[d]], runs[target[d]])
    BY <1>2, ReadKept DEF KeepsCopy
  <2> QED BY <1>2, <2>1 DEF KeepsCopy, CopyInv, Agree
<1> QED BY <1>1, <1>2, ReadingStep

-----------------------------------------------------------------------------
(* Handoff tasks.  A finish that is handing off keeps the task it has, finds *)
(* one or makes one.                                                        *)
KeepsTask(d) ==
    /\ HasTask(d) /\ task'[d] = task[d]
    /\ pc'[d] # "assign" => \/ pc[d] # "assign"
                            \/ pc'[d] = "link" /\ tasks' = [tasks EXCEPT ![task[d]].assigned = TRUE]
    /\ pc'[d] \notin {"assign", "link"} => pc[d] # "assign" /\ (pc[d] = "link" => LinkTask(d))

FindsTask(d) ==
    /\ pc[d] = "look" /\ tasks' = tasks /\ task'[d] \in Created /\ Same(task'[d], d)
    /\ pc'[d] = AfterLook(task'[d])

LEMMA HavingStep ==
    TypeOK /\ (\A c \in Call : PlaceOK(c)) /\ [PromptNext]_vars
        => \A d \in Call : HasTask(d)' => KeepsTask(d) \/ FindsTask(d) \/ MakeTask(d)
<1> SUFFICES ASSUME TypeOK, \A c \in Call : PlaceOK(c), [PromptNext]_vars, NEW d \in Call, HasTask(d)'
             PROVE  KeepsTask(d) \/ FindsTask(d) \/ MakeTask(d)
  OBVIOUS
<1> DEFINE Fine == KeepsTask(d) \/ FindsTask(d) \/ MakeTask(d)
<1>100. PlaceOK(d)
  OBVIOUS
<1> USE <1>100 DEF TypeOK, Go, files, memory, KeepsTask, HasTask, HandsOff
<1>1. ASSUME NEW c \in Call, ReadForStart(c) PROVE Fine
  BY <1>1 DEF ReadForStart, Begin, End, PlaceOK
<1>2. ASSUME NEW c \in Call, WriteNewRun(c) PROVE Fine
  BY <1>2 DEF WriteNewRun, PlaceOK
<1>3. ASSUME NEW c \in Call, ClaimPath(c) PROVE Fine
  BY <1>3 DEF ClaimPath, End, PlaceOK
<1>4. ASSUME NEW c \in Call, Select(c) PROVE Fine
  BY <1>4 DEF Select, Begin, PlaceOK
<1>5. ASSUME NEW c \in Call, ListOrphans(c) PROVE Fine
  BY <1>5 DEF ListOrphans, Begin, PlaceOK
<1>6. ASSUME NEW c \in Call, NextOrphan(c) PROVE Fine
  BY <1>6 DEF NextOrphan, End, PlaceOK
<1>7. ASSUME NEW c \in Call, Acquire(c) PROVE Fine
  BY <1>7 DEF Acquire, PlaceOK
<1>8. ASSUME NEW c \in Call, StatLock(c) PROVE Fine
  BY <1>8 DEF StatLock, PlaceOK
<1>9. ASSUME NEW c \in Call, TimeOut(c) PROVE Fine
  BY <1>9 DEF TimeOut, End, PlaceOK
<1>10. ASSUME NEW c \in Call, Unlock(c) PROVE Fine
  BY <1>10 DEF Unlock, PlaceOK
<1>11. ASSUME NEW c \in Call, ReadForLog(c) PROVE Fine
  BY <1>11 DEF ReadForLog, PlaceOK
<1>12. ASSUME NEW c \in Call, ReadForFinish(c) PROVE Fine
  BY <1>12 DEF ReadForFinish, Refused, PlaceOK
<1>13. ASSUME NEW c \in Call, ReadForSweep(c) PROVE Fine
  BY <1>13 DEF ReadForSweep, Refused, PlaceOK
<1>14. ASSUME NEW c \in Call, ReadClaims(c) PROVE Fine
  BY <1>14 DEF ReadClaims, ReadSignals, AfterClaims, AfterHandoff, PlaceOK
<1>15. ASSUME NEW c \in Call, ReadExpired(c) PROVE Fine
  BY <1>15 DEF ReadExpired, ReadSignals, Begin, PlaceOK
<1>16. ASSUME NEW c \in Call, WriteArchive(c) PROVE Fine
  BY <1>16 DEF WriteArchive, PlaceOK
<1>17. ASSUME NEW c \in Call, UnlinkSignals(c) PROVE Fine
  BY <1>17 DEF UnlinkSignals, Forget, AfterClaims, AfterHandoff, AfterExpired, PlaceOK
<1>18. ASSUME NEW c \in Call, SwallowError(c) PROVE Fine
  BY <1>18 DEF SwallowError, Forget, AfterClaims, AfterHandoff, AfterExpired, PlaceOK
<1>19. ASSUME NEW c \in Call, LookForTask(c) PROVE Fine
  <2>1. CASE d # c
    BY <1>19, <2>1 DEF LookForTask, PlaceOK
  <2>2. CASE d = c
    <3>1. pc'[d] # "make"
      BY <1>19, <2>2 DEF PlaceOK
    <3>2. PICK u \in Created : Same(u, c) /\ task' = [task EXCEPT ![c] = u] /\ pc' = [pc EXCEPT ![c] = AfterLook(u)]
      BY <1>19, <2>2, <3>1 DEF LookForTask
    <3>3. task'[d] = u /\ pc'[d] = AfterLook(u) /\ tasks' = tasks
      BY <1>19, <2>2, <3>2 DEF LookForTask
    <3> QED BY <1>19, <2>2, <3>2, <3>3 DEF FindsTask, LookForTask
  <2> QED BY <2>1, <2>2
<1>20. ASSUME NEW c \in Call, MakeTask(c) PROVE Fine
  <2>1. CASE d = c
    BY <1>20, <2>1
  <2>2. CASE d # c
    BY <1>20, <2>2 DEF MakeTask, PlaceOK
  <2> QED BY <2>1, <2>2
<1>21. ASSUME NEW c \in Call, AssignTask(c) PROVE Fine
  BY <1>21 DEF AssignTask, Refused, PlaceOK
<1>22. ASSUME NEW c \in Call, LinkTask(c) PROVE Fine
  BY <1>22 DEF LinkTask, AfterHandoff, PlaceOK
<1>23. ASSUME NEW c \in Call, WriteRun(c) PROVE Fine
  BY <1>23 DEF WriteRun, PlaceOK
<1>24. ASSUME NEW c \in Call, Die(c) PROVE Fine
  BY <1>24 DEF Die, PlaceOK
<1>25. ASSUME NEW c \in Call, ReapPromptly(c) PROVE Fine
  BY <1>25 DEF ReapPromptly, Reap, PlaceOK
<1>26. ASSUME NEW r \in Call, AgeDeadLock(r) PROVE Fine
  BY <1>26 DEF AgeDeadLock, AgeLock, PlaceOK
<1>27. ASSUME NEW r \in Call, AgeRun(r) PROVE Fine
  BY <1>27 DEF AgeRun, PlaceOK
<1>28. ASSUME NEW t \in Call, EndTask(t) PROVE Fine
  BY <1>28 DEF EndTask, PlaceOK
<1>29. CASE UNCHANGED vars
  BY <1>29 DEF vars, PlaceOK
<1> QED
  BY <1>1, <1>2, <1>3, <1>4, <1>5, <1>6, <1>7, <1>8, <1>9, <1>10, <1>11, <1>12, <1>13,
     <1>14, <1>15, <1>16, <1>17, <1>18, <1>19, <1>20, <1>21, <1>22, <1>23, <1>24, <1>25,
     <1>26, <1>27, <1>28, <1>29
  DEF PromptNext, Start, Mutate, Around

LEMMA MakingStep ==
    TypeOK /\ [PromptNext]_vars
        => \A d \in Call : pc'[d] = "make" =>
             pc[d] = "make" \/ (pc[d] = "look" /\ tasks' = tasks /\ \A u \in Created : ~Same(u, d))
<1> SUFFICES ASSUME TypeOK, [PromptNext]_vars, NEW d \in Call, pc'[d] = "make"
             PROVE  pc[d] = "make" \/ (pc[d] = "look" /\ tasks' = tasks /\ \A u \in Created : ~Same(u, d))
  OBVIOUS
<1> DEFINE Fine == pc[d] = "make" \/ (pc[d] = "look" /\ tasks' = tasks /\ \A u \in Created : ~Same(u, d))
<1> USE DEF TypeOK, Go, files, vars
<1>1. ASSUME NEW c \in Call, ReadForStart(c) PROVE Fine
  BY <1>1 DEF ReadForStart, Begin, End
<1>2. ASSUME NEW c \in Call, WriteNewRun(c) PROVE Fine
  BY <1>2 DEF WriteNewRun
<1>3. ASSUME NEW c \in Call, ClaimPath(c) PROVE Fine
  BY <1>3 DEF ClaimPath, End
<1>4. ASSUME NEW c \in Call, Select(c) PROVE Fine
  BY <1>4 DEF Select, Begin
<1>5. ASSUME NEW c \in Call, ListOrphans(c) PROVE Fine
  BY <1>5 DEF ListOrphans, Begin
<1>6. ASSUME NEW c \in Call, NextOrphan(c) PROVE Fine
  BY <1>6 DEF NextOrphan, End
<1>7. ASSUME NEW c \in Call, Acquire(c) PROVE Fine
  BY <1>7 DEF Acquire
<1>8. ASSUME NEW c \in Call, StatLock(c) PROVE Fine
  BY <1>8 DEF StatLock
<1>9. ASSUME NEW c \in Call, TimeOut(c) PROVE Fine
  BY <1>9 DEF TimeOut, End
<1>10. ASSUME NEW c \in Call, Unlock(c) PROVE Fine
  BY <1>10 DEF Unlock
<1>11. ASSUME NEW c \in Call, ReadForLog(c) PROVE Fine
  BY <1>11 DEF ReadForLog
<1>12. ASSUME NEW c \in Call, ReadForFinish(c) PROVE Fine
  BY <1>12 DEF ReadForFinish, Refused
<1>13. ASSUME NEW c \in Call, ReadForSweep(c) PROVE Fine
  BY <1>13 DEF ReadForSweep, Refused
<1>14. ASSUME NEW c \in Call, ReadClaims(c) PROVE Fine
  BY <1>14 DEF ReadClaims, ReadSignals, AfterClaims, AfterHandoff
<1>15. ASSUME NEW c \in Call, ReadExpired(c) PROVE Fine
  BY <1>15 DEF ReadExpired, ReadSignals, Begin
<1>16. ASSUME NEW c \in Call, WriteArchive(c) PROVE Fine
  BY <1>16 DEF WriteArchive
<1>17. ASSUME NEW c \in Call, UnlinkSignals(c) PROVE Fine
  BY <1>17 DEF UnlinkSignals, Forget, AfterClaims, AfterHandoff, AfterExpired
<1>18. ASSUME NEW c \in Call, SwallowError(c) PROVE Fine
  BY <1>18 DEF SwallowError, Forget, AfterClaims, AfterHandoff, AfterExpired
<1>19. ASSUME NEW c \in Call, LookForTask(c) PROVE Fine
  <2>1. c = d \/ pc'[d] = pc[d]
    BY <1>19 DEF LookForTask
  <2>2. c = d => pc[d] = "look" /\ tasks' = tasks /\ \A u \in Created : ~Same(u, d)
    BY <1>19 DEF LookForTask, AfterLook
  <2> QED BY <2>1, <2>2
<1>20. ASSUME NEW c \in Call, MakeTask(c) PROVE Fine
  BY <1>20 DEF MakeTask
<1>21. ASSUME NEW c \in Call, AssignTask(c) PROVE Fine
  BY <1>21 DEF AssignTask, Refused
<1>22. ASSUME NEW c \in Call, LinkTask(c) PROVE Fine
  BY <1>22 DEF LinkTask, AfterHandoff
<1>23. ASSUME NEW c \in Call, WriteRun(c) PROVE Fine
  BY <1>23 DEF WriteRun
<1>24. ASSUME NEW c \in Call, Die(c) PROVE Fine
  BY <1>24 DEF Die
<1>25. ASSUME NEW c \in Call, ReapPromptly(c) PROVE Fine
  BY <1>25 DEF ReapPromptly, Reap
<1>26. ASSUME NEW r \in Call, AgeDeadLock(r) PROVE Fine
  BY <1>26 DEF AgeDeadLock, AgeLock
<1>27. ASSUME NEW r \in Call, AgeRun(r) PROVE Fine
  BY <1>27 DEF AgeRun
<1>28. ASSUME NEW t \in Call, EndTask(t) PROVE Fine
  BY <1>28 DEF EndTask
<1>29. CASE UNCHANGED vars
  BY <1>29 DEF vars
<1> QED
  BY <1>1, <1>2, <1>3, <1>4, <1>5, <1>6, <1>7, <1>8, <1>9, <1>10, <1>11, <1>12, <1>13,
     <1>14, <1>15, <1>16, <1>17, <1>18, <1>19, <1>20, <1>21, <1>22, <1>23, <1>24, <1>25,
     <1>26, <1>27, <1>28, <1>29
  DEF PromptNext, Start, Mutate, Around

LEMMA TaskStep ==
    TypeOK /\ (\A c \in Call : PlaceOK(c)) /\ NameInv /\ LockInv /\ CopyInv /\ TaskInv
        /\ [PromptNext]_vars => TaskInv'
<1> SUFFICES ASSUME TypeOK, \A c \in Call : PlaceOK(c), NameInv, LockInv, CopyInv, TaskInv,
                    [PromptNext]_vars
             PROVE  TaskInv'
  OBVIOUS
<1>1. \A u \in Created : TaskKept(u)
  BY TasksStay
<1>2. ASSUME NEW d \in Call, HasTask(d)'
      PROVE  /\ task'[d] \in Created'
             /\ Same(task[d], d)'
             /\ pc'[d] # "assign" => tasks'[task'[d]].assigned
             /\ pc'[d] \notin {"assign", "link"} => tasks'[task'[d]].linked
  <2>1. CASE KeepsTask(d)
    <3>1. PICK u \in Created : u = task[d] /\ Same(u, d) /\ TaskKept(u)
      BY <1>1, <2>1 DEF KeepsTask, TaskInv
    <3>2. /\ pc[d] # "assign" => tasks[u].assigned
          /\ pc[d] \notin {"assign", "link"} => tasks[u].linked
      BY <2>1, <3>1 DEF KeepsTask, TaskInv
    <3>3. target'[d] = target[d] /\ asked'[d] = asked[d]
      BY <2>1, SettledStep DEF Settled, KeepsTask, HasTask
    <3>4. u \in Call /\ tasks[u] \in Handoff
      BY DEF Created, TypeOK
    <3>5. ASSUME tasks' = [tasks EXCEPT ![u].assigned = TRUE] PROVE tasks'[u].assigned
      BY <3>4, <3>5 DEF Handoff, TypeOK
    <3>6. ASSUME LinkTask(d) PROVE tasks'[u].linked
      BY <3>1, <3>4, <3>6 DEF LinkTask, Handoff, TypeOK
    <3> QED BY <2>1, <3>1, <3>2, <3>3, <3>5, <3>6 DEF KeepsTask, TaskKept, Same
  <2>2. CASE FindsTask(d)
    <3>1. target'[d] = target[d] /\ asked'[d] = asked[d]
      BY <2>2, SettledStep DEF Settled, FindsTask
    <3> QED BY <2>2, <3>1 DEF FindsTask, Same, AfterLook, Created
  <2>3. CASE MakeTask(d)
    <3>1. tasks'[d] = [run |-> target[d], note |-> asked[d].note, assigned |-> FALSE,
                       linked |-> FALSE, ended |-> FALSE]
      BY <2>3 DEF MakeTask, TypeOK
    <3>2. tasks'[d] # None
      <4>1. tasks'[d] \in Handoff
        BY <2>3, <3>1, NewTaskType DEF MakeTask
      <4> QED BY <4>1, ViewRunsAssumption
    <3>3. task'[d] = d /\ pc'[d] = "assign" /\ target'[d] = target[d] /\ asked'[d] = asked[d]
      BY <2>3 DEF MakeTask, Go, TypeOK
    <3> QED BY <3>1, <3>2, <3>3 DEF Same, Created
  <2> QED BY <1>2, <2>1, <2>2, <2>3, HavingStep
<1>3. ASSUME NEW d \in Call, pc'[d] = "make", NEW u \in Created', Same(u, d)'
      PROVE  FALSE
  <2>1. target'[d] = target[d] /\ asked'[d] = asked[d]
    BY <1>3, MakingStep, SettledStep DEF Settled
  <2>2. CASE u \in Created
    <3>1. Same(u, d)
      BY <1>1, <1>3, <2>1, <2>2 DEF TaskKept, Same
    <3> QED BY <1>3, <2>2, <3>1, MakingStep DEF TaskInv
  <2>3. CASE u \notin Created
    <3>1. MakeTask(u) /\ u \in Call
      BY <2>3, TasksStay DEF Created
    <3>2. pc'[u] = "assign" /\ tasks'[u].run = target[u] /\ tasks' # tasks
      <4>1. tasks'[u] # None /\ tasks[u] = None
        BY <2>3, <3>1 DEF Created
      <4> QED BY <3>1, <4>1 DEF MakeTask, Go, TypeOK
    <3>3. pc[d] = "make" /\ target[u] = target[d]
      BY <1>3, <2>1, <3>2, MakingStep DEF Same
    <3>4. Holding(d) /\ Holding(u)
      BY <3>1, <3>3 DEF MakeTask, Holding, Released, PlaceOK, HandsOff
    <3> QED BY <1>3, <3>1, <3>2, <3>3, <3>4, Alone
  <2> QED BY <2>2, <2>3
<1> QED BY <1>2, <1>3 DEF TaskInv

-----------------------------------------------------------------------------
(* Journals only grow.                                                      *)
Grows(r) ==
    /\ runs'[r] # None
    /\ runs[r].steps \subseteq runs'[r].steps
    /\ runs[r].status \in Terminal =>
         runs'[r].status = runs[r].status /\ runs'[r].ender = runs[r].ender

LEMMA Written ==
    ASSUME TypeOK, NEW c \in Call, PlaceOK(c), CopyInv, WriteRun(c), target[c] \in Call
    PROVE  /\ Agree(copy[c], runs[target[c]])
           /\ op[c] = "log" => /\ runs'[target[c]].steps = copy[c].steps \cup {c}
                               /\ runs'[target[c]].status = copy[c].status
                               /\ runs'[target[c]].ender = copy[c].ender
           /\ op[c] # "log" => /\ copy[c].status = "in_progress"
                               /\ runs'[target[c]].steps = copy[c].steps
                               /\ runs'[target[c]].ender = c
           /\ op[c] = "finish" => runs'[target[c]].status = asked[c].as
<1>1. /\ copy[c] \in RunJournal /\ Agree(copy[c], runs[target[c]])
      /\ op[c] # "log" => copy[c].status = "in_progress"
  BY DEF WriteRun, CopyInv, PlaceOK, Holding, Released, TypeOK
<1>2. runs'[target[c]] = Mutated(c)
  BY DEF WriteRun, TypeOK
<1>3. CASE op[c] = "log"
  <2>1. Mutated(c) = [copy[c] EXCEPT !.steps = @ \cup {c}, !.untouched = FALSE]
    BY <1>3 DEF Mutated
  <2> QED BY <1>1, <1>2, <1>3, <2>1 DEF RunJournal
<1>4. CASE op[c] # "log"
  <2> DEFINE as == IF op[c] = "sweep" THEN "failed" ELSE asked[c].as
  <2>1. Mutated(c) = [copy[c] EXCEPT !.status = as, !.ender = c, !.untouched = FALSE]
    BY <1>4 DEF Mutated
  <2>2. /\ Mutated(c).steps = copy[c].steps /\ Mutated(c).ender = c /\ Mutated(c).status = as
    BY <1>1, <2>1 DEF RunJournal
  <2> QED BY <1>1, <1>2, <1>4, <2>2
<1> QED BY <1>3, <1>4

LEMMA JournalStep ==
    TypeOK /\ (\A c \in Call : PlaceOK(c)) /\ NameInv /\ CopyInv /\ [PromptNext]_vars
        => \A r \in Started : Grows(r)
<1> SUFFICES ASSUME TypeOK, \A c \in Call : PlaceOK(c), NameInv, CopyInv, [PromptNext]_vars,
                    NEW r \in Started
             PROVE  Grows(r)
  OBVIOUS
<1>1. r \in Call /\ runs[r] \in RunJournal /\ runs'[r] # None
  BY StartedStays DEF Started, TypeOK
<1>2. CASE runs'[r] = runs[r]
  BY <1>1, <1>2 DEF Grows
<1>3. ~WriteNewRun(r)
  BY DEF WriteNewRun, NameInv
<1>4. CASE AgeRun(r)
  <2>1. runs'[r] = [runs[r] EXCEPT !.untouched = TRUE]
    BY <1>1, <1>4 DEF AgeRun, TypeOK
  <2> QED BY <1>1, <2>1 DEF Grows, RunJournal
<1>5. ASSUME NEW c \in Call, WriteRun(c), target[c] = r PROVE Grows(r)
  BY <1>1, <1>5, Written DEF Grows, Agree, Terminal
<1> QED BY <1>1, <1>2, <1>3, <1>4, <1>5, RunsMove DEF RunMoves

-----------------------------------------------------------------------------
(* Answers.  An answer that all is well is given by the write alone.         *)
LEMMA AnsweredStep ==
    TypeOK /\ (\A c \in Call : PlaceOK(c)) /\ [PromptNext]_vars
        => \A d \in Call : op'[d] \in {"log", "finish"} /\ answer'[d] = "ok" =>
             answer[d] = "ok" \/ WriteRun(d)
<1> SUFFICES ASSUME TypeOK, \A c \in Call : PlaceOK(c), [PromptNext]_vars, NEW d \in Call,
                    op'[d] \in {"log", "finish"}, answer'[d] = "ok"
             PROVE  answer[d] = "ok" \/ WriteRun(d)
  OBVIOUS
<1> DEFINE Fine == answer[d] = "ok" \/ WriteRun(d)
<1> USE DEF TypeOK, Go, files, memory, PlaceOK
<1>1. ASSUME NEW c \in Call, ReadForStart(c) PROVE Fine
  BY <1>1 DEF ReadForStart, Begin, End
<1>2. ASSUME NEW c \in Call, WriteNewRun(c) PROVE Fine
  BY <1>2 DEF WriteNewRun
<1>3. ASSUME NEW c \in Call, ClaimPath(c) PROVE Fine
  BY <1>3 DEF ClaimPath, End
<1>4. ASSUME NEW c \in Call, Select(c) PROVE Fine
  BY <1>4 DEF Select, Begin
<1>5. ASSUME NEW c \in Call, ListOrphans(c) PROVE Fine
  BY <1>5 DEF ListOrphans, Begin
<1>6. ASSUME NEW c \in Call, NextOrphan(c) PROVE Fine
  BY <1>6 DEF NextOrphan, End
<1>7. ASSUME NEW c \in Call, Acquire(c) PROVE Fine
  BY <1>7 DEF Acquire
<1>8. ASSUME NEW c \in Call, StatLock(c) PROVE Fine
  BY <1>8 DEF StatLock
<1>9. ASSUME NEW c \in Call, TimeOut(c) PROVE Fine
  BY <1>9 DEF TimeOut, End
<1>10. ASSUME NEW c \in Call, Unlock(c) PROVE Fine
  BY <1>10 DEF Unlock
<1>11. ASSUME NEW c \in Call, ReadForLog(c) PROVE Fine
  BY <1>11 DEF ReadForLog
<1>12. ASSUME NEW c \in Call, ReadForFinish(c) PROVE Fine
  BY <1>12 DEF ReadForFinish, Refused
<1>13. ASSUME NEW c \in Call, ReadForSweep(c) PROVE Fine
  BY <1>13 DEF ReadForSweep, Refused
<1>14. ASSUME NEW c \in Call, ReadClaims(c) PROVE Fine
  BY <1>14 DEF ReadClaims, ReadSignals, AfterClaims, AfterHandoff
<1>15. ASSUME NEW c \in Call, ReadExpired(c) PROVE Fine
  BY <1>15 DEF ReadExpired, ReadSignals, Begin
<1>16. ASSUME NEW c \in Call, WriteArchive(c) PROVE Fine
  BY <1>16 DEF WriteArchive
<1>17. ASSUME NEW c \in Call, UnlinkSignals(c) PROVE Fine
  BY <1>17 DEF UnlinkSignals, Forget, AfterClaims, AfterHandoff, AfterExpired
<1>18. ASSUME NEW c \in Call, SwallowError(c) PROVE Fine
  BY <1>18 DEF SwallowError, Forget, AfterClaims, AfterHandoff, AfterExpired
<1>19. ASSUME NEW c \in Call, LookForTask(c) PROVE Fine
  BY <1>19 DEF LookForTask, AfterLook
<1>20. ASSUME NEW c \in Call, MakeTask(c) PROVE Fine
  BY <1>20 DEF MakeTask
<1>21. ASSUME NEW c \in Call, AssignTask(c) PROVE Fine
  BY <1>21 DEF AssignTask, Refused
<1>22. ASSUME NEW c \in Call, LinkTask(c) PROVE Fine
  BY <1>22 DEF LinkTask, AfterHandoff
<1>23. ASSUME NEW c \in Call, WriteRun(c) PROVE Fine
  <2>1. CASE c = d
    BY <1>23, <2>1
  <2>2. CASE c # d
    BY <1>23, <2>2 DEF WriteRun
  <2> QED BY <2>1, <2>2
<1>24. ASSUME NEW c \in Call, Die(c) PROVE Fine
  BY <1>24 DEF Die
<1>25. ASSUME NEW c \in Call, ReapPromptly(c) PROVE Fine
  BY <1>25 DEF ReapPromptly, Reap
<1>26. ASSUME NEW r \in Call, AgeDeadLock(r) PROVE Fine
  BY <1>26 DEF AgeDeadLock, AgeLock
<1>27. ASSUME NEW r \in Call, AgeRun(r) PROVE Fine
  BY <1>27 DEF AgeRun
<1>28. ASSUME NEW t \in Call, EndTask(t) PROVE Fine
  BY <1>28 DEF EndTask
<1>29. CASE UNCHANGED vars
  BY <1>29 DEF vars
<1> QED
  BY <1>1, <1>2, <1>3, <1>4, <1>5, <1>6, <1>7, <1>8, <1>9, <1>10, <1>11, <1>12, <1>13,
     <1>14, <1>15, <1>16, <1>17, <1>18, <1>19, <1>20, <1>21, <1>22, <1>23, <1>24, <1>25,
     <1>26, <1>27, <1>28, <1>29
  DEF PromptNext, Start, Mutate, Around

LEMMA Standing ==
    TypeOK /\ (\A c \in Call : PlaceOK(c)) /\ [PromptNext]_vars
        => \A d \in Call : op'[d] \in {"log", "finish"} /\ answer'[d] = "ok" =>
             /\ op'[d] = op[d] /\ asked'[d] = asked[d] /\ target'[d] = target[d]
             /\ answer[d] = "ok" \/ WriteRun(d)
<1> SUFFICES ASSUME TypeOK, \A c \in Call : PlaceOK(c), [PromptNext]_vars, NEW d \in Call,
                    op'[d] \in {"log", "finish"}, answer'[d] = "ok"
             PROVE  /\ op'[d] = op[d] /\ asked'[d] = asked[d] /\ target'[d] = target[d]
                    /\ answer[d] = "ok" \/ WriteRun(d)
  OBVIOUS
<1>1. answer[d] = "ok" \/ WriteRun(d)
  BY AnsweredStep
<1>2. pc[d] # "idle" /\ Settled(d)
  BY <1>1, SettledStep DEF WriteRun, PlaceOK
<1>3. pc[d] # "next"
  BY <1>2 DEF Settled, PlaceOK
<1> QED BY <1>1, <1>2, <1>3 DEF Settled

LEMMA AnswerStep ==
    TypeOK /\ (\A c \in Call : PlaceOK(c)) /\ NameInv /\ CopyInv /\ AnswersAreTrue /\ [PromptNext]_vars
        => AnswersAreTrue'
<1> SUFFICES ASSUME TypeOK, \A c \in Call : PlaceOK(c), NameInv, CopyInv, AnswersAreTrue,
                    [PromptNext]_vars, NEW d \in Call, op'[d] \in {"log", "finish"},
                    answer'[d] = "ok"
             PROVE  /\ op'[d] = "log" => d \in runs'[target'[d]].steps
                    /\ op'[d] = "finish" => /\ runs'[target'[d]].ender = d
                                            /\ runs'[target'[d]].status = asked'[d].as
  BY DEF AnswersAreTrue
<1>1. /\ op'[d] = op[d] /\ asked'[d] = asked[d] /\ target'[d] = target[d]
      /\ answer[d] = "ok" \/ WriteRun(d)
  BY Standing
<1>2. target[d] \in Started /\ target[d] \in Call /\ Grows(target[d])
  BY <1>1, JournalStep DEF NameInv, Targeting, Started
<1>3. CASE answer[d] = "ok"
  <2>1. op[d] = "finish" => asked[d].as \in Terminal
    BY ViewRunsAssumption DEF PlaceOK
  <2> QED BY <1>1, <1>2, <1>3, <2>1 DEF Grows, AnswersAreTrue
<1>4. CASE WriteRun(d)
  BY <1>1, <1>2, <1>4, Written
<1> QED BY <1>1, <1>3, <1>4

LEMMA HandoffStep ==
    TypeOK /\ (\A c \in Call : PlaceOK(c)) /\ NameInv /\ TaskInv /\ HandedOffOnce /\ [PromptNext]_vars
        => HandedOffOnce'
<1> SUFFICES ASSUME TypeOK, \A c \in Call : PlaceOK(c), NameInv, TaskInv, HandedOffOnce,
                    [PromptNext]_vars
             PROVE  HandedOffOnce'
  OBVIOUS
<1>1. /\ \A t \in Created : TaskKept(t)
      /\ \A t \in Created' : t \in Created \/ MakeTask(t)
  BY TasksStay
<1>2. ASSUME NEW t \in Created', NEW u \in Created',
             tasks'[t].run = tasks'[u].run, tasks'[t].note = tasks'[u].note
      PROVE  t = u
  <2>1. ASSUME NEW v \in Created', MakeTask(v), NEW w \in Created, tasks'[v].run = tasks'[w].run,
               tasks'[v].note = tasks'[w].note
        PROVE  FALSE
    <3>1. v \in Call /\ tasks'[v].run = target[v] /\ tasks'[v].note = asked[v].note
      BY <2>1 DEF MakeTask, TypeOK, Created
    <3>2. Same(w, v)
      BY <1>1, <2>1, <3>1 DEF TaskKept, Same
    <3> QED BY <2>1, <3>1, <3>2 DEF MakeTask, TaskInv
  <2>2. CASE t \in Created /\ u \in Created
    BY <1>1, <1>2, <2>2 DEF TaskKept, HandedOffOnce
  <2>3. CASE t \notin Created /\ u \notin Created
    <3>1. MakeTask(t) /\ t \in Call /\ u \in Call /\ tasks[u] = None /\ tasks'[u] # None
      BY <1>1, <2>3 DEF Created
    <3> QED BY <3>1 DEF MakeTask, TypeOK
  <2> QED BY <1>1, <1>2, <2>1, <2>2, <2>3
<1>3. ASSUME NEW d \in Call, HandsOff(d)', answer'[d] = "ok"
      PROVE  \E t \in Created' : Same(t, d)' /\ tasks'[t].assigned /\ tasks'[t].linked
  <2>1. /\ op'[d] = op[d] /\ asked'[d] = asked[d] /\ target'[d] = target[d]
        /\ answer[d] = "ok" \/ WriteRun(d)
    BY <1>3, Standing DEF HandsOff
  <2>2. HandsOff(d)
    BY <1>3, <2>1 DEF HandsOff
  <2>3. PICK t \in Created : Same(t, d) /\ tasks[t].assigned /\ tasks[t].linked
    <3>1. CASE answer[d] = "ok"
      BY <2>2, <3>1 DEF HandedOffOnce
    <3>2. CASE WriteRun(d)
      BY <2>2, <3>2 DEF WriteRun, TaskInv, HasTask
    <3> QED BY <2>1, <3>1, <3>2
  <2>4. t \in Created' /\ Same(t, d)' /\ tasks'[t].assigned /\ tasks'[t].linked
    BY <1>1, <2>1, <2>3 DEF TaskKept, Same
  <2> QED BY <2>4
<1> QED BY <1>2, <1>3 DEF HandedOffOnce

-----------------------------------------------------------------------------
LEMMA InitOK == Init => IInv
<1> SUFFICES ASSUME Init PROVE IInv
  OBVIOUS
<1> USE ViewRunsAssumption DEF Init
<1>1. TypeOK
  BY DEF TypeOK, Locations, Operations, Answers
<1>2. \A c \in Call : PlaceOK(c) /\ ~Holding(c) /\ ~Targeting(c) /\ ~HasTask(c) /\ pc[c] # "make"
  BY DEF PlaceOK, Holding, Released, Targeting, HasTask, HandsOff
<1>3. Started = {} /\ Created = {}
  BY DEF Started, Created
<1> QED BY <1>1, <1>2, <1>3 DEF IInv, NameInv, LockInv, CopyInv, TaskInv, AnswersAreTrue, HandedOffOnce

LEMMA Stepping == IInv /\ [PromptNext]_vars => IInv'
<1> SUFFICES ASSUME IInv, [PromptNext]_vars PROVE IInv'
  OBVIOUS
<1>1. TypeOK' /\ (\A c \in Call : PlaceOK(c)')
  BY TypeStep, PlaceStep DEF IInv
<1>2. NameInv' /\ LockInv'
  BY NameStep, LockStep DEF IInv
<1>3. CopyInv' /\ TaskInv'
  BY CopyStep, TaskStep DEF IInv
<1>4. AnswersAreTrue' /\ HandedOffOnce'
  BY AnswerStep, HandoffStep DEF IInv
<1> QED BY <1>1, <1>2, <1>3, <1>4 DEF IInv

(* The invariant holds as long as no lock is held for five minutes and no    *)
(* lock file is replaced between the look at its age and its removal.       *)
THEOREM Invariance == PromptSpec => []IInv
<1>1. Init => IInv
  BY InitOK
<1>2. IInv /\ [PromptNext]_vars => IInv'
  BY Stepping
<1> QED BY <1>1, <1>2, PTL DEF PromptSpec

(* What a log or a finish was answered is so, whoever logs, finishes, sweeps *)
(* or dies meanwhile.                                                       *)
THEOREM AnswersStayTrue == PromptSpec => []AnswersAreTrue
<1>1. IInv => AnswersAreTrue
  BY DEF IInv
<1> QED BY <1>1, Invariance, PTL

(* A run has one task under one note, though finishes die half-way, are made *)
(* again or come together; and a finish that was answered has handed off.   *)
THEOREM OneHandoff == PromptSpec => []HandedOffOnce
<1>1. IInv => HandedOffOnce
  BY DEF IInv
<1> QED BY <1>1, Invariance, PTL

(* No step takes back what a journal says: a mutation writes the whole file  *)
(* from a copy, and the copy is still what the file says.                   *)
THEOREM NothingIsOverwritten == PromptSpec => JournalsOnlyGrow
<1>1. IInv /\ [PromptNext]_vars
        => [\A r \in Call : runs[r] # None =>
              /\ runs'[r] # None
              /\ runs[r].steps \subseteq runs'[r].steps
              /\ runs[r].status \in Terminal =>
                   runs'[r].status = runs[r].status /\ runs'[r].ender = runs[r].ender]_vars
  BY JournalStep DEF IInv, Grows, Started
<1> QED BY <1>1, Invariance, PTL DEF PromptSpec, JournalsOnlyGrow

===============================================================================
