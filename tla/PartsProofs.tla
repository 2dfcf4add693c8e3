------------------------------ MODULE PartsProofs ------------------------------
(***************************************************************************)
(* What is proved of the parts of the system that are checked together in    *)
(* MCParts, each for any values of its constants.                           *)
(***************************************************************************)
EXTENDS MCParts, Sequences, FiniteSetTheorems, TLAPS

-----------------------------------------------------------------------------
(***************************************************************************)
(* Tasks.  That a task which is done waits for nothing, for any callers,     *)
(* agents and tasks, as long as the calls on one task do not overlap.  A     *)
(* call looks at the blockers one after the other and writes later, so what *)
(* it has seen must stay so: an ended task is only written back as it is.   *)
(***************************************************************************)
Working == {"claimed", "in_progress", "blocked", "done"}

Owned(f) == f.status \in Working => f.owner # None

HasEnded(b) == b \in Made /\ tasks[b].status \in Ended

(* What a call will write is owned, waits for nothing that it has looked    *)
(* at, and is the task itself if that has ended.                            *)
CallFits(p) ==
    LET c == call[p] IN
    /\ Owned(c.file)
    /\ c.file.status = "done" => \A b \in c.file.blocked_by : b \in c.todo \/ HasEnded(b)
    /\ tasks[c.task].status \in Ended => c.file = tasks[c.task]

TasksInv ==
    /\ TypeOK
    /\ OneAtATime
    /\ \A t \in Made : Owned(tasks[t])
    /\ \A t \in Made : tasks[t].status = "done" => \A b \in tasks[t].blocked_by : HasEnded(b)
    /\ \A p \in Caller : call[p] # None => CallFits(p)

-----------------------------------------------------------------------------

(* No transition leaves an ended task.                                      *)
LEMMA EndedIsFinal ==
    ASSUME NEW f \in File, NEW s, MayMove(f, s)
    PROVE  f.status \notin Ended
  BY DEF MayMove, TaskTransitions, Ended, File, Status

LEMMA MadeAreFiles ==
    ASSUME TypeOK, NEW t \in Made
    PROVE  t \in Task /\ tasks[t] \in File
  BY DEF TypeOK, Made

(* A call that begins with a copy that fits keeps the invariant.            *)
LEMMA EditKeepsIInv ==
    ASSUME TasksInv, OneAtATime', NEW p \in Caller, NEW t \in Made, NEW file \in File,
           NEW blockers \in SUBSET Task, Edit(p, t, file, blockers),
           Owned(file),
           file.status = "done" => \A b \in file.blocked_by : b \in blockers \/ HasEnded(b),
           tasks[t].status \in Ended => file = tasks[t]
    PROVE  TasksInv'
<1> DEFINE c == [task |-> t, file |-> file, todo |-> blockers]
<1>1. t \in Task /\ TypeOK /\ call \in [Caller -> Call \cup {None}]
  BY MadeAreFiles DEF TasksInv, TypeOK
<1>2. c \in Call /\ c # None
  BY <1>1, TaskBoardAssumption DEF Call
<1>3. tasks' = tasks /\ Made' = Made /\ \A b : HasEnded(b)' <=> HasEnded(b)
  BY DEF Edit, Made, HasEnded
<1>4. call' = [call EXCEPT ![p] = c] /\ call'[p] = c /\ \A q \in Caller \ {p} : call'[q] = call[q]
  BY <1>1 DEF Edit
<1>5. TypeOK'
  BY <1>1, <1>2, <1>3, <1>4 DEF TypeOK
<1>6. ASSUME NEW q \in Caller, call'[q] # None
      PROVE  CallFits(q)'
  <2>1. CASE q = p
    BY <2>1, <1>3, <1>4 DEF CallFits
  <2>2. CASE q # p
    BY <2>2, <1>3, <1>4, <1>6 DEF CallFits, TasksInv
  <2> QED BY <2>1, <2>2
<1> QED BY <1>3, <1>5, <1>6 DEF TasksInv

(* Most calls begin with a copy of a task that goes on, and is not done.    *)
LEMMA EditGoingOn ==
    ASSUME TasksInv, OneAtATime', NEW p \in Caller, NEW t \in Made, NEW file \in File,
           NEW blockers \in SUBSET Task, Edit(p, t, file, blockers),
           Owned(file), file.status # "done", tasks[t].status \notin Ended
    PROVE  TasksInv'
  BY EditKeepsIInv

-----------------------------------------------------------------------------
(* One lemma for each operation that does not begin a call, and one for all *)
(* that do.                                                                 *)

LEMMA CreateTaskKeepsIInv ==
    ASSUME TasksInv, NEW p \in Caller, NEW t \in Task, NEW blockers \in SUBSET Task, CreateTask(p, t, blockers)
    PROVE  TasksInv'
<1> DEFINE f == [status |-> "open", owner |-> None, assigned_by |-> None, blocked_by |-> blockers]
<1>1. f \in File /\ f # None
  BY TaskBoardAssumption DEF File, Status
<1>2. tasks' = [tasks EXCEPT ![t] = f] /\ tasks'[t] = f /\ \A u \in Task \ {t} : tasks'[u] = tasks[u]
  BY DEF CreateTask, TasksInv, TypeOK
<1>3. call' = call /\ t \notin Made /\ Made' = Made \cup {t}
  BY <1>1, <1>2 DEF CreateTask, Made
<1>4. \A b : HasEnded(b) => HasEnded(b)'
  BY <1>2, <1>3 DEF HasEnded, Made
<1>5. TypeOK'
  BY <1>1, <1>2, <1>3 DEF TasksInv, TypeOK
<1>6. OneAtATime'
  BY <1>3 DEF TasksInv, OneAtATime
<1>7. ASSUME NEW u \in Made'
      PROVE  /\ Owned(tasks'[u])
             /\ tasks'[u].status = "done" => \A b \in tasks'[u].blocked_by : HasEnded(b)'
  <2>1. CASE u = t
    BY <2>1, <1>2 DEF Owned, Working
  <2>2. CASE u # t
    BY <2>2, <1>2, <1>3, <1>4 DEF TasksInv, Made
  <2> QED BY <2>1, <2>2
<1>8. ASSUME NEW q \in Caller, call'[q] # None
      PROVE  CallFits(q)'
  <2>1. call[q].task \in Made /\ call[q].task # t /\ call[q].task \in Task /\ CallFits(q)
    BY <1>3, <1>8 DEF TasksInv, TypeOK, Made
  <2> QED BY <2>1, <1>2, <1>3, <1>4 DEF CallFits
<1> QED BY <1>5, <1>6, <1>7, <1>8 DEF TasksInv, Owned

LEMMA LookKeepsIInv ==
    ASSUME TasksInv, NEW p \in Caller, NEW b \in Task, LookAtBlocker(p, b)
    PROVE  TasksInv'
<1>1. call \in [Caller -> Call \cup {None}] /\ call[p] \in Call /\ TypeOK
  BY DEF TasksInv, TypeOK, LookAtBlocker
<1>2. tasks' = tasks /\ Made' = Made /\ \A x : HasEnded(x)' <=> HasEnded(x)
  BY DEF LookAtBlocker, Made, HasEnded
<1>3. CASE HasEnded(b)
  <2> DEFINE c == [call[p] EXCEPT !.todo = @ \ {b}]
  <2>1. call' = [call EXCEPT ![p] = c] /\ call'[p] = c /\ \A q \in Caller \ {p} : call'[q] = call[q]
    BY <1>1, <1>3 DEF LookAtBlocker, HasEnded
  <2>2. c \in Call /\ c # None /\ c.task = call[p].task /\ c.file = call[p].file /\ c.todo = call[p].todo \ {b}
    BY <1>1, TaskBoardAssumption DEF Call
  <2> HIDE DEF c
  <2>3. call[p] # None /\ c.task \in Made
    BY <1>1, <2>2, TaskBoardAssumption DEF TypeOK
  <2>4. TypeOK'
    <3>1. \A q \in Caller : call'[q] # None => call'[q].task \in Made'
      BY <1>1, <1>2, <2>1, <2>3 DEF TypeOK
    <3> QED BY <3>1, <1>1, <1>2, <2>1, <2>2 DEF TypeOK
  <2>5. OneAtATime'
    BY <2>1, <2>2, TaskBoardAssumption, <1>1 DEF TasksInv, OneAtATime
  <2>6. ASSUME NEW q \in Caller, call'[q] # None
        PROVE  CallFits(q)'
    <3>1. CASE q = p
      <4>1. CallFits(p)
        BY <1>1, TaskBoardAssumption DEF TasksInv
      <4> QED BY <3>1, <4>1, <1>2, <1>3, <2>1, <2>2 DEF CallFits
    <3>2. CASE q # p
      BY <3>2, <1>2, <2>1, <2>6 DEF CallFits, TasksInv
    <3> QED BY <3>1, <3>2
  <2> QED BY <1>2, <2>4, <2>5, <2>6 DEF TasksInv
<1>4. CASE ~HasEnded(b)
  <2>1. call' = [call EXCEPT ![p] = None]
    BY <1>4 DEF LookAtBlocker, HasEnded
  <2>2. call'[p] = None /\ \A q \in Caller \ {p} : call'[q] = call[q]
    BY <1>1, <2>1
  <2>3. TypeOK'
    BY <1>1, <1>2, <2>1, <2>2 DEF TypeOK
  <2>4. OneAtATime'
    BY <2>2 DEF TasksInv, OneAtATime
  <2>5. ASSUME NEW q \in Caller, call'[q] # None
        PROVE  CallFits(q)'
    BY <1>2, <2>2, <2>5 DEF CallFits, TasksInv
  <2> QED BY <1>2, <2>3, <2>4, <2>5 DEF TasksInv
<1> QED BY <1>3, <1>4

LEMMA WriteKeepsIInv ==
    ASSUME TasksInv, NEW p \in Caller, WriteTask(p)
    PROVE  TasksInv'
<1> DEFINE t == call[p].task
           f == call[p].file
<1>1. call \in [Caller -> Call \cup {None}] /\ call[p] \in Call /\ call[p] # None /\ TypeOK /\ CallFits(p)
  BY DEF TasksInv, TypeOK, WriteTask
<1>2. t \in Made /\ t \in Task /\ f \in File /\ f # None
  BY <1>1, TaskBoardAssumption DEF TypeOK, Call
<1>3. tasks' = [tasks EXCEPT ![t] = f] /\ tasks'[t] = f /\ \A u \in Task \ {t} : tasks'[u] = tasks[u]
  BY <1>1, <1>2 DEF WriteTask, TypeOK
<1>4. call' = [call EXCEPT ![p] = None] /\ call'[p] = None /\ \A q \in Caller \ {p} : call'[q] = call[q]
  BY <1>1 DEF WriteTask
<1>5. Made' = Made
  BY <1>2, <1>3 DEF Made
<1>6. ASSUME NEW b, HasEnded(b)
      PROVE  HasEnded(b)'
  BY <1>1, <1>2, <1>3, <1>5, <1>6 DEF HasEnded, CallFits, Made
<1>7. TypeOK'
  BY <1>1, <1>2, <1>3, <1>4, <1>5 DEF TypeOK
<1>8. OneAtATime'
  BY <1>4 DEF TasksInv, OneAtATime
<1>9. ASSUME NEW u \in Made'
      PROVE  /\ Owned(tasks'[u])
             /\ tasks'[u].status = "done" => \A b \in tasks'[u].blocked_by : HasEnded(b)'
  <2>1. CASE u = t
    <3>1. call[p].todo = {}
      BY DEF WriteTask
    <3> QED BY <2>1, <3>1, <1>1, <1>3, <1>6 DEF CallFits
  <2>2. CASE u # t
    BY <2>2, <1>3, <1>5, <1>6 DEF TasksInv, Made
  <2> QED BY <2>1, <2>2
<1>10. ASSUME NEW q \in Caller, call'[q] # None
       PROVE  CallFits(q)'
  <2>1. q # p /\ call'[q] = call[q] /\ CallFits(q) /\ call[q].task \in Made
    BY <1>4, <1>10 DEF TasksInv, TypeOK
  <2>2. call[q].task # t /\ call[q].task \in Task
    BY <2>1, <1>1, <1>10 DEF TasksInv, OneAtATime, Made
  <2> QED BY <2>1, <2>2, <1>3, <1>6 DEF CallFits
<1> QED BY <1>7, <1>8, <1>9, <1>10 DEF TasksInv, Owned

(* An operation on a task with its agent.                                   *)
Operation(p, who, t) ==
    \/ ClaimTask(p, who, t)
    \/ \E to \in Agent : AssignTask(p, who, t, to)
    \/ AcceptTask(p, who, t)
    \/ DeclineTask(p, who, t)
    \/ \E blockers \in SUBSET Task : UpdateTask(p, who, t, blockers)
    \/ StartTask(p, who, t)
    \/ \E s \in {"blocked", "open"} : PauseTask(p, who, t, s)
    \/ DoneTask(p, who, t)
    \/ DropTask(p, who, t)

LEMMA OperationKeepsIInv ==
    ASSUME TasksInv, OneAtATime', NEW p \in Caller, NEW t \in Made, NEW who \in Agent, Operation(p, who, t)
    PROVE  TasksInv'
<1> DEFINE f == tasks[t]
<1>0. f \in File /\ TypeOK /\ who # None /\ Owned(f)
  BY MadeAreFiles, TaskBoardAssumption DEF TasksInv
<1>1. CASE ClaimTask(p, who, t)
  <2> DEFINE g == [Moved(f, "claimed") EXCEPT !.owner = who, !.assigned_by = None]
  <2>1. g \in File /\ g.status = "claimed" /\ g.owner = who
    BY <1>0 DEF Moved, File, Status
  <2>2. f.status \notin Ended
    BY <1>0, <1>1, EndedIsFinal DEF ClaimTask
  <2>3. Edit(p, t, g, {})
    BY <1>1 DEF ClaimTask
  <2>4. Owned(g) /\ g.status # "done"
    BY <1>0, <2>1 DEF Owned
  <2> HIDE DEF g
  <2> QED BY <2>1, <2>2, <2>3, <2>4, EditGoingOn
<1>2. ASSUME NEW to \in Agent, AssignTask(p, who, t, to)
      PROVE  TasksInv'
  <2> DEFINE g == [f EXCEPT !.owner = to, !.assigned_by = who]
             h == IF f.status = "open" THEN Moved(g, "claimed") ELSE g
  <2>1. h \in File /\ h.owner = to /\ to # None /\ f.status \notin Ended /\ h.status \notin Ended
    BY <1>0, <1>2, TaskBoardAssumption DEF Moved, File, Status, AssignTask, Ended
  <2>2. Edit(p, t, h, {})
    BY <1>2 DEF AssignTask
  <2>3. Owned(h) /\ h.status # "done"
    BY <2>1 DEF Owned, Ended
  <2> HIDE DEF h
  <2> QED BY <2>1, <2>2, <2>3, EditGoingOn
<1>3. CASE AcceptTask(p, who, t)
  <2> DEFINE g == [f EXCEPT !.assigned_by = None]
  <2>1. g \in File /\ g.owner = who /\ g.status = "claimed" /\ f.status \notin Ended
    BY <1>0, <1>3 DEF AcceptTask, Mine, File, Ended
  <2>2. Edit(p, t, g, {})
    BY <1>3 DEF AcceptTask
  <2>3. Owned(g) /\ g.status # "done"
    BY <1>0, <2>1 DEF Owned
  <2> HIDE DEF g
  <2> QED BY <2>1, <2>2, <2>3, EditGoingOn
<1>4. CASE DeclineTask(p, who, t)
  <2> DEFINE g == [Moved(f, "open") EXCEPT !.owner = None, !.assigned_by = None]
  <2>1. g \in File /\ g.status = "open"
    BY <1>0 DEF Moved, File, Status
  <2>2. f.status \notin Ended
    BY <1>0, <1>4, EndedIsFinal DEF DeclineTask
  <2>3. Edit(p, t, g, {})
    BY <1>4 DEF DeclineTask
  <2>4. Owned(g) /\ g.status # "done"
    BY <2>1 DEF Owned, Working
  <2> HIDE DEF g
  <2> QED BY <2>1, <2>2, <2>3, <2>4, EditGoingOn
<1>5. ASSUME NEW blockers \in SUBSET Task, UpdateTask(p, who, t, blockers)
      PROVE  TasksInv'
  <2> DEFINE g == [f EXCEPT !.blocked_by = blockers]
  <2>1. g \in File /\ g.status = f.status /\ g.owner = f.owner /\ f.status \notin Ended
    BY <1>0, <1>5 DEF File, UpdateTask
  <2>2. Edit(p, t, g, {})
    BY <1>5 DEF UpdateTask
  <2>3. Owned(g) /\ g.status # "done"
    BY <1>0, <2>1 DEF Owned, Ended
  <2> HIDE DEF g
  <2> QED BY <2>1, <2>2, <2>3, EditGoingOn
<1>6. CASE StartTask(p, who, t)
  <2> DEFINE g == [Moved(f, "in_progress") EXCEPT !.owner = who]
  <2>1. g \in File /\ g.status = "in_progress" /\ g.owner = who /\ f.blocked_by \in SUBSET Task
    BY <1>0 DEF Moved, File, Status
  <2>2. f.status \notin Ended
    BY <1>0, <1>6, EndedIsFinal DEF StartTask
  <2>3. Edit(p, t, g, f.blocked_by)
    BY <1>6 DEF StartTask
  <2>4. Owned(g) /\ g.status # "done"
    BY <1>0, <2>1 DEF Owned
  <2> HIDE DEF g
  <2> QED BY <2>1, <2>2, <2>3, <2>4, EditGoingOn
<1>7. ASSUME NEW s \in {"blocked", "open"}, PauseTask(p, who, t, s)
      PROVE  TasksInv'
  <2> DEFINE g == Moved(f, s)
  <2>1. g \in File /\ g.status = s /\ g.owner = who
    BY <1>0, <1>7 DEF Moved, File, Status, PauseTask, Mine
  <2>2. f.status \notin Ended
    BY <1>0, <1>7, EndedIsFinal DEF PauseTask
  <2>3. Edit(p, t, g, {})
    BY <1>7 DEF PauseTask
  <2>4. Owned(g) /\ g.status # "done"
    BY <1>0, <2>1 DEF Owned
  <2> HIDE DEF g
  <2> QED BY <2>1, <2>2, <2>3, <2>4, EditGoingOn
<1>8. CASE DoneTask(p, who, t)
  <2> DEFINE g == Moved(f, "done")
  <2>1. g \in File /\ g.owner = who /\ g.blocked_by = f.blocked_by /\ f.blocked_by \in SUBSET Task
    BY <1>0, <1>8 DEF Moved, File, Status, DoneTask, Mine
  <2>2. f.status \notin Ended
    BY <1>0, <1>8, EndedIsFinal DEF DoneTask
  <2>3. Edit(p, t, g, f.blocked_by)
    BY <1>8 DEF DoneTask
  <2>4. Owned(g)
    BY <1>0, <2>1 DEF Owned
  <2> HIDE DEF g
  <2> QED BY <2>1, <2>2, <2>3, <2>4, EditKeepsIInv
<1>9. CASE DropTask(p, who, t)
  <2> DEFINE g == Moved(f, "dropped")
  <2>1. g \in File /\ g.status = "dropped"
    BY <1>0 DEF Moved, File, Status
  <2>2. f.status \notin Ended
    BY <1>0, <1>9, EndedIsFinal DEF DropTask
  <2>3. Edit(p, t, g, {})
    BY <1>9 DEF DropTask
  <2>4. Owned(g) /\ g.status # "done"
    BY <2>1 DEF Owned, Working
  <2> HIDE DEF g
  <2> QED BY <2>1, <2>2, <2>3, <2>4, EditGoingOn
<1> QED BY <1>1, <1>2, <1>3, <1>4, <1>5, <1>6, <1>7, <1>8, <1>9 DEF Operation

LEMMA LinkKeepsIInv ==
    ASSUME TasksInv, OneAtATime', NEW p \in Caller, NEW t \in Made, LinkTaskRun(p, t)
    PROVE  TasksInv'
<1>1. tasks[t] \in File
  BY MadeAreFiles DEF TasksInv
<1>2. Owned(tasks[t])
  BY DEF TasksInv
<1>3. tasks[t].status = "done" => \A b \in tasks[t].blocked_by : HasEnded(b)
  BY DEF TasksInv
<1>4. Edit(p, t, tasks[t], {})
  BY DEF LinkTaskRun
<1> QED BY <1>1, <1>2, <1>3, <1>4, EditKeepsIInv

-----------------------------------------------------------------------------

(* The inductive invariant, when calls on one task do not overlap.          *)
THEOREM TasksInvariant == SerialSpec => []TasksInv
<1>1. Init => TasksInv
  BY DEF Init, TasksInv, TypeOK, OneAtATime, Made
<1>2. ASSUME TasksInv, [Next /\ OneAtATime']_vars
      PROVE  TasksInv'
  <2>1. CASE UNCHANGED vars
    BY <1>2, <2>1 DEF vars, TasksInv, TypeOK, OneAtATime, Made, CallFits, HasEnded, Owned
  <2>2. CASE Next /\ OneAtATime'
    <3>1. PICK p \in Caller :
            \/ \E t \in Task, blockers \in SUBSET Task : CreateTask(p, t, blockers)
            \/ \E t \in Made, who \in Agent : Operation(p, who, t)
            \/ \E t \in Made : LinkTaskRun(p, t)
            \/ \E b \in Task : LookAtBlocker(p, b)
            \/ WriteTask(p)
      BY <2>2 DEF Next, Operation
    <3> QED BY <1>2, <2>2, <3>1, CreateTaskKeepsIInv, OperationKeepsIInv, LinkKeepsIInv,
               LookKeepsIInv, WriteKeepsIInv
  <2> QED BY <1>2, <2>1, <2>2
<1> QED BY <1>1, <1>2, PTL DEF SerialSpec

(* A task that is done has an owner and waits for nothing (doneTask,        *)
(* assertNotBlocked), and this is never undone.                             *)
THEOREM DoneTasksWaitForNothing == SerialSpec => []DoneWaitsForNothing
<1>1. TasksInv => DoneWaitsForNothing
  BY DEF TasksInv, DoneWaitsForNothing, Owned, Working, HasEnded
<1> QED BY <1>1, TasksInvariant, PTL

-----------------------------------------------------------------------------
(***************************************************************************)
(* Acknowledgements.  That none overwrites another, for any processes,       *)
(* posts and pages, and any number of deaths.  The argument is about the    *)
(* lock file: a live process between its creation and its release owns it,  *)
(* since whoever removes a lock judged it while no other could reap, and a  *)
(* lock that names a dead process is never touched by anyone else.          *)
(***************************************************************************)
(* None is neither a process nor a lock.                                    *)
NoneIsNothing == None \notin Process /\ None \notin [owner : Process, named : BOOLEAN]

Holding == {"name", "read", "presence", "write", "unlock"}
Reaping == {"judge", "remove", "stop"}
Acknowledging == Holding \cup Reaping \cup {"lock"}

Functions ==
    /\ pc = [p \in Process |-> pc[p]]
    /\ page = [p \in Process |-> page[p]]
    /\ existing = [p \in Process |-> existing[p]]

LockTyped == lock # None => lock \in [owner : Process, named : BOOLEAN]

HoldersOwnTheLock == \A p \in Process : pc[p] \in Holding => lock # None /\ lock.owner = p

OneReaper == \A p \in Process : pc[p] \in Reaping => reaper = p

RemovedIsStale == \A p \in Process : pc[p] = "remove" => Acks!Stale

PagesAreIssued == \A p \in Process : pc[p] \in Acknowledging => page[p] \in issued

(* What a process read under its lock is still so when it writes.           *)
ReadIsCurrent ==
    \A p \in Process : pc[p] \in {"presence", "write"} =>
        existing[p] = state /\ page[p].prior = Acks!Watermark(state)

PresenceFirst == \A p \in Process : pc[p] = "write" => page[p].high \in presence

AcksInv ==
    /\ Functions /\ LockTyped /\ HoldersOwnTheLock /\ OneReaper /\ RemovedIsStale
    /\ PagesAreIssued /\ ReadIsCurrent /\ PresenceFirst

-----------------------------------------------------------------------------

(* Where the others stand is not changed by a step of one.                  *)
LEMMA OthersStay ==
    ASSUME Functions, NEW p \in Process, NEW l, Acks!Go(p, l)
    PROVE  /\ pc'[p] = l
           /\ \A q \in Process \ {p} : pc'[q] = pc[q]
           /\ pc' = [q \in Process |-> pc'[q]]
  BY DEF Functions, Acks!Go

(* The pages that are issued, and presence, only grow; no one else writes.  *)
LEMMA SpaceKeepsIInv ==
    ASSUME AcksInv, Acks!Tick \/ (\E m \in Post : Acks!PreparePost(m) \/ Acks!PersistPost(m)) \/ UNCHANGED Acks!vars
    PROVE  AcksInv'
<1>1. UNCHANGED <<issued, state, lock, reaper, presence, pc, page, existing>>
  BY DEF Acks!Tick, Acks!PreparePost, Acks!PersistPost, Acks!vars
<1> QED BY <1>1 DEF AcksInv, Functions, LockTyped, HoldersOwnTheLock, OneReaper, RemovedIsStale, Acks!Stale,
                    PagesAreIssued, ReadIsCurrent, PresenceFirst, Acks!Watermark

LEMMA PageKeepsIInv ==
    ASSUME AcksInv, NEW p \in Process, Acks!StageBoundary(p) \/ Acks!Observe(p)
    PROVE  AcksInv'
<1>1. \E l \in {"observe", "idle"} : Acks!Go(p, l)
  BY DEF Acks!StageBoundary, Acks!Observe
<1>2. pc[p] \in {"idle", "observe"} /\ pc'[p] \in {"observe", "idle"} /\ \A q \in Process \ {p} : pc'[q] = pc[q]
  BY <1>1, OthersStay DEF AcksInv, Acks!StageBoundary, Acks!Observe
<1>3. Functions' /\ \A q \in Process \ {p} : page'[q] = page[q]
  BY <1>1, OthersStay DEF AcksInv, Functions, Acks!StageBoundary, Acks!Observe
<1>4. issued \subseteq issued' /\ UNCHANGED <<state, lock, reaper, presence, existing>>
  BY DEF Acks!StageBoundary, Acks!Observe
<1>5. LockTyped' /\ HoldersOwnTheLock' /\ OneReaper'
  BY <1>2, <1>4 DEF AcksInv, LockTyped, HoldersOwnTheLock, OneReaper, Holding, Reaping
<1>6. RemovedIsStale'
  BY <1>2, <1>4 DEF AcksInv, RemovedIsStale, Acks!Stale, LockTyped
<1>7. PagesAreIssued' /\ ReadIsCurrent' /\ PresenceFirst'
  BY <1>2, <1>3, <1>4 DEF AcksInv, PagesAreIssued, ReadIsCurrent, PresenceFirst, Acknowledging, Holding,
     Reaping, Acks!Watermark
<1> QED BY <1>3, <1>5, <1>6, <1>7 DEF AcksInv

(* acquireLock and reapStaleLock: what only moves a process and the files   *)
(* of the lock.                                                             *)
LEMMA LockingKeepsIInv ==
    ASSUME NoneIsNothing, AcksInv, NEW p \in Process,
           \/ Acks!AskForLock(p) \/ Acks!CreateLock(p) \/ Acks!NameLock(p) \/ Acks!NamingFails(p) \/ Acks!GiveUp(p)
           \/ Acks!StartReaping(p) \/ Acks!JudgeLock(p) \/ Acks!RemoveLock(p) \/ Acks!StopReaping(p)
    PROVE  AcksInv'
<1>0. UNCHANGED <<issued, state, presence, existing>>
  BY DEF Acks!AskForLock, Acks!CreateLock, Acks!NameLock, Acks!NamingFails, Acks!GiveUp,
     Acks!StartReaping, Acks!JudgeLock, Acks!RemoveLock, Acks!StopReaping
<1>1. CASE Acks!AskForLock(p)
  <2>1. Acks!Go(p, "lock") /\ UNCHANGED <<lock, reaper>> /\ pc[p] = "idle"
    BY <1>1 DEF Acks!AskForLock
  <2>2. page'[p] \in issued /\ \A q \in Process \ {p} : page'[q] = page[q]
    BY <1>1 DEF Acks!AskForLock, AcksInv, Functions
  <2>3. Functions'
    BY <1>1, <2>1, OthersStay DEF Acks!AskForLock, AcksInv, Functions
  <2> QED BY <1>0, <2>1, <2>2, <2>3, OthersStay
          DEF AcksInv, LockTyped, HoldersOwnTheLock, OneReaper, RemovedIsStale, Acks!Stale,
              PagesAreIssued, ReadIsCurrent, PresenceFirst, Acknowledging, Holding, Reaping, Acks!Watermark
<1>2. CASE Acks!CreateLock(p)
  <2>1. Acks!Go(p, "name") /\ UNCHANGED <<reaper, page>> /\ pc[p] = "lock" /\ lock = None
    BY <1>2 DEF Acks!CreateLock
  <2>2. lock' = [owner |-> p, named |-> FALSE] /\ lock' # None /\ lock'.owner = p
    <3>1. lock' = [owner |-> p, named |-> FALSE]
      BY <1>2 DEF Acks!CreateLock
    <3>2. lock' \in [owner : Process, named : BOOLEAN]
      BY <3>1
    <3> QED BY <3>1, <3>2 DEF NoneIsNothing
  <2>3. Functions' /\ \A q \in Process : pc[q] \notin Holding /\ pc[q] # "remove"
    BY <1>0, <2>1, OthersStay DEF AcksInv, Functions, HoldersOwnTheLock, RemovedIsStale, Acks!Stale
  <2> QED BY <1>0, <2>1, <2>2, <2>3, OthersStay
          DEF AcksInv, LockTyped, HoldersOwnTheLock, OneReaper, RemovedIsStale, Acks!Stale,
              PagesAreIssued, ReadIsCurrent, PresenceFirst, Acknowledging, Holding, Reaping, Acks!Watermark
<1>3. CASE Acks!NameLock(p)
  <2>1. Acks!Go(p, "read") /\ UNCHANGED <<reaper, page>> /\ pc[p] = "name"
    BY <1>3 DEF Acks!NameLock
  <2>2. lock # None /\ lock.owner = p /\ lock \in [owner : Process, named : BOOLEAN]
    BY <2>1 DEF AcksInv, HoldersOwnTheLock, LockTyped, Holding
  <2>3. lock' \in [owner : Process, named : BOOLEAN] /\ lock'.owner = p /\ lock' # None
    BY <1>3, <2>2 DEF Acks!NameLock, NoneIsNothing
  <2>4. Functions' /\ \A q \in Process : pc[q] # "remove"
    BY <1>0, <2>1, <2>2, OthersStay DEF AcksInv, Functions, RemovedIsStale, Acks!Stale
  <2> QED BY <1>0, <2>1, <2>2, <2>3, <2>4, OthersStay
          DEF AcksInv, LockTyped, HoldersOwnTheLock, OneReaper, RemovedIsStale, Acks!Stale,
              PagesAreIssued, ReadIsCurrent, PresenceFirst, Acknowledging, Holding, Reaping, Acks!Watermark
<1>4. CASE Acks!NamingFails(p)
  <2>1. Acks!Go(p, "idle") /\ UNCHANGED reaper /\ pc[p] = "name" /\ lock' = None
    BY <1>4 DEF Acks!NamingFails
  <2>2. lock # None /\ lock.owner = p
    BY <2>1 DEF AcksInv, HoldersOwnTheLock, Holding
  <2>3. \A q \in Process : pc[q] # "remove" /\ (q # p => pc[q] \notin Holding)
    BY <2>1, <2>2 DEF AcksInv, RemovedIsStale, Acks!Stale, HoldersOwnTheLock
  <2>4. Functions' /\ \A q \in Process \ {p} : page'[q] = page[q]
    BY <1>0, <1>4, <2>1, OthersStay DEF Acks!NamingFails, AcksInv, Functions
  <2> QED BY <1>0, <2>1, <2>3, <2>4, OthersStay
          DEF AcksInv, LockTyped, HoldersOwnTheLock, OneReaper, RemovedIsStale, Acks!Stale,
              PagesAreIssued, ReadIsCurrent, PresenceFirst, Acknowledging, Holding, Reaping, Acks!Watermark
<1>5. CASE Acks!GiveUp(p)
  <2>1. Acks!Go(p, "idle") /\ UNCHANGED <<lock, reaper>> /\ pc[p] = "lock"
    BY <1>5 DEF Acks!GiveUp
  <2>2. Functions' /\ \A q \in Process \ {p} : page'[q] = page[q]
    BY <1>0, <1>5, <2>1, OthersStay DEF Acks!GiveUp, AcksInv, Functions
  <2> QED BY <1>0, <2>1, <2>2, OthersStay
          DEF AcksInv, LockTyped, HoldersOwnTheLock, OneReaper, RemovedIsStale, Acks!Stale,
              PagesAreIssued, ReadIsCurrent, PresenceFirst, Acknowledging, Holding, Reaping, Acks!Watermark
<1>6. CASE Acks!StartReaping(p)
  <2>1. Acks!Go(p, "judge") /\ UNCHANGED <<lock, page>> /\ pc[p] = "lock" /\ reaper = None /\ reaper' = p
    BY <1>6 DEF Acks!StartReaping
  <2>2. Functions' /\ \A q \in Process : pc[q] \notin Reaping
    BY <1>0, <2>1, OthersStay DEF AcksInv, Functions, OneReaper, NoneIsNothing
  <2> QED BY <1>0, <2>1, <2>2, OthersStay
          DEF AcksInv, LockTyped, HoldersOwnTheLock, OneReaper, RemovedIsStale, Acks!Stale,
              PagesAreIssued, ReadIsCurrent, PresenceFirst, Acknowledging, Holding, Reaping, Acks!Watermark
<1>7. CASE Acks!JudgeLock(p)
  <2> DEFINE l == IF Acks!Stale THEN "remove" ELSE "stop"
  <2>1. Acks!Go(p, l) /\ UNCHANGED <<lock, reaper, page>> /\ pc[p] = "judge" /\ l \in {"remove", "stop"}
    BY <1>7 DEF Acks!JudgeLock
  <2>2. Functions' /\ Acks!Stale' <=> Acks!Stale
    BY <1>0, <2>1, OthersStay DEF AcksInv, Functions, LockTyped, Acks!Stale
  <2>3. RemovedIsStale'
    BY <2>1, <2>2, OthersStay DEF AcksInv, RemovedIsStale
  <2> HIDE DEF l
  <2> QED BY <1>0, <2>1, <2>2, <2>3, OthersStay
          DEF AcksInv, Functions, LockTyped, HoldersOwnTheLock, OneReaper,
              PagesAreIssued, ReadIsCurrent, PresenceFirst, Acknowledging, Holding, Reaping, Acks!Watermark
<1>8. CASE Acks!RemoveLock(p)
  <2>1. Acks!Go(p, "stop") /\ UNCHANGED <<reaper, page>> /\ pc[p] = "remove" /\ lock' = None
    BY <1>8 DEF Acks!RemoveLock
  <2>2. \A q \in Process : pc[q] \notin Holding /\ (q # p => pc[q] # "remove")
    BY <2>1 DEF AcksInv, RemovedIsStale, Acks!Stale, HoldersOwnTheLock, OneReaper, Reaping, Holding
  <2>3. Functions'
    BY <1>0, <2>1, OthersStay DEF AcksInv, Functions
  <2> QED BY <1>0, <2>1, <2>2, <2>3, OthersStay
          DEF AcksInv, LockTyped, HoldersOwnTheLock, OneReaper, RemovedIsStale, Acks!Stale,
              PagesAreIssued, ReadIsCurrent, PresenceFirst, Acknowledging, Holding, Reaping, Acks!Watermark
<1>9. CASE Acks!StopReaping(p)
  <2>1. Acks!Go(p, "lock") /\ UNCHANGED <<lock, page>> /\ pc[p] = "stop" /\ reaper' = None
    BY <1>9 DEF Acks!StopReaping
  <2>2. Functions' /\ \A q \in Process \ {p} : pc[q] \notin Reaping
    BY <1>0, <2>1, OthersStay DEF AcksInv, Functions, OneReaper, Reaping
  <2> QED BY <1>0, <2>1, <2>2, OthersStay
          DEF AcksInv, LockTyped, HoldersOwnTheLock, OneReaper, RemovedIsStale, Acks!Stale,
              PagesAreIssued, ReadIsCurrent, PresenceFirst, Acknowledging, Holding, Reaping, Acks!Watermark
<1> QED BY <1>1, <1>2, <1>3, <1>4, <1>5, <1>6, <1>7, <1>8, <1>9

(* acknowledgeContinuityPage under its lock, and death.                     *)
LEMMA AcknowledgingKeepsIInv ==
    ASSUME NoneIsNothing, AcksInv, NEW p \in Process,
           Acks!ReadState(p) \/ Acks!CommitPresence(p) \/ Acks!WriteState(p) \/ Acks!Unlock(p) \/ Acks!Die(p)
    PROVE  AcksInv'
<1>1. CASE Acks!ReadState(p)
  <2> DEFINE l == IF page[p] \in Acks!Acknowledged(state) \/ Acks!Watermark(state) # page[p].prior
                    THEN "unlock" ELSE "presence"
  <2>1. Acks!Go(p, l) /\ UNCHANGED <<issued, state, lock, reaper, presence, page>> /\ pc[p] = "read"
    BY <1>1 DEF Acks!ReadState
  <2>2. existing'[p] = state /\ \A q \in Process \ {p} : existing'[q] = existing[q]
    BY <1>1 DEF Acks!ReadState, AcksInv, Functions
  <2>3. Functions' /\ l \in {"unlock", "presence"} /\ (l = "presence" => page[p].prior = Acks!Watermark(state))
    BY <1>1, <2>1, OthersStay DEF Acks!ReadState, AcksInv, Functions
  <2> HIDE DEF l
  <2> QED BY <2>1, <2>2, <2>3, OthersStay
          DEF AcksInv, LockTyped, HoldersOwnTheLock, OneReaper, RemovedIsStale, Acks!Stale,
              PagesAreIssued, ReadIsCurrent, PresenceFirst, Acknowledging, Holding, Reaping, Acks!Watermark
<1>2. CASE Acks!CommitPresence(p)
  <2>1. PICK l \in {"write", "unlock"} : Acks!Go(p, l) /\ (l = "write" => page[p].high \in presence')
    BY <1>2 DEF Acks!CommitPresence, Acks!Go
  <2>2. /\ UNCHANGED <<issued, state, lock, reaper, page, existing>>
        /\ pc[p] = "presence"
        /\ presence \subseteq presence'
    BY <1>2 DEF Acks!CommitPresence
  <2>3. Functions'
    BY <2>1, <2>2, OthersStay DEF AcksInv, Functions
  <2> QED BY <2>1, <2>2, <2>3, OthersStay
          DEF AcksInv, LockTyped, HoldersOwnTheLock, OneReaper, RemovedIsStale, Acks!Stale,
              PagesAreIssued, ReadIsCurrent, PresenceFirst, Acknowledging, Holding, Reaping, Acks!Watermark
<1>3. CASE Acks!WriteState(p)
  <2>1. Acks!Go(p, "unlock") /\ UNCHANGED <<issued, lock, reaper, presence, page, existing>> /\ pc[p] = "write"
    BY <1>3 DEF Acks!WriteState
  <2>2. Functions' /\ \A q \in Process \ {p} : pc[q] \notin Holding
    BY <2>1, OthersStay DEF AcksInv, Functions, HoldersOwnTheLock, Holding
  <2> QED BY <2>1, <2>2, OthersStay
          DEF AcksInv, LockTyped, HoldersOwnTheLock, OneReaper, RemovedIsStale, Acks!Stale,
              PagesAreIssued, ReadIsCurrent, PresenceFirst, Acknowledging, Holding, Reaping
<1>4. CASE Acks!Unlock(p)
  <2>1. Acks!Go(p, "idle") /\ UNCHANGED <<issued, state, reaper, presence>> /\ pc[p] = "unlock"
    BY <1>4 DEF Acks!Unlock
  <2>2. lock # None /\ lock.owner = p /\ lock' = None
    BY <1>4, <2>1 DEF AcksInv, HoldersOwnTheLock, Holding, Acks!Unlock
  <2>3. \A q \in Process : pc[q] # "remove" /\ (q # p => pc[q] \notin Holding)
    BY <2>1, <2>2 DEF AcksInv, RemovedIsStale, Acks!Stale, HoldersOwnTheLock
  <2>4. Functions' /\ \A q \in Process \ {p} : page'[q] = page[q] /\ existing'[q] = existing[q]
    BY <1>4, <2>1, OthersStay DEF Acks!Unlock, AcksInv, Functions
  <2> QED BY <2>1, <2>2, <2>3, <2>4, OthersStay
          DEF AcksInv, LockTyped, HoldersOwnTheLock, OneReaper, RemovedIsStale, Acks!Stale,
              PagesAreIssued, ReadIsCurrent, PresenceFirst, Acknowledging, Holding, Reaping, Acks!Watermark
<1>5. CASE Acks!Die(p)
  <2>1. Acks!Go(p, "dead") /\ UNCHANGED <<issued, state, lock, reaper, presence>>
    BY <1>5 DEF Acks!Die
  <2>2. Functions' /\ \A q \in Process \ {p} : page'[q] = page[q] /\ existing'[q] = existing[q]
    BY <1>5, <2>1, OthersStay DEF Acks!Die, AcksInv, Functions
  <2>3. RemovedIsStale'
    BY <2>1, OthersStay DEF AcksInv, RemovedIsStale, Acks!Stale, LockTyped
  <2> QED BY <2>1, <2>2, <2>3, OthersStay
          DEF AcksInv, LockTyped, HoldersOwnTheLock, OneReaper,
              PagesAreIssued, ReadIsCurrent, PresenceFirst, Acknowledging, Holding, Reaping, Acks!Watermark
<1> QED BY <1>1, <1>2, <1>3, <1>4, <1>5

-----------------------------------------------------------------------------

(* The inductive invariant of the lock and what is done under it.           *)
THEOREM AcksInvariant ==
    ASSUME NoneIsNothing
    PROVE  Acks!Spec => []AcksInv
<1>1. Acks!Init => AcksInv
  BY DEF Acks!Init, AcksInv, Functions, LockTyped, HoldersOwnTheLock, OneReaper, RemovedIsStale,
         PagesAreIssued, ReadIsCurrent, PresenceFirst, Acknowledging, Holding, Reaping
<1>2. AcksInv /\ [Acks!Next]_Acks!vars => AcksInv'
  BY SpaceKeepsIInv, PageKeepsIInv, LockingKeepsIInv, AcknowledgingKeepsIInv DEF Acks!Next
<1> QED BY <1>1, <1>2, PTL DEF Acks!Spec

(* The watermark moves one page at a time, each from where it started, and  *)
(* never ahead of presence, whoever dies holding the lock and whoever       *)
(* reaps it (acknowledgeContinuityPage).                                    *)
THEOREM NoAcknowledgementIsLost ==
    ASSUME NoneIsNothing
    PROVE  Acks!Spec => AcknowledgedInOrder
<1> DEFINE Ordered ==
      state' # state =>
        \E pg \in issued :
          /\ pg.prior = Acks!Watermark(state)
          /\ pg.high \in presence
          /\ state' = Acks!WithPage(state, pg)
<1>1. AcksInv /\ [Acks!Next]_Acks!vars => [Ordered]_Acks!vars
  <2> SUFFICES ASSUME AcksInv, [Acks!Next]_Acks!vars, state' # state
               PROVE  Ordered
    OBVIOUS
  <2>1. PICK p \in Process : Acks!WriteState(p)
    BY DEF Acks!Next, Acks!vars, Acks!Tick, Acks!PreparePost, Acks!PersistPost, Acks!StageBoundary,
       Acks!Observe, Acks!AskForLock, Acks!CreateLock,
           Acks!NameLock, Acks!NamingFails, Acks!GiveUp, Acks!StartReaping, Acks!JudgeLock,
           Acks!RemoveLock, Acks!StopReaping, Acks!ReadState,
           Acks!CommitPresence, Acks!Unlock, Acks!Die
  <2>2. page[p] \in issued /\ existing[p] = state /\ page[p].prior = Acks!Watermark(state) /\ page[p].high \in presence
    BY <2>1 DEF Acks!WriteState, AcksInv, PagesAreIssued, ReadIsCurrent, PresenceFirst, Acknowledging, Holding
  <2>3. state' = Acks!WithPage(state, page[p])
    BY <2>1, <2>2 DEF Acks!WriteState
  <2> QED BY <2>2, <2>3
<1>2. Acks!Spec => []AcksInv
  BY AcksInvariant
<1> QED BY <1>1, <1>2, PTL DEF Acks!Spec, AcknowledgedInOrder, Acks!AcknowledgedInOrder

-----------------------------------------------------------------------------
(***************************************************************************)
(* Root migrations.  That only a rollback loses a record, one that was       *)
(* appended after its comparison, and that what is declared applied agrees,  *)
(* for any files, records and migrations, with writers of both roots and     *)
(* wherever a command fails or dies.  What a command may remove from the     *)
(* canonical root was copied from, or compared with, a legacy file that can  *)
(* only have grown since, or came later.                                    *)
(***************************************************************************)
RootsTyped ==
    /\ legacy \in [RootFile -> SUBSET Record]
    /\ canonical \in Roots!Contents
    /\ frozen \subseteq RootFile /\ todo \subseteq RootFile
    /\ late \subseteq written /\ written \subseteq RootFile \X Record
    /\ manifest \in [Migration -> Roots!Manifest \cup {None}]
    /\ rootPc \in {"idle", "copy", "freeze", "undo", "thaw", "remove"}
    /\ rootPc # "idle" => current \in Roots!Known

(* What may be removed is in the legacy root too, or late.                  *)
InTime(f) == {r \in canonical[f] : <<f, r>> \notin late}
Kept(f) == canonical[f] # None => InTime(f) \subseteq legacy[f]

RemovableIsKept ==
    /\ rootPc \in {"copy", "freeze", "undo"} => \A f \in Roots!Created(current) : Kept(f)
    /\ rootPc = "remove" => \A f \in todo : Kept(f)

OnlyCreatedGo == rootPc \in {"undo", "remove"} => todo \subseteq Roots!Created(current)

(* What was compared stays so while an apply runs, and but for what is late *)
(* while a rollback does.                                                   *)
ComparedAgrees ==
    /\ rootPc = "thaw" => \A f \in Roots!Created(current) :
                             canonical[f] # None => InTime(f) \subseteq manifest[current].source[f]
    /\ rootPc = "freeze" => /\ Roots!Agrees(canonical, current)
                            /\ Roots!Agrees(manifest[current].backup, current)
                            /\ Roots!Entries(current) \subseteq frozen \cup todo

RootsInv == RootsTyped /\ RemovableIsKept /\ OnlyCreatedGo /\ ComparedAgrees /\ Roots!NothingLost

LEMMA RootsInit == Roots!Init => RootsInv
<1> SUFFICES ASSUME Roots!Init PROVE RootsInv
  OBVIOUS
<1>1. RootsTyped
  BY DEF Roots!Init, RootsTyped, Roots!Contents, Roots!Nothing
<1> QED BY <1>1 DEF Roots!Init, RootsInv, RemovableIsKept, OnlyCreatedGo, ComparedAgrees, Roots!NothingLost

LEMMA KnownManifest ==
    ASSUME RootsTyped, NEW m \in Roots!Known
    PROVE  m \in Migration /\ manifest[m] \in Roots!Manifest /\ Roots!Entries(m) = RootFile
BY DEF RootsTyped, Roots!Known, Roots!Manifest, Roots!Entries, Roots!Contents

(* The legacy root only grows, frozen files not even that.                   *)
LEMMA AppendLegacyKeeps ==
    ASSUME RootsInv, NEW f \in RootFile, NEW r \in Record, Roots!AppendLegacy(f, r)
    PROVE  RootsInv'
<1>1. /\ legacy' = [legacy EXCEPT ![f] = @ \cup {r}]
      /\ written' = written \cup {<<f, r>>}
      /\ UNCHANGED <<canonical, frozen, late, manifest, rootPc, current, todo>>
  BY DEF Roots!AppendLegacy
<1>2. RootsTyped' /\ \A g \in RootFile : legacy[g] \subseteq legacy'[g]
  BY <1>1 DEF RootsInv, RootsTyped, Roots!Known
<1>3. r \in legacy'[f]
  BY <1>1 DEF RootsInv, RootsTyped
<1>4. RemovableIsKept'
  <2>1. \A g \in RootFile : Kept(g) => Kept(g)'
    BY <1>1, <1>2 DEF Kept, InTime
  <2>2. rootPc # "idle" => Roots!Created(current) \subseteq RootFile
    BY KnownManifest DEF RootsInv, RootsTyped, Roots!Created
  <2>3. todo \subseteq RootFile /\ Roots!Created(current)' = Roots!Created(current)
    BY <1>1 DEF RootsInv, RootsTyped, Roots!Created, Roots!Entries
  <2> QED BY <1>1, <2>1, <2>2, <2>3 DEF RootsInv, RemovableIsKept
<1>5. OnlyCreatedGo' /\ ComparedAgrees'
  BY <1>1 DEF RootsInv, OnlyCreatedGo, ComparedAgrees, InTime, Roots!Created, Roots!Agrees, Roots!Entries
<1>6. Roots!NothingLost'
  <2> SUFFICES ASSUME NEW w \in written', w \notin late
               PROVE  w[2] \in legacy'[w[1]] \/ (canonical[w[1]] # None /\ w[2] \in canonical[w[1]])
    BY <1>1 DEF Roots!NothingLost
  <2>1. CASE w = <<f, r>>
    BY <1>3, <2>1
  <2>2. CASE w \in written
    BY <1>2, <2>2 DEF RootsInv, RootsTyped, Roots!NothingLost
  <2> QED BY <1>1, <2>1, <2>2
<1> QED BY <1>2, <1>4, <1>5, <1>6 DEF RootsInv

LEMMA AppendCanonicalKeeps ==
    ASSUME RootsInv, NEW f \in RootFile, NEW r \in Record, Roots!AppendCanonical(f, r)
    PROVE  RootsInv'
<1> DEFINE file == IF canonical[f] = None THEN {r} ELSE canonical[f] \cup {r}
<1>1. /\ rootPc \in {"idle", "thaw", "remove"}
      /\ canonical' = [canonical EXCEPT ![f] = file]
      /\ written' = written \cup {<<f, r>>}
      /\ late' = IF Roots!Doomed(f) THEN late \cup {<<f, r>>} ELSE late
      /\ UNCHANGED <<legacy, frozen, manifest, rootPc, current, todo>>
  BY DEF Roots!AppendCanonical, Roots!At
<1>2. file \in SUBSET Record /\ file # None /\ r \in file
      /\ (canonical[f] # None => canonical[f] \subseteq file)
  <2>1. file \in SUBSET Record
    BY DEF RootsInv, RootsTyped, Roots!Contents
  <2> QED BY <2>1, RootsAssumption
<1>3. RootsTyped'
  <2> HIDE DEF file
  <2>1. canonical' \in Roots!Contents
    BY <1>1, <1>2 DEF RootsInv, RootsTyped, Roots!Contents
  <2>2. late' \subseteq written' /\ written' \subseteq RootFile \X Record
    BY <1>1 DEF RootsInv, RootsTyped
  <2> QED BY <1>1, <2>1, <2>2 DEF RootsInv, RootsTyped, Roots!Known
<1>4. canonical'[f] = file /\ \A g \in RootFile \ {f} : canonical'[g] = canonical[g]
  BY <1>1 DEF RootsInv, RootsTyped, Roots!Contents
<1>a. /\ \A g \in RootFile \ {f} : InTime(g)' \subseteq InTime(g)
      /\ Roots!Doomed(f) /\ canonical[f] # None => InTime(f)' \subseteq InTime(f)
      /\ Roots!Doomed(f) /\ canonical[f] = None => InTime(f)' = {}
  BY <1>1, <1>4 DEF InTime
<1>b. RemovableIsKept'
  <2> SUFFICES ASSUME rootPc = "remove", NEW g \in todo PROVE Kept(g)'
    BY <1>1 DEF RemovableIsKept
  <2>1. Kept(g) /\ g \in RootFile /\ (g = f => Roots!Doomed(f))
    BY DEF RootsInv, RootsTyped, RemovableIsKept, Roots!Doomed, Roots!At
  <2> QED BY <1>1, <1>4, <1>a, <2>1 DEF Kept
<1>c. OnlyCreatedGo' /\ Roots!Created(current)' = Roots!Created(current)
  BY <1>1 DEF RootsInv, OnlyCreatedGo, Roots!Created, Roots!Entries
<1>d. ComparedAgrees'
  <2> SUFFICES ASSUME rootPc = "thaw", NEW g \in Roots!Created(current)
               PROVE  canonical'[g] # None => InTime(g)' \subseteq manifest[current].source[g]
    BY <1>1, <1>c DEF ComparedAgrees
  <2>1. /\ canonical[g] # None => InTime(g) \subseteq manifest[current].source[g]
        /\ g = f => Roots!Doomed(f)
    BY DEF RootsInv, ComparedAgrees, Roots!Doomed, Roots!At
  <2>2. g \in RootFile
    BY KnownManifest DEF RootsInv, RootsTyped, Roots!Created
  <2> QED BY <1>4, <1>a, <2>1, <2>2
<1>5. Roots!NothingLost'
  <2> SUFFICES ASSUME NEW w \in written', w \notin late'
               PROVE  w[2] \in legacy[w[1]] \/ (canonical'[w[1]] # None /\ w[2] \in canonical'[w[1]])
    BY <1>1 DEF Roots!NothingLost
  <2> HIDE DEF file
  <2>1. w \notin late
    BY <1>1
  <2>2. CASE w = <<f, r>>
    BY <1>2, <1>4, <2>2
  <2>3. CASE w \in written
    <3>1. w[1] \in RootFile
      BY <2>3 DEF RootsInv, RootsTyped
    <3> QED BY <1>2, <1>4, <2>1, <2>3, <3>1 DEF RootsInv, Roots!NothingLost
  <2> QED BY <1>1, <2>2, <2>3
<1> QED BY <1>3, <1>b, <1>c, <1>d, <1>5 DEF RootsInv

(* A new manifest has the files as they are; none of the new ones is there.  *)
LEMMA PreviewKeeps ==
    ASSUME RootsInv, NEW m \in Migration, Roots!Preview(m)
    PROVE  RootsInv'
<1> DEFINE new == [status |-> "preview", source |-> legacy, backup |-> Roots!Nothing,
                   preexisting |-> [f \in RootFile |-> canonical[f] # None], frozen |-> frozen]
<1>1. /\ manifest' = [manifest EXCEPT ![m] = new]
      /\ current' = m /\ rootPc' = "copy" /\ todo' = RootFile
      /\ UNCHANGED <<legacy, canonical, frozen, written, late>>
  BY DEF Roots!Preview, Roots!Go
<1>2. new \in Roots!Manifest
  BY DEF Roots!Manifest, Roots!Contents, Roots!Nothing, RootsInv, RootsTyped
<1>3. manifest'[m] = new /\ m \in Roots!Known'
  BY <1>1, <1>2, RootsAssumption DEF RootsInv, RootsTyped, Roots!Known
<1>4. RootsTyped'
  BY <1>1, <1>2, <1>3 DEF RootsInv, RootsTyped
<1>5. RemovableIsKept'
  BY <1>1, <1>3 DEF RemovableIsKept, Kept, Roots!Created, Roots!Entries, RootsInv, RootsTyped
<1>6. OnlyCreatedGo' /\ ComparedAgrees' /\ Roots!NothingLost'
  BY <1>1 DEF RootsInv, OnlyCreatedGo, ComparedAgrees, Roots!NothingLost
<1> QED BY <1>4, <1>5, <1>6 DEF RootsInv

(* What a migration has copied from and found is fixed by its preview.       *)
LEMMA ManifestMoves ==
    ASSUME RootsInv, NEW m \in Roots!Known, NEW entry \in Roots!Manifest,
           entry.source = manifest[m].source, entry.preexisting = manifest[m].preexisting,
           manifest' = [manifest EXCEPT ![m] = entry]
    PROVE  /\ manifest' \in [Migration -> Roots!Manifest \cup {None}]
           /\ manifest'[m] = entry /\ Roots!Known' = Roots!Known
           /\ Roots!Created(m)' = Roots!Created(m) /\ Roots!Entries(m)' = Roots!Entries(m)
<1>1. m \in Migration /\ manifest' \in [Migration -> Roots!Manifest \cup {None}]
  BY KnownManifest DEF RootsInv, RootsTyped
<1>2. manifest'[m] = entry /\ entry # None
  BY <1>1, RootsAssumption DEF RootsInv, RootsTyped
<1>3. Roots!Known' = Roots!Known
  BY <1>1, <1>2 DEF RootsInv, RootsTyped, Roots!Known
<1> QED BY <1>1, <1>2, <1>3 DEF Roots!Created, Roots!Entries

LEMMA CopyToBackupKeeps ==
    ASSUME RootsInv, NEW f \in RootFile, Roots!CopyToBackup(f)
    PROVE  RootsInv'
<1>1. PICK m \in Roots!Known : m = current
  BY DEF RootsInv, RootsTyped, Roots!CopyToBackup, Roots!At
<1> DEFINE entry == [manifest[m] EXCEPT !.backup = [manifest[m].backup EXCEPT ![f] = legacy[f]]]
<1>2. manifest[m] \in Roots!Manifest
  BY KnownManifest DEF RootsInv
<1>3. manifest[m].backup \in Roots!Contents /\ [manifest[m].backup EXCEPT ![f] = legacy[f]] \in Roots!Contents
  BY <1>2 DEF Roots!Manifest, Roots!Contents, RootsInv, RootsTyped
<1>4. entry \in Roots!Manifest /\ entry.source = manifest[m].source
      /\ entry.preexisting = manifest[m].preexisting
  BY <1>2, <1>3 DEF Roots!Manifest
<1>5. /\ rootPc = "copy" /\ manifest' = [manifest EXCEPT ![m] = entry]
      /\ UNCHANGED <<legacy, canonical, frozen, written, late, rootPc, current, todo>>
  BY <1>1 DEF Roots!CopyToBackup, Roots!At
<1> HIDE DEF entry
<1>6. /\ manifest' \in [Migration -> Roots!Manifest \cup {None}]
      /\ Roots!Known' = Roots!Known /\ Roots!Created(m)' = Roots!Created(m)
  BY <1>4, <1>5, ManifestMoves
<1>7. RootsTyped'
  BY <1>5, <1>6 DEF RootsInv, RootsTyped
<1>8. RemovableIsKept' /\ OnlyCreatedGo' /\ ComparedAgrees' /\ Roots!NothingLost'
  BY <1>1, <1>5, <1>6 DEF RootsInv, RemovableIsKept, Kept, InTime, OnlyCreatedGo, ComparedAgrees, Roots!NothingLost
<1> QED BY <1>7, <1>8 DEF RootsInv

(* What a copy replaces was itself copied from the legacy file.             *)
LEMMA CopyToCanonicalKeeps ==
    ASSUME RootsInv, NEW f \in RootFile, Roots!CopyToCanonical(f)
    PROVE  RootsInv'
<1>1. /\ rootPc = "copy" /\ rootPc' = "copy" /\ todo' = todo \ {f}
      /\ UNCHANGED <<legacy, frozen, written, late, manifest, current>>
      /\ canonical' = IF f \in Roots!Created(current) THEN [canonical EXCEPT ![f] = legacy[f]] ELSE canonical
  BY DEF Roots!CopyToCanonical, Roots!At, Roots!Go
<1>2. /\ RootsTyped' /\ legacy[f] # None
      /\ \A g \in RootFile : canonical'[g] = canonical[g]
           \/ (g = f /\ f \in Roots!Created(current) /\ canonical'[g] = legacy[g])
  BY <1>1, RootsAssumption DEF RootsInv, RootsTyped, Roots!Contents, Roots!Known
<1>3. current \in Roots!Known /\ Roots!Created(current) \subseteq RootFile
  BY <1>1, KnownManifest DEF RootsInv, RootsTyped, Roots!Created
<1>4. RemovableIsKept'
  <2> SUFFICES ASSUME NEW g \in Roots!Created(current) PROVE Kept(g)'
    BY <1>1 DEF RemovableIsKept, Roots!Created, Roots!Entries
  <2> QED BY <1>1, <1>2, <1>3 DEF RootsInv, RemovableIsKept, Kept, InTime
<1>5. OnlyCreatedGo' /\ ComparedAgrees'
  BY <1>1 DEF OnlyCreatedGo, ComparedAgrees
<1>6. Roots!NothingLost'
  <2> SUFFICES ASSUME NEW w \in written, w \notin late
               PROVE  w[2] \in legacy[w[1]] \/ (canonical'[w[1]] # None /\ w[2] \in canonical'[w[1]])
    BY <1>1 DEF Roots!NothingLost
  <2>1. w[1] \in RootFile /\ (w[2] \in legacy[w[1]] \/ (canonical[w[1]] # None /\ w[2] \in canonical[w[1]]))
    BY DEF RootsInv, RootsTyped, Roots!NothingLost
  <2>2. CASE canonical'[w[1]] = canonical[w[1]]
    BY <2>1, <2>2
  <2>3. CASE /\ w[1] = f /\ f \in Roots!Created(current) /\ canonical'[w[1]] = legacy[w[1]]
    <3>1. w = <<w[1], w[2]>>
      BY DEF RootsInv, RootsTyped
    <3>2. w[2] \in legacy[w[1]]
      <4>1. Kept(f)
        BY <1>1, <2>3 DEF RootsInv, RemovableIsKept
      <4> QED BY <2>1, <2>3, <3>1, <4>1 DEF Kept, InTime
    <3> QED BY <1>2, <2>3, <3>2
  <2> QED BY <1>2, <2>1, <2>2, <2>3
<1> QED BY <1>2, <1>4, <1>5, <1>6 DEF RootsInv

(* Only a file that the legacy root has as well is removed, or what is late. *)
LEMMA RemoveCreatedKeeps ==
    ASSUME RootsInv, NEW f \in RootFile, Roots!RemoveCreated(f)
    PROVE  RootsInv'
<1>1. /\ rootPc \in {"undo", "remove"} /\ f \in todo /\ rootPc' = rootPc /\ todo' = todo \ {f}
      /\ UNCHANGED <<legacy, frozen, written, late, manifest, current>>
      /\ canonical' = [canonical EXCEPT ![f] = None]
  BY DEF Roots!RemoveCreated, Roots!Go
<1>2. /\ RootsTyped'
      /\ \A g \in RootFile : canonical'[g] = IF g = f THEN None ELSE canonical[g]
  BY <1>1 DEF RootsInv, RootsTyped, Roots!Contents, Roots!Known
<1>3. f \in Roots!Created(current) /\ Roots!Created(current) \subseteq RootFile
  BY <1>1, KnownManifest DEF RootsInv, RootsTyped, Roots!Created, OnlyCreatedGo
<1>4. RemovableIsKept' /\ OnlyCreatedGo' /\ ComparedAgrees'
  <2>1. Roots!Created(current)' = Roots!Created(current)
    BY <1>1 DEF Roots!Created, Roots!Entries
  <2>2. \A g \in RootFile : Kept(g) => Kept(g)'
    BY <1>1, <1>2 DEF Kept, InTime
  <2>3. OnlyCreatedGo' /\ ComparedAgrees'
    BY <1>1, <1>2, <1>3, <2>1 DEF RootsInv, OnlyCreatedGo, ComparedAgrees
  <2> QED BY <1>1, <1>3, <2>1, <2>2, <2>3 DEF RootsInv, RemovableIsKept, OnlyCreatedGo
<1>5. Roots!NothingLost'
  <2> SUFFICES ASSUME NEW w \in written, w \notin late
               PROVE  w[2] \in legacy[w[1]] \/ (canonical'[w[1]] # None /\ w[2] \in canonical'[w[1]])
    BY <1>1 DEF Roots!NothingLost
  <2>1. w[1] \in RootFile /\ (w[2] \in legacy[w[1]] \/ (canonical[w[1]] # None /\ w[2] \in canonical[w[1]]))
    BY DEF RootsInv, RootsTyped, Roots!NothingLost
  <2>2. w[1] = f => w[2] \in legacy[w[1]]
    <3>1. w = <<w[1], w[2]>>
      BY DEF RootsInv, RootsTyped
    <3>2. Kept(f)
      BY <1>1, <1>3 DEF RootsInv, RemovableIsKept
    <3> QED BY <2>1, <3>1, <3>2 DEF Kept, InTime
  <2> QED BY <1>2, <2>1, <2>2
<1> QED BY <1>2, <1>4, <1>5 DEF RootsInv

(* The steps that compare, freeze, thaw or give up, and touch no record.     *)
LEMMA CommandKeeps ==
    ASSUME RootsInv,
           \/ \E f \in RootFile : Roots!Freeze(f)
           \/ Roots!ApplyFails \/ Roots!CheckLegacy \/ Roots!Die
           \/ \E m \in Migration : Roots!Rollback(m)
    PROVE  RootsInv'
<1>0. UNCHANGED <<legacy, canonical, written, late, manifest>>
  BY DEF Roots!Freeze, Roots!ApplyFails, Roots!CheckLegacy, Roots!Die, Roots!Rollback
<1>1. Roots!NothingLost' /\ Roots!Known' = Roots!Known
  BY <1>0 DEF RootsInv, Roots!NothingLost, Roots!Known
<1>2. \A m : /\ Roots!Created(m)' = Roots!Created(m) /\ Roots!Entries(m)' = Roots!Entries(m)
             /\ Roots!Agrees(canonical, m)' <=> Roots!Agrees(canonical, m)
             /\ manifest'[m] = manifest[m]
             /\ Roots!Agrees(manifest[m].backup, m)' <=> Roots!Agrees(manifest[m].backup, m)
  BY <1>0 DEF Roots!Created, Roots!Entries, Roots!Agrees
<1>a. \A f : (Kept(f)' <=> Kept(f)) /\ InTime(f)' = InTime(f)
  BY <1>0 DEF Kept, InTime
<1>3. \A m \in Roots!Known : /\ Roots!Entries(m) = RootFile /\ Roots!Created(m) \subseteq RootFile
                             /\ manifest[m].frozen \subseteq RootFile
  BY KnownManifest DEF RootsInv, Roots!Created, Roots!Manifest
<1>4. ASSUME NEW f \in RootFile, Roots!Freeze(f) PROVE RootsInv'
  BY <1>0, <1>1, <1>2, <1>a, <1>4
  DEF RootsInv, RootsTyped, RemovableIsKept, OnlyCreatedGo, ComparedAgrees, Roots!Freeze, Roots!Go, Roots!At
<1>5. CASE Roots!ApplyFails
  <2>1. current \in Roots!Known
    BY <1>5 DEF Roots!ApplyFails, RootsInv, RootsTyped
  <2> QED BY <1>0, <1>1, <1>2, <1>a, <1>3, <1>5, <2>1
      DEF RootsInv, RootsTyped, RemovableIsKept, OnlyCreatedGo, ComparedAgrees, Roots!ApplyFails, Roots!Go
<1>6. CASE Roots!CheckLegacy
  <2>1. current \in Roots!Known /\ rootPc = "thaw"
    BY <1>6 DEF Roots!CheckLegacy, Roots!At, RootsInv, RootsTyped
  <2>2. Roots!Agrees(legacy, current) => \A f \in Roots!Created(current) : Kept(f)
    BY <1>3, <2>1 DEF Roots!Agrees, RootsInv, ComparedAgrees, Kept
  <2> QED BY <1>0, <1>1, <1>2, <1>a, <1>3, <1>6, <2>1, <2>2
      DEF RootsInv, RootsTyped, RemovableIsKept, OnlyCreatedGo, ComparedAgrees, Roots!CheckLegacy, Roots!Go
<1>7. CASE Roots!Die
  BY <1>0, <1>1, <1>a, <1>7
  DEF RootsInv, RootsTyped, RemovableIsKept, OnlyCreatedGo, ComparedAgrees, Roots!Die, Roots!Go
<1>8. ASSUME NEW m \in Migration, Roots!Rollback(m) PROVE RootsInv'
  <2>1. m \in Roots!Known /\ Roots!Agrees(canonical, m)
    BY <1>8 DEF Roots!Rollback, Roots!OnDisk
  <2>2. \A f \in Roots!Created(m) : InTime(f) \subseteq manifest[m].source[f]
    BY <1>3, <2>1 DEF Roots!Agrees, InTime
  <2> QED BY <1>0, <1>1, <1>2, <1>a, <1>3, <1>8, <2>1, <2>2
      DEF RootsInv, RootsTyped, RemovableIsKept, OnlyCreatedGo, ComparedAgrees, Roots!Rollback, Roots!Go
<1> QED BY <1>4, <1>5, <1>6, <1>7, <1>8

(* The steps that write the manifest of the migration under way.            *)
LEMMA RecordKeeps ==
    ASSUME RootsInv, Roots!Reconcile \/ Roots!Finish \/ Roots!Undone \/ Roots!RolledBack
    PROVE  RootsInv'
<1>1. PICK m \in Roots!Known : m = current
  BY DEF RootsInv, RootsTyped, Roots!Reconcile, Roots!Finish, Roots!Undone, Roots!RolledBack, Roots!At
<1>2. manifest[m] \in Roots!Manifest /\ Roots!Entries(m) = RootFile
  BY KnownManifest DEF RootsInv
<1>3. PICK entry \in Roots!Manifest :
        /\ entry.source = manifest[m].source /\ entry.preexisting = manifest[m].preexisting
        /\ manifest' = [manifest EXCEPT ![m] = entry]
        /\ Roots!Reconcile => entry.backup = manifest[m].backup
  <2>1. CASE Roots!Undone
    <3> DEFINE entry == [manifest[m] EXCEPT !.status = "preview", !.backup = Roots!Nothing]
    <3>1. entry \in Roots!Manifest /\ entry.source = manifest[m].source
          /\ entry.preexisting = manifest[m].preexisting
      BY <1>2 DEF Roots!Manifest, Roots!Contents, Roots!Nothing
    <3>2. manifest' = [manifest EXCEPT ![m] = entry]
      <4>1. manifest' = [manifest EXCEPT ![m].status = "preview", ![m].backup = Roots!Nothing]
        BY <1>1, <2>1 DEF Roots!Undone
      <4> QED BY <4>1, <1>2, KnownManifest DEF RootsInv, RootsTyped, Roots!Manifest
    <3>3. ~Roots!Reconcile
      BY <2>1 DEF Roots!Undone, Roots!Reconcile, Roots!At
    <3> QED BY <3>1, <3>2, <3>3
  <2>2. ASSUME NEW s \in {"prepared", "applied", "rolled_back"},
               manifest' = [manifest EXCEPT ![m].status = s]
        PROVE  \E entry \in Roots!Manifest :
                 /\ entry.source = manifest[m].source /\ entry.preexisting = manifest[m].preexisting
                 /\ manifest' = [manifest EXCEPT ![m] = entry]
                 /\ entry.backup = manifest[m].backup
    <3> DEFINE entry == [manifest[m] EXCEPT !.status = s]
    <3>1. entry \in Roots!Manifest /\ entry.source = manifest[m].source
          /\ entry.preexisting = manifest[m].preexisting /\ entry.backup = manifest[m].backup
      BY <1>2 DEF Roots!Manifest
    <3> QED BY <2>2, <3>1
  <2> QED BY <1>1, <2>1, <2>2 DEF Roots!Reconcile, Roots!Finish, Roots!RolledBack
<1>4. /\ manifest' \in [Migration -> Roots!Manifest \cup {None}]
      /\ manifest'[m] = entry /\ Roots!Known' = Roots!Known
      /\ Roots!Created(m)' = Roots!Created(m) /\ Roots!Entries(m)' = Roots!Entries(m)
  BY <1>3, ManifestMoves
<1>5. UNCHANGED <<legacy, canonical, frozen, written, late>> /\ Roots!NothingLost'
  BY DEF Roots!Reconcile, Roots!Finish, Roots!Undone, Roots!RolledBack, RootsInv, Roots!NothingLost
<1>6. CASE Roots!Reconcile
  <2>1. /\ rootPc = "copy" /\ rootPc' = "freeze" /\ todo' = RootFile /\ current' = current
        /\ Roots!Agrees(canonical, m) /\ Roots!Agrees(manifest[m].backup, m)
    BY <1>1, <1>2, <1>6 DEF Roots!Reconcile, Roots!Reconciled, Roots!At, Roots!Go
  <2>2. RootsTyped' /\ OnlyCreatedGo'
    BY <1>1, <1>4, <1>5, <2>1 DEF RootsInv, RootsTyped, OnlyCreatedGo
  <2>3. RemovableIsKept'
    BY <1>1, <1>4, <1>5, <2>1 DEF RootsInv, RemovableIsKept, Kept, InTime
  <2>4. ComparedAgrees'
    <3>1. Roots!Agrees(canonical, m)' /\ Roots!Agrees(manifest[m].backup, m)'
      BY <1>3, <1>4, <1>5, <1>6, <2>1 DEF Roots!Agrees
    <3> QED BY <1>1, <1>2, <1>4, <2>1, <3>1 DEF ComparedAgrees
  <2> QED BY <1>5, <2>2, <2>3, <2>4 DEF RootsInv
<1>7. CASE Roots!Finish \/ Roots!Undone \/ Roots!RolledBack
  <2>1. rootPc' = "idle" /\ todo' = {}
    BY <1>7 DEF Roots!Finish, Roots!Undone, Roots!RolledBack, Roots!Go
  <2>2. RootsTyped'
    BY <1>4, <1>5, <2>1 DEF RootsInv, RootsTyped
  <2> QED BY <1>5, <2>1, <2>2 DEF RootsInv, RemovableIsKept, OnlyCreatedGo, ComparedAgrees
<1> QED BY <1>6, <1>7

LEMMA RootsStep == RootsInv /\ [Roots!Next]_Roots!vars => RootsInv'
<1>1. RootsInv /\ UNCHANGED Roots!vars => RootsInv'
  BY DEF Roots!vars, RootsInv, RootsTyped, RemovableIsKept, Kept, InTime, OnlyCreatedGo, ComparedAgrees,
         Roots!NothingLost, Roots!Known, Roots!Created, Roots!Entries, Roots!Agrees
<1> QED BY <1>1, AppendLegacyKeeps, AppendCanonicalKeeps, PreviewKeeps, CopyToBackupKeeps,
           CopyToCanonicalKeeps, RemoveCreatedKeeps, CommandKeeps, RecordKeeps DEF Roots!Next

(* Only what is appended to a migrated canonical file between a rollback's   *)
(* comparison and the file's removal is lost: no other record is, by any     *)
(* sequence of migrations, failures, deaths and rollbacks.                  *)
THEOREM NoRecordIsLost == Roots!Spec => []NothingLost
<1>1. RootsInv => NothingLost
  BY DEF RootsInv, NothingLost
<1> QED BY <1>1, RootsInit, RootsStep, PTL DEF Roots!Spec

(* A migration becomes applied only when both roots and the backup hold the  *)
(* same and the legacy files can no longer change.                          *)
THEOREM AppliedMeansAgreed == Roots!Spec => AppliedAgrees
<1> DEFINE Agreed ==
      \A m \in Roots!Known : manifest'[m].status = "applied" /\ manifest[m].status # "applied" =>
        /\ Roots!Agrees(canonical, m) /\ Roots!Agrees(manifest[m].backup, m) /\ Roots!Agrees(legacy, m)
        /\ Roots!Entries(m) \subseteq frozen
<1>1. RootsInv /\ [Roots!Next]_Roots!vars => [Agreed]_Roots!vars
  <2> SUFFICES ASSUME RootsInv, Roots!Next, NEW m \in Roots!Known, manifest'[m].status = "applied",
                      manifest[m].status # "applied"
               PROVE  /\ Roots!Agrees(canonical, m) /\ Roots!Agrees(manifest[m].backup, m)
                      /\ Roots!Agrees(legacy, m) /\ Roots!Entries(m) \subseteq frozen
    OBVIOUS
  <2>1. m \in Migration /\ manifest[m] \in Roots!Manifest /\ manifest[m] # None /\ manifest' # manifest
    BY KnownManifest DEF RootsInv, Roots!Known
  <2>2. Roots!Finish /\ m = current
    <3>1. ASSUME NEW n \in Migration, Roots!Preview(n) PROVE FALSE
      BY <2>1, <3>1 DEF Roots!Preview, RootsInv, RootsTyped
    <3>2. ASSUME NEW f \in RootFile, Roots!CopyToBackup(f) PROVE FALSE
      <4>1. manifest'[m].status = manifest[m].status
        BY <2>1, <3>2 DEF Roots!CopyToBackup, RootsInv, RootsTyped, Roots!Manifest
      <4> QED BY <4>1
    <3>3. ASSUME NEW s, s # "applied", manifest' = [manifest EXCEPT ![current].status = s] PROVE FALSE
      BY <2>1, <3>3 DEF RootsInv, RootsTyped, Roots!Manifest
    <3>4. ~Roots!Undone
      BY <2>1 DEF Roots!Undone, RootsInv, RootsTyped, Roots!Manifest
    <3>5. Roots!Finish
      BY <2>1, <3>1, <3>2, <3>3, <3>4
      DEF Roots!Next, Roots!AppendLegacy, Roots!AppendCanonical, Roots!Rollback, Roots!CopyToCanonical,
          Roots!Freeze, Roots!RemoveCreated, Roots!Reconcile, Roots!ApplyFails, Roots!CheckLegacy,
          Roots!RolledBack, Roots!Die
    <3> QED BY <2>1, <3>5 DEF Roots!Finish, RootsInv, RootsTyped
  <2> QED BY <2>2 DEF Roots!Finish, Roots!At, RootsInv, ComparedAgrees
<1>2. Roots!Spec => []RootsInv
  BY RootsInit, RootsStep, PTL DEF Roots!Spec
<1> QED BY <1>1, <1>2, PTL DEF Roots!Spec, AppliedAgrees, Roots!AppliedAgrees

-----------------------------------------------------------------------------
(***************************************************************************)
(* Shadow migrations.  That a checkpoint counts only what was admitted, but  *)
(* for changes undone under an adapter, and that runs which do not overlap   *)
(* leave one chain, for any runners, sources and runs, wherever they stop    *)
(* and however the sources change.  While an adapter's work awaits the       *)
(* second observation, it has read what was admitted, or the source is       *)
(* something else now, or it came back.                                     *)
(***************************************************************************)
Places == {"off", "step", "work", "reobserve", "advance", "persist"}

ShadowTyped ==
    /\ corpus \in Shadow!Corpus
    /\ journal \subseteq Shadow!Checkpoint /\ IsFiniteSet(journal)
    /\ runnerPc \in [Runner -> Places]
    /\ DOMAIN checkpoint = Runner /\ checkpoint = [r \in Runner |-> checkpoint[r]]
    /\ DOMAIN result = Runner /\ result = [r \in Runner |-> result[r]]
    /\ DOMAIN run = Runner /\ run = [r \in Runner |-> run[r]]
    /\ \A r \in Runner : runnerPc[r] # "off" => checkpoint[r] \in Shadow!Checkpoint /\ run[r] \in Nat
    /\ runs \in Nat /\ changes \in Nat /\ overlapped \in BOOLEAN

(* How far a checkpoint has come, and that it counts what was admitted.      *)
CountsAdmitted(c) ==
    /\ Len(c.staged) = IF c.phase = 1 THEN 0 ELSE IF c.phase = 2 THEN c.next ELSE Sources
    /\ c.verified = IF c.phase \in {1, 2} THEN 0 ELSE IF c.phase = 3 THEN c.next ELSE Sources
    /\ \A i \in 1..Len(c.staged) : c.staged[i] = c.corpus[i] \/ <<2, i>> \in undone
    /\ \A i \in 1..c.verified : CountsOf[c.staged[i]] = CountsOf[c.corpus[i]] \/ <<3, i>> \in undone

(* What was read of the source at which c stands is what was admitted, or    *)
(* the source has come back to that.                                        *)
ReadFits(c, content) ==
    content = c.corpus[c.next + 1] \/ <<c.phase, c.next + 1>> \in undone

RunnerFits(r) ==
    LET c == checkpoint[r] IN
    /\ runnerPc[r] # "off" => CountsAdmitted(c)
    /\ runnerPc[r] \in {"work", "reobserve", "advance"} => c.phase < 4
    /\ runnerPc[r] \in {"work", "reobserve"} => c.next < Sources /\ c.phase # 1
    /\ runnerPc[r] = "reobserve" =>
         result[r] \in Content /\ (corpus[c.next + 1] = c.corpus[c.next + 1] => ReadFits(c, result[r]))
    /\ runnerPc[r] = "advance" /\ c.next < Sources /\ c.phase # 1 =>
         result[r] \in Content /\ ReadFits(c, result[r])

ShadowInv ==
    /\ ShadowTyped
    /\ \A c \in journal : CountsAdmitted(c)
    /\ \A r \in Runner : RunnerFits(r)

(* The next checkpoint of a chain counts one step more, and has the next     *)
(* revision.                                                                *)
LEMMA AdvancedFits ==
    ASSUME NEW c \in Shadow!Checkpoint, CountsAdmitted(c), c.phase < 4, NEW content, NEW at \in Nat,
           c.next < Sources /\ c.phase # 1 => content \in Content /\ ReadFits(c, content),
           c.phase = 3 /\ c.next < Sources => CountsOf[content] = CountsOf[c.staged[c.next + 1]]
    PROVE  LET d == Shadow!Advanced(c, content, at) IN
           /\ d \in Shadow!Checkpoint /\ CountsAdmitted(d)
           /\ Shadow!Revision(d) = Shadow!Revision(c) + 1
<1> DEFINE d == Shadow!Advanced(c, content, at)
<1> Sources \in Nat
  BY ShadowAssumption
<1>1. /\ c.phase \in 1..3 /\ c.next \in 0..Sources /\ c.corpus \in Shadow!Corpus
      /\ c.staged \in Seq(Content) /\ c.verified \in 0..Sources /\ c.issued \in Seq(Nat)
  BY DEF Shadow!Checkpoint
<1>2. CASE c.next < Sources
  <2> DEFINE staged == IF c.phase = 2 THEN Append(c.staged, content) ELSE c.staged
             verified == IF c.phase = 3 THEN c.verified + 1 ELSE c.verified
  <2>1. d = [phase |-> c.phase, next |-> c.next + 1, corpus |-> c.corpus, staged |-> staged,
             verified |-> verified, issued |-> c.issued]
    BY <1>2 DEF Shadow!Advanced, Shadow!Checkpoint
  <2>3. /\ staged \in Seq(Content) /\ verified \in 0..Sources
        /\ Len(staged) = IF c.phase = 1 THEN 0 ELSE IF c.phase = 2 THEN c.next + 1 ELSE Sources
        /\ verified = IF c.phase \in {1, 2} THEN 0 ELSE IF c.phase = 3 THEN c.next + 1 ELSE Sources
        /\ \A i \in 1..Len(staged) : staged[i] = c.corpus[i] \/ <<2, i>> \in undone
        /\ \A i \in 1..verified : CountsOf[staged[i]] = CountsOf[c.corpus[i]] \/ <<3, i>> \in undone
    <3>1. CASE c.phase = 1
      BY <1>1, <1>2, <3>1 DEF CountsAdmitted
    <3>2. CASE c.phase = 2
      <4>1. /\ Len(c.staged) = c.next /\ verified = 0 /\ Len(staged) = c.next + 1
            /\ staged[c.next + 1] = content /\ \A i \in 1..c.next : staged[i] = c.staged[i]
            /\ staged \in Seq(Content)
        BY <1>1, <1>2, <3>2 DEF CountsAdmitted
      <4>2. \A i \in 1..(c.next + 1) : i \in 1..c.next \/ i = c.next + 1
        BY <1>1
      <4>3. \A i \in 1..Len(staged) : staged[i] = c.corpus[i] \/ <<2, i>> \in undone
        BY <1>2, <3>2, <4>1, <4>2 DEF CountsAdmitted, ReadFits
      <4> QED BY <1>1, <3>2, <4>1, <4>3
    <3>3. CASE c.phase = 3
      <4>1. \A i \in 1..verified : i \in 1..c.verified \/ i = c.next + 1
        BY <1>1, <1>2, <3>3 DEF CountsAdmitted
      <4>2. CountsOf[staged[c.next + 1]] = CountsOf[c.corpus[c.next + 1]] \/ <<3, c.next + 1>> \in undone
        BY <1>2, <3>3 DEF ReadFits
      <4>3. /\ staged = c.staged /\ Len(staged) = Sources /\ c.verified = c.next
            /\ verified = c.next + 1
        BY <1>1, <1>2, <3>3 DEF CountsAdmitted
      <4>4. \A i \in 1..verified : CountsOf[staged[i]] = CountsOf[c.corpus[i]] \/ <<3, i>> \in undone
        BY <4>1, <4>2, <4>3 DEF CountsAdmitted
      <4>5. \A i \in 1..Len(staged) : staged[i] = c.corpus[i] \/ <<2, i>> \in undone
        BY <4>3 DEF CountsAdmitted
      <4> QED BY <1>1, <1>2, <3>3, <4>3, <4>4, <4>5
    <3> QED BY <1>1, <3>1, <3>2, <3>3
  <2> HIDE DEF staged, verified, d
  <2>4. /\ d.phase = c.phase /\ d.next = c.next + 1 /\ d.corpus = c.corpus /\ d.staged = staged
        /\ d.verified = verified /\ d.issued = c.issued
    BY <2>1
  <2>5. d \in Shadow!Checkpoint
    BY <1>1, <1>2, <2>1, <2>3 DEF Shadow!Checkpoint
  <2>6. Shadow!Revision(d) = Shadow!Revision(c) + 1
    <3>1. CASE c.phase = 1
      BY <1>1, <1>2, <2>4, <3>1 DEF Shadow!Revision
    <3>2. CASE c.phase = 2
      BY <1>1, <1>2, <2>4, <3>2 DEF Shadow!Revision
    <3>3. CASE c.phase = 3
      BY <1>1, <1>2, <2>4, <3>3 DEF Shadow!Revision
    <3> QED BY <1>1, <3>1, <3>2, <3>3
  <2> QED BY <2>3, <2>4, <2>5, <2>6 DEF CountsAdmitted, d
<1>3. CASE c.next = Sources
  <2> DEFINE next == IF c.phase = 3 THEN Sources ELSE 0
  <2>1. d = [phase |-> c.phase + 1, next |-> next, corpus |-> c.corpus, staged |-> c.staged,
             verified |-> c.verified, issued |-> Append(c.issued, at)]
    <3>1. ~(c.next < Sources)
      BY <1>3
    <3> QED BY <3>1 DEF Shadow!Advanced, Shadow!Checkpoint
  <2> HIDE DEF d
  <2>2. /\ d.phase = c.phase + 1 /\ d.next = next /\ d.corpus = c.corpus /\ d.staged = c.staged
        /\ d.verified = c.verified /\ d.issued = Append(c.issued, at)
    BY <2>1
  <2>3. d \in Shadow!Checkpoint
    BY <1>1, <2>1 DEF Shadow!Checkpoint
  <2>4. CountsAdmitted(d)
    BY <1>1, <1>3, <2>2 DEF CountsAdmitted
  <2>5. Shadow!Revision(d) = Shadow!Revision(c) + 1
    <3>1. CASE c.phase = 1
      BY <1>1, <1>3, <2>2, <3>1 DEF Shadow!Revision
    <3>2. CASE c.phase = 2
      BY <1>1, <1>3, <2>2, <3>2 DEF Shadow!Revision
    <3>3. CASE c.phase = 3
      BY <1>1, <1>3, <2>2, <3>3 DEF Shadow!Revision
    <3> QED BY <1>1, <3>1, <3>2, <3>3
  <2> QED BY <2>3, <2>4, <2>5 DEF d
<1> QED BY <1>1, <1>2, <1>3

(* The last checkpoint of a chain has the highest revision.                 *)
LEMMA LastIsHighest ==
    ASSUME IsFiniteSet(journal), journal # {}, Shadow!Gapless
    PROVE  Shadow!Last \in journal /\ Shadow!Revision(Shadow!Last) = Cardinality(journal)
<1>1. Cardinality(journal) \in Nat /\ Cardinality(journal) # 0
  BY FS_CardinalityType, FS_EmptySet
<1>0. Shadow!Cardinality(journal) = Cardinality(journal)
  BY DEF Shadow!Cardinality, Cardinality
<1>2. PICK c \in journal : Shadow!Revision(c) = Cardinality(journal)
  <2>1. Cardinality(journal) \in {Shadow!Revision(c) : c \in journal}
    BY <1>0, <1>1 DEF Shadow!Gapless
  <2> QED BY <2>1
<1>3. \A d \in journal : Shadow!Revision(d) \in 1..Cardinality(journal)
  BY <1>0 DEF Shadow!Gapless
<1>4. \A d \in journal : Shadow!Revision(d) <= Shadow!Revision(c)
  BY <1>1, <1>2, <1>3
<1>5. Shadow!Last \in journal /\ \A d \in journal : Shadow!Revision(d) <= Shadow!Revision(Shadow!Last)
  BY <1>4 DEF Shadow!Last
<1> QED BY <1>1, <1>2, <1>3, <1>5

LEMMA ShadowInit == Shadow!Init => ShadowInv
<1> SUFFICES ASSUME Shadow!Init PROVE ShadowInv
  OBVIOUS
<1>1. ShadowTyped
  <2>1. IsFiniteSet(journal)
    BY FS_EmptySet DEF Shadow!Init
  <2>2. corpus \in Shadow!Corpus
    BY ShadowAssumption DEF Shadow!Init, Shadow!Corpus, Shadow!Index
  <2> QED BY <2>1, <2>2 DEF Shadow!Init, ShadowTyped, Places
<1> QED BY <1>1 DEF Shadow!Init, ShadowInv, RunnerFits

(* What holds of a runner and its memory holds until it takes a step.        *)
Rests(q) == runnerPc'[q] = runnerPc[q] /\ checkpoint'[q] = checkpoint[q] /\ result'[q] = result[q]

LEMMA RestingFits ==
    ASSUME NEW q \in Runner, Rests(q), RunnerFits(q),
           UNCHANGED <<corpus, undone>>
    PROVE  RunnerFits(q)'
BY DEF Rests, RunnerFits, CountsAdmitted, ReadFits

(* What came back is remembered.                                            *)
LEMMA CountsStay ==
    ASSUME NEW c, CountsAdmitted(c), undone \subseteq undone'
    PROVE  CountsAdmitted(c)'
BY DEF CountsAdmitted

(* A source changes.  If an adapter is at it and it comes to be what was     *)
(* admitted, it has come back.                                              *)
LEMMA DriftKeeps ==
    ASSUME ShadowInv, NEW i \in Shadow!Index, NEW content \in Content, Shadow!Drift(i, content)
    PROVE  ShadowInv'
<1> DEFINE back == {q \in Runner : Shadow!WorksOn(q, i) /\ checkpoint[q].corpus[i] = content}
<1>1. /\ corpus' = [corpus EXCEPT ![i] = content] /\ changes' = changes + 1
      /\ undone' = undone \cup {<<checkpoint[r].phase, i>> : r \in back}
      /\ UNCHANGED <<journal, runnerPc, checkpoint, result, run, runs, overlapped>>
  BY DEF Shadow!Drift
<1> HIDE DEF back
<1>2. corpus' \in Shadow!Corpus /\ corpus'[i] = content /\ \A j \in Shadow!Index \ {i} : corpus'[j] = corpus[j]
  BY <1>1 DEF ShadowInv, ShadowTyped, Shadow!Corpus
<1>3. undone \subseteq undone'
  BY <1>1
<1>4. ASSUME NEW r \in Runner PROVE RunnerFits(r)'
  <2> DEFINE c == checkpoint[r]
  <2>1. /\ runnerPc'[r] = runnerPc[r] /\ checkpoint'[r] = c /\ result'[r] = result[r]
        /\ runnerPc[r] # "off" => CountsAdmitted(c)'
    BY <1>1, <1>3, CountsStay DEF ShadowInv, RunnerFits
  <2>2. ReadFits(c, result[r]) => ReadFits(c, result[r])'
    BY <1>1, <1>3 DEF ReadFits
  <2>3. ASSUME runnerPc[r] = "reobserve", corpus'[c.next + 1] = c.corpus[c.next + 1]
        PROVE  ReadFits(c, result[r])'
    <3>1. c.next + 1 \in Shadow!Index
      <4>1. c \in Shadow!Checkpoint /\ c.next < Sources
        BY <2>3 DEF ShadowInv, ShadowTyped, RunnerFits
      <4>2. c.next \in 0..Sources
        BY <4>1 DEF Shadow!Checkpoint
      <4> QED BY <4>1, <4>2, ShadowAssumption DEF Shadow!Index
    <3>2. CASE c.next + 1 = i
      <4>1. r \in back
        BY <1>2, <2>3, <3>2 DEF back, Shadow!WorksOn
      <4> QED BY <1>1, <3>2, <4>1 DEF ReadFits
    <3>3. CASE c.next + 1 # i
      BY <1>2, <2>2, <2>3, <3>1, <3>3 DEF ShadowInv, RunnerFits
    <3> QED BY <3>2, <3>3
  <2> QED BY <1>1, <2>1, <2>2, <2>3 DEF ShadowInv, RunnerFits
<1>5. ShadowTyped'
  BY <1>1, <1>2 DEF ShadowInv, ShadowTyped
<1> QED BY <1>1, <1>3, <1>4, <1>5, CountsStay DEF ShadowInv

(* A step of one runner leaves the others where they are.                   *)
LEMMA RunnerStep ==
    ASSUME ShadowInv, NEW r \in Runner, UNCHANGED <<corpus, journal, undone>>, ShadowTyped', RunnerFits(r)',
           \A q \in Runner \ {r} : Rests(q)
    PROVE  ShadowInv'
<1>1. ASSUME NEW q \in Runner PROVE RunnerFits(q)'
  <2>1. CASE q = r
    BY <2>1
  <2>2. CASE q # r
    BY <2>2, RestingFits DEF ShadowInv
  <2> QED BY <2>1, <2>2
<1> QED BY <1>1 DEF ShadowInv, CountsAdmitted

LEMMA StartKeeps ==
    ASSUME ShadowInv, NEW r \in Runner, Shadow!Start(r)
    PROVE  ShadowInv'
<1> DEFINE first == [phase |-> 1, next |-> 0, corpus |-> corpus, staged |-> << >>, verified |-> 0,
                     issued |-> <<runs + 1>>]
<1>0. Sources \in Nat
  BY ShadowAssumption
<1>1. PICK c \in Shadow!Checkpoint, l \in {"persist", "step"} :
        /\ CountsAdmitted(c)
        /\ checkpoint' = [checkpoint EXCEPT ![r] = c] /\ runnerPc' = [runnerPc EXCEPT ![r] = l]
  <2>1. CASE journal = {}
    <3>1. first \in Shadow!Checkpoint
      BY <1>0 DEF Shadow!Checkpoint, ShadowInv, ShadowTyped
    <3>2. CountsAdmitted(first)
      BY <1>0 DEF CountsAdmitted
    <3> QED BY <2>1, <3>1, <3>2 DEF Shadow!Start, Shadow!Go
  <2>2. CASE journal # {}
    <3>1. Shadow!Last \in journal
      BY <2>2, LastIsHighest DEF Shadow!Start, ShadowInv, ShadowTyped
    <3>2. Shadow!Last \in Shadow!Checkpoint /\ CountsAdmitted(Shadow!Last)
      BY <3>1 DEF ShadowInv, ShadowTyped
    <3> QED BY <2>2, <3>2 DEF Shadow!Start, Shadow!Go
  <2> QED BY <2>1, <2>2
<1>2. /\ run' = [run EXCEPT ![r] = runs + 1] /\ runs' = runs + 1 /\ overlapped' \in BOOLEAN
      /\ UNCHANGED <<corpus, journal, result, changes, undone>>
  BY DEF Shadow!Start, ShadowInv, ShadowTyped
<1>3. /\ runnerPc'[r] = l /\ checkpoint'[r] = c
      /\ \A q \in Runner \ {r} : Rests(q)
  BY <1>1, <1>2 DEF ShadowInv, ShadowTyped, Rests
<1>4. ShadowTyped'
  <2>1. /\ DOMAIN checkpoint' = Runner /\ checkpoint' = [q \in Runner |-> checkpoint'[q]]
        /\ DOMAIN run' = Runner /\ run' = [q \in Runner |-> run'[q]]
        /\ runnerPc' \in [Runner -> Places]
    BY <1>1, <1>2 DEF ShadowInv, ShadowTyped, Places
  <2>2. runs \in Nat /\ runs' \in Nat
    BY <1>2 DEF ShadowInv, ShadowTyped
  <2>3. ASSUME NEW q \in Runner, runnerPc'[q] # "off"
        PROVE  checkpoint'[q] \in Shadow!Checkpoint /\ run'[q] \in Nat
    <3>1. CASE q = r
      BY <1>1, <1>2, <1>3, <2>2, <3>1 DEF ShadowInv, ShadowTyped
    <3>2. CASE q # r
      BY <1>1, <1>2, <2>3, <3>2 DEF ShadowInv, ShadowTyped
    <3> QED BY <3>1, <3>2
  <2> QED BY <1>2, <2>1, <2>2, <2>3 DEF ShadowInv, ShadowTyped
<1>5. RunnerFits(r)'
  BY <1>1, <1>2, <1>3, CountsStay DEF RunnerFits
<1> QED BY <1>2, <1>3, <1>4, <1>5, RunnerStep

(* Steps that go on from the checkpoint as it is.                           *)
LEMMA WorkKeeps ==
    ASSUME ShadowInv, NEW r \in Runner, Shadow!Observe(r) \/ Shadow!Work(r) \/ Shadow!ObserveAgain(r)
    PROVE  ShadowInv'
<1> DEFINE c == checkpoint[r]
<1>0. Sources \in Nat
  BY ShadowAssumption
<1>1. PICK l \in {"work", "reobserve", "advance"} : runnerPc' = [runnerPc EXCEPT ![r] = l]
  BY DEF Shadow!Observe, Shadow!Work, Shadow!ObserveAgain, Shadow!Go
<1>2. /\ UNCHANGED <<corpus, journal, checkpoint, run, runs, changes, overlapped, undone>> /\ runnerPc[r] # "off"
      /\ result' = result \/ (Shadow!Work(r) /\ result' = [result EXCEPT ![r] = corpus[c.next + 1]])
  BY DEF Shadow!Observe, Shadow!Work, Shadow!ObserveAgain
<1>3. /\ runnerPc'[r] = l /\ ShadowTyped' /\ \A q \in Runner \ {r} : Rests(q)
  BY <1>1, <1>2 DEF ShadowInv, ShadowTyped, Rests, Places
<1>4. /\ c \in Shadow!Checkpoint /\ CountsAdmitted(c)
      /\ corpus \in [Shadow!Index -> Content] /\ c.corpus \in [Shadow!Index -> Content]
      /\ c.next \in 0..Sources /\ c.phase \in 1..4
  <2>1. c \in Shadow!Checkpoint /\ CountsAdmitted(c) /\ corpus \in Shadow!Corpus
    BY <1>2 DEF ShadowInv, ShadowTyped, RunnerFits
  <2>2. c.corpus \in Shadow!Corpus /\ c.next \in 0..Sources /\ c.phase \in 1..4
    BY <2>1 DEF Shadow!Checkpoint
  <2> QED BY <1>0, <2>1, <2>2 DEF Shadow!Corpus
<1>5. CountsAdmitted(c)'
  BY <1>2, <1>4 DEF CountsAdmitted
<1>6. CASE Shadow!Observe(r)
  <2>1. /\ c.phase < 4 /\ c.corpus = corpus
        /\ l = IF c.phase = 1 \/ c.next = Sources THEN "advance" ELSE "work"
    BY <1>3, <1>6 DEF Shadow!Observe, Shadow!Unchanged, Shadow!Go, ShadowInv, ShadowTyped
  <2>2. RunnerFits(r)'
    BY <1>0, <1>2, <1>3, <1>4, <1>5, <2>1 DEF RunnerFits
  <2> QED BY <1>2, <1>3, <2>2, RunnerStep
<1>7. CASE Shadow!Work(r)
  <2>1. /\ runnerPc[r] = "work" /\ l = "reobserve" /\ result'[r] = corpus[c.next + 1]
    BY <1>3, <1>7 DEF Shadow!Work, Shadow!Go, ShadowInv, ShadowTyped
  <2>2. c.next < Sources /\ c.phase # 1 /\ c.phase < 4
    BY <2>1 DEF ShadowInv, RunnerFits
  <2>3. c.next + 1 \in Shadow!Index
    BY <1>0, <1>4, <2>2 DEF Shadow!Index
  <2>4. result'[r] \in Content
    BY <1>4, <2>1, <2>3
  <2>5. RunnerFits(r)'
    BY <1>2, <1>3, <1>5, <2>1, <2>2, <2>4 DEF RunnerFits, ReadFits
  <2> QED BY <1>2, <1>3, <2>5, RunnerStep
<1>8. CASE Shadow!ObserveAgain(r)
  <2>1. /\ runnerPc[r] = "reobserve" /\ l = "advance" /\ result' = result /\ c.corpus = corpus
    BY <1>3, <1>8 DEF Shadow!ObserveAgain, Shadow!Unchanged, Shadow!Go, ShadowInv, ShadowTyped
  <2>2. /\ c.next < Sources /\ c.phase # 1 /\ c.phase < 4
        /\ result[r] \in Content /\ ReadFits(c, result[r])
    BY <2>1 DEF ShadowInv, RunnerFits
  <2>3. RunnerFits(r)'
    BY <1>2, <1>3, <1>5, <2>1, <2>2 DEF RunnerFits, ReadFits
  <2> QED BY <1>2, <1>3, <2>3, RunnerStep
<1> QED BY <1>6, <1>7, <1>8

LEMMA AdvanceKeeps ==
    ASSUME ShadowInv, NEW r \in Runner, Shadow!Advance(r)
    PROVE  ShadowInv' /\ Shadow!Revision(checkpoint'[r]) = Shadow!Revision(checkpoint[r]) + 1
<1> DEFINE c == checkpoint[r]
           d == Shadow!Advanced(c, result[r], run[r])
<1>1. /\ runnerPc[r] = "advance" /\ runnerPc' = [runnerPc EXCEPT ![r] = "persist"]
      /\ checkpoint' = [checkpoint EXCEPT ![r] = d] /\ result' = [result EXCEPT ![r] = None]
      /\ UNCHANGED <<corpus, journal, run, runs, changes, overlapped, undone>>
  BY DEF Shadow!Advance, Shadow!Go
<1>2. /\ c \in Shadow!Checkpoint /\ CountsAdmitted(c) /\ c.phase < 4 /\ run[r] \in Nat
      /\ c.next < Sources /\ c.phase # 1 => result[r] \in Content /\ ReadFits(c, result[r])
      /\ c.phase = 3 /\ c.next < Sources => CountsOf[result[r]] = CountsOf[c.staged[c.next + 1]]
  BY <1>1 DEF Shadow!Advance, ShadowInv, ShadowTyped, RunnerFits
<1>3. d \in Shadow!Checkpoint /\ CountsAdmitted(d) /\ Shadow!Revision(d) = Shadow!Revision(c) + 1
  BY <1>2, AdvancedFits
<1> HIDE DEF d
<1>4. /\ runnerPc'[r] = "persist" /\ checkpoint'[r] = d
      /\ ShadowTyped' /\ \A q \in Runner \ {r} : Rests(q)
  BY <1>1, <1>3 DEF ShadowInv, ShadowTyped, Rests, Places
<1>5. RunnerFits(r)'
  BY <1>1, <1>3, <1>4, CountsStay DEF RunnerFits
<1> QED BY <1>1, <1>3, <1>4, <1>5, RunnerStep

LEMMA PersistKeeps ==
    ASSUME ShadowInv, NEW r \in Runner, Shadow!Persist(r)
    PROVE  ShadowInv'
<1>1. /\ runnerPc[r] = "persist" /\ runnerPc' = [runnerPc EXCEPT ![r] = "step"]
      /\ journal' = journal \cup {checkpoint[r]}
      /\ UNCHANGED <<corpus, checkpoint, result, run, runs, changes, overlapped, undone>>
  BY DEF Shadow!Persist, Shadow!Go
<1>2. checkpoint[r] \in Shadow!Checkpoint /\ CountsAdmitted(checkpoint[r])
  BY <1>1 DEF ShadowInv, ShadowTyped, RunnerFits
<1>3. IsFiniteSet(journal') /\ ShadowTyped'
  <2>1. IsFiniteSet(journal')
    BY <1>1, FS_AddElement DEF ShadowInv, ShadowTyped
  <2> QED BY <1>1, <1>2, <2>1 DEF ShadowInv, ShadowTyped, Places
<1>4. ASSUME NEW q \in Runner PROVE RunnerFits(q)'
  <2>1. CASE q = r
    BY <1>1, <1>2, <2>1 DEF RunnerFits, CountsAdmitted, ShadowInv, ShadowTyped
  <2>2. CASE q # r
    BY <1>1, <2>2, RestingFits DEF Rests, ShadowInv, ShadowTyped
  <2> QED BY <2>1, <2>2
<1>5. \A c \in journal' : CountsAdmitted(c)'
  BY <1>1, <1>2 DEF ShadowInv, CountsAdmitted
<1> QED BY <1>3, <1>4, <1>5 DEF ShadowInv

LEMMA EndKeeps ==
    ASSUME ShadowInv, NEW r \in Runner, Shadow!End(r)
    PROVE  ShadowInv'
<1>1. /\ runnerPc' = [runnerPc EXCEPT ![r] = "off"] /\ checkpoint' = [checkpoint EXCEPT ![r] = None]
      /\ result' = [result EXCEPT ![r] = None] /\ UNCHANGED <<corpus, journal, run, runs, changes, overlapped, undone>>
  BY DEF Shadow!End, Shadow!Stop, Shadow!Go
<1>2. runnerPc'[r] = "off" /\ ShadowTyped' /\ \A q \in Runner \ {r} : Rests(q)
  BY <1>1 DEF ShadowInv, ShadowTyped, Rests, Places
<1>3. RunnerFits(r)'
  BY <1>2 DEF RunnerFits
<1> QED BY <1>1, <1>2, <1>3, RunnerStep

LEMMA ShadowStep == ShadowInv /\ [Shadow!Next]_Shadow!vars => ShadowInv'
<1>1. ShadowInv /\ UNCHANGED Shadow!vars => ShadowInv'
  BY DEF Shadow!vars, ShadowInv, ShadowTyped, RunnerFits, CountsAdmitted, ReadFits
<1> QED BY <1>1, DriftKeeps, StartKeeps, WorkKeeps, AdvanceKeeps, PersistKeeps, EndKeeps DEF Shadow!Next

(* A checkpoint counts as staged what was admitted, and as verified what has *)
(* its counts, though sources change at any moment and runners race; but for *)
(* a source that changed and changed back while an adapter was at it.       *)
THEOREM OnlyTheAdmittedIsStaged == Shadow!Spec => []StagedIsAdmitted
<1>1. ShadowInv => StagedIsAdmitted
  <2> SUFFICES ASSUME ShadowInv, NEW c \in journal
               PROVE  /\ \A i \in 1..Len(c.staged) : c.staged[i] = c.corpus[i] \/ <<2, i>> \in undone
                      /\ \A i \in 1..c.verified :
                           CountsOf[c.staged[i]] = CountsOf[c.corpus[i]] \/ <<3, i>> \in undone
                      /\ c.phase = 4 => c.verified = Sources /\ Len(c.staged) = Sources
    BY DEF StagedIsAdmitted, Shadow!StagedIsAdmitted
  <2> QED BY DEF ShadowInv, CountsAdmitted
<1> QED BY <1>1, ShadowInit, ShadowStep, PTL DEF Shadow!Spec

(* While no two runners have run at once: one at most is at it, and the      *)
(* checkpoint it works from is the journal's last, or the next after it.     *)
Chained ==
    ~overlapped =>
      /\ ~Shadow!Forked /\ Shadow!Gapless
      /\ \A p, q \in Runner : runnerPc[p] # "off" /\ runnerPc[q] # "off" => p = q
      /\ \A r \in Runner : runnerPc[r] # "off" =>
           Shadow!Revision(checkpoint[r]) =
             IF runnerPc[r] = "persist" THEN Cardinality(journal) + 1 ELSE Cardinality(journal)

LEMMA ChainedInit == Shadow!Init => Chained
<1> SUFFICES ASSUME Shadow!Init PROVE Chained
  OBVIOUS
<1>1. journal = {} /\ \A r \in Runner : runnerPc[r] = "off"
  BY DEF Shadow!Init
<1>2. Shadow!Cardinality(journal) = 0
  BY <1>1, FS_EmptySet DEF Shadow!Cardinality, Cardinality
<1>3. ~Shadow!Forked /\ Shadow!Gapless
  <2>1. {Shadow!Revision(c) : c \in journal} = {} /\ 1..0 = {}
    BY <1>1
  <2> QED BY <1>1, <1>2, <2>1 DEF Shadow!Forked, Shadow!Gapless
<1> QED BY <1>1, <1>3 DEF Chained

(* Checkpoints that are not written leave the chain as it is.               *)
LEMMA ChainStays ==
    ASSUME Chained, UNCHANGED <<journal, overlapped>>, NEW r \in Runner,
           \A q \in Runner \ {r} : Rests(q),
           runnerPc'[r] # "off" =>
             /\ runnerPc[r] # "off"
             /\ ~overlapped => Shadow!Revision(checkpoint'[r]) =
                  IF runnerPc'[r] = "persist" THEN Cardinality(journal) + 1 ELSE Cardinality(journal)
    PROVE  Chained'
<1> SUFFICES ASSUME ~overlapped PROVE Chained'
  BY DEF Chained
<1>1. ~Shadow!Forked' /\ Shadow!Gapless'
  BY DEF Chained, Shadow!Forked, Shadow!Gapless
<1>2. \A q \in Runner : runnerPc'[q] # "off" => runnerPc[q] # "off"
  BY DEF Rests
<1>3. ASSUME NEW q \in Runner, runnerPc'[q] # "off"
      PROVE  Shadow!Revision(checkpoint'[q]) =
               IF runnerPc'[q] = "persist" THEN Cardinality(journal) + 1 ELSE Cardinality(journal)
  <2>1. CASE q = r
    BY <1>3, <2>1
  <2>2. CASE q # r
    BY <1>3, <2>2 DEF Chained, Rests
  <2> QED BY <2>1, <2>2
<1> QED BY <1>1, <1>2, <1>3 DEF Chained, Shadow!Revision

(* The journal with the next checkpoint is a chain again.                   *)
LEMMA ChainGrows ==
    ASSUME IsFiniteSet(journal), ~Shadow!Forked, Shadow!Gapless, NEW c,
           Shadow!Revision(c) = Cardinality(journal) + 1, journal' = journal \cup {c}
    PROVE  ~Shadow!Forked' /\ Shadow!Gapless' /\ Cardinality(journal') = Cardinality(journal) + 1
<1> DEFINE n == Cardinality(journal)
           R(d) == Shadow!Revision(d)
<1>1. n \in Nat /\ Shadow!Cardinality(journal) = n
  BY FS_CardinalityType DEF Shadow!Cardinality, Cardinality
<1>2. {R(d) : d \in journal} = 1..n
  BY <1>1 DEF Shadow!Gapless
<1>3. \A d \in journal : R(d) \in 1..n
  BY <1>2
<1> HIDE DEF n
<1>4. R(c) = n + 1
  BY DEF n
<1>5. c \notin journal
  BY <1>1, <1>3, <1>4
<1>6. Cardinality(journal') = n + 1
  BY <1>5, FS_AddElement DEF n
<1>7. ~Shadow!Forked'
  <2> SUFFICES ASSUME NEW d \in journal', NEW e \in journal', d # e, R(d) = R(e) PROVE FALSE
    BY DEF Shadow!Forked, Shadow!Revision
  <2>1. CASE d \in journal /\ e \in journal
    BY <2>1 DEF Shadow!Forked
  <2>2. CASE d = c \/ e = c
    BY <1>1, <1>3, <1>4, <2>2
  <2> QED BY <2>1, <2>2
<1>8. Shadow!Gapless'
  <2>1. {R(d) : d \in journal'} = {R(d) : d \in journal} \cup {R(c)}
    OBVIOUS
  <2> HIDE DEF R
  <2>2. {R(d) : d \in journal'} = 1..(n + 1)
    BY <1>1, <1>2, <1>4, <2>1
  <2>3. Shadow!Cardinality(journal') = n + 1
    BY <1>6 DEF Shadow!Cardinality, Cardinality
  <2> QED BY <2>2, <2>3 DEF Shadow!Gapless, Shadow!Revision, R
<1> QED BY <1>6, <1>7, <1>8 DEF n

LEMMA ChainStarts ==
    ASSUME ShadowInv, Chained, NEW r \in Runner, Shadow!Start(r)
    PROVE  Chained'
<1> SUFFICES ASSUME ~overlapped' PROVE Chained'
  BY DEF Chained
<1>1. /\ ~Shadow!Forked /\ Shadow!Gapless /\ IsFiniteSet(journal)
      /\ journal' = journal /\ \A q \in Runner : runnerPc[q] = "off"
  BY DEF Shadow!Start, ShadowInv, ShadowTyped
<1>2. ~Shadow!Forked' /\ Shadow!Gapless'
  BY <1>1 DEF Shadow!Forked, Shadow!Gapless
<1>3. \A q \in Runner : runnerPc'[q] # "off" => q = r
  BY <1>1 DEF Shadow!Start, Shadow!Go, ShadowInv, ShadowTyped
<1>4. Shadow!Revision(checkpoint'[r]) =
        IF runnerPc'[r] = "persist" THEN Cardinality(journal) + 1 ELSE Cardinality(journal)
  <2>1. CASE journal = {}
    <3> DEFINE first == [phase |-> 1, next |-> 0, corpus |-> corpus, staged |-> << >>, verified |-> 0,
                         issued |-> <<runs + 1>>]
    <3>1. checkpoint'[r] = first /\ runnerPc'[r] = "persist"
      BY <2>1 DEF Shadow!Start, Shadow!Go, ShadowInv, ShadowTyped
    <3>2. Shadow!Revision(first) = 1
      BY ShadowAssumption DEF Shadow!Revision
    <3>3. Cardinality(journal) = 0
      BY <2>1, FS_EmptySet
    <3> QED BY <3>1, <3>2, <3>3
  <2>2. CASE journal # {}
    <3>1. checkpoint'[r] = Shadow!Last /\ runnerPc'[r] = "step"
      BY <2>2 DEF Shadow!Start, Shadow!Go, ShadowInv, ShadowTyped
    <3>2. Shadow!Revision(Shadow!Last) = Cardinality(journal)
      BY <1>1, <2>2, LastIsHighest
    <3> QED BY <3>1, <3>2
  <2> QED BY <2>1, <2>2
<1> QED BY <1>1, <1>2, <1>3, <1>4 DEF Chained, Shadow!Revision

LEMMA ChainWorks ==
    ASSUME ShadowInv, Chained, NEW r \in Runner,
           Shadow!Observe(r) \/ Shadow!Work(r) \/ Shadow!ObserveAgain(r)
    PROVE  Chained'
<1>1. /\ UNCHANGED <<journal, checkpoint, overlapped>> /\ runnerPc[r] \notin {"off", "persist"}
      /\ result' = result \/ \E v : result' = [result EXCEPT ![r] = v]
  BY DEF Shadow!Observe, Shadow!Work, Shadow!ObserveAgain
<1>2. PICK l \in {"work", "reobserve", "advance"} : runnerPc' = [runnerPc EXCEPT ![r] = l]
  BY DEF Shadow!Observe, Shadow!Work, Shadow!ObserveAgain, Shadow!Go
<1>3. runnerPc'[r] = l /\ \A q \in Runner \ {r} : Rests(q)
  BY <1>1, <1>2 DEF ShadowInv, ShadowTyped, Rests
<1>4. ~overlapped => Shadow!Revision(checkpoint[r]) = Cardinality(journal)
  BY <1>1 DEF Chained
<1> QED BY <1>1, <1>2, <1>3, <1>4, ChainStays

LEMMA ChainAdvances ==
    ASSUME ShadowInv, Chained, NEW r \in Runner, Shadow!Advance(r)
    PROVE  Chained'
<1>1. /\ runnerPc[r] = "advance" /\ runnerPc' = [runnerPc EXCEPT ![r] = "persist"]
      /\ \E d : checkpoint' = [checkpoint EXCEPT ![r] = d]
      /\ result' = [result EXCEPT ![r] = None] /\ UNCHANGED <<journal, overlapped>>
  BY DEF Shadow!Advance, Shadow!Go
<1>2. runnerPc'[r] = "persist" /\ \A q \in Runner \ {r} : Rests(q)
  BY <1>1 DEF ShadowInv, ShadowTyped, Rests
<1>3. ~overlapped => Shadow!Revision(checkpoint[r]) = Cardinality(journal)
  BY <1>1 DEF Chained
<1>4. Shadow!Revision(checkpoint'[r]) = Shadow!Revision(checkpoint[r]) + 1
  BY AdvanceKeeps
<1> QED BY <1>1, <1>2, <1>3, <1>4, ChainStays

LEMMA ChainPersists ==
    ASSUME ShadowInv, Chained, NEW r \in Runner, Shadow!Persist(r)
    PROVE  Chained'
<1> SUFFICES ASSUME ~overlapped PROVE Chained'
  BY DEF Chained, Shadow!Persist
<1>1. /\ runnerPc[r] = "persist" /\ runnerPc' = [runnerPc EXCEPT ![r] = "step"]
      /\ journal' = journal \cup {checkpoint[r]} /\ UNCHANGED <<checkpoint, overlapped>>
  BY DEF Shadow!Persist, Shadow!Go
<1>2. Shadow!Revision(checkpoint[r]) = Cardinality(journal) + 1
  BY <1>1 DEF Chained
<1>3. ~Shadow!Forked' /\ Shadow!Gapless' /\ Cardinality(journal') = Cardinality(journal) + 1
  <2>1. IsFiniteSet(journal) /\ ~Shadow!Forked /\ Shadow!Gapless
    BY DEF Chained, ShadowInv, ShadowTyped
  <2> QED BY <1>1, <1>2, <2>1, ChainGrows
<1>4. \A q \in Runner : q # r => runnerPc'[q] = "off"
  BY <1>1 DEF Chained, ShadowInv, ShadowTyped
<1>5. runnerPc'[r] = "step"
  BY <1>1 DEF ShadowInv, ShadowTyped
<1> QED BY <1>1, <1>2, <1>3, <1>4, <1>5 DEF Chained, Shadow!Revision

LEMMA ChainEnds ==
    ASSUME ShadowInv, Chained, NEW r \in Runner, Shadow!End(r)
    PROVE  Chained'
<1>1. /\ runnerPc' = [runnerPc EXCEPT ![r] = "off"] /\ checkpoint' = [checkpoint EXCEPT ![r] = None]
      /\ result' = [result EXCEPT ![r] = None] /\ UNCHANGED <<journal, overlapped>>
  BY DEF Shadow!End, Shadow!Stop, Shadow!Go
<1>2. runnerPc'[r] = "off" /\ \A q \in Runner \ {r} : Rests(q)
  BY <1>1 DEF ShadowInv, ShadowTyped, Rests
<1> QED BY <1>1, <1>2, ChainStays

LEMMA ChainedStep == ShadowInv /\ Chained /\ [Shadow!Next]_Shadow!vars => Chained'
<1> SUFFICES ASSUME ShadowInv, Chained, [Shadow!Next]_Shadow!vars PROVE Chained'
  OBVIOUS
<1>1. CASE UNCHANGED Shadow!vars \/ \E i \in Shadow!Index, content \in Content : Shadow!Drift(i, content)
  <2>1. UNCHANGED <<journal, runnerPc, checkpoint, overlapped>>
    BY <1>1 DEF Shadow!vars, Shadow!Drift
  <2> QED BY <2>1 DEF Chained, Shadow!Forked, Shadow!Gapless, Shadow!Revision, Shadow!Cardinality
<1> QED BY <1>1, ChainStarts, ChainWorks, ChainAdvances, ChainPersists, ChainEnds DEF Shadow!Next

(* The journal of runs that do not overlap is one chain without a gap, that  *)
(* the next run goes on from, wherever the earlier ones died.               *)
THEOREM RunsResume == Shadow!Spec => []ResumesWhereItStopped
<1>1. Chained => ResumesWhereItStopped
  BY DEF Chained, ResumesWhereItStopped, Shadow!ResumesWhereItStopped
<1> QED BY <1>1, ShadowInit, ShadowStep, ChainedInit, ChainedStep, PTL DEF Shadow!Spec

-----------------------------------------------------------------------------
(***************************************************************************)
(* The project log.  That the loop of the reducer computes the chain is     *)
(* proved of any log in ProjectLogTheorems; here it is stated of the logs   *)
(* that publications and damage lead to.                                    *)
(***************************************************************************)
Reducer == INSTANCE ProjectLogTheorems

LogInv == log \subseteq Log!Digest /\ IsFiniteSet(log)

LEMMA LogStep == LogInv /\ [Log!Next]_Log!vars => LogInv'
<1> SUFFICES ASSUME LogInv, [Log!Next]_Log!vars PROVE LogInv'
  OBVIOUS
<1>1. ASSUME NEW d \in Log!Digests PROVE d \in Log!Digest
  <2>1. PICK n \in 1..MaxLen : d \in [1..n -> Body]
    BY DEF Log!Digests
  <2>2. n \in Nat \ {0} /\ d \in [1..n -> Body]
    BY <2>1, LogAssumption
  <2>3. d \in Seq(Body) /\ Len(d) = n
    BY <2>2
  <2> QED BY <2>2, <2>3 DEF Log!Digest
<1>2. ASSUME NEW d \in Log!Digests, Log!Publish(d) PROVE LogInv'
  BY <1>1, <1>2, FS_AddElement DEF LogInv, Log!Publish
<1>3. ASSUME NEW d \in log, Log!Damage(d) PROVE LogInv'
  <2>1. log' \in SUBSET log
    BY <1>3 DEF Log!Damage
  <2> QED BY <2>1, FS_Subset DEF LogInv
<1> QED BY <1>2, <1>3 DEF LogInv, Log!Next, Log!vars

(* The reducer of the run and the one of the theorem are the same.          *)
LEMMA SameReducer ==
    /\ Log!Walk(log) = Reducer!Walk(log)
    /\ Log!WalkApplied(log) = Reducer!WalkApplied(log)
    /\ Log!Applied(log) = Reducer!Applied(log)
    /\ Log!SourceHighWatermark(log) = Reducer!SourceHighWatermark(log)
    /\ Log!ChainDiagnostics(log) = Reducer!ChainDiagnostics(log)
<1> USE DEF Log!Cardinality, Reducer!Cardinality, Log!Previous, Reducer!Previous, Log!BodyOf, Reducer!BodyOf,
            Log!Children, Reducer!Children, Log!DuplicateCommand, Reducer!DuplicateCommand,
            Log!DuplicateEvent, Reducer!DuplicateEvent, Log!IdentityConflict, Reducer!IdentityConflict,
            Log!Turn, Reducer!Turn, Log!Walk, Reducer!Walk
<1>1. Log!Walk(log) = Reducer!Walk(log)
  OBVIOUS
<1>2. Log!WalkApplied(log) = Reducer!WalkApplied(log)
  BY DEF Log!WalkApplied, Reducer!WalkApplied
<1>3. Log!Applied(log) = Reducer!Applied(log)
  BY DEF Log!Applied, Reducer!Applied, Log!AppliedAt, Reducer!AppliedAt
<1>4. Log!SourceHighWatermark(log) = Reducer!SourceHighWatermark(log)
  BY DEF Log!SourceHighWatermark, Reducer!SourceHighWatermark
<1>5. Log!ChainDiagnostics(log) = Reducer!ChainDiagnostics(log)
  BY DEF Log!ChainDiagnostics, Reducer!ChainDiagnostics, Log!DirectDiagnostics, Reducer!DirectDiagnostics,
         Log!WalkApplied, Reducer!WalkApplied
<1> HIDE DEF Log!Walk, Reducer!Walk
<1> QED BY <1>1, <1>2, <1>3, <1>4, <1>5

(* In every log the loop applies the chain, ends at its high watermark, and  *)
(* what it leaves out or cannot read is reported.                           *)
THEOREM ReducerWalksTheChain == Log!Spec => []WalkIsTheChain
<1>1. Log!Init => LogInv
  BY FS_EmptySet DEF Log!Init, LogInv
<1>2. LogInv => WalkIsTheChain
  <2> SUFFICES ASSUME LogInv PROVE Log!WalkIsTheChain
    BY DEF WalkIsTheChain
  <2>1. log \in SUBSET Reducer!Digest /\ Reducer!IsFiniteSet(log)
    BY DEF LogInv, Log!Digest, Reducer!Digest, Reducer!IsFiniteSet, IsFiniteSet
  <2>2. /\ Log!WalkApplied(log) = Log!Applied(log)
        /\ Reducer!IsHighWatermark(log, Log!SourceHighWatermark(log))
        /\ \A i \in 2..Len(Log!Walk(log)) : Reducer!Previous(Log!Walk(log)[i]) = Log!Walk(log)[i - 1]
        /\ \A d \in log \ Log!WalkApplied(log) : \E x \in Log!ChainDiagnostics(log) : x[2] = d
        /\ Reducer!WalkComplete(log, quarantined) <=> Reducer!Complete(log) /\ quarantined = {}
    BY <2>1, LogAssumption, SameReducer, Reducer!ReducerIsTheChain
  <2>3. Log!IsHighWatermark(log, Log!SourceHighWatermark(log))
    BY <2>2, SameReducer DEF Log!IsHighWatermark, Reducer!IsHighWatermark
  <2>4. \A i \in 2..Len(Log!Walk(log)) : Log!Previous(Log!Walk(log)[i]) = Log!Walk(log)[i - 1]
    BY <2>2 DEF Log!Previous, Reducer!Previous
  <2>5. Log!WalkComplete(log, quarantined) <=> Log!Complete(log) /\ quarantined = {}
    <3>1. Log!WalkComplete(log, quarantined) <=> Reducer!WalkComplete(log, quarantined)
      BY SameReducer DEF Log!WalkComplete, Reducer!WalkComplete, Log!Cardinality, Reducer!Cardinality
    <3>2. Log!Complete(log) <=> Reducer!Complete(log)
      BY SameReducer DEF Log!Complete, Reducer!Complete
    <3> QED BY <2>2, <3>1, <3>2
  <2> QED BY <2>2, <2>3, <2>4, <2>5 DEF Log!WalkIsTheChain
<1> QED BY <1>1, <1>2, LogStep, PTL DEF Log!Spec

-----------------------------------------------------------------------------
(***************************************************************************)
(* Identities.  That the index of any order of the passports gives a name    *)
(* to those of one agent and to nobody else, by induction over the order;   *)
(* and that a refresh that nobody asked to repeat has read, or is going to  *)
(* read, what was whole when it was asked for.                              *)
(***************************************************************************)
LEMMA UpToHere ==
    ASSUME NEW S, NEW k \in Nat, 0 \in S, \A n \in 0..k : n \in S /\ n < k => n + 1 \in S
    PROVE  0..k \subseteq S
BY LogAssumption, Reducer!UpTo

Named(S, a) == {p \in S : a \in AliasesOf[p]}
OfOneAgent(S, a) == \E p \in Named(S, a) : \A q \in Named(S, a) : AgentOf[q] = AgentOf[p]

(* What a name stands for once the passports S are indexed.                 *)
Unnamed(standing, S, a) == ~standing.ambiguous /\ standing.known = None /\ Named(S, a) = {}

GivenUp(standing, S, a) ==
    standing.ambiguous /\ standing.known = None /\ \E p, q \in Named(S, a) : AgentOf[p] # AgentOf[q]

Known(standing, S, a) ==
    /\ ~standing.ambiguous /\ standing.known \in Named(S, a)
    /\ \A q \in Named(S, a) : AgentOf[q] = AgentOf[standing.known]

StandsFor(standing, S, a) == Unnamed(standing, S, a) \/ GivenUp(standing, S, a) \/ Known(standing, S, a)

LEMMA OneMore ==
    ASSUME NEW S \in SUBSET Passport, NEW a, NEW p \in Passport, NEW standing, StandsFor(standing, S, a)
    PROVE  StandsFor(IF a \in AliasesOf[p] THEN Identities!WithAlias(standing, p) ELSE standing,
                     S \cup {p}, a)
<1>1. CASE a \notin AliasesOf[p]
  <2>1. Named(S \cup {p}, a) = Named(S, a)
    BY <1>1 DEF Named
  <2> QED BY <1>1, <2>1 DEF StandsFor, Unnamed, GivenUp, Known
<1>2. CASE a \in AliasesOf[p]
  <2> DEFINE next == Identities!WithAlias(standing, p)
  <2> SUFFICES StandsFor(next, S \cup {p}, a)
    BY <1>2
  <2>1. /\ Named(S \cup {p}, a) = Named(S, a) \cup {p}
        /\ None \notin Named(S, a)
    BY <1>2, IdentitiesAssumption DEF Named
  <2>2. CASE Unnamed(standing, S, a)
    <3>1. next.known = p /\ ~next.ambiguous
      BY <2>2 DEF Unnamed, Identities!WithAlias
    <3>2. Known(next, S \cup {p}, a)
      BY <2>1, <2>2, <3>1 DEF Unnamed, Known
    <3> QED BY <3>2 DEF StandsFor
  <2>3. CASE GivenUp(standing, S, a)
    <3>1. next = standing
      BY <2>3 DEF GivenUp, Identities!WithAlias
    <3>2. GivenUp(next, S \cup {p}, a)
      BY <2>1, <2>3, <3>1 DEF GivenUp
    <3> QED BY <3>2 DEF StandsFor
  <2>4. CASE Known(standing, S, a) /\ AgentOf[standing.known] # AgentOf[p]
    <3>1. next.known = None /\ next.ambiguous
      BY <2>1, <2>4 DEF Known, Identities!WithAlias
    <3>2. GivenUp(next, S \cup {p}, a)
      BY <2>1, <2>4, <3>1 DEF GivenUp, Known
    <3> QED BY <3>2 DEF StandsFor
  <2>5. CASE Known(standing, S, a) /\ AgentOf[standing.known] = AgentOf[p]
    <3>1. next.known = p /\ ~next.ambiguous
      BY <2>5 DEF Known, Identities!WithAlias
    <3>2. Known(next, S \cup {p}, a)
      BY <2>1, <2>5, <3>1 DEF Known
    <3> QED BY <3>2 DEF StandsFor
  <2> QED BY <2>2, <2>3, <2>4, <2>5 DEF StandsFor
<1> QED BY <1>1, <1>2

(* The turns of the loop over the identities exist.                         *)
LEMMA IndexTurns ==
    ASSUME NEW s, Len(s) \in Nat
    PROVE  \E w : /\ w[0] = Identities!Nobody
                  /\ \A n \in 1..Len(s) : w[n] = Identities!WithIdentity(w[n - 1], s[n])
                  /\ Identities!IndexIdentities(s) = [a \in Identities!Alias |-> w[Len(s)][a].known]
<1> DEFINE K == Len(s)
           Step(x, n) == Identities!WithIdentity(x, s[n])
           First(n, w) == /\ w = [i \in 0..n |-> w[i]]
                          /\ w[0] = Identities!Nobody
                          /\ \A i \in 1..n : w[i] = Step(w[i - 1], i)
           S == {n \in 0..K : \E w : First(n, w)}
<1>1. K \in Nat
  OBVIOUS
<1> HIDE DEF K, Step
<1>2. 0 \in S
  <2> DEFINE w == [i \in 0..0 |-> Identities!Nobody]
  <2>1. w[0] = Identities!Nobody /\ w = [i \in 0..0 |-> w[i]]
    OBVIOUS
  <2>2. First(0, w)
    BY <2>1
  <2> HIDE DEF w, First
  <2> QED BY <1>1, <2>2
<1>3. ASSUME NEW n \in 0..K, n \in S, n < K PROVE n + 1 \in S
  <2>1. PICK w : First(n, w)
    BY <1>3
  <2> DEFINE v == [i \in 0..(n + 1) |->
                     IF i = n + 1 THEN Step(w[n], n + 1) ELSE w[i]]
  <2>2. v[0] = Identities!Nobody /\ \A i \in 0..n : v[i] = w[i]
    BY <1>1, <2>1
  <2>3. v[n + 1] = Step(w[n], n + 1)
    BY <1>1
  <2>4. v = [i \in 0..(n + 1) |-> v[i]]
    OBVIOUS
  <2> HIDE DEF v
  <2>5. ASSUME NEW i \in 1..(n + 1) PROVE v[i] = Step(v[i - 1], i)
    <3>1. CASE i = n + 1
      <4>1. v[i - 1] = w[n]
        BY <1>1, <2>2, <3>1
      <4> QED BY <2>3, <3>1, <4>1
    <3>2. CASE i # n + 1
      <4>1. i \in 1..n /\ i - 1 \in 0..n /\ i \in 0..n
        BY <1>1, <3>2
      <4>2. w[i] = Step(w[i - 1], i)
        BY <2>1, <4>1
      <4> QED BY <2>2, <4>1, <4>2
    <3> QED BY <3>1, <3>2
  <2>6. First(n + 1, v)
    BY <2>2, <2>4, <2>5
  <2> HIDE DEF First
  <2> QED BY <1>1, <1>3, <2>6
<1>4. K \in S
  <2>1. 0..K \subseteq S
    <3> HIDE DEF S
    <3> QED BY <1>1, <1>2, <1>3, UpToHere
  <2> QED BY <1>1, <2>1
<1>5. PICK w : First(K, w)
  BY <1>4
<1> DEFINE W == CHOOSE index : index = [n \in 0..K |->
                  IF n = 0 THEN Identities!Nobody ELSE Step(index[n - 1], n)]
<1>6. w = [n \in 0..K |-> IF n = 0 THEN Identities!Nobody ELSE Step(w[n - 1], n)]
  BY <1>1, <1>5
<1>7. W = [n \in 0..K |-> IF n = 0 THEN Identities!Nobody ELSE Step(W[n - 1], n)]
  BY <1>6
<1>8. Identities!IndexIdentities(s) = [a \in Identities!Alias |-> W[K][a].known]
  BY DEF Identities!IndexIdentities, K, Step
<1> HIDE DEF W
<1>9. W[0] = Identities!Nobody /\ \A n \in 1..K : W[n] = Step(W[n - 1], n)
  BY <1>1, <1>7
<1> QED BY <1>8, <1>9 DEF K, Step

(* What a name is in an index of the passports S.                           *)
Correct(index, S) ==
    \A a \in Identities!Alias : IF OfOneAgent(S, a) THEN index[a] \in Named(S, a) ELSE index[a] = None

(* The order of the passports makes no difference to which names are known. *)
LEMMA IndexIsCorrect ==
    ASSUME NEW S \in SUBSET Passport, NEW s \in Identities!SetToSeqs(S)
    PROVE  Correct(Identities!IndexIdentities(s), S)
<1>0. IsFiniteSet(S) /\ Identities!Cardinality(S) = Cardinality(S) /\ Cardinality(S) \in Nat
  BY IdentitiesAssumption, FS_Subset, FS_CardinalityType DEF Identities!Cardinality, Cardinality
<1> DEFINE K == Cardinality(S)
           D == 1..K
<1>1. s \in [D -> S] /\ \A i, j \in D : i # j => s[i] # s[j]
  BY <1>0 DEF Identities!SetToSeqs
<1>2. Len(s) = K
  BY <1>0, <1>1
<1>3. {s[i] : i \in D} = S
  <2>1. IsFiniteSet(D) /\ Cardinality(D) = Cardinality(S)
    <3>1. /\ IsFiniteSet(1..K)
          /\ Cardinality(1..K) = IF 1 > K THEN 0 ELSE K - 1 + 1
      BY <1>0, FS_Interval
    <3> QED BY <1>0, <3>1
  <2> HIDE DEF D, K
  <2>2. s \in Injection(D, S)
    BY <1>1 DEF Injection, IsInjective
  <2>3. s \in Surjection(D, S)
    BY <1>0, <2>1, <2>2, FS_Injection
  <2> QED BY <1>1, <2>3 DEF Surjection
<1>4. PICK w : /\ w[0] = Identities!Nobody
               /\ \A n \in 1..Len(s) : w[n] = Identities!WithIdentity(w[n - 1], s[n])
               /\ Identities!IndexIdentities(s) = [a \in Identities!Alias |-> w[Len(s)][a].known]
  BY <1>0, <1>2, IndexTurns
<1> SUFFICES ASSUME NEW a \in Identities!Alias
             PROVE  IF OfOneAgent(S, a) THEN w[K][a].known \in Named(S, a) ELSE w[K][a].known = None
  BY <1>2, <1>4 DEF Correct
<1> DEFINE Seen(n) == {s[i] : i \in 1..n}
           T == {n \in 0..K : StandsFor(w[n][a], Seen(n), a)}
<1>5. 0 \in T
  <2>1. Seen(0) = {}
    OBVIOUS
  <2>2. w[0][a].known = None /\ ~w[0][a].ambiguous
    BY <1>4 DEF Identities!Nobody
  <2>3. StandsFor(w[0][a], {}, a)
    BY <2>2 DEF StandsFor, Unnamed, Named
  <2> HIDE DEF Seen
  <2> QED BY <1>0, <2>1, <2>3
<1>6. ASSUME NEW n \in 0..K, n \in T, n < K PROVE n + 1 \in T
  <2>1. n + 1 \in D /\ (n + 1) - 1 = n /\ s[n + 1] \in Passport
    BY <1>0, <1>1, <1>6
  <2>2. Seen(n) \in SUBSET Passport
    BY <1>0, <1>1, <1>6
  <2>3. Seen(n + 1) = Seen(n) \cup {s[n + 1]}
    BY <1>0, <1>6
  <2>4. w[n + 1][a] = IF a \in AliasesOf[s[n + 1]]
                        THEN Identities!WithAlias(w[n][a], s[n + 1]) ELSE w[n][a]
    <3>1. w[n + 1] = Identities!WithIdentity(w[n], s[n + 1])
      BY <1>2, <1>4, <2>1
    <3> QED BY <3>1 DEF Identities!WithIdentity
  <2> HIDE DEF Seen
  <2>5. StandsFor(w[n + 1][a], Seen(n + 1), a)
    BY <1>6, <2>1, <2>2, <2>3, <2>4, OneMore
  <2> QED BY <1>0, <1>6, <2>5
<1>7. K \in T
  <2>1. 0..K \subseteq T
    <3> HIDE DEF T
    <3> QED BY <1>0, <1>5, <1>6, UpToHere
  <2>2. K \in 0..K
    BY <1>0
  <2> HIDE DEF T
  <2> QED BY <2>1, <2>2
<1>8. StandsFor(w[K][a], S, a)
  BY <1>3, <1>7
<1>9. None \notin Named(S, a)
  BY IdentitiesAssumption DEF Named
<1> QED BY <1>8, <1>9 DEF StandsFor, Unnamed, GivenUp, Known, OfOneAgent

(* A refresh that was asked for is under way or done: what was whole then    *)
(* and was not touched since is read, or is still to be read, unless the     *)
(* call that asked is queued, and then all of it is listed again.           *)
IdentitiesInv ==
    /\ disk \in [Passport -> {"absent", "torn", "whole"}]
    /\ heard \subseteq {p \in Passport : disk[p] = "whole"}
    /\ read \subseteq Passport
    /\ refreshPc \in {"idle", "list", "read", "refuse"}
    /\ inFlight \in BOOLEAN /\ (inFlight <=> refreshPc # "idle")
    /\ queued \in BOOLEAN
    /\ refreshPc = "refuse" => read = {}
    /\ refreshPc = "read" /\ ~queued => heard \subseteq read \cup unread
    /\ refreshPc = "idle" => heard \subseteq read
    /\ refreshPc = "idle" /\ read # {} => Correct(admitted, read)

LEMMA TouchKeeps ==
    ASSUME IdentitiesInv, NEW p \in Passport, NEW s \in {"torn", "whole", "absent"}, Identities!Touch(p, s)
    PROVE  IdentitiesInv'
<1>1. /\ disk' = [disk EXCEPT ![p] = s] /\ heard' = heard \ {p}
      /\ UNCHANGED <<inFlight, queued, refreshPc, unread, read, admitted>>
  BY DEF Identities!Touch
<1>2. disk' \in [Passport -> {"absent", "torn", "whole"}]
  BY <1>1 DEF IdentitiesInv
<1>3. heard' \subseteq {q \in Passport : disk'[q] = "whole"}
  BY <1>1 DEF IdentitiesInv
<1> QED BY <1>1, <1>2, <1>3 DEF IdentitiesInv, Correct, OfOneAgent, Named

LEMMA RefreshKeeps ==
    ASSUME IdentitiesInv, Identities!Refresh
    PROVE  IdentitiesInv'
<1>1. /\ heard' = {p \in Passport : disk[p] = "whole"}
      /\ UNCHANGED <<disk, unread, read, admitted>>
      /\ \/ inFlight /\ queued' = TRUE /\ UNCHANGED <<inFlight, refreshPc>>
         \/ ~inFlight /\ inFlight' = TRUE /\ refreshPc' = "list" /\ UNCHANGED queued
  BY DEF Identities!Refresh
<1> QED BY <1>1 DEF IdentitiesInv

LEMMA ListKeeps ==
    ASSUME IdentitiesInv, Identities!List
    PROVE  IdentitiesInv'
<1>1. /\ refreshPc = "list" /\ unread' = {p \in Passport : disk[p] # "absent"} /\ read' = {}
      /\ refreshPc' \in {"refuse", "read"}
      /\ UNCHANGED <<disk, inFlight, queued, heard>>
  BY DEF Identities!List
<1>2. heard' \subseteq unread'
  BY <1>1 DEF IdentitiesInv
<1> QED BY <1>1, <1>2 DEF IdentitiesInv

LEMMA ReadKeeps ==
    ASSUME IdentitiesInv, NEW p \in Passport, Identities!ReadPassport(p)
    PROVE  IdentitiesInv'
<1>1. /\ refreshPc = "read" /\ unread' = unread \ {p}
      /\ read' = IF disk[p] = "whole" THEN read \cup {p} ELSE read
      /\ UNCHANGED <<disk, inFlight, queued, refreshPc, heard>>
  BY DEF Identities!ReadPassport
<1>2. ~queued => heard' \subseteq read' \cup unread'
  BY <1>1 DEF IdentitiesInv
<1> QED BY <1>1, <1>2 DEF IdentitiesInv

LEMMA ReindexKeeps ==
    ASSUME IdentitiesInv, Identities!Reindex
    PROVE  IdentitiesInv'
<1>1. /\ refreshPc = "read" /\ unread = {}
      /\ queued' = FALSE /\ inFlight' = queued /\ refreshPc' = IF queued THEN "list" ELSE "idle"
      /\ UNCHANGED <<disk, unread, read, heard>>
  BY DEF Identities!Reindex
<1>2. Correct(admitted', read)
  <2>1. PICK s \in Identities!SetToSeqs(read) : admitted' = Identities!IndexIdentities(s)
    BY DEF Identities!Reindex
  <2> QED BY <2>1, IndexIsCorrect DEF IdentitiesInv
<1>3. Correct(admitted, read)'
  BY <1>1, <1>2 DEF Correct, OfOneAgent, Named
<1> QED BY <1>1, <1>3 DEF IdentitiesInv

LEMMA RefuseKeeps ==
    ASSUME IdentitiesInv, Identities!Refuse
    PROVE  IdentitiesInv'
BY DEF IdentitiesInv, Identities!Refuse

LEMMA IdentitiesStep == IdentitiesInv /\ [Identities!Next]_Identities!vars => IdentitiesInv'
<1> SUFFICES ASSUME IdentitiesInv, [Identities!Next]_Identities!vars PROVE IdentitiesInv'
  OBVIOUS
<1>1. CASE UNCHANGED Identities!vars
  BY <1>1 DEF Identities!vars, IdentitiesInv, Correct, OfOneAgent, Named
<1>2. ASSUME NEW p \in Passport, Identities!BeginWrite(p) \/ Identities!EndWrite(p) \/ Identities!Withdraw(p)
      PROVE  IdentitiesInv'
  BY <1>2, TouchKeeps DEF Identities!BeginWrite, Identities!EndWrite, Identities!Withdraw
<1>3. ASSUME Identities!DebounceEnds \/ Identities!Poll PROVE IdentitiesInv'
  BY <1>3, RefreshKeeps DEF Identities!DebounceEnds, Identities!Poll
<1> QED BY <1>1, <1>2, <1>3, ListKeeps, ReadKeeps, ReindexKeeps, RefuseKeeps DEF Identities!Next

(* A passport that was whole when a refresh was last asked for, and was not  *)
(* touched since, has been read once none is under way, and a name stands    *)
(* for a passport exactly if those read that bear it are of one agent.      *)
THEOREM RefreshesAreNotLost == Identities!Spec => []AdmittedIsCurrent
<1>1. Identities!Init => IdentitiesInv
  BY DEF Identities!Init, IdentitiesInv
<1>2. IdentitiesInv => AdmittedIsCurrent
  <2> SUFFICES ASSUME IdentitiesInv, ~inFlight PROVE AdmittedIsCurrent
    BY DEF AdmittedIsCurrent, Identities!AdmittedIsCurrent
  <2>1. heard \subseteq read /\ (read # {} => Correct(admitted, read))
    BY DEF IdentitiesInv
  <2> QED BY <2>1 DEF AdmittedIsCurrent, Identities!AdmittedIsCurrent, Correct, OfOneAgent, Named
<1> QED BY <1>1, <1>2, IdentitiesStep, PTL DEF Identities!Spec

================================================================================
