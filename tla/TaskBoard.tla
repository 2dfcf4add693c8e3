------------------------------- MODULE TaskBoard -------------------------------
(***************************************************************************)
(* The tasks of a workspace View (space/src/view.ts).  A task is a file     *)
(* without a lock: a call reads it, checks and changes its copy, looks at   *)
(* the tasks it is blocked by one after the other, and writes the whole     *)
(* file back.  A call that is refused has no effect and is not a step.      *)
(***************************************************************************)
EXTENDS FiniteSets

CONSTANTS Caller,  \* the processes that make calls, one at a time each
          Agent,   \* who they make them for
          Task,    \* the ids of tasks, of tasks never made among them
          None

VARIABLES tasks,  \* the file of a task, or None
          call    \* the call under way: its task, the file it will write, the blockers it has yet to look at

vars == <<tasks, call>>

Status == {"open", "claimed", "in_progress", "blocked", "done", "dropped"}
Ended == {"done", "dropped"}

(* TASK_TRANSITION_TABLE: none leads out of an ended task.                  *)
TaskTransitions ==
    ({"open"} \X {"claimed", "in_progress", "dropped"})
    \cup ({"claimed"} \X {"open", "in_progress", "done", "dropped"})
    \cup ({"in_progress"} \X {"open", "blocked", "done", "dropped"})
    \cup ({"blocked"} \X {"open", "in_progress", "done", "dropped"})

File == [status : Status, owner : Agent \cup {None}, assigned_by : Agent \cup {None},
         blocked_by : SUBSET Task]
Call == [task : Task, file : File, todo : SUBSET Task]

ASSUME TaskBoardAssumption == None \notin Agent /\ None \notin File /\ None \notin Call

Init ==
    /\ tasks = [t \in Task |-> None]
    /\ call = [p \in Caller |-> None]

Made == {t \in Task : tasks[t] # None}

MayMove(f, s) == <<f.status, s>> \in TaskTransitions
Moved(f, s) == [f EXCEPT !.status = s]
Mine(f, who) == f.owner = who
MineOrFree(f, who) == f.owner \in {who, None}

(* A call has read the task and decided what it will write.                 *)
Edit(p, t, file, blockers) ==
    /\ call[p] = None
    /\ call' = [call EXCEPT ![p] = [task |-> t, file |-> file, todo |-> blockers]]
    /\ UNCHANGED tasks

-----------------------------------------------------------------------------
(* The operations, each for an agent on a task                              *)

(* A full id is taken as a blocker whether or not there is such a task.     *)
CreateTask(p, t, blockers) ==
    /\ tasks[t] = None
    /\ call[p] = None
    /\ t \notin blockers
    /\ tasks' = [tasks EXCEPT ![t] = [status |-> "open", owner |-> None, assigned_by |-> None,
                                      blocked_by |-> blockers]]
    /\ UNCHANGED call

ClaimTask(p, who, t) ==
    LET f == tasks[t] IN
    /\ MayMove(f, "claimed")
    /\ Edit(p, t, [Moved(f, "claimed") EXCEPT !.owner = who, !.assigned_by = None], {})

(* A task under way may be assigned to another agent: it stays under way.   *)
AssignTask(p, who, t, to) ==
    LET f == tasks[t]
        g == [f EXCEPT !.owner = to, !.assigned_by = who] IN
    /\ f.status \notin Ended
    /\ Edit(p, t, IF f.status = "open" THEN Moved(g, "claimed") ELSE g, {})

AcceptTask(p, who, t) ==
    LET f == tasks[t] IN
    /\ Mine(f, who)
    /\ f.status = "claimed"
    /\ Edit(p, t, [f EXCEPT !.assigned_by = None], {})

DeclineTask(p, who, t) ==
    LET f == tasks[t] IN
    /\ Mine(f, who)
    /\ MayMove(f, "open")
    /\ Edit(p, t, [Moved(f, "open") EXCEPT !.owner = None, !.assigned_by = None], {})

(* A task cannot block itself; two tasks can block each other.              *)
UpdateTask(p, who, t, blockers) ==
    LET f == tasks[t] IN
    /\ f.status \notin Ended
    /\ MineOrFree(f, who) \/ f.assigned_by = who
    /\ t \notin blockers
    /\ Edit(p, t, [f EXCEPT !.blocked_by = blockers], {})

StartTask(p, who, t) ==
    LET f == tasks[t] IN
    /\ MineOrFree(f, who)
    /\ MayMove(f, "in_progress")
    /\ Edit(p, t, [Moved(f, "in_progress") EXCEPT !.owner = who], f.blocked_by)

(* A task that is paused to open keeps its owner.                           *)
PauseTask(p, who, t, s) ==
    LET f == tasks[t] IN
    /\ Mine(f, who)
    /\ MayMove(f, s)
    /\ Edit(p, t, Moved(f, s), {})

DoneTask(p, who, t) ==
    LET f == tasks[t] IN
    /\ Mine(f, who)
    /\ MayMove(f, "done")
    /\ Edit(p, t, Moved(f, "done"), f.blocked_by)

DropTask(p, who, t) ==
    LET f == tasks[t] IN
    /\ MineOrFree(f, who)
    /\ MayMove(f, "dropped")
    /\ Edit(p, t, Moved(f, "dropped"), {})

(* The run that is added to the file is left out: the file is written back. *)
LinkTaskRun(p, t) == Edit(p, t, tasks[t], {})

-----------------------------------------------------------------------------
(* What follows the reading of the task                                     *)

(* What a bug would make of it: a blocker that is missing counts as ended.  *)
LookAtBlocker_MissingEnded(p, b) ==
    /\ call[p] # None
    /\ b \in call[p].todo
    /\ IF b \in Made => tasks[b].status \in Ended
         THEN call' = [call EXCEPT ![p].todo = @ \ {b}]
         ELSE call' = [call EXCEPT ![p] = None]
    /\ UNCHANGED tasks

(* assertNotBlocked: a blocker that cannot be read counts as open.          *)
LookAtBlocker(p, b) ==
    /\ call[p] # None
    /\ b \in call[p].todo
    /\ IF b \in Made /\ tasks[b].status \in Ended
         THEN call' = [call EXCEPT ![p].todo = @ \ {b}]
         ELSE call' = [call EXCEPT ![p] = None]
    /\ UNCHANGED tasks

WriteTask(p) ==
    /\ call[p] # None
    /\ call[p].todo = {}
    /\ tasks' = [tasks EXCEPT ![call[p].task] = call[p].file]
    /\ call' = [call EXCEPT ![p] = None]

Next ==
    \E p \in Caller :
      \/ \E t \in Task, blockers \in SUBSET Task : CreateTask(p, t, blockers)
      \/ \E t \in Made, who \in Agent :
           \/ ClaimTask(p, who, t)
           \/ \E to \in Agent : AssignTask(p, who, t, to)
           \/ AcceptTask(p, who, t)
           \/ DeclineTask(p, who, t)
           \/ \E blockers \in SUBSET Task : UpdateTask(p, who, t, blockers)
           \/ StartTask(p, who, t)
           \/ \E s \in {"blocked", "open"} : PauseTask(p, who, t, s)
           \/ DoneTask(p, who, t)
           \/ DropTask(p, who, t)
      \/ \E t \in Made : LinkTaskRun(p, t)
      \/ \E b \in Task : LookAtBlocker(p, b)
      \/ WriteTask(p)

Spec == Init /\ [][Next]_vars

(* Calls on one task do not overlap; calls on different tasks may.          *)
OneAtATime ==
    \A p, q \in Caller :
      p # q /\ call[p] # None /\ call[q] # None => call[p].task # call[q].task

SerialSpec == Init /\ [][Next /\ OneAtATime']_vars

-----------------------------------------------------------------------------

TypeOK ==
    /\ tasks \in [Task -> File \cup {None}]
    /\ call \in [Caller -> Call \cup {None}]
    /\ \A p \in Caller : call[p] # None => call[p].task \in Made

(* Work that is under way or done has an owner, whatever calls overlap      *)
(* (claimTask to doneTask, each of which writes a whole file it has read).  *)
WorkHasOwner ==
    \A t \in Made : tasks[t].status \in {"claimed", "in_progress", "blocked", "done"} => tasks[t].owner # None

(* A task that is done waits for nothing: what blocks it has ended, also    *)
(* when the blockers were looked at one by one and others were changing     *)
(* them (assertNotBlocked), and stays so.                                   *)
DoneWaitsForNothing ==
    \A t \in Made : tasks[t].status = "done" =>
        /\ tasks[t].owner # None
        /\ \A b \in tasks[t].blocked_by : b \in Made /\ tasks[b].status \in Ended

=============================================================================
