------------------------------ MODULE PostOutbox ------------------------------
(***************************************************************************)
(* The outbox of one post (space/src/post-outbox.ts): the row of one       *)
(* Space, author and request id in the SQLite store, the message it writes *)
(* to the JSONL file of the Space, and the mentions it owes.               *)
(*                                                                         *)
(* Posters and repairers are calls of handleMessagesPost and               *)
(* handlePostOutboxRetry, each made again and again, every time in some     *)
(* daemon process that is alive.  A SQLite transaction is one step; what    *)
(* happens between two of them can come between the steps of other calls,  *)
(* of the same process (at every await) or of another.  A call that meets  *)
(* an error of the disk or the database may fail at any step.              *)
(***************************************************************************)
EXTENDS Naturals, FiniteSets

CONSTANTS Poster,       \* callers that post under the request id
          Repairer,     \* callers that ask for the explicit retry
          Process,      \* daemon processes, each with its pid
          Command,      \* what a request may ask to be posted
          CommandOf,    \* the command of a poster
          MaxAttempts,  \* attempts before the row becomes a dead letter
          TornWrites,   \* whether an append may leave an incomplete line
          None

Handler == Poster \cup Repairer

ASSUME OutboxAssumption ==
    /\ Poster \cap Repairer = {}
    /\ CommandOf \in [Poster -> Command]
    /\ MaxAttempts \in Nat \ {0}
    /\ TornWrites \in BOOLEAN
    /\ None \notin Process
    /\ None \notin Command

VARIABLES row,       \* the outbox row of the request
          copies,    \* readable lines of the message in the file
          torn,      \* the file ends in a line that was not completed
          mentions,  \* mention rows of the message for a recipient it names
          alive,     \* the processes that run
          pc,        \* where the handler of each call stands
          home,      \* the process it runs in
          claimed,   \* the attempt it claimed
          answer     \* what the last call was answered

vars == <<row, copies, torn, mentions, alive, pc, home, claimed, answer>>

durable == <<row, copies, torn, mentions>>

States == {"absent", "pending", "processing", "completed", "dead_letter"}
Locations == {"idle", "claim", "append", "write", "effects", "fail"}
Answers == {"none", "posted", "conflict", "not_found", "busy", "dead_letter", "pending", "error",
            "lost"}

Row == [state : States, attempt : Nat, owner : Process \cup {None}, lease : BOOLEAN,
        command : Command \cup {None}]

Init ==
    /\ row = [state |-> "absent", attempt |-> 0, owner |-> None, lease |-> FALSE,
              command |-> None]
    /\ copies = 0
    /\ torn = FALSE
    /\ mentions = 0
    /\ alive = Process
    /\ pc = [h \in Handler |-> "idle"]
    /\ home = [h \in Handler |-> None]
    /\ claimed = [h \in Handler |-> 0]
    /\ answer = [h \in Handler |-> "none"]

-----------------------------------------------------------------------------

(* A dispatch has claimed the row and not yet answered.                     *)
Dispatching(h) == pc[h] \in {"append", "write", "effects", "fail"}

(* The claim of a process that is alive, under a lease that still runs.     *)
Busy_LeaseIgnored == row.state = "processing" /\ row.owner \in alive \* mutant
Busy_Never == FALSE \* mutant
Busy == row.state = "processing" /\ row.lease /\ row.owner \in alive

Requested(r, c) == [r EXCEPT !.state = "pending", !.command = c]

Reset(r) == [r EXCEPT !.state = "pending", !.attempt = 0, !.owner = None, !.lease = FALSE]

Claimed(r, p) ==
    [r EXCEPT !.state = "processing", !.attempt = @ + 1, !.owner = p, !.lease = TRUE]

(* A row that no process works on any more.                                 *)
Settled(r, state) == [r EXCEPT !.state = state, !.owner = None, !.lease = FALSE]

Move(h, location) ==
    /\ pc' = [pc EXCEPT ![h] = location]
    /\ UNCHANGED <<home, claimed, answer>>

Enter(h, p) ==
    /\ pc' = [pc EXCEPT ![h] = "claim"]
    /\ home' = [home EXCEPT ![h] = p]
    /\ answer' = [answer EXCEPT ![h] = "none"]
    /\ UNCHANGED claimed

Return(h, a) ==
    /\ pc' = [pc EXCEPT ![h] = "idle"]
    /\ home' = [home EXCEPT ![h] = None]
    /\ claimed' = [claimed EXCEPT ![h] = 0]
    /\ answer' = [answer EXCEPT ![h] = a]

-----------------------------------------------------------------------------

(* prepare: the first call of the request writes the row, with the message  *)
(* it prepared; a later one finds it, or conflicts with it.                 *)
Prepare(h, p) ==
    /\ pc[h] = "idle"
    /\ p \in alive
    /\ UNCHANGED <<copies, torn, mentions, alive>>
    /\ \/ /\ row.state = "absent"
          /\ row' = Requested(row, CommandOf[h])
          /\ Enter(h, p)
       \/ /\ row.state # "absent"
          /\ row.command = CommandOf[h]
          /\ Enter(h, p)
          /\ UNCHANGED row
       \/ /\ row.state # "absent"
          /\ row.command # CommandOf[h]
          /\ Return(h, "conflict")
          /\ UNCHANGED row

(* repair: a new budget of attempts for a row that no live claim holds.     *)
Repair(h, p) ==
    /\ pc[h] = "idle"
    /\ p \in alive
    /\ UNCHANGED <<copies, torn, mentions, alive>>
    /\ \/ row.state = "absent" /\ Return(h, "not_found") /\ UNCHANGED row
       \/ Busy /\ Return(h, "busy") /\ UNCHANGED row
       \/ row.state = "completed" /\ Enter(h, p) /\ UNCHANGED row
       \/ /\ row.state \notin {"absent", "completed"}
          /\ ~Busy
          /\ row' = Reset(row)
          /\ Enter(h, p)

(* claimRecord: one transaction that counts the attempt, takes the lease,   *)
(* and gives the row up when the attempts are spent.                        *)
Claim(h) ==
    /\ pc[h] = "claim"
    /\ UNCHANGED <<copies, torn, mentions, alive>>
    /\ \/ row.state = "completed" /\ Return(h, "posted") /\ UNCHANGED row
       \/ row.state = "dead_letter" /\ Return(h, "dead_letter") /\ UNCHANGED row
       \/ Busy /\ Return(h, "busy") /\ UNCHANGED row
       \/ /\ row.state \in {"pending", "processing"}
          /\ ~Busy
          /\ row.attempt + 1 <= MaxAttempts
          /\ row' = Claimed(row, home[h])
          /\ claimed' = [claimed EXCEPT ![h] = row.attempt + 1]
          /\ pc' = [pc EXCEPT ![h] = "append"]
          /\ UNCHANGED <<home, answer>>
       \/ /\ row.state \in {"pending", "processing"}
          /\ ~Busy
          /\ row.attempt + 1 > MaxAttempts
          /\ row' = Settled(Claimed(row, home[h]), "dead_letter")
          /\ Return(h, "dead_letter")

(* The transaction of the claim did not take place.                         *)
ClaimFails(h) ==
    /\ pc[h] = "claim"
    /\ Return(h, "error")
    /\ UNCHANGED <<durable, alive>>

-----------------------------------------------------------------------------

(* appendMessageOnce, between its two awaits: the file is searched for a    *)
(* message of the request.  The calls of one process pass through the write *)
(* queue of the file one at a time; the queue is modelled without its order. *)

ReadMessages(h) ==
    /\ pc[h] = "append"
    /\ \A g \in Handler : home[g] = home[h] => pc[g] # "write"
    /\ Move(h, IF copies > 0 THEN "effects" ELSE "write")
    /\ UNCHANGED <<durable, alive>>

(* The line is appended.  After an incomplete line it becomes part of it,   *)
(* and no reader finds either.                                              *)
WriteMessage(h) ==
    /\ pc[h] = "write"
    /\ copies' = IF torn THEN copies ELSE copies + 1
    /\ torn' = FALSE
    /\ Move(h, "effects")
    /\ UNCHANGED <<row, mentions, alive>>

(* persistPreparedPost fails: the author has left, or the file could not be *)
(* read or written, or not to the end of the line.                          *)
PersistFails(h) ==
    /\ pc[h] \in {"append", "write"}
    /\ torn' \in {torn, torn \/ (TornWrites /\ pc[h] = "write")}
    /\ Move(h, "fail")
    /\ UNCHANGED <<row, copies, mentions, alive>>

(* completeEffects: one transaction inserts the mentions that are missing   *)
(* and completes the row, whoever has claimed it since.                     *)
CompleteEffects_MentionsOnly(h) == \* mutant
    /\ pc[h] = "effects"
    /\ mentions' = 1
    /\ Move(h, "fail")
    /\ UNCHANGED <<row, copies, torn, alive>>

CompleteEffects(h) ==
    /\ pc[h] = "effects"
    /\ mentions' = IF mentions = 0 THEN 1 ELSE mentions
    /\ row' = Settled(row, "completed")
    /\ Return(h, "posted")
    /\ UNCHANGED <<copies, torn, alive>>

EffectsFail(h) ==
    /\ pc[h] = "effects"
    /\ Move(h, "fail")
    /\ UNCHANGED <<durable, alive>>

(* failRecord: the row goes back to pending, or to the dead letters when    *)
(* this was the last attempt, whatever it has become since the claim.       *)

FailRecord(h) ==
    /\ pc[h] = "fail"
    /\ LET state == IF claimed[h] >= MaxAttempts THEN "dead_letter" ELSE "pending"
       IN  row' = Settled(row, state) /\ Return(h, state)
    /\ UNCHANGED <<copies, torn, mentions, alive>>

(* The failure could not be recorded.                                       *)
FailThrows(h) ==
    /\ pc[h] = "fail"
    /\ Return(h, "error")
    /\ UNCHANGED <<durable, alive>>

-----------------------------------------------------------------------------

(* The lease of the claim runs out: its thirty seconds are over.            *)
LeaseRunsOut ==
    /\ row.lease
    /\ row' = [row EXCEPT !.lease = FALSE]
    /\ UNCHANGED <<copies, torn, mentions, alive, pc, home, claimed, answer>>

(* A daemon dies with the calls it serves, in the middle of an append or    *)
(* not.  One daemon is left, or there is nobody to ask.                     *)
Crash(p) ==
    LET served == {h \in Handler : home[h] = p}
        writing == \E h \in served : pc[h] = "write"
    IN  /\ p \in alive
        /\ alive # {p}
        /\ alive' = alive \ {p}
        /\ torn' \in {torn, torn \/ (TornWrites /\ writing)}
        /\ pc' = [h \in Handler |-> IF h \in served THEN "idle" ELSE pc[h]]
        /\ home' = [h \in Handler |-> IF h \in served THEN None ELSE home[h]]
        /\ claimed' = [h \in Handler |-> IF h \in served THEN 0 ELSE claimed[h]]
        /\ answer' = [h \in Handler |-> IF h \in served THEN "lost" ELSE answer[h]]
        /\ UNCHANGED <<row, copies, mentions>>

Call(h) ==
    \/ \E p \in Process : h \in Poster /\ Prepare(h, p)
    \/ \E p \in Process : h \in Repairer /\ Repair(h, p)

Serve(h) ==
    \/ Claim(h) \/ ClaimFails(h)
    \/ ReadMessages(h) \/ WriteMessage(h) \/ PersistFails(h)
    \/ CompleteEffects(h) \/ EffectsFail(h)
    \/ FailRecord(h) \/ FailThrows(h)

Calls == \E h \in Handler : Call(h) \/ Serve(h)

Crashes == \E p \in Process : Crash(p)

Next == Calls \/ Crashes \/ LeaseRunsOut

Spec == Init /\ [][Next]_vars

(* No lease runs out while a dispatch is under way: each one ends within     *)
(* the thirty seconds it claimed the row for.                               *)
PromptNext ==
    \/ Calls
    \/ Crashes
    \/ (\A h \in Handler : ~Dispatching(h)) /\ LeaseRunsOut

PromptSpec == Init /\ [][PromptNext]_vars

(* Posters whose clients ask again until the row is settled, daemons that    *)
(* go on serving, a clock that goes on, and a database that again and again *)
(* is there for a claim.                                                    *)
FairSpec ==
    /\ PromptSpec
    /\ \A h \in Handler : WF_vars(Serve(h)) /\ SF_vars(Claim(h))
    /\ \A h \in Poster : WF_vars(Call(h))
    /\ WF_vars((\A h \in Handler : ~Dispatching(h)) /\ LeaseRunsOut)

-----------------------------------------------------------------------------

(* Every variable has its type; a call that is served is served by a process *)
(* that is alive, and an attempt is held exactly while it is dispatched.     *)
TypeOK ==
    /\ row \in Row
    /\ copies \in Nat
    /\ torn \in BOOLEAN
    /\ mentions \in Nat
    /\ alive \subseteq Process
    /\ pc \in [Handler -> Locations]
    /\ home \in [Handler -> alive \cup {None}]
    /\ claimed \in [Handler -> 0..MaxAttempts]
    /\ answer \in [Handler -> Answers]
    /\ \A h \in Handler : /\ pc[h] = "idle" <=> home[h] = None
                          /\ Dispatching(h) <=> claimed[h] > 0

(* While every dispatch is prompt, the claims of claimRecord exclude one     *)
(* another, across daemons, crashes and repairs.                             *)
OneDispatcher == \A g, h \in Handler : Dispatching(g) /\ Dispatching(h) => g = h

(* While every dispatch is prompt, the message is written once (io.ts        *)
(* appendMessageOnce), though two daemons share no write queue.              *)
OneCopy == copies <= 1

(* While every dispatch is prompt, the row is completed exactly when its     *)
(* mentions have been delivered: a dead letter or a pending row owes them.  *)
DeliveredMeansCompleted == row.state = "completed" <=> mentions > 0

(* A completed command stays completed (completeEffects, failRecord).       *)
CompletedStays == [][row.state = "completed" => row'.state = "completed"]_vars

(* However late a dispatch ends, a recipient is mentioned once              *)
(* (mentions.ts insertManyInTransaction).                                   *)
OneMention == mentions <= 1

(* However late a dispatch ends, the mention of a message comes after the    *)
(* message: the order of the execution in dispatch.                         *)
MentionsFollowMessages == mentions > 0 => copies > 0

(* What a post was answered is so: one that was told its message is posted   *)
(* finds it in the file and its mention delivered, under the command it      *)
(* asked for, and one in conflict asked for another.                        *)
AnswersAreTrue ==
    \A h \in Poster :
        /\ answer[h] = "posted" =>
             copies > 0 /\ mentions > 0 /\ row.command = CommandOf[h]
        /\ answer[h] = "conflict" => row.command \notin {None, CommandOf[h]}

(* Without a repair no attempt is made twice, so that no more than           *)
(* MaxAttempts dispatches are ever started, whichever of them end late       *)
(* (claimRecord counts, failRecord leaves the count alone).                 *)
AttemptsDiffer ==
    Repairer = {} => /\ \A h \in Handler : claimed[h] <= row.attempt
                     /\ \A g, h \in Handler :
                          Dispatching(g) /\ claimed[g] = claimed[h] => g = h

(* A post that is asked for again and again is completed or becomes a dead   *)
(* letter for good, whatever fails and whichever daemons die, unless it is  *)
(* repaired for ever (claimRecord).                                         *)
SettlesWhenRetried ==
    <>[](\A h \in Repairer : pc[h] = "idle") =>
        <>[](row.state \in {"completed", "dead_letter"})

=============================================================================
