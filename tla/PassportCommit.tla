---------------------------- MODULE PassportCommit ----------------------------
(***************************************************************************)
(* The passport transaction (id/src/commit-journal.ts): a passport file,   *)
(* the audit log of its versions and the journal that joins the two, under *)
(* a lock file with a pid that others may reap when its process is dead.   *)
(*                                                                         *)
(* A committer is one call of commitPassportTransaction, a repairer one of *)
(* repairPendingCommit, each in a process of its own; a command that is    *)
(* asked for again is another committer.  A version stands for a passport  *)
(* and its hash.  Every file operation is a step of its own; what a call   *)
(* only reads between two of them is read at one point.                    *)
(***************************************************************************)
EXTENDS Naturals, Sequences

CONSTANTS Committer,     \* calls of commitPassportTransaction
          Repairer,      \* calls of repairPendingCommit
          Checked,       \* committers that name the version they expect
          Command,       \* command ids
          Version,       \* passports
          CommandOf,     \* the command id of a committer
          AfterOf,       \* the passport it is to leave
          Start,         \* the passport there is at first, if any
          DeathPoints,   \* where a process may die
          TornAppends,   \* whether an append may leave an incomplete line
          None

Call == Committer \cup Repairer

Locations == {"load", "acquire", "reap", "unlink", "drop", "stamp", "check", "repair",
              "append", "rewrite", "clear", "decide", "prepare", "journal", "audit",
              "promote", "forget", "release", "unlock", "done"}

ASSUME PassportAssumption ==
    /\ Committer \cap Repairer = {}
    /\ Checked \subseteq Committer
    /\ CommandOf \in [Committer -> Command]
    /\ AfterOf \in [Committer -> Version]
    /\ Start \in Version \cup {None}
    /\ DeathPoints \subseteq Locations \ {"done"}
    /\ TornAppends \in BOOLEAN
    /\ None \notin Version \cup Command \cup Call

VARIABLES passport,  \* the version in the passport file
          audit,     \* the entries of the audit log
          torn,      \* the audit log ends in an incomplete line
          journal,   \* the entry of the pending journal
          temps,     \* the prepared passport files
          lock,      \* the call that created the lock file
          stamped,   \* the lock file names its process
          reaper,    \* the call that created the reap file
          dead,      \* the calls whose process has died
          pc,        \* where each call stands
          before,    \* the version a committer has loaded
          found,     \* the version it read under the lock
          entry,     \* the entry it is writing
          answer     \* what the call returned, or its error

vars == <<passport, audit, torn, journal, temps, lock, stamped, reaper, dead, pc, before, found,
          entry, answer>>

files == <<passport, audit, torn, journal, temps>>
locking == <<lock, stamped, reaper>>
locals == <<before, found, entry, answer>>

Entry == [command : Command, before : Version \cup {None}, after : Version,
          prev : Version \cup {None}]
NoEntry == [command |-> None, before |-> None, after |-> None, prev |-> None]

Answers == {"none", "committed", "idempotent", "conflict", "version_conflict", "disagreement",
            "unreadable", "error", "timeout", "no_pending", "completed", "repair_conflict"}

Init ==
    /\ passport = Start
    /\ audit = << >>
    /\ torn = FALSE
    /\ journal = NoEntry
    /\ temps = {}
    /\ lock = None /\ stamped = FALSE /\ reaper = None
    /\ dead = {}
    /\ pc = [c \in Call |-> "load"]
    /\ before = [c \in Call |-> None]
    /\ found = [c \in Call |-> None]
    /\ entry = [c \in Call |-> NoEntry]
    /\ answer = [c \in Call |-> "none"]

At(c, location) == c \notin dead /\ pc[c] = location

Goto(c, location) == pc' = [pc EXCEPT ![c] = location]

(* The end of the operation under the lock, which is then released.        *)
Answer(c, a) ==
    /\ Goto(c, "release")
    /\ answer' = [answer EXCEPT ![c] = a]
    /\ UNCHANGED <<before, found, entry>>

Tip == IF audit = << >> THEN None ELSE audit[Len(audit)].after

Holding == {"check", "repair", "append", "rewrite", "clear", "decide", "prepare", "journal",
            "audit", "promote", "forget"}

-----------------------------------------------------------------------------

(* A committer reads the passport it is to change; a repairer looks for the *)
(* journal.  Neither is under the lock.                                     *)
Load(c) ==
    /\ At(c, "load")
    /\ \/ /\ c \in Committer
          /\ before' = [before EXCEPT ![c] = passport]
          /\ Goto(c, "acquire")
          /\ UNCHANGED answer
       \/ /\ c \in Repairer /\ journal # NoEntry
          /\ Goto(c, "acquire")
          /\ UNCHANGED <<before, answer>>
       \/ /\ c \in Repairer /\ journal = NoEntry
          /\ Goto(c, "done")
          /\ answer' = [answer EXCEPT ![c] = "no_pending"]
          /\ UNCHANGED before
    /\ UNCHANGED <<files, locking, dead, found, entry>>

(* withPassportLock: the lock file is created, exclusively and empty.       *)
Acquire(c) ==
    /\ At(c, "acquire")
    /\ lock = None
    /\ lock' = c
    /\ stamped' = FALSE
    /\ Goto(c, "stamp")
    /\ UNCHANGED <<files, reaper, dead, locals>>

(* Its owner is written into it.                                           *)
Stamp(c) ==
    /\ At(c, "stamp")
    /\ stamped' = TRUE
    /\ Goto(c, "check")
    /\ UNCHANGED <<files, lock, reaper, dead, locals>>

(* The owner could not be written: releaseOwnedLock does not know the file. *)
StampFails(c) ==
    /\ At(c, "stamp")
    /\ Answer(c, "error")
    /\ UNCHANGED <<files, locking, dead>>

(* reapStaleLock: one call at a time judges a lock that is in its way.      *)
Contend(c) ==
    /\ At(c, "acquire")
    /\ lock # None /\ reaper = None
    /\ reaper' = c
    /\ Goto(c, "reap")
    /\ UNCHANGED <<files, lock, stamped, dead, locals>>

(* lockIsStale: the file names a process that is no more.                   *)
Stale_Never == FALSE \* mutant
Stale == lock # None /\ stamped /\ lock \in dead

Judge(c) ==
    /\ At(c, "reap")
    /\ Goto(c, IF Stale THEN "unlink" ELSE "drop")
    /\ UNCHANGED <<files, locking, dead, locals>>

Unlink(c) ==
    /\ At(c, "unlink")
    /\ lock' = None
    /\ stamped' = FALSE
    /\ Goto(c, "drop")
    /\ UNCHANGED <<files, reaper, dead, locals>>

Drop(c) ==
    /\ At(c, "drop")
    /\ reaper' = None
    /\ Goto(c, "acquire")
    /\ UNCHANGED <<files, lock, stamped, dead, locals>>

TimesOut(c) ==
    /\ At(c, "acquire")
    /\ lock # None
    /\ Goto(c, "done")
    /\ answer' = [answer EXCEPT ![c] = "timeout"]
    /\ UNCHANGED <<files, locking, dead, before, found, entry>>

(* releaseOwnedLock: a file with the call's token is removed, in two steps. *)
Release(c) ==
    /\ At(c, "release")
    /\ Goto(c, IF lock = c /\ stamped THEN "unlock" ELSE "done")
    /\ UNCHANGED <<files, locking, dead, locals>>

Unlock(c) ==
    /\ At(c, "unlock")
    /\ lock' = None
    /\ stamped' = FALSE
    /\ Goto(c, "done")
    /\ UNCHANGED <<files, reaper, dead, locals>>

-----------------------------------------------------------------------------

(* A pending journal is repaired before anything else.                      *)
CheckJournal_Ignored(c) == \* mutant
    /\ At(c, "check")
    /\ Goto(c, IF c \in Committer THEN "decide" ELSE "repair")
    /\ UNCHANGED <<files, locking, dead, locals>>

CheckJournal(c) ==
    /\ At(c, "check")
    /\ Goto(c, IF journal = NoEntry /\ c \in Committer THEN "decide" ELSE "repair")
    /\ UNCHANGED <<files, locking, dead, locals>>

Logged(e) == \E i \in 1..Len(audit) : audit[i] = e
LastLogged(e) == audit # << >> /\ audit[Len(audit)] = e

(* What stands in the way of completing the journal.                        *)
RepairConflict ==
    IF Logged(journal) /\ ~LastLogged(journal)
    THEN passport # Tip
    ELSE \/ passport \notin {journal.before, journal.after}
         \/ ~Logged(journal) /\ Tip # journal.prev

(* repairPendingCommitUnlocked, up to its first write.                      *)
Repair(c) ==
    /\ At(c, "repair")
    /\ UNCHANGED <<files, locking, dead>>
    /\ \/ journal = NoEntry /\ c \in Repairer /\ Answer(c, "no_pending")
       \/ journal = NoEntry /\ c \in Committer /\ Goto(c, "decide") /\ UNCHANGED locals
       \/ journal # NoEntry /\ torn /\ Answer(c, "unreadable")
       \/ journal # NoEntry /\ ~torn /\ RepairConflict /\ Answer(c, "repair_conflict")
       \/ /\ journal # NoEntry /\ ~torn /\ ~RepairConflict
          /\ found' = [found EXCEPT ![c] = passport]
          /\ entry' = [entry EXCEPT ![c] = journal]
          /\ Goto(c, IF ~Logged(journal) THEN "append"
                     ELSE IF LastLogged(journal) /\ passport # journal.after THEN "rewrite"
                     ELSE "clear")
          /\ UNCHANGED <<before, answer>>

(* A line appended after an incomplete one is lost with it.                 *)
AppendEntry(c) == audit' = IF torn THEN audit ELSE Append(audit, entry[c])

RepairAppend_Only(c) == \* mutant
    /\ At(c, "append")
    /\ AppendEntry(c)
    /\ Goto(c, "clear")
    /\ UNCHANGED <<passport, torn, journal, temps, locking, dead, locals>>

RepairAppend(c) ==
    /\ At(c, "append")
    /\ AppendEntry(c)
    /\ Goto(c, IF found[c] # entry[c].after THEN "rewrite" ELSE "clear")
    /\ UNCHANGED <<passport, torn, journal, temps, locking, dead, locals>>

RepairWrite(c) ==
    /\ At(c, "rewrite")
    /\ passport' = entry[c].after
    /\ Goto(c, "clear")
    /\ UNCHANGED <<audit, torn, journal, temps, locking, dead, locals>>

(* The journal is cleared and every prepared file removed, whoever made it. *)
RepairClear(c) ==
    /\ At(c, "clear")
    /\ journal' = NoEntry
    /\ temps' = {}
    /\ \/ /\ c \in Committer
          /\ Goto(c, "decide")
          /\ UNCHANGED locals
       \/ /\ c \in Repairer
          /\ Answer(c, "completed")
    /\ UNCHANGED <<passport, audit, torn, locking, dead>>

-----------------------------------------------------------------------------

Prior(c) ==
    CHOOSE i \in 1..Len(audit) :
        /\ audit[i].command = CommandOf[c]
        /\ \A j \in 1..(i - 1) : audit[j].command # CommandOf[c]

Seen(c) == \E i \in 1..Len(audit) : audit[i].command = CommandOf[c]

Differs(c) ==
    \/ audit[Prior(c)].after # AfterOf[c]
    \/ c \in Checked /\ audit[Prior(c)].before # before[c]

NewEntry(c) ==
    [command |-> CommandOf[c], before |-> before[c], after |-> AfterOf[c], prev |-> Tip]

(* The checks of commitPassportTransaction, from the audit log and the      *)
(* passport as they are under the lock.                                     *)
Decide_NoDedup(c) == \* mutant
    /\ At(c, "decide")
    /\ UNCHANGED <<files, locking, dead>>
    /\ ~torn /\ passport = before[c]
    /\ entry' = [entry EXCEPT ![c] = NewEntry(c)]
    /\ found' = [found EXCEPT ![c] = passport]
    /\ Goto(c, "prepare")
    /\ UNCHANGED <<before, answer>>

Decide_StaleBefore(c) == \* mutant
    /\ At(c, "decide")
    /\ UNCHANGED <<files, locking, dead>>
    /\ ~torn /\ ~Seen(c)
    /\ entry' = [entry EXCEPT ![c] = NewEntry(c)]
    /\ found' = [found EXCEPT ![c] = passport]
    /\ Goto(c, "prepare")
    /\ UNCHANGED <<before, answer>>

Decide(c) ==
    /\ At(c, "decide")
    /\ UNCHANGED <<files, locking, dead>>
    /\ \/ torn /\ Answer(c, "unreadable")
       \/ ~torn /\ audit # << >> /\ Tip # passport /\ Answer(c, "disagreement")
       \/ /\ ~torn /\ (audit = << >> \/ Tip = passport)
          /\ \/ Seen(c) /\ Differs(c) /\ Answer(c, "conflict")
             \/ Seen(c) /\ ~Differs(c) /\ Answer(c, "idempotent")
             \/ ~Seen(c) /\ passport # before[c] /\ Answer(c, "version_conflict")
             \/ /\ ~Seen(c) /\ passport = before[c]
                /\ entry' = [entry EXCEPT ![c] = NewEntry(c)]
                /\ found' = [found EXCEPT ![c] = passport]
                /\ Goto(c, "prepare")
                /\ UNCHANGED <<before, answer>>

Prepare(c) ==
    /\ At(c, "prepare")
    /\ temps' = temps \cup {c}
    /\ Goto(c, "journal")
    /\ UNCHANGED <<passport, audit, torn, journal, locking, dead, locals>>

WriteJournal(c) ==
    /\ At(c, "journal")
    /\ journal' = entry[c]
    /\ Goto(c, "audit")
    /\ UNCHANGED <<passport, audit, torn, temps, locking, dead, locals>>

AppendAudit_Early(c) == \* mutant
    /\ At(c, "audit")
    /\ AppendEntry(c)
    /\ journal' = NoEntry
    /\ Goto(c, "promote")
    /\ UNCHANGED <<passport, torn, temps, locking, dead, locals>>

AppendAudit(c) ==
    /\ At(c, "audit")
    /\ AppendEntry(c)
    /\ Goto(c, "promote")
    /\ UNCHANGED <<passport, torn, journal, temps, locking, dead, locals>>

(* The prepared file becomes the passport, if it is still there.            *)
Promote(c) ==
    /\ At(c, "promote")
    /\ c \in temps
    /\ temps' = temps \ {c}
    /\ passport' = entry[c].after
    /\ Goto(c, "forget")
    /\ UNCHANGED <<audit, torn, journal, locking, dead, locals>>

ClearJournal(c) ==
    /\ At(c, "forget")
    /\ journal' = NoEntry
    /\ Answer(c, "committed")
    /\ UNCHANGED <<passport, audit, torn, temps, locking, dead>>

Fail_Swallowed(c) == \* mutant
    /\ c \notin dead /\ pc[c] \in Holding
    /\ temps' = temps \ {c}
    /\ Answer(c, IF c \in Committer THEN "committed" ELSE "error")
    /\ UNCHANGED <<passport, audit, torn, journal, locking, dead>>

(* An operation fails under the lock: the prepared file is removed, the     *)
(* journal stays as it is, and the lock is released.                        *)
Fail(c) ==
    /\ c \notin dead /\ pc[c] \in Holding
    /\ temps' = temps \ {c}
    /\ torn' \in {torn, torn \/ (TornAppends /\ pc[c] \in {"append", "audit"})}
    /\ Answer(c, "error")
    /\ UNCHANGED <<passport, audit, journal, locking, dead>>

(* The process of a call dies; nothing of what it left is cleaned up.       *)
Die(c) ==
    /\ c \notin dead /\ pc[c] \in DeathPoints
    /\ dead' = dead \cup {c}
    /\ torn' \in {torn, torn \/ (TornAppends /\ pc[c] \in {"append", "audit"})}
    /\ UNCHANGED <<passport, audit, journal, temps, locking, pc, locals>>

Locks(c) ==
    \/ Acquire(c) \/ Stamp(c)
    \/ Contend(c) \/ Judge(c) \/ Unlink(c) \/ Drop(c)
    \/ Release(c) \/ Unlock(c)

Works(c) ==
    \/ Load(c) \/ CheckJournal(c)
    \/ Repair(c) \/ RepairAppend(c) \/ RepairWrite(c) \/ RepairClear(c)
    \/ Decide(c) \/ Prepare(c) \/ WriteJournal(c) \/ AppendAudit(c) \/ Promote(c)
    \/ ClearJournal(c) \/ Fail(c)

Steps == \E c \in Call : Locks(c) \/ Works(c)

Deaths == \E c \in Call : Die(c)

Next == Steps \/ Deaths \/ (\E c \in Call : TimesOut(c) \/ StampFails(c))

Spec == Init /\ [][Next]_vars

(* Calls that can sign the lock file and wait for it as long as it takes,    *)
(* and a scheduler that lets each of them find the lock, or the reap file,  *)
(* free when it is free again and again.                                    *)
PatientSpec ==
    /\ Init
    /\ [][Steps \/ Deaths]_vars
    /\ \A c \in Call : /\ WF_vars(Locks(c) \/ Works(c))
                       /\ SF_vars(Acquire(c)) /\ SF_vars(Contend(c))

-----------------------------------------------------------------------------

(* Every variable has its type.                                            *)
TypeOK ==
    /\ passport \in Version \cup {None}
    /\ audit \in Seq(Entry)
    /\ torn \in BOOLEAN
    /\ journal \in Entry \cup {NoEntry}
    /\ temps \subseteq Call
    /\ lock \in Call \cup {None}
    /\ stamped \in BOOLEAN
    /\ reaper \in Call \cup {None}
    /\ dead \subseteq Call
    /\ pc \in [Call -> Locations]
    /\ before \in [Call -> Version \cup {None}]
    /\ found \in [Call -> Version \cup {None}]
    /\ entry \in [Call -> Entry \cup {NoEntry}]
    /\ answer \in [Call -> Answers]

(* Two live calls are never under the lock at once, though a lock may be     *)
(* reaped while others create and release it (withPassportLock,             *)
(* reapStaleLock, releaseOwnedLock).                                        *)
MutualExclusion ==
    \A c, d \in Call \ dead :
        pc[c] \in Holding \cup {"unlock"} /\ pc[d] \in Holding \cup {"unlock"} => c = d

(* The audit log is one history: each entry is made on the version that the *)
(* one before it left, and names it, through crashes, repairs and contents  *)
(* that come back (commitPassportTransaction, readAuditLog).                *)
AuditIsOneHistory ==
    \A i \in 1..Len(audit) :
        /\ audit[i].before = IF i = 1 THEN Start ELSE audit[i - 1].after
        /\ audit[i].prev = IF i = 1 THEN None ELSE audit[i - 1].after

(* A command is entered once, by whichever of its attempts, or by the call   *)
(* that repairs it (commandMarker).                                         *)
OneEntryPerCommand ==
    \A i, j \in 1..Len(audit) : audit[i].command = audit[j].command => i = j

(* The passport is the version the audit log ends with, or the journal holds *)
(* what is missing: the last entry, made on the passport as it is.          *)
PassportAgrees ==
    \/ passport = IF audit = << >> THEN Start ELSE Tip
    \/ LastLogged(journal) /\ passport = journal.before

(* A call that was told that its command is committed, now or before, finds  *)
(* it in the audit log with the passport it asked for.                      *)
AnswersAreTrue ==
    \A c \in Committer : answer[c] \in {"committed", "idempotent"} =>
        \E i \in 1..Len(audit) :
            audit[i].command = CommandOf[c] /\ audit[i].after = AfterOf[c]

(* While nobody else writes these files, wherever a process died the next    *)
(* call can tell what is missing: no repair ends in a conflict, and no       *)
(* command finds passport and audit log in disagreement.                     *)
RepairsNeverConflict ==
    \A c \in Call : answer[c] \notin {"repair_conflict", "disagreement"}

(* The file a live call has prepared is there until it is promoted, whatever *)
(* repairs clean up (cleanupPreparedTemps).                                 *)
PreparedFilesStay ==
    \A c \in Call \ dead : pc[c] \in {"journal", "audit", "promote"} => c \in temps

(* The entry of the journal is as good as made: whoever comes next appends   *)
(* it to the audit log before anything else.                                *)
History == IF journal = NoEntry \/ Logged(journal) THEN audit ELSE Append(audit, journal)

Ledger == INSTANCE PassportLedger
    WITH Caller <- Committer, history <- History,
         confirmed <- {c \in Committer : answer[c] \in {"committed", "idempotent"}}

(* The files and the protocol around them implement one history of the       *)
(* passport, extended when a journal is written.                            *)
ImplementsLedger == Ledger!Spec

(* Whoever waits for the lock gets it, or gives up on its own account.       *)
WaitersGoOn ==
    \A c \in Call : pc[c] = "acquire" ~> (pc[c] = "stamp" \/ c \in dead)

=============================================================================
