------------------------- MODULE PassportCommitProofs -------------------------
(***************************************************************************)
(* Proofs of the safety properties of PassportCommit and of its refinement *)
(* of PassportLedger, for any calls, commands, passports and places where  *)
(* a process may die.                                                      *)
(***************************************************************************)
EXTENDS PassportCommit, TLAPS

(* The lock file and the reap file are those of the live call that is where *)
(* only their owner can be, and the lock about to be reaped is a dead one's. *)
LockInv ==
    \A c \in Call \ dead :
        /\ pc[c] \in Holding \cup {"stamp", "release", "unlock"} => lock = c
        /\ pc[c] \in Holding \cup {"unlock"} => stamped
        /\ pc[c] \in {"reap", "unlink", "drop"} => reaper = c
        /\ pc[c] = "unlink" => lock \in dead

(* The version the audit log stands for.                                   *)
Now == IF audit = << >> THEN Start ELSE Tip

(* An entry that may come next: of a new command, on that version.          *)
Fits(e) ==
    /\ e.before = Now /\ e.prev = Tip
    /\ \A i \in 1..Len(audit) : audit[i].command # e.command

(* What the three files have to do with each other, whoever left them so.   *)
FilesAgree ==
    /\ journal = NoEntry => passport = Now
    /\ journal # NoEntry /\ ~Logged(journal) => Fits(journal) /\ passport = Now
    /\ journal # NoEntry /\ Logged(journal) =>
           LastLogged(journal) /\ passport \in {journal.before, journal.after}

(* What the call that has the lock knows of them, by where it stands.       *)
Knows(c) ==
    /\ pc[c] \in {"decide", "prepare", "journal"} => journal = NoEntry
    /\ pc[c] \in {"prepare", "journal"} => entry[c] \in Entry /\ Fits(entry[c])
    /\ pc[c] \in {"append", "rewrite", "clear", "audit", "promote", "forget"} =>
           journal = entry[c] /\ entry[c] \in Entry
    /\ pc[c] \in {"append", "audit"} => ~Logged(entry[c])
    /\ pc[c] \in {"rewrite", "clear", "promote", "forget"} => LastLogged(entry[c])
    /\ pc[c] \in {"append", "prepare", "journal", "audit"} => ~torn
    /\ pc[c] = "append" => found[c] = passport
    /\ pc[c] \in {"clear", "forget"} => passport = entry[c].after
    /\ pc[c] \in {"journal", "audit", "promote"} => c \in temps
    /\ pc[c] \in {"decide", "prepare", "journal", "audit", "promote", "forget"} =>
           c \in Committer
    /\ pc[c] \in {"prepare", "journal", "audit", "promote", "forget"} =>
           entry[c].command = CommandOf[c] /\ entry[c].after = AfterOf[c]

DataInv ==
    /\ AuditIsOneHistory
    /\ OneEntryPerCommand
    /\ FilesAgree
    /\ \A c \in Call \ dead : Knows(c)
    /\ AnswersAreTrue
    /\ RepairsNeverConflict

IInv == TypeOK /\ LockInv /\ DataInv

-----------------------------------------------------------------------------
(* Types.                                                                  *)

LEMMA TipTyped ==
    ASSUME TypeOK
    PROVE  Tip \in Version \cup {None}
<1>1. CASE audit = << >>
  BY <1>1 DEF Tip
<1>2. CASE audit # << >>
  <2>1. audit[Len(audit)] \in Entry
    BY <1>2 DEF TypeOK
  <2> QED BY <1>2, <2>1 DEF Tip, Entry
<1> QED BY <1>1, <1>2

LEMMA NewEntryTyped ==
    ASSUME TypeOK, NEW c \in Committer
    PROVE  NewEntry(c) \in Entry
<1>1. CommandOf[c] \in Command /\ AfterOf[c] \in Version
  BY PassportAssumption
<1>2. before[c] \in Version \cup {None}
  BY DEF TypeOK, Call
<1> QED BY <1>1, <1>2, TipTyped DEF NewEntry, Entry

LEMMA AppendTyped ==
    ASSUME TypeOK, NEW c \in Call, entry[c] \in Entry, AppendEntry(c)
    PROVE  audit' \in Seq(Entry)
BY DEF TypeOK, AppendEntry

(* The parts of a step that only concern where the call is and its answer.  *)
LEMMA GotoTyped ==
    ASSUME TypeOK, NEW c \in Call, NEW l \in Locations, Goto(c, l)
    PROVE  pc' \in [Call -> Locations]
BY DEF TypeOK, Goto

LEMMA AnswerTyped ==
    ASSUME TypeOK, NEW c \in Call, NEW a \in Answers, Answer(c, a)
    PROVE  /\ pc' \in [Call -> Locations]
           /\ answer' \in [Call -> Answers]
           /\ UNCHANGED <<before, found, entry>>
BY GotoTyped DEF TypeOK, Answer, Goto, Locations

LEMMA LocksTyped ==
    ASSUME TypeOK, NEW c \in Call,
           Locks(c) \/ TimesOut(c) \/ StampFails(c)
    PROVE  TypeOK'
<1>1. CASE Acquire(c) \/ Stamp(c)
  BY <1>1 DEF TypeOK, Acquire, Stamp, Goto, Locations, files, locals
<1>2. CASE Contend(c) \/ Judge(c) \/ Unlink(c) \/ Drop(c)
  BY <1>2 DEF TypeOK, Contend, Judge, Unlink, Drop, Goto, Locations, files, locals, locking
<1>3. CASE Release(c) \/ Unlock(c)
  BY <1>3 DEF TypeOK, Release, Unlock, Goto, Locations, files, locals, locking
<1>4. CASE TimesOut(c) \/ StampFails(c)
  BY <1>4 DEF TypeOK, TimesOut, StampFails, Answer, Answers, Goto, Locations, files, locking
<1> QED BY <1>1, <1>2, <1>3, <1>4 DEF Locks

LEMMA DecideTyped ==
    ASSUME TypeOK, NEW c \in Committer, Decide(c)
    PROVE  TypeOK'
<1> c \in Call
  BY DEF Call
<1>1. ASSUME NEW a \in {"unreadable", "disagreement", "conflict", "idempotent",
                        "version_conflict"}, Answer(c, a)
      PROVE  TypeOK'
  BY <1>1, AnswerTyped DEF TypeOK, Decide, Answers, files, locking
<1>2. CASE /\ entry' = [entry EXCEPT ![c] = NewEntry(c)]
           /\ found' = [found EXCEPT ![c] = passport]
           /\ Goto(c, "prepare")
           /\ UNCHANGED <<before, answer>>
  <2>1. NewEntry(c) \in Entry
    BY NewEntryTyped
  <2>2. pc' \in [Call -> Locations]
    BY <1>2, GotoTyped DEF Locations
  <2> QED BY <1>2, <2>1, <2>2 DEF TypeOK, Decide, files, locking
<1> QED BY <1>1, <1>2 DEF Decide

LEMMA RepairTyped ==
    ASSUME TypeOK, NEW c \in Call, Repair(c)
    PROVE  TypeOK'
<1>1. ASSUME NEW a \in {"no_pending", "unreadable", "repair_conflict"}, Answer(c, a)
      PROVE  TypeOK'
  BY <1>1, AnswerTyped DEF TypeOK, Repair, Answers, files, locking
<1>2. CASE Goto(c, "decide") /\ UNCHANGED locals
  BY <1>2, GotoTyped DEF TypeOK, Repair, Locations, files, locking, locals
<1>3. CASE /\ journal # NoEntry
           /\ found' = [found EXCEPT ![c] = passport]
           /\ entry' = [entry EXCEPT ![c] = journal]
           /\ Goto(c, IF ~Logged(journal) THEN "append"
                      ELSE IF LastLogged(journal) /\ passport # journal.after THEN "rewrite"
                      ELSE "clear")
           /\ UNCHANGED <<before, answer>>
  <2>1. pc' \in [Call -> Locations]
    BY <1>3, GotoTyped DEF Locations
  <2> QED BY <1>3, <2>1 DEF TypeOK, Repair, files, locking
<1> QED BY <1>1, <1>2, <1>3 DEF Repair

(* A call that writes an entry has one, and so what it writes is typed.      *)
LEMMA WorksTyped ==
    ASSUME TypeOK, LockInv, DataInv, NEW c \in Call, Works(c)
    PROVE  TypeOK'
<1>1. CASE Load(c)
  BY <1>1, GotoTyped DEF TypeOK, Load, Locations, Answers, files, locking
<1>2. CASE CheckJournal(c)
  BY <1>2, GotoTyped DEF TypeOK, CheckJournal, Locations, files, locking, locals
<1>3. CASE Repair(c)
  BY <1>3, RepairTyped
<1>4. CASE RepairAppend(c) \/ AppendAudit(c)
  <2>1. entry[c] \in Entry
    BY <1>4 DEF DataInv, Knows, RepairAppend, AppendAudit, At
  <2>2. audit' \in Seq(Entry)
    BY <1>4, <2>1, AppendTyped DEF RepairAppend, AppendAudit
  <2>3. pc' \in [Call -> Locations]
    BY <1>4, GotoTyped DEF RepairAppend, AppendAudit, Locations
  <2> QED BY <1>4, <2>2, <2>3 DEF TypeOK, RepairAppend, AppendAudit, locking, locals
<1>5. CASE RepairWrite(c) \/ Promote(c)
  <2>1. entry[c] \in Entry
    BY <1>5 DEF DataInv, Knows, RepairWrite, Promote, At
  <2>2. entry[c].after \in Version
    BY <2>1 DEF Entry
  <2>3. pc' \in [Call -> Locations]
    BY <1>5, GotoTyped DEF RepairWrite, Promote, Locations
  <2> QED BY <1>5, <2>2, <2>3 DEF TypeOK, RepairWrite, Promote, locking, locals
<1>6. CASE RepairClear(c) \/ ClearJournal(c)
  <2>1. CASE Goto(c, "decide") /\ UNCHANGED locals
    BY <1>6, <2>1, GotoTyped
       DEF TypeOK, RepairClear, ClearJournal, Locations, locking, locals
  <2>2. CASE Answer(c, "completed") \/ Answer(c, "committed")
    BY <1>6, <2>2, AnswerTyped DEF TypeOK, RepairClear, ClearJournal, Answers, locking
  <2> QED BY <1>6, <2>1, <2>2 DEF RepairClear, ClearJournal
<1>7. CASE Decide(c)
  <2>1. c \in Committer
    BY <1>7 DEF DataInv, Knows, Decide, At
  <2> QED BY <1>7, <2>1, DecideTyped
<1>8. CASE Prepare(c)
  BY <1>8, GotoTyped DEF TypeOK, Prepare, Locations, locking, locals
<1>9. CASE WriteJournal(c)
  <2>1. entry[c] \in Entry
    BY <1>9 DEF DataInv, Knows, WriteJournal, At
  <2> QED BY <1>9, <2>1, GotoTyped DEF TypeOK, WriteJournal, Locations, locking, locals
<1>10. CASE Fail(c)
  BY <1>10, AnswerTyped, PassportAssumption DEF TypeOK, Fail, Answers, locking
<1> QED BY <1>1, <1>2, <1>3, <1>4, <1>5, <1>6, <1>7, <1>8, <1>9, <1>10 DEF Works

LEMMA TypesKept ==
    ASSUME TypeOK, LockInv, DataInv, [Next]_vars
    PROVE  TypeOK'
<1>1. CASE UNCHANGED vars
  BY <1>1 DEF TypeOK, vars
<1>2. ASSUME NEW c \in Call, Die(c) PROVE TypeOK'
  BY <1>2, PassportAssumption DEF TypeOK, Die, locking, locals
<1> QED BY <1>1, <1>2, LocksTyped, WorksTyped DEF Next, Steps, Deaths

-----------------------------------------------------------------------------
(* The lock.                                                               *)

(* A step that leaves the lock, and every other call, as it is.             *)
LEMMA LockStays ==
    ASSUME TypeOK, LockInv, NEW c \in Call \ dead, NEW l \in Locations, Goto(c, l),
           UNCHANGED <<locking, dead>>,
           l \in Holding \cup {"unlock"} => lock = c /\ stamped,
           l \in {"stamp", "release"} => lock = c,
           l \in {"reap", "unlink", "drop"} => reaper = c,
           l = "unlink" => lock \in dead
    PROVE  LockInv'
BY DEF TypeOK, LockInv, Goto, Holding, locking

LEMMA WorksKeepTheLock ==
    ASSUME TypeOK, LockInv, NEW c \in Call, Works(c)
    PROVE  LockInv'
<1>1. CASE Load(c)
  BY <1>1, LockStays DEF Load, At, Locations, Holding
<1>2. CASE CheckJournal(c)
  <2>1. lock = c /\ stamped
    BY <1>2 DEF CheckJournal, At, LockInv, Holding
  <2> QED BY <1>2, <2>1, LockStays DEF CheckJournal, At, Locations, Holding
<1>3. CASE ~Load(c) /\ ~CheckJournal(c)
  <2>1. c \in Call \ dead /\ lock = c /\ stamped /\ UNCHANGED <<locking, dead>>
    BY <1>3 DEF Works, Repair, RepairAppend, RepairWrite, RepairClear, Decide, Prepare,
                WriteJournal, AppendAudit, Promote, ClearJournal, Fail, At, LockInv, Holding
  <2>2. \E l \in Holding \cup {"release"} : Goto(c, l)
    <3>1. CASE Repair(c) \/ Decide(c)
      BY <3>1 DEF Repair, Decide, Answer, Holding
    <3>2. CASE RepairAppend(c) \/ RepairWrite(c) \/ RepairClear(c)
      BY <3>2 DEF RepairAppend, RepairWrite, RepairClear, Answer, Holding
    <3>3. CASE Prepare(c) \/ WriteJournal(c) \/ AppendAudit(c) \/ Promote(c)
      BY <3>3 DEF Prepare, WriteJournal, AppendAudit, Promote, Holding
    <3>4. CASE ClearJournal(c) \/ Fail(c)
      BY <3>4 DEF ClearJournal, Fail, Answer
    <3> QED BY <1>3, <3>1, <3>2, <3>3, <3>4 DEF Works
  <2> QED BY <2>1, <2>2, LockStays DEF Holding, Locations
<1> QED BY <1>1, <1>2, <1>3

LEMMA LocksKeepTheLock ==
    ASSUME TypeOK, LockInv, NEW c \in Call, Locks(c) \/ TimesOut(c) \/ StampFails(c)
    PROVE  LockInv'
<1> USE PassportAssumption
<1>1. CASE Acquire(c)
  BY <1>1 DEF TypeOK, LockInv, Acquire, At, Goto, Holding
<1>2. CASE Stamp(c)
  BY <1>2 DEF TypeOK, LockInv, Stamp, At, Goto, Holding
<1>3. CASE Contend(c)
  BY <1>3 DEF TypeOK, LockInv, Contend, At, Goto, Holding
<1>4. CASE Judge(c)
  <2>1. reaper = c
    BY <1>4 DEF Judge, At, LockInv
  <2> QED BY <1>4, <2>1, LockStays DEF Judge, At, Stale, Locations, Holding
<1>5. CASE Unlink(c)
  BY <1>5 DEF TypeOK, LockInv, Unlink, At, Goto, Holding
<1>6. CASE Drop(c)
  BY <1>6 DEF TypeOK, LockInv, Drop, At, Goto, Holding
<1>7. CASE Release(c)
  BY <1>7, LockStays DEF Release, At, Locations, Holding
<1>8. CASE Unlock(c)
  BY <1>8 DEF TypeOK, LockInv, Unlock, At, Goto, Holding
<1>9. CASE TimesOut(c)
  BY <1>9, LockStays DEF TimesOut, At, Locations, Holding
<1>10. CASE StampFails(c)
  <2>1. lock = c
    BY <1>10 DEF StampFails, At, LockInv
  <2> QED BY <1>10, <2>1, LockStays DEF StampFails, At, Answer, Locations, Holding
<1> QED BY <1>1, <1>2, <1>3, <1>4, <1>5, <1>6, <1>7, <1>8, <1>9, <1>10 DEF Locks

LEMMA LockKept ==
    ASSUME TypeOK, LockInv, [Next]_vars
    PROVE  LockInv'
<1>1. CASE UNCHANGED vars
  BY <1>1 DEF LockInv, vars, locking
<1>2. ASSUME NEW c \in Call, Die(c) PROVE LockInv'
  BY <1>2 DEF LockInv, Die, locking
<1> QED BY <1>1, <1>2, WorksKeepTheLock, LocksKeepTheLock DEF Next, Steps, Deaths

-----------------------------------------------------------------------------
(* The files.                                                              *)

(* Only one live call knows anything.                                       *)
LEMMA Alone ==
    ASSUME LockInv, NEW c \in Call \ dead, NEW d \in Call \ dead,
           pc[c] \in Holding \cup {"unlock"}, pc[d] \in Holding \cup {"unlock"}
    PROVE  c = d
BY DEF LockInv

(* Whatever a call under the lock does to the files, the others know        *)
(* nothing that could become wrong.                                         *)
LEMMA OthersKnow ==
    ASSUME TypeOK, LockInv, NEW c \in Call \ dead, pc[c] \in Holding, NEW l \in Locations,
           Goto(c, l) \/ UNCHANGED pc, dead \subseteq dead',
           c \notin dead' => Knows(c)'
    PROVE  \A d \in Call \ dead' : Knows(d)'
<1> SUFFICES ASSUME NEW d \in Call \ dead', d # c PROVE Knows(d)'
  OBVIOUS
<1>1. pc[d] \notin Holding
  BY Alone
<1>2. pc'[d] = pc[d]
  BY DEF TypeOK, Goto
<1> QED BY <1>1, <1>2 DEF Knows, Holding

(* A step that leaves the files and entries alone, and takes its call where *)
(* it need not know them.                                                   *)
LEMMA NothingLearned ==
    ASSUME TypeOK, DataInv, NEW c \in Call, UNCHANGED <<files, entry, found>>,
           NEW l \in Locations \ {"append", "rewrite", "clear", "decide", "prepare", "journal",
                                  "audit", "promote", "forget"},
           Goto(c, l), dead' = dead
    PROVE  \A d \in Call \ dead' : Knows(d)'
<1> SUFFICES ASSUME NEW d \in Call \ dead PROVE Knows(d)'
  OBVIOUS
<1>1. Knows(d)
  BY DEF DataInv
<1>2. CASE d = c
  <2>1. pc'[d] = l
    BY <1>2 DEF TypeOK, Goto
  <2> QED BY <2>1 DEF Knows
<1>3. CASE d # c
  <2>1. pc'[d] = pc[d]
    BY <1>3 DEF TypeOK, Goto
  <2> QED BY <1>1, <2>1 DEF Knows, Fits, Now, Tip, Logged, LastLogged, files
<1> QED BY <1>2, <1>3

(* Files that stay as they are agree as they did.                           *)
LEMMA FilesStay ==
    ASSUME DataInv, UNCHANGED <<passport, audit, journal>>
    PROVE  FilesAgree' /\ AuditIsOneHistory' /\ OneEntryPerCommand'
BY DEF DataInv, FilesAgree, AuditIsOneHistory, OneEntryPerCommand, Fits, Now, Tip, Logged,
       LastLogged

(* What was answered stays true while the audit log only grows.             *)
LEMMA AnswersStay ==
    ASSUME TypeOK, DataInv, UNCHANGED answer,
           \/ audit' = audit
           \/ \E e \in Entry : audit' = Append(audit, e)
    PROVE  AnswersAreTrue' /\ RepairsNeverConflict'
<1>1. \A i \in 1..Len(audit) : i \in 1..Len(audit') /\ audit'[i] = audit[i]
  BY DEF TypeOK
<1> QED BY <1>1 DEF DataInv, AnswersAreTrue, RepairsNeverConflict

LEMMA AnswerStays ==
    ASSUME TypeOK, DataInv, NEW c \in Call, NEW a \in Answers, Answer(c, a),
           audit' = audit,
           a \notin {"committed", "idempotent", "repair_conflict", "disagreement"}
    PROVE  AnswersAreTrue' /\ RepairsNeverConflict'
<1>1. \A d \in Call : answer'[d] = IF d = c THEN a ELSE answer[d]
  BY DEF TypeOK, Answer
<1> QED BY <1>1 DEF DataInv, AnswersAreTrue, RepairsNeverConflict, Call

(* An entry that fits continues the history, and is its last.               *)
LEMMA FitsContinues ==
    ASSUME TypeOK, AuditIsOneHistory, OneEntryPerCommand, NEW e \in Entry, Fits(e),
           audit' = Append(audit, e)
    PROVE  /\ AuditIsOneHistory' /\ OneEntryPerCommand'
           /\ audit' # << >> /\ audit'[Len(audit')] = e
           /\ Len(audit') \in 1..Len(audit')
<1> DEFINE n == Len(audit)
<1>1. /\ n \in Nat /\ Len(audit') = n + 1 /\ audit'[n + 1] = e
      /\ \A i \in 1..n : audit'[i] = audit[i]
      /\ audit # << >> <=> n > 0
      /\ audit' # << >>
  BY DEF TypeOK
<1>2. e.before = (IF n = 0 THEN Start ELSE audit[n].after)
  BY <1>1 DEF Fits, Now, Tip
<1>3. e.prev = (IF n = 0 THEN None ELSE audit[n].after)
  BY <1>1 DEF Fits, Tip
<1>4. AuditIsOneHistory'
  <2> SUFFICES ASSUME NEW i \in 1..(n + 1)
               PROVE  /\ audit'[i].before = IF i = 1 THEN Start ELSE audit'[i - 1].after
                      /\ audit'[i].prev = IF i = 1 THEN None ELSE audit'[i - 1].after
    BY <1>1 DEF AuditIsOneHistory
  <2>1. CASE i \in 1..n
    BY <1>1, <2>1 DEF AuditIsOneHistory
  <2>2. CASE i = n + 1
    BY <1>1, <1>2, <1>3, <2>2
  <2> QED BY <1>1, <2>1, <2>2
<1>5. OneEntryPerCommand'
  BY <1>1 DEF OneEntryPerCommand, Fits
<1> QED BY <1>1, <1>4, <1>5

(* A logged entry is the last one or has a successor of another command.    *)
LEMMA LastIsLogged ==
    ASSUME TypeOK, NEW e, LastLogged(e)
    PROVE  Logged(e) /\ Now = e.after /\ Tip = e.after
BY DEF TypeOK, LastLogged, Logged, Now, Tip

(* No repair finds a journal it cannot complete.                            *)
LEMMA NoConflict ==
    ASSUME DataInv, journal # NoEntry
    PROVE  ~RepairConflict
BY DEF DataInv, FilesAgree, RepairConflict, Fits

-----------------------------------------------------------------------------
(* One lemma for each kind of step.                                         *)

LEMMA LocksKeepTheFiles ==
    ASSUME TypeOK, DataInv, NEW c \in Call,
           Locks(c) \/ TimesOut(c) \/ StampFails(c) \/ Load(c)
    PROVE  DataInv'
<1>1. UNCHANGED <<files, entry, found>> /\ dead' = dead
  BY DEF Locks, Acquire, Stamp, Contend, Judge, Unlink, Drop, Release, Unlock, TimesOut,
         StampFails, Load, Answer, locals
<1>2. \E l \in Locations \ {"append", "rewrite", "clear", "decide", "prepare", "journal",
                            "audit", "promote", "forget"} : Goto(c, l)
  <2>1. CASE Acquire(c) \/ Stamp(c) \/ Contend(c) \/ Judge(c)
    BY <2>1 DEF Acquire, Stamp, Contend, Judge, Locations
  <2>2. CASE Unlink(c) \/ Drop(c) \/ Release(c) \/ Unlock(c)
    BY <2>2 DEF Unlink, Drop, Release, Unlock, Locations
  <2>3. CASE TimesOut(c) \/ StampFails(c) \/ Load(c)
    BY <2>3 DEF TimesOut, StampFails, Load, Answer, Locations
  <2> QED BY <2>1, <2>2, <2>3 DEF Locks
<1>3. \A d \in Call \ dead' : Knows(d)'
  BY <1>1, <1>2, NothingLearned
<1>4. AnswersAreTrue' /\ RepairsNeverConflict'
  <2>1. CASE UNCHANGED answer
    BY <1>1, <2>1, AnswersStay DEF files
  <2>2. CASE ~UNCHANGED answer
    <3>1. \E a \in {"timeout", "error", "no_pending"} : answer' = [answer EXCEPT ![c] = a]
      BY <2>2 DEF Locks, Acquire, Stamp, Contend, Judge, Unlink, Drop, Release, Unlock,
                  TimesOut, StampFails, Load, Answer, locals
    <3>2. PICK a \in {"timeout", "error", "no_pending"} : answer' = [answer EXCEPT ![c] = a]
      BY <3>1
    <3>3. \A d \in Call : answer'[d] = IF d = c THEN a ELSE answer[d]
      BY <3>2 DEF TypeOK
    <3> QED BY <1>1, <3>3 DEF DataInv, AnswersAreTrue, RepairsNeverConflict, Call, files
  <2> QED BY <2>1, <2>2
<1> QED BY <1>1, <1>3, <1>4, FilesStay DEF DataInv, files

LEMMA DiesData ==
    ASSUME TypeOK, LockInv, DataInv, NEW c \in Call, Die(c)
    PROVE  DataInv'
<1>1. UNCHANGED <<passport, audit, journal, temps, pc, found, entry, answer>>
      /\ dead' = dead \cup {c} /\ c \notin dead
  BY DEF Die, locals
<1>2. \A d \in Call \ dead' : Knows(d)'
  <2>1. CASE pc[c] \in {"append", "audit"}
    <3>1. pc[c] \in Holding
      BY <2>1 DEF Holding
    <3> QED BY <1>1, <3>1, OthersKnow DEF TypeOK
  <2>2. CASE pc[c] \notin {"append", "audit"}
    <3>1. torn' = torn
      BY <2>2 DEF Die, TypeOK
    <3> QED BY <1>1, <3>1 DEF DataInv, Knows, Fits, Now, Tip, Logged, LastLogged
  <2> QED BY <2>1, <2>2
<1> QED BY <1>1, <1>2, FilesStay, AnswersStay DEF DataInv

LEMMA FailsData ==
    ASSUME TypeOK, LockInv, DataInv, NEW c \in Call, Fail(c)
    PROVE  DataInv'
<1>1. UNCHANGED <<passport, audit, journal, dead>> /\ Goto(c, "release")
      /\ c \in Call \ dead /\ pc[c] \in Holding
  BY DEF Fail, Answer
<1>2. Knows(c)'
  BY <1>1 DEF TypeOK, Goto, Knows
<1>3. \A d \in Call \ dead' : Knows(d)'
  BY <1>1, <1>2, OthersKnow DEF Locations
<1>4. AnswersAreTrue' /\ RepairsNeverConflict'
  BY <1>1, AnswerStays DEF Fail, Answers
<1> QED BY <1>1, <1>3, <1>4, FilesStay DEF DataInv

LEMMA ChecksData ==
    ASSUME TypeOK, LockInv, DataInv, NEW c \in Call, CheckJournal(c)
    PROVE  DataInv'
<1>1. UNCHANGED <<passport, audit, journal, dead, answer>>
      /\ c \in Call \ dead /\ pc[c] \in Holding
  BY DEF CheckJournal, At, Holding, files, locals
<1>2. \E l \in {"decide", "repair"} :
         Goto(c, l) /\ (l = "decide" => journal = NoEntry /\ c \in Committer)
  BY DEF CheckJournal
<1>3. PICK l \in {"decide", "repair"} :
         Goto(c, l) /\ (l = "decide" => journal = NoEntry /\ c \in Committer)
  BY <1>2
<1>4. pc'[c] = l
  BY <1>3 DEF TypeOK, Goto
<1>5. Knows(c)'
  BY <1>1, <1>3, <1>4 DEF Knows
<1>6. \A d \in Call \ dead' : Knows(d)'
  BY <1>1, <1>3, <1>5, OthersKnow DEF Locations
<1> QED BY <1>1, <1>6, FilesStay, AnswersStay DEF DataInv

(* A repair goes on from where the journal was left.                        *)
LEMMA RepairsData ==
    ASSUME TypeOK, LockInv, DataInv, NEW c \in Call, Repair(c)
    PROVE  DataInv'
<1>1. UNCHANGED <<files, dead>> /\ c \in Call \ dead /\ pc[c] \in Holding
  BY DEF Repair, At, Holding
<1>2. ASSUME NEW a \in {"no_pending", "unreadable"}, Answer(c, a)
      PROVE  DataInv'
  <2>1. Knows(c)'
    BY <1>2 DEF TypeOK, Answer, Goto, Knows
  <2>2. Goto(c, "release")
    BY <1>2 DEF Answer
  <2>3. \A d \in Call \ dead' : Knows(d)'
    BY <1>1, <2>1, <2>2, OthersKnow DEF Locations
  <2>4. AnswersAreTrue' /\ RepairsNeverConflict'
    BY <1>1, <1>2, AnswerStays DEF Answers, files
  <2> QED BY <1>1, <2>3, <2>4, FilesStay DEF DataInv, files
<1>3. CASE journal = NoEntry /\ c \in Committer /\ Goto(c, "decide") /\ UNCHANGED locals
  <2>1. Knows(c)'
    BY <1>1, <1>3 DEF TypeOK, Goto, Knows, files
  <2>2. \A d \in Call \ dead' : Knows(d)'
    BY <1>1, <1>3, <2>1, OthersKnow DEF Locations
  <2> QED BY <1>1, <1>3, <2>2, FilesStay, AnswersStay DEF DataInv, files, locals
<1>4. CASE /\ journal # NoEntry /\ ~torn
           /\ found' = [found EXCEPT ![c] = passport]
           /\ entry' = [entry EXCEPT ![c] = journal]
           /\ Goto(c, IF ~Logged(journal) THEN "append"
                      ELSE IF LastLogged(journal) /\ passport # journal.after THEN "rewrite"
                      ELSE "clear")
           /\ UNCHANGED <<before, answer>>
  <2>1. entry'[c] = journal /\ found'[c] = passport /\ journal \in Entry
    BY <1>4 DEF TypeOK
  <2>2. Logged(journal) => LastLogged(journal)
    BY <1>4 DEF DataInv, FilesAgree
  <2>3. PICK l \in {"append", "rewrite", "clear"} :
           /\ Goto(c, l)
           /\ l = "append" => ~Logged(journal)
           /\ l # "append" => Logged(journal)
           /\ l = "clear" => passport = journal.after
    BY <1>4, <2>2
  <2>4. pc'[c] = l
    BY <2>3 DEF TypeOK, Goto
  <2>5. Knows(c)'
    BY <1>1, <1>4, <2>1, <2>2, <2>3, <2>4 DEF Knows, Logged, LastLogged, files
  <2>6. \A d \in Call \ dead' : Knows(d)'
    BY <1>1, <2>3, <2>5, OthersKnow DEF Locations
  <2> QED BY <1>1, <1>4, <2>6, FilesStay, AnswersStay DEF DataInv, files
<1> QED BY <1>2, <1>3, <1>4, NoConflict DEF Repair

(* The entry of the journal is appended, by the committer that wrote it or   *)
(* by a repair.                                                             *)
LEMMA AppendsData ==
    ASSUME TypeOK, LockInv, DataInv, NEW c \in Call, RepairAppend(c) \/ AppendAudit(c)
    PROVE  DataInv'
<1>1. /\ UNCHANGED <<passport, torn, journal, temps, entry, found, answer, dead>>
      /\ c \in Call \ dead /\ pc[c] \in Holding /\ AppendEntry(c)
  BY DEF RepairAppend, AppendAudit, At, Holding, locals
<1>2. /\ journal = entry[c] /\ entry[c] \in Entry /\ entry[c] # NoEntry
      /\ ~torn /\ ~Logged(entry[c])
  BY PassportAssumption DEF RepairAppend, AppendAudit, At, DataInv, Knows, Entry, NoEntry
<1>3. Fits(entry[c]) /\ passport = Now
  BY <1>2 DEF DataInv, FilesAgree
<1>4. audit' = Append(audit, entry[c])
  BY <1>1, <1>2 DEF AppendEntry
<1>5. /\ AuditIsOneHistory' /\ OneEntryPerCommand'
      /\ audit' # << >> /\ audit'[Len(audit')] = entry[c] /\ Len(audit') \in 1..Len(audit')
  BY <1>2, <1>3, <1>4, FitsContinues DEF DataInv
<1>6. LastLogged(entry[c])' /\ Logged(entry[c])'
  BY <1>1, <1>5 DEF LastLogged, Logged
<1>7. FilesAgree'
  BY <1>1, <1>2, <1>3, <1>6 DEF FilesAgree, Fits, Logged, LastLogged
<1>8. PICK l \in {"rewrite", "clear", "promote"} :
         /\ Goto(c, l)
         /\ l = "clear" => passport = entry[c].after
         /\ l = "promote" => pc[c] = "audit"
  BY <1>1 DEF RepairAppend, AppendAudit, At, DataInv, Knows
<1>9. pc'[c] = l
  BY <1>8 DEF TypeOK, Goto
<1>10. Knows(c)'
  BY <1>1, <1>2, <1>6, <1>8, <1>9 DEF DataInv, Knows
<1>11. \A d \in Call \ dead' : Knows(d)'
  BY <1>1, <1>8, <1>10, OthersKnow DEF Locations
<1> QED BY <1>1, <1>2, <1>4, <1>5, <1>7, <1>11, AnswersStay DEF DataInv

(* The passport becomes the one the journal and the last entry hold.        *)
LEMMA WritesData ==
    ASSUME TypeOK, LockInv, DataInv, NEW c \in Call, RepairWrite(c) \/ Promote(c)
    PROVE  DataInv'
<1>1. /\ UNCHANGED <<audit, torn, journal, entry, found, answer, dead>>
      /\ c \in Call \ dead /\ pc[c] \in Holding /\ passport' = entry[c].after
  BY DEF RepairWrite, Promote, At, Holding, locals
<1>2. /\ journal = entry[c] /\ entry[c] \in Entry /\ entry[c] # NoEntry
      /\ LastLogged(entry[c])
  BY PassportAssumption DEF RepairWrite, Promote, At, DataInv, Knows, Entry, NoEntry
<1>3. Logged(entry[c]) /\ Now = entry[c].after
  BY <1>2, LastIsLogged
<1>4. FilesAgree'
  BY <1>1, <1>2, <1>3 DEF FilesAgree, Logged, LastLogged
<1>5. PICK l \in {"clear", "forget"} : Goto(c, l) /\ (l = "forget" => pc[c] = "promote")
  BY DEF RepairWrite, Promote, At
<1>6. pc'[c] = l
  BY <1>5 DEF TypeOK, Goto
<1>7. Knows(c)'
  BY <1>1, <1>2, <1>5, <1>6 DEF DataInv, Knows, LastLogged
<1>8. \A d \in Call \ dead' : Knows(d)'
  BY <1>1, <1>5, <1>7, OthersKnow DEF Locations
<1>9. AuditIsOneHistory' /\ OneEntryPerCommand'
  BY <1>1 DEF DataInv, AuditIsOneHistory, OneEntryPerCommand
<1> QED BY <1>1, <1>4, <1>8, <1>9, AnswersStay DEF DataInv

(* The journal is cleared when the passport is the one the log ends with.    *)
LEMMA ClearsData ==
    ASSUME TypeOK, LockInv, DataInv, NEW c \in Call, RepairClear(c) \/ ClearJournal(c)
    PROVE  DataInv'
<1>1. /\ UNCHANGED <<passport, audit, torn, entry, found, dead>> /\ journal' = NoEntry
      /\ c \in Call \ dead /\ pc[c] \in Holding
  BY DEF RepairClear, ClearJournal, At, Answer, Holding, locals
<1>2. LastLogged(entry[c]) /\ passport = entry[c].after
  BY DEF RepairClear, ClearJournal, At, DataInv, Knows
<1>3. passport = Now /\ Logged(entry[c])
  BY <1>2, LastIsLogged
<1>4. FilesAgree'
  BY <1>1, <1>3 DEF FilesAgree, Now, Tip
<1>5. AuditIsOneHistory' /\ OneEntryPerCommand'
  BY <1>1 DEF DataInv, AuditIsOneHistory, OneEntryPerCommand
<1>6. PICK l \in {"decide", "release"} : Goto(c, l) /\ (l = "decide" => c \in Committer)
  BY DEF RepairClear, ClearJournal, Answer
<1>7. pc'[c] = l
  BY <1>6 DEF TypeOK, Goto
<1>8. Knows(c)'
  BY <1>1, <1>6, <1>7 DEF Knows
<1>9. \A d \in Call \ dead' : Knows(d)'
  BY <1>1, <1>6, <1>8, OthersKnow DEF Locations
<1>10. AnswersAreTrue' /\ RepairsNeverConflict'
  <2>1. CASE UNCHANGED answer
    BY <1>1, <2>1, AnswersStay
  <2>2. CASE Answer(c, "completed")
    BY <1>1, <2>2, AnswerStays DEF Answers
  <2>3. CASE Answer(c, "committed") /\ At(c, "forget")
    <3>1. \A d \in Call : answer'[d] = IF d = c THEN "committed" ELSE answer[d]
      BY <2>3 DEF TypeOK, Answer
    <3>2. entry[c].command = CommandOf[c] /\ entry[c].after = AfterOf[c]
      BY <2>3 DEF At, DataInv, Knows
    <3>3. \E i \in 1..Len(audit) :
             audit[i].command = CommandOf[c] /\ audit[i].after = AfterOf[c]
      BY <1>3, <3>2 DEF Logged
    <3> QED BY <1>1, <3>1, <3>3 DEF DataInv, AnswersAreTrue, RepairsNeverConflict, Call
  <2> QED BY <2>1, <2>2, <2>3 DEF RepairClear, ClearJournal, locals
<1> QED BY <1>1, <1>4, <1>5, <1>9, <1>10 DEF DataInv

(* An attempt of a command that is entered finds its one entry.             *)
LEMMA PriorIsTheEntry ==
    ASSUME TypeOK, OneEntryPerCommand, NEW c \in Committer, Seen(c)
    PROVE  Prior(c) \in 1..Len(audit) /\ audit[Prior(c)].command = CommandOf[c]
<1> DEFINE First(i) == /\ audit[i].command = CommandOf[c]
                       /\ \A j \in 1..(i - 1) : audit[j].command # CommandOf[c]
<1>1. PICK i \in 1..Len(audit) : audit[i].command = CommandOf[c]
  BY DEF Seen
<1>2. ASSUME NEW j \in 1..(i - 1), audit[j].command = CommandOf[c]
      PROVE  FALSE
  <2>1. j \in 1..Len(audit) /\ j # i
    BY DEF TypeOK
  <2> QED BY <1>1, <1>2, <2>1 DEF OneEntryPerCommand
<1>3. \E k \in 1..Len(audit) : First(k)
  BY <1>1, <1>2
<1>4. Prior(c) = CHOOSE k \in 1..Len(audit) : First(k)
  BY DEF Prior
<1>5. Prior(c) \in 1..Len(audit) /\ First(Prior(c))
  BY <1>3, <1>4
<1> QED BY <1>5

LEMMA DecidesData ==
    ASSUME TypeOK, LockInv, DataInv, NEW c \in Call, Decide(c)
    PROVE  DataInv'
<1>1. /\ UNCHANGED <<files, dead>> /\ c \in Call \ dead /\ pc[c] \in Holding
      /\ journal = NoEntry /\ c \in Committer /\ passport = Now
  BY DEF Decide, At, Holding, DataInv, Knows, FilesAgree
<1>2. ASSUME NEW a \in Answers, Answer(c, a), AnswersAreTrue' /\ RepairsNeverConflict'
      PROVE  DataInv'
  <2>1. Knows(c)'
    BY <1>2 DEF TypeOK, Answer, Goto, Knows
  <2>2. Goto(c, "release")
    BY <1>2 DEF Answer
  <2>3. \A d \in Call \ dead' : Knows(d)'
    BY <1>1, <2>1, <2>2, OthersKnow DEF Locations
  <2> QED BY <1>1, <1>2, <2>3, FilesStay DEF DataInv, files
<1>3. ASSUME NEW a \in {"unreadable", "conflict", "version_conflict"}, Answer(c, a)
      PROVE  DataInv'
  BY <1>1, <1>2, <1>3, AnswerStays DEF Answers, files
<1>4. CASE audit # << >> /\ Tip # passport
  BY <1>1, <1>4 DEF Now
<1>5. CASE Seen(c) /\ ~Differs(c) /\ Answer(c, "idempotent")
  <2>1. Prior(c) \in 1..Len(audit) /\ audit[Prior(c)].command = CommandOf[c]
        /\ audit[Prior(c)].after = AfterOf[c]
    BY <1>1, <1>5, PriorIsTheEntry DEF DataInv, Differs
  <2>2. \A d \in Call : answer'[d] = IF d = c THEN "idempotent" ELSE answer[d]
    BY <1>5 DEF TypeOK, Answer
  <2>3. AnswersAreTrue' /\ RepairsNeverConflict'
    BY <1>1, <2>1, <2>2 DEF DataInv, AnswersAreTrue, RepairsNeverConflict, Call, files
  <2> QED BY <1>2, <1>5, <2>3 DEF Answers
<1>6. CASE /\ ~torn /\ ~Seen(c) /\ passport = before[c]
           /\ entry' = [entry EXCEPT ![c] = NewEntry(c)]
           /\ found' = [found EXCEPT ![c] = passport]
           /\ Goto(c, "prepare")
           /\ UNCHANGED <<before, answer>>
  <2>1. entry'[c] = NewEntry(c) /\ NewEntry(c) \in Entry
    BY <1>1, <1>6, NewEntryTyped DEF TypeOK
  <2>2. Fits(NewEntry(c))
    BY <1>1, <1>6 DEF Fits, NewEntry, Seen
  <2>3. pc'[c] = "prepare"
    BY <1>6 DEF TypeOK, Goto
  <2>4. Knows(c)'
    BY <1>1, <1>6, <2>1, <2>2, <2>3 DEF Knows, Fits, Now, Tip, NewEntry, files
  <2>5. \A d \in Call \ dead' : Knows(d)'
    BY <1>1, <1>6, <2>4, OthersKnow DEF Locations
  <2> QED BY <1>1, <1>6, <2>5, FilesStay, AnswersStay DEF DataInv, files
<1> QED BY <1>3, <1>4, <1>5, <1>6 DEF Decide

LEMMA PreparesData ==
    ASSUME TypeOK, LockInv, DataInv, NEW c \in Call, Prepare(c)
    PROVE  DataInv'
<1>1. /\ UNCHANGED <<passport, audit, torn, journal, entry, found, answer, dead>>
      /\ c \in Call \ dead /\ pc[c] \in Holding /\ c \in temps' /\ Goto(c, "journal")
  BY DEF Prepare, At, Holding, locals
<1>2. pc'[c] = "journal" /\ pc[c] = "prepare"
  BY <1>1 DEF TypeOK, Goto, Prepare, At
<1>3. Knows(c)'
  BY <1>1, <1>2 DEF DataInv, Knows, Fits, Now, Tip
<1>4. \A d \in Call \ dead' : Knows(d)'
  BY <1>1, <1>3, OthersKnow DEF Locations
<1> QED BY <1>1, <1>4, FilesStay, AnswersStay DEF DataInv

LEMMA JournalsData ==
    ASSUME TypeOK, LockInv, DataInv, NEW c \in Call, WriteJournal(c)
    PROVE  DataInv'
<1>1. /\ UNCHANGED <<passport, audit, torn, temps, entry, found, answer, dead>>
      /\ c \in Call \ dead /\ pc[c] \in Holding /\ journal' = entry[c] /\ Goto(c, "audit")
  BY DEF WriteJournal, At, Holding, locals
<1>2. pc'[c] = "audit" /\ pc[c] = "journal"
  BY <1>1 DEF TypeOK, Goto, WriteJournal, At
<1>3. entry[c] \in Entry /\ Fits(entry[c]) /\ passport = Now
  BY <1>1, <1>2 DEF DataInv, Knows, FilesAgree
<1>4. ~Logged(entry[c])
  BY <1>3 DEF Fits, Logged
<1>5. FilesAgree'
  BY <1>1, <1>3, <1>4 DEF FilesAgree, Fits, Now, Tip, Logged
<1>6. Knows(c)'
  BY <1>1, <1>2, <1>3, <1>4 DEF DataInv, Knows, Logged
<1>7. \A d \in Call \ dead' : Knows(d)'
  BY <1>1, <1>6, OthersKnow DEF Locations
<1>8. AuditIsOneHistory' /\ OneEntryPerCommand'
  BY <1>1 DEF DataInv, AuditIsOneHistory, OneEntryPerCommand
<1> QED BY <1>1, <1>5, <1>7, <1>8, AnswersStay DEF DataInv

LEMMA DataKept ==
    ASSUME TypeOK, LockInv, DataInv, [Next]_vars
    PROVE  DataInv'
<1>1. CASE UNCHANGED vars
  <2>1. UNCHANGED <<passport, audit, journal, torn, temps, pc, entry, found, answer, dead>>
    BY <1>1 DEF vars, files, locals
  <2>2. \A d \in Call \ dead' : Knows(d)'
    BY <2>1 DEF DataInv, Knows, Fits, Now, Tip, Logged, LastLogged
  <2> QED BY <2>1, <2>2, FilesStay, AnswersStay DEF DataInv
<1>2. ASSUME NEW c \in Call, Works(c) PROVE DataInv'
  BY <1>2, LocksKeepTheFiles, ChecksData, RepairsData, AppendsData, WritesData, ClearsData,
     DecidesData, PreparesData, JournalsData, FailsData DEF Works
<1> QED BY <1>1, <1>2, LocksKeepTheFiles, DiesData DEF Next, Steps, Deaths

-----------------------------------------------------------------------------
(* What the runs check, for every value of the constants.                   *)

(* The strengthened invariant holds of every behaviour.                     *)
THEOREM Invariant == Spec => []IInv
<1>1. Init => IInv
  <2> SUFFICES ASSUME Init PROVE IInv
    OBVIOUS
  <2>1. TypeOK
    <3>1. audit \in Seq(Entry) /\ passport \in Version \cup {None}
      BY PassportAssumption DEF Init
    <3>2. /\ pc \in [Call -> Locations]
          /\ before \in [Call -> Version \cup {None}]
          /\ found \in [Call -> Version \cup {None}]
          /\ entry \in [Call -> Entry \cup {NoEntry}]
          /\ answer \in [Call -> Answers]
      BY DEF Init, Locations, Answers
    <3> QED BY <3>1, <3>2 DEF Init, TypeOK
  <2>2. LockInv
    BY DEF Init, LockInv, Holding
  <2>3. FilesAgree
    BY DEF Init, FilesAgree, Now
  <2>4. AuditIsOneHistory /\ OneEntryPerCommand /\ AnswersAreTrue /\ RepairsNeverConflict
    BY DEF Init, AuditIsOneHistory, OneEntryPerCommand, AnswersAreTrue, RepairsNeverConflict,
           Call
  <2>5. \A c \in Call \ dead : Knows(c)
    BY DEF Init, Knows
  <2> QED BY <2>1, <2>2, <2>3, <2>4, <2>5 DEF IInv, DataInv
<1>2. IInv /\ [Next]_vars => IInv'
  BY TypesKept, LockKept, DataKept DEF IInv
<1> QED BY <1>1, <1>2, PTL DEF Spec

(* Every variable keeps its type, whatever is in the files.                 *)
THEOREM Typed == Spec => []TypeOK
<1>1. IInv => TypeOK
  BY DEF IInv
<1> QED BY <1>1, Invariant, PTL

(* withPassportLock: two live calls are never under the lock at once.       *)
THEOREM Excluded == Spec => []MutualExclusion
<1>1. IInv => MutualExclusion
  BY Alone DEF IInv, MutualExclusion
<1> QED BY <1>1, Invariant, PTL

(* commitPassportTransaction: the audit log is one history of the passport. *)
THEOREM OneHistory == Spec => []AuditIsOneHistory
<1>1. IInv => AuditIsOneHistory
  BY DEF IInv, DataInv
<1> QED BY <1>1, Invariant, PTL

(* commandMarker: whoever completes it, a command is entered once.          *)
THEOREM EnteredOnce == Spec => []OneEntryPerCommand
<1>1. IInv => OneEntryPerCommand
  BY DEF IInv, DataInv
<1> QED BY <1>1, Invariant, PTL

(* The passport is never ahead of the audit log, and behind it only by the  *)
(* entry that the journal holds.                                            *)
THEOREM Agreement == Spec => []PassportAgrees
<1>1. IInv => PassportAgrees
  <2> SUFFICES ASSUME IInv PROVE PassportAgrees
    OBVIOUS
  <2>1. CASE journal = NoEntry \/ ~Logged(journal)
    BY <2>1 DEF IInv, DataInv, FilesAgree, PassportAgrees, Now
  <2>2. CASE journal # NoEntry /\ Logged(journal)
    <3>1. LastLogged(journal) /\ passport \in {journal.before, journal.after}
      BY <2>2 DEF IInv, DataInv, FilesAgree
    <3>2. Now = journal.after
      BY <3>1, LastIsLogged DEF IInv
    <3> QED BY <3>1, <3>2 DEF PassportAgrees, Now
  <2> QED BY <2>1, <2>2
<1> QED BY <1>1, Invariant, PTL

(* A caller that was told its command is committed finds it entered.        *)
THEOREM TrueAnswers == Spec => []AnswersAreTrue
<1>1. IInv => AnswersAreTrue
  BY DEF IInv, DataInv
<1> QED BY <1>1, Invariant, PTL

(* repairPendingCommitUnlocked: wherever a process died, what it left can be *)
(* completed.                                                               *)
THEOREM Repairable == Spec => []RepairsNeverConflict
<1>1. IInv => RepairsNeverConflict
  BY DEF IInv, DataInv
<1> QED BY <1>1, Invariant, PTL

(* cleanupPreparedTemps: a repair removes no file that a live call needs.   *)
THEOREM FilesKept == Spec => []PreparedFilesStay
<1>1. IInv => PreparedFilesStay
  BY DEF IInv, DataInv, Knows, PreparedFilesStay
<1> QED BY <1>1, Invariant, PTL

-----------------------------------------------------------------------------
(* The refinement: the journal's entry counts from when it is written.      *)

(* A call is answered once.                                                 *)
Unanswered ==
    \A c \in Call : pc[c] \notin {"release", "unlock", "done"} => answer[c] = "none"

LEMMA AnsweredOnce == Spec => []Unanswered
<1>1. Init => Unanswered
  BY DEF Init, Unanswered
<1>2. TypeOK /\ Unanswered /\ [Next]_vars => Unanswered'
  <2> SUFFICES ASSUME TypeOK, Unanswered, [Next]_vars PROVE Unanswered'
    OBVIOUS
  <2>1. ASSUME NEW c \in Call, NEW l \in Locations, Goto(c, l), UNCHANGED answer,
               \/ pc[c] \notin {"release", "unlock", "done"}
               \/ l \in {"release", "unlock", "done"}
        PROVE  Unanswered'
    BY <2>1 DEF TypeOK, Unanswered, Goto
  <2>2. ASSUME NEW c \in Call, NEW a, NEW l \in {"release", "done"}, Goto(c, l),
               answer' = [answer EXCEPT ![c] = a]
        PROVE  Unanswered'
    BY <2>2 DEF TypeOK, Unanswered, Goto
  <2>3. ASSUME NEW c \in Call, NEW a, Answer(c, a) PROVE Unanswered'
    BY <2>2, <2>3 DEF Answer
  <2>4. CASE UNCHANGED vars
    BY <2>4 DEF vars, Unanswered, locals
  <2>5. ASSUME NEW c \in Call, Die(c) PROVE Unanswered'
    BY <2>5 DEF Die, Unanswered, locals
  <2>6. ASSUME NEW c \in Call, TimesOut(c) \/ StampFails(c) PROVE Unanswered'
    BY <2>2, <2>3, <2>6 DEF TimesOut, StampFails
  <2>7. ASSUME NEW c \in Call, Locks(c) PROVE Unanswered'
    <3>1. \E l \in Locations :
             Goto(c, l) /\ (\/ pc[c] \notin {"release", "unlock", "done"}
                            \/ l \in {"release", "unlock", "done"})
      BY <2>7 DEF Locks, Acquire, Stamp, Contend, Judge, Unlink, Drop, Release, Unlock, At,
                  Locations
    <3>2. UNCHANGED answer
      BY <2>7 DEF Locks, Acquire, Stamp, Contend, Judge, Unlink, Drop, Release, Unlock, locals
    <3> QED BY <2>1, <3>1, <3>2
  <2>8. ASSUME NEW c \in Call, Works(c) PROVE Unanswered'
    <3>1. CASE Load(c)
      BY <2>1, <2>2, <3>1 DEF Load, At, Locations
    <3>2. CASE CheckJournal(c) \/ RepairAppend(c) \/ RepairWrite(c) \/ Prepare(c)
      BY <2>1, <3>2 DEF CheckJournal, RepairAppend, RepairWrite, Prepare, At, Locations, locals
    <3>3. CASE WriteJournal(c) \/ AppendAudit(c) \/ Promote(c)
      BY <2>1, <3>3 DEF WriteJournal, AppendAudit, Promote, At, Locations, locals
    <3>4. CASE Repair(c)
      BY <2>1, <2>3, <3>4 DEF Repair, At, Locations, locals
    <3>5. CASE Decide(c)
      BY <2>1, <2>3, <3>5 DEF Decide, At, Locations, locals
    <3>6. CASE RepairClear(c) \/ ClearJournal(c) \/ Fail(c)
      BY <2>1, <2>3, <3>6 DEF RepairClear, ClearJournal, Fail, At, Locations, locals
    <3> QED BY <2>8, <3>1, <3>2, <3>3, <3>4, <3>5, <3>6 DEF Works
  <2> QED BY <2>4, <2>5, <2>6, <2>7, <2>8 DEF Next, Steps, Deaths
<1> QED BY <1>1, <1>2, Typed, PTL DEF Spec

Confirmed == {c \in Committer : answer[c] \in {"committed", "idempotent"}}

(* A step that touches neither the log nor the journal, and confirms nobody. *)
LEMMA LedgerStutters ==
    ASSUME UNCHANGED <<audit, journal>>, Confirmed' = Confirmed
    PROVE  UNCHANGED Ledger!vars
BY DEF Ledger!vars, History, Logged, Confirmed

LEMMA NobodyConfirmed ==
    ASSUME TypeOK, Unanswered, NEW c \in Call, NEW a,
           answer' = [answer EXCEPT ![c] = a],
           a \notin {"committed", "idempotent"},
           pc[c] \notin {"release", "unlock", "done"}
    PROVE  Confirmed' = Confirmed
BY DEF TypeOK, Unanswered, Confirmed, Call

LEMMA OneConfirmed ==
    ASSUME TypeOK, NEW c \in Committer, NEW a \in {"committed", "idempotent"},
           answer' = [answer EXCEPT ![c] = a]
    PROVE  Confirmed' = Confirmed \cup {c}
BY DEF TypeOK, Confirmed, Call

(* Appending the journal's entry makes it what the history already was.     *)
LEMMA HistoryAppended ==
    ASSUME TypeOK, journal \in Entry, ~Logged(journal), journal # NoEntry,
           audit' = Append(audit, journal), journal' = journal
    PROVE  History' = History
<1>1. audit'[Len(audit')] = journal /\ Len(audit') \in 1..Len(audit')
  BY DEF TypeOK
<1>2. Logged(journal)'
  BY <1>1 DEF Logged
<1> QED BY <1>2 DEF History

LEMMA StepsRefine ==
    ASSUME IInv, Unanswered, [Next]_vars
    PROVE  [Ledger!Next]_(Ledger!vars)
<1> USE DEF IInv
<1>1. CASE UNCHANGED vars
  BY <1>1, LedgerStutters DEF vars, files, locals, Confirmed
<1>2. ASSUME NEW c \in Call, Die(c) PROVE UNCHANGED Ledger!vars
  BY <1>2, LedgerStutters DEF Die, locals, Confirmed
<1>3. ASSUME NEW c \in Call, Locks(c) PROVE UNCHANGED Ledger!vars
  BY <1>3, LedgerStutters
     DEF Locks, Acquire, Stamp, Contend, Judge, Unlink, Drop, Release, Unlock, files, locals,
         Confirmed
<1>4. ASSUME NEW c \in Call, TimesOut(c) \/ StampFails(c) PROVE UNCHANGED Ledger!vars
  <2>1. UNCHANGED <<audit, journal>>
    BY <1>4 DEF TimesOut, StampFails, files
  <2>2. Confirmed' = Confirmed
    BY <1>4, NobodyConfirmed DEF TimesOut, StampFails, Answer, At
  <2> QED BY <2>1, <2>2, LedgerStutters
<1>5. ASSUME NEW c \in Call, Works(c) PROVE Ledger!Next \/ UNCHANGED Ledger!vars
  <2>1. CASE Load(c) \/ CheckJournal(c) \/ Repair(c)
    <3>1. UNCHANGED <<audit, journal>>
      BY <2>1 DEF Load, CheckJournal, Repair, files
    <3>2. Confirmed' = Confirmed
      <4>1. CASE UNCHANGED answer
        BY <4>1 DEF Confirmed
      <4>2. CASE \E a \in {"no_pending", "unreadable", "repair_conflict"} :
                   answer' = [answer EXCEPT ![c] = a]
        BY <2>1, <4>2, NobodyConfirmed DEF Load, CheckJournal, Repair, At
      <4> QED BY <2>1, <4>1, <4>2 DEF Load, CheckJournal, Repair, Answer, locals
    <3> QED BY <3>1, <3>2, LedgerStutters
  <2>2. CASE RepairWrite(c) \/ Promote(c) \/ Prepare(c)
    BY <2>2, LedgerStutters DEF RepairWrite, Promote, Prepare, locals, Confirmed
  <2>3. CASE RepairAppend(c) \/ AppendAudit(c)
    <3>1. journal = entry[c] /\ entry[c] \in Entry /\ ~Logged(entry[c]) /\ ~torn
      BY <2>3 DEF DataInv, Knows, RepairAppend, AppendAudit, At
    <3>2. journal # NoEntry
      BY <3>1, PassportAssumption DEF Entry, NoEntry
    <3>3. audit' = Append(audit, journal) /\ journal' = journal
      BY <2>3, <3>1 DEF RepairAppend, AppendAudit, AppendEntry
    <3>4. Confirmed' = Confirmed
      BY <2>3 DEF RepairAppend, AppendAudit, Confirmed, locals
    <3> QED BY <3>1, <3>2, <3>3, <3>4, HistoryAppended DEF Ledger!vars, Confirmed
  <2>4. CASE RepairClear(c) \/ ClearJournal(c)
    <3>1. LastLogged(entry[c]) /\ journal = entry[c]
      BY <2>4 DEF RepairClear, ClearJournal, At, DataInv, Knows
    <3>2. Logged(entry[c])
      BY <3>1, LastIsLogged
    <3>3. History' = History /\ History = audit
      BY <2>4, <3>1, <3>2 DEF RepairClear, ClearJournal, History
    <3>4. CASE RepairClear(c)
      <4>1. Confirmed' = Confirmed
        BY <3>4, NobodyConfirmed DEF RepairClear, At, Answer, Confirmed, locals
      <4> QED BY <3>3, <4>1 DEF Ledger!vars, Confirmed
    <3>5. CASE ClearJournal(c)
      <4>1. c \in Committer /\ entry[c].command = CommandOf[c] /\ entry[c].after = AfterOf[c]
        BY <3>5 DEF ClearJournal, At, DataInv, Knows
      <4>2. Confirmed' = Confirmed \cup {c}
        BY <3>5, <4>1, OneConfirmed DEF ClearJournal, Answer
      <4>3. Ledger!Entered(c)
        BY <3>2, <3>3, <4>1 DEF Ledger!Entered, Logged
      <4> QED BY <3>3, <4>1, <4>2, <4>3 DEF Ledger!Next, Ledger!Confirm, Confirmed
    <3> QED BY <2>4, <3>4, <3>5
  <2>5. CASE WriteJournal(c)
    <3>1. /\ journal = NoEntry /\ journal' = entry[c] /\ audit' = audit
          /\ entry[c] \in Entry /\ Fits(entry[c])
      BY <2>5 DEF WriteJournal, At, DataInv, Knows
    <3>2. entry[c] # NoEntry
      BY <3>1, PassportAssumption DEF Entry, NoEntry
    <3>3. ~Logged(entry[c])
      BY <3>1 DEF Fits, Logged
    <3>4. History = audit /\ History' = Append(audit, entry[c])
      BY <3>1, <3>2, <3>3 DEF History, Logged
    <3>5. Confirmed' = Confirmed
      BY <2>5 DEF WriteJournal, Confirmed, locals
    <3>6. Ledger!Extend(entry[c])
      BY <3>1, <3>4, <3>5 DEF Ledger!Extend, Ledger!Current, Fits, Now, Tip, Confirmed
    <3> QED BY <3>1, <3>6 DEF Ledger!Next
  <2>6. CASE Decide(c)
    <3>1. UNCHANGED <<audit, journal>> /\ journal = NoEntry /\ c \in Committer
      BY <2>6 DEF Decide, files, At, DataInv, Knows
    <3>2. CASE UNCHANGED answer
      BY <3>1, <3>2, LedgerStutters DEF Confirmed
    <3>3. CASE \E a \in {"unreadable", "disagreement", "conflict", "version_conflict"} :
                 answer' = [answer EXCEPT ![c] = a]
      BY <2>6, <3>1, <3>3, NobodyConfirmed, LedgerStutters DEF Decide, At
    <3>4. CASE Seen(c) /\ ~Differs(c) /\ Answer(c, "idempotent")
      <4>1. Prior(c) \in 1..Len(audit) /\ audit[Prior(c)].command = CommandOf[c]
            /\ audit[Prior(c)].after = AfterOf[c]
        BY <3>1, <3>4, PriorIsTheEntry DEF DataInv, Differs
      <4>2. History = audit /\ History' = History
        BY <3>1 DEF History
      <4>3. Ledger!Entered(c)
        BY <4>1, <4>2 DEF Ledger!Entered
      <4>4. Confirmed' = Confirmed \cup {c}
        BY <3>1, <3>4, OneConfirmed DEF Answer
      <4> QED BY <3>1, <4>2, <4>3, <4>4 DEF Ledger!Next, Ledger!Confirm, Confirmed
    <3> QED BY <2>6, <3>2, <3>3, <3>4 DEF Decide, Answer
  <2>7. CASE Fail(c)
    <3>1. answer' = [answer EXCEPT ![c] = "error"] /\ pc[c] \in Holding
      BY <2>7 DEF Fail, Answer
    <3>2. pc[c] \notin {"release", "unlock", "done"}
      BY <3>1 DEF Holding
    <3>3. Confirmed' = Confirmed
      BY <3>1, <3>2, NobodyConfirmed
    <3> QED BY <2>7, <3>3, LedgerStutters DEF Fail
  <2> QED BY <1>5, <2>1, <2>2, <2>3, <2>4, <2>5, <2>6, <2>7 DEF Works
<1> QED BY <1>1, <1>2, <1>3, <1>4, <1>5 DEF Next, Steps, Deaths

(* The lock, the journal, the audit log and the passport file implement one *)
(* history of the passport: every behaviour of the protocol is one of the   *)
(* ledger's.                                                                *)
THEOREM Refinement == Spec => ImplementsLedger
<1>1. Init => Ledger!Init
  <2> SUFFICES ASSUME Init PROVE Ledger!Init
    OBVIOUS
  <2>1. History = << >>
    BY DEF Init, History
  <2>2. \A c \in Committer : answer[c] = "none"
    BY DEF Init, Call
  <2> QED BY <2>1, <2>2 DEF Ledger!Init
<1>2. IInv /\ Unanswered /\ [Next]_vars => [Ledger!Next]_(Ledger!vars)
  BY StepsRefine
<1> QED BY <1>1, <1>2, Invariant, AnsweredOnce, PTL DEF Spec, ImplementsLedger, Ledger!Spec

=============================================================================
