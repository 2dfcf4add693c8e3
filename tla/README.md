# Seedrop in TLA+

This directory is a verification project for [Seedrop](../src/README.md): TLA+ modules translated from the TypeScript
sources, TLC configurations that check them on small instances, and theorems with proofs that TLAPS checks for every
value of the constants. `PROJECT.json` ties every definition to the lines it stands for, lists the hazards of the code,
the runs, the theorems and the disagreements found; this page explains how to read all of it.

Contents: [the system](#1-the-system) · [the models](#2-the-models) · [what the runs show](#3-what-the-runs-show) ·
[what is proved](#4-what-is-proved) · [disagreements](#5-where-code-and-documents-disagree) ·
[what is left](#6-what-is-not-modelled-and-the-plan)

## 1. The system

Seedrop is a monorepo of small packages around *plain files*: agents leave messages, tasks, run journals and identity
passports in JSON and JSONL files (and one SQLite database), which several processes read and write with nothing
between them but the file system. There is one HTTP daemon on 127.0.0.1 and no background work: whatever happens,
happens because some process was called. A second generation, `kernel → project → protocol`, keeps every change of a
project as an immutable, content-addressed transaction; it is a *shadow*: the v1 writers (`space`, `id`, `cli`) stay
authoritative (`docs/adr/0001`–`0021`, `architecture/package-boundaries.json`).

| Part | State it keeps | Operations | Who calls it | What is hard |
|---|---|---|---|---|
| Project log (`project/src/store.ts`, `projection.ts`) | `transactions/<digest>`, `staging/`, `indexes/` | publish, scan, reduce, rebuild index | commit, kernel, migration | forks, gaps, damaged files must be seen by every reader |
| Writer lock and commit (`project/src/commit.ts`) | `locks/project-writer.lock/owner.json` | commit: lock, scan, compare, publish, rebuild, verify, release | kernel | contenders, death of the holder, recovery of a stale lock |
| Command executor (`kernel/src/executor.ts`) | none of its own; log, index and an outbox | execute, recover | native callers | idempotency, lost answers, effects after commit, redispatch |
| Native work (`kernel/src/work.ts`, `project/src/work.ts`) | intents, episodes, leases, receipts, all reduced from the log | open, finish, expire, correct | executor | plans made on an old snapshot, reducer that throws |
| Protocol (`protocol/src`) | none | validators, builders, digests, transition tables | everyone | pure |
| Post outbox (`space/src/post-outbox.ts`, `io.ts`, `http.ts`) | SQLite row per request, `messages.jsonl`, mention rows | post, retry; claim, append, effects, fail | daemon handlers | leases that run out, two daemons, torn lines, lost answers |
| Space (`space/src/space.ts`, `mentions.ts`, `presence.ts`) | meta file, SQLite tables | open, join, leave, end, ack, heartbeat | daemon, cli, mcp | unlocked read-modify-write |
| View runs (`space/src/view.ts`) | run journals and their lock files, signals, their archive | start, log, finish, sweep, sync | cli, daemon, mcp | locks judged stale by age, an archive without a lock, a finish of many files |
| View tasks (`space/src/view.ts`) | one file per task | create, claim, assign, accept, decline, update, start, pause, done, drop | cli, daemon, mcp, finish | no lock at all; blockers looked at one by one |
| Root migration (`space/src/root-migration.ts`) | manifest, backup, canonical root | preview, apply, rollback | cli | failures and deaths between copies, manifest and modes; writers of both roots |
| Passport transaction (`id/src/commit-journal.ts`, `audit.ts`) | passport, audit log, journal, lock and reap files | commit, repair | cli, identity | death anywhere, two files that must agree, reaping a lock |
| Continuity acknowledgement (`cli/src/continuity-ack.ts`) | watermark state and its lock | page, acknowledge | cli | presence before the watermark, reaping a lock, late posts |
| Identity refresh (`space/src/serve.ts`) | the identities a daemon admits | watch, debounce, poll, refresh | daemon | refreshes that overlap, files half written, names two passports share |
| Shadow migration (`migration/src`) | checkpoint chain | execute, resume; importers | scripts | two executors, a crash between checkpoints, sources that change |
| Outcomes, situation, observer, mcp, command line | none, or other parts' | projections, reports, adapters | users | read-only |

The parts meet in three ways. *Calls*: the kernel validates a request, plans events (native work), and commits them
(project), then reduces the log again and dispatches the effects that the transaction declares to an outbox; the daemon
prepares a post, and its outbox appends to the message log and inserts mentions. *Shared files*: any number of
processes do this at once, so that every file operation of one can come between two of another. *Retries*: callers that
hear nothing ask again under the same command, idempotency key or request id, and calls complete what dead ones have
left behind (`recover`, `repairPendingCommit`, `recoverDeadLocalLock`, an expired lease).

What makes each part correct:

- **Log and commit**: one chain; a refused call has published nothing; an acknowledged one stays applied; a fork or gap
  is never hidden; nothing makes the log incomplete but a caller that reuses a command or an event.
- **Executor**: one transaction per idempotency scope; effects only after commits; receipts that are true and agree.
- **Native work**: one active lease per target; a plan that is committed can be reduced; holders complete; corrections
  undo exactly what they cite.
- **Outbox**: one message and one mention per request; completed exactly when delivered, for good; every post settles.
- **Passport**: one history, each command in it once, passport and audit log that agree or can be repaired.
- **Runs**: a journal only grows and ends once, by the call that is told so; one handoff per run and note.
- **Tasks**: work has an owner; a task that is done waits for nothing.
- **Acknowledgements**: the watermark moves page by page, each from where it started, never ahead of presence.
- **Migrations**: nothing appended to either root is lost, but for what a running daemon appends in the middle of a
  rollback; what is declared applied agrees everywhere; a journal of checkpoints is a chain to go on from, and counts only
  work on the corpus that was admitted, but for a source that changes and changes back while an adapter reads it.
- **Identities**: a passport that was whole when a refresh was asked for is admitted, under names nobody shares.

## 2. The models

| Module | Stands for | Uses |
|---|---|---|
| `ProjectLog` | digests, reducer walk and diagnostics, completeness | |
| `MCProjectLog` | every small log, by publication and damage, for `MCParts` | `ProjectLog` |
| `CommitLog` | *abstract*: the compare-and-set history of ADR 0014 | |
| `ProjectCommit` | the commit protocol, file operation by file operation, and its mapping to `CommitLog` | `ProjectLog`, `CommitLog` |
| `KernelExecutor` | execute and recover over log, index and outbox | `ProjectLog` |
| `NativeWork` | work planning and reduction | |
| `PostOutbox` | one outbox row, its message and mentions | |
| `PassportLedger` | *abstract*: one history of the passport | |
| `PassportCommit` | passport transaction and repair, file by file | `PassportLedger` |
| `ViewRuns` | run journals, claims and handoffs of a View | |
| `TaskBoard` | task files of a View | |
| `ContinuityAck` | pages, acknowledgements, lock and reaper | |
| `RootMigration` | apply, undo and rollback of a root's move | |
| `ShadowMigration` | the executor and its journal of checkpoints | |
| `IdentityRefresh` | how a daemon learns its identities | |
| `MCParts` | six parts that never meet, in one run | `TaskBoard` to `IdentityRefresh`, `MCProjectLog` |
| other `MC…` | small instances: constants and symmetry | their module |
| `ProjectLogTheorems`, `…Proofs` | theorems | their module, `TLAPS` |

Conventions. One action is what a process does between two points at which another process can come between: one file
operation, one SQLite transaction, or one scan. `pc` holds where a call stands, `answer` or `outcome` what its caller
was told. A process that dies takes no more steps and leaves its files. Time is never read: that a lock is old, a lease
has run out or a deadline has passed is a choice of the model, restricted only by what the code's own order of reading
the clock implies. A definition that ends in `_Something` and is marked `\* mutant` is not part of the model: it is a
plausible bug used to show that a property is sensitive to the code.

**ProjectLog.** A digest covers the bytes of a transaction, which include the digest of its predecessor, so a digest is
a sequence of bodies: the path from the first transaction. That makes "same content, same name" and "a child names one
parent" hold as they do for SHA-256, and nothing else. `Walk` is the loop of `reduceProjectTransactions`, `Turn` one turn of it; `Applied`,
`Complete`, `IsHighWatermark` and `Forkless` say declaratively what it computes, which `ReducerIsTheChain` proves, and the other
modules use those. `Reuses` is `hasIdentityConflict` of a transaction with its own path, `Reusing` the transactions of a log
that have it.

**ProjectCommit.** `MakeLock`, `OpenOwner`, `WriteOwner` are the three writes that create a lock; `InspectOwner`,
`StatLock`, `StealLock` the three looks and acts of `recoverDeadLocalLock`; `ScanLog`, `StageTransaction`, `AssertOwned`,
`LinkTransaction`, `CleanupMatchingTemps`, `RebuildScan`, `WriteIndex`, `VerifyCommit`, `ReleaseLock`, `UnlinkOwner`,
`RemoveLock` the commit itself. `lock` is what `readProjectWriterLockOwner` would report; `aged` are the contenders whose
clock sample finds the present directory old. `Spec` is the code. `UndisturbedSpec` adds that no lock directory is
replaced between a contender's judgement and its rename (`StealLock` needs `w \in aged`): the assumption without which
the lock is not one (finding 1). A call may reuse a command or an event: neither the kernel nor `commit.ts` looks, so the
model does not either. Such a transaction is published, found by the second scan, and answered as a conflict, and the log is
incomplete from then on; `OnlyReuseBreaks` says that nothing else makes it so, and that what was there before is still a
complete log. In `AcknowledgedApplied` the index is what commit calls write; the kernel's own rebuild, without the
lock, is in `KernelExecutor`.

**KernelExecutor.** An execute call plans a transaction of its own, so a call *is* the body it may publish; a retry is
another call of the same scope and input. The commit is the one-step compare-and-set that `ProjectCommit` implements
while undisturbed, and may fail before or after it publishes. The outbox is external: it keeps one settled answer per
effect key, may be out of reach, and may lose its answer. Materialization (scan, index write, reread) is in steps, so
that rebuilds race. The audit record, lifecycle metadata and the journal of repair receipts are abstracted.

**NativeWork.** A session plans on the reduction of the log it scanned and commits if the log has not moved since.
The log being a chain, its version is its length and an event id the version of its transaction. `Reduces` are the
checks of the *reducer* in `project/src/work.ts`, `Plan…` those of the *planner* in `kernel/src/work.ts`: `broken` says
a committed transaction made the reducer throw, as it then does for every later command. Claim and receipt ids are
checked and used up alike; one id stands for both.

**PostOutbox.** One row. `Prepare`/`Repair` are the two entry points, `Claim` the claiming transaction, `ReadMessages` and
`WriteMessage` the two halves of `appendMessageOnce` (calls of one process pass a write queue, those of two do not),
`CompleteEffects` and `FailRecord` the closing transactions, `LeaseRunsOut` the thirty seconds, `Crash` a daemon's death.
A torn append leaves a line that swallows the next one. `Spec` has dispatches of any length; `PromptSpec` those that end
within their lease.

**PassportCommit.** Every call is a process. Lock file: created empty (`Acquire`), signed (`Stamp`), judged by its pid
under a `.reap` file (`Contend`, `Judge`, `Unlink`, `Drop`), released in two steps. Under the lock: pending journal first
(`CheckJournal`, `Repair…`), then `Decide`, `Prepare`, `WriteJournal`, `AppendAudit`, `Promote`, `ClearJournal`; `Fail` and
`Die` at each of them, with torn appends. A version is a passport and its hash, and contents may come back.

**ViewRuns.** Every call is a process. `ReadForStart`, `WriteNewRun`, `ClaimPath` are `startRun`; `Select` and `ListOrphans`
choose a run, `Acquire`, `StatLock`, `Reap`, `TimeOut`, `Unlock` are `withFileLock` and `removeStaleLock`; `ReadForLog`,
`ReadForFinish`, `ReadForSweep` read the journal again under the lock and `WriteRun` writes it. In between a finish archives the
claims of the run (`ReadClaims`, `WriteArchive`, `UnlinkSignals`, whose errors `SwallowError` drops), makes the handoff task
(`LookForTask`, `MakeTask`, `AssignTask`, `LinkTask`) and, when it completes, archives expired signals (`ReadExpired`, which is
also `sync`). A journal is its agent, its status, the set of its steps and the call that ended it. `Spec` is the code;
`PromptSpec` has no lock held for five minutes, the age at which any contender removes it. Left out: the task a run is
linked to when it starts, the threads sync materializes, legacy handoff files, how many signals the archive keeps,
`releaseSignal` and the contents of a manifest.

**TaskBoard.** A call reads a task and decides what it will write (`ClaimTask` … `LinkTaskRun`), looks at the blockers one by one
(`LookAtBlocker`, which ends the call at one that has not ended or cannot be read) and writes the whole file (`WriteTask`).
Calls that are refused are no steps. `Spec` lets any calls overlap, as the code does; `SerialSpec` has no two calls on
*one* task overlap, while those on its blockers go on. Overlapping calls on one task undo each other: two agents are both
told that a task is theirs, a drop or an end is written over.

**ContinuityAck.** `StageBoundary` and `Observe` are `buildContinuity`; `PreparePost` and `PersistPost` the two halves of a
post, stamped in the first and readable after the second. `AskForLock`, `CreateLock`, `NameLock`, `NamingFails`, `GiveUp` are
`acquireLock`, `StartReaping`, `JudgeLock`, `RemoveLock`, `StopReaping` are `reapStaleLock`; `ReadState`, `CommitPresence`, `WriteState`,
`Unlock` the acknowledgement. A page starts at the watermark or, with `--since`, at any other time; `ReadState` refuses it
unless the watermark is there when it is acknowledged. A state keeps its last `MaxPages` pages and the number of all. A death between `CommitPresence` and `WriteState` leaves
presence ahead of the watermark until a page is acknowledged again; the property is about the other direction.

**RootMigration.** `Preview`, `CopyToBackup`, `CopyToCanonical`, `Reconcile`, `Freeze`, `Finish` are an apply; `ApplyFails`, `RemoveCreated`,
`Undone` its undoing; `Rollback`, `CheckLegacy`, `RemoveCreated`, `RolledBack` a rollback; `Die` ends any of them. One command runs
at a time; the legacy root is written to at any time until its files are read-only. The daemon of the canonical root is
stopped during an apply, as `space/README.md:122` asks. For a rollback nothing asks for it, and `rollbackRootMigration` neither
locks nor looks, so there `AppendCanonical` goes on at every step: what it appends to a migrated file (`Doomed`) after the
file was compared and before it is removed is recorded in `late`. A file is the set of the records appended to it.

**ShadowMigration.** `Start` reads the journal and refuses one that is not a chain; `Observe`, `Work`, `ObserveAgain` are
`guardedSourceWork`, `Advance` and `Persist` the next checkpoint and its link. A checkpoint is the value its digest names: two
runners that take the same step write one file, unless it issues a receipt, which carries the time of its run. A source
holds one of a few contents and may change to any other and back (`Drift`), since what is compared is content
(`migration/src/contract.ts:121`–`130`). `undone` records a source that came back to its admitted content between the two
observations around an adapter's work on it, which neither can see. A verification compares no content with what was
staged, only the counts of both (`CountsOf`, `executor.ts:332`).

**IdentityRefresh.** `BeginWrite`, `EndWrite`, `Withdraw` change passport files, with or without an event; `DebounceEnds` and `Poll`
call `Refresh`; `List`, `ReadPassport`, `Reindex`, `Refuse` are the refresh under way. `IndexIdentities` is `indexIdentities`,
name by name: one that two agents share is given up, and a third does not get it back.

**MCParts.** A behaviour chooses one of six parts at its start and is a behaviour of that part alone, so that one run
explores them all without multiplying their states; `Others` holds the other parts still. Each property is that of its
part's module, under the same name. `OwnAgent`, `OneName`, `SharedCommand`, `SharedEvents` and `Records` are the values its
configuration gives to `AgentOf`, `AliasesOf`, `CommandOf`, `EventsOf` and `CountsOf`; the theorems leave those open.

## 3. What the runs show

| Run | Question | Instance | States | Result |
|---|---|---|---|---|
| `ProjectCommit_undisturbed` | does the file protocol implement `CommitLog`? | 3 calls (one a retry or rival of another, or a reuse of its command), 2 hosts, 1 crash | 180 k | holds |
| `ProjectCommit_disturbed` | what is left when stale recovery is disturbed? | 3 calls, 1 host, 1 crash | 866 k | a fork is never hidden |
| `ProjectCommit_fork` | "never a fork"? | as above | — | **violated** (finding 1) |
| `KernelExecutor_racing` | one transaction per scope, true receipts that agree, harmless refusals, whatever is recovered again? | 3 calls: a request, its key with another input, another scope; 1 recoverer; a required and an optional effect; failing commits | 4.0 M | holds |
| `NativeWork_history` | all of native work | 2 sessions, 1 target, 2 intents and episodes, 3 leases, 4 receipts, one tick | 81 k | holds |
| `PostOutbox_prompt` | one copy, completed = delivered, settles? | 3 posters (one with another command), 1 repairer, 2 daemons, 3 attempts, torn appends | 63 k | holds |
| `PostOutbox_uncompleted` | does a completed command stay so? | 2 posters, 1 daemon, late dispatches | — | **violated** (finding 2) |
| `PassportCommit_retry` | does the protocol implement `PassportLedger`? | 3 calls, 2 of one command, 2 passports that come back, deaths anywhere, torn appends | 292 k | holds |
| `PassportCommit_waits` | does everyone who waits for the lock get it? | 2 committers, 1 repairer, deaths under a signed lock | 50 k | holds |
| `ViewRuns_prompt` | do journals only grow, end once and hand off once? | 4 calls of any kind, 2 agents, 1 note, 1 death | 1.9 M | holds |
| `MCParts` | tasks, acknowledgements, both migrations, refreshes, and the reducer's loop over every small log | see below | 3.9 M | holds |
| `ContinuityAck_late` | is what a page missed newer than its boundary? | 1 process, 1 post | — | **violated** (finding 3) |

The instances of `MCParts`: *tasks*: 2 callers, 2 agents, 2 tasks that may block each other; *acks*: 2 processes, one of which
may die, 1 post, a clock of 2, 3 pages, 3 acknowledgements, a state that keeps 1 page; *roots*: 2 files, 2 records, 2
migrations, any failures and deaths; *shadow*: 2 runners, 2 runs, 2 sources of three
contents, two of which have the same counts, that change twice, or once and back; *identities*: 3 passports of
one name, 4 writes; *log*: every log of up to 4 transactions and paths of up to 3, where two of three bodies share a command
and two an event, with one damaged file. Type invariants are not runs' properties: they are proved.

Why the bounds are enough for the cases in question. A lock or compare-and-set race needs two actors and its stale
recovery a third, with one death to leave something behind; a log of four transactions has chains, forks at every
depth, several roots and gaps; three attempts give an outbox row a retry and a dead letter; four receipts let work be
finished, corrected and finished again while another session still holds an old plan. Two runners, processes or callers and one death show what an
overlap and a reaped lock do; four calls on runs allow a start, a finish that dies, its repetition and a log or sweep
between them; two root migrations allow one to begin where another was undone, died or was rolled back. Where a bound does
limit the model rather than the code it is a named constant: `MaxLen`, `MaxLog`, `MaxCrashes`, `MaxDeaths`, `MaxTime`, `MaxIssued`,
`MaxAcks`, `MaxRuns`, `MaxChanges`, `MaxWrites`, and the finite sets. `MaxAttempts` and `MaxPages` are parameters of the code.
`CHECK_DEADLOCK FALSE` is set where calls are made once and return: the model then stops, as the program does,
and where a bound ends what goes on in the code (a clock, writes, migrations). The liveness runs and the symmetry runs are separate: symmetry is used with safety properties only.

**Fairness.** `PostOutbox!FairSpec`: no background worker dispatches, so a row settles only if its poster *asks again*:
weak fairness of `Call` for posters (assumed of clients, not given by the code), of `Serve` (a Node process goes on
serving), of the clock, and strong fairness of `Claim` (a database that is not locked for ever, for a transaction that
can be refused busy in between). No fairness for repairers, crashes or failures. `PassportCommit!PatientSpec`: calls that
can sign the lock file and do not time out, weak fairness of their steps, strong fairness of `Acquire` and `Contend` for
a polling loop that finds the file free again and again. A process may die there only while the lock names it: elsewhere
the queue really stops (section 5).

**Mutants.** For every property of a passing run `PROJECT.json` names a change of one mapped definition (a dropped
compare-and-set, an ignored lease, a swapped order, a missing deduplication …) under which TLC finds the property violated.

## 4. What is proved

Eight modules hold theorems. They are checked by `tlapm`, with no assumption but the named `ASSUME`s on constants, which
TLC evaluates in the runs, and the hypotheses a theorem states. Each begins with the type invariant.

- **`ProjectLogTheorems`**: publishing behind the high watermark of a complete log, under a fresh command and fresh
  events, keeps it complete and forkless, whatever its length; complete logs that contain one another are nested chains.
  `ReducerIsTheChain`: in *every* finite log, forked, gapped or with reused commands, the loop of the reducer as written
  applies the chain `Applied` defines, ends at its high watermark, reports every transaction it leaves out, and says
  complete exactly when `Complete` holds and nothing is quarantined. The loop is a recursive function, so this is an
  induction, which is done by hand: the least number of turns at which a claim fails (`LeastNatural`, from the
  well-foundedness of the naturals) follows one at which it holds. That the loop's bound is enough is a pigeonhole: what it
  has applied are different members of the log.
- **`ProjectCommitProofs`** (`UndisturbedSpec`, any writers, hosts, crashes, commands and events): `NoFork`, `OnlyReuseBreaks`
  (theorem `ReuseAloneBreaks`, which assumes nothing of the callers), `LiveLockKept`, mutual exclusion, publication only on
  top. The invariant
  `IInv == TypeOK /\ LockInv /\ LogInv` is needed because none of these is inductive: that nobody publishes twice on one
  predecessor follows from who owns the directory, which follows from what every contender may still believe about a
  directory it looked at (it was aged, its owner dead) and has not yet renamed. On top of it `AnswerInv` says what a call
  knows and was told at each location, and that every published transaction has a call that published it. From both
  follow `AcknowledgedApplied`, `RefusedPublishedNothing` and `Refinement == UndisturbedSpec => ImplementsCommitLog`: the
  link of a new transaction is the step that extends the abstract history, and every other step answers a call or stutters.
  For `Spec`, with the lock disturbed in any way, `ForksAreNotHidden` proves `NoHiddenFork`: no gap is made, and the
  transactions any two calls have verified lie on one chain. `SeenInv` is what that rests on: the snapshots of all calls are
  moments of one growing set, so that of two the later contains the earlier, and a verified call has seen a complete log
  that ends with its transaction.
- **`KernelExecutorProofs`** (any calls, effects, outbox failures): one transaction per scope, refusals publish nothing,
  effects follow commits, receipts are true and never contradict each other, and, for callers that give a command id to one request only
  (`DistinctCommands`, `DistinctEvents`), the log stays complete and each command has one transaction. The invariant
  carries what a call knows at each location: a call about to commit has seen its scope empty *at the version it will
  compare with*, so that the compare-and-set excludes a second winner.
- **`NativeWorkProofs`** (any sessions, ids, targets, times): one lease per target, plans always reduce, leases cover live
  work, intents and episodes end and reopen together, handoff keys are distinct, holders complete, corrections are
  exact, expired work is stranded. The key part is `PlansFit`: a plan whose base version is still current passes every
  check of the reducer; it is preserved since every step that changes the reduction changes the version.
- **`PostOutboxProofs`**: for `Spec` (dispatches of any length) mentions come once, answers are true and messages precede
  mentions when appends are whole, attempts are never repeated without a repair; for `PromptSpec` also one dispatcher, one
  copy, completed means delivered, and completed stays. The second invariant adds that the one dispatch under way holds
  the row and that no other call stands between reading and writing the file.
- **`PassportCommitProofs`**: mutual exclusion though locks are reaped, one history, one entry per command, agreement of
  passport and log, true answers, repairs that never conflict, prepared files that stay, and
  `Refinement == Spec => Ledger!Spec`. `LockInv` describes the lock file, its signature and the reap file together;
  `DataInv` describes, location by location, which of journal, audit log, passport and prepared file are already written.
- **`ViewRunsProofs`** (`PromptSpec`, any calls, agents, notes and deaths): journals only grow and end once, answers stay true,
  and a run is handed off by one task for each note. Three invariants build on each other: who works on a run has its lock,
  since a lock that is old is a dead call's (`LockInv`); so what a call has read of a journal is what the journal says, but
  for the mark of its age, until the call writes (`CopyInv`), and a call about to end a run found it in progress; so a call
  that makes a handoff task has seen none, and none comes in between, and what it has made it assigns and links before it
  answers (`TaskInv`).
- **`PartsProofs`**, of the six parts of `MCParts`, each for any values of its constants:
  - *tasks* (`SerialSpec`): a task that is done has an owner and waits for nothing. The invariant speaks of what a call is about
    to write: its file is owned; what it has looked at and found ended has ended, and no transition leads out of an ended
    task; and a call on a task that has ended writes what is there, which is where overlapping calls would break it.
  - *acknowledgements* (if `None` is neither a process nor a lock): the watermark moves one page at a time, from where the page
    started and never ahead of presence. The invariant is about the lock: a process between creating and releasing it owns
    it, one process reaps at a time, and what it judged stale is still so when it removes it, since a lock that names a
    dead process is touched by its reaper only. So what an acknowledgement read is still the state when it writes.
  - *root migration*: no record appended under either root is lost but those that are `late`, and a migration is recorded as
    applied only when both roots and the backup agree. The invariant says, place by place, that what a canonical file which may be
    removed holds in time (`InTime`: all but the late records) is in the legacy root too, and that what a command has compared
    still agrees.
  - *shadow migration*: what a checkpoint counts as staged was read from the admitted content, and what it counts as verified
    has the counts of that, though sources change at any moment, and back, and runners race; the only exceptions are those in
    `undone`, so a source that did not come back under its adapter is never staged in another version; and the journal of runs that do not overlap is one gapless chain. For the latter `Chained` adds that one
    runner at most is under way, and that the revision it works from counts the checkpoints of the journal.
  - *reducer*: `WalkIsTheChain`, from `ReducerIsTheChain`, since every log a store can hold is a finite set of digests.
  - *identities*: a passport that was whole when a refresh was asked for, and was not touched since, has been read once no refresh
    is under way, and a name stands for a passport exactly if all who bear it are of one agent. That the index comes out
    so whatever the order of the files is a second induction, over how many of them have been entered.

  The constants are assumed to be what their types say, the sets of passports to be finite, and `None` to be none of their
  members (`RootsAssumption`, `ShadowAssumption`, `IdentitiesAssumption`, `LogAssumption`).

Proved but in no run: the type invariants, `OneMention`, `AnswersAreTrue` and `CompletedStays` of the outbox under prompt
dispatches, the structure of intents, episodes and handoffs in native work.

Every invariant and action property of the passing runs, and both refinements, are theorems. Only model-checked are the two
liveness properties, `SettlesWhenRetried` and `WaitersGoOn`: fairness and ENABLED are beyond the prover. What is violated in a
run of section 3 is of course no theorem.

## 5. Where code and documents disagree

With a run that shows it:

1. **A live writer's lock can be stolen and the log forked** (`ProjectCommit_fork`; `project/src/commit.ts:218`,
   `project/src/store.ts:45`–`48`). ADR 0014:82 promises one winner, "never a fork". A lock directory judged stale may be
   a live writer's when it is renamed, and its owner may be past its ownership check. `ProjectCommit_disturbed` shows what
   is left: the fork is seen by every later reader, and at most one of the diverging calls is acknowledged.
2. **A completed outbox row can be taken back** (`PostOutbox_uncompleted`; `space/src/post-outbox.ts:340`). `failRecord`
   does not ask whether its attempt still holds the row, so a dispatch that outlives its lease and then fails reports a
   delivered post as undelivered (`docs/proofs/wave-1b-pr09.md:12`).
3. **A late post is on no page and yet older than the watermark** (`ContinuityAck_late`; `cli/src/continuity.ts:282`). A post
   is stamped when the daemon prepares it and can be read once it is written. One that is stamped before a page's boundary
   and written after the page was read is not delivered, and no longer counts as new once the page is acknowledged; the
   comment at 279–281 says that such an event "remains newer than this boundary".

Met while modelling, without a run of their own:

4. The executor looks up the idempotency scope, not the command id: a second request under a used command id is
   published, and the log is incomplete from then on (`kernel/src/executor.ts:110`; ADR 0014:134). `ProjectCommit` models it,
   and `OnlyReuseBreaks` says how far it goes; the completeness of `KernelExecutor` assumes `DistinctCommands` and
   `DistinctEvents`.
5. The projection index is rebuilt outside the writer lock (`kernel/src/executor.ts:322`), so a slower rebuild can
   overwrite a newer index (ADR 0014:61, 115). No decision is taken from it.
6. An expiry trusts the time its caller observed (`kernel/src/work.ts:238`; ADR 0015:21, 38): a fast clock ends a lease
   early.
7. After a torn append to `messages.jsonl` the next message shares its line and is unreadable (`space/src/io.ts:124`;
   ADR 0004:32), though it is answered as posted; the theorems on answers assume whole appends.
8. A passport lock file left empty, or a left `.reap` file, is never stale (`id/src/commit-journal.ts:526`, `567`–`570`;
   `id/README.md:64`): a death there stops every later command.
9. A torn line of the audit log makes every repair and command fail from then on (`id/src/audit.ts:69`–`75`).
10. A file lock of a View is removed by any contender once it is five minutes old, and its slow holder then removes its
    successor's: a logged step or an end is lost (`space/src/view.ts:3006`). Hence `PromptSpec`.
11. A sweep ends runs from a list it read before: also a run its agent has touched since (`view.ts:1052`;
    `ViewRuns!SweepsTheAbandoned` is violated). Two archivers lose claims (`view.ts:1655`; `ClaimsAreArchived` likewise).
12. The comment on `createHandoffTask` calls it idempotent per run; the key is looked up together with the title, so that a
    second finish with another note makes a second task. And a handoff task that is dropped between a finish that died and
    its repetition fails every repetition under that note, since it can be neither assigned nor made again. `logRun` adds steps to
    runs that have ended.
13. Two tasks can block each other (`view.ts:1349` refuses only a task that blocks itself): neither can then be started.
14. Root migration: a file new in the legacy root after the inventory is neither copied nor noticed; a rollback that dies
    while it removes files is refused from then on, its copies no longer agreeing; an apply after one that died while
    freezing records the read-only modes as the original ones. A rollback compares the canonical root once
   (`space/src/root-migration.ts:151`, "automatic rollback would lose data", 155) and removes files at 160: what a running
   daemon appends to them in between is lost, and only `--apply` is documented to need it stopped.
15. Continuity: a page that is acknowledged again after 128 others is refused as a conflict; a lock left empty or a leftover
    `.reap` file stops all acknowledgements.
16. Two shadow migrations of one journal that overlap fork it, and no later run accepts it: nothing excludes them
    (`migration/src/executor.ts`). `ResumesWhereItStopped` is therefore about runs that do not overlap.
17. A source of a shadow migration that changes before its adapter reads it, and is back at the second observation
    (`migration/src/executor.ts:292`, 366), is staged as it was in between, unnoticed. Verification notices if the counts
    differ (332) and otherwise nothing does.
18. A refresh of identities that finds empty directories drops the calls that were waiting for it (`space/src/serve.ts`).

## 6. What is not modelled, and the plan

Within the modelled parts: EPERM on a pid and the 30 s age rule of the passport lock, pid reuse, files that a power loss
leaves unsynced, the contents of audit records, receipts and diagnostics, two rebuilds of the index inside one process
(they share a temporary file, `project/src/projection.ts:143`), the daemon's other routes, and what section 2 says of
`ViewRuns`.

Not modelled at all:

- *Space membership* (`space/src/space.ts`): members and lifecycle are read, changed and written back in place without a
  lock, so that of a join, a leave and an end at the same time one is lost, and a file that is read while it is written is
  skipped, whereupon a join makes a second Space of the same name. There is no promise left to check.
- *Mentions, presence and announcements*: single SQLite statements, atomic each. The ones that matter across steps are in
  `PostOutbox` and `ContinuityAck`.
- *Pure validators and projections* (`protocol`, `outcomes`, `situation`, `project/src/situation.ts`): they keep no state and
  are called on one reading of the log. What the modelled parts use of them is mapped there.
- *Read-only reports* (`observer`, `continuity`, `boot`), and the *importers* of v1 records: long translations of formats, with
  no concurrency.
- *Argument parsing, installation and rendering* (`router`, `clients`, the `cli.ts` files, `mcp`), and the in-memory identity
  session with its classifiers, which depends on a language model.

`PROJECT.json` lists each with its reason. These parts are most of the repository's lines, and hardly any of its concurrency:
every part that writes files under contention, but for Space membership, has a module.

What the project could still grow by, in this order: the repair journal and the audit chain of commands in the executor;
runs of a View whose locks are removed by age, with what is left of their promises; the situation budget and the outcome
projection as operators checked against a declarative definition.

Checking: `tlc -config X.cfg M` with the module named for the run in `PROJECT.json`; `tlapm M.tla` for the proof modules.
