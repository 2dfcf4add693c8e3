-------------------------------- MODULE MCParts --------------------------------
(***************************************************************************)
(* Six parts of the system that never meet, checked in one run: a behaviour *)
(* chooses a part at its start and is a behaviour of that part alone.       *)
(***************************************************************************)
EXTENDS TaskBoard, Naturals, FiniteSets, TLC

CONSTANTS Process, Post, Legacy, MaxPages, MaxTime, MaxIssued, MaxAcks, MaxDeaths,
          RootFile, Record, Migration,
          Runner, Sources, Content, Original, CountsOf, MaxRuns, MaxChanges,
          Passport, SharedName, AgentOf, AliasesOf, MaxWrites,
          Body, Command, Event, CommandOf, EventsOf, MaxLen, MaxLog

VARIABLES part,
          clock, stamp, landed, issued, state, lock, reaper, presence, pc, page, existing,
          legacy, canonical, frozen, written, late, manifest, rootPc, current, todo,
          corpus, journal, runnerPc, checkpoint, result, run, runs, changes, overlapped, undone,
          disk, timer, inFlight, queued, refreshPc, unread, read, admitted, heard, writes,
          log, quarantined

Acks == INSTANCE ContinuityAck

Roots == INSTANCE RootMigration WITH File <- RootFile, pc <- rootPc

ASSUME RootsAssumption == (\A s \in SUBSET Record : s # None) /\ None \notin Roots!Manifest

Shadow == INSTANCE ShadowMigration WITH pc <- runnerPc

ASSUME ShadowAssumption == {Sources, MaxRuns, MaxChanges} \subseteq Nat /\ Original \in Content

Identities == INSTANCE IdentityRefresh WITH pc <- refreshPc

ASSUME IdentitiesAssumption == IsFiniteSet(Passport) /\ None \notin Passport

(* Two contents have the same counts.                                       *)
Records == [content \in Content |-> IF content = "shorter" THEN 1 ELSE 2]

(* Each passport has an agent of its own; all have one name.                *)
OwnAgent == [p \in Passport |-> p]
OneName == [p \in Passport |-> {p, SharedName}]

Log == INSTANCE MCProjectLog

ASSUME LogAssumption ==
    /\ CommandOf \in [Body -> Command]
    /\ EventsOf \in [Body -> SUBSET Event]
    /\ MaxLen \in Nat

(* Two bodies share a command, two share an event.                          *)
SharedCommand == [b \in Body |-> IF b = "again" THEN "open" ELSE b]
SharedEvents == [b \in Body |-> IF b = "overlap" THEN {"open", "overlap"} ELSE {b}]

acks == <<clock, stamp, landed, issued, state, lock, reaper, presence, pc, page, existing>>
roots == <<legacy, canonical, frozen, written, late, manifest, rootPc, current, todo>>
shadow == <<corpus, journal, runnerPc, checkpoint, result, run, runs, changes, overlapped, undone>>
identities == <<disk, timer, inFlight, queued, refreshPc, unread, read, admitted, heard, writes>>
logs == <<log, quarantined>>

(* The callers, agents, processes, files and runners share their values, of *)
(* which only those of the chosen part are in a state.                      *)
SharedValues == Permutations(Caller)

Parts == {"tasks", "acks", "roots", "shadow", "identities", "log"}

PartsInit ==
    /\ part \in Parts
    /\ Init /\ Acks!Init /\ Roots!Init /\ Shadow!Init /\ Identities!Init /\ Log!Init

Others(p) ==
    /\ p # "tasks" => UNCHANGED vars
    /\ p # "acks" => UNCHANGED acks
    /\ p # "roots" => UNCHANGED roots
    /\ p # "shadow" => UNCHANGED shadow
    /\ p # "identities" => UNCHANGED identities
    /\ p # "log" => UNCHANGED logs
    /\ UNCHANGED part

StepTasks == part = "tasks" /\ Next /\ OneAtATime' /\ Others("tasks")
StepAcks == part = "acks" /\ Acks!Next /\ Others("acks")
StepRoots == part = "roots" /\ Roots!Next /\ Others("roots")
StepShadow == part = "shadow" /\ Shadow!Next /\ Others("shadow")
StepIdentities == part = "identities" /\ Identities!Next /\ Others("identities")
StepLog == part = "log" /\ Log!Next /\ Others("log")

PartsNext == StepTasks \/ StepAcks \/ StepRoots \/ StepShadow \/ StepIdentities \/ StepLog

PartsSpec == PartsInit /\ [][PartsNext]_<<part, vars, acks, roots, shadow, identities, logs>>

-----------------------------------------------------------------------------
(* The properties of the parts                                              *)

(* ContinuityAck: no acknowledgement overwrites another.                    *)
AcknowledgedInOrder == Acks!AcknowledgedInOrder

(* RootMigration: only a rollback of a root in use loses a record.          *)
NothingLost == Roots!NothingLost

(* RootMigration: an applied migration agrees with the frozen legacy root.  *)
AppliedAgrees == Roots!AppliedAgrees

(* ShadowMigration: the journal of runs that do not overlap can be resumed. *)
ResumesWhereItStopped == Shadow!ResumesWhereItStopped

(* ShadowMigration: only a change undone under an adapter is staged.        *)
StagedIsAdmitted == Shadow!StagedIsAdmitted

(* IdentityRefresh: no refresh is lost, and no name is shared.              *)
AdmittedIsCurrent == Identities!AdmittedIsCurrent

(* ProjectLog: the reducer applies the chain and hides nothing.             *)
WalkIsTheChain == Log!WalkIsTheChain

=============================================================================
