----------------------------- MODULE ContinuityAck -----------------------------
(***************************************************************************)
(* The watermark of an agent (cli/src/continuity-ack.ts): processes of the  *)
(* agent read a page of what has happened (buildContinuity) and acknowledge *)
(* pages, their own or another's, while posts are made in its Spaces.  An   *)
(* acknowledgement compares the page with the committed watermark, commits  *)
(* the agent's presence at the daemon and then writes its state, under a    *)
(* lock file that a reaper removes when its owner's process is gone.        *)
(***************************************************************************)
EXTENDS Naturals, Sequences, FiniteSets

CONSTANTS Process,
          Post,      \* messages of the agent's Spaces
          Legacy,    \* the watermark of the older state file, or None
          MaxPages,  \* MAX_ACKNOWLEDGED_PAGES
          MaxTime,   \* bound on the clock
          MaxIssued, \* bound on the pages whose tokens are given out
          MaxAcks,   \* bound on the pages a state counts before no more are asked for
          MaxDeaths, \* bound on the processes that die
          None

VARIABLES clock,
          stamp,     \* when a post was prepared, or None
          landed,    \* the posts that can be read
          issued,    \* the pages whose tokens have been given out
          state,     \* the acknowledged pages that are kept and the number of all, or None
          lock,      \* the lock file: its owner, and whether it names it yet; or None
          reaper,    \* the owner of the reaper's file, or None
          presence,  \* the boundaries the daemon has committed presence at
          pc, page,  \* where a process stands, and the page it builds or acknowledges
          existing   \* the state it read under its lock

space == <<clock, stamp, landed>>
vars == <<clock, stamp, landed, issued, state, lock, reaper, presence, pc, page, existing>>

Page == [prior : Nat \cup {None}, high : Nat, seen : SUBSET Post]

Init ==
    /\ clock = 1
    /\ stamp = [m \in Post |-> None]
    /\ landed = {}
    /\ issued = {}
    /\ state = None
    /\ lock = None
    /\ reaper = None
    /\ presence = {}
    /\ pc = [p \in Process |-> "idle"]
    /\ page = [p \in Process |-> None]
    /\ existing = [p \in Process |-> None]

(* readEffectiveContinuityWatermark; an empty state cannot be written.      *)
Watermark(s) == IF s = None THEN Legacy ELSE s.pages[Len(s.pages)].high

Acknowledged(s) == IF s = None THEN {} ELSE {s.pages[i] : i \in DOMAIN s.pages}

Tail128(pages) == IF Len(pages) > MaxPages THEN Tail(pages) ELSE pages

(* The state after a page: the oldest of too many pages is forgotten.       *)
WithPage(s, pg) ==
    IF s = None THEN [pages |-> <<pg>>, count |-> 1]
                ELSE [pages |-> Tail128(Append(s.pages, pg)), count |-> s.count + 1]

Go(p, location) == pc' = [pc EXCEPT ![p] = location]

-----------------------------------------------------------------------------
(* The clock, and posts of others: stamped when prepared, read once written *)

Tick ==
    /\ clock < MaxTime
    /\ clock' = clock + 1
    /\ UNCHANGED <<stamp, landed, issued, state, lock, reaper, presence, pc, page, existing>>

PreparePost(m) ==
    /\ stamp[m] = None
    /\ stamp' = [stamp EXCEPT ![m] = clock]
    /\ UNCHANGED <<clock, landed, issued, state, lock, reaper, presence, pc, page, existing>>

PersistPost(m) ==
    /\ stamp[m] # None
    /\ m \notin landed
    /\ landed' = landed \cup {m}
    /\ UNCHANGED <<clock, stamp, issued, state, lock, reaper, presence, pc, page, existing>>

-----------------------------------------------------------------------------
(* A page: the boundary is taken before anything is read.  It starts at the *)
(* watermark, or where the caller says (--since).                           *)

StageBoundary(p) ==
    /\ pc[p] = "idle"
    /\ Cardinality(issued) < MaxIssued
    /\ \E since \in {Watermark(state)} \cup 1..MaxTime :
         page' = [page EXCEPT ![p] = [prior |-> since, high |-> clock, seen |-> {}]]
    /\ Go(p, "observe")
    /\ UNCHANGED <<space, issued, state, lock, reaper, presence, existing>>

(* A page that is incomplete, or only peeked at, has no token.              *)
Observe(p) ==
    /\ pc[p] = "observe"
    /\ \/ issued' = issued \cup {[page[p] EXCEPT !.seen = landed]}
       \/ UNCHANGED issued
    /\ Go(p, "idle")
    /\ page' = [page EXCEPT ![p] = None]
    /\ UNCHANGED <<space, state, lock, reaper, presence, existing>>

-----------------------------------------------------------------------------
(* acquireLock, reapStaleLock                                               *)

AskForLock(p) ==
    /\ pc[p] = "idle"
    /\ state # None => state.count < MaxAcks
    /\ \E pg \in issued : page' = [page EXCEPT ![p] = pg]
    /\ Go(p, "lock")
    /\ UNCHANGED <<space, issued, state, lock, reaper, presence, existing>>

CreateLock(p) ==
    /\ pc[p] = "lock"
    /\ lock = None
    /\ lock' = [owner |-> p, named |-> FALSE]
    /\ Go(p, "name")
    /\ UNCHANGED <<space, issued, state, reaper, presence, page, existing>>

NameLock(p) ==
    /\ pc[p] = "name"
    /\ lock' = IF lock # None /\ lock.owner = p THEN [lock EXCEPT !.named = TRUE] ELSE lock
    /\ Go(p, "read")
    /\ UNCHANGED <<space, issued, state, reaper, presence, page, existing>>

(* What cannot be written is removed again, whosever it is.                 *)
NamingFails(p) ==
    /\ pc[p] = "name"
    /\ lock' = None
    /\ Go(p, "idle")
    /\ page' = [page EXCEPT ![p] = None]
    /\ UNCHANGED <<space, issued, state, reaper, presence, existing>>

StartReaping(p) ==
    /\ pc[p] = "lock"
    /\ lock # None
    /\ reaper = None
    /\ reaper' = p
    /\ Go(p, "judge")
    /\ UNCHANGED <<space, issued, state, lock, presence, page, existing>>

(* lockIsStale: a lock that names nobody yet is never stale.                *)
Stale == lock # None /\ lock.named /\ pc[lock.owner] = "dead"

JudgeLock(p) ==
    /\ pc[p] = "judge"
    /\ Go(p, IF Stale THEN "remove" ELSE "stop")
    /\ UNCHANGED <<space, issued, state, lock, reaper, presence, page, existing>>

RemoveLock(p) ==
    /\ pc[p] = "remove"
    /\ lock' = None
    /\ Go(p, "stop")
    /\ UNCHANGED <<space, issued, state, reaper, presence, page, existing>>

StopReaping(p) ==
    /\ pc[p] = "stop"
    /\ reaper' = None
    /\ Go(p, "lock")
    /\ UNCHANGED <<space, issued, state, lock, presence, page, existing>>

GiveUp(p) ==
    /\ pc[p] = "lock"
    /\ lock # None
    /\ Go(p, "idle")
    /\ page' = [page EXCEPT ![p] = None]
    /\ UNCHANGED <<space, issued, state, lock, reaper, presence, existing>>

-----------------------------------------------------------------------------
(* acknowledgeContinuityPage, under the lock                                *)

(* A page acknowledged before is answered so, a page that started at        *)
(* another watermark is refused: both change nothing.                       *)
ReadState(p) ==
    /\ pc[p] = "read"
    /\ existing' = [existing EXCEPT ![p] = state]
    /\ Go(p, IF page[p] \in Acknowledged(state) \/ Watermark(state) # page[p].prior
               THEN "unlock" ELSE "presence")
    /\ UNCHANGED <<space, issued, state, lock, reaper, presence, page>>

(* A watermark that moves first is ahead of the presence it stands for.     *)
CommitPresence_Later(p) ==
    /\ pc[p] = "presence"
    /\ Go(p, "write")
    /\ UNCHANGED <<space, issued, state, lock, reaper, presence, page, existing>>

(* A refusal by the daemon ends the call; it may come after the commit.     *)
CommitPresence(p) ==
    /\ pc[p] = "presence"
    /\ \/ presence' = presence \cup {page[p].high} /\ pc' \in {[pc EXCEPT ![p] = l] : l \in {"write", "unlock"}}
       \/ UNCHANGED presence /\ Go(p, "unlock")
    /\ UNCHANGED <<space, issued, state, lock, reaper, page, existing>>

(* A write that fails leaves the file as it was.                            *)
WriteState(p) ==
    /\ pc[p] = "write"
    /\ state' \in {WithPage(existing[p], page[p]), state}
    /\ Go(p, "unlock")
    /\ UNCHANGED <<space, issued, lock, reaper, presence, page, existing>>

(* releaseOwnedLock: only a lock that names the process is removed.         *)
Unlock(p) ==
    /\ pc[p] = "unlock"
    /\ lock' = IF lock # None /\ lock.owner = p THEN None ELSE lock
    /\ page' = [page EXCEPT ![p] = None]
    /\ existing' = [existing EXCEPT ![p] = None]
    /\ Go(p, "idle")
    /\ UNCHANGED <<space, issued, state, reaper, presence>>

Die(p) ==
    /\ pc[p] \notin {"idle", "dead"}
    /\ Cardinality({q \in Process : pc[q] = "dead"}) < MaxDeaths
    /\ Go(p, "dead")
    /\ page' = [page EXCEPT ![p] = None]
    /\ existing' = [existing EXCEPT ![p] = None]
    /\ UNCHANGED <<space, issued, state, lock, reaper, presence>>

Next ==
    \/ Tick
    \/ \E m \in Post : PreparePost(m) \/ PersistPost(m)
    \/ \E p \in Process :
         \/ StageBoundary(p) \/ Observe(p)
         \/ AskForLock(p) \/ CreateLock(p) \/ NameLock(p) \/ NamingFails(p) \/ GiveUp(p)
         \/ StartReaping(p) \/ JudgeLock(p) \/ RemoveLock(p) \/ StopReaping(p)
         \/ ReadState(p) \/ CommitPresence(p) \/ WriteState(p) \/ Unlock(p)
         \/ Die(p)

Spec == Init /\ [][Next]_vars

-----------------------------------------------------------------------------

TypeOK ==
    /\ clock \in 1..MaxTime
    /\ stamp \in [Post -> 1..MaxTime \cup {None}]
    /\ landed \subseteq {m \in Post : stamp[m] # None}
    /\ issued \subseteq Page
    /\ state # None => state \in [pages : Seq(Page), count : Nat] /\ Len(state.pages) \in 1..MaxPages
    /\ lock # None => lock \in [owner : Process, named : BOOLEAN]
    /\ reaper \in Process \cup {None}
    /\ presence \subseteq 1..MaxTime

(* The watermark moves one page at a time, from where the page started, and *)
(* never ahead of the agent's presence: whoever acknowledges what page,     *)
(* whoever dies holding the lock and whoever reaps it, no acknowledgement   *)
(* overwrites another (acknowledgeContinuityPage and its lock).             *)
AcknowledgedInOrder ==
    [][state' # state =>
         \E pg \in issued :
           /\ pg.prior = Watermark(state)
           /\ pg.high \in presence
           /\ state' = WithPage(state, pg)]_vars

(* "If an event lands while this report is being assembled, its timestamp   *)
(* remains newer than this boundary": no post that an acknowledged page did *)
(* not show is older than the watermark (buildContinuity).  A post of the   *)
(* same instant is let pass.                                                *)
WhatIsMissedIsNotOlder ==
    \A pg \in Acknowledged(state), m \in landed : m \notin pg.seen => stamp[m] >= pg.high

=============================================================================
