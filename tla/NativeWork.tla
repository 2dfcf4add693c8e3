----------------------------- MODULE NativeWork -----------------------------
(***************************************************************************)
(* The native work commands: open, finish, expire and correct, planned by   *)
(* kernel/src/work.ts on a snapshot of the project log and reduced by       *)
(* project/src/work.ts from what was committed.                            *)
(*                                                                         *)
(* A session plans on the reduction of the log it scanned, with the clock   *)
(* as it was then, and the plan is published later if the log has not moved *)
(* since: the compare-and-set of ProjectCommit and KernelExecutor.  The     *)
(* log is linear, so its version is its length, and an event id is the      *)
(* version of the transaction that holds the event.  A command that throws  *)
(* before its commit changes nothing and is no step.  Claim and receipt ids *)
(* are checked, recorded and used up alike: one id stands for both.         *)
(*                                                                         *)
(* Open and correct are the only ways into "active", finish the only way    *)
(* out of it: no command takes an intent or an episode to the other states  *)
(* of its lifecycle, so that they are left out.                            *)
(***************************************************************************)
EXTENDS Naturals, FiniteSets

CONSTANTS Session,      \* callers of the kernel, each making one call at a time
          Principal,
          PrincipalOf,  \* who a session acts for
          Intent, Episode, Lease, Receipt, Target,
          MaxTime       \* bound: how far the clock is followed

ASSUME WorkAssumption ==
    /\ PrincipalOf \in [Session -> Principal]
    /\ MaxTime \in Nat

Time == 0..(MaxTime + 1)

VARIABLES now,       \* the clock
          version,   \* how many transactions the log holds
          intent,    \* the reduction of the log ...
          episode,
          lease,
          receipts,
          handoffs,  \* the handoff effects that transactions have declared
          broken,    \* whether a committed transaction makes the reducer throw
          plan,      \* the transaction a session is about to commit
          base       \* the version it was planned on

work == <<intent, episode, lease, receipts>>
vars == <<now, version, work, handoffs, broken, plan, base>>

Kinds == {"open", "finish", "expire", "correct"}

Transaction ==
    [kind : Kinds, by : Principal, intent : Intent, episode : Episode, lease : Lease,
     target : Target, receipt : Receipt, at : Time, expires : Time,
     intentEvent : Nat, episodeEvent : Nat, handoff : BOOLEAN]

NoPlan == [kind |-> "none"]
Absent == [state |-> "absent"]

IntentRecord == [state : {"active", "reported_complete"}, since : Nat]
EpisodeRecord == [state : {"active", "reported_complete"}, since : Nat, intent : Intent]
LeaseRecord ==
    [state : {"active", "released", "expired"}, target : Target, holder : Principal,
     intent : Intent, episode : Episode, expires : Time]

TypeOK ==
    /\ now \in 0..MaxTime
    /\ version \in Nat
    /\ intent \in [Intent -> IntentRecord \cup {Absent}]
    /\ episode \in [Episode -> EpisodeRecord \cup {Absent}]
    /\ lease \in [Lease -> LeaseRecord \cup {Absent}]
    /\ receipts \subseteq Receipt
    /\ handoffs \subseteq Episode \X Receipt \X Nat
    /\ broken \in BOOLEAN
    /\ plan \in [Session -> Transaction \cup {NoPlan}]
    /\ base \in [Session -> Nat]

Init ==
    /\ now = 0 /\ version = 0
    /\ intent = [i \in Intent |-> Absent]
    /\ episode = [e \in Episode |-> Absent]
    /\ lease = [l \in Lease |-> Absent]
    /\ receipts = {} /\ handoffs = {}
    /\ broken = FALSE
    /\ plan = [s \in Session |-> NoPlan]
    /\ base = [s \in Session |-> 0]

-----------------------------------------------------------------------------
(* What planners and reducer ask of the reduction.                         *)

Active_UntilReleased(l) == lease[l].state \in {"active", "expired"}           \* mutant
Active(l) == lease[l].state = "active"

(* activeLeaseForTarget: time alone frees nothing.                         *)
TargetFree_Elapsed(x) ==                                                      \* mutant
    \A l \in Lease : Active(l) => lease[l].target # x \/ lease[l].expires <= now
TargetFree(x) == \A l \in Lease : Active(l) => lease[l].target # x

(* A correction names the events that ended the intent and the episode.    *)
Cites_AnyEvent(i, e, intentEvent, episodeEvent) == intentEvent <= version      \* mutant
Cites(i, e, intentEvent, episodeEvent) ==
    intent[i].since = intentEvent /\ episode[e].since = episodeEvent

(* The checks the reducer makes of each event of a transaction.            *)
Reduces(t) ==
    /\ t.receipt \notin receipts
    /\ \/ /\ t.kind = "open"
          /\ intent[t.intent] = Absent /\ episode[t.episode] = Absent
          /\ lease[t.lease] = Absent /\ TargetFree(t.target)
       \/ /\ t.kind = "finish"
          /\ intent[t.intent].state = "active" /\ episode[t.episode].state = "active"
          /\ Active(t.lease)
       \/ /\ t.kind = "expire"
          /\ Active(t.lease) /\ t.at >= lease[t.lease].expires
       \/ /\ t.kind = "correct"
          /\ intent[t.intent].state = "reported_complete"
          /\ episode[t.episode].state = "reported_complete"
          /\ Cites(t.intent, t.episode, t.intentEvent, t.episodeEvent)
          /\ lease[t.lease] = Absent /\ TargetFree(t.target)

-----------------------------------------------------------------------------
(* Planning.                                                               *)

Idle(s) == plan[s] = NoPlan

(* workProjection refuses a log its reducer refuses.                       *)
Propose(s, t) ==
    /\ Idle(s) /\ ~broken
    /\ plan' = [plan EXCEPT ![s] = t]
    /\ base' = [base EXCEPT ![s] = version]
    /\ UNCHANGED <<now, version, work, handoffs, broken>>

(* What open and correct say of the lease they begin.                      *)
Beginning(s, kind, i, e, l, r, x, until, intentEvent, episodeEvent) ==
    [kind |-> kind, by |-> PrincipalOf[s], intent |-> i, episode |-> e, lease |-> l,
     target |-> x, receipt |-> r, at |-> now, expires |-> until,
     intentEvent |-> intentEvent, episodeEvent |-> episodeEvent, handoff |-> FALSE]

PlanOpen(s) ==
    \E i \in Intent, e \in Episode, l \in Lease, r \in Receipt, x \in Target, until \in Time :
        /\ intent[i] = Absent /\ episode[e] = Absent /\ lease[l] = Absent
        /\ r \notin receipts
        /\ TargetFree(x)
        /\ until > now
        /\ Propose(s, Beginning(s, "open", i, e, l, r, x, until, 0, 0))

(* What finish and expire say of the lease they end.                       *)
Ending(s, kind, l, r, at, handoff) ==
    [kind |-> kind, by |-> PrincipalOf[s], intent |-> lease[l].intent,
     episode |-> lease[l].episode, lease |-> l, target |-> lease[l].target, receipt |-> r,
     at |-> at, expires |-> lease[l].expires, intentEvent |-> 0, episodeEvent |-> 0,
     handoff |-> handoff]

PlanFinish_AnyHolder(s) ==                                                    \* mutant
    \E l \in Lease, r \in Receipt, handoff \in BOOLEAN :
        /\ Active(l) /\ r \notin receipts
        /\ intent[lease[l].intent].state = "active" /\ episode[lease[l].episode].state = "active"
        /\ Propose(s, Ending(s, "finish", l, r, now, handoff))

PlanFinish(s) ==
    \E l \in Lease, r \in Receipt, handoff \in BOOLEAN :
        /\ Active(l) /\ r \notin receipts
        /\ intent[lease[l].intent].state = "active" /\ episode[lease[l].episode].state = "active"
        /\ lease[l].holder = PrincipalOf[s]
        /\ Propose(s, Ending(s, "finish", l, r, now, handoff))

(* The time of an expiry is what the caller says it observed.              *)
PlanExpiry(s) ==
    \E l \in Lease, r \in Receipt, observed \in Time :
        /\ Active(l) /\ r \notin receipts
        /\ observed >= lease[l].expires
        /\ Propose(s, Ending(s, "expire", l, r, observed, FALSE))

PlanCorrection(s) ==
    \E e \in Episode, l \in Lease, r \in Receipt, x \in Target, until \in Time,
       intentEvent, episodeEvent \in 0..version :
        /\ episode[e].state = "reported_complete"
        /\ intent[episode[e].intent].state = "reported_complete"
        /\ Cites(episode[e].intent, e, intentEvent, episodeEvent)
        /\ lease[l] = Absent /\ r \notin receipts
        /\ TargetFree(x)
        /\ until > now
        /\ Propose(s, Beginning(s, "correct", episode[e].intent, e, l, r, x, until,
                                intentEvent, episodeEvent))

-----------------------------------------------------------------------------
(* Reduction of a committed transaction.                                   *)

Intents(t) ==
    [intent EXCEPT ![t.intent] =
        CASE t.kind \in {"open", "correct"} -> [state |-> "active", since |-> version + 1]
          [] t.kind = "finish" -> [state |-> "reported_complete", since |-> version + 1]
          [] OTHER -> @]

Episodes(t) ==
    [episode EXCEPT ![t.episode] =
        CASE t.kind \in {"open", "correct"} ->
                [state |-> "active", since |-> version + 1, intent |-> t.intent]
          [] t.kind = "finish" ->
                [state |-> "reported_complete", since |-> version + 1, intent |-> t.intent]
          [] OTHER -> @]

Leases_KeptByFinish(t) ==                                                     \* mutant
    [lease EXCEPT ![t.lease] =
        CASE t.kind = "finish" -> @
          [] t.kind = "expire" -> [@ EXCEPT !.state = "expired"]
          [] OTHER -> [state |-> "active", target |-> t.target, holder |-> t.by,
                       intent |-> t.intent, episode |-> t.episode, expires |-> t.expires]]

Leases(t) ==
    [lease EXCEPT ![t.lease] =
        CASE t.kind = "finish" -> [@ EXCEPT !.state = "released"]
          [] t.kind = "expire" -> [@ EXCEPT !.state = "expired"]
          [] OTHER -> [state |-> "active", target |-> t.target, holder |-> t.by,
                       intent |-> t.intent, episode |-> t.episode, expires |-> t.expires]]

(* The next reader of the log reduces what was committed, or throws: then   *)
(* so does every planner from now on.                                      *)
Publish(t) ==
    /\ version' = version + 1
    /\ handoffs' = IF t.handoff THEN handoffs \cup {<<t.episode, t.receipt, version + 1>>}
                   ELSE handoffs
    /\ \/ /\ Reduces(t)
          /\ intent' = Intents(t) /\ episode' = Episodes(t) /\ lease' = Leases(t)
          /\ receipts' = receipts \cup {t.receipt}
          /\ UNCHANGED broken
       \/ ~Reduces(t) /\ broken' = TRUE /\ UNCHANGED work

Commit_NoCas(s) ==                                                            \* mutant
    /\ ~Idle(s)
    /\ Publish(plan[s])
    /\ plan' = [plan EXCEPT ![s] = NoPlan]
    /\ base' = [base EXCEPT ![s] = 0]
    /\ UNCHANGED now

Commit(s) ==
    /\ ~Idle(s)
    /\ base[s] = version
    /\ Publish(plan[s])
    /\ plan' = [plan EXCEPT ![s] = NoPlan]
    /\ base' = [base EXCEPT ![s] = 0]
    /\ UNCHANGED now

(* The log has moved, or the commit fails before it publishes.             *)
Refuse(s) ==
    /\ ~Idle(s)
    /\ plan' = [plan EXCEPT ![s] = NoPlan]
    /\ base' = [base EXCEPT ![s] = 0]
    /\ UNCHANGED <<now, version, work, handoffs, broken>>

Tick ==
    /\ now < MaxTime
    /\ now' = now + 1
    /\ UNCHANGED <<version, work, handoffs, broken, plan, base>>

Planning(s) == PlanOpen(s) \/ PlanFinish(s) \/ PlanExpiry(s) \/ PlanCorrection(s)

Next ==
    \/ \E s \in Session : Planning(s) \/ Commit(s) \/ Refuse(s)
    \/ Tick

Spec == Init /\ [][Next]_vars

-----------------------------------------------------------------------------
(***************************************************************************)
(* Properties.                                                             *)
(***************************************************************************)

(* ADR 0015: at most one active lease for a target, however sessions that   *)
(* planned on the same snapshot race to commit.                            *)
OneLeasePerTarget ==
    \A k, l \in Lease : Active(k) /\ Active(l) /\ lease[k].target = lease[l].target => k = l

(* What the planners let through, the reducer of another package accepts:   *)
(* no committed work command makes every later one throw.                  *)
NeverBroken == ~broken

(* A lease is held for work that is going on, by one holder at a time.      *)
LeasesCoverLiveWork ==
    \A l \in Lease : Active(l) =>
        /\ episode[lease[l].episode].state = "active"
        /\ \A k \in Lease : Active(k) /\ lease[k].episode = lease[l].episode => k = l

(* An intent has one episode and both end and reopen together, through any  *)
(* number of completions and corrections.                                  *)
IntentsFollowEpisodes ==
    \A e \in Episode : episode[e] # Absent =>
        /\ intent[episode[e].intent].state = episode[e].state
        /\ intent[episode[e].intent].since = episode[e].since
        /\ \A f \in Episode : episode[f] # Absent /\ episode[f].intent = episode[e].intent => f = e

(* The outbox repeats the answer of an effect key it knows, so a key that   *)
(* two transactions declare would lose a handoff.                          *)
HandoffKeysDistinct ==
    \A g, h \in handoffs : g[1] = h[1] /\ g[2] = h[2] => g = h

Completes(e) == episode[e].state = "active" /\ episode'[e].state = "reported_complete"
Reopens(e) == episode[e].state = "reported_complete" /\ episode'[e].state = "active"
Commits(s) == ~Idle(s) /\ Idle(s)' /\ version' # version

(* Work is reported complete by who holds its lease when the commit takes   *)
(* place, not only when it was planned, and the lease goes with it.         *)
CompletedByHolder ==
    [][\A e \in Episode : Completes(e) =>
          \E s \in Session, l \in Lease :
             /\ Commits(s) /\ Active(l) /\ lease[l].episode = e
             /\ lease[l].holder = PrincipalOf[s]
             /\ lease'[l].state = "released"]_vars

(* ADR 0015: a correction undoes the completion it cites, never a later one *)
(* of the same episode.                                                    *)
CorrectionIsExact ==
    [][\A e \in Episode : Reopens(e) =>
          \E s \in Session :
             /\ Commits(s) /\ plan[s].kind = "correct"
             /\ plan[s].episodeEvent = episode[e].since
             /\ plan[s].intentEvent = intent[episode[e].intent].since]_vars

Stranded(e) ==
    /\ episode[e].state = "active"
    /\ \A l \in Lease : lease[l].state = "active" => lease[l].episode # e

(* When the lease of unfinished work expires there is no way on: finish     *)
(* needs the lease, open new ids, and correct an end.                       *)
ExpiredWorkIsStranded == [][\A e \in Episode : Stranded(e) => episode'[e] = episode[e]]_vars
=============================================================================
