-------------------------- MODULE NativeWorkProofs --------------------------
(***************************************************************************)
(* Proofs of the safety properties of NativeWork, for any sessions,         *)
(* principals, identifiers and clock.  A plan is made on a reduction and    *)
(* committed at the same version, so what the planner checked still holds   *)
(* when the reducer checks it: that is PlansFit, and the rest of the        *)
(* inductive invariant says what the reduction of accepted plans looks like. *)
(***************************************************************************)
EXTENDS NativeWork, TLAPS

(* A plan that the reducer accepts and whose identifiers belong together.   *)
Fits(t) ==
    /\ Reduces(t)
    /\ t.kind \in {"finish", "expire"} =>
         lease[t.lease].episode = t.episode /\ lease[t.lease].intent = t.intent
    /\ t.kind = "correct" => episode[t.episode].intent = t.intent

PlansFit ==
    \A s \in Session : ~Idle(s) /\ base[s] = version =>
        /\ Fits(plan[s])
        /\ plan[s].kind = "finish" => lease[plan[s].lease].holder = PrincipalOf[s]

BasesAreReached == \A s \in Session : base[s] <= version

LeasesFit ==
    \A l \in Lease : lease[l] # Absent =>
        /\ episode[lease[l].episode] # Absent
        /\ episode[lease[l].episode].intent = lease[l].intent

HandoffsHaveReceipts == \A h \in handoffs : h[2] \in receipts

IInv ==
    /\ TypeOK /\ NeverBroken /\ PlansFit /\ BasesAreReached
    /\ OneLeasePerTarget /\ LeasesCoverLiveWork /\ LeasesFit
    /\ IntentsFollowEpisodes
    /\ HandoffKeysDistinct /\ HandoffsHaveReceipts

-----------------------------------------------------------------------------
(* Types.                                                                  *)

(* What finish and expire propose of an active lease is a transaction.      *)
LEMMA EndingTyped ==
    ASSUME TypeOK, NEW s \in Session, NEW kind \in {"finish", "expire"}, NEW l \in Lease,
           lease[l].state = "active", NEW r \in Receipt, NEW at \in Time, NEW handoff \in BOOLEAN
    PROVE  Ending(s, kind, l, r, at, handoff) \in Transaction
<1>1. lease[l] \in LeaseRecord
  BY DEF TypeOK, Absent
<1> QED BY <1>1, WorkAssumption DEF Ending, Transaction, LeaseRecord, Kinds

(* What open and correct propose is a transaction.                         *)
LEMMA BeginningTyped ==
    ASSUME TypeOK, NEW s \in Session, NEW kind \in {"open", "correct"}, NEW i \in Intent,
           NEW e \in Episode, NEW l \in Lease, NEW r \in Receipt, NEW x \in Target,
           NEW until \in Time, NEW intentEvent \in Nat, NEW episodeEvent \in Nat
    PROVE  Beginning(s, kind, i, e, l, r, x, until, intentEvent, episodeEvent) \in Transaction
  BY WorkAssumption DEF Beginning, Transaction, Kinds, TypeOK, Time

(* So is what any planner proposes.                                        *)
LEMMA PlanningTyped ==
    ASSUME TypeOK, NEW s \in Session, Planning(s)
    PROVE  \E t \in Transaction : Propose(s, t)
<1>0. now \in Time
  BY WorkAssumption DEF TypeOK, Time
<1>1. CASE PlanOpen(s)
  BY <1>1, BeginningTyped DEF PlanOpen
<1>2. CASE PlanFinish(s)
  <2>1. PICK l \in Lease, r \in Receipt, handoff \in BOOLEAN :
          Active(l) /\ Propose(s, Ending(s, "finish", l, r, now, handoff))
    BY <1>2 DEF PlanFinish
  <2> QED BY <1>0, <2>1, EndingTyped DEF Active
<1>3. CASE PlanExpiry(s)
  <2>1. PICK l \in Lease, r \in Receipt, observed \in Time :
          Active(l) /\ Propose(s, Ending(s, "expire", l, r, observed, FALSE))
    BY <1>3 DEF PlanExpiry
  <2> QED BY <2>1, EndingTyped DEF Active
<1>4. CASE PlanCorrection(s)
  <2>1. \A e \in Episode : episode[e].state = "reported_complete" => episode[e].intent \in Intent
    BY DEF TypeOK, EpisodeRecord, Absent
  <2>2. 0..version \subseteq Nat
    BY DEF TypeOK
  <2> QED BY <1>4, <2>1, <2>2, BeginningTyped DEF PlanCorrection
<1> QED BY <1>1, <1>2, <1>3, <1>4 DEF Planning

(* The reduction of a committed transaction keeps the types.               *)
LEMMA CommitTyped ==
    ASSUME TypeOK, NEW s \in Session, Commit(s)
    PROVE  TypeOK'
<1> DEFINE t == plan[s]
<1>1. t \in Transaction
  BY DEF TypeOK, Commit, Idle
<1>2. Intents(t) \in [Intent -> IntentRecord \cup {Absent}]
  BY <1>1 DEF Intents, TypeOK, IntentRecord, Transaction
<1>3. Episodes(t) \in [Episode -> EpisodeRecord \cup {Absent}]
  BY <1>1 DEF Episodes, TypeOK, EpisodeRecord, Transaction
<1>4. Reduces(t) => Leases(t) \in [Lease -> LeaseRecord \cup {Absent}]
  <2>1. CASE t.kind \in {"finish", "expire"}
    <3>1. Reduces(t) => lease[t.lease] \in LeaseRecord
      BY <1>1, <2>1 DEF Reduces, Active, TypeOK, Absent, Transaction
    <3> QED BY <1>1, <2>1, <3>1 DEF Leases, TypeOK, LeaseRecord, Transaction
  <2>2. CASE t.kind \in {"open", "correct"}
    BY <1>1, <2>2 DEF Leases, TypeOK, LeaseRecord, Transaction
  <2> QED BY <1>1, <2>1, <2>2 DEF Transaction, Kinds
<1>5. receipts \cup {t.receipt} \subseteq Receipt
  BY <1>1 DEF TypeOK, Transaction
<1>6. handoffs' \subseteq Episode \X Receipt \X Nat
  BY <1>1 DEF Commit, Publish, TypeOK, Transaction
<1>7. /\ intent' \in [Intent -> IntentRecord \cup {Absent}]
      /\ episode' \in [Episode -> EpisodeRecord \cup {Absent}]
      /\ lease' \in [Lease -> LeaseRecord \cup {Absent}]
      /\ receipts' \subseteq Receipt /\ broken' \in BOOLEAN
  <2>1. CASE Reduces(t)
    BY <2>1, <1>2, <1>3, <1>4, <1>5 DEF Commit, Publish, TypeOK
  <2>2. CASE ~Reduces(t)
    BY <2>2 DEF Commit, Publish, TypeOK, work
  <2> QED BY <2>1, <2>2
<1>8. version' \in Nat /\ now' \in 0..MaxTime
  BY DEF Commit, Publish, TypeOK
<1>9. plan' \in [Session -> Transaction \cup {NoPlan}] /\ base' \in [Session -> Nat]
  BY DEF Commit, TypeOK
<1> QED BY <1>6, <1>7, <1>8, <1>9 DEF TypeOK

(* Every step keeps the types.                                             *)
LEMMA TypeStep == TypeOK /\ [Next]_vars => TypeOK'
<1> SUFFICES ASSUME TypeOK, [Next]_vars PROVE TypeOK'
  OBVIOUS
<1>1. CASE \E s \in Session : Planning(s)
  <2>1. PICK s \in Session, t \in Transaction : Propose(s, t)
    BY <1>1, PlanningTyped
  <2> QED BY <2>1 DEF Propose, TypeOK, work
<1>2. CASE \E s \in Session : Commit(s)
  BY <1>2, CommitTyped
<1>3. CASE \E s \in Session : Refuse(s)
  BY <1>3 DEF Refuse, TypeOK, work
<1>4. CASE Tick
  BY <1>4, WorkAssumption DEF Tick, TypeOK, work
<1>5. CASE UNCHANGED vars
  BY <1>5 DEF vars, work, TypeOK
<1> QED BY <1>1, <1>2, <1>3, <1>4, <1>5 DEF Next

(* The state of the native work path keeps its types.                      *)
THEOREM Typed == Spec => []TypeOK
<1>1. ASSUME Init PROVE TypeOK
  <2>1. now \in 0..MaxTime /\ version \in Nat
    BY <1>1, WorkAssumption DEF Init
  <2>2. broken \in BOOLEAN
    BY <1>1 DEF Init
  <2> QED BY <1>1, <2>1, <2>2 DEF Init, TypeOK
<1> QED BY <1>1, TypeStep, PTL DEF Spec

-----------------------------------------------------------------------------
(* The inductive invariant.                                                *)

(* What a planner proposes, the reducer would accept now.                  *)
LEMMA PlanningFits ==
    ASSUME IInv, NEW s \in Session, Planning(s)
    PROVE  \E t \in Transaction :
              /\ Propose(s, t)
              /\ Fits(t)
              /\ t.kind = "finish" => lease[t.lease].holder = PrincipalOf[s]
<1> USE DEF IInv
<1>1. CASE PlanOpen(s)
  <2>1. PICK i \in Intent, e \in Episode, l \in Lease, r \in Receipt, x \in Target, until \in Time :
          /\ intent[i] = Absent /\ episode[e] = Absent /\ lease[l] = Absent
          /\ r \notin receipts /\ TargetFree(x)
          /\ Propose(s, Beginning(s, "open", i, e, l, r, x, until, 0, 0))
    BY <1>1 DEF PlanOpen
  <2> DEFINE t == Beginning(s, "open", i, e, l, r, x, until, 0, 0)
  <2>2. t \in Transaction
    BY BeginningTyped
  <2>3. /\ t.kind = "open" /\ t.intent = i /\ t.episode = e /\ t.lease = l
        /\ t.receipt = r /\ t.target = x
    BY DEF Beginning
  <2>4. Fits(t)
    BY <2>1, <2>3 DEF Fits, Reduces
  <2> QED BY <2>1, <2>2, <2>3, <2>4
<1>2. CASE PlanFinish(s)
  <2>1. PICK l \in Lease, r \in Receipt, handoff \in BOOLEAN :
          /\ Active(l) /\ r \notin receipts
          /\ intent[lease[l].intent].state = "active" /\ episode[lease[l].episode].state = "active"
          /\ lease[l].holder = PrincipalOf[s]
          /\ Propose(s, Ending(s, "finish", l, r, now, handoff))
    BY <1>2 DEF PlanFinish
  <2> DEFINE t == Ending(s, "finish", l, r, now, handoff)
  <2>2. t \in Transaction
    BY <2>1, EndingTyped, WorkAssumption DEF Active, TypeOK, Time
  <2>3. /\ t.kind = "finish" /\ t.intent = lease[l].intent /\ t.episode = lease[l].episode
        /\ t.lease = l /\ t.receipt = r
    BY DEF Ending
  <2>4. Fits(t)
    BY <2>1, <2>3 DEF Fits, Reduces
  <2> QED BY <2>1, <2>2, <2>3, <2>4
<1>3. CASE PlanExpiry(s)
  <2>1. PICK l \in Lease, r \in Receipt, observed \in Time :
          /\ Active(l) /\ r \notin receipts /\ observed >= lease[l].expires
          /\ Propose(s, Ending(s, "expire", l, r, observed, FALSE))
    BY <1>3 DEF PlanExpiry
  <2> DEFINE t == Ending(s, "expire", l, r, observed, FALSE)
  <2>2. t \in Transaction
    BY <2>1, EndingTyped DEF Active
  <2>3. /\ t.kind = "expire" /\ t.intent = lease[l].intent /\ t.episode = lease[l].episode
        /\ t.lease = l /\ t.receipt = r /\ t.at = observed
    BY DEF Ending
  <2>4. Fits(t)
    BY <2>1, <2>3 DEF Fits, Reduces
  <2> QED BY <2>1, <2>2, <2>3, <2>4
<1>4. CASE PlanCorrection(s)
  <2>1. PICK e \in Episode, l \in Lease, r \in Receipt, x \in Target, until \in Time,
             intentEvent, episodeEvent \in 0..version :
          /\ episode[e].state = "reported_complete"
          /\ intent[episode[e].intent].state = "reported_complete"
          /\ Cites(episode[e].intent, e, intentEvent, episodeEvent)
          /\ lease[l] = Absent /\ r \notin receipts /\ TargetFree(x)
          /\ Propose(s, Beginning(s, "correct", episode[e].intent, e, l, r, x, until,
                                  intentEvent, episodeEvent))
    BY <1>4 DEF PlanCorrection
  <2> DEFINE t == Beginning(s, "correct", episode[e].intent, e, l, r, x, until,
                            intentEvent, episodeEvent)
  <2>2. episode[e].intent \in Intent /\ intentEvent \in Nat /\ episodeEvent \in Nat
    BY <2>1 DEF TypeOK, EpisodeRecord, Absent
  <2>3. t \in Transaction
    BY <2>2, BeginningTyped
  <2>4. /\ t.kind = "correct" /\ t.intent = episode[e].intent /\ t.episode = e /\ t.lease = l
        /\ t.receipt = r /\ t.target = x
        /\ t.intentEvent = intentEvent /\ t.episodeEvent = episodeEvent
    BY DEF Beginning
  <2>5. Fits(t)
    BY <2>1, <2>4 DEF Fits, Reduces
  <2> QED BY <2>1, <2>3, <2>4, <2>5
<1> QED BY <1>1, <1>2, <1>3, <1>4 DEF Planning

(* Planning changes no work, so that other plans keep fitting.             *)
LEMMA ProposeKeeps ==
    ASSUME IInv, NEW s \in Session, NEW t \in Transaction, Propose(s, t), Fits(t),
           t.kind = "finish" => lease[t.lease].holder = PrincipalOf[s], TypeOK'
    PROVE  IInv'
<1>1. UNCHANGED <<now, version, intent, episode, lease, receipts, handoffs, broken>>
  BY DEF Propose, work
<1>2. PlansFit'
  <2> SUFFICES ASSUME NEW r \in Session, ~Idle(r)', base'[r] = version'
               PROVE  (Fits(plan[r]) /\ (plan[r].kind = "finish" => lease[plan[r].lease].holder = PrincipalOf[r]))'
    BY DEF PlansFit
  <2>1. Fits(t)' /\ (\A u : Fits(u)' <=> Fits(u))
    BY <1>1 DEF Fits, Reduces, Active, TargetFree, Cites
  <2>2. CASE r = s
    BY <1>1, <2>1, <2>2 DEF Propose, IInv, TypeOK
  <2>3. CASE r # s
    <3>1. plan'[r] = plan[r] /\ base'[r] = base[r]
      BY <2>3 DEF Propose, IInv, TypeOK
    <3>2. ~Idle(r) /\ base[r] = version
      BY <1>1, <3>1 DEF Idle
    <3> QED BY <1>1, <2>1, <3>1, <3>2 DEF IInv, PlansFit
  <2> QED BY <2>2, <2>3
<1>3. BasesAreReached'
  BY <1>1 DEF Propose, IInv, TypeOK, BasesAreReached
<1>4. (/\ NeverBroken /\ OneLeasePerTarget /\ LeasesCoverLiveWork /\ LeasesFit
       /\ IntentsFollowEpisodes /\ HandoffKeysDistinct /\ HandoffsHaveReceipts)'
  BY <1>1 DEF IInv, NeverBroken, OneLeasePerTarget, LeasesCoverLiveWork, LeasesFit, Active,
     IntentsFollowEpisodes, HandoffKeysDistinct, HandoffsHaveReceipts
<1> QED BY <1>2, <1>3, <1>4 DEF IInv

(* A refused commit drops a plan.                                          *)
LEMMA RefuseKeeps ==
    ASSUME IInv, NEW s \in Session, Refuse(s), TypeOK'
    PROVE  IInv'
<1>1. UNCHANGED <<now, version, intent, episode, lease, receipts, handoffs, broken>>
  BY DEF Refuse, work
<1>2. PlansFit'
  <2> SUFFICES ASSUME NEW r \in Session, ~Idle(r)', base'[r] = version'
               PROVE  (Fits(plan[r]) /\ (plan[r].kind = "finish" => lease[plan[r].lease].holder = PrincipalOf[r]))'
    BY DEF PlansFit
  <2>1. \A u : Fits(u)' <=> Fits(u)
    BY <1>1 DEF Fits, Reduces, Active, TargetFree, Cites
  <2>2. plan'[r] = plan[r] /\ base'[r] = base[r] /\ ~Idle(r)
    BY DEF Refuse, IInv, TypeOK, Idle
  <2> QED BY <1>1, <2>1, <2>2 DEF IInv, PlansFit
<1>3. BasesAreReached'
  BY <1>1 DEF Refuse, IInv, TypeOK, BasesAreReached
<1>4. (/\ NeverBroken /\ OneLeasePerTarget /\ LeasesCoverLiveWork /\ LeasesFit
       /\ IntentsFollowEpisodes /\ HandoffKeysDistinct /\ HandoffsHaveReceipts)'
  BY <1>1 DEF IInv, NeverBroken, OneLeasePerTarget, LeasesCoverLiveWork, LeasesFit, Active,
     IntentsFollowEpisodes, HandoffKeysDistinct, HandoffsHaveReceipts
<1> QED BY <1>2, <1>3, <1>4 DEF IInv

(* A commit in which the compare-and-set succeeds is of a plan that fits.   *)
LEMMA CommitEffect ==
    ASSUME IInv, NEW s \in Session, Commit(s)
    PROVE  /\ plan[s] \in Transaction
           /\ Fits(plan[s])
           /\ plan[s].kind = "finish" => lease[plan[s].lease].holder = PrincipalOf[s]
           /\ intent' = Intents(plan[s]) /\ episode' = Episodes(plan[s])
           /\ lease' = Leases(plan[s])
           /\ receipts' = receipts \cup {plan[s].receipt}
           /\ version' = version + 1 /\ broken' = broken
<1>1. plan[s] \in Transaction
  BY DEF IInv, TypeOK, Commit, Idle
<1>2. Fits(plan[s]) /\ (plan[s].kind = "finish" => lease[plan[s].lease].holder = PrincipalOf[s])
  BY DEF IInv, PlansFit, Commit
<1> QED BY <1>1, <1>2 DEF Commit, Publish, Fits

(* What the three ways to reduce a transaction leave behind.               *)
Begun(t) ==
    /\ \/ intent[t.intent] = Absent /\ episode[t.episode] = Absent
       \/ /\ intent[t.intent].state = "reported_complete"
          /\ episode[t.episode].state = "reported_complete"
          /\ episode[t.episode].intent = t.intent
    /\ lease[t.lease] = Absent /\ TargetFree(t.target)
    /\ intent'[t.intent] = [state |-> "active", since |-> version + 1]
    /\ episode'[t.episode] = [state |-> "active", since |-> version + 1, intent |-> t.intent]
    /\ lease'[t.lease] = [state |-> "active", target |-> t.target, holder |-> t.by,
                         intent |-> t.intent, episode |-> t.episode, expires |-> t.expires]

Finished(t) ==
    /\ Active(t.lease) /\ lease[t.lease].episode = t.episode /\ lease[t.lease].intent = t.intent
    /\ episode[t.episode].state = "active" /\ intent[t.intent].state = "active"
    /\ intent'[t.intent] = [state |-> "reported_complete", since |-> version + 1]
    /\ episode'[t.episode] =
         [state |-> "reported_complete", since |-> version + 1, intent |-> t.intent]
    /\ lease'[t.lease] = [lease[t.lease] EXCEPT !.state = "released"]

Expired(t) ==
    /\ Active(t.lease)
    /\ intent' = intent /\ episode' = episode
    /\ lease'[t.lease] = [lease[t.lease] EXCEPT !.state = "expired"]

OthersUnchanged(t) ==
    /\ \A i \in Intent : i # t.intent => intent'[i] = intent[i]
    /\ \A e \in Episode : e # t.episode => episode'[e] = episode[e]
    /\ \A l \in Lease : l # t.lease => lease'[l] = lease[l]

(* Every accepted commit is one of the three.                              *)
LEMMA CommitCases ==
    ASSUME IInv, NEW s \in Session, Commit(s)
    PROVE  /\ OthersUnchanged(plan[s])
           /\ \/ plan[s].kind \in {"open", "correct"} /\ Begun(plan[s])
              \/ plan[s].kind = "finish" /\ Finished(plan[s])
              \/ plan[s].kind = "expire" /\ Expired(plan[s])
<1> DEFINE t == plan[s]
<1> HIDE DEF t
<1>1. /\ t \in Transaction /\ Fits(t)
      /\ intent' = Intents(t) /\ episode' = Episodes(t) /\ lease' = Leases(t)
  BY CommitEffect DEF t
<1>2. t.intent \in Intent /\ t.episode \in Episode /\ t.lease \in Lease /\ t.kind \in Kinds
  BY <1>1 DEF Transaction
<1>3. /\ intent \in [Intent -> IntentRecord \cup {Absent}]
      /\ episode \in [Episode -> EpisodeRecord \cup {Absent}]
      /\ lease \in [Lease -> LeaseRecord \cup {Absent}]
  BY DEF IInv, TypeOK
<1>4. OthersUnchanged(t)
  BY <1>1, <1>2, <1>3 DEF OthersUnchanged, Intents, Episodes, Leases
<1>5. CASE t.kind \in {"open", "correct"}
  <2>1. /\ \/ intent[t.intent] = Absent /\ episode[t.episode] = Absent
           \/ /\ intent[t.intent].state = "reported_complete"
              /\ episode[t.episode].state = "reported_complete"
              /\ episode[t.episode].intent = t.intent
        /\ lease[t.lease] = Absent /\ TargetFree(t.target)
    BY <1>1, <1>5 DEF Fits, Reduces
  <2>2. /\ intent'[t.intent] = [state |-> "active", since |-> version + 1]
        /\ episode'[t.episode] = [state |-> "active", since |-> version + 1, intent |-> t.intent]
        /\ lease'[t.lease] = [state |-> "active", target |-> t.target, holder |-> t.by,
                         intent |-> t.intent, episode |-> t.episode, expires |-> t.expires]
    BY <1>1, <1>2, <1>3, <1>5 DEF Intents, Episodes, Leases
  <2> QED BY <1>4, <1>5, <2>1, <2>2 DEF Begun, t
<1>6. CASE t.kind = "finish"
  <2>1. /\ Active(t.lease) /\ lease[t.lease].episode = t.episode /\ lease[t.lease].intent = t.intent
        /\ episode[t.episode].state = "active" /\ intent[t.intent].state = "active"
    BY <1>1, <1>6 DEF Fits, Reduces
  <2>2. /\ intent'[t.intent] = [state |-> "reported_complete", since |-> version + 1]
        /\ episode'[t.episode] =
             [state |-> "reported_complete", since |-> version + 1, intent |-> t.intent]
        /\ lease'[t.lease] = [lease[t.lease] EXCEPT !.state = "released"]
    BY <1>1, <1>2, <1>3, <1>6 DEF Intents, Episodes, Leases
  <2> QED BY <1>4, <1>6, <2>1, <2>2 DEF Finished, t
<1>7. CASE t.kind = "expire"
  <2>1. Active(t.lease)
    BY <1>1, <1>7 DEF Fits, Reduces
  <2>2. intent' = intent /\ episode' = episode
    BY <1>1, <1>2, <1>3, <1>7 DEF Intents, Episodes
  <2>3. lease'[t.lease] = [lease[t.lease] EXCEPT !.state = "expired"]
    BY <1>1, <1>2, <1>3, <1>7 DEF Leases
  <2> QED BY <1>4, <1>7, <2>1, <2>2, <2>3 DEF Expired, t
<1> QED BY <1>2, <1>5, <1>6, <1>7 DEF Kinds

(* Every plan made before this commit is stale after it.                   *)
LEMMA CommitKeeps ==
    ASSUME IInv, NEW s \in Session, Commit(s), TypeOK'
    PROVE  IInv'
<1> DEFINE t == plan[s]
<1> HIDE DEF t
<1>1. /\ t \in Transaction /\ Fits(t)
      /\ receipts' = receipts \cup {t.receipt}
      /\ version' = version + 1 /\ broken' = broken
  BY CommitEffect DEF t
<1>2. t.intent \in Intent /\ t.episode \in Episode /\ t.lease \in Lease /\ t.kind \in Kinds
  BY <1>1 DEF Transaction
<1>3. OthersUnchanged(t) /\ (Begun(t) \/ Finished(t) \/ Expired(t))
  BY CommitCases DEF t
<1>4. \A l \in Lease : lease[l] # Absent =>
        lease[l] \in LeaseRecord /\ lease[l].episode \in Episode /\ lease[l].intent \in Intent
  BY DEF IInv, TypeOK, LeaseRecord
<1>5. \A e \in Episode : episode[e] # Absent => episode[e].intent \in Intent
  BY DEF IInv, TypeOK, EpisodeRecord
<1>6. Absent.state = "absent"
  BY DEF Absent
<1>7. \A l \in Lease : Active(l) => lease[l] # Absent
  BY <1>6 DEF Active
<1>8. /\ OneLeasePerTarget /\ LeasesCoverLiveWork /\ LeasesFit /\ IntentsFollowEpisodes
  BY DEF IInv
<1>9. NeverBroken'
  BY <1>1 DEF IInv, NeverBroken
<1>10. PlansFit' /\ BasesAreReached'
  <2>1. /\ \A r \in Session : r # s => base'[r] = base[r]
        /\ Idle(s)' /\ base'[s] = 0
    BY DEF Commit, IInv, TypeOK, Idle
  <2>2. \A r \in Session : base[r] \in Nat /\ base[r] <= version
    BY DEF IInv, TypeOK, BasesAreReached
  <2>3. version \in Nat
    BY DEF IInv, TypeOK
  <2> QED BY <1>1, <2>1, <2>2, <2>3 DEF PlansFit, BasesAreReached
<1>11. (HandoffKeysDistinct /\ HandoffsHaveReceipts)'
  <2>1. \A h \in handoffs' : h \in handoffs \/ h = <<t.episode, t.receipt, version + 1>>
    BY DEF Commit, Publish, t
  <2>2. t.receipt \notin receipts
    BY <1>1 DEF Fits, Reduces
  <2> QED BY <1>1, <2>1, <2>2 DEF IInv, HandoffKeysDistinct, HandoffsHaveReceipts
<1>12. CASE Begun(t)
  <2>1. /\ lease'[t.lease].state = "active" /\ lease'[t.lease].target = t.target
        /\ lease'[t.lease].episode = t.episode /\ lease'[t.lease].intent = t.intent
        /\ episode'[t.episode].state = "active" /\ episode'[t.episode].since = version + 1
        /\ episode'[t.episode].intent = t.intent /\ episode'[t.episode] # Absent
        /\ intent'[t.intent].state = "active" /\ intent'[t.intent].since = version + 1
    BY <1>6, <1>12 DEF Begun
  <2>2. episode[t.episode].state # "active"
    BY <1>6, <1>12 DEF Begun
  <2>3. \A l \in Lease : Active(l)' => l = t.lease \/ (Active(l) /\ lease'[l] = lease[l])
    BY <1>3 DEF OthersUnchanged, Active
  <2>4. \A l \in Lease : Active(l) => lease[l].episode # t.episode /\ lease[l].target # t.target
    BY <1>8, <1>12, <2>2 DEF LeasesCoverLiveWork, Begun, TargetFree
  <2>5. OneLeasePerTarget'
    BY <1>8, <2>1, <2>3, <2>4 DEF OneLeasePerTarget
  <2>6. LeasesCoverLiveWork'
    BY <1>3, <1>4, <1>7, <1>8, <2>1, <2>3, <2>4 DEF LeasesCoverLiveWork, OthersUnchanged
  <2>7. LeasesFit'
    BY <1>3, <1>4, <1>8, <1>12, <2>1 DEF LeasesFit, OthersUnchanged, Begun
  <2>8. \A e \in Episode : e # t.episode /\ episode[e] # Absent => episode[e].intent # t.intent
    BY <1>2, <1>6, <1>8, <1>12 DEF IntentsFollowEpisodes, Begun, IInv, TypeOK, EpisodeRecord
  <2>9. IntentsFollowEpisodes'
    BY <1>2, <1>3, <1>5, <1>8, <2>1, <2>8 DEF IntentsFollowEpisodes, OthersUnchanged
  <2> QED BY <1>9, <1>10, <1>11, <2>5, <2>6, <2>7, <2>9 DEF IInv
<1>13. CASE Finished(t)
  <2>1. lease[t.lease] \in LeaseRecord
    BY <1>2, <1>4, <1>7, <1>13 DEF Finished
  <2>2. /\ lease'[t.lease].state = "released" /\ lease'[t.lease].episode = t.episode
        /\ lease'[t.lease].intent = t.intent
        /\ episode'[t.episode].state = "reported_complete"
        /\ episode'[t.episode].since = version + 1
        /\ episode'[t.episode].intent = t.intent /\ episode'[t.episode] # Absent
        /\ intent'[t.intent].state = "reported_complete" /\ intent'[t.intent].since = version + 1
    BY <1>6, <1>13, <2>1 DEF Finished, LeaseRecord
  <2>3. \A l \in Lease : Active(l)' => l # t.lease /\ Active(l) /\ lease'[l] = lease[l]
    BY <1>3, <2>2 DEF OthersUnchanged, Active
  <2>4. \A l \in Lease : Active(l) /\ l # t.lease => lease[l].episode # t.episode
    BY <1>2, <1>8, <1>13 DEF LeasesCoverLiveWork, Finished
  <2>5. OneLeasePerTarget'
    BY <1>8, <2>3 DEF OneLeasePerTarget
  <2>6. LeasesCoverLiveWork'
    BY <1>3, <1>4, <1>7, <1>8, <2>3, <2>4 DEF LeasesCoverLiveWork, OthersUnchanged
  <2>7. episode[t.episode].intent = t.intent /\ episode[t.episode] # Absent
    BY <1>2, <1>6, <1>7, <1>8, <1>13 DEF LeasesFit, Finished
  <2>8. LeasesFit'
    <3> SUFFICES ASSUME NEW l \in Lease, lease'[l] # Absent
                 PROVE  /\ episode'[lease'[l].episode] # Absent
                        /\ episode'[lease'[l].episode].intent = lease'[l].intent
      BY DEF LeasesFit
    <3>1. CASE l = t.lease
      BY <2>2, <3>1
    <3>2. CASE l # t.lease
      <4>1. lease'[l] = lease[l]
        BY <1>3, <3>2 DEF OthersUnchanged
      <4> QED BY <1>3, <1>4, <1>8, <2>2, <2>7, <4>1 DEF LeasesFit, OthersUnchanged
    <3> QED BY <3>1, <3>2
  <2>9. \A e \in Episode : e # t.episode /\ episode[e] # Absent => episode[e].intent # t.intent
    BY <1>2, <1>8, <2>7 DEF IntentsFollowEpisodes
  <2>10. IntentsFollowEpisodes'
    BY <1>2, <1>3, <1>5, <1>8, <2>2, <2>9 DEF IntentsFollowEpisodes, OthersUnchanged
  <2> QED BY <1>9, <1>10, <1>11, <2>5, <2>6, <2>8, <2>10 DEF IInv
<1>14. CASE Expired(t)
  <2>1. lease[t.lease] \in LeaseRecord
    BY <1>2, <1>4, <1>7, <1>14 DEF Expired
  <2>2. /\ lease'[t.lease].state = "expired"
        /\ lease'[t.lease].episode = lease[t.lease].episode
        /\ lease'[t.lease].intent = lease[t.lease].intent
        /\ lease[t.lease] # Absent
    BY <1>2, <1>7, <1>14, <2>1 DEF Expired, LeaseRecord
  <2>3. \A l \in Lease : Active(l)' => l # t.lease /\ Active(l) /\ lease'[l] = lease[l]
    BY <1>3, <2>2 DEF OthersUnchanged, Active
  <2>4. intent' = intent /\ episode' = episode
    BY <1>14 DEF Expired
  <2>5. OneLeasePerTarget'
    BY <1>8, <2>3 DEF OneLeasePerTarget
  <2>6. LeasesCoverLiveWork'
    BY <1>8, <2>3, <2>4 DEF LeasesCoverLiveWork
  <2>7. LeasesFit'
    BY <1>2, <1>3, <1>8, <2>2, <2>4 DEF LeasesFit, OthersUnchanged
  <2>8. IntentsFollowEpisodes'
    BY <1>8, <2>4 DEF IntentsFollowEpisodes
  <2> QED BY <1>9, <1>10, <1>11, <2>5, <2>6, <2>7, <2>8 DEF IInv
<1> QED BY <1>3, <1>12, <1>13, <1>14

(* The invariant is inductive.                                             *)
LEMMA InvStep == IInv /\ [Next]_vars => IInv'
<1> SUFFICES ASSUME IInv, [Next]_vars PROVE IInv'
  OBVIOUS
<1>1. TypeOK'
  BY TypeStep DEF IInv
<1>2. CASE \E s \in Session : Planning(s)
  BY <1>1, <1>2, PlanningFits, ProposeKeeps
<1>3. CASE \E s \in Session : Commit(s)
  BY <1>1, <1>3, CommitKeeps
<1>4. CASE \E s \in Session : Refuse(s)
  BY <1>1, <1>4, RefuseKeeps
<1>5. CASE Tick \/ UNCHANGED vars
  <2>1. UNCHANGED <<version, intent, episode, lease, receipts, handoffs, broken, plan, base>>
    BY <1>5 DEF Tick, vars, work
  <2> QED BY <1>1, <2>1 DEF IInv, NeverBroken, OneLeasePerTarget, LeasesCoverLiveWork, LeasesFit,
       Active, IntentsFollowEpisodes, HandoffKeysDistinct, HandoffsHaveReceipts, PlansFit, Idle,
       Fits, Reduces, TargetFree, Cites, BasesAreReached
<1> QED BY <1>2, <1>3, <1>4, <1>5 DEF Next

(* It holds of every state the native work commands reach.                 *)
THEOREM Invariant == Spec => []IInv
<1>1. Init => TypeOK
  <2> SUFFICES ASSUME Init PROVE TypeOK
    OBVIOUS
  <2>1. now \in 0..MaxTime /\ version \in Nat
    BY WorkAssumption DEF Init
  <2>2. broken \in BOOLEAN
    BY DEF Init
  <2> QED BY <2>1, <2>2 DEF Init, TypeOK
<1>2. ASSUME Init PROVE IInv
  <2>1. /\ \A i \in Intent : intent[i] = Absent
        /\ \A e \in Episode : episode[e] = Absent
        /\ \A l \in Lease : lease[l] = Absent /\ ~Active(l)
        /\ \A s \in Session : Idle(s) /\ base[s] = 0
        /\ handoffs = {} /\ ~broken /\ version = 0
    BY <1>2 DEF Init, Active, Idle, Absent
  <2> QED BY <1>1, <1>2, <2>1 DEF IInv, NeverBroken, OneLeasePerTarget, LeasesCoverLiveWork,
       LeasesFit, IntentsFollowEpisodes, HandoffKeysDistinct, HandoffsHaveReceipts, PlansFit,
       BasesAreReached
<1> QED BY <1>2, InvStep, PTL DEF Spec

(* At most one active lease for a target, whatever sessions race.           *)
THEOREM NeverTwoLeases == Spec => []OneLeasePerTarget
<1>1. IInv => OneLeasePerTarget
  BY DEF IInv
<1> QED BY <1>1, Invariant, PTL

(* The reducer accepts every committed work transaction.                   *)
THEOREM PlansAlwaysReduce == Spec => []NeverBroken
<1>1. IInv => NeverBroken
  BY DEF IInv
<1> QED BY <1>1, Invariant, PTL

(* Leases cover live work, one each.                                       *)
THEOREM LeasedWorkIsLive == Spec => []LeasesCoverLiveWork
<1>1. IInv => LeasesCoverLiveWork
  BY DEF IInv
<1> QED BY <1>1, Invariant, PTL

(* An intent ends and reopens with its one episode.                        *)
THEOREM IntentsAndEpisodes == Spec => []IntentsFollowEpisodes
<1>1. IInv => IntentsFollowEpisodes
  BY DEF IInv
<1> QED BY <1>1, Invariant, PTL

(* No two transactions declare a handoff under one effect key.             *)
THEOREM NoHandoffIsLost == Spec => []HandoffKeysDistinct
<1>1. IInv => HandoffKeysDistinct
  BY DEF IInv
<1> QED BY <1>1, Invariant, PTL

-----------------------------------------------------------------------------
(* What a step may do to an episode.                                       *)

(* An episode changes in commits only.                                     *)
LEMMA EpisodesChangeInCommits ==
    ASSUME TypeOK, [Next]_vars, episode' # episode
    PROVE  \E s \in Session : Commit(s)
<1>1. ASSUME TypeOK, NEW s \in Session, Planning(s) PROVE episode' = episode
  <2>1. PICK t \in Transaction : Propose(s, t)
    BY <1>1, PlanningTyped
  <2> QED BY <2>1 DEF Propose, work
<1>2. \A s \in Session : Refuse(s) => episode' = episode
  BY DEF Refuse, work
<1>3. Tick \/ UNCHANGED vars => episode' = episode
  BY DEF Tick, vars, work
<1> QED BY <1>1, <1>2, <1>3 DEF Next

(* A commit of a session is what the properties call one.                  *)
LEMMA CommitsInCommit == \A s \in Session : IInv /\ Commit(s) => Commits(s)
  BY DEF Commits, Commit, Publish, IInv, TypeOK, Idle

(* Work is completed by who holds its lease when the commit takes place.    *)
THEOREM HoldersComplete == Spec => CompletedByHolder
<1>1. ASSUME IInv, [Next]_vars, NEW e \in Episode, Completes(e)
      PROVE  \E s \in Session, l \in Lease :
                /\ Commits(s) /\ Active(l) /\ lease[l].episode = e
                /\ lease[l].holder = PrincipalOf[s]
                /\ lease'[l].state = "released"
  <2>1. PICK s \in Session : Commit(s)
    BY <1>1, EpisodesChangeInCommits DEF IInv, Completes
  <2> DEFINE t == plan[s]
  <2>2. OthersUnchanged(t) /\ t.lease \in Lease
    BY <1>1, <2>1, CommitCases, CommitEffect DEF Transaction
  <2>3. e = t.episode
    BY <1>1, <2>2 DEF OthersUnchanged, Completes
  <2>4. t.kind = "finish" /\ Finished(t)
    <3>1. ~Begun(t) /\ ~Expired(t)
      BY <1>1, <2>3 DEF Completes, Begun, Expired
    <3> QED BY <1>1, <2>1, <3>1, CommitCases
  <2>5. lease[t.lease].holder = PrincipalOf[s]
    BY <1>1, <2>1, <2>4, CommitEffect
  <2>6. lease[t.lease] \in LeaseRecord
    BY <1>1, <2>2, <2>4 DEF IInv, TypeOK, Finished, Active, Absent
  <2>7. lease'[t.lease].state = "released"
    BY <2>4, <2>6 DEF Finished, LeaseRecord
  <2> QED BY <1>1, <2>1, <2>2, <2>3, <2>4, <2>5, <2>7, CommitsInCommit DEF Finished
<1>2. IInv /\ [Next]_vars =>
        [\A e \in Episode : Completes(e) =>
            \E s \in Session, l \in Lease :
               /\ Commits(s) /\ Active(l) /\ lease[l].episode = e
               /\ lease[l].holder = PrincipalOf[s]
               /\ lease'[l].state = "released"]_vars
  BY <1>1
<1> QED BY <1>2, Invariant, PTL DEF Spec, CompletedByHolder

(* A correction reopens what it cites.                                     *)
THEOREM CorrectionsAreExact == Spec => CorrectionIsExact
<1>1. ASSUME IInv, [Next]_vars, NEW e \in Episode, Reopens(e)
      PROVE  \E s \in Session :
                /\ Commits(s) /\ plan[s].kind = "correct"
                /\ plan[s].episodeEvent = episode[e].since
                /\ plan[s].intentEvent = intent[episode[e].intent].since
  <2>1. PICK s \in Session : Commit(s)
    BY <1>1, EpisodesChangeInCommits DEF IInv, Reopens
  <2> DEFINE t == plan[s]
  <2>2. OthersUnchanged(t) /\ Fits(t)
    BY <1>1, <2>1, CommitCases, CommitEffect
  <2>3. e = t.episode
    BY <1>1, <2>2 DEF OthersUnchanged, Reopens
  <2>4. t.kind = "correct"
    <3>1. t.kind \in {"open", "correct"}
      BY <1>1, <2>1, <2>3, CommitCases DEF Reopens, Finished, Expired
    <3> QED BY <1>1, <2>2, <2>3, <3>1 DEF Fits, Reduces, Reopens, Absent
  <2>5. Cites(t.intent, e, t.intentEvent, t.episodeEvent) /\ episode[e].intent = t.intent
    BY <2>2, <2>3, <2>4 DEF Fits, Reduces
  <2> QED BY <1>1, <2>1, <2>4, <2>5, CommitsInCommit DEF Cites
<1>2. IInv /\ [Next]_vars =>
        [\A e \in Episode : Reopens(e) =>
            \E s \in Session :
               /\ Commits(s) /\ plan[s].kind = "correct"
               /\ plan[s].episodeEvent = episode[e].since
               /\ plan[s].intentEvent = intent[episode[e].intent].since]_vars
  BY <1>1
<1> QED BY <1>2, Invariant, PTL DEF Spec, CorrectionIsExact

(* Unfinished work whose lease has expired never changes again.            *)
THEOREM StrandedForGood == Spec => ExpiredWorkIsStranded
<1>1. ASSUME IInv, [Next]_vars, NEW e \in Episode, Stranded(e)
      PROVE  episode'[e] = episode[e]
  <2>1. CASE episode' = episode
    BY <2>1
  <2>2. CASE episode' # episode
    <3>1. PICK s \in Session : Commit(s)
      BY <1>1, <2>2, EpisodesChangeInCommits DEF IInv
    <3> DEFINE t == plan[s]
    <3>2. /\ OthersUnchanged(t) /\ t.lease \in Lease
          /\ Begun(t) \/ Finished(t) \/ Expired(t)
      BY <1>1, <3>1, CommitCases, CommitEffect DEF Transaction
    <3>3. CASE e = t.episode
      BY <1>1, <2>2, <3>2, <3>3 DEF Stranded, Begun, Finished, Expired, Active, Absent
    <3>4. CASE e # t.episode
      BY <3>2, <3>4 DEF OthersUnchanged
    <3> QED BY <3>3, <3>4
  <2> QED BY <2>1, <2>2
<1>2. IInv /\ [Next]_vars => [\A e \in Episode : Stranded(e) => episode'[e] = episode[e]]_vars
  BY <1>1
<1> QED BY <1>2, Invariant, PTL DEF Spec, ExpiredWorkIsStranded
=============================================================================
