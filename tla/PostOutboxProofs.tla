--------------------------- MODULE PostOutboxProofs ---------------------------
(***************************************************************************)
(* Proofs of the safety properties of PostOutbox, for any callers, any      *)
(* number of daemons and any budget of attempts: first what holds however   *)
(* late a dispatch ends, then what holds while every dispatch is prompt.    *)
(***************************************************************************)
EXTENDS PostOutbox, TLAPS

(* A call is served for a row that is there, and a poster for the command   *)
(* it asked for.                                                            *)
RowIsThere ==
    /\ row.state = "absent" <=> row.command = None
    /\ \A h \in Handler : pc[h] # "idle" => row.state # "absent"
    /\ \A h \in Poster : pc[h] # "idle" => row.command = CommandOf[h]

(* Mentions are delivered once, and before the row is completed.            *)
Deliveries == OneMention /\ (row.state = "completed" => mentions > 0)

(* When every line is appended whole, a call whose effects are due finds    *)
(* the message in the file.                                                 *)
WholeLines ==
    ~TornWrites => /\ ~torn
                   /\ \A h \in Handler : pc[h] = "effects" => copies > 0
                   /\ mentions > 0 => copies > 0

AnswersHold ==
    \A h \in Poster :
        /\ answer[h] = "posted" => mentions > 0 /\ row.command = CommandOf[h]
        /\ answer[h] = "conflict" => row.command \notin {None, CommandOf[h]}

IInv == TypeOK /\ RowIsThere /\ Deliveries /\ WholeLines /\ AnswersHold /\ AttemptsDiffer

(* While dispatches are prompt, a dispatch holds the row.                   *)
HoldsRow ==
    \A h \in Handler : Dispatching(h) =>
        /\ row.state = "processing"
        /\ row.lease
        /\ row.owner = home[h]

(* The file was searched and the message not found, and nobody else writes. *)
NothingWritten == \A h \in Handler : pc[h] = "write" => copies = 0

PInv ==
    /\ IInv
    /\ HoldsRow /\ OneDispatcher
    /\ OneCopy /\ NothingWritten
    /\ DeliveredMeansCompleted

-----------------------------------------------------------------------------
(* Types.                                                                  *)

(* What a step does to the row keeps it a row.                              *)
LEMMA RowsTyped ==
    ASSUME NEW r \in Row
    PROVE  /\ Reset(r) \in Row
           /\ \A p \in Process : Claimed(r, p) \in Row
           /\ \A s \in States : Settled(r, s) \in Row
           /\ \A c \in Command : Requested(r, c) \in Row
           /\ [r EXCEPT !.lease = FALSE] \in Row
<1>1. Reset(r) \in Row
  BY DEF Row, States, Reset
<1>2. \A p \in Process : Claimed(r, p) \in Row
  <2> SUFFICES ASSUME NEW p \in Process PROVE Claimed(r, p) \in Row
    OBVIOUS
  <2>1. r.attempt + 1 \in Nat
    BY DEF Row
  <2>2. Claimed(r, p) = [r EXCEPT !.state = "processing", !.attempt = r.attempt + 1,
                                  !.owner = p, !.lease = TRUE]
    BY DEF Claimed, Row
  <2> QED BY <2>1, <2>2 DEF Row, States
<1>3. \A s \in States : Settled(r, s) \in Row
  BY DEF Row, Settled
<1>4. \A c \in Command : Requested(r, c) \in Row
  BY DEF Row, States, Requested
<1>5. [r EXCEPT !.lease = FALSE] \in Row
  BY DEF Row
<1> QED BY <1>1, <1>2, <1>3, <1>4, <1>5

(* A call that enters, moves or returns keeps the types of the calls.       *)
LEMMA EnterTyped ==
    ASSUME TypeOK, NEW h \in Handler, NEW p \in alive, pc[h] = "idle", Enter(h, p),
           alive' = alive, row' \in Row, UNCHANGED <<copies, torn, mentions>>
    PROVE  TypeOK'
  BY OutboxAssumption DEF TypeOK, Enter, Locations, Answers, Dispatching

LEMMA MoveTyped ==
    ASSUME TypeOK, NEW h \in Handler, Dispatching(h),
           NEW l \in {"append", "write", "effects", "fail"}, Move(h, l),
           alive' = alive, row' \in Row, copies' \in Nat, torn' \in BOOLEAN, mentions' \in Nat
    PROVE  TypeOK'
  BY OutboxAssumption DEF TypeOK, Move, Locations, Answers, Dispatching

LEMMA ReturnTyped ==
    ASSUME TypeOK, NEW h \in Handler, NEW a \in Answers, Return(h, a),
           alive' = alive, row' \in Row, copies' \in Nat, torn' \in BOOLEAN, mentions' \in Nat
    PROVE  TypeOK'
  BY OutboxAssumption DEF TypeOK, Return, Locations, Answers, Dispatching

LEMMA PrepareTyped ==
    ASSUME TypeOK, NEW h \in Poster, NEW p \in Process, Prepare(h, p)
    PROVE  TypeOK'
<1> USE DEF Handler
<1>0. CommandOf[h] \in Command
  BY OutboxAssumption
<1>1. row' \in Row
  BY <1>0, RowsTyped DEF Prepare, TypeOK
<1>2. CASE Enter(h, p)
  BY <1>1, <1>2, EnterTyped DEF Prepare
<1>3. CASE Return(h, "conflict")
  BY <1>1, <1>3, ReturnTyped DEF Prepare, Answers, TypeOK
<1> QED BY <1>2, <1>3 DEF Prepare

LEMMA RepairTyped ==
    ASSUME TypeOK, NEW h \in Repairer, NEW p \in Process, Repair(h, p)
    PROVE  TypeOK'
<1> USE DEF Handler
<1>1. row' \in Row
  BY RowsTyped DEF Repair, TypeOK
<1>2. CASE Enter(h, p)
  BY <1>1, <1>2, EnterTyped DEF Repair
<1>3. CASE Return(h, "not_found") \/ Return(h, "busy")
  BY <1>1, <1>3, ReturnTyped DEF Repair, Answers, TypeOK
<1> QED BY <1>2, <1>3 DEF Repair

LEMMA ClaimTyped ==
    ASSUME TypeOK, NEW h \in Handler, Claim(h)
    PROVE  TypeOK'
<1>1. home[h] \in alive /\ home[h] \in Process
  BY DEF TypeOK, Claim
<1>2. row' \in Row
  BY <1>1, RowsTyped DEF Claim, TypeOK, States
<1>3. CASE \E a \in {"posted", "dead_letter", "busy"} : Return(h, a)
  BY <1>2, <1>3, ReturnTyped DEF Claim, Answers, TypeOK
<1>4. CASE /\ row.attempt + 1 <= MaxAttempts
           /\ claimed' = [claimed EXCEPT ![h] = row.attempt + 1]
           /\ pc' = [pc EXCEPT ![h] = "append"]
           /\ UNCHANGED <<home, answer>>
  <2>1. row.attempt + 1 \in 0..MaxAttempts /\ row.attempt + 1 > 0
    BY <1>4, OutboxAssumption DEF TypeOK, Row
  <2> QED BY <1>1, <1>2, <1>4, <2>1, OutboxAssumption DEF Claim, TypeOK, Locations, Dispatching
<1> QED BY <1>3, <1>4 DEF Claim

LEMMA ServeTyped ==
    ASSUME TypeOK, NEW h \in Handler, Serve(h)
    PROVE  TypeOK'
<1>1. CASE Claim(h)
  BY <1>1, ClaimTyped
<1>2. CASE ClaimFails(h) \/ FailThrows(h)
  BY <1>2, ReturnTyped DEF ClaimFails, FailThrows, Answers, durable, TypeOK
<1>3. CASE ReadMessages(h) \/ EffectsFail(h)
  BY <1>3, MoveTyped DEF ReadMessages, EffectsFail, Dispatching, durable, TypeOK
<1>4. CASE WriteMessage(h)
  <2>1. copies' \in Nat
    BY <1>4 DEF WriteMessage, TypeOK
  <2>2. torn' \in BOOLEAN
    BY <1>4 DEF WriteMessage
  <2> QED BY <1>4, <2>1, <2>2, MoveTyped DEF WriteMessage, Dispatching, TypeOK
<1>5. CASE PersistFails(h)
  <2>1. torn' \in BOOLEAN
    BY <1>5 DEF PersistFails, TypeOK
  <2> QED BY <1>5, <2>1, MoveTyped DEF PersistFails, Dispatching, TypeOK
<1>6. CASE CompleteEffects(h)
  <2>1. row' \in Row
    BY <1>6, RowsTyped DEF CompleteEffects, TypeOK, States
  <2> QED BY <1>6, <2>1, ReturnTyped DEF CompleteEffects, Answers, TypeOK
<1>7. CASE FailRecord(h)
  <2>1. row' \in Row
    BY <1>7, RowsTyped DEF FailRecord, TypeOK, States
  <2>2. Return(h, "pending") \/ Return(h, "dead_letter")
    BY <1>7 DEF FailRecord
  <2> QED BY <1>7, <2>1, <2>2, ReturnTyped DEF FailRecord, Answers, TypeOK
<1> QED BY <1>1, <1>2, <1>3, <1>4, <1>5, <1>6, <1>7 DEF Serve

LEMMA CrashTyped ==
    ASSUME TypeOK, NEW p \in Process, Crash(p)
    PROVE  TypeOK'
<1>1. torn' \in BOOLEAN /\ alive' \subseteq Process /\ row' \in Row /\ copies' \in Nat
      /\ mentions' \in Nat
  BY DEF Crash, TypeOK
<1>2. /\ pc' \in [Handler -> Locations]
      /\ home' \in [Handler -> alive' \cup {None}]
      /\ claimed' \in [Handler -> 0..MaxAttempts]
      /\ answer' \in [Handler -> Answers]
  BY OutboxAssumption DEF Crash, TypeOK, Locations, Answers
<1>3. \A h \in Handler : pc'[h] = "idle" <=> home'[h] = None
  BY OutboxAssumption DEF Crash, TypeOK
<1>4. \A h \in Handler : Dispatching(h)' <=> claimed'[h] > 0
  BY OutboxAssumption DEF Crash, TypeOK, Dispatching
<1> QED BY <1>1, <1>2, <1>3, <1>4 DEF TypeOK

LEMMA TypesStep == TypeOK /\ [Next]_vars => TypeOK'
<1> SUFFICES ASSUME TypeOK, [Next]_vars PROVE TypeOK'
  OBVIOUS
<1>1. ASSUME NEW h \in Handler, Call(h) PROVE TypeOK'
  BY <1>1, PrepareTyped, RepairTyped DEF Call
<1>2. ASSUME NEW h \in Handler, Serve(h) PROVE TypeOK'
  BY <1>2, ServeTyped
<1>3. CASE Crashes
  BY <1>3, CrashTyped DEF Crashes
<1>4. CASE LeaseRunsOut
  BY <1>4, RowsTyped DEF LeaseRunsOut, TypeOK, Dispatching
<1>5. CASE UNCHANGED vars
  BY <1>5 DEF vars, TypeOK, Dispatching
<1> QED BY <1>1, <1>2, <1>3, <1>4, <1>5 DEF Next, Calls

LEMMA TypesInit == Init => TypeOK
<1> SUFFICES ASSUME Init PROVE TypeOK
  OBVIOUS
<1>1. row \in Row
  BY DEF Init, Row, States
<1>2. torn \in BOOLEAN /\ copies \in Nat /\ mentions \in Nat /\ alive \subseteq Process
  BY DEF Init
<1>3. pc \in [Handler -> Locations] /\ answer \in [Handler -> Answers]
  BY DEF Init, Locations, Answers
<1>4. home \in [Handler -> alive \cup {None}] /\ claimed \in [Handler -> 0..MaxAttempts]
  BY OutboxAssumption DEF Init
<1>5. \A h \in Handler : /\ pc[h] = "idle" <=> home[h] = None
                         /\ Dispatching(h) <=> claimed[h] > 0
  BY DEF Init, Dispatching
<1> QED BY <1>1, <1>2, <1>3, <1>4, <1>5 DEF TypeOK

(* Every variable has its type.                                             *)
THEOREM Typed == Spec => []TypeOK
  BY TypesInit, TypesStep, PTL DEF Spec

-----------------------------------------------------------------------------
(* What holds however late a dispatch ends.                                *)

(* What each step may do to the row: it is written once, with its command,  *)
(* and a repair alone takes its attempts back.                              *)
LEMMA RowFields ==
    ASSUME NEW r \in Row
    PROVE  /\ \A c : Requested(r, c).state = "pending" /\ Requested(r, c).command = c
                    /\ Requested(r, c).attempt = r.attempt
           /\ Reset(r).state = "pending" /\ Reset(r).command = r.command
           /\ \A p : /\ Claimed(r, p).state = "processing"
                    /\ Claimed(r, p).command = r.command
                    /\ Claimed(r, p).attempt = r.attempt + 1
                    /\ Claimed(r, p).owner = p
                    /\ Claimed(r, p).lease
           /\ \A s : /\ Settled(r, s).state = s
                    /\ Settled(r, s).command = r.command
                    /\ Settled(r, s).attempt = r.attempt
  BY DEF Row, Requested, Reset, Claimed, Settled

LEMMA LateCall ==
    ASSUME IInv, NEW h \in Handler, Call(h)
    PROVE  (RowIsThere /\ Deliveries /\ WholeLines /\ AnswersHold)'
<1>0. TypeOK /\ RowIsThere /\ Deliveries /\ WholeLines /\ AnswersHold /\ h \in Handler
      /\ row \in Row
  BY DEF IInv, TypeOK
<1>1. ASSUME NEW p \in Process, h \in Poster, Prepare(h, p)
      PROVE  (RowIsThere /\ Deliveries /\ WholeLines /\ AnswersHold)'
  <2>0. CommandOf[h] \in Command /\ CommandOf[h] # None
    BY <1>1, OutboxAssumption
  <2>1. /\ mentions' = mentions /\ copies' = copies /\ torn' = torn
        /\ row' = row \/ (row.state = "absent" /\ row' = Requested(row, CommandOf[h]))
    BY <1>1 DEF Prepare
  <2>2. row.state # "absent" => row' = row
    BY <2>1
  <2>3. Deliveries'
    BY <1>0, <2>1, RowFields DEF Deliveries, OneMention
  <2>4. WholeLines'
    BY <1>0, <1>1, <2>1 DEF WholeLines, Prepare, Enter, Return, TypeOK
  <2>5. RowIsThere'
    BY <1>0, <1>1, <2>0, RowFields DEF RowIsThere, Prepare, Enter, Return, TypeOK, Handler
  <2>6. AnswersHold'
    <3>1. \A g \in Poster : answer[g] \in {"posted", "conflict"} => row.state # "absent"
      <4>1. \A g \in Poster : CommandOf[g] # None
        BY OutboxAssumption
      <4> QED BY <1>0, <4>1 DEF AnswersHold, RowIsThere
    <3>2. /\ \A g \in Poster : g # h => answer'[g] = answer[g]
          /\ \/ answer'[h] = "none"
             \/ /\ answer'[h] = "conflict" /\ row' = row
                /\ row.command \notin {None, CommandOf[h]}
      BY <1>0, <1>1 DEF RowIsThere, Prepare, Enter, Return, TypeOK, Handler
    <3> QED BY <1>0, <2>1, <3>1, <3>2, OutboxAssumption DEF AnswersHold
  <2> QED BY <2>3, <2>4, <2>5, <2>6
<1>2. ASSUME NEW p \in Process, h \in Repairer, Repair(h, p)
      PROVE  (RowIsThere /\ Deliveries /\ WholeLines /\ AnswersHold)'
  <2>1. /\ mentions' = mentions /\ copies' = copies /\ torn' = torn
        /\ row' = row \/ (row.state # "absent" /\ row' = Reset(row))
        /\ h \notin Poster
    BY <1>2, OutboxAssumption DEF Repair
  <2>2. row'.command = row.command /\ (row'.state = "absent" <=> row.state = "absent")
    BY <1>0, <2>1, RowFields
  <2>3. Deliveries'
    BY <1>0, <2>1, RowFields DEF Deliveries, OneMention
  <2>4. WholeLines'
    BY <1>0, <1>2, <2>1 DEF WholeLines, Repair, Enter, Return, TypeOK
  <2>5. RowIsThere'
    BY <1>0, <1>2, <2>1, <2>2 DEF RowIsThere, Repair, Enter, Return, TypeOK, Handler
  <2>6. AnswersHold'
    <3>1. \A g \in Poster : answer'[g] = answer[g]
      BY <1>0, <1>2, <2>1 DEF Repair, Enter, Return, TypeOK, Handler
    <3> QED BY <1>0, <2>1, <2>2, <3>1 DEF AnswersHold
  <2> QED BY <2>3, <2>4, <2>5, <2>6
<1> QED BY <1>1, <1>2 DEF Call

LEMMA LateServe ==
    ASSUME IInv, NEW h \in Handler, Serve(h)
    PROVE  (RowIsThere /\ Deliveries /\ WholeLines /\ AnswersHold)'
<1>0. TypeOK /\ RowIsThere /\ Deliveries /\ WholeLines /\ AnswersHold /\ row \in Row
  BY DEF IInv, TypeOK
<1>1. pc[h] # "idle"
  BY DEF Serve, Claim, ClaimFails, ReadMessages, WriteMessage, PersistFails, CompleteEffects,
         EffectsFail, FailRecord, FailThrows
<1>2. row.state # "absent" /\ (h \in Poster => row.command = CommandOf[h])
  BY <1>0, <1>1 DEF RowIsThere
<1>3. /\ row'.command = row.command
      /\ row'.state # "absent"
      /\ row'.state = "completed" => row.state = "completed" \/ CompleteEffects(h)
  <2>1. CASE Claim(h)
    <3>1. row' = row \/ row' = Claimed(row, home[h])
          \/ row' = Settled(Claimed(row, home[h]), "dead_letter")
      BY <2>1 DEF Claim
    <3>2. Claimed(row, home[h]) \in Row
      BY <1>0, <2>1, RowsTyped DEF Claim, TypeOK
    <3> QED BY <1>0, <1>2, <3>1, <3>2, RowFields
  <2>2. CASE FailRecord(h)
    BY <1>0, <2>2, RowFields DEF FailRecord
  <2>3. CASE CompleteEffects(h)
    BY <1>0, <2>3, RowFields DEF CompleteEffects
  <2>4. CASE row' = row
    BY <1>2, <2>4
  <2> QED
    BY <2>1, <2>2, <2>3, <2>4
    DEF Serve, ClaimFails, ReadMessages, WriteMessage, PersistFails, EffectsFail, FailThrows,
        durable
<1>4. mentions' = mentions \/ (CompleteEffects(h) /\ mentions = 0 /\ mentions' = 1)
  BY DEF Serve, Claim, ClaimFails, ReadMessages, WriteMessage, PersistFails, CompleteEffects,
         EffectsFail, FailRecord, FailThrows, durable
<1>5. CompleteEffects(h) => mentions' > 0 /\ pc[h] = "effects"
  BY <1>0 DEF CompleteEffects, TypeOK
<1>6. /\ \A g \in Handler : g # h => pc'[g] = pc[g] /\ answer'[g] = answer[g]
      /\ \/ answer'[h] \in {answer[h], "dead_letter", "busy", "pending", "error"}
         \/ answer'[h] = "posted" /\ (row.state = "completed" \/ CompleteEffects(h))
  <2>1. CASE Claim(h)
    BY <1>0, <2>1 DEF Claim, Return, TypeOK
  <2>2. CASE ClaimFails(h) \/ FailThrows(h)
    BY <1>0, <2>2 DEF ClaimFails, FailThrows, Return, TypeOK
  <2>3. CASE ReadMessages(h) \/ WriteMessage(h) \/ PersistFails(h) \/ EffectsFail(h)
    BY <1>0, <2>3 DEF ReadMessages, WriteMessage, PersistFails, EffectsFail, Move, TypeOK
  <2>4. CASE CompleteEffects(h)
    BY <1>0, <2>4 DEF CompleteEffects, Return, TypeOK
  <2>5. CASE FailRecord(h)
    BY <1>0, <2>5 DEF FailRecord, Return, TypeOK
  <2> QED BY <2>1, <2>2, <2>3, <2>4, <2>5 DEF Serve
<1>7. Deliveries'
  BY <1>0, <1>3, <1>4, <1>5 DEF Deliveries, OneMention, TypeOK
<1>8. RowIsThere'
  BY <1>0, <1>1, <1>2, <1>3, <1>6 DEF RowIsThere, Handler
<1>9. AnswersHold'
  BY <1>0, <1>2, <1>3, <1>4, <1>5, <1>6, OutboxAssumption
     DEF AnswersHold, Deliveries, TypeOK, Handler
<1>10. WholeLines'
  <2> SUFFICES ASSUME ~TornWrites PROVE WholeLines'
    BY DEF WholeLines
  <2>1. ~torn /\ (mentions > 0 => copies > 0)
        /\ \A g \in Handler : pc[g] = "effects" => copies > 0
    BY <1>0 DEF WholeLines
  <2>2. ~torn'
    BY <2>1 DEF Serve, Claim, ClaimFails, ReadMessages, WriteMessage, PersistFails,
         CompleteEffects, EffectsFail, FailRecord, FailThrows, durable
  <2>3. copies' = copies \/ (WriteMessage(h) /\ copies' = copies + 1)
    BY <2>1 DEF Serve, Claim, ClaimFails, ReadMessages, WriteMessage, PersistFails,
         CompleteEffects, EffectsFail, FailRecord, FailThrows, durable
  <2>4. copies > 0 => copies' > 0
    BY <1>0, <2>3 DEF TypeOK
  <2>5. pc'[h] = "effects" => copies' > 0
    <3>1. CASE WriteMessage(h)
      BY <1>0, <2>1, <3>1 DEF WriteMessage, TypeOK
    <3>2. CASE ReadMessages(h)
      BY <1>0, <3>2 DEF ReadMessages, durable, Move, TypeOK
    <3>3. CASE ~WriteMessage(h) /\ ~ReadMessages(h)
      BY <1>0, <3>3 DEF Serve, Claim, ClaimFails, PersistFails, CompleteEffects, EffectsFail,
           FailRecord, FailThrows, Move, Return, TypeOK
    <3> QED BY <3>1, <3>2, <3>3
  <2>6. mentions' > 0 => copies' > 0
    BY <1>4, <1>5, <2>1, <2>4
  <2> QED BY <1>6, <2>1, <2>2, <2>4, <2>5, <2>6 DEF WholeLines
<1> QED BY <1>7, <1>8, <1>9, <1>10

LEMMA LateCrash ==
    ASSUME IInv, NEW p \in Process, Crash(p)
    PROVE  (RowIsThere /\ Deliveries /\ WholeLines /\ AnswersHold)'
<1>0. RowIsThere /\ Deliveries /\ WholeLines /\ AnswersHold /\ TypeOK
  BY DEF IInv
<1>1. /\ UNCHANGED <<row, copies, mentions>>
      /\ ~TornWrites => torn' = torn
      /\ \A h \in Handler : pc'[h] \in {"idle", pc[h]} /\ answer'[h] \in {"lost", answer[h]}
  BY <1>0 DEF Crash, TypeOK
<1>2. RowIsThere' /\ AnswersHold'
  BY <1>0, <1>1 DEF RowIsThere, AnswersHold, Handler
<1>3. Deliveries' /\ WholeLines'
  BY <1>0, <1>1 DEF Deliveries, OneMention, WholeLines
<1> QED BY <1>2, <1>3

(* A step takes the next attempt, or none: the attempts under way stay or   *)
(* end, and without a repair the row forgets none of them.                  *)
LEMMA AttemptsMove ==
    ASSUME TypeOK, [Next]_vars, Repairer = {}
    PROVE  \/ \E h \in Handler :
                /\ row'.attempt = row.attempt + 1
                /\ claimed' = [claimed EXCEPT ![h] = row.attempt + 1]
           \/ /\ row'.attempt >= row.attempt
              /\ \A g \in Handler : claimed'[g] \in {0, claimed[g]}
<1>0. row \in Row /\ row.attempt \in Nat /\ claimed \in [Handler -> 0..MaxAttempts]
  BY DEF TypeOK, Row
<1>1. ASSUME NEW h \in Handler, Call(h) PROVE
        /\ row'.attempt >= row.attempt
        /\ \A g \in Handler : claimed'[g] \in {0, claimed[g]}
  BY <1>0, <1>1, RowFields DEF Call, Prepare, Enter, Return
<1>2. ASSUME NEW h \in Handler, Claim(h) PROVE
        \/ /\ row'.attempt = row.attempt + 1
           /\ claimed' = [claimed EXCEPT ![h] = row.attempt + 1]
        \/ /\ row'.attempt >= row.attempt
           /\ \A g \in Handler : claimed'[g] \in {0, claimed[g]}
  <2>1. Claimed(row, home[h]) \in Row
    BY <1>2, RowsTyped DEF Claim, TypeOK
  <2>2. /\ Claimed(row, home[h]).attempt = row.attempt + 1
        /\ Settled(Claimed(row, home[h]), "dead_letter").attempt = row.attempt + 1
    BY <1>0, <2>1, RowFields
  <2>3. CASE claimed' = [claimed EXCEPT ![h] = 0]
    BY <1>0, <1>2, <2>2, <2>3 DEF Claim
  <2>4. CASE row' = Claimed(row, home[h]) /\ claimed' = [claimed EXCEPT ![h] = row.attempt + 1]
    BY <2>2, <2>4
  <2> QED BY <1>2, <2>3, <2>4 DEF Claim, Return
<1>3. ASSUME NEW h \in Handler, Serve(h), ~Claim(h) PROVE
        /\ row'.attempt >= row.attempt
        /\ \A g \in Handler : claimed'[g] \in {0, claimed[g]}
  <2>1. row'.attempt = row.attempt
    BY <1>0, <1>3, RowFields
       DEF Serve, ClaimFails, ReadMessages, WriteMessage, PersistFails, CompleteEffects,
           EffectsFail, FailRecord, FailThrows, durable
  <2>2. claimed' = claimed \/ claimed' = [claimed EXCEPT ![h] = 0]
    BY <1>3 DEF Serve, ClaimFails, ReadMessages, WriteMessage, PersistFails, CompleteEffects,
           EffectsFail, FailRecord, FailThrows, Move, Return
  <2> QED BY <1>0, <2>1, <2>2
<1>4. ASSUME NEW p \in Process, Crash(p) PROVE
        /\ row'.attempt >= row.attempt
        /\ \A g \in Handler : claimed'[g] \in {0, claimed[g]}
  BY <1>0, <1>4 DEF Crash
<1>5. CASE LeaseRunsOut
  BY <1>0, <1>5 DEF LeaseRunsOut, Row
<1>6. CASE UNCHANGED vars
  BY <1>0, <1>6 DEF vars
<1> QED BY <1>1, <1>2, <1>3, <1>4, <1>5, <1>6 DEF Next, Calls, Crashes

LEMMA AttemptsStep ==
    ASSUME IInv, [Next]_vars, TypeOK'
    PROVE  AttemptsDiffer'
<1> SUFFICES ASSUME Repairer = {}
             PROVE  /\ \A h \in Handler : claimed'[h] <= row'.attempt
                    /\ \A g, h \in Handler :
                         claimed'[g] > 0 /\ claimed'[g] = claimed'[h] => g = h
  BY DEF AttemptsDiffer, TypeOK
<1>0. /\ row.attempt \in Nat /\ row'.attempt \in Nat
      /\ claimed \in [Handler -> 0..MaxAttempts] /\ MaxAttempts \in Nat
  BY OutboxAssumption DEF IInv, TypeOK, Row
<1>1. /\ \A h \in Handler : claimed[h] <= row.attempt
      /\ \A g, h \in Handler : claimed[g] > 0 /\ claimed[g] = claimed[h] => g = h
  BY DEF IInv, AttemptsDiffer, TypeOK
<1>2. CASE \E h \in Handler : /\ row'.attempt = row.attempt + 1
                             /\ claimed' = [claimed EXCEPT ![h] = row.attempt + 1]
  BY <1>0, <1>1, <1>2
<1>3. CASE /\ row'.attempt >= row.attempt
           /\ \A g \in Handler : claimed'[g] \in {0, claimed[g]}
  BY <1>0, <1>1, <1>3
<1> QED BY <1>2, <1>3, AttemptsMove DEF IInv

LEMMA LateStep == IInv /\ [Next]_vars => IInv'
<1> SUFFICES ASSUME IInv, [Next]_vars PROVE IInv'
  OBVIOUS
<1>1. TypeOK'
  BY TypesStep DEF IInv
<1>2. AttemptsDiffer'
  BY <1>1, AttemptsStep
<1>3. (RowIsThere /\ Deliveries /\ WholeLines /\ AnswersHold)'
  <2>1. ASSUME NEW h \in Handler, Call(h) \/ Serve(h)
        PROVE  (RowIsThere /\ Deliveries /\ WholeLines /\ AnswersHold)'
    BY <2>1, LateCall, LateServe
  <2>2. CASE Crashes
    BY <2>2, LateCrash DEF Crashes
  <2>3. CASE LeaseRunsOut
    <3>1. row'.state = row.state /\ row'.command = row.command
      BY <2>3 DEF LeaseRunsOut, IInv, TypeOK, Row
    <3> QED BY <2>3, <3>1 DEF LeaseRunsOut, IInv, RowIsThere, Deliveries, OneMention,
                              WholeLines, AnswersHold
  <2>4. CASE UNCHANGED vars
    BY <2>4 DEF vars, IInv, RowIsThere, Deliveries, OneMention, WholeLines, AnswersHold
  <2> QED BY <2>1, <2>2, <2>3, <2>4 DEF Next, Calls
<1> QED BY <1>1, <1>2, <1>3 DEF IInv

LEMMA LateInit == Init => IInv
<1> SUFFICES ASSUME Init PROVE IInv
  OBVIOUS
<1>1. TypeOK
  BY TypesInit
<1>2. RowIsThere /\ Deliveries /\ AnswersHold
  BY DEF Init, RowIsThere, Deliveries, OneMention, AnswersHold, Handler
<1>3. WholeLines /\ AttemptsDiffer
  BY DEF Init, WholeLines, AttemptsDiffer, Dispatching
<1> QED BY <1>1, <1>2, <1>3 DEF IInv

(* The inductive invariant of the outbox, however late a dispatch ends.     *)
THEOREM Invariant == Spec => []IInv
  BY LateInit, LateStep, PTL DEF Spec

(* A recipient is mentioned once, however many dispatches end at once       *)
(* (completeEffects, insertManyInTransaction).                              *)
THEOREM MentionedOnce == Spec => []OneMention
<1>1. IInv => OneMention
  BY DEF IInv, Deliveries
<1> QED BY <1>1, Invariant, PTL

(* Without torn appends, a mention never precedes the message it speaks of. *)
THEOREM MessagesComeFirst ==
    ASSUME ~TornWrites
    PROVE  Spec => []MentionsFollowMessages
<1>1. IInv => MentionsFollowMessages
  BY DEF IInv, WholeLines, MentionsFollowMessages
<1> QED BY <1>1, Invariant, PTL

(* Without torn appends, a post that was answered as posted is in the file, *)
(* with its mention, and a conflict is one.                                 *)
THEOREM TrueAnswers ==
    ASSUME ~TornWrites
    PROVE  Spec => []AnswersAreTrue
<1>1. IInv => AnswersAreTrue
  BY DEF IInv, WholeLines, AnswersHold, AnswersAreTrue
<1> QED BY <1>1, Invariant, PTL

(* No attempt is made twice, and so no more are made than the budget allows. *)
THEOREM AttemptsAreSpent == Spec => []AttemptsDiffer
<1>1. IInv => AttemptsDiffer
  BY DEF IInv
<1> QED BY <1>1, Invariant, PTL

-----------------------------------------------------------------------------
(* What holds while every dispatch is prompt.                              *)

(* A row that is not busy is one that nobody dispatches.                    *)
LEMMA BusyWhileDispatching ==
    ASSUME PInv, ~Busy, NEW h \in Handler
    PROVE  ~Dispatching(h)
<1>1. Dispatching(h) => home[h] \in alive
  BY DEF PInv, IInv, TypeOK, Dispatching
<1> QED BY <1>1 DEF PInv, HoldsRow, Busy

LEMMA PromptCall ==
    ASSUME PInv, NEW h \in Handler, Call(h)
    PROVE  (HoldsRow /\ OneDispatcher /\ OneCopy /\ NothingWritten /\ DeliveredMeansCompleted)'
<1>0. row \in Row /\ pc \in [Handler -> Locations] /\ home \in [Handler -> alive \cup {None}]
      /\ pc[h] = "idle"
  BY DEF PInv, IInv, TypeOK, Call, Prepare, Repair
<1>1. copies' = copies /\ mentions' = mentions
  BY DEF Call, Prepare, Repair
<1>2. /\ pc'[h] \in {"idle", "claim"}
      /\ \A g \in Handler : g # h => pc'[g] = pc[g] /\ home'[g] = home[g]
  BY <1>0 DEF Call, Prepare, Repair, Enter, Return
<1>3. row' = row \/ (row.state # "completed" /\ row'.state = "pending"
                     /\ \A g \in Handler : ~Dispatching(g))
  <2>1. row.state = "absent" => \A g \in Handler : ~Dispatching(g)
    BY DEF PInv, HoldsRow
  <2>2. ASSUME NEW p \in Process, h \in Poster, Prepare(h, p), row' # row
        PROVE  row.state = "absent" /\ row'.state = "pending"
    BY <1>0, <2>2, RowFields DEF Prepare
  <2>3. ASSUME NEW p \in Process, h \in Repairer, Repair(h, p), row' # row
        PROVE  row.state # "completed" /\ row'.state = "pending" /\ ~Busy
    BY <1>0, <2>3, RowFields DEF Repair
  <2> QED BY <2>1, <2>2, <2>3, BusyWhileDispatching DEF Call
<1>4. \A g \in Handler : Dispatching(g)' => Dispatching(g) /\ g # h
  BY <1>2 DEF Dispatching
<1>5. HoldsRow' /\ OneDispatcher'
  BY <1>2, <1>3, <1>4 DEF PInv, HoldsRow, OneDispatcher
<1>6. OneCopy' /\ NothingWritten' /\ DeliveredMeansCompleted'
  BY <1>1, <1>2, <1>3 DEF PInv, OneCopy, NothingWritten, DeliveredMeansCompleted
<1> QED BY <1>5, <1>6

LEMMA PromptClaim ==
    ASSUME PInv, NEW h \in Handler, Claim(h)
    PROVE  (HoldsRow /\ OneDispatcher /\ OneCopy /\ NothingWritten /\ DeliveredMeansCompleted)'
<1>0. row \in Row /\ pc \in [Handler -> Locations] /\ home \in [Handler -> alive \cup {None}]
      /\ pc[h] = "claim" /\ home[h] \in Process
  BY DEF PInv, IInv, TypeOK, Claim
<1>1. copies' = copies /\ mentions' = mentions
  BY DEF Claim
<1>2. /\ pc'[h] \in {"idle", "append"}
      /\ \A g \in Handler : g # h => pc'[g] = pc[g] /\ home'[g] = home[g]
  BY <1>0 DEF Claim, Return
<1>3. Claimed(row, home[h]) \in Row
  BY <1>0, RowsTyped
<1>4. CASE row' = row /\ pc'[h] = "idle"
  <2>1. \A g \in Handler : Dispatching(g)' => Dispatching(g) /\ g # h
    BY <1>2, <1>4 DEF Dispatching
  <2> QED BY <1>1, <1>2, <1>4, <2>1
          DEF PInv, HoldsRow, OneDispatcher, OneCopy, NothingWritten, DeliveredMeansCompleted
<1>5. CASE /\ ~Busy /\ row.state # "completed"
           /\ row' = Claimed(row, home[h]) /\ home' = home
  <2>1. \A g \in Handler : Dispatching(g)' => g = h
    BY <1>2, <1>5, BusyWhileDispatching DEF Dispatching
  <2>2. row'.state = "processing" /\ row'.owner = home[h] /\ row'.lease
    BY <1>0, <1>5, RowFields
  <2> QED BY <1>1, <1>2, <1>5, <2>1, <2>2
          DEF PInv, HoldsRow, OneDispatcher, OneCopy, NothingWritten, DeliveredMeansCompleted
<1>6. CASE /\ ~Busy /\ row.state # "completed"
           /\ row' = Settled(Claimed(row, home[h]), "dead_letter") /\ pc'[h] = "idle"
  <2>1. \A g \in Handler : ~Dispatching(g)'
    BY <1>2, <1>6, BusyWhileDispatching DEF Dispatching
  <2>2. row'.state = "dead_letter"
    BY <1>3, <1>6, RowFields
  <2> QED BY <1>1, <1>2, <1>6, <2>1, <2>2
          DEF PInv, HoldsRow, OneDispatcher, OneCopy, NothingWritten, DeliveredMeansCompleted
<1>7. Return(h, "posted") \/ Return(h, "dead_letter") \/ Return(h, "busy") => pc'[h] = "idle"
  BY <1>0 DEF Return
<1> QED BY <1>4, <1>5, <1>6, <1>7 DEF Claim

LEMMA PromptDispatch ==
    ASSUME PInv, NEW h \in Handler, Serve(h), ~Claim(h)
    PROVE  (HoldsRow /\ OneDispatcher /\ OneCopy /\ NothingWritten /\ DeliveredMeansCompleted)'
<1>0. row \in Row /\ pc \in [Handler -> Locations] /\ home \in [Handler -> alive \cup {None}]
      /\ copies \in Nat /\ mentions \in Nat
  BY DEF PInv, IInv, TypeOK
<1>1. CASE ClaimFails(h) \/ FailThrows(h)
  <2>1. /\ pc'[h] = "idle"
        /\ \A g \in Handler : g # h => pc'[g] = pc[g] /\ home'[g] = home[g]
        /\ UNCHANGED <<row, copies, mentions>>
    BY <1>0, <1>1 DEF ClaimFails, FailThrows, Return, durable
  <2> QED BY <2>1 DEF PInv, HoldsRow, OneDispatcher, OneCopy, NothingWritten,
                      DeliveredMeansCompleted, Dispatching
<1>2. CASE ReadMessages(h) \/ PersistFails(h) \/ EffectsFail(h)
  <2>1. /\ Dispatching(h)
        /\ pc'[h] = "write" => copies = 0
        /\ \A g \in Handler : g # h => pc'[g] = pc[g]
        /\ UNCHANGED <<row, copies, mentions, home>>
    BY <1>0, <1>2 DEF ReadMessages, PersistFails, EffectsFail, Move, durable, Dispatching
  <2> QED BY <2>1 DEF PInv, HoldsRow, OneDispatcher, OneCopy, NothingWritten,
                      DeliveredMeansCompleted, Dispatching
<1>3. CASE WriteMessage(h)
  <2>1. /\ Dispatching(h) /\ pc[h] = "write" /\ pc'[h] = "effects"
        /\ \A g \in Handler : g # h => pc'[g] = pc[g]
        /\ UNCHANGED <<row, mentions, home>>
    BY <1>0, <1>3 DEF WriteMessage, Move, Dispatching
  <2>2. copies' <= 1
    BY <1>0, <1>3, <2>1 DEF WriteMessage, PInv, NothingWritten
  <2>3. \A g \in Handler : pc'[g] # "write"
    BY <2>1 DEF PInv, OneDispatcher, Dispatching
  <2> QED BY <2>1, <2>2, <2>3 DEF PInv, HoldsRow, OneDispatcher, OneCopy, NothingWritten,
                                  DeliveredMeansCompleted, Dispatching
<1>4. CASE CompleteEffects(h) \/ FailRecord(h)
  <2>1. /\ Dispatching(h) /\ pc'[h] = "idle" /\ copies' = copies
        /\ \A g \in Handler : g # h => pc'[g] = pc[g]
    BY <1>0, <1>4 DEF CompleteEffects, FailRecord, Return, Dispatching
  <2>2. \A g \in Handler : ~Dispatching(g)'
    BY <2>1 DEF PInv, OneDispatcher, Dispatching
  <2>3. row.state = "processing"
    BY <2>1 DEF PInv, HoldsRow
  <2>4. CompleteEffects(h) => row'.state = "completed" /\ mentions' > 0
    BY <1>0, RowFields DEF CompleteEffects
  <2>5. FailRecord(h) => row'.state # "completed" /\ mentions' = mentions
    BY <1>0, RowFields DEF FailRecord
  <2>6. DeliveredMeansCompleted'
    BY <1>4, <2>3, <2>4, <2>5 DEF PInv, DeliveredMeansCompleted
  <2> QED BY <2>1, <2>2, <2>6 DEF PInv, HoldsRow, OneDispatcher, OneCopy, NothingWritten,
                                  Dispatching
<1> QED BY <1>1, <1>2, <1>3, <1>4 DEF Serve

LEMMA PromptStep == PInv /\ [PromptNext]_vars => PInv'
<1> SUFFICES ASSUME PInv, [PromptNext]_vars PROVE PInv'
  OBVIOUS
<1>1. IInv'
  BY LateStep DEF PInv, PromptNext, Next
<1>2. (HoldsRow /\ OneDispatcher /\ OneCopy /\ NothingWritten /\ DeliveredMeansCompleted)'
  <2>1. ASSUME NEW h \in Handler, Call(h) \/ Serve(h)
        PROVE  (HoldsRow /\ OneDispatcher /\ OneCopy /\ NothingWritten
                /\ DeliveredMeansCompleted)'
    BY <2>1, PromptCall, PromptClaim, PromptDispatch
  <2>2. ASSUME NEW p \in Process, Crash(p)
        PROVE  (HoldsRow /\ OneDispatcher /\ OneCopy /\ NothingWritten
                /\ DeliveredMeansCompleted)'
    <3>1. /\ UNCHANGED <<row, copies, mentions>>
          /\ \A h \in Handler : pc'[h] = "idle" \/ (pc'[h] = pc[h] /\ home'[h] = home[h])
      BY <2>2 DEF Crash
    <3> QED BY <3>1 DEF PInv, HoldsRow, OneDispatcher, OneCopy, NothingWritten,
                        DeliveredMeansCompleted, Dispatching
  <2>3. CASE (\A h \in Handler : ~Dispatching(h)) /\ LeaseRunsOut
    <3>1. row'.state = row.state /\ UNCHANGED <<copies, mentions, pc>>
      BY <2>3 DEF LeaseRunsOut, PInv, IInv, TypeOK, Row
    <3> QED BY <2>3, <3>1 DEF PInv, HoldsRow, OneDispatcher, OneCopy, NothingWritten,
                        DeliveredMeansCompleted, Dispatching
  <2>4. CASE UNCHANGED vars
    BY <2>4 DEF vars, PInv, HoldsRow, OneDispatcher, OneCopy, NothingWritten,
                DeliveredMeansCompleted, Dispatching
  <2> QED BY <2>1, <2>2, <2>3, <2>4 DEF PromptNext, Calls, Crashes
<1> QED BY <1>1, <1>2 DEF PInv

LEMMA PromptInit == Init => PInv
<1> SUFFICES ASSUME Init PROVE PInv
  OBVIOUS
<1>1. HoldsRow /\ OneDispatcher /\ NothingWritten
  BY DEF Init, HoldsRow, OneDispatcher, NothingWritten, Dispatching
<1>2. OneCopy /\ DeliveredMeansCompleted
  BY DEF Init, OneCopy, DeliveredMeansCompleted
<1> QED BY <1>1, <1>2, LateInit DEF PInv

(* The inductive invariant of the outbox while every dispatch is prompt.    *)
THEOREM PromptInvariant == PromptSpec => []PInv
  BY PromptInit, PromptStep, PTL DEF PromptSpec

(* Prompt dispatches exclude one another, in one daemon or across several,  *)
(* through crashes and repairs (claimRecord, repair).                       *)
THEOREM DispatchesExclude == PromptSpec => []OneDispatcher
<1>1. PInv => OneDispatcher
  BY DEF PInv
<1> QED BY <1>1, PromptInvariant, PTL

(* So the message is appended once, by daemons that share no write queue    *)
(* (appendMessageOnce).                                                     *)
THEOREM WrittenOnce == PromptSpec => []OneCopy
<1>1. PInv => OneCopy
  BY DEF PInv
<1> QED BY <1>1, PromptInvariant, PTL

(* A dead letter or a pending row still owes its mentions, a completed one  *)
(* does not.                                                                *)
THEOREM CompletedIsDelivered == PromptSpec => []DeliveredMeansCompleted
<1>1. PInv => DeliveredMeansCompleted
  BY DEF PInv
<1> QED BY <1>1, PromptInvariant, PTL

(* A completed command stays completed: its mentions are never taken back.  *)
THEOREM StaysCompleted == PromptSpec => CompletedStays
<1>1. PInv /\ PInv' /\ [PromptNext]_vars
        => [row.state = "completed" => row'.state = "completed"]_vars
  <2> SUFFICES ASSUME PInv, PInv', [PromptNext]_vars, row.state = "completed"
               PROVE  row'.state = "completed"
    BY DEF vars
  <2>1. mentions > 0 /\ mentions \in Nat
    BY DEF PInv, DeliveredMeansCompleted, IInv, TypeOK
  <2>2. mentions' >= mentions
    BY <2>1 DEF PromptNext, Calls, Crashes, Call, Serve, Prepare, Repair, Claim, ClaimFails,
         ReadMessages, WriteMessage, PersistFails, CompleteEffects, EffectsFail, FailRecord,
         FailThrows, Crash, LeaseRunsOut, durable, vars
  <2>3. mentions' \in Nat
    BY DEF PInv, IInv, TypeOK
  <2> QED BY <2>1, <2>2, <2>3 DEF PInv, DeliveredMeansCompleted
<1> QED BY <1>1, PromptInvariant, PTL DEF PromptSpec, CompletedStays

=============================================================================
