---------------------------- MODULE ShadowMigration ----------------------------
(***************************************************************************)
(* The shadow migration of v1 sources (migration/src/executor.ts).  A       *)
(* runner reads the journal of checkpoints, and goes on from the last: it   *)
(* looks over the sources, has each staged by an adapter and each verified, *)
(* observing the sources before and after, and writes a checkpoint after    *)
(* every step.  It may die anywhere, and another may start at any time;     *)
(* the sources may change under it.                                         *)
(*                                                                         *)
(* A checkpoint is named by its revision and the digest of its content,     *)
(* which covers its predecessor's; two runners that take the same step from *)
(* the same checkpoint write the same file, unless the step issues a        *)
(* receipt, which carries the time it was issued at.                        *)
(***************************************************************************)
EXTENDS Naturals, Sequences, FiniteSets

CONSTANTS Runner,
          Sources,     \* how many sources there are
          Content,     \* what may be in a source
          Original,    \* what is in every source at first
          CountsOf,    \* what reconciliation counts of a content
          MaxRuns,     \* bound on the runs that are started
          MaxChanges,  \* bound on the changes of the sources
          None

VARIABLES corpus,      \* what is in each source now
          journal,     \* the checkpoint files
          pc,          \* where a runner stands
          checkpoint,  \* the checkpoint it works from
          result,      \* the content an adapter read
          run,         \* the run a runner is at, which tells apart what it issues
          runs,        \* how many were started
          changes,     \* how often the sources have changed
          overlapped,  \* whether two runners ever ran at once
          undone       \* history: the sources that came back to what was admitted between
                       \* the two observations around an adapter's work, and in which phase

vars == <<corpus, journal, pc, checkpoint, result, run, runs, changes, overlapped, undone>>

Index == 1..Sources
Corpus == [Index -> Content]

(* MIGRATION_EXECUTION_PHASES, and the states of the receipt                *)
Phase == <<"verify_source_snapshot", "stage_shadow_import", "verify_reconciliation", "complete">>

Checkpoint == [phase : 1..4, next : 0..Sources, corpus : Corpus, staged : Seq(Content),
               verified : 0..Sources, issued : Seq(Nat)]

Init ==
    /\ corpus = [i \in Index |-> Original]
    /\ journal = {}
    /\ pc = [r \in Runner |-> "off"]
    /\ checkpoint = [r \in Runner |-> None]
    /\ result = [r \in Runner |-> None]
    /\ run = [r \in Runner |-> None]
    /\ runs = 0
    /\ changes = 0
    /\ overlapped = FALSE
    /\ undone = {}

(* Each phase has a checkpoint per source and one that issues its receipt.  *)
Revision(c) == IF c.phase = 4 THEN 3 * (Sources + 1) + 1 ELSE (c.phase - 1) * (Sources + 1) + c.next + 1

(* readMigrationExecutionCheckpoint: the whole journal must be one chain.   *)
Forked == \E c, d \in journal : c # d /\ Revision(c) = Revision(d)
Gapless == {Revision(c) : c \in journal} = 1..Cardinality(journal)
Last == CHOOSE c \in journal : \A d \in journal : Revision(d) <= Revision(c)

Go(r, location) == pc' = [pc EXCEPT ![r] = location]

Stop(r) ==
    /\ Go(r, "off")
    /\ checkpoint' = [checkpoint EXCEPT ![r] = None]
    /\ result' = [result EXCEPT ![r] = None]
    /\ UNCHANGED <<corpus, journal, run, runs, changes, overlapped, undone>>

-----------------------------------------------------------------------------

(* Whose adapter is at source i, the corpus not yet observed again          *)
WorksOn(r, i) == pc[r] \in {"work", "reobserve"} /\ checkpoint[r].next + 1 = i

(* A source changes, and may change back.                                   *)
Drift(i, content) ==
    /\ content # corpus[i]
    /\ changes < MaxChanges
    /\ changes' = changes + 1
    /\ corpus' = [corpus EXCEPT ![i] = content]
    /\ undone' = undone \cup
         {<<checkpoint[r].phase, i>> : r \in {q \in Runner : WorksOn(q, i) /\ checkpoint[q].corpus[i] = content}}
    /\ UNCHANGED <<journal, pc, checkpoint, result, run, runs, overlapped>>

(* executeShadowMigration, called with the corpus as it is: what is to be   *)
(* admitted, or what must be the one that was.  A journal that is not one   *)
(* chain is refused, and so is another corpus.                              *)
Start(r) ==
    /\ pc[r] = "off"
    /\ runs < MaxRuns
    /\ runs' = runs + 1
    /\ run' = [run EXCEPT ![r] = runs + 1]
    /\ overlapped' = (overlapped \/ \E q \in Runner : pc[q] # "off")
    /\ ~Forked /\ Gapless
    /\ IF journal = {}
         THEN /\ checkpoint' = [checkpoint EXCEPT ![r] =
                   [phase |-> 1, next |-> 0, corpus |-> corpus, staged |-> << >>, verified |-> 0,
                    issued |-> <<runs + 1>>]]
              /\ Go(r, "persist")
         ELSE /\ Last.corpus = corpus
              /\ checkpoint' = [checkpoint EXCEPT ![r] = Last]
              /\ Go(r, "step")
    /\ UNCHANGED <<corpus, journal, result, changes, undone>>

(* assertMigrationCorpusUnchanged before the work of a step: what is in the *)
(* sources is compared, not whether they were written.                      *)
Unchanged(r) == checkpoint[r].corpus = corpus

Observe(r) ==
    /\ pc[r] = "step"
    /\ checkpoint[r].phase < 4
    /\ Unchanged(r)
    /\ Go(r, IF checkpoint[r].phase = 1 \/ checkpoint[r].next = Sources THEN "advance" ELSE "work")
    /\ UNCHANGED <<corpus, journal, checkpoint, result, run, runs, changes, overlapped, undone>>

(* stage_source or verify_source: the adapter reads the source some time.   *)
Work(r) ==
    /\ pc[r] = "work"
    /\ result' = [result EXCEPT ![r] = corpus[checkpoint[r].next + 1]]
    /\ Go(r, "reobserve")
    /\ UNCHANGED <<corpus, journal, checkpoint, run, runs, changes, overlapped, undone>>

ObserveAgain_Trusting(r) ==
    /\ pc[r] = "reobserve"
    /\ Go(r, "advance")
    /\ UNCHANGED <<corpus, journal, checkpoint, result, run, runs, changes, overlapped, undone>>

(* guardedSourceWork                                                        *)
ObserveAgain(r) ==
    /\ pc[r] = "reobserve"
    /\ Unchanged(r)
    /\ Go(r, "advance")
    /\ UNCHANGED <<corpus, journal, checkpoint, result, run, runs, changes, overlapped, undone>>

(* nextCheckpoint: one source further, or into the next phase.              *)
Advanced(c, content, at) ==
    IF c.next < Sources
      THEN [c EXCEPT !.next = @ + 1,
                     !.staged = IF c.phase = 2 THEN Append(@, content) ELSE @,
                     !.verified = IF c.phase = 3 THEN @ + 1 ELSE @]
      ELSE [c EXCEPT !.phase = @ + 1,
                     !.next = IF c.phase = 3 THEN Sources ELSE 0,
                     !.issued = Append(@, at)]

(* Of what is verified the counts must be those of what was staged.         *)
Advance(r) ==
    LET c == checkpoint[r] IN
    /\ pc[r] = "advance"
    /\ c.phase = 3 /\ c.next < Sources => CountsOf[result[r]] = CountsOf[c.staged[c.next + 1]]
    /\ checkpoint' = [checkpoint EXCEPT ![r] = Advanced(c, result[r], run[r])]
    /\ result' = [result EXCEPT ![r] = None]
    /\ Go(r, "persist")
    /\ UNCHANGED <<corpus, journal, run, runs, changes, overlapped, undone>>

(* A checkpoint that replaces its predecessor breaks the chain.             *)
Persist_Replacing(r) ==
    /\ pc[r] = "persist"
    /\ journal' = {c \in journal : Revision(c) # Revision(checkpoint[r]) - 1} \cup {checkpoint[r]}
    /\ Go(r, "step")
    /\ UNCHANGED <<corpus, checkpoint, result, run, runs, changes, overlapped, undone>>

(* The file is linked into place; one of that name is the same file.        *)
Persist(r) ==
    /\ pc[r] = "persist"
    /\ journal' = journal \cup {checkpoint[r]}
    /\ Go(r, "step")
    /\ UNCHANGED <<corpus, checkpoint, result, run, runs, changes, overlapped, undone>>

(* A refusal, an adapter's failure, a death, or the end.                    *)
End(r) == pc[r] # "off" /\ Stop(r)

Next ==
    \/ \E i \in Index, content \in Content : Drift(i, content)
    \/ \E r \in Runner :
         \/ Start(r) \/ Observe(r) \/ Work(r) \/ ObserveAgain(r) \/ Advance(r) \/ Persist(r)
         \/ End(r)

Spec == Init /\ [][Next]_vars

-----------------------------------------------------------------------------

TypeOK ==
    /\ corpus \in Corpus
    /\ journal \subseteq Checkpoint
    /\ pc \in [Runner -> {"off", "step", "work", "reobserve", "advance", "persist"}]
    /\ \A r \in Runner : pc[r] # "off" => checkpoint[r] \in Checkpoint
    /\ result \in [Runner -> Content \cup {None}]
    /\ run \in [Runner -> 1..MaxRuns \cup {None}]
    /\ runs \in 0..MaxRuns
    /\ changes \in 0..MaxChanges
    /\ overlapped \in BOOLEAN
    /\ undone \subseteq {2, 3} \X Index

(* Every journal of runs that do not overlap is a chain that the next run   *)
(* can go on from, wherever the earlier ones died.                          *)
ResumesWhereItStopped == ~overlapped => ~Forked /\ Gapless

(* What a checkpoint says was staged is what was admitted, and what it says *)
(* was verified has the counts of that, though sources change and runners   *)
(* race; but for a source that changed and changed back between the two      *)
(* observations around the adapter's work, which compare contents and so     *)
(* let it pass (executor.ts:292, 329 and 366).  A source staged so is found  *)
(* by its counts, or by nothing.                                            *)
StagedIsAdmitted ==
    \A c \in journal :
      /\ \A i \in 1..Len(c.staged) : c.staged[i] = c.corpus[i] \/ <<2, i>> \in undone
      /\ \A i \in 1..c.verified :
           CountsOf[c.staged[i]] = CountsOf[c.corpus[i]] \/ <<3, i>> \in undone
      /\ c.phase = 4 => c.verified = Sources /\ Len(c.staged) = Sources

=============================================================================
