------------------------------- MODULE CommitLog -------------------------------
(***************************************************************************)
(* What committing to a project promises its callers (ADR 0014, CAS): one  *)
(* history that only grows, one transaction at a time, each put directly   *)
(* behind the version its caller expected.  A caller that is told so has   *)
(* its transaction in the history for good; one that is refused, or told   *)
(* nothing because a process died, may find it there or not.  Nobody looks *)
(* whether ids are new: a transaction that says a command or an event of   *)
(* its history again is put into it, ends it, and is confirmed to nobody.  *)
(***************************************************************************)
EXTENDS Naturals, Sequences

CONSTANTS Body, CommandOf, EventsOf, Writer, Payload

VARIABLES chain,     \* the history: bodies in commit order
          expected,  \* the version each caller has named
          answer     \* what each caller has been told

vars == <<chain, expected, answer>>

Refusals == {"conflict", "busy", "failed"}
Answers == {"none", "asked", "ok"} \cup Refusals

TypeOK ==
    /\ chain \in Seq(Body)
    /\ expected \in [Writer -> Seq(Body)]
    /\ answer \in [Writer -> Answers]

Init ==
    /\ chain = << >>
    /\ expected = [w \in Writer |-> << >>]
    /\ answer = [w \in Writer |-> "none"]

Asking(w) == answer[w] = "asked"

(* The history as it would be just after w's transaction.                  *)
Version(w) == Append(expected[w], Payload[w])

InHistory(d) == Len(d) <= Len(chain) /\ SubSeq(chain, 1, Len(d)) = d

(* The last of h says a command or an event of an earlier one again.       *)
Reuses(h) ==
    \E i \in 1..(Len(h) - 1) :
        \/ CommandOf[h[i]] = CommandOf[h[Len(h)]]
        \/ EventsOf[h[i]] \cap EventsOf[h[Len(h)]] # {}

(* A caller names a version that it has seen.                              *)
Ask(w) ==
    /\ answer[w] = "none"
    /\ answer' = [answer EXCEPT ![w] = "asked"]
    /\ \E n \in 0..Len(chain) : expected' = [expected EXCEPT ![w] = SubSeq(chain, 1, n)]
    /\ UNCHANGED chain

Extend(w) ==
    /\ Asking(w)
    /\ expected[w] = chain /\ ~Reuses(chain)
    /\ chain' = Version(w)
    /\ UNCHANGED <<expected, answer>>

Confirm(w) ==
    /\ Asking(w)
    /\ InHistory(Version(w)) /\ ~Reuses(Version(w))
    /\ answer' = [answer EXCEPT ![w] = "ok"]
    /\ UNCHANGED <<chain, expected>>

(* Busy and conflict both promise that nothing was published, but for a     *)
(* conflict with the history's own ids; a failure promises nothing.         *)
Refuse(w) ==
    /\ Asking(w)
    /\ \E r \in Refusals :
         /\ r # "failed" /\ InHistory(Version(w)) =>
              \/ r = "conflict" /\ Reuses(Version(w))
              \/ \E v \in Writer \ {w} : answer[v] # "none" /\ Version(v) = Version(w)
         /\ answer' = [answer EXCEPT ![w] = r]
    /\ UNCHANGED <<chain, expected>>

Next == \E w \in Writer : Ask(w) \/ Extend(w) \/ Confirm(w) \/ Refuse(w)

Spec == Init /\ [][Next]_vars
=============================================================================
