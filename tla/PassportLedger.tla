---------------------------- MODULE PassportLedger ----------------------------
(***************************************************************************)
(* What the passport commands promise (wave 1B, TX-13): one history of a   *)
(* passport, each entry made on the version the one before it left, each   *)
(* command in it once, and a caller confirmed only when its command is     *)
(* there.                                                                  *)
(***************************************************************************)
EXTENDS Naturals, Sequences

CONSTANTS Entry,      \* what may be entered: a command, the version before and after
          Caller,
          CommandOf,  \* the command of a caller
          AfterOf,    \* the version it asks for
          Start       \* the version there was before the history

VARIABLES history, confirmed

vars == <<history, confirmed>>

Init == history = << >> /\ confirmed = {}

Current == IF history = << >> THEN Start ELSE history[Len(history)].after

Entered(c) ==
    \E i \in 1..Len(history) :
        history[i].command = CommandOf[c] /\ history[i].after = AfterOf[c]

Extend(e) ==
    /\ e.before = Current
    /\ \A i \in 1..Len(history) : history[i].command # e.command
    /\ history' = Append(history, e)
    /\ UNCHANGED confirmed

Confirm(c) ==
    /\ Entered(c)
    /\ confirmed' = confirmed \cup {c}
    /\ UNCHANGED history

Next == (\E e \in Entry : Extend(e)) \/ (\E c \in Caller : Confirm(c))

Spec == Init /\ [][Next]_vars
=============================================================================
