--------------------------- MODULE MCKernelExecutor ---------------------------
(***************************************************************************)
(* A small instance of KernelExecutor: "a changed" asks under the command   *)
(* and the idempotency scope of "a", with another input and another plan;   *)
(* "b" is another request.                                                  *)
(***************************************************************************)
EXTENDS KernelExecutor

MCScopeOf == [c \in Body |-> IF c = "b" THEN "B" ELSE "A"]
MCCommandOf == MCScopeOf
MCInputOf == [c \in Body |-> IF c = "a changed" THEN "changed" ELSE "plain"]
MCEventsOf == [c \in Body |-> {c}]
MCEffectsOf == [c \in Body |-> IF c = "b" THEN << >>
                               ELSE IF c = "a changed" THEN <<"notice">> ELSE <<"handoff">>]
=============================================================================
