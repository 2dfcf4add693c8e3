---------------------------- MODULE MCNativeWork ----------------------------
(***************************************************************************)
(* Small instances of NativeWork.  Identifiers are only compared, so that   *)
(* those of one kind, none of which a run names, may change places.         *)
(***************************************************************************)
EXTENDS NativeWork, TLC

MCPrincipalOf == [s \in Session |-> s]
Interchangeable ==
    Permutations(Intent) \cup Permutations(Episode) \cup Permutations(Lease)
        \cup Permutations(Receipt) \cup Permutations(Target)
=============================================================================
