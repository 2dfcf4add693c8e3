---------------------------- MODULE IdentityRefresh ----------------------------
(***************************************************************************)
(* How a Space daemon comes to know the passports in its directories        *)
(* (space/src/serve.ts, createPassportIdentityResolver).  A change of a     *)
(* directory raises an event, or the event is lost; events are debounced by *)
(* a timer, and a second timer polls.  Both call refresh, which lists the   *)
(* files, reads them and indexes the identities by what they are called; a  *)
(* call that finds another under way is remembered.                         *)
(***************************************************************************)
EXTENDS Naturals, Sequences, SequencesExt

CONSTANTS Passport,   \* passport files
          AgentOf,    \* the agent a passport is of
          AliasesOf,  \* what a request may call it: its id, its agent, its name
          MaxWrites,  \* bound on the writes of files
          None

VARIABLES disk,      \* a file is "absent", "torn" or "whole"
          timer,     \* whether the debounce timer runs
          inFlight,  \* refreshInFlight
          queued,    \* refreshQueued
          pc,        \* what the refresh under way does next
          unread,    \* the files it has listed and not read
          read,      \* the passports it could read
          admitted,  \* the identity an alias stands for, or None
          heard,     \* files that were whole when refresh was last called, and were not touched since
          writes

vars == <<disk, timer, inFlight, queued, pc, unread, read, admitted, heard, writes>>

Alias == UNION {AliasesOf[p] : p \in Passport}

-----------------------------------------------------------------------------
(* indexIdentities: a name that two agents share is given up, and stays so. *)
(* What a name stands for does not depend on other names.                   *)

Nobody == [a \in Alias |-> [known |-> None, ambiguous |-> FALSE]]

(* Without the memory of ambiguous names a third identity takes one back.   *)
WithAlias_Forgetful(standing, p) ==
    IF standing.known # None /\ AgentOf[standing.known] # AgentOf[p]
      THEN [known |-> None, ambiguous |-> FALSE]
      ELSE [known |-> p, ambiguous |-> FALSE]

WithAlias(standing, p) ==
    IF standing.ambiguous THEN standing
    ELSE IF standing.known # None /\ AgentOf[standing.known] # AgentOf[p]
      THEN [known |-> None, ambiguous |-> TRUE]
      ELSE [known |-> p, ambiguous |-> FALSE]

WithIdentity(index, p) ==
    [a \in Alias |-> IF a \in AliasesOf[p] THEN WithAlias(index[a], p) ELSE index[a]]

IndexIdentities(identities) ==
    LET index[n \in 0..Len(identities)] ==
          IF n = 0 THEN Nobody ELSE WithIdentity(index[n - 1], identities[n])
    IN [a \in Alias |-> index[Len(identities)][a].known]

-----------------------------------------------------------------------------

Init ==
    /\ disk = [p \in Passport |-> "absent"]
    /\ timer = FALSE
    /\ inFlight = FALSE
    /\ queued = FALSE
    /\ pc = "idle"
    /\ unread = {}
    /\ read = {}
    /\ admitted = [a \in Alias |-> None]
    /\ heard = {}
    /\ writes = 0

(* The file of a passport is created or written anew, in two steps, or goes *)
(* away; the event of a change may not come.                                *)
Touch(p, s) ==
    /\ disk' = [disk EXCEPT ![p] = s]
    /\ heard' = heard \ {p}
    /\ timer' \in {timer, TRUE}
    /\ UNCHANGED <<inFlight, queued, pc, unread, read, admitted>>

BeginWrite(p) ==
    /\ disk[p] # "torn"
    /\ writes < MaxWrites
    /\ writes' = writes + 1
    /\ Touch(p, "torn")

EndWrite(p) == disk[p] = "torn" /\ Touch(p, "whole") /\ UNCHANGED writes

Withdraw(p) == disk[p] = "whole" /\ Touch(p, "absent") /\ UNCHANGED writes

(* As it was once: a call that finds another under way is dropped.          *)
Refresh_Dropped ==
    /\ heard' = {p \in Passport : disk[p] = "whole"}
    /\ IF inFlight
         THEN UNCHANGED <<inFlight, pc, queued>>
         ELSE inFlight' = TRUE /\ pc' = "list" /\ UNCHANGED queued
    /\ UNCHANGED <<disk, unread, read, admitted, writes>>

(* refresh, called by either timer                                          *)
Refresh ==
    /\ heard' = {p \in Passport : disk[p] = "whole"}
    /\ IF inFlight
         THEN queued' = TRUE /\ UNCHANGED <<inFlight, pc>>
         ELSE inFlight' = TRUE /\ pc' = "list" /\ UNCHANGED queued
    /\ UNCHANGED <<disk, unread, read, admitted, writes>>

DebounceEnds == timer /\ timer' = FALSE /\ Refresh
Poll == Refresh /\ UNCHANGED timer

(* readPassportIdentities; no passport is given by its path here.           *)
List ==
    /\ pc = "list"
    /\ unread' = {p \in Passport : disk[p] # "absent"}
    /\ read' = {}
    /\ pc' = IF unread' = {} THEN "refuse" ELSE "read"
    /\ UNCHANGED <<disk, timer, inFlight, queued, admitted, heard, writes>>

(* A file that is gone or cannot be parsed is left out.                     *)
ReadPassport(p) ==
    /\ pc = "read" /\ p \in unread
    /\ unread' = unread \ {p}
    /\ read' = IF disk[p] = "whole" THEN read \cup {p} ELSE read
    /\ UNCHANGED <<disk, timer, inFlight, queued, pc, admitted, heard, writes>>

(* Identities are indexed in the order of their paths, which is any.  What  *)
(* was asked for meanwhile is read at once.                                 *)
Reindex ==
    /\ pc = "read" /\ unread = {}
    /\ \E identities \in SetToSeqs(read) : admitted' = IndexIdentities(identities)
    /\ queued' = FALSE
    /\ inFlight' = queued
    /\ pc' = IF queued THEN "list" ELSE "idle"
    /\ UNCHANGED <<disk, timer, unread, read, heard, writes>>

(* Nothing but empty directories is an error, which also ends the calls     *)
(* that were waiting; what was known stays known.                           *)
Refuse ==
    /\ pc = "refuse"
    /\ inFlight' = FALSE
    /\ queued' = FALSE
    /\ pc' = "idle"
    /\ heard' = {}
    /\ UNCHANGED <<disk, timer, unread, read, admitted, writes>>

Next ==
    \/ \E p \in Passport : BeginWrite(p) \/ EndWrite(p) \/ Withdraw(p) \/ ReadPassport(p)
    \/ DebounceEnds \/ Poll \/ List \/ Reindex \/ Refuse

Spec == Init /\ [][Next]_vars

-----------------------------------------------------------------------------

TypeOK ==
    /\ disk \in [Passport -> {"absent", "torn", "whole"}]
    /\ {timer, inFlight, queued} \subseteq BOOLEAN
    /\ pc \in {"idle", "list", "read", "refuse"}
    /\ unread \subseteq Passport /\ heard \subseteq Passport
    /\ read \subseteq Passport
    /\ admitted \in [Alias -> Passport \cup {None}]
    /\ writes \in 0..MaxWrites

(* A passport that was whole when a refresh was asked for has been read     *)
(* once no refresh is under way, unless the refresh failed, though files    *)
(* were written while it listed and read them (refresh).  And a name stands *)
(* for a passport exactly if all that were read with it are of one agent,   *)
(* whatever the order they were indexed in (indexIdentities).               *)
AdmittedIsCurrent ==
    ~inFlight =>
        /\ heard \subseteq read
        /\ read # {} => \A a \in Alias :
             LET named == {p \in read : a \in AliasesOf[p]} IN
             IF \E p \in named : \A q \in named : AgentOf[q] = AgentOf[p]
               THEN admitted[a] \in named ELSE admitted[a] = None

=============================================================================
