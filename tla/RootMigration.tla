----------------------------- MODULE RootMigration -----------------------------
(***************************************************************************)
(* The move of a Space daemon's files from a nested legacy root to the      *)
(* canonical one (space/src/root-migration.ts): a preview, an apply that    *)
(* copies, compares and makes the legacy root read-only, its undoing when a *)
(* step of it fails, and the rollback of a manifest.                        *)
(*                                                                         *)
(* One command runs at a time and may die at any step.  The daemon of the   *)
(* canonical root is stopped while an apply runs (space/README.md:122); in   *)
(* a rollback, where nothing asks for that and nothing looks, it may go on,  *)
(* and whoever uses the legacy root always may.  A file is the set of the    *)
(* records that were appended to it.                                        *)
(***************************************************************************)
EXTENDS FiniteSets

CONSTANTS File,
          Record,     \* what is appended to files, each once
          Migration,  \* the ids of migrations
          None

VARIABLES legacy, canonical,  \* the records of a file under each root, or None
          frozen,             \* the legacy files that have lost their write permission
          written,            \* the records that were ever appended, and to which file
          late,               \* history: those a rollback no longer looks at (AppendCanonical)
          manifest,           \* what a migration knows; on disk once its status is not "preview"
          pc,                 \* where the command under way stands, or "idle"
          current,            \* its migration
          todo                \* the files its present step has yet to come to

vars == <<legacy, canonical, frozen, written, late, manifest, pc, current, todo>>

Contents == [File -> (SUBSET Record) \cup {None}]
Nothing == [f \in File |-> None]

(* Who has a manifest knows every file of the legacy root.                  *)
Manifest == [status : {"preview", "prepared", "applied", "rolled_back"}, source : Contents,
             backup : Contents, preexisting : [File -> BOOLEAN], frozen : SUBSET File]

Init ==
    /\ legacy = [f \in File |-> {}]
    /\ canonical = Nothing
    /\ frozen = {}
    /\ written = {} /\ late = {}
    /\ manifest = [m \in Migration |-> None]
    /\ pc = "idle"
    /\ current = None
    /\ todo = {}

Known == {m \in Migration : manifest[m] # None}
OnDisk == {m \in Known : manifest[m].status # "preview"}
Entries(m) == DOMAIN manifest[m].source
Created(m) == {f \in Entries(m) : ~manifest[m].preexisting[f]}

(* reconcileExpected: a root has the files of a manifest, as they were.     *)
Agrees(root, m) == \A f \in Entries(m) : root[f] = manifest[m].source[f]

At(location) == pc = location
Go(location, files) == pc' = location /\ todo' = files

-----------------------------------------------------------------------------
(* Who uses the roots                                                       *)

Fresh == Record \ {w[2] : w \in written}

AppendLegacy(f, r) ==
    /\ f \notin frozen
    /\ r \in Fresh
    /\ legacy' = [legacy EXCEPT ![f] = @ \cup {r}]
    /\ written' = written \cup {<<f, r>>}
    /\ UNCHANGED <<canonical, frozen, late, manifest, pc, current, todo>>

(* f was found as it was migrated, and is still to be removed.              *)
Doomed(f) ==
    \/ At("thaw") /\ f \in Created(current)
    \/ At("remove") /\ f \in todo

AppendCanonical(f, r) ==
    /\ pc \in {"idle", "thaw", "remove"}
    /\ r \in Fresh
    /\ canonical' = [canonical EXCEPT ![f] = IF @ = None THEN {r} ELSE @ \cup {r}]
    /\ written' = written \cup {<<f, r>>}
    /\ late' = IF Doomed(f) THEN late \cup {<<f, r>>} ELSE late
    /\ UNCHANGED <<legacy, frozen, manifest, pc, current, todo>>

-----------------------------------------------------------------------------
(* applyRootMigration                                                       *)

(* A canonical file that differs from the legacy one refuses the migration. *)
Preview(m) ==
    /\ At("idle")
    /\ manifest[m] = None
    /\ \A f \in File : canonical[f] \in {None, legacy[f]}
    /\ manifest' = [manifest EXCEPT ![m] =
         [status |-> "preview", source |-> legacy, backup |-> Nothing,
          preexisting |-> [f \in File |-> canonical[f] # None], frozen |-> frozen]]
    /\ current' = m
    /\ Go("copy", File)
    /\ UNCHANGED <<legacy, canonical, frozen, written, late>>

CopyToBackup(f) ==
    /\ At("copy") /\ f \in todo
    /\ manifest[current].backup[f] = None
    /\ manifest' = [manifest EXCEPT ![current].backup[f] = legacy[f]]
    /\ UNCHANGED <<legacy, canonical, frozen, written, late, pc, current, todo>>

CopyToCanonical(f) ==
    /\ At("copy") /\ f \in todo
    /\ manifest[current].backup[f] # None
    /\ canonical' = IF f \in Created(current) THEN [canonical EXCEPT ![f] = legacy[f]] ELSE canonical
    /\ Go("copy", todo \ {f})
    /\ UNCHANGED <<legacy, frozen, written, late, manifest, current>>

(* Both copies are compared with the source before the manifest is written. *)
Reconciled == Agrees(canonical, current) /\ Agrees(manifest[current].backup, current)

Reconcile ==
    /\ At("copy") /\ todo = {}
    /\ Reconciled
    /\ manifest' = [manifest EXCEPT ![current].status = "prepared"]
    /\ Go("freeze", Entries(current))
    /\ UNCHANGED <<legacy, canonical, frozen, written, late, current>>

Freeze(f) ==
    /\ At("freeze") /\ f \in todo
    /\ frozen' = frozen \cup {f}
    /\ Go("freeze", todo \ {f})
    /\ UNCHANGED <<legacy, canonical, written, late, manifest, current>>

Finish_Unchecked ==
    /\ At("freeze") /\ todo = {}
    /\ manifest' = [manifest EXCEPT ![current].status = "applied"]
    /\ current' = None
    /\ Go("idle", {})
    /\ UNCHANGED <<legacy, canonical, frozen, written, late>>

(* The legacy root is compared once more when nothing can change it.        *)
Finish ==
    /\ At("freeze") /\ todo = {}
    /\ Agrees(legacy, current)
    /\ manifest' = [manifest EXCEPT ![current].status = "applied"]
    /\ current' = None
    /\ Go("idle", {})
    /\ UNCHANGED <<legacy, canonical, frozen, written, late>>

(* Any step may fail; restoreLegacyModes begins the undoing.                *)
ApplyFails ==
    /\ pc \in {"copy", "freeze"}
    /\ frozen' = manifest[current].frozen
    /\ Go("undo", Created(current))
    /\ UNCHANGED <<legacy, canonical, written, late, manifest, current>>

(* removeCreatedCanonicalFiles                                              *)
RemoveCreated(f) ==
    /\ pc \in {"undo", "remove"} /\ f \in todo
    /\ canonical' = [canonical EXCEPT ![f] = None]
    /\ Go(pc, todo \ {f})
    /\ UNCHANGED <<legacy, frozen, written, late, manifest, current>>

(* The backup goes with the manifest in it; errors of the undoing are lost. *)
Undone ==
    /\ At("undo")
    /\ manifest' = [manifest EXCEPT ![current].status = "preview", ![current].backup = Nothing]
    /\ current' = None
    /\ Go("idle", {})
    /\ UNCHANGED <<legacy, canonical, frozen, written, late>>

-----------------------------------------------------------------------------
(* rollbackRootMigration                                                    *)

Rollback_Unchecked(m) ==
    /\ At("idle")
    /\ m \in OnDisk /\ manifest[m].status # "rolled_back"
    /\ Agrees(manifest[m].backup, m)
    /\ frozen' = manifest[m].frozen
    /\ current' = m
    /\ Go("thaw", {})
    /\ UNCHANGED <<legacy, canonical, written, late, manifest>>

(* Refused when a copy is not what was migrated: it would lose data.  The   *)
(* canonical files are looked at here only, and removed two steps later.    *)
Rollback(m) ==
    /\ At("idle")
    /\ m \in OnDisk /\ manifest[m].status # "rolled_back"
    /\ Agrees(manifest[m].backup, m) /\ Agrees(canonical, m)
    /\ frozen' = manifest[m].frozen
    /\ current' = m
    /\ Go("thaw", {})
    /\ UNCHANGED <<legacy, canonical, written, late, manifest>>

CheckLegacy ==
    /\ At("thaw")
    /\ IF Agrees(legacy, current) THEN Go("remove", Created(current)) /\ UNCHANGED current
                                  ELSE Go("idle", {}) /\ current' = None
    /\ UNCHANGED <<legacy, canonical, frozen, written, late, manifest>>

RolledBack ==
    /\ At("remove") /\ todo = {}
    /\ manifest' = [manifest EXCEPT ![current].status = "rolled_back"]
    /\ current' = None
    /\ Go("idle", {})
    /\ UNCHANGED <<legacy, canonical, frozen, written, late>>

-----------------------------------------------------------------------------

(* The command dies, or its last steps fail.                                *)
Die ==
    /\ ~At("idle")
    /\ current' = None
    /\ Go("idle", {})
    /\ UNCHANGED <<legacy, canonical, frozen, written, late, manifest>>

Next ==
    \/ \E f \in File, r \in Record : AppendLegacy(f, r) \/ AppendCanonical(f, r)
    \/ \E m \in Migration : Preview(m) \/ Rollback(m)
    \/ \E f \in File : CopyToBackup(f) \/ CopyToCanonical(f) \/ Freeze(f) \/ RemoveCreated(f)
    \/ Reconcile \/ Finish \/ ApplyFails \/ Undone \/ CheckLegacy \/ RolledBack \/ Die

Spec == Init /\ [][Next]_vars

-----------------------------------------------------------------------------

TypeOK ==
    /\ {legacy, canonical} \subseteq Contents
    /\ frozen \subseteq File /\ todo \subseteq File
    /\ late \subseteq written /\ written \subseteq File \X Record
    /\ pc \in {"idle", "copy", "freeze", "undo", "thaw", "remove"}
    /\ current \in Known \cup {None}
    /\ manifest \in [Migration -> Manifest \cup {None}]

(* What was appended to a file of either root is still there, after any     *)
(* sequence of migrations, failures, deaths and rollbacks, with writers of  *)
(* the legacy root at every step and of the canonical root at every step    *)
(* but those of an apply (removeCreatedCanonicalFiles in apply and          *)
(* rollback).  A rollback keeps what was appended to the canonical root      *)
(* before it compared that; what a running daemon appends to a migrated     *)
(* file between that (root-migration.ts:151) and the file's removal (:160)  *)
(* goes with it.                                                            *)
NothingLost ==
    \A w \in written \ late :
      \/ w[2] \in legacy[w[1]]
      \/ canonical[w[1]] # None /\ w[2] \in canonical[w[1]]

(* When a migration is declared applied, the canonical root, the backup and *)
(* the legacy root hold the same, and the legacy root can no longer change  *)
(* (applyRootMigration, with writers of the legacy root at every step).     *)
AppliedAgrees ==
    [][\A m \in Known : manifest'[m].status = "applied" /\ manifest[m].status # "applied" =>
         /\ Agrees(canonical, m) /\ Agrees(manifest[m].backup, m) /\ Agrees(legacy, m)
         /\ Entries(m) \subseteq frozen]_vars

=============================================================================
