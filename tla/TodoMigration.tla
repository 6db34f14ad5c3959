---------------------------- MODULE TodoMigration ----------------------------
(***************************************************************************)
(* The move of the flat TODO files into the todos database                 *)
(* (src/tools/migrate_todos.py).  It runs from the command line, at the    *)
(* portal's start and before every page the portal builds, so two          *)
(* migrations may run at once, and each may be killed between two steps.   *)
(* An item is a text with its project and source: its key in the unique    *)
(* index idx_todos_project_source_text.                                    *)
(***************************************************************************)
EXTENDS Naturals, FiniteSets

CONSTANTS Files, Items,
          Contents,    \* the unchecked items of each file
          Unreadable,  \* files that read_text() fails on
          Migrators,
          MaxCrashes   \* migrations killed

VARIABLES db,       \* items that have a row
          disk,     \* files that are still there
          mig,      \* what each migration is doing
          crashes

migrationVars == <<db, disk, mig, crashes>>

\* ahead: files not reached yet; text: items of the current file not inserted
NotMigrating     == [at |-> "off", ahead |-> {}, text |-> {}]
Started == [at |-> "reading", ahead |-> Files, text |-> {}]

MigrationInit ==
    /\ db \in SUBSET Items /\ disk = Files
    /\ mig = [m \in Migrators |-> NotMigrating]
    /\ crashes = 0

\* auto_migrate_if_needed: the database is empty and some file is there.
\* main(): the command line asks nothing.
AutoStart(m) ==
    /\ mig[m].at = "off" /\ db = {} /\ disk # {}
    /\ mig' = [mig EXCEPT ![m] = Started]
    /\ UNCHANGED <<db, disk, crashes>>

CommandStart(m) ==
    /\ mig[m].at = "off" /\ disk # {}
    /\ mig' = [mig EXCEPT ![m] = Started]
    /\ UNCHANGED <<db, disk, crashes>>

\* A file that is gone or cannot be read is passed over with a warning.
ReadFile(m) ==
    /\ mig[m].at = "reading" /\ mig[m].text = {}
    /\ \E f \in mig[m].ahead :
         mig' = [mig EXCEPT ![m].ahead = @ \ {f},
                            ![m].text = IF f \in disk \ Unreadable THEN Contents[f] ELSE {}]
    /\ UNCHANGED <<db, disk, crashes>>

\* insert_todo: a transaction for each item; a duplicate is skipped.
InsertItem(m) ==
    /\ mig[m].at = "reading"
    /\ \E i \in mig[m].text :
         /\ db' = db \cup {i}
         /\ mig' = [mig EXCEPT ![m].text = @ \ {i}]
    /\ UNCHANGED <<disk, crashes>>

\* Mutant: the files are removed when they have been read, not inserted.
StartRemoving_Early(m) ==
    /\ mig[m].at = "reading" /\ mig[m].ahead = {}
    /\ mig' = [mig EXCEPT ![m].at = "removing", ![m].ahead = Files]
    /\ UNCHANGED <<db, disk, crashes>>

StartRemoving(m) ==
    /\ mig[m].at = "reading" /\ mig[m].ahead = {} /\ mig[m].text = {}
    /\ mig' = [mig EXCEPT ![m].at = "removing", ![m].ahead = Files]
    /\ UNCHANGED <<db, disk, crashes>>

\* Every path of the list is unlinked, whatever became of its items; an
\* unlink that fails is reported and passed over.
RemoveFile(m) ==
    /\ mig[m].at = "removing"
    /\ \E f \in mig[m].ahead :
         /\ disk' \in {disk, disk \ {f}}
         /\ mig' = [mig EXCEPT ![m].ahead = @ \ {f}]
    /\ UNCHANGED <<db, crashes>>

FinishMigration(m) ==
    /\ mig[m].at = "removing" /\ mig[m].ahead = {}
    /\ mig' = [mig EXCEPT ![m] = NotMigrating]
    /\ UNCHANGED <<db, disk, crashes>>

KillMigrator(m) ==
    /\ mig[m].at # "off" /\ crashes < MaxCrashes
    /\ mig' = [mig EXCEPT ![m] = NotMigrating]
    /\ crashes' = crashes + 1
    /\ UNCHANGED <<db, disk>>

MigrationNext == \E m \in Migrators :
    AutoStart(m) \/ CommandStart(m) \/ ReadFile(m) \/ InsertItem(m)
    \/ StartRemoving(m) \/ RemoveFile(m) \/ FinishMigration(m) \/ KillMigrator(m)

MigrationSpec == MigrationInit /\ [][MigrationNext]_migrationVars

-----------------------------------------------------------------------------
Readable == Files \ Unreadable

\* No item of a file that can be read is ever lost: until all of them have
\* rows the file stays on disk, whichever migration is killed where and
\* however two of them interleave.
ReadItemsKept == \A f \in Readable : f \in disk \/ Contents[f] \subseteq db

\* "After a clean migration the flat files are removed from disk": a file goes
\* only when its items are in the database.
OnlyMigratedRemoved == \A f \in Files : f \in disk \/ Contents[f] \subseteq db
=============================================================================
