---------------------------- MODULE DatabaseInit ----------------------------
(***************************************************************************)
(* How the encrypted database is opened (crates/persistence/src/           *)
(* database.rs, key.rs, credential.rs) by the first query that needs it    *)
(* (ConnectionRepositoryState::execute in src-tauri/src/connections.rs).   *)
(*                                                                         *)
(* Two things survive a restart: the data key in the credential store of   *)
(* the operating system and the database file.  The code creates the one   *)
(* and then the other, and migrates the file in one transaction.  The      *)
(* mutex of the repository lets one query at a time do this, so one        *)
(* variable, step, says where it stands; every step may fail, and the      *)
(* process may stop between any two.                                       *)
(***************************************************************************)
EXTENDS Naturals

CONSTANTS DataKeys,     \* the data keys that can be generated
          None,         \* no key, no file
          MaxVersion,   \* bound: schema versions of applications that run here
          MaxRestarts   \* bound: times the process stops

ASSUME DatabaseAssumption ==
    /\ None \notin DataKeys
    /\ MaxVersion \in Nat \ {0}
    /\ MaxRestarts \in Nat

VARIABLES key,        \* the credential store: a data key, or None
          file,       \* the database file, or None
          step,       \* where the query that initialises stands
          using,      \* the key it opens the file with
          first,      \* it found neither key nor file
          opened,     \* the repository is there: queries run
          supported,  \* the latest schema version this application knows
          drawn,      \* history: the keys generated so far
          forgotten,  \* history: the keys the credential store has lost
          reasons,    \* history: why a later start may be refused
          restarts    \* how often the process has stopped

databaseVars == <<key, file, step, using, first, opened, supported, drawn,
                  forgotten, reasons, restarts>>

Step == {"idle", "saving", "opening", "unlocking", "migrating", "undoing"}

(***************************************************************************)
(* An empty file, as Connection::open leaves it, has no key yet and opens  *)
(* with any; the first transaction encrypts it.                            *)
(***************************************************************************)
File == [key : DataKeys \union {None}, version : 0..MaxVersion]
EmptyFile == [key |-> None, version |-> 0]

ASSUME NoFileAssumption == None \notin File

Reason == {"crash", "key not deleted", "empty file", "file removed", "key lost"}

DatabaseInit ==
    /\ key = None
    /\ file = None
    /\ step = "idle"
    /\ using = None
    /\ first = FALSE
    /\ opened = FALSE
    /\ supported \in 1..MaxVersion
    /\ drawn = {}
    /\ forgotten = {}
    /\ reasons = {}
    /\ restarts = 0

-----------------------------------------------------------------------------
(***************************************************************************)
(* open_or_initialize.  A key without a file and a file without a key are  *)
(* refused, which changes nothing and is why Find needs both.              *)
(***************************************************************************)
CanLook == step = "idle" /\ ~opened

Find ==
    /\ CanLook
    /\ file # None /\ key # None
    /\ step' = "opening"
    /\ using' = key
    /\ first' = FALSE
    /\ UNCHANGED <<key, file, opened, supported, drawn, forgotten, reasons, restarts>>

\* A variant that looks at the key alone.
Generate_IgnoresFile ==
    /\ CanLook
    /\ key = None
    /\ \E new \in DataKeys \ drawn :
          /\ using' = new
          /\ drawn' = drawn \union {new}
    /\ step' = "saving"
    /\ first' = TRUE
    /\ UNCHANGED <<key, file, opened, supported, forgotten, reasons, restarts>>

Generate ==
    /\ CanLook
    /\ file = None /\ key = None
    /\ \E new \in DataKeys \ drawn :
          /\ using' = new
          /\ drawn' = drawn \union {new}
    /\ step' = "saving"
    /\ first' = TRUE
    /\ UNCHANGED <<key, file, opened, supported, forgotten, reasons, restarts>>

SaveKey ==
    /\ step = "saving"
    /\ key' = using
    /\ step' = "opening"
    /\ UNCHANGED <<file, using, first, opened, supported, drawn, forgotten, reasons, restarts>>

SaveKeyFails ==
    /\ step = "saving"
    /\ step' = "idle"
    /\ UNCHANGED <<key, file, using, first, opened, supported, drawn, forgotten, reasons, restarts>>

\* SQLite creates the file when the connection is opened.
CreateOrOpen ==
    /\ step = "opening"
    /\ file' = IF file = None THEN EmptyFile ELSE file
    /\ step' = "unlocking"
    /\ UNCHANGED <<key, using, first, opened, supported, drawn, forgotten, reasons, restarts>>

\* The key is applied and the schema is read with it.
Unlock ==
    /\ step = "unlocking"
    /\ file.key \in {None, using}
    /\ step' = "migrating"
    /\ UNCHANGED <<key, file, using, first, opened, supported, drawn, forgotten, reasons, restarts>>

\* A variant that leaves the new key where it is.
OpenFails_KeepsKey ==
    /\ step \in {"opening", "unlocking"}
    /\ step' = "idle"
    /\ UNCHANGED <<key, file, using, first, opened, supported, drawn, forgotten, reasons, restarts>>

\* Either part of open may fail; a key saved for it is then to be deleted.
OpenFails ==
    /\ step \in {"opening", "unlocking"}
    /\ step' = IF first THEN "undoing" ELSE "idle"
    /\ UNCHANGED <<key, file, using, first, opened, supported, drawn, forgotten, reasons, restarts>>

\* The key goes; a file that open had already created stays, without a key.
DeleteKey ==
    /\ step = "undoing"
    /\ key' = None
    /\ step' = "idle"
    /\ reasons' = reasons \union (IF file # None THEN {"empty file"} ELSE {})
    /\ UNCHANGED <<file, using, first, opened, supported, drawn, forgotten, restarts>>

DeleteKeyFails ==
    /\ step = "undoing"
    /\ step' = "idle"
    /\ reasons' = reasons \union {"key not deleted"}
    /\ UNCHANGED <<key, file, using, first, opened, supported, drawn, forgotten, restarts>>

-----------------------------------------------------------------------------
(***************************************************************************)
(* apply_migrations, one transaction from the file's version to the        *)
(* supported one.  A file that is newer is refused.                        *)
(***************************************************************************)
\* A variant that does not look at the version of the file.
Migrate_AnyVersion ==
    /\ step = "migrating"
    /\ file' = [key |-> using, version |-> supported]
    /\ step' = "idle"
    /\ opened' = TRUE
    /\ UNCHANGED <<key, using, first, supported, drawn, forgotten, reasons, restarts>>

Migrate ==
    /\ step = "migrating"
    /\ file.version <= supported
    /\ file' = [key |-> using, version |-> supported]
    /\ step' = "idle"
    /\ opened' = TRUE
    /\ UNCHANGED <<key, using, first, supported, drawn, forgotten, reasons, restarts>>

\* A variant that keeps the repository although the migration failed.
MigrateFails_Opens ==
    /\ step = "migrating"
    /\ step' = "idle"
    /\ opened' = TRUE
    /\ UNCHANGED <<key, file, using, first, supported, drawn, forgotten, reasons, restarts>>

MigrateFails ==
    /\ step = "migrating"
    /\ step' = "idle"
    /\ UNCHANGED <<key, file, using, first, opened, supported, drawn, forgotten, reasons, restarts>>

-----------------------------------------------------------------------------
(***************************************************************************)
(* What happens around the code: the process stops anywhere and a version  *)
(* of the application, newer or older, starts; the credential store loses  *)
(* the key; somebody removes the file while it is not in use.              *)
(***************************************************************************)
Restart ==
    /\ restarts < MaxRestarts
    /\ restarts' = restarts + 1
    /\ step' = "idle"
    /\ opened' = FALSE
    /\ supported' \in 1..MaxVersion
    /\ reasons' = reasons \union (IF step \in {"opening", "undoing"} /\ file = None
                                  THEN {"crash"} ELSE {})
    /\ UNCHANGED <<key, file, using, first, drawn, forgotten>>

LoseKey ==
    /\ step = "idle" /\ key # None
    /\ key' = None
    /\ forgotten' = forgotten \union {key}
    /\ reasons' = reasons \union {"key lost"}
    /\ UNCHANGED <<file, step, using, first, opened, supported, drawn, restarts>>

RemoveFile ==
    /\ step = "idle" /\ ~opened /\ file # None
    /\ file' = None
    /\ reasons' = reasons \union {"file removed"}
    /\ UNCHANGED <<key, step, using, first, opened, supported, drawn, forgotten, restarts>>

DatabaseNext ==
    \/ Find \/ Generate \/ SaveKey \/ SaveKeyFails
    \/ CreateOrOpen \/ Unlock \/ OpenFails \/ DeleteKey \/ DeleteKeyFails
    \/ Migrate \/ MigrateFails
    \/ Restart \/ LoseKey \/ RemoveFile

DatabaseSpec == DatabaseInit /\ [][DatabaseNext]_databaseVars

-----------------------------------------------------------------------------
(***************************************************************************)
(* The variables have their types, a file that is being opened exists, and *)
(* queries run only on a database that has been migrated to the version    *)
(* this application knows: a query whose initialisation failed, at any of  *)
(* its steps, leaves no repository behind for the next one.                *)
(***************************************************************************)
DatabaseTypeOK ==
    /\ key \in DataKeys \union {None}
    /\ file \in File \union {None}
    /\ step \in Step
    /\ using \in DataKeys \union {None}
    /\ first \in BOOLEAN
    /\ opened \in BOOLEAN
    /\ supported \in 1..MaxVersion
    /\ drawn \subseteq DataKeys
    /\ forgotten \subseteq DataKeys
    /\ reasons \subseteq Reason
    /\ restarts \in 0..MaxRestarts
    /\ step \in {"unlocking", "migrating"} => file # None
    /\ opened => step = "idle" /\ file # None /\ file.version = supported

(***************************************************************************)
(* A database that holds anything stays readable: the credential store has *)
(* the key it is encrypted with, or has lost it by itself.  No failure,    *)
(* restart, upgrade or retry replaces or deletes that key; in particular   *)
(* a first start that fails deletes a key nothing was encrypted with.      *)
(***************************************************************************)
DatabaseKeepsKey ==
    file # None /\ file.version > 0 =>
        \/ key = file.key
        \/ key = None /\ file.key \in forgotten

(***************************************************************************)
(* When the next start will be refused, with a key and no file or a file   *)
(* and no key, one of five things has happened: the process stopped after  *)
(* saving the key, the key could not be deleted, opening failed after it   *)
(* had created the file, or somebody else took the file or the key away.   *)
(* Any other failure leaves a state in which the next query tries again.   *)
(***************************************************************************)
RefusalIsExplained ==
    CanLook =>
        /\ key # None /\ file = None =>
              reasons \intersect {"crash", "key not deleted", "file removed"} # {}
        /\ key = None /\ file # None =>
              reasons \intersect {"empty file", "key lost"} # {}

(***************************************************************************)
(* The schema of a file never goes back to an older version, and a file    *)
(* that is encrypted never changes its key, whatever versions of the       *)
(* application open it one after the other.                                *)
(***************************************************************************)
FileOnlyGrows ==
    [][file # None /\ file' # None =>
          /\ file.version <= file'.version
          /\ file.key # None => file'.key = file.key]_databaseVars
=============================================================================
