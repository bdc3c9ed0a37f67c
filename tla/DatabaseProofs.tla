---------------------------- MODULE DatabaseProofs ----------------------------
(***************************************************************************)
(* What the database keeps, proved in two parts.                           *)
(*                                                                         *)
(* DatabaseInit: that the key of a database which holds data stays, that a *)
(* start is refused only for the reasons named, and that a file only       *)
(* grows, for any number of keys, versions and restarts.  It rests on what *)
(* a step knows that the variables do not say by themselves, because the   *)
(* code looked earlier and nobody else has changed it since (Knows): a     *)
(* query that saves a key found none, one that opens a file has the key of *)
(* the credential store in its hands, and a key that a failed first start  *)
(* deletes has encrypted nothing.                                          *)
(*                                                                         *)
(* StoredRecords: that the catalogue stays readable and the nearest        *)
(* setting in force, for any texts, ids and settings and any length of an  *)
(* import.  It rests on RowsAreEntered: the rows of the settings are what  *)
(* was last entered, row by row.                                           *)
(***************************************************************************)
EXTENDS DatabaseInit, StoredRecords, SequenceLemmas

USE DatabaseAssumption, NoFileAssumption DEF Step, Reason

Knows ==
    /\ step = "saving" => first /\ key = None /\ file = None
    /\ step \notin {"idle", "saving"} => key = using /\ using # None
    /\ step = "saving" => using # None
    /\ step \notin {"idle", "saving"} /\ ~first => file # None
    /\ step = "undoing" => first
    /\ step # "idle" /\ first /\ file # None => file.version = 0
    /\ step = "migrating" => file.key \in {None, using}

\* RefusalIsExplained, of every step in which no query initialises.
RefusalKnown ==
    step = "idle" =>
        /\ key # None /\ file = None =>
              \E reason \in reasons : reason \in {"crash", "key not deleted", "file removed"}
        /\ key = None /\ file # None =>
              \E reason \in reasons : reason \in {"empty file", "key lost"}

DatabaseInv ==
    /\ DatabaseTypeOK
    /\ Knows
    /\ DatabaseKeepsKey
    /\ RefusalKnown

LEMMA VersionIsNatural == \A f \in File : f.version \in Nat
  BY DEF File

LEMMA EmptyFileIsEmpty ==
  EmptyFile \in File /\ EmptyFile.key = None /\ EmptyFile.version = 0
  BY DEF File, EmptyFile

LEMMA DatabaseInvInit == DatabaseInit => DatabaseInv
<1> SUFFICES ASSUME DatabaseInit
             PROVE  DatabaseInv
  OBVIOUS
<1>1. first \in BOOLEAN /\ opened \in BOOLEAN
  BY DEF DatabaseInit
<1>2. DatabaseTypeOK
  BY <1>1 DEF DatabaseInit, DatabaseTypeOK
<1> QED
  BY <1>2 DEF DatabaseInit, DatabaseInv, Knows, DatabaseKeepsKey, RefusalKnown

\* Looking for key and file, and saving a new key.
LEMMA LookingKeepsInv ==
  ASSUME DatabaseInv, Find \/ Generate \/ SaveKey \/ SaveKeyFails
  PROVE  DatabaseInv'
<1> USE DEF DatabaseInv
<1>1. CASE Find
  BY <1>1 DEF Find, CanLook, DatabaseTypeOK, Knows, DatabaseKeepsKey, RefusalKnown
<1>2. CASE Generate
  BY <1>2 DEF Generate, CanLook, DatabaseTypeOK, Knows, DatabaseKeepsKey, RefusalKnown
<1>3. CASE SaveKey
  BY <1>3 DEF SaveKey, DatabaseTypeOK, Knows, DatabaseKeepsKey, RefusalKnown
<1>4. CASE SaveKeyFails
  BY <1>4 DEF SaveKeyFails, DatabaseTypeOK, Knows, DatabaseKeepsKey, RefusalKnown
<1> QED
  BY <1>1, <1>2, <1>3, <1>4

\* SQLite has created the file, or it was there.
LEMMA CreatingKeepsInv ==
  ASSUME DatabaseInv, CreateOrOpen
  PROVE  DatabaseInv'
<1> USE DEF DatabaseInv, CreateOrOpen
<1>1. /\ file' \in File
      /\ file = None => file'.key = None /\ file'.version = 0
      /\ file # None => file' = file
  <2>1. CASE file = None
    BY <2>1, EmptyFileIsEmpty
  <2>2. CASE file # None
    BY <2>2 DEF DatabaseTypeOK
  <2> QED
    BY <2>1, <2>2
<1>2. file' # None
  BY <1>1
<1>3. /\ step = "opening" /\ step' = "unlocking"
      /\ UNCHANGED <<key, using, first, opened, supported, drawn, forgotten, reasons, restarts>>
  OBVIOUS
<1> HIDE DEF CreateOrOpen
<1>4. DatabaseTypeOK'
  BY <1>1, <1>2, <1>3 DEF DatabaseTypeOK
<1>5. Knows'
  BY <1>1, <1>2, <1>3 DEF Knows
<1> QED
  BY <1>1, <1>3, <1>4, <1>5 DEF DatabaseKeepsKey, RefusalKnown

\* The key of a first start that failed is deleted; it has encrypted nothing.
LEMMA DeletingKeepsInv ==
  ASSUME DatabaseInv, DeleteKey
  PROVE  DatabaseInv'
<1> USE DEF DatabaseInv, DeleteKey
<1>1. /\ reasons' \subseteq Reason
      /\ file # None => "empty file" \in reasons'
  <2>1. CASE file = None
    BY <2>1 DEF DatabaseTypeOK
  <2>2. CASE file # None
    BY <2>2 DEF DatabaseTypeOK
  <2> QED
    BY <2>1, <2>2
<1>2. /\ step' = "idle" /\ key' = None
      /\ UNCHANGED <<file, using, first, opened, supported, drawn, forgotten, restarts>>
  OBVIOUS
<1>3. step = "undoing"
  OBVIOUS
<1> HIDE DEF DeleteKey
<1>4. DatabaseTypeOK'
  BY <1>1, <1>2 DEF DatabaseTypeOK
<1>5. Knows'
  BY <1>1, <1>2 DEF Knows
<1>6. DatabaseKeepsKey'
  BY <1>3, <1>2 DEF DatabaseKeepsKey, Knows
<1>7. RefusalKnown'
  BY <1>1, <1>2 DEF RefusalKnown
<1> QED
  BY <1>4, <1>5, <1>6, <1>7

\* The file is migrated, with the key it was opened with.
LEMMA MigratingKeepsInv ==
  ASSUME DatabaseInv, Migrate
  PROVE  DatabaseInv'
<1> USE DEF DatabaseInv, Migrate
<1>1. /\ key = using /\ using \in DataKeys
      /\ supported \in 0..MaxVersion
  <2>1. step = "migrating"
    OBVIOUS
  <2>2. supported \in 1..MaxVersion
    BY DEF DatabaseTypeOK
  <2>3. key = using /\ using \in DataKeys
    BY <2>1 DEF Knows, DatabaseTypeOK
  <2> QED
    BY <2>2, <2>3
<1>2. file' \in File /\ file'.key = using /\ file'.version = supported
  BY <1>1 DEF File
<1>3. /\ step' = "idle" /\ opened'
      /\ UNCHANGED <<key, using, first, supported, drawn, forgotten, reasons, restarts>>
  OBVIOUS
<1>4. opened' \in BOOLEAN
  OBVIOUS
<1> HIDE DEF Migrate
<1>5. DatabaseTypeOK'
  BY <1>2, <1>3, <1>4 DEF DatabaseTypeOK
<1>6. Knows'
  BY <1>3 DEF Knows
<1>7. DatabaseKeepsKey'
  BY <1>1, <1>2, <1>3 DEF DatabaseKeepsKey
<1>8. RefusalKnown'
  BY <1>1, <1>2, <1>3 DEF RefusalKnown
<1> QED
  BY <1>5, <1>6, <1>7, <1>8

\* The process stops, and another version of the application starts.
LEMMA RestartingKeepsInv ==
  ASSUME DatabaseInv, Restart
  PROVE  DatabaseInv'
<1> USE DEF DatabaseInv, Restart
<1>1. /\ reasons \subseteq reasons' /\ reasons' \subseteq Reason
      /\ step \in {"opening", "undoing"} /\ file = None => "crash" \in reasons'
  <2>1. CASE step \in {"opening", "undoing"} /\ file = None
    BY <2>1 DEF DatabaseTypeOK
  <2>2. CASE ~(step \in {"opening", "undoing"} /\ file = None)
    BY <2>2 DEF DatabaseTypeOK
  <2> QED
    BY <2>1, <2>2
<1>2. /\ step' = "idle" /\ ~opened'
      /\ supported' \in 1..MaxVersion
      /\ UNCHANGED <<key, file, using, first, drawn, forgotten>>
  OBVIOUS
<1>3. opened' \in BOOLEAN
  OBVIOUS
<1>4. restarts' \in 0..MaxRestarts
  <2>1. restarts \in 0..MaxRestarts
    BY DEF DatabaseTypeOK
  <2> QED
    BY <2>1
<1> HIDE DEF Restart
<1>5. DatabaseTypeOK'
  BY <1>1, <1>2, <1>3, <1>4 DEF DatabaseTypeOK
<1>6. Knows'
  BY <1>2 DEF Knows
<1>7. DatabaseKeepsKey'
  BY <1>2 DEF DatabaseKeepsKey
<1>8. RefusalKnown'
  BY <1>1, <1>2 DEF RefusalKnown, Knows, DatabaseTypeOK
<1> QED
  BY <1>5, <1>6, <1>7, <1>8

\* Opening that goes on, and what fails.
LEMMA OpeningKeepsInv ==
  ASSUME DatabaseInv, Unlock \/ OpenFails \/ DeleteKeyFails
  PROVE  DatabaseInv'
<1> USE DEF DatabaseInv
<1>1. CASE Unlock
  BY <1>1 DEF Unlock, DatabaseTypeOK, Knows, DatabaseKeepsKey, RefusalKnown
<1>2. CASE OpenFails
  BY <1>2 DEF OpenFails, DatabaseTypeOK, Knows, DatabaseKeepsKey, RefusalKnown
<1>3. CASE DeleteKeyFails
  BY <1>3 DEF DeleteKeyFails, DatabaseTypeOK, Knows, DatabaseKeepsKey, RefusalKnown
<1> QED
  BY <1>1, <1>2, <1>3

\* A migration that fails, and what happens around the code.
LEMMA OthersKeepInv ==
  ASSUME DatabaseInv, MigrateFails \/ LoseKey \/ RemoveFile
  PROVE  DatabaseInv'
<1> USE DEF DatabaseInv
<1>1. CASE MigrateFails
  BY <1>1 DEF MigrateFails, DatabaseTypeOK, Knows, DatabaseKeepsKey, RefusalKnown
<1>2. CASE LoseKey
  BY <1>2 DEF LoseKey, DatabaseTypeOK, Knows, DatabaseKeepsKey, RefusalKnown
<1>3. CASE RemoveFile
  BY <1>3 DEF RemoveFile, DatabaseTypeOK, Knows, DatabaseKeepsKey, RefusalKnown
<1> QED
  BY <1>1, <1>2, <1>3

\* The invariant holds of every behaviour.
THEOREM DatabaseInvariant == DatabaseSpec => []DatabaseInv
<1>1. DatabaseInv /\ [DatabaseNext]_databaseVars => DatabaseInv'
  <2> SUFFICES ASSUME DatabaseInv, [DatabaseNext]_databaseVars
               PROVE  DatabaseInv'
    OBVIOUS
  <2>1. CASE DatabaseNext
    BY <2>1, LookingKeepsInv, CreatingKeepsInv, DeletingKeepsInv, MigratingKeepsInv,
       RestartingKeepsInv, OpeningKeepsInv, OthersKeepInv
       DEF DatabaseNext
  <2>2. CASE UNCHANGED databaseVars
    BY <2>2 DEF databaseVars, DatabaseInv, DatabaseTypeOK, Knows, DatabaseKeepsKey,
                RefusalKnown
  <2> QED
    BY <2>1, <2>2
<1> QED
  BY DatabaseInvInit, <1>1, PTL DEF DatabaseSpec

-----------------------------------------------------------------------------
\* Type correctness; queries run only on a database migrated to the version known.
THEOREM DatabaseTypeCorrect == DatabaseSpec => []DatabaseTypeOK
<1>1. DatabaseInv => DatabaseTypeOK
  BY DEF DatabaseInv
<1> QED
  BY <1>1, DatabaseInvariant, PTL

\* No failure, restart or upgrade replaces or deletes the key of a database with data.
THEOREM KeyIsKept == DatabaseSpec => []DatabaseKeepsKey
<1>1. DatabaseInv => DatabaseKeepsKey
  BY DEF DatabaseInv
<1> QED
  BY <1>1, DatabaseInvariant, PTL

\* A start is refused only for one of the five reasons.
THEOREM RefusalHasReason == DatabaseSpec => []RefusalIsExplained
<1>1. DatabaseInv => RefusalIsExplained
  BY DEF DatabaseInv, RefusalKnown, RefusalIsExplained, CanLook
<1> QED
  BY <1>1, DatabaseInvariant, PTL

\* The schema of a file never goes back, and an encrypted file keeps its key.
THEOREM FileGrows == DatabaseSpec => FileOnlyGrows
<1> DEFINE Grows ==
      file # None /\ file' # None =>
          /\ file.version <= file'.version
          /\ file.key # None => file'.key = file.key
<1>1. DatabaseInv /\ [DatabaseNext]_databaseVars => [Grows]_databaseVars
  <2> SUFFICES ASSUME DatabaseInv, DatabaseNext
               PROVE  Grows
    OBVIOUS
  <2>1. file # None => file.version \in Nat
    <3>1. file \in File \union {None}
      BY DEF DatabaseInv, DatabaseTypeOK
    <3> QED
      BY <3>1, VersionIsNatural
  <2>2. ASSUME file' = file
        PROVE  Grows
    BY <2>1, <2>2
  <2>3. CASE Migrate
    <3>1. file.key \in {None, using} /\ file.version <= supported
      BY <2>3 DEF Migrate, Knows, DatabaseInv
    <3>2. file' = [key |-> using, version |-> supported]
      BY <2>3 DEF Migrate
    <3> QED
      BY <3>1, <3>2
  <2>4. CASE CreateOrOpen
    BY <2>2, <2>4 DEF CreateOrOpen
  <2>5. CASE RemoveFile
    BY <2>5 DEF RemoveFile
  <2> QED
    BY <2>2, <2>3, <2>4, <2>5
       DEF DatabaseNext, Find, Generate, SaveKey, SaveKeyFails, Unlock, OpenFails,
           DeleteKey, DeleteKeyFails, MigrateFails, Restart, LoseKey
<1> QED
  BY <1>1, DatabaseInvariant, PTL DEF DatabaseSpec, FileOnlyGrows

-----------------------------------------------------------------------------
(***************************************************************************)
(* The rules.  What the code accepts the schema accepts: a blank text of   *)
(* SQL is one of the code, and the two readings of what references an      *)
(* authentication method may have are the same.                            *)
(***************************************************************************)
THEOREM ValidAlwaysAccepted == ValidIsAccepted(Config, GroupConfig)
<1>1. ASSUME NEW config \in Config, ValidConfig(config)
      PROVE  ConnectionChecks(config)
  <2>1. {config.name, config.host, config.username, config.credential} \intersect Spaces = {}
    BY <1>1, ConfigAssumption DEF ValidConfig
  <2>2. config.port \in 1..MaxPort
    BY <1>1, ConfigAssumption DEF ValidConfig, Config
  <2>3. config.color \in HexColors \union {Null}
    BY <1>1 DEF ValidConfig, IsHexColor
  <2>4. config.auth \in AuthMethod
    BY DEF Config
  <2> QED
    BY <1>1, <2>1, <2>2, <2>3, <2>4 DEF ConnectionChecks, ValidConfig, AuthFits, AuthMethod
<1>2. ASSUME NEW group \in GroupConfig, ValidGroup(group)
      PROVE  GroupChecks(group)
  BY <1>2, ConfigAssumption DEF ValidGroup, GroupChecks, IsHexColor
<1> QED
  BY <1>1, <1>2 DEF ValidIsAccepted

-----------------------------------------------------------------------------
(***************************************************************************)
(* The records.  The rows of settings are what was entered, row by row,    *)
(* from which the rest follows; the validity of the rows that are listed   *)
(* needs that a deletion of a group keeps it.                              *)
(***************************************************************************)
Entered(row) == entered[row.owner][row.setting] = row.value

RowsAreEntered == settingRows = {row \in SettingRow : Entered(row)}
OwnersExist == \A row \in settingRows : row.owner \in ExistingOwners

\* The tables of connections and groups.
RowsOK ==
    /\ connectionRows \in [ConnectionIds -> Config \union {Null}]
    /\ deleted \subseteq StoredConnections
    /\ groupRows \in [GroupIds -> GroupConfig \union {Null}]
    /\ \A id \in StoredConnections :
          connectionRows[id].id = id /\ ReferencesExist(connectionRows[id])
    /\ CatalogIsReadable

\* The table of settings.
SettingsOK ==
    /\ settingRows \subseteq SettingRow
    /\ entered \in [Owners -> Override]
    /\ RowsAreEntered
    /\ OwnersExist

RecordsInv == RowsOK /\ SettingsOK

LEMMA OwnersDiffer ==
  /\ Everybody \in Owners
  /\ \A group \in GroupIds : OfGroup(group) \in Owners /\ OfGroup(group) # Everybody
  /\ \A id \in ConnectionIds : OfConnection(id) \in Owners /\ OfConnection(id) # Everybody
  /\ \A group \in GroupIds, id \in ConnectionIds : OfGroup(group) # OfConnection(id)
  /\ \A id, other \in ConnectionIds : OfConnection(id) = OfConnection(other) => id = other
  /\ \A group, other \in GroupIds : OfGroup(group) = OfGroup(other) => group = other
BY DEF Owners, Everybody, OfGroup, OfConnection

\* A valid connection or group is one that a row can have.
LEMMA ValidHasId ==
  /\ \A config \in Configs : config \in Config /\ config # Null
        /\ (ValidConfig(config) => config.id \in ConnectionIds)
  /\ \A group \in GroupConfigs : group \in GroupConfig /\ group # Null
        /\ (ValidGroup(group) => group.id \in GroupIds)
BY RecordsAssumption, NullIsNoRow DEF ValidConfig, ValidGroup

LEMMA NoOverrideIsOverride == NoOverride \in Override /\ \A s \in SettingKeys : NoOverride[s] = Null
BY DEF NoOverride, Override

\* write_setting, twice: the rows of the owner are the values of the override.
LEMMA ApplyFacts ==
  ASSUME NEW table \in SUBSET SettingRow, NEW owner \in Owners, NEW override \in Override
  PROVE  ApplySettings(table, owner, override) =
            {row \in SettingRow : IF row.owner = owner THEN row.value = override[row.setting]
                                                       ELSE row \in table}
<1> DEFINE Written(t, s) == {row \in SettingRow :
                IF row.owner = owner /\ row.setting = s THEN row.value = override[s]
                                                        ELSE row \in t}
<1>1. ASSUME NEW t \in SUBSET SettingRow, NEW s \in SettingKeys
      PROVE  WriteSetting(t, owner, s, override[s]) = Written(t, s)
  <2>1. CASE override[s] = Null
    BY <2>1, ConfigAssumption DEF WriteSetting, SettingRow
  <2>2. CASE override[s] # Null
    <3> DEFINE new == [owner |-> owner, setting |-> s, value |-> override[s]]
    <3>1. override[s] \in Values
      BY <2>2 DEF Override
    <3>2. new \in SettingRow
      BY <3>1 DEF SettingRow
    <3>3. \A row \in SettingRow :
             row = new <=> row.owner = owner /\ row.setting = s /\ row.value = override[s]
      BY DEF SettingRow
    <3>4. WriteSetting(t, owner, s, override[s]) =
             {row \in t : row.owner # owner \/ row.setting # s} \union {new}
      BY <2>2 DEF WriteSetting
    <3> HIDE DEF new
    <3> QED
      BY <3>2, <3>3, <3>4
  <2> QED
    BY <2>1, <2>2
<1>2. "connectTimeout" \in SettingKeys /\ "keepAlive" \in SettingKeys
      /\ \A row \in SettingRow : row.setting \in {"connectTimeout", "keepAlive"}
  BY DEF SettingKeys, SettingRow
<1>3. Written(table, "connectTimeout") \in SUBSET SettingRow
  OBVIOUS
<1>4. ApplySettings(table, owner, override) =
         Written(Written(table, "connectTimeout"), "keepAlive")
  BY <1>1, <1>2, <1>3 DEF ApplySettings
<1> QED
  BY <1>2, <1>4

\* Settings that are saved for an owner are what was entered.
LEMMA AppliedIsEntered ==
  ASSUME RecordsInv, NEW owner \in Owners, NEW override \in Override,
         settingRows' = ApplySettings(settingRows, owner, override),
         entered' = [entered EXCEPT ![owner] = override],
         ExistingOwners \subseteq ExistingOwners',
         owner \in ExistingOwners' \/ override = NoOverride
  PROVE  /\ settingRows' \subseteq SettingRow /\ entered' \in [Owners -> Override]
         /\ RowsAreEntered' /\ OwnersExist'
<1>1. /\ settingRows \in SUBSET SettingRow /\ entered \in [Owners -> Override]
      /\ settingRows = {row \in SettingRow : Entered(row)}
  BY DEF RecordsInv, SettingsOK, RowsAreEntered
<1>2. settingRows' = {row \in SettingRow :
                         IF row.owner = owner THEN row.value = override[row.setting]
                                              ELSE row \in settingRows}
  BY <1>1, ApplyFacts
<1>3. entered' \in [Owners -> Override]
  BY <1>1
<1>4. ASSUME NEW row \in SettingRow
      PROVE  /\ Entered(row)' <=> row \in settingRows'
             /\ row \in settingRows' => row.owner \in ExistingOwners'
  <2>1. row.owner \in Owners /\ row.setting \in SettingKeys /\ row.value # Null
    BY ConfigAssumption DEF SettingRow
  <2>2. CASE row.owner = owner
    <3>1. entered'[owner] = override
      BY <1>1
    <3>2. Entered(row)' <=> row \in settingRows'
      BY <1>2, <2>2, <3>1 DEF Entered
    <3>3. row \in settingRows' => override # NoOverride
      BY <1>2, <2>1, <2>2, NoOverrideIsOverride
    <3> QED
      BY <2>2, <3>2, <3>3
  <2>3. CASE row.owner # owner
    <3>1. entered'[row.owner] = entered[row.owner]
      BY <1>1, <2>1, <2>3
    <3>2. row \in settingRows' <=> row \in settingRows
      BY <1>2, <2>3
    <3>3. row \in settingRows => row.owner \in ExistingOwners
      BY DEF RecordsInv, SettingsOK, OwnersExist
    <3> QED
      BY <1>1, <3>1, <3>2, <3>3 DEF Entered
  <2> QED
    BY <2>2, <2>3
<1>5. settingRows' \subseteq SettingRow
  BY <1>2
<1> QED
  BY <1>3, <1>4, <1>5 DEF RowsAreEntered, OwnersExist

\* The rows of some owners go, and what was entered for them.
LEMMA RemovedIsEntered ==
  ASSUME RecordsInv, NEW owners \in SUBSET Owners,
         settingRows' = {row \in settingRows : row.owner \notin owners},
         entered' \in [Owners -> Override],
         \A owner \in Owners : entered'[owner] = IF owner \in owners THEN NoOverride
                                                 ELSE entered[owner],
         ExistingOwners \ owners \subseteq ExistingOwners'
  PROVE  /\ settingRows' \subseteq SettingRow
         /\ RowsAreEntered' /\ OwnersExist'
<1>1. /\ settingRows \in SUBSET SettingRow
      /\ settingRows = {row \in SettingRow : Entered(row)}
  BY DEF RecordsInv, SettingsOK, RowsAreEntered
<1>2. ASSUME NEW row \in SettingRow
      PROVE  Entered(row)' <=> row \in settingRows'
  <2>1. row.owner \in Owners /\ row.setting \in SettingKeys /\ row.value # Null
    BY ConfigAssumption DEF SettingRow
  <2>2. CASE row.owner \in owners
    BY <2>1, <2>2, NoOverrideIsOverride DEF Entered
  <2>3. CASE row.owner \notin owners
    BY <1>1, <2>1, <2>3 DEF Entered
  <2> QED
    BY <2>2, <2>3
<1>3. OwnersExist'
  BY DEF OwnersExist, RecordsInv, SettingsOK
<1> QED
  BY <1>1, <1>2, <1>3 DEF RowsAreEntered

-----------------------------------------------------------------------------
\* A configuration that may become the row of an id.
FitsRow(config, id) ==
    /\ config \in Config /\ config # Null /\ config.id = id
    /\ ReferencesExist(config) /\ ValidConfig(config)

\* Connections that are valid and refer to rows take the place of others.
LEMMA SavedRows ==
  ASSUME RowsOK, NEW ids \in SUBSET ConnectionIds,
         groupRows' = groupRows, deleted' = deleted \ ids,
         connectionRows' \in [ConnectionIds -> Config \union {Null}],
         \A id \in ids : FitsRow(connectionRows'[id], id),
         \A id \in ConnectionIds \ ids : connectionRows'[id] = connectionRows[id]
  PROVE  /\ RowsOK'
         /\ ExistingOwners \subseteq ExistingOwners'
         /\ \A id \in ids : OfConnection(id) \in ExistingOwners'
<1>1. StoredConnections' = StoredConnections \union ids
  BY DEF StoredConnections, FitsRow
<1>2. StoredGroups' = StoredGroups
  BY DEF StoredGroups
<1>3. \A config : ReferencesExist(config)' <=> ReferencesExist(config)
  BY <1>2 DEF ReferencesExist
<1>4. ASSUME NEW id \in StoredConnections'
      PROVE  connectionRows'[id].id = id /\ ReferencesExist(connectionRows[id])'
  <2>1. id \in ConnectionIds
    BY DEF StoredConnections
  <2>2. CASE id \in ids
    BY <1>2, <2>2 DEF FitsRow, ReferencesExist
  <2>3. CASE id \notin ids
    <3>1. id \in StoredConnections
      BY <1>1, <2>3
    <3>2. ReferencesExist(connectionRows[id])
      BY <3>1 DEF RowsOK
    <3>3. ReferencesExist(connectionRows[id])'
      BY <1>2, <2>1, <2>3, <3>2 DEF ReferencesExist
    <3> QED
      BY <2>1, <2>3, <3>1, <3>3 DEF RowsOK
  <2> QED
    BY <2>2, <2>3
<1>5. ASSUME NEW id \in LiveConnections'
      PROVE  ValidConfig(connectionRows'[id])
  <2>1. id \in ConnectionIds /\ (id \in ids \/ id \in LiveConnections)
    BY <1>1 DEF LiveConnections, StoredConnections
  <2> QED
    BY <1>5, <2>1 DEF FitsRow, RowsOK, CatalogIsReadable
<1>6. RowsOK'
  BY <1>1, <1>4, <1>5 DEF RowsOK, CatalogIsReadable
<1> QED
  BY <1>1, <1>2, <1>6 DEF ExistingOwners

LEMMA InitRecords == RecordsInit => RecordsInv
<1> SUFFICES ASSUME RecordsInit PROVE RowsOK /\ SettingsOK
  BY DEF RecordsInv
<1>1. StoredConnections = {} /\ LiveConnections = {}
  BY DEF RecordsInit, StoredConnections, LiveConnections
<1>2. RowsOK
  BY <1>1 DEF RowsOK, RecordsInit, CatalogIsReadable
<1>3. \A row \in SettingRow : ~Entered(row)
  <2> SUFFICES ASSUME NEW row \in SettingRow PROVE ~Entered(row)
    OBVIOUS
  <2>1. row.owner \in Owners /\ row.setting \in SettingKeys /\ row.value # Null
    BY ConfigAssumption DEF SettingRow
  <2> QED
    BY <2>1, NoOverrideIsOverride DEF Entered, RecordsInit
<1>4. SettingsOK
  BY <1>3, NoOverrideIsOverride DEF SettingsOK, RecordsInit, RowsAreEntered, OwnersExist
<1> QED
  BY <1>2, <1>4

LEMMA SaveKeepsRecords == RecordsInv /\ SaveConnection => RecordsInv'
<1> SUFFICES ASSUME RecordsInv, SaveConnection PROVE RowsOK' /\ SettingsOK'
  BY DEF RecordsInv
<1>1. PICK config \in Configs : \E override \in Override :
         /\ ValidConfig(config) /\ ReferencesExist(config)
         /\ connectionRows' = [connectionRows EXCEPT ![config.id] = config]
         /\ deleted' = deleted \ {config.id}
         /\ settingRows' = ApplySettings(settingRows, OfConnection(config.id), override)
         /\ entered' = [entered EXCEPT ![OfConnection(config.id)] = override]
         /\ groupRows' = groupRows
  BY DEF SaveConnection
<1>2. PICK override \in Override :
         /\ settingRows' = ApplySettings(settingRows, OfConnection(config.id), override)
         /\ entered' = [entered EXCEPT ![OfConnection(config.id)] = override]
  BY <1>1
<1> DEFINE id == config.id
<1>3. id \in ConnectionIds /\ FitsRow(config, id)
  BY <1>1, ValidHasId DEF FitsRow
<1>4. RowsOK
  BY DEF RecordsInv
<1>5. /\ connectionRows' \in [ConnectionIds -> Config \union {Null}]
      /\ connectionRows'[id] = config
      /\ \A other \in ConnectionIds \ {id} : connectionRows'[other] = connectionRows[other]
  BY <1>1, <1>3, <1>4 DEF RowsOK, FitsRow
<1> HIDE DEF id
<1>6. /\ RowsOK' /\ ExistingOwners \subseteq ExistingOwners'
      /\ OfConnection(id) \in ExistingOwners'
  <2>1. groupRows' = groupRows /\ deleted' = deleted \ {id}
    BY <1>1 DEF id
  <2>2. \A i \in {id} : FitsRow(connectionRows'[i], i)
    BY <1>3, <1>5
  <2>3. {id} \in SUBSET ConnectionIds
    BY <1>3
  <2> QED
    BY <1>4, <1>5, <2>1, <2>2, <2>3, SavedRows
<1>7. OfConnection(id) \in Owners
  BY <1>3, OwnersDiffer
<1>8. /\ settingRows' = ApplySettings(settingRows, OfConnection(id), override)
      /\ entered' = [entered EXCEPT ![OfConnection(id)] = override]
  BY <1>2 DEF id
<1> QED
  BY <1>6, <1>7, <1>8, AppliedIsEntered DEF SettingsOK

\* The last item for a connection is one of its items.
LEMMA MaxIsMember == ASSUME NEW n \in Nat, NEW s \in SUBSET (1..n), s # {}
                     PROVE  Max(s) \in s
<1>1. Max(s) = LastOf(s)
  BY DEF Max, LastOf
<1> QED
  BY <1>1, LastOfIn DEF LastOf

LEMMA ImportKeepsRecords == RecordsInv /\ ImportConnections => RecordsInv'
<1> SUFFICES ASSUME RecordsInv, ImportConnections PROVE RowsOK' /\ SettingsOK'
  BY DEF RecordsInv
<1>1. PICK n \in 1..MaxImported : \E configs \in [1..n -> Configs] :
         (\A i \in 1..n : ValidConfig(configs[i])) /\ SaveImported(configs)
  BY DEF ImportConnections
<1>2. PICK configs \in [1..n -> Configs] :
         (\A i \in 1..n : ValidConfig(configs[i])) /\ SaveImported(configs)
  BY <1>1
<1> DEFINE ids == {configs[i].id : i \in DOMAIN configs}
           last == [id \in ids |-> Max({i \in DOMAIN configs : configs[i].id = id})]
           owners == {OfConnection(id) : id \in ids}
<1>3. /\ \A i \in DOMAIN configs : ReferencesExist(configs[i])
      /\ connectionRows' = [id \in ConnectionIds |->
                               IF id \in ids THEN configs[last[id]] ELSE connectionRows[id]]
      /\ deleted' = deleted \ ids
      /\ settingRows' = {row \in settingRows : row.owner \notin owners}
      /\ entered' = [owner \in Owners |->
                        IF owner \in owners THEN NoOverride ELSE entered[owner]]
      /\ groupRows' = groupRows
  BY <1>2 DEF SaveImported
<1>4. n \in Nat /\ DOMAIN configs = 1..n
  BY <1>1, RecordsAssumption
<1>5. \A i \in 1..n : FitsRow(configs[i], configs[i].id) /\ configs[i].id \in ConnectionIds
  BY <1>2, <1>3, <1>4, ValidHasId DEF FitsRow
<1>6. ids \in SUBSET ConnectionIds
  BY <1>4, <1>5
<1>7. \A id \in ids : last[id] \in 1..n /\ configs[last[id]].id = id
  <2> SUFFICES ASSUME NEW id \in ids PROVE last[id] \in 1..n /\ configs[last[id]].id = id
    OBVIOUS
  <2> DEFINE items == {i \in DOMAIN configs : configs[i].id = id}
  <2>1. items \in SUBSET (1..n) /\ items # {} /\ last[id] = Max(items)
    BY <1>4
  <2>2. last[id] \in items
    <3> HIDE DEF items, last, ids
    <3> QED
      BY <1>4, <2>1, MaxIsMember
  <2> QED
    BY <1>4, <2>2
<1>8. \A id \in ids : FitsRow(configs[last[id]], id)
  BY <1>5, <1>7
<1> HIDE DEF ids, last
<1>9. /\ connectionRows' \in [ConnectionIds -> Config \union {Null}]
      /\ \A id \in ids : FitsRow(connectionRows'[id], id)
      /\ \A id \in ConnectionIds \ ids : connectionRows'[id] = connectionRows[id]
  BY <1>3, <1>6, <1>8 DEF FitsRow, RecordsInv, RowsOK
<1>10. RowsOK' /\ ExistingOwners \subseteq ExistingOwners'
  BY <1>3, <1>6, <1>9, SavedRows DEF RecordsInv
<1>11. owners \in SUBSET Owners
  BY <1>6, OwnersDiffer
<1>12. /\ entered' \in [Owners -> Override]
       /\ \A owner \in Owners : entered'[owner] = IF owner \in owners THEN NoOverride
                                                  ELSE entered[owner]
  BY <1>3, NoOverrideIsOverride DEF RecordsInv, SettingsOK
<1> HIDE DEF owners
<1> QED
  BY <1>3, <1>10, <1>11, <1>12, RemovedIsEntered DEF SettingsOK

LEMMA MarkKeepsRecords == RecordsInv /\ MarkDeleted => RecordsInv'
<1> SUFFICES ASSUME RecordsInv, MarkDeleted PROVE RowsOK' /\ SettingsOK'
  BY DEF RecordsInv
<1>1. PICK id \in LiveConnections : deleted' = deleted \union {id}
  BY DEF MarkDeleted
<1>2. UNCHANGED <<connectionRows, groupRows, settingRows, entered>>
  BY DEF MarkDeleted
<1>3. StoredConnections' = StoredConnections /\ StoredGroups' = StoredGroups
  BY <1>2 DEF StoredConnections, StoredGroups
<1>4. ExistingOwners' = ExistingOwners
  BY <1>3 DEF ExistingOwners
<1>5. deleted' \subseteq StoredConnections' /\ LiveConnections' \subseteq LiveConnections
  BY <1>1, <1>3 DEF RecordsInv, RowsOK, LiveConnections
<1>6. RowsOK'
  BY <1>2, <1>3, <1>5 DEF RecordsInv, RowsOK, CatalogIsReadable, ReferencesExist
<1>7. SettingsOK'
  BY <1>2, <1>4 DEF RecordsInv, SettingsOK, RowsAreEntered, OwnersExist, Entered
<1> QED
  BY <1>6, <1>7

LEMMA SaveGroupKeepsRecords == RecordsInv /\ SaveGroupConfig => RecordsInv'
<1> SUFFICES ASSUME RecordsInv, SaveGroupConfig PROVE RowsOK' /\ SettingsOK'
  BY DEF RecordsInv
<1>1. PICK group \in GroupConfigs :
         ValidGroup(group) /\ groupRows' = [groupRows EXCEPT ![group.id] = group]
  BY DEF SaveGroupConfig
<1>2. UNCHANGED <<connectionRows, deleted, settingRows, entered>>
  BY DEF SaveGroupConfig
<1>3. groupRows' \in [GroupIds -> GroupConfig \union {Null}]
  BY <1>1, ValidHasId DEF RecordsInv, RowsOK
<1>4. StoredGroups \subseteq StoredGroups'
  BY <1>1, ValidHasId DEF RecordsInv, RowsOK, StoredGroups
<1>5. StoredConnections' = StoredConnections /\ LiveConnections' = LiveConnections
  BY <1>2 DEF StoredConnections, LiveConnections
<1>6. \A id \in StoredConnections' : ReferencesExist(connectionRows[id])'
  BY <1>2, <1>4, <1>5 DEF RecordsInv, RowsOK, ReferencesExist
<1>7. RowsOK'
  BY <1>2, <1>3, <1>5, <1>6 DEF RecordsInv, RowsOK, CatalogIsReadable
<1>8. ExistingOwners \subseteq ExistingOwners'
  BY <1>4, <1>5 DEF ExistingOwners
<1>9. SettingsOK'
  BY <1>2, <1>8 DEF RecordsInv, SettingsOK, RowsAreEntered, OwnersExist, Entered
<1> QED
  BY <1>7, <1>9

\* A connection that loses its group keeps the rest, and stays valid.
LEMMA UngroupedConfig ==
  ASSUME NEW config \in Config
  PROVE  LET alone == [config EXCEPT !.group = Null]
         IN  /\ alone \in Config /\ alone # Null /\ alone.group = Null
             /\ alone.id = config.id /\ alone.key = config.key
             /\ ValidConfig(config) => ValidConfig(alone)
<1> DEFINE alone == [config EXCEPT !.group = Null]
<1>1. alone \in Config
  BY DEF Config
<1>2. /\ alone.id = config.id /\ alone.name = config.name /\ alone.host = config.host
      /\ alone.port = config.port /\ alone.username = config.username
      /\ alone.color = config.color /\ alone.auth = config.auth
      /\ alone.credential = config.credential /\ alone.key = config.key
      /\ alone.group = Null
  BY DEF Config
<1>3. alone # Null
  BY <1>1, NullIsNoRow
<1>4. Null \notin Blank
  BY ConfigAssumption
<1> HIDE DEF alone
<1>5. ValidConfig(config) => ValidConfig(alone)
  BY <1>2, <1>4 DEF ValidConfig, AuthFits
<1> QED
  BY <1>1, <1>2, <1>3, <1>5 DEF alone

LEMMA RemoveGroupKeepsRecords == RecordsInv /\ RemoveGroup => RecordsInv'
<1> SUFFICES ASSUME RecordsInv, RemoveGroup PROVE RowsOK' /\ SettingsOK'
  BY DEF RecordsInv
<1>1. PICK group \in StoredGroups :
         /\ connectionRows' = Ungrouped(group)
         /\ groupRows' = [groupRows EXCEPT ![group] = Null]
         /\ settingRows' = {row \in settingRows : row.owner # OfGroup(group)}
         /\ entered' = [entered EXCEPT ![OfGroup(group)] = NoOverride]
  BY DEF RemoveGroup
<1>2. deleted' = deleted /\ group \in GroupIds
  BY DEF RemoveGroup, StoredGroups
<1>3. groupRows' \in [GroupIds -> GroupConfig \union {Null}]
  BY <1>1 DEF RecordsInv, RowsOK
<1>4. StoredGroups' = StoredGroups \ {group}
  BY <1>1, <1>2 DEF StoredGroups, RecordsInv, RowsOK
<1>5. ASSUME NEW id \in ConnectionIds
      PROVE  /\ connectionRows'[id] \in Config \union {Null}
             /\ connectionRows'[id] = Null <=> connectionRows[id] = Null
             /\ connectionRows[id] # Null =>
                   /\ connectionRows'[id].id = id
                   /\ ReferencesExist(connectionRows[id])'
                   /\ ValidConfig(connectionRows[id]) => ValidConfig(connectionRows'[id])
  <2> DEFINE before == connectionRows[id]
  <2>1. CASE before = Null
    BY <1>1, <2>1 DEF Ungrouped
  <2>2. CASE before # Null
    <3>1. before \in Config /\ before.id = id /\ ReferencesExist(before)
      BY <2>2 DEF RecordsInv, RowsOK, StoredConnections
    <3>2. CASE before.group = group
      <4>1. connectionRows'[id] = [before EXCEPT !.group = Null]
        BY <1>1, <2>2, <3>2 DEF Ungrouped
      <4> DEFINE alone == [before EXCEPT !.group = Null]
      <4>2. /\ alone \in Config /\ alone # Null /\ alone.group = Null
            /\ alone.id = before.id /\ alone.key = before.key
            /\ ValidConfig(before) => ValidConfig(alone)
        BY <3>1, UngroupedConfig
      <4> HIDE DEF alone
      <4>3. connectionRows'[id] = alone
        BY <4>1 DEF alone
      <4>4. ReferencesExist(connectionRows[id])'
        BY <3>1, <4>2, <4>3 DEF ReferencesExist
      <4> QED
        BY <2>2, <3>1, <4>2, <4>3, <4>4
    <3>3. CASE before.group # group
      <4>1. connectionRows'[id] = before
        BY <1>1, <3>3 DEF Ungrouped
      <4>2. ReferencesExist(connectionRows[id])'
        BY <1>4, <3>1, <3>3, <4>1 DEF ReferencesExist
      <4> QED
        BY <2>2, <3>1, <4>1, <4>2
    <3> QED
      BY <3>2, <3>3
  <2> QED
    BY <2>1, <2>2
<1>6. connectionRows' \in [ConnectionIds -> Config \union {Null}]
  BY <1>1, <1>5 DEF Ungrouped
<1>7. StoredConnections' = StoredConnections /\ LiveConnections' = LiveConnections
  BY <1>2, <1>5 DEF StoredConnections, LiveConnections
<1>8. RowsOK'
  BY <1>2, <1>3, <1>5, <1>6, <1>7
     DEF RecordsInv, RowsOK, CatalogIsReadable, StoredConnections, LiveConnections
<1> DEFINE owners == {OfGroup(group)}
<1>9. owners \in SUBSET Owners
  BY <1>2, OwnersDiffer
<1>10. ExistingOwners \ owners \subseteq ExistingOwners'
  BY <1>4, <1>7 DEF ExistingOwners
<1>11. /\ entered' \in [Owners -> Override]
       /\ \A owner \in Owners : entered'[owner] = IF owner \in owners THEN NoOverride
                                                  ELSE entered[owner]
  BY <1>1, NoOverrideIsOverride DEF RecordsInv, SettingsOK
<1>12. settingRows' = {row \in settingRows : row.owner \notin owners}
  BY <1>1
<1> HIDE DEF owners
<1> QED
  BY <1>8, <1>9, <1>10, <1>11, <1>12, RemovedIsEntered DEF SettingsOK

LEMMA SaveSettingsKeepsRecords == RecordsInv /\ SaveSettings => RecordsInv'
<1> SUFFICES ASSUME RecordsInv, SaveSettings PROVE RowsOK' /\ SettingsOK'
  BY DEF RecordsInv
<1>1. PICK owner \in Owners : \E override \in Override :
         /\ owner \in ExistingOwners \/ override = NoOverride
         /\ settingRows' = ApplySettings(settingRows, owner, override)
         /\ entered' = [entered EXCEPT ![owner] = override]
  BY DEF SaveSettings
<1>2. PICK override \in Override :
         /\ owner \in ExistingOwners \/ override = NoOverride
         /\ settingRows' = ApplySettings(settingRows, owner, override)
         /\ entered' = [entered EXCEPT ![owner] = override]
  BY <1>1
<1>3. UNCHANGED <<connectionRows, deleted, groupRows>>
  BY DEF SaveSettings
<1>4. /\ StoredConnections' = StoredConnections /\ LiveConnections' = LiveConnections
      /\ StoredGroups' = StoredGroups
  BY <1>3 DEF StoredConnections, LiveConnections, StoredGroups
<1>5. RowsOK'
  BY <1>3, <1>4 DEF RecordsInv, RowsOK, CatalogIsReadable, ReferencesExist
<1>6. ExistingOwners' = ExistingOwners
  BY <1>4 DEF ExistingOwners
<1> QED
  BY <1>2, <1>5, <1>6, AppliedIsEntered DEF SettingsOK

\* The inductive invariant of the records.
LEMMA RecordsInvariant == RecordsSpec => []RecordsInv
<1>1. RecordsInv /\ [RecordsNext]_recordsVars => RecordsInv'
  <2> SUFFICES ASSUME RecordsInv, [RecordsNext]_recordsVars PROVE RecordsInv'
    OBVIOUS
  <2>1. CASE UNCHANGED recordsVars
    <3>1. /\ connectionRows' = connectionRows /\ deleted' = deleted
          /\ groupRows' = groupRows /\ settingRows' = settingRows /\ entered' = entered
      BY <2>1 DEF recordsVars
    <3>2. /\ StoredConnections' = StoredConnections /\ LiveConnections' = LiveConnections
          /\ StoredGroups' = StoredGroups
      BY <3>1 DEF StoredConnections, LiveConnections, StoredGroups
    <3>3. RowsOK'
      BY <3>1, <3>2 DEF RecordsInv, RowsOK, CatalogIsReadable, ReferencesExist
    <3>4. SettingsOK'
      BY <3>1, <3>2
         DEF RecordsInv, SettingsOK, RowsAreEntered, OwnersExist, Entered, ExistingOwners
    <3> QED
      BY <3>3, <3>4 DEF RecordsInv
  <2> QED
    BY <2>1, SaveKeepsRecords, ImportKeepsRecords, MarkKeepsRecords, SaveGroupKeepsRecords,
       RemoveGroupKeepsRecords, SaveSettingsKeepsRecords DEF RecordsNext
<1> QED
  BY <1>1, InitRecords, PTL DEF RecordsSpec

\* The tables hold rows of their types, and every reference leads to a row.
THEOREM RecordsTypes == RecordsSpec => []RecordsTypeOK
<1>1. RecordsInv => RecordsTypeOK
  BY DEF RecordsInv, RowsOK, SettingsOK, RecordsTypeOK
<1> QED
  BY <1>1, RecordsInvariant, PTL

\* No sequence of saves, imports and deletions leaves a listed connection that the
\* validation of its reader refuses.
THEOREM CatalogStaysReadable == RecordsSpec => []CatalogIsReadable
<1>1. RecordsInv => CatalogIsReadable
  BY DEF RecordsInv, RowsOK
<1> QED
  BY <1>1, RecordsInvariant, PTL

\* The rows of settings have owners that exist, and an owner has one for a setting.
THEOREM SettingsStayOwned == RecordsSpec => []SettingsAreOwned
<1>1. RecordsInv => SettingsAreOwned
  <2> SUFFICES ASSUME RecordsInv PROVE SettingsAreOwned
    OBVIOUS
  <2>1. ASSUME NEW row \in settingRows, NEW other \in settingRows,
               row.owner = other.owner, row.setting = other.setting
        PROVE  row = other
    <3>1. row \in SettingRow /\ other \in SettingRow /\ row.value = other.value
      BY <2>1 DEF RecordsInv, SettingsOK, RowsAreEntered, Entered
    <3> QED
      BY <2>1, <3>1 DEF SettingRow
  <2> QED
    BY <2>1 DEF SettingsAreOwned, RecordsInv, SettingsOK, OwnersExist
<1> QED
  BY <1>1, RecordsInvariant, PTL

\* Reading the rows of an owner gives what was entered for it.
LEMMA ReadIsEntered ==
  ASSUME RecordsInv, NEW owner \in Owners, NEW setting \in SettingKeys
  PROVE  ReadSetting(owner, setting) = entered[owner][setting]
<1> DEFINE value == entered[owner][setting]
           found == {row \in settingRows : row.owner = owner /\ row.setting = setting}
           new == [owner |-> owner, setting |-> setting, value |-> value]
<1>1. value \in Values \union {Null}
  BY DEF RecordsInv, SettingsOK, Override
<1>2. \A row \in found : row \in SettingRow /\ row.value = value
  BY DEF RecordsInv, SettingsOK, RowsAreEntered, Entered
<1>3. CASE found = {}
  <2>1. ASSUME value # Null PROVE FALSE
    <3>1. /\ new \in SettingRow
          /\ new.owner = owner /\ new.setting = setting /\ new.value = value
      BY <1>1, <2>1 DEF SettingRow
    <3> HIDE DEF new
    <3>2. new \in settingRows
      BY <3>1 DEF RecordsInv, SettingsOK, RowsAreEntered, Entered
    <3> QED
      BY <1>3, <3>1, <3>2
  <2> QED
    BY <1>3, <2>1 DEF ReadSetting
<1>4. CASE found # {}
  <2>1. (CHOOSE row \in found : TRUE) \in found
    BY <1>4
  <2> QED
    BY <1>2, <1>4, <2>1 DEF ReadSetting
<1> QED
  BY <1>3, <1>4

\* A layer of settings, as it is read, leaves what was not entered to the others.
LEMMA LayerFacts ==
  ASSUME RecordsInv, NEW owner \in Owners, NEW resolved, NEW setting \in SettingKeys
  PROVE  Overlay(resolved, LoadOverride(owner))[setting] =
            IF entered[owner][setting] # Null THEN entered[owner][setting]
                                              ELSE resolved[setting]
<1> DEFINE values == [s \in SettingKeys |-> ReadSetting(owner, s)]
<1>1. values = entered[owner]
  <2>1. entered[owner] \in [SettingKeys -> Values \union {Null}]
    BY DEF RecordsInv, SettingsOK, Override
  <2>2. \A s \in SettingKeys : values[s] = entered[owner][s]
    BY ReadIsEntered
  <2> QED
    BY <2>1, <2>2
<1>2. LoadOverride(owner) = IF entered[owner] = NoOverride THEN Null ELSE entered[owner]
  BY <1>1 DEF LoadOverride
<1>3. entered[owner] # Null
  BY NullIsNoRow DEF RecordsInv, SettingsOK
<1>4. CASE entered[owner] = NoOverride
  BY <1>2, <1>4, NoOverrideIsOverride DEF Overlay
<1>5. CASE entered[owner] # NoOverride
  BY <1>2, <1>3, <1>5 DEF Overlay
<1> QED
  BY <1>4, <1>5

\* A connection is started with the nearest value that was entered for a setting.
THEOREM NearestAlwaysInForce == RecordsSpec => []NearestIsInForce
<1>1. ASSUME RecordsInv, NEW id \in StoredConnections, NEW setting \in SettingKeys
      PROVE  ResolvedSettings(id)[setting] = NearestEntered(id, setting)
  <2> DEFINE group == connectionRows[id].group
             layers == LoadLayers(id)
             global == Overlay(DefaultSettings, layers.global)
             grouped == Overlay(global, layers.group)
  <2>1. id \in ConnectionIds /\ group \in StoredGroups \union {Null}
    BY <1>1 DEF StoredConnections, RecordsInv, RowsOK, ReferencesExist
  <2>2. /\ layers.global = LoadOverride(Everybody)
        /\ layers.group = IF group = Null THEN Null ELSE LoadOverride(OfGroup(group))
        /\ layers.connection = LoadOverride(OfConnection(id))
    BY DEF LoadLayers
  <2>3. ResolvedSettings(id) = Overlay(grouped, layers.connection)
    BY DEF ResolvedSettings, Resolve
  <2>4. /\ Everybody \in Owners /\ OfConnection(id) \in Owners
        /\ group # Null => OfGroup(group) \in Owners
    BY <2>1, OwnersDiffer DEF StoredGroups
  <2>5. global[setting] = IF entered[Everybody][setting] # Null
                         THEN entered[Everybody][setting] ELSE DefaultSettings[setting]
    BY <1>1, <2>2, <2>4, LayerFacts
  <2>6. grouped[setting] = IF group = Null THEN global[setting]
                          ELSE IF entered[OfGroup(group)][setting] # Null
                               THEN entered[OfGroup(group)][setting] ELSE global[setting]
    <3> HIDE DEF global
    <3>1. CASE group = Null
      BY <2>2, <3>1 DEF Overlay
    <3>2. CASE group # Null
      BY <1>1, <2>2, <2>4, <3>2, LayerFacts
    <3> QED
      BY <3>1, <3>2
  <2> HIDE DEF grouped
  <2>7. ResolvedSettings(id)[setting] = IF entered[OfConnection(id)][setting] # Null
                                        THEN entered[OfConnection(id)][setting]
                                        ELSE grouped[setting]
    BY <1>1, <2>2, <2>3, <2>4, LayerFacts
  <2> QED
    BY <2>5, <2>6, <2>7 DEF NearestEntered
<1>2. RecordsInv => NearestIsInForce
  BY <1>1 DEF NearestIsInForce
<1> QED
  BY <1>2, RecordsInvariant, PTL
=============================================================================
