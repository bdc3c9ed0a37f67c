---------------------------- MODULE StoredRecords ----------------------------
(***************************************************************************)
(* What the tables of connections, groups and settings hold after any      *)
(* sequence of calls of the repository (crates/persistence/src/            *)
(* repository.rs): whether every row can still be read, and which setting  *)
(* is in force.  One row that cannot be read makes list_catalog fail, and  *)
(* with it the whole list of the window.                                   *)
(*                                                                         *)
(* A method is one transaction, so it is one action; one that is refused   *)
(* changes nothing.  Revisions, places, favourites and times are left to   *)
(* ConnectionRepository or left out.  save_settings is part of the         *)
(* library, but no command of this version calls it; the same is true of   *)
(* key references, which are read and never written.                       *)
(***************************************************************************)
EXTENDS ConnectionConfig, FiniteSetsExt

CONSTANTS ConnectionIds, \* ids of connections
          GroupIds,      \* ids of groups
          StoredKeys,    \* ids in key_references
          Configs,       \* what the clients may send as a connection
          GroupConfigs,  \* and as a group
          MaxImported    \* bound: the connections of one import

ASSUME RecordsAssumption ==
    /\ ConnectionIds \union GroupIds \union StoredKeys \subseteq Texts
    /\ Configs \subseteq Config /\ GroupConfigs \subseteq GroupConfig
    /\ \A config \in Configs : config.id \in ConnectionIds \union Blank
    /\ \A group \in GroupConfigs : group.id \in GroupIds \union Blank
    /\ MaxImported \in Nat

ASSUME NullIsNoRow == Null \notin Config /\ Null \notin GroupConfig /\ Null \notin Override

VARIABLES connectionRows, \* the configuration in a row of connections, or Null
          deleted,        \* the rows with deleted_at
          groupRows,      \* the rows of connection_groups, or Null
          settingRows,    \* the rows of settings
          entered         \* history: the last override saved for an owner

recordsVars == <<connectionRows, deleted, groupRows, settingRows, entered>>

Everybody == <<"global", Null>>
OfGroup(group) == <<"group", group>>
OfConnection(id) == <<"connection", id>>

Owners == {Everybody} \union {OfGroup(group) : group \in GroupIds}
                      \union {OfConnection(id) : id \in ConnectionIds}

SettingRow == [owner : Owners, setting : SettingKeys, value : Values]

StoredConnections == {id \in ConnectionIds : connectionRows[id] # Null}
LiveConnections == StoredConnections \ deleted
StoredGroups == {group \in GroupIds : groupRows[group] # Null}

RecordsInit ==
    /\ connectionRows = [id \in ConnectionIds |-> Null]
    /\ deleted = {}
    /\ groupRows = [group \in GroupIds |-> Null]
    /\ settingRows = {}
    /\ entered = [owner \in Owners |-> NoOverride]

-----------------------------------------------------------------------------
(***************************************************************************)
(* The settings table: write_setting updates, inserts or deletes the one   *)
(* row that an owner has for a setting.                                    *)
(***************************************************************************)
WriteSetting(table, owner, setting, value) ==
    {row \in table : row.owner # owner \/ row.setting # setting}
        \union (IF value = Null THEN {}
                ELSE {[owner |-> owner, setting |-> setting, value |-> value]})

ApplySettings(table, owner, override) ==
    WriteSetting(WriteSetting(table, owner, "connectTimeout", override["connectTimeout"]),
                 owner, "keepAlive", override["keepAlive"])

\* read_setting_rows and load_setting_override.
ReadSetting(owner, setting) ==
    LET found == {row \in settingRows : row.owner = owner /\ row.setting = setting}
    IN  IF found = {} THEN Null ELSE (CHOOSE row \in found : TRUE).value

LoadOverride(owner) ==
    LET values == [setting \in SettingKeys |-> ReadSetting(owner, setting)]
    IN  IF values = NoOverride THEN Null ELSE values

LoadLayers(id) ==
    LET group == connectionRows[id].group
    IN  [global     |-> LoadOverride(Everybody),
         group      |-> IF group = Null THEN Null ELSE LoadOverride(OfGroup(group)),
         connection |-> LoadOverride(OfConnection(id))]

\* The settings that get_connection answers and a connection is started with.
ResolvedSettings(id) == Resolve(LoadLayers(id))

-----------------------------------------------------------------------------
\* The foreign keys of a row of connections.
ReferencesExist(config) ==
    /\ config.group \in StoredGroups \union {Null}
    /\ config.key \in StoredKeys \union {Null}

\* save_connection.
SaveConnection ==
    \E config \in Configs, override \in Override :
        /\ ValidConfig(config)
        /\ ConnectionChecks(config) /\ ReferencesExist(config)
        /\ connectionRows' = [connectionRows EXCEPT ![config.id] = config]
        /\ deleted' = deleted \ {config.id}
        /\ settingRows' = ApplySettings(settingRows, OfConnection(config.id), override)
        /\ entered' = [entered EXCEPT ![OfConnection(config.id)] = override]
        /\ UNCHANGED groupRows

\* Saves connections one after the other, without settings of their own.
SaveImported(configs) ==
    LET ids == {configs[i].id : i \in DOMAIN configs}
        last == [id \in ids |-> Max({i \in DOMAIN configs : configs[i].id = id})]
        owners == {OfConnection(id) : id \in ids}
    IN  /\ \A i \in DOMAIN configs :
              ConnectionChecks(configs[i]) /\ ReferencesExist(configs[i])
        /\ connectionRows' = [id \in ConnectionIds |->
                                 IF id \in ids THEN configs[last[id]] ELSE connectionRows[id]]
        /\ deleted' = deleted \ ids
        /\ settingRows' = {row \in settingRows : row.owner \notin owners}
        /\ entered' = [owner \in Owners |->
                          IF owner \in owners THEN NoOverride ELSE entered[owner]]
        /\ UNCHANGED groupRows

\* A variant that leaves the checking to the schema.
ImportConnections_Unchecked ==
    \E n \in 1..MaxImported : \E configs \in [1..n -> Configs] : SaveImported(configs)

(***************************************************************************)
(* import_connections.  All are checked first, so that one that is not     *)
(* valid (a quoted alias of white space is enough) refuses the import as a *)
(* whole.  Two items may go to one connection, where the later one wins.   *)
(***************************************************************************)
ImportConnections ==
    \E n \in 1..MaxImported : \E configs \in [1..n -> Configs] :
        /\ \A i \in 1..n : ValidConfig(configs[i])
        /\ SaveImported(configs)

\* delete_connection: the row and its settings stay.
MarkDeleted ==
    /\ \E id \in LiveConnections : deleted' = deleted \union {id}
    /\ UNCHANGED <<connectionRows, groupRows, settingRows, entered>>

\* save_group.  Names are unique, in any case of their letters.
SaveGroupConfig ==
    /\ \E group \in GroupConfigs :
          /\ ValidGroup(group) /\ GroupChecks(group)
          /\ \A other \in StoredGroups \ {group.id} : groupRows[other].name # group.name
          /\ groupRows' = [groupRows EXCEPT ![group.id] = group]
    /\ UNCHANGED <<connectionRows, deleted, settingRows, entered>>

\* A group's connections, the deleted ones too, lose it.
Ungrouped(group) ==
    [id \in ConnectionIds |->
        IF connectionRows[id] # Null /\ connectionRows[id].group = group
        THEN [connectionRows[id] EXCEPT !.group = Null] ELSE connectionRows[id]]

\* A variant without the foreign key that deletes the settings of a group.
RemoveGroup_NoCascade ==
    /\ \E group \in StoredGroups :
          /\ connectionRows' = Ungrouped(group)
          /\ groupRows' = [groupRows EXCEPT ![group] = Null]
          /\ settingRows' = settingRows
          /\ entered' = [entered EXCEPT ![OfGroup(group)] = NoOverride]
    /\ UNCHANGED deleted

\* delete_group; the settings of the group go by ON DELETE CASCADE.
RemoveGroup ==
    /\ \E group \in StoredGroups :
          /\ connectionRows' = Ungrouped(group)
          /\ groupRows' = [groupRows EXCEPT ![group] = Null]
          /\ settingRows' = {row \in settingRows : row.owner # OfGroup(group)}
          /\ entered' = [entered EXCEPT ![OfGroup(group)] = NoOverride]
    /\ UNCHANGED deleted

\* The owners a row of settings may have.
ExistingOwners == {Everybody} \union {OfGroup(group) : group \in StoredGroups}
                              \union {OfConnection(id) : id \in StoredConnections}

(***************************************************************************)
(* save_settings.  A value for an owner without a row violates the foreign *)
(* key, and the transaction is rolled back; deleting what is not there     *)
(* succeeds.                                                               *)
(***************************************************************************)
SaveSettings ==
    /\ \E owner \in Owners, override \in Override :
          /\ owner \in ExistingOwners \/ override = NoOverride
          /\ settingRows' = ApplySettings(settingRows, owner, override)
          /\ entered' = [entered EXCEPT ![owner] = override]
    /\ UNCHANGED <<connectionRows, deleted, groupRows>>

RecordsNext ==
    \/ SaveConnection \/ ImportConnections \/ MarkDeleted
    \/ SaveGroupConfig \/ RemoveGroup
    \/ SaveSettings

RecordsSpec == RecordsInit /\ [][RecordsNext]_recordsVars

-----------------------------------------------------------------------------
(***************************************************************************)
(* The tables hold rows of their types, without a reference to a row that  *)
(* is gone.                                                                *)
(***************************************************************************)
RecordsTypeOK ==
    /\ connectionRows \in [ConnectionIds -> Config \union {Null}]
    /\ deleted \subseteq StoredConnections
    /\ groupRows \in [GroupIds -> GroupConfig \union {Null}]
    /\ settingRows \subseteq SettingRow
    /\ entered \in [Owners -> Override]
    /\ \A id \in StoredConnections :
          connectionRows[id].id = id /\ ReferencesExist(connectionRows[id])

(***************************************************************************)
(* Every connection that is listed passes the validation with which        *)
(* into_list_item reads it, so that no sequence of saves, imports and      *)
(* deletions leaves a row that makes the whole catalogue unreadable.  The  *)
(* schema alone would let such rows in.                                    *)
(***************************************************************************)
CatalogIsReadable ==
    \A id \in LiveConnections : ValidConfig(connectionRows[id])

(***************************************************************************)
(* Every row of settings belongs to an owner that exists: a group that is  *)
(* created under the id of a deleted one starts without its settings.  An  *)
(* owner has one row at most for a setting.                                *)
(***************************************************************************)
SettingsAreOwned ==
    /\ \A row \in settingRows : row.owner \in ExistingOwners
    /\ \A row, other \in settingRows :
          row.owner = other.owner /\ row.setting = other.setting => row = other

(***************************************************************************)
(* A connection gets the value that was last entered for itself, or else   *)
(* for its group, or else for all, or else the default, for each setting   *)
(* by itself: through the rows that were written and deleted since, and    *)
(* the layers that reading makes of them.                                  *)
(***************************************************************************)
NearestEntered(id, setting) ==
    LET group == connectionRows[id].group
        own == entered[OfConnection(id)][setting]
        groups == IF group = Null THEN Null ELSE entered[OfGroup(group)][setting]
        all == entered[Everybody][setting]
    IN  IF own # Null THEN own
        ELSE IF groups # Null THEN groups
        ELSE IF all # Null THEN all
        ELSE DefaultSettings[setting]

NearestIsInForce ==
    \A id \in StoredConnections, setting \in SettingKeys :
        ResolvedSettings(id)[setting] = NearestEntered(id, setting)
=============================================================================
