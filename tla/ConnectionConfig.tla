--------------------------- MODULE ConnectionConfig ---------------------------
(***************************************************************************)
(* What a saved connection, a group and their settings may contain         *)
(* (crates/contracts/src/connection.rs), and what the schema demands of    *)
(* the same fields (crates/persistence/migrations/0001_initial.sql).       *)
(*                                                                         *)
(* A text is a value.  The checks tell apart whether it is empty after     *)
(* trimming, and there the two differ: str::trim of the code removes all   *)
(* white space, trim of SQL removes spaces.  Notes are checked nowhere.    *)
(***************************************************************************)
EXTENDS Naturals

CONSTANTS Texts,     \* the strings
          Blank,     \* those that are empty after str::trim
          Spaces,    \* those that are empty after trim of SQL
          HexColors, \* those of the form #rrggbb
          MaxPort,   \* the largest u16, 65535
          Values,    \* the numbers a setting may have
          Null       \* an option that is None, a column that is NULL

ASSUME ConfigAssumption ==
    /\ Blank \subseteq Texts /\ Spaces \subseteq Blank /\ HexColors \subseteq Texts
    /\ MaxPort \in Nat /\ Values \subseteq Nat
    /\ Null \notin Texts /\ Null \notin Values

AuthMethod == {"password", "privateKey", "keyboardInteractive"}

Config == [id : Texts, group : Texts \union {Null}, name : Texts, host : Texts,
           port : 0..MaxPort, username : Texts, color : Texts \union {Null},
           auth : AuthMethod, credential : Texts \union {Null},
           key : Texts \union {Null}]

GroupConfig == [id : Texts, name : Texts, color : Texts \union {Null}]

-----------------------------------------------------------------------------
(***************************************************************************)
(* ConnectionConfig::validate, ConnectionGroup::validate, is_hex_color.    *)
(* An id that is Null is not blank: is_some_and is false for None.         *)
(***************************************************************************)
IsHexColor(color) == color \in HexColors \union {Null}

\* Which references an authentication method may have.
AuthFits(config) ==
    /\ config.auth = "password" => config.key = Null
    /\ config.auth = "privateKey" => config.key # Null /\ config.credential = Null
    /\ config.auth = "keyboardInteractive" => config.credential = Null /\ config.key = Null

ValidConfig(config) ==
    /\ {config.id, config.group, config.name, config.host, config.username,
        config.credential, config.key} \intersect Blank = {}
    /\ config.port # 0
    /\ IsHexColor(config.color)
    /\ AuthFits(config)

ValidGroup(group) ==
    /\ {group.id, group.name} \intersect Blank = {}
    /\ IsHexColor(group.color)

(***************************************************************************)
(* The CHECK constraints of the tables connections and connection_groups.  *)
(***************************************************************************)
ConnectionChecks(config) ==
    /\ {config.name, config.host, config.username, config.credential} \intersect Spaces = {}
    /\ config.port \in 1..MaxPort
    /\ config.color \in HexColors \union {Null}
    /\ \/ config.auth = "password" /\ config.key = Null
       \/ config.auth = "privateKey" /\ config.key # Null /\ config.credential = Null
       \/ config.auth = "keyboardInteractive" /\ config.key = Null /\ config.credential = Null

GroupChecks(group) ==
    /\ group.name \notin Spaces
    /\ group.color \in HexColors \union {Null}

(***************************************************************************)
(* The two lists of rules agree: whatever the code accepts, the schema     *)
(* accepts, so that no valid connection or group is refused by a CHECK     *)
(* and reported as a failure of the database.                              *)
(***************************************************************************)
ValidIsAccepted(configs, groups) ==
    /\ \A config \in configs : ValidConfig(config) => ConnectionChecks(config)
    /\ \A group \in groups : ValidGroup(group) => GroupChecks(group)

-----------------------------------------------------------------------------
(***************************************************************************)
(* Settings.  A layer is an override, which leaves the settings that are   *)
(* Null to the layers before it, or Null itself.                           *)
(***************************************************************************)
SettingKeys == {"connectTimeout", "keepAlive"}

DefaultSettings == [setting \in SettingKeys |->
                        IF setting = "connectTimeout" THEN 10 ELSE 30]

Override == [SettingKeys -> Values \union {Null}]
NoOverride == [setting \in SettingKeys |-> Null]

Overlay(resolved, layer) ==
    IF layer = Null THEN resolved
    ELSE [setting \in SettingKeys |-> IF layer[setting] # Null THEN layer[setting]
                                                               ELSE resolved[setting]]

Resolve(layers) ==
    Overlay(Overlay(Overlay(DefaultSettings, layers.global), layers.group),
            layers.connection)
=============================================================================
