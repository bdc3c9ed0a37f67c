------------------------- MODULE ConnectionRepository -------------------------
(***************************************************************************)
(* The saved connections and their groups (crates/persistence/src/         *)
(* repository.rs and migrations/0001_initial.sql) and the three clients    *)
(* that read a connection and write it back later: the editor dialog and   *)
(* the credential saver of the window (App.tsx), and the import of an      *)
(* OpenSSH configuration (src-tauri/src/openssh_import.rs).                *)
(*                                                                         *)
(* One mutex guards the repository and every method is one transaction,    *)
(* so a method is one action; what interleaves is the reading and the      *)
(* writing of different clients.  A connection's notes, colour and         *)
(* authentication method travel with its name, the two settings are one    *)
(* flag, and calls that are refused change nothing and are no actions.     *)
(***************************************************************************)
EXTENDS OpenSshConfig, FiniteSets, FiniteSetsExt

CONSTANTS Connections,  \* connection ids
          Groups,       \* group ids
          Edits,        \* what the user may enter, but for the group
          ImportFile,   \* the OpenSSH configuration, as a sequence of lines
          MaxWrites     \* bound: transactions that write

ASSUME RepositoryAssumption ==
    /\ IsFiniteSet(Connections) /\ IsFiniteSet(Groups)
    /\ None \notin Connections \union Groups
    /\ \A edit \in Edits : edit.credential \in BOOLEAN /\ edit.settings \in BOOLEAN
    /\ IsConfigFile(ImportFile)
    /\ MaxWrites \in Nat

VARIABLES rows,    \* the table of connections: a row, or None
          groups,  \* the table of groups: a row, or None
          recent,  \* the connections in recent_connections
          read,    \* what each client has read and not yet written back
          moved,   \* history: ungrouped with their group, not reordered since
          writes   \* how many transactions have written

repositoryVars == <<rows, groups, recent, read, moved, writes>>

Clients == {"editor", "saver", "import"}

Stored == {id \in Connections : rows[id] # None}
Live == {id \in Stored : rows[id].live}
ExistingGroups == {g \in Groups : groups[g] # None}

\* The live rows of a group, or of no group, in a given state of the table.
Members(table, group) ==
    {id \in Connections : table[id] # None /\ table[id].live /\ table[id].group = group}

RepositoryInit ==
    /\ rows = [id \in Connections |-> None]
    /\ groups = [g \in Groups |-> None]
    /\ recent = {}
    /\ read = [client \in Clients |-> None]
    /\ moved = {}
    /\ writes = 0

\* A transaction that writes: one of the first MaxWrites.
Write ==
    /\ writes < MaxWrites
    /\ writes' = writes + 1

-----------------------------------------------------------------------------
(***************************************************************************)
(* save_connection_record: INSERT ... ON CONFLICT DO UPDATE, and then the  *)
(* settings.  A connection keeps its place only if it was live in the      *)
(* same group; otherwise it goes to the end.  Saving revives a deleted     *)
(* row.  A group that is gone violates the foreign key.                    *)
(***************************************************************************)
NextOrder(table, group) ==
    IF Members(table, group) = {} THEN 0
    ELSE Max({table[id].order : id \in Members(table, group)}) + 1

KeepsPlace(table, id, group) ==
    table[id] # None /\ table[id].live /\ table[id].group = group

\* A variant that keeps the place of a connection that changes its group.
SaveRecord_KeepsOrder(table, record) ==
    LET config == record.config
        old == table[record.id]
    IN  [table EXCEPT ![record.id] =
            [group |-> config.group, name |-> config.name,
             endpoint |-> config.endpoint, credential |-> config.credential,
             settings |-> record.settings,
             favorite |-> old # None /\ old.favorite,
             order |-> IF old # None THEN old.order ELSE NextOrder(table, config.group),
             live |-> TRUE,
             revision |-> IF old = None THEN 1 ELSE old.revision + 1]]

SaveRecord(table, record) ==
    LET id == record.id
        config == record.config
        old == table[id]
    IN  [table EXCEPT ![id] =
            [group |-> config.group, name |-> config.name,
             endpoint |-> config.endpoint, credential |-> config.credential,
             settings |-> record.settings,
             favorite |-> old # None /\ old.favorite,
             order |-> IF KeepsPlace(table, id, config.group) THEN old.order
                       ELSE NextOrder(table, config.group),
             live |-> TRUE,
             revision |-> IF old = None THEN 1 ELSE old.revision + 1]]

ConfigOf(row) == [group |-> row.group, name |-> row.name,
                  endpoint |-> row.endpoint, credential |-> row.credential]

ForeignKeysHold(configs) ==
    \A config \in configs : config.group \in ExistingGroups \union {None}

\* What is left of moved when rows are saved: a row that got a new place is out.
StillMoved == {id \in moved : KeepsPlace(rows, id, rows'[id].group)}

-----------------------------------------------------------------------------
(***************************************************************************)
(* The editor dialog.  openSavedConnectionEditor reads a connection, and   *)
(* whenever the user is done saveConnection writes the whole form back.  A *)
(* new connection, or the copy of one, has a fresh id.                     *)
(***************************************************************************)
Read(ids) == {[id |-> id, row |-> rows[id]] : id \in ids}

\* A variant that finds deleted connections too.
EditorOpens_Deleted ==
    /\ read["editor"] = None
    /\ \E id \in Stored : read' = [read EXCEPT !["editor"] = Read({id})]
    /\ UNCHANGED <<rows, groups, recent, moved, writes>>

EditorOpens ==
    /\ read["editor"] = None
    /\ \E id \in Live : read' = [read EXCEPT !["editor"] = Read({id})]
    /\ UNCHANGED <<rows, groups, recent, moved, writes>>

SaveForm(id, edit, group) ==
    LET config == [group |-> group, name |-> edit.name,
                   endpoint |-> edit.endpoint, credential |-> edit.credential]
    IN  /\ ForeignKeysHold({config})
        /\ rows' = SaveRecord(rows, [id |-> id, config |-> config,
                                     settings |-> edit.settings])

EditorSaves ==
    /\ Write
    /\ read["editor"] # None
    /\ \E copy \in read["editor"], edit \in Edits, group \in Groups \union {None} :
          SaveForm(copy.id, edit, group)
    /\ read' = [read EXCEPT !["editor"] = None]
    /\ moved' = StillMoved
    /\ UNCHANGED <<groups, recent>>

EditorCreates ==
    /\ Write
    /\ read["editor"] = None
    /\ \E id \in Connections \ Stored, edit \in Edits, group \in Groups \union {None} :
          SaveForm(id, edit, group)
    /\ moved' = StillMoved
    /\ UNCHANGED <<groups, recent, read>>

(***************************************************************************)
(* saveAuthenticatedCredential.  After a login whose password is to be     *)
(* kept, the connection is read and, if it has no credential reference     *)
(* yet, written back with one.                                             *)
(***************************************************************************)
SaverReads ==
    /\ read["saver"] = None
    /\ \E id \in Live :
          /\ ~rows[id].credential
          /\ read' = [read EXCEPT !["saver"] = Read({id})]
    /\ UNCHANGED <<rows, groups, recent, moved, writes>>

\* A variant that does not pass the connection's own settings on.
SaverWrites_DropsSettings ==
    /\ Write
    /\ read["saver"] # None
    /\ \E copy \in read["saver"] :
          LET config == [ConfigOf(copy.row) EXCEPT !.credential = TRUE]
          IN  /\ ForeignKeysHold({config})
              /\ rows' = SaveRecord(rows, [id |-> copy.id, config |-> config,
                                           settings |-> FALSE])
    /\ read' = [read EXCEPT !["saver"] = None]
    /\ moved' = StillMoved
    /\ UNCHANGED <<groups, recent>>

SaverWrites ==
    /\ Write
    /\ read["saver"] # None
    /\ \E copy \in read["saver"] :
          LET config == [ConfigOf(copy.row) EXCEPT !.credential = TRUE]
          IN  /\ ForeignKeysHold({config})
              /\ rows' = SaveRecord(rows, [id |-> copy.id, config |-> config,
                                           settings |-> copy.row.settings])
    /\ read' = [read EXCEPT !["saver"] = None]
    /\ moved' = StillMoved
    /\ UNCHANGED <<groups, recent>>

(***************************************************************************)
(* import_openssh_connections.  The catalogue is read in one query, the    *)
(* duplicates are looked up in it, and everything is written in another:   *)
(* an item without a duplicate under a new id and without a group, an item *)
(* with one over that connection or not at all.  Either way the settings   *)
(* of the connection are the defaults afterwards.  Two items may have the  *)
(* same duplicate, and are then written over it one after the other.  An   *)
(* item whose name is blank is not valid and fails the import as a whole.  *)
(***************************************************************************)
ImportReads ==
    /\ read["import"] = None
    /\ read' = [read EXCEPT !["import"] = Read(Live)]
    /\ UNCHANGED <<rows, groups, recent, moved, writes>>

ImportItems == Items(ImportFile)

DuplicateIds(i) == {copy.id : copy \in Duplicates(read["import"], ImportItems[i])}

\* overwrite_config and new_config.
ImportedConfig(i, id) ==
    LET item == ImportItems[i]
        known == {copy \in read["import"] : copy.id = id}
    IN  IF known # {}
        THEN [ConfigOf((CHOOSE copy \in known : TRUE).row)
                  EXCEPT !.name = item.alias, !.endpoint = item.endpoint]
        ELSE [group |-> None, name |-> item.alias, endpoint |-> item.endpoint,
              credential |-> FALSE]

\* The items that are written, and the connection each of them goes to.
Targets(chosen, strategy) ==
    LET written == {i \in chosen : /\ ImportItems[i].importable
                                   /\ strategy = "skip" => DuplicateIds(i) = {}}
    IN  {target \in [written -> Connections] :
            /\ \A i \in written :
                  IF DuplicateIds(i) # {} THEN target[i] \in DuplicateIds(i)
                                          ELSE target[i] \notin Stored
            /\ \A i, j \in written :
                  target[i] = target[j] /\ target[i] \notin Stored => i = j}

ImportRecord(i, id) ==
    [id |-> id, config |-> ImportedConfig(i, id), settings |-> FALSE]

\* The table after the items that are written have been saved, in their order.
Imported(target) ==
    FoldLeft(LAMBDA table, i : IF i \in DOMAIN target
                               THEN SaveRecord(table, ImportRecord(i, target[i])) ELSE table,
             rows, [i \in DOMAIN ImportItems |-> i])

ImportWrites ==
    /\ Write
    /\ read["import"] # None
    /\ \E chosen \in (SUBSET DOMAIN ImportItems) \ {{}}, strategy \in {"skip", "overwrite"} :
          \E target \in Targets(chosen, strategy) :
             /\ \A i \in DOMAIN target : ImportItems[i].alias # Blank
             /\ ForeignKeysHold({ImportedConfig(i, target[i]) : i \in DOMAIN target})
             /\ rows' = Imported(target)
    /\ read' = [read EXCEPT !["import"] = None]
    /\ moved' = StillMoved
    /\ UNCHANGED <<groups, recent>>

\* A dialog is closed, or a command fails between its queries or in its second.
GiveUp ==
    /\ \E client \in Clients :
          /\ read[client] # None
          /\ read' = [read EXCEPT ![client] = None]
    /\ UNCHANGED <<rows, groups, recent, moved, writes>>

-----------------------------------------------------------------------------
(***************************************************************************)
(* The queries that need no earlier reading.  A connection is deleted by   *)
(* marking its row; most queries then no longer see it.                    *)
(***************************************************************************)
DeleteConnection ==
    /\ Write
    /\ \E id \in Live :
          rows' = [rows EXCEPT ![id].live = FALSE, ![id].revision = @ + 1]
    /\ UNCHANGED <<groups, recent, read, moved>>

SetConnectionFavorite ==
    /\ Write
    /\ \E id \in Live, favorite \in BOOLEAN :
          rows' = [rows EXCEPT ![id].favorite = favorite, ![id].revision = @ + 1]
    /\ UNCHANGED <<groups, recent, read, moved>>

\* reorder_connections takes all the live connections of one group, or none.
ReorderConnections ==
    /\ Write
    /\ \E group \in Groups \union {None} :
          LET members == Members(rows, group)
          IN  /\ members # {}
              /\ \E place \in [members -> 0..(Cardinality(members) - 1)] :
                    /\ \A id, other \in members : place[id] = place[other] => id = other
                    /\ rows' = [id \in Connections |->
                                  IF id \in members
                                  THEN [rows[id] EXCEPT !.order = place[id],
                                                        !.revision = @ + 1]
                                  ELSE rows[id]]
              /\ moved' = moved \ members
    /\ UNCHANGED <<groups, recent, read>>

RecordSuccessfulConnection ==
    /\ Write
    /\ \E id \in Live : recent' = recent \union {id}
    /\ UNCHANGED <<rows, groups, read, moved>>

SaveGroup ==
    /\ Write
    /\ \E g \in Groups, order \in 0..Cardinality(Groups), collapsed \in BOOLEAN :
          groups' = [groups EXCEPT ![g] = [order |-> order, collapsed |-> collapsed]]
    /\ UNCHANGED <<rows, recent, read, moved>>

\* A variant that ungroups without counting the revision.
DeleteGroup_SameRevision ==
    /\ Write
    /\ \E g \in ExistingGroups :
          LET members == {id \in Stored : rows[id].group = g}
          IN  /\ rows' = [id \in Connections |->
                            IF id \in members THEN [rows[id] EXCEPT !.group = None]
                                              ELSE rows[id]]
              /\ groups' = [groups EXCEPT ![g] = None]
              /\ moved' = moved \union Members(rows, g)
    /\ UNCHANGED <<recent, read>>

\* Its connections, the deleted ones too, become ungrouped and keep their order.
DeleteGroup ==
    /\ Write
    /\ \E g \in ExistingGroups :
          LET members == {id \in Stored : rows[id].group = g}
          IN  /\ rows' = [id \in Connections |->
                            IF id \in members
                            THEN [rows[id] EXCEPT !.group = None, !.revision = @ + 1]
                            ELSE rows[id]]
              /\ groups' = [groups EXCEPT ![g] = None]
              /\ moved' = moved \union Members(rows, g)
    /\ UNCHANGED <<recent, read>>

SetGroupCollapsed ==
    /\ Write
    /\ \E g \in ExistingGroups, collapsed \in BOOLEAN :
          groups' = [groups EXCEPT ![g].collapsed = collapsed]
    /\ UNCHANGED <<rows, recent, read, moved>>

ReorderGroups ==
    /\ Write
    /\ \E place \in [ExistingGroups -> 0..(Cardinality(ExistingGroups) - 1)] :
          /\ \A g, h \in ExistingGroups : place[g] = place[h] => g = h
          /\ groups' = [g \in Groups |->
                          IF g \in ExistingGroups
                          THEN [groups[g] EXCEPT !.order = place[g]] ELSE None]
    /\ UNCHANGED <<rows, recent, read, moved>>

RepositoryNext ==
    \/ EditorOpens \/ EditorSaves \/ EditorCreates
    \/ SaverReads \/ SaverWrites
    \/ ImportReads \/ ImportWrites
    \/ GiveUp
    \/ DeleteConnection \/ SetConnectionFavorite \/ ReorderConnections
    \/ RecordSuccessfulConnection
    \/ SaveGroup \/ DeleteGroup \/ SetGroupCollapsed \/ ReorderGroups

RepositorySpec == RepositoryInit /\ [][RepositoryNext]_repositoryVars

-----------------------------------------------------------------------------
Row == [group : Groups \union {None},
        name : {edit.name : edit \in Edits} \union {ImportItems[i].alias : i \in DOMAIN ImportItems},
        endpoint : {edit.endpoint : edit \in Edits} \union {ImportItems[i].endpoint : i \in DOMAIN ImportItems},
        credential : BOOLEAN, settings : BOOLEAN, favorite : BOOLEAN,
        order : Nat, live : BOOLEAN, revision : Nat \ {0}]

Group == [order : Nat, collapsed : BOOLEAN]
Copy == [id : Connections, row : Row]

ASSUME NoRowAssumption == None \notin Row \union Group

(***************************************************************************)
(* The tables are what the schema declares: rows of their type, no         *)
(* connection in a group that is gone, no recent connection without a row. *)
(* Only live rows have ever been read.                                     *)
(***************************************************************************)
RepositoryTypeOK ==
    /\ rows \in [Connections -> Row \union {None}]
    /\ \A id \in Stored : rows[id].group \in ExistingGroups \union {None}
    /\ groups \in [Groups -> Group \union {None}]
    /\ recent \subseteq Stored
    /\ moved \subseteq Stored
    /\ writes \in 0..MaxWrites
    /\ read \in [Clients -> (SUBSET Copy) \union {None}]
    /\ \A client \in Clients : read[client] # None =>
          \A copy \in read[client] : copy.row.live

(***************************************************************************)
(* The live connections of one group, and the ungrouped ones, have         *)
(* different places, so that the list has one order and moving a           *)
(* connection up or down moves it; only connections that lost their group  *)
(* by its deletion may share a place, until the next reordering.           *)
(***************************************************************************)
OrderIsDistinct ==
    \A id, other \in Live :
        id # other /\ rows[id].group = rows[other].group
            /\ rows[id].order = rows[other].order
        => id \in moved \/ other \in moved

(***************************************************************************)
(* The revision tells a stale copy: what a client read differs from the    *)
(* stored row only if the row's revision has grown since.  The schema      *)
(* promises revisions `for optimistic concurrency`; the code never         *)
(* compares them, but a comparison would find every lost update.           *)
(***************************************************************************)
RevisionTellsStale ==
    \A client \in Clients : read[client] # None =>
        \A copy \in read[client] :
            /\ rows[copy.id] # None
            /\ copy.row.revision <= rows[copy.id].revision
            /\ copy.row.revision = rows[copy.id].revision => copy.row = rows[copy.id]

(***************************************************************************)
(* Lost updates are the ones the revision tells.  The editor is there to   *)
(* change all the form shows, the saver only the credential reference, the *)
(* import what overwrite_config sets and the settings it resets; if the    *)
(* write-back of a client, however old what it read, changes anything else *)
(* of a connection, then the revision had grown since the reading.         *)
(***************************************************************************)
Spared == [editor |-> {"favorite", "live"},
           saver  |-> {"group", "name", "endpoint", "settings", "favorite", "order", "live"},
           import |-> {"group", "credential", "favorite", "order", "live"}]

LossIsTold ==
    [][\A client \in Clients :
          read[client] # None /\ read'[client] = None =>
              \A copy \in read[client], field \in Spared[client] :
                  rows'[copy.id][field] # rows[copy.id][field] =>
                      copy.row.revision < rows[copy.id].revision
      ]_repositoryVars

(***************************************************************************)
(* What the import dialog says of its option to overwrite: `Overwrite the  *)
(* host, port, and username of existing connections` (i18n/resources.ts).  *)
(* Of a connection that is as the import has read it, it leaves the rest.  *)
(***************************************************************************)
ImportOverwritesOnlyEndpoint ==
    [][read["import"] # None /\ read'["import"] = None =>
          \A copy \in read["import"] :
              rows[copy.id] = copy.row =>
                  \A field \in DOMAIN copy.row \ {"endpoint", "revision"} :
                      rows'[copy.id][field] = copy.row[field]
      ]_repositoryVars
=============================================================================
