--------------------------- MODULE MC_StoredRecords ---------------------------
(* A small instance of StoredRecords for TLC, and the comparison of the      *)
(* rules of the code with those of the schema.                               *)
EXTENDS StoredRecords

\* The alias of white space that is not spaces is what an import can bring.
TextsOfClients == {"", " ", "tab", "web", "#00ff00", "ref", "c1", "c2", "g1", "k1"}

Connection(id, group, name) ==
    [id |-> id, group |-> group, name |-> name, host |-> "web", port |-> 22,
     username |-> "web", color |-> Null, auth |-> "password", credential |-> Null,
     key |-> Null]

ConfigsOfClients ==
    {Connection("c1", Null, "web"), Connection("c1", "g1", "web"),
     [Connection("c2", "g1", "web") EXCEPT !.auth = "privateKey", !.key = "k1"],
     Connection("c2", Null, "tab")}

GroupsOfClients == {[id |-> "g1", name |-> "web", color |-> Null]}

-----------------------------------------------------------------------------
\* Every combination of what the rules tell apart.
Fields == {"", "tab", "ref"}
AllConfigs ==
    [id : Fields, group : {"ref", "tab", Null}, name : Fields, host : {"", "ref"},
     port : {0, 22}, username : {"tab", "ref"}, color : {"#00ff00", "ref", Null},
     auth : AuthMethod, credential : Fields \union {Null}, key : {"tab", "ref", Null}]
AllGroups == [id : Fields, name : Fields, color : {"#00ff00", "ref", Null}]

ASSUME RulesAgree == ValidIsAccepted(AllConfigs, AllGroups)
=============================================================================
