---------------------------- MODULE OpenSshConfig ----------------------------
(***************************************************************************)
(* Reading an OpenSSH client configuration (src-tauri/src/                 *)
(* openssh_import.rs): the directives of the file become stanzas, the      *)
(* stanzas become the items of the import, and an item is compared with    *)
(* the catalogue.                                                          *)
(*                                                                         *)
(* A file is the sequence of its directives.  Comments, quotes, escapes    *)
(* and white space are gone: split_directive and split_words turn a line   *)
(* into a keyword and its words, and the keyword is in lower case.         *)
(***************************************************************************)
EXTENDS Naturals, Sequences, SequencesExt

CONSTANTS None,         \* an option that is not set
          Blank,        \* a text that trim leaves empty
          HostPatterns, \* the words with a wildcard or a negation
          Covers,       \* <<word, alias>>: the pattern matches the alias
          Excludes,     \* <<word, alias>>: the word negates a match of the alias
          LocalUser     \* the name of the user of this computer, or None

Options == {"hostname", "port", "user"}

\* A sequence of directives: a Host line has a sequence of words, an option a value.
IsConfigFile(source) ==
    /\ source \in Seq(ToSet(source))
    /\ \A l \in DOMAIN source :
          /\ source[l].key = "host" => source[l].value \in Seq(ToSet(source[l].value))
          /\ source[l].key \in Options => source[l].value # None

Unset == [option \in Options |-> None]

(***************************************************************************)
(* parse_config.  The last stanza is the one options go to, and before the *)
(* first Host line they go to the defaults; of two values for one option   *)
(* the first is kept, and other keywords are ignored.                      *)
(***************************************************************************)
SetOption(options, line) ==
    IF options[line.key] = None THEN [options EXCEPT ![line.key] = line.value]
                                ELSE options

ParseLine(parsed, line) ==
    IF line.key = "host"
    THEN [parsed EXCEPT !.stanzas =
              Append(@, [aliases |-> line.value, options |-> Unset])]
    ELSE IF line.key \notin Options THEN parsed
    ELSE IF parsed.stanzas = <<>>
         THEN [parsed EXCEPT !.defaults = SetOption(@, line)]
         ELSE [parsed EXCEPT !.stanzas[Len(parsed.stanzas)].options = SetOption(@, line)]

ParseConfig(source) ==
    FoldLeft(ParseLine, [defaults |-> Unset, stanzas |-> <<>>], source)

(***************************************************************************)
(* build_preview.  What a stanza leaves open comes from the defaults, and  *)
(* then from the alias, the standard port and the local user.  A port that *)
(* is no number from 1 to 65535 counts as 22 and is an error, and so is a  *)
(* host or a user that is missing or blank.                                *)
(***************************************************************************)
DefaultPort == 22
ValidPort(port) == port \in 1..65535

Or(value, fallback) == IF value # None THEN value ELSE fallback

Item(stanza, defaults, alias) ==
    LET Setting(option) == Or(stanza.options[option], defaults[option])
        host == Or(Setting("hostname"), alias)
        port == Or(Setting("port"), DefaultPort)
        user == Or(Setting("user"), LocalUser)
    IN  [alias |-> alias,
         endpoint |-> <<host, IF ValidPort(port) THEN port ELSE DefaultPort, user>>,
         importable |-> ValidPort(port) /\ host # Blank /\ user \notin {None, Blank}]

ItemsOf(stanza, defaults) ==
    FlattenSeq([i \in DOMAIN stanza.aliases |->
                    IF stanza.aliases[i] \in HostPatterns THEN <<>>
                    ELSE <<Item(stanza, defaults, stanza.aliases[i])>>])

Items(source) ==
    LET parsed == ParseConfig(source)
    IN  FlattenSeq([s \in DOMAIN parsed.stanzas |->
                        ItemsOf(parsed.stanzas[s], parsed.defaults)])

(***************************************************************************)
(* find_duplicate.  A connection of the item's name goes before one of its *)
(* endpoint; of several the code takes the first of the catalogue, which   *)
(* may be any of them.                                                     *)
(***************************************************************************)
Duplicates(catalog, item) ==
    LET named == {copy \in catalog : copy.row.name = item.alias}
        reaching == {copy \in catalog : copy.row.endpoint = item.endpoint}
    IN  IF named # {} THEN named ELSE reaching

-----------------------------------------------------------------------------
(***************************************************************************)
(* How ssh itself reads the file, after ssh_config(5) and not after this   *)
(* code: a Host line and the lines up to the next one are a block, the     *)
(* lines before the first Host line apply always, a block applies if a     *)
(* word of its Host line matches the alias and none negates it, and of     *)
(* each option the first value given in all that applies is obtained.      *)
(***************************************************************************)
HostLines(source) == {n \in DOMAIN source : source[n].key = "host"}

Given(source, n, option) ==
    {l \in DOMAIN source : /\ source[l].key = option
                           /\ l > n
                           /\ \A h \in HostLines(source) : ~(n < h /\ h < l)}

FirstOf(source, lines) ==
    IF lines = {} THEN None
    ELSE source[CHOOSE l \in lines : \A other \in lines : l <= other].value

Applies(source, n, alias) ==
    LET words == ToSet(source[n].value)
    IN  /\ \E word \in words : word = alias \/ <<word, alias>> \in Covers
        /\ \A word \in words : <<word, alias>> \notin Excludes

Obtained(source, alias, option) ==
    UNION {Given(source, n, option) :
              n \in {0} \union {n \in HostLines(source) : Applies(source, n, alias)}}

SshEntry(source, alias) ==
    LET First(option) == FirstOf(source, Obtained(source, alias, option))
    IN  <<alias, <<Or(First("hostname"), alias), Or(First("port"), DefaultPort),
                   Or(First("user"), LocalUser)>> >>

\* What can be saved: validate wants a host, a port and a user.
Usable(entry) ==
    /\ entry[2][1] # Blank
    /\ ValidPort(entry[2][2])
    /\ entry[2][3] \notin {None, Blank}

(***************************************************************************)
(* Where the import departs from ssh it does so for one of four reasons:   *)
(* it knows no Match or Include; a negation of its own line excludes the   *)
(* alias; another block that applies, of a pattern or of the same name,    *)
(* gives a value, which the import ignores (its dialog speaks of ignored   *)
(* wildcard rules); or the section and the head both give one, where the   *)
(* import takes the section's and ssh the head's.  An alias none of this   *)
(* touches is plain.                                                       *)
(***************************************************************************)
NamedOn(source, alias) == {n \in HostLines(source) : alias \in ToSet(source[n].value)}

NamedHosts(source) ==
    (UNION {ToSet(source[n].value) : n \in HostLines(source)}) \ HostPatterns

PlainFor(source, alias) ==
    /\ \A l \in DOMAIN source : source[l].key \notin {"match", "include"}
    /\ \A n \in NamedOn(source, alias) :
          /\ Applies(source, n, alias)
          /\ \A option \in Options :
                LET own == Given(source, n, option)
                    head == Given(source, 0, option)
                IN  /\ Obtained(source, alias, option) \subseteq own \union head
                    /\ own = {} \/ head = {}

ImportedEntries(source) ==
    {<<item.alias, item.endpoint>> : item \in {i \in ToSet(Items(source)) : i.importable}}

(***************************************************************************)
(* The import offers only names the file has, and it offers a plain one    *)
(* with the endpoint ssh would connect to, and exactly if that is usable.  *)
(***************************************************************************)
ReadsLikeSsh(source) ==
    /\ \A entry \in ImportedEntries(source) : entry[1] \in NamedHosts(source)
    /\ \A alias \in NamedHosts(source) :
          PlainFor(source, alias) =>
              {entry \in ImportedEntries(source) : entry[1] = alias}
                  = {entry \in {SshEntry(source, alias)} : Usable(entry)}
=============================================================================
