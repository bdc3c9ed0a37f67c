----------------------- MODULE ConnectionRepositoryProofs -----------------------
(***************************************************************************)
(* Proofs about ConnectionRepository and, for its import, OpenSshConfig:   *)
(* what the parser makes of every file, and the invariants and the action  *)
(* property of the tables, for all connections, groups, edits and files.   *)
(***************************************************************************)
EXTENDS ConnectionRepository, SequenceLemmas, FiniteSetTheorems, TLAPS

-----------------------------------------------------------------------------
(***************************************************************************)
(* The parser of OpenSshConfig, for every file.                            *)
(***************************************************************************)
\* What the first i lines make of the file.
IsParse(parse, source) ==
  /\ parse[0] = [defaults |-> Unset, stanzas |-> <<>>]
  /\ \A i \in 1..Len(source) : parse[i] = ParseLine(parse[i - 1], source[i])

Values(source) == {source[l].value : l \in DOMAIN source} \union {None}
OptionValues(source) == [Options -> Values(source)]
AliasLists(source) == {source[h].value : h \in HostLines(source)}
Stanza(source) == [aliases : AliasLists(source), options : OptionValues(source)]
Parsed(source) == [defaults : OptionValues(source), stanzas : Seq(Stanza(source))]

LEMMA FileFacts ==
  ASSUME NEW source, IsConfigFile(source)
  PROVE  /\ Len(source) \in Nat /\ DOMAIN source = 1..Len(source)
         /\ \A l \in 1..Len(source) : source[l].value \in Values(source)
         /\ \A l \in 1..Len(source) : source[l].key \in Options => source[l].value # None
<1>1. source \in Seq(ToSet(source))
  BY DEF IsConfigFile
<1>2. Len(source) \in Nat /\ DOMAIN source = 1..Len(source)
  BY <1>1, LenProperties
<1> QED
  BY <1>2 DEF IsConfigFile, Values

LEMMA SetOptionType ==
  ASSUME NEW source, IsConfigFile(source), NEW l \in 1..Len(source), source[l].key \in Options,
         NEW options \in OptionValues(source)
  PROVE  SetOption(options, source[l]) \in OptionValues(source)
  BY FileFacts DEF SetOption, OptionValues

LEMMA ParseLineType ==
  ASSUME NEW source, IsConfigFile(source), NEW l \in 1..Len(source), NEW parsed \in Parsed(source)
  PROVE  ParseLine(parsed, source[l]) \in Parsed(source)
<1>1. parsed.defaults \in OptionValues(source) /\ parsed.stanzas \in Seq(Stanza(source))
      /\ parsed = [defaults |-> parsed.defaults, stanzas |-> parsed.stanzas]
  BY DEF Parsed
<1>2. CASE source[l].key = "host"
  <2> DEFINE new == [aliases |-> source[l].value, options |-> Unset]
  <2>1. Unset \in OptionValues(source)
    BY DEF Unset, OptionValues, Values
  <2>2. new \in Stanza(source)
    <3>1. source[l].value \in AliasLists(source)
      BY <1>2, FileFacts DEF AliasLists, HostLines
    <3> QED
      BY <2>1, <3>1 DEF Stanza
  <2>3. Append(parsed.stanzas, new) \in Seq(Stanza(source))
    BY <1>1, <2>2
  <2>4. ParseLine(parsed, source[l])
          = [defaults |-> parsed.defaults, stanzas |-> Append(parsed.stanzas, new)]
    BY <1>1, <1>2 DEF ParseLine
  <2> QED
    BY <1>1, <2>3, <2>4 DEF Parsed
<1>3. CASE source[l].key # "host" /\ source[l].key \notin Options
  BY <1>3 DEF ParseLine
<1>4. CASE source[l].key # "host" /\ source[l].key \in Options /\ parsed.stanzas = <<>>
  <2>1. SetOption(parsed.defaults, source[l]) \in OptionValues(source)
    BY <1>1, <1>4, SetOptionType
  <2>2. ParseLine(parsed, source[l])
          = [defaults |-> SetOption(parsed.defaults, source[l]), stanzas |-> parsed.stanzas]
    BY <1>1, <1>4 DEF ParseLine
  <2> QED
    BY <1>1, <2>1, <2>2 DEF Parsed
<1>5. CASE source[l].key # "host" /\ source[l].key \in Options /\ parsed.stanzas # <<>>
  <2> DEFINE n == Len(parsed.stanzas)
             last == parsed.stanzas[n]
             set == [last EXCEPT !.options = SetOption(@, source[l])]
  <2>1. n \in Nat /\ n \in 1..n /\ last \in Stanza(source)
    <3>1. n \in Nat \ {0}
      BY <1>1, <1>5
    <3>2. n \in 1..n
      BY <3>1
    <3> QED
      BY <1>1, <3>1, <3>2, ElementOfSeq
  <2>2. SetOption(last.options, source[l]) \in OptionValues(source)
    BY <1>5, <2>1, SetOptionType DEF Stanza
  <2>3. set \in Stanza(source)
    BY <2>1, <2>2 DEF Stanza
  <2>4. [parsed.stanzas EXCEPT ![n] = set] \in Seq(Stanza(source))
    BY <1>1, <2>1, <2>3, ExceptSeq
  <2>5. ParseLine(parsed, source[l])
          = [defaults |-> parsed.defaults, stanzas |-> [parsed.stanzas EXCEPT ![n] = set]]
    BY <1>1, <1>5 DEF ParseLine
  <2> QED
    BY <1>1, <2>4, <2>5 DEF Parsed
<1> QED
  BY <1>2, <1>3, <1>4, <1>5

LEMMA ParseConfigRuns ==
  ASSUME NEW source, IsConfigFile(source)
  PROVE  \E parse \in [0..Len(source) -> Parsed(source)] :
            IsParse(parse, source) /\ ParseConfig(source) = parse[Len(source)]
<1> DEFINE n == Len(source)
           T == Parsed(source)
           first == [defaults |-> Unset, stanzas |-> <<>>]
           step == [p \in T \X (1..n) |-> ParseLine(p[1], source[p[2]])]
           iter == CHOOSE iter : iter = [s \in SUBSET DOMAIN source |->
                     IF s = {} THEN first ELSE ParseLine(iter[s \ {LastOf(s)}], source[LastOf(s)])]
<1>1. n \in Nat /\ DOMAIN source = 1..n
  BY FileFacts
<1>2. ParseConfig(source) = iter[DOMAIN source]
  BY DEF ParseConfig, FoldLeft, MapThenFoldSet, LastOf, Max
<1>3. first \in T
  <2>1. Unset \in OptionValues(source)
    BY DEF Unset, OptionValues, Values
  <2> QED
    BY <2>1 DEF Parsed
<1>4. IsStep(step, T, n)
  <2>1. \A p \in T \X (1..n) : ParseLine(p[1], source[p[2]]) \in T
    BY ParseLineType
  <2> QED
    BY <2>1 DEF IsStep
<1>5. ASSUME NEW t \in T, NEW i \in 1..n
      PROVE  step[<<t, i>>] = ParseLine(t, source[i])
  OBVIOUS
<1> HIDE DEF n, T, first, step
<1>6. PICK fold : IsFold(fold, T, first, step, n)
  BY <1>1, <1>3, <1>4, SetRecursion
<1>7. fold = [s \in SUBSET DOMAIN source |->
                IF s = {} THEN first ELSE ParseLine(fold[s \ {LastOf(s)}], source[LastOf(s)])]
  <2>1. ASSUME NEW s \in SUBSET (1..n), s # {}
        PROVE  fold[s] = ParseLine(fold[s \ {LastOf(s)}], source[LastOf(s)])
    <3>1. LastOf(s) \in 1..n
      BY <1>1, <2>1, LastOfIn
    <3>2. fold[s \ {LastOf(s)}] \in T
      BY <1>6 DEF IsFold
    <3> QED
      BY <1>5, <1>6, <2>1, <3>1, <3>2 DEF IsFold
  <2> QED
    BY <1>1, <1>6, <2>1 DEF IsFold
<1>8. iter = [s \in SUBSET DOMAIN source |->
                IF s = {} THEN first ELSE ParseLine(iter[s \ {LastOf(s)}], source[LastOf(s)])]
  BY <1>7
<1> HIDE DEF iter
<1>9. ASSUME NEW i \in 1..n
      PROVE  iter[1..i] = ParseLine(iter[1..(i - 1)], source[i])
  <2>1. /\ 1..i \in SUBSET DOMAIN source /\ 1..i # {} /\ LastOf(1..i) = i
        /\ (1..i) \ {i} = 1..(i - 1)
    BY <1>1, InitialFacts
  <2>2. iter[1..i] = ParseLine(iter[(1..i) \ {LastOf(1..i)}], source[LastOf(1..i)])
    BY <1>8, <2>1
  <2> QED
    BY <2>1, <2>2
<1> DEFINE parse == [i \in 0..n |-> iter[1..i]]
<1>10. IsRun(parse, T, first, step, n)
  <2>1. iter[{}] = first
    BY <1>8
  <2>2. \A i \in 1..n : iter[1..(i - 1)] \in T => iter[1..i] = step[<<iter[1..(i - 1)], i>>]
    BY <1>5, <1>9
  <2> QED
    BY <1>1, <1>3, <1>4, <2>1, <2>2, FoldRun
<1>11. parse[n] = iter[DOMAIN source]
  BY <1>1
<1> HIDE DEF parse
<1>12. ASSUME NEW i \in 1..n
       PROVE  parse[i] = ParseLine(parse[i - 1], source[i])
  <2>1. parse[i - 1] \in T /\ parse[i] = step[<<parse[i - 1], i>>]
    BY <1>1, <1>10 DEF IsRun
  <2> QED
    BY <1>5, <2>1
<1> QED
  BY <1>2, <1>10, <1>11, <1>12 DEF IsRun, IsParse, first, n, T

\* What Items concatenates is a sequence of sequences, whatever their elements.
LEMMA ItemsParts ==
  ASSUME NEW source, IsConfigFile(source), NEW stanzas \in Seq(Stanza(source)), NEW defaults
  PROVE  \E A : [s \in DOMAIN stanzas |-> ItemsOf(stanzas[s], defaults)] \in Seq(Seq(A))
<1> DEFINE Aliases == UNION {ToSet(list) : list \in AliasLists(source)}
           A == {Item(stanza, defaults, alias) : stanza \in Stanza(source), alias \in Aliases}
<1>1. \A list \in AliasLists(source) : list \in Seq(ToSet(list))
  BY DEF IsConfigFile, AliasLists, HostLines
<1>2. ASSUME NEW stanza \in Stanza(source)
      PROVE  ItemsOf(stanza, defaults) \in Seq(A)
  <2> DEFINE list == stanza.aliases
             parts == [i \in DOMAIN list |->
                         IF list[i] \in HostPatterns THEN <<>>
                         ELSE <<Item(stanza, defaults, list[i])>>]
  <2>1. list \in AliasLists(source) /\ list \in Seq(ToSet(list))
    BY <1>1 DEF Stanza
  <2>2. Len(list) \in Nat /\ DOMAIN list = 1..Len(list)
    BY <2>1, LenProperties
  <2>3. ASSUME NEW i \in DOMAIN list
        PROVE  parts[i] \in Seq(A)
    <3>1. list[i] \in Aliases
      BY <2>1 DEF ToSet
    <3>2. Item(stanza, defaults, list[i]) \in A
      BY <3>1
    <3> HIDE DEF A
    <3> QED
      BY <3>2
  <2> HIDE DEF A
  <2>4. parts \in Seq(Seq(A))
    <3>1. parts = [i \in 1..Len(list) |-> parts[i]]
      BY <2>2
    <3> HIDE DEF parts
    <3>2. parts \in [1..Len(list) -> Seq(A)]
      BY <2>2, <2>3, <3>1
    <3> QED
      BY <2>2, <3>2, IsASeq
  <2> QED
    BY <2>4, FlattenType DEF ItemsOf
<1> DEFINE parts == [s \in DOMAIN stanzas |-> ItemsOf(stanzas[s], defaults)]
<1> HIDE DEF A
<1>3. /\ Len(stanzas) \in Nat /\ DOMAIN stanzas = 1..Len(stanzas)
      /\ \A s \in DOMAIN stanzas : stanzas[s] \in Stanza(source)
  BY LenProperties, ElementOfSeq
<1>4. \A s \in DOMAIN stanzas : parts[s] \in Seq(A)
  BY <1>2, <1>3
<1>5. parts = [s \in 1..Len(stanzas) |-> parts[s]]
  BY <1>3
<1>6. parts \in Seq(Seq(A))
  <2> HIDE DEF parts
  <2>1. parts \in [1..Len(stanzas) -> Seq(A)]
    BY <1>3, <1>4, <1>5
  <2> QED
    BY <1>3, <2>1, IsASeq
<1> QED
  BY <1>6

LEMMA ItemsAreSequence ==
  ASSUME NEW source, IsConfigFile(source)
  PROVE  \E A : Items(source) \in Seq(A)
<1> DEFINE parsed == ParseConfig(source)
           parts == [s \in DOMAIN parsed.stanzas |-> ItemsOf(parsed.stanzas[s], parsed.defaults)]
<1>1. parsed.stanzas \in Seq(Stanza(source))
  <2>1. Len(source) \in 0..Len(source)
    BY FileFacts
  <2> QED
    BY <2>1, ParseConfigRuns DEF Parsed
<1>2. PICK A : parts \in Seq(Seq(A))
  BY <1>1, ItemsParts
<1>3. Items(source) = FlattenSeq(parts)
  BY DEF Items
<1> HIDE DEF parts
<1> QED
  BY <1>2, <1>3, FlattenType

\* The options of the section that starts after line n, as far as line i.
OptionsOf(source, n, i) ==
  [option \in Options |-> FirstOf(source, {l \in Given(source, n, option) : l <= i})]

LEMMA Least ==
  ASSUME NEW lines \in SUBSET Nat, lines # {}
  PROVE  \E m \in lines : \A other \in lines : m <= other
<1> DEFINE Above == {k \in Nat : \A l \in lines : k <= l}
<1>1. SUFFICES ASSUME \A m \in lines : \E other \in lines : ~(m <= other)
               PROVE  FALSE
  OBVIOUS
<1>2. 0 \in Above
  OBVIOUS
<1>3. ASSUME NEW k \in Nat, k \in Above
      PROVE  k + 1 \in Above
  <2>1. k \notin lines
    BY <1>1, <1>3
  <2>2. ASSUME NEW l \in lines
        PROVE  k + 1 <= l
    <3>1. k <= l /\ l # k /\ l \in Nat
      BY <1>3, <2>1
    <3> QED
      BY <3>1
  <2> QED
    BY <2>2
<1> HIDE DEF Above
<1>4. \A k \in Nat : k \in Above
  BY <1>2, <1>3, SetInduction
<1>5. PICK l \in lines : TRUE
  OBVIOUS
<1>6. l + 1 \in Nat /\ l \in Nat
  OBVIOUS
<1>7. l + 1 <= l
  BY <1>4, <1>5, <1>6 DEF Above
<1> QED
  BY <1>6, <1>7

LEMMA FirstOfLeast ==
  ASSUME NEW source, NEW lines \in SUBSET Nat, NEW m \in lines, \A other \in lines : m <= other
  PROVE  FirstOf(source, lines) = source[m].value
<1>1. \A l \in lines : (\A other \in lines : l <= other) <=> l = m
  OBVIOUS
<1>2. (CHOOSE l \in lines : \A other \in lines : l <= other) = m
  BY <1>1
<1> QED
  BY <1>2 DEF FirstOf

\* A value is found whenever some line gives one.
LEMMA FirstOfGiven ==
  ASSUME NEW source, IsConfigFile(source), NEW n, NEW option \in Options,
         NEW lines \in SUBSET Given(source, n, option), lines # {}
  PROVE  FirstOf(source, lines) # None
<1>1. lines \in SUBSET Nat /\ \A l \in lines : l \in 1..Len(source) /\ source[l].key \in Options
  BY FileFacts DEF Given
<1>2. PICK m \in lines : \A other \in lines : m <= other
  BY <1>1, Least
<1> QED
  BY <1>1, <1>2, FirstOfLeast, FileFacts

LEMMA OptionsNew ==
  ASSUME NEW source, IsConfigFile(source), NEW n \in Nat
  PROVE  OptionsOf(source, n, n) = Unset
<1>1. \A option \in Options : {l \in Given(source, n, option) : l <= n} = {}
  BY FileFacts DEF Given
<1> QED
  BY <1>1 DEF OptionsOf, FirstOf, Unset

LEMMA OptionsKept ==
  ASSUME NEW source, IsConfigFile(source), NEW n \in Nat, NEW i \in Nat, i + 1 <= Len(source),
         source[i + 1].key \notin Options \/ \E h \in HostLines(source) : n < h /\ h < i + 1
  PROVE  OptionsOf(source, n, i + 1) = OptionsOf(source, n, i)
<1>1. ASSUME NEW option \in Options
      PROVE  {l \in Given(source, n, option) : l <= i + 1} = {l \in Given(source, n, option) : l <= i}
  <2>1. i + 1 \notin Given(source, n, option)
    BY DEF Given
  <2>2. \A l \in Given(source, n, option) : l \in Nat
    BY FileFacts DEF Given
  <2>3. \A l \in Given(source, n, option) : l <= i + 1 <=> l <= i
    BY <2>1, <2>2
  <2> QED
    BY <2>3
<1> QED
  BY <1>1 DEF OptionsOf

LEMMA OptionsSet ==
  ASSUME NEW source, IsConfigFile(source), NEW n \in Nat, NEW i \in Nat, n <= i, i + 1 <= Len(source),
         source[i + 1].key \in Options, \A h \in HostLines(source) : ~(n < h /\ h < i + 1)
  PROVE  OptionsOf(source, n, i + 1) = SetOption(OptionsOf(source, n, i), source[i + 1])
<1> DEFINE key == source[i + 1].key
           Upto(option, last) == {l \in Given(source, n, option) : l <= last}
<1>1. \A option \in Options : Given(source, n, option) \subseteq 1..Len(source)
  BY FileFacts DEF Given
<1>2. Len(source) \in Nat /\ i + 1 \in DOMAIN source
  BY FileFacts
<1>3. ASSUME NEW option \in Options, option # key
      PROVE  Upto(option, i + 1) = Upto(option, i)
  <2>1. i + 1 \notin Given(source, n, option)
    BY <1>3 DEF Given
  <2>2. \A l \in Given(source, n, option) : l \in Nat
    BY <1>1, <1>2
  <2>3. \A l \in Given(source, n, option) : l <= i + 1 <=> l <= i
    BY <2>1, <2>2
  <2> QED
    BY <2>3
<1>4. Upto(key, i + 1) = Upto(key, i) \union {i + 1}
  <2>1. i + 1 \in Given(source, n, key)
    BY <1>2 DEF Given
  <2>2. \A l \in Given(source, n, key) : l \in Nat
    BY <1>1, <1>2
  <2>3. \A l \in Given(source, n, key) : l <= i + 1 <=> l <= i \/ l = i + 1
    BY <2>2
  <2> QED
    BY <2>1, <2>3
<1>5. Upto(key, i) \subseteq Given(source, n, key) /\ Upto(key, i) \in SUBSET Nat
      /\ \A l \in Upto(key, i) : l <= i
  BY <1>1, <1>2
<1>6. /\ OptionsOf(source, n, i) = [option \in Options |-> FirstOf(source, Upto(option, i))]
      /\ OptionsOf(source, n, i + 1) = [option \in Options |-> FirstOf(source, Upto(option, i + 1))]
  BY DEF OptionsOf
<1>7. key \in Options /\ source[i + 1].value # None
  BY FileFacts
<1> HIDE DEF Upto
<1>8. CASE Upto(key, i) = {}
  <2>1. Upto(key, i + 1) = {i + 1}
    BY <1>4, <1>8
  <2>2. FirstOf(source, Upto(key, i + 1)) = source[i + 1].value
    BY <2>1, FirstOfLeast
  <2>3. FirstOf(source, Upto(key, i)) = None
    BY <1>8 DEF FirstOf
  <2> QED
    BY <1>3, <1>6, <1>7, <2>2, <2>3 DEF SetOption
<1>9. CASE Upto(key, i) # {}
  <2>1. PICK m \in Upto(key, i) : \A other \in Upto(key, i) : m <= other
    BY <1>5, <1>9, Least
  <2>2. m \in Nat /\ m <= i + 1 /\ m \in Upto(key, i + 1)
        /\ \A other \in Upto(key, i + 1) : m <= other
    BY <1>4, <1>5, <2>1
  <2>3. Upto(key, i + 1) \in SUBSET Nat
    BY <1>4, <1>5
  <2>4. FirstOf(source, Upto(key, i + 1)) = FirstOf(source, Upto(key, i))
    BY <1>5, <2>1, <2>2, <2>3, FirstOfLeast
  <2>5. FirstOf(source, Upto(key, i)) # None
    BY <1>5, <1>7, <1>9, FirstOfGiven
  <2> QED
    BY <1>3, <1>6, <1>7, <2>4, <2>5 DEF SetOption
<1> QED
  BY <1>8, <1>9

\* The stanza of the section that starts at a Host line, as far as line i.
StanzaOf(source, line, i) ==
  [aliases |-> source[line].value, options |-> OptionsOf(source, line, i)]

\* What the first i lines have become: stanza k is the section of Host line host[k],
\* and the last stanza is the section of the last Host line.
Describes(parsed, host, source, i) ==
  /\ host \in [1..Len(parsed.stanzas) -> HostLines(source)]
  /\ \A k \in 1..Len(parsed.stanzas) :
        /\ host[k] <= i
        /\ k # Len(parsed.stanzas) => host[k] < host[Len(parsed.stanzas)]
        /\ parsed.stanzas[k] = StanzaOf(source, host[k], i)
  /\ \A line \in HostLines(source) : line <= i =>
        \E k \in 1..Len(parsed.stanzas) : host[k] = line
  /\ parsed.defaults = OptionsOf(source, 0, i)

LEMMA LineDescribes ==
  ASSUME NEW source, IsConfigFile(source), NEW i \in Nat, i + 1 <= Len(source),
         NEW parsed \in Parsed(source), NEW host, Describes(parsed, host, source, i)
  PROVE  \E more : Describes(ParseLine(parsed, source[i + 1]), more, source, i + 1)
<1> DEFINE n == Len(parsed.stanzas)
           line == source[i + 1]
           after == ParseLine(parsed, line)
<1>1. /\ Len(source) \in Nat /\ DOMAIN source = 1..Len(source) /\ i + 1 \in 1..Len(source)
      /\ HostLines(source) \subseteq 1..Len(source)
  BY FileFacts DEF HostLines
<1>2. /\ parsed.defaults \in OptionValues(source) /\ parsed.stanzas \in Seq(Stanza(source))
      /\ parsed = [defaults |-> parsed.defaults, stanzas |-> parsed.stanzas]
      /\ n \in Nat /\ DOMAIN parsed.stanzas = 1..n
  BY LenProperties DEF Parsed
<1>3. host \in [1..n -> HostLines(source)]
  BY DEF Describes
<1>4. ASSUME NEW k \in 1..n
       PROVE  host[k] \in Nat /\ host[k] \in HostLines(source) /\ host[k] <= i
  <2>1. host[k] \in HostLines(source)
    BY <1>3
  <2>2. host[k] \in Nat
    BY <1>1, <2>1
  <2>3. host[k] <= i
    BY DEF Describes, n
  <2> QED
    BY <2>1, <2>2, <2>3
<1>5. \A k \in 1..n : k # n => host[k] < host[n]
  BY DEF Describes
<1>6. \A k \in 1..n : parsed.stanzas[k] = StanzaOf(source, host[k], i)
  BY DEF Describes
<1>7. \A other \in HostLines(source) : other <= i => \E k \in 1..n : host[k] = other
  BY DEF Describes
<1>8. parsed.defaults = OptionsOf(source, 0, i)
  BY DEF Describes
<1>9. ASSUME NEW m \in Nat, OptionsOf(source, m, i + 1) = OptionsOf(source, m, i)
       PROVE  StanzaOf(source, m, i + 1) = StanzaOf(source, m, i)
  BY <1>9 DEF StanzaOf
<1>10. \A other \in HostLines(source) : other <= i + 1 => other <= i \/ other = i + 1
  BY <1>1
<1>11. i + 1 \in HostLines(source) <=> line.key = "host"
  BY <1>1 DEF HostLines
<1> HIDE DEF n, line
<1>12. CASE line.key = "host"
  <2> DEFINE new == [aliases |-> line.value, options |-> Unset]
             more == [k \in 1..(n + 1) |-> IF k = n + 1 THEN i + 1 ELSE host[k]]
  <2>1. after = [defaults |-> parsed.defaults, stanzas |-> Append(parsed.stanzas, new)]
    BY <1>2, <1>12 DEF ParseLine
  <2>2. new \in Stanza(source)
    <3>1. line.value \in AliasLists(source)
      BY <1>11, <1>12 DEF AliasLists, line
    <3>2. Unset \in OptionValues(source)
      BY DEF Unset, OptionValues, Values
    <3> QED
      BY <3>1, <3>2 DEF Stanza
  <2> HIDE DEF new
  <2>3. /\ Len(after.stanzas) = n + 1 /\ after.stanzas[n + 1] = new
        /\ \A k \in 1..n : after.stanzas[k] = parsed.stanzas[k]
        /\ after.defaults = parsed.defaults
    BY <1>2, <2>1, <2>2, AppendProperties DEF n
  <2> HIDE DEF after
  <2>4. line.key \notin Options
    BY <1>12 DEF Options
  <2>5. \A m \in Nat : OptionsOf(source, m, i + 1) = OptionsOf(source, m, i)
    BY <2>4, OptionsKept DEF line
  <2>6. OptionsOf(source, i + 1, i + 1) = Unset
    BY OptionsNew
  <2>7. \A k \in 1..(n + 1) : k \in 1..n \/ k = n + 1
    BY <1>2
  <2>8. /\ more[n + 1] = i + 1 /\ n + 1 \in 1..(n + 1)
        /\ \A k \in 1..n : more[k] = host[k] /\ k \in 1..(n + 1) /\ k # n + 1
    BY <1>2
  <2>9. more \in [1..(n + 1) -> HostLines(source)]
    BY <1>3, <1>11, <1>12, <2>7
  <2> HIDE DEF more
  <2>10. ASSUME NEW k \in 1..(n + 1)
         PROVE  /\ more[k] <= i + 1
                /\ k # n + 1 => more[k] < more[n + 1]
                /\ after.stanzas[k] = StanzaOf(source, more[k], i + 1)
    <3>1. CASE k = n + 1
      <4>1. StanzaOf(source, i + 1, i + 1) = new
        BY <2>6 DEF StanzaOf, new, line
      <4> QED
        BY <2>3, <2>8, <3>1, <4>1
    <3>2. CASE k \in 1..n
      <4>1. host[k] \in Nat /\ host[k] <= i + 1
        BY <1>4, <3>2
      <4>2. after.stanzas[k] = StanzaOf(source, host[k], i)
        BY <1>6, <2>3, <3>2
      <4>3. StanzaOf(source, host[k], i + 1) = StanzaOf(source, host[k], i)
        BY <1>9, <2>5, <4>1
      <4>4. host[k] < i + 1
        BY <1>4, <3>2
      <4> QED
        BY <2>8, <3>2, <4>1, <4>2, <4>3, <4>4
    <3> QED
      BY <2>7, <3>1, <3>2
  <2>11. ASSUME NEW other \in HostLines(source), other <= i + 1
         PROVE  \E k \in 1..(n + 1) : more[k] = other
    <3>1. CASE other = i + 1
      BY <2>8, <3>1
    <3>2. CASE other <= i
      BY <1>7, <2>8, <3>2
    <3> QED
      BY <1>10, <2>11, <3>1, <3>2
  <2>12. Describes(after, more, source, i + 1)
    BY <1>8, <2>3, <2>5, <2>9, <2>10, <2>11 DEF Describes
  <2> QED
    BY <2>12 DEF after, line
<1>13. CASE line.key # "host" /\ line.key \notin Options
  <2>1. after = parsed
    BY <1>13 DEF ParseLine
  <2>2. \A m \in Nat : OptionsOf(source, m, i + 1) = OptionsOf(source, m, i)
    BY <1>13, OptionsKept DEF line
  <2>3. \A other \in HostLines(source) : other <= i + 1 => other <= i
    BY <1>10, <1>11, <1>13
  <2> HIDE DEF after
  <2>4. ASSUME NEW k \in 1..n
        PROVE  host[k] <= i + 1 /\ after.stanzas[k] = StanzaOf(source, host[k], i + 1)
    <3>1. host[k] \in Nat /\ host[k] <= i + 1
      BY <1>4
    <3> QED
      BY <1>6, <1>9, <2>1, <2>2, <3>1
  <2>5. Describes(after, host, source, i + 1)
    BY <1>3, <1>5, <1>7, <1>8, <2>1, <2>2, <2>3, <2>4 DEF Describes, n
  <2> QED
    BY <2>5 DEF after, line
<1>14. CASE line.key # "host" /\ line.key \in Options /\ parsed.stanzas = <<>>
  <2>1. after = [defaults |-> SetOption(parsed.defaults, line), stanzas |-> parsed.stanzas]
    BY <1>2, <1>14 DEF ParseLine
  <2>2. n = 0
    BY <1>14 DEF n
  <2>3. \A other \in HostLines(source) : ~(other <= i + 1)
    BY <1>2, <1>7, <1>10, <1>11, <1>14, <2>2
  <2>4. OptionsOf(source, 0, i + 1) = SetOption(OptionsOf(source, 0, i), line)
    <3>1. \A other \in HostLines(source) : ~(0 < other /\ other < i + 1)
      BY <1>1, <2>3
    <3> QED
      BY <1>14, <3>1, OptionsSet DEF line
  <2>5. after.stanzas = parsed.stanzas /\ after.defaults = OptionsOf(source, 0, i + 1)
    BY <1>8, <2>1, <2>4
  <2> HIDE DEF after
  <2>6. Describes(after, host, source, i + 1)
    BY <1>3, <2>2, <2>3, <2>5 DEF Describes, n
  <2> QED
    BY <2>6 DEF after, line
<1>15. CASE line.key # "host" /\ line.key \in Options /\ parsed.stanzas # <<>>
  <2> DEFINE set == [parsed.stanzas[n] EXCEPT !.options = SetOption(@, line)]
  <2>1. n # 0 /\ n \in 1..n
    BY <1>2, <1>15 DEF n
  <2>2. after = [defaults |-> parsed.defaults, stanzas |-> [parsed.stanzas EXCEPT ![n] = set]]
    BY <1>2, <1>15 DEF ParseLine, n
  <2>3. parsed.stanzas[n] = [aliases |-> source[host[n]].value,
                             options |-> OptionsOf(source, host[n], i)]
    BY <1>6, <2>1 DEF StanzaOf
  <2>4. set = [aliases |-> source[host[n]].value,
               options |-> SetOption(OptionsOf(source, host[n], i), line)]
    BY <2>3
  <2> HIDE DEF set
  <2>5. /\ Len([parsed.stanzas EXCEPT ![n] = set]) = n
        /\ [parsed.stanzas EXCEPT ![n] = set][n] = set
        /\ \A k \in 1..n : k # n => [parsed.stanzas EXCEPT ![n] = set][k] = parsed.stanzas[k]
    BY <1>2, <2>1 DEF n
  <2>6. /\ Len(after.stanzas) = n /\ after.stanzas[n] = set
        /\ \A k \in 1..n : k # n => after.stanzas[k] = parsed.stanzas[k]
        /\ after.defaults = parsed.defaults
    BY <2>2, <2>5
  <2> HIDE DEF after
  <2>7. \A other \in HostLines(source) : other <= i + 1 => other <= i /\ other <= host[n]
    <3>1. ASSUME NEW other \in HostLines(source), other <= i + 1
          PROVE  other <= i /\ other <= host[n]
      <4>1. other <= i
        BY <1>10, <1>11, <1>15, <3>1
      <4>2. PICK k \in 1..n : host[k] = other
        BY <1>7, <4>1
      <4>3. host[k] \in Nat /\ host[n] \in Nat /\ (k # n => host[k] < host[n])
        BY <1>4, <1>5, <2>1
      <4> QED
        BY <4>1, <4>2, <4>3
    <3> QED
      BY <3>1
  <2>8. host[n] \in Nat /\ host[n] <= i /\ host[n] \in HostLines(source) /\ 0 < host[n] /\ host[n] < i + 1
    BY <1>1, <1>4, <2>1
  <2>9. OptionsOf(source, host[n], i + 1) = SetOption(OptionsOf(source, host[n], i), line)
    <3>1. \A other \in HostLines(source) : ~(host[n] < other /\ other < i + 1)
      BY <1>1, <2>7, <2>8
    <3> QED
      BY <1>15, <2>8, <3>1, OptionsSet DEF line
  <2>10. \A m \in Nat : m < host[n] => OptionsOf(source, m, i + 1) = OptionsOf(source, m, i)
    BY <2>8, OptionsKept
  <2>11. ASSUME NEW k \in 1..n
         PROVE  /\ host[k] <= i + 1
                /\ after.stanzas[k] = StanzaOf(source, host[k], i + 1)
    <3>1. CASE k = n
      <4>1. set = StanzaOf(source, host[n], i + 1)
        BY <2>4, <2>9 DEF StanzaOf
      <4> QED
        BY <2>6, <2>8, <3>1, <4>1
    <3>2. CASE k # n
      <4>1. host[k] \in Nat /\ host[k] < host[n] /\ host[k] <= i
        BY <1>4, <1>5, <3>2
      <4>2. OptionsOf(source, host[k], i + 1) = OptionsOf(source, host[k], i)
        BY <2>10, <4>1
      <4>3. after.stanzas[k] = StanzaOf(source, host[k], i + 1)
        BY <1>6, <1>9, <2>6, <3>2, <4>1, <4>2
      <4> QED
        BY <4>1, <4>3
    <3> QED
      BY <3>1, <3>2
  <2>12. after.defaults = OptionsOf(source, 0, i + 1)
    BY <1>8, <2>6, <2>8, <2>10
  <2>13. Describes(after, host, source, i + 1)
    BY <1>3, <1>5, <1>7, <2>6, <2>7, <2>11, <2>12 DEF Describes
  <2> QED
    BY <2>13 DEF after, line
<1> QED
  BY <1>12, <1>13, <1>14, <1>15

LEMMA ParseDescribes ==
  ASSUME NEW source, IsConfigFile(source)
  PROVE  /\ ParseConfig(source) \in Parsed(source)
         /\ \E host : Describes(ParseConfig(source), host, source, Len(source))
<1> DEFINE n == Len(source)
<1>1. n \in Nat
  BY FileFacts
<1>2. PICK parse \in [0..n -> Parsed(source)] :
         IsParse(parse, source) /\ ParseConfig(source) = parse[n]
  BY ParseConfigRuns
<1> DEFINE Reached == {i \in Nat : i <= n => \E host : Describes(parse[i], host, source, i)}
<1>3. 0 \in Reached
  <2> DEFINE none == [k \in {} |-> 0]
  <2>1. parse[0].stanzas = <<>> /\ parse[0].defaults = Unset
    BY <1>2 DEF IsParse
  <2>2. OptionsOf(source, 0, 0) = Unset
    BY OptionsNew
  <2>3. 1..Len(<<>>) = {} /\ \A line \in HostLines(source) : ~(line <= 0)
    BY FileFacts DEF HostLines
  <2>4. none \in [{} -> HostLines(source)]
    OBVIOUS
  <2> HIDE DEF none
  <2>5. Describes(parse[0], none, source, 0)
    BY <2>1, <2>2, <2>3, <2>4 DEF Describes
  <2> QED
    BY <2>5
<1>4. ASSUME NEW i \in Nat, i \in Reached
      PROVE  i + 1 \in Reached
  <2>1. SUFFICES ASSUME i + 1 <= n
                 PROVE  \E host : Describes(parse[i + 1], host, source, i + 1)
    OBVIOUS
  <2>2. i + 1 \in 1..n /\ (i + 1) - 1 = i /\ i \in 0..n
    BY <1>1, <2>1
  <2>3. PICK host : Describes(parse[i], host, source, i)
    BY <1>4, <2>2
  <2>4. parse[i] \in Parsed(source) /\ parse[i + 1] = ParseLine(parse[i], source[i + 1])
    BY <1>2, <2>2 DEF IsParse
  <2> QED
    BY <2>1, <2>3, <2>4, LineDescribes
<1> HIDE DEF Reached
<1>5. n \in Reached
  BY <1>1, <1>3, <1>4, SetInduction
<1>6. n \in 0..n
  BY <1>1
<1> QED
  BY <1>2, <1>5, <1>6 DEF Reached

\* What the import takes: the first value of the section, or else of the head.
FirstGiven(source, line, option) ==
  LET own == Given(source, line, option)
      head == Given(source, 0, option)
  IN  FirstOf(source, IF own # {} THEN own ELSE head)

\* What an alias of a section stands for.
EntryOf(source, line, alias) ==
  <<alias, <<Or(FirstGiven(source, line, "hostname"), alias),
             Or(FirstGiven(source, line, "port"), DefaultPort),
             Or(FirstGiven(source, line, "user"), LocalUser)>> >>

LEMMA SettingIsFirstGiven ==
  ASSUME NEW source, IsConfigFile(source), NEW line \in Nat, NEW option \in Options
  PROVE  Or(OptionsOf(source, line, Len(source))[option], OptionsOf(source, 0, Len(source))[option])
           = FirstGiven(source, line, option)
<1> DEFINE own == Given(source, line, option)
           head == Given(source, 0, option)
<1>1. own \subseteq 1..Len(source) /\ head \subseteq 1..Len(source) /\ Len(source) \in Nat
  BY FileFacts DEF Given
<1>2. /\ {l \in own : l <= Len(source)} = own
      /\ {l \in head : l <= Len(source)} = head
  BY <1>1
<1>3. /\ OptionsOf(source, line, Len(source))[option] = FirstOf(source, own)
      /\ OptionsOf(source, 0, Len(source))[option] = FirstOf(source, head)
  BY <1>2 DEF OptionsOf
<1>4. own # {} => FirstOf(source, own) # None
  BY FirstOfGiven
<1>5. FirstGiven(source, line, option) = FirstOf(source, IF own # {} THEN own ELSE head)
  BY DEF FirstGiven
<1>6. own = {} => FirstOf(source, own) = None
  BY DEF FirstOf
<1> HIDE DEF own, head
<1> QED
  BY <1>3, <1>4, <1>5, <1>6 DEF Or

LEMMA ItemIsEntry ==
  ASSUME NEW source, IsConfigFile(source), NEW line \in Nat, NEW alias, NEW stanza,
         stanza = StanzaOf(source, line, Len(source)),
         NEW defaults, defaults = OptionsOf(source, 0, Len(source))
  PROVE  LET item == Item(stanza, defaults, alias)
             entry == EntryOf(source, line, alias)
         IN  /\ item.importable <=> Usable(entry)
             /\ item.importable => <<item.alias, item.endpoint>> = entry
<1> DEFINE Setting(option) == Or(stanza.options[option], defaults[option])
           port == Or(Setting("port"), DefaultPort)
           user == Or(Setting("user"), LocalUser)
           host == Or(Setting("hostname"), alias)
<1>1. stanza.options = OptionsOf(source, line, Len(source))
  BY DEF StanzaOf
<1>2. \A option \in Options : Setting(option) = FirstGiven(source, line, option)
  BY <1>1, SettingIsFirstGiven
<1>3. EntryOf(source, line, alias) = <<alias, <<host, port, user>> >>
  BY <1>2 DEF EntryOf, Options
<1>4. Item(stanza, defaults, alias) =
        [alias |-> alias,
         endpoint |-> <<host, IF ValidPort(port) THEN port ELSE DefaultPort, user>>,
         importable |-> ValidPort(port) /\ host # Blank /\ user \notin {None, Blank}]
  BY DEF Item
<1> DEFINE item == Item(stanza, defaults, alias)
           entry == EntryOf(source, line, alias)
           good == ValidPort(port) /\ host # Blank /\ user \notin {None, Blank}
<1> HIDE DEF port, user, host
<1>5. entry[2][1] = host /\ entry[2][2] = port /\ entry[2][3] = user
  BY <1>3
<1>6. /\ item.alias = alias /\ item.importable = good
      /\ item.endpoint = <<host, IF ValidPort(port) THEN port ELSE DefaultPort, user>>
  BY <1>4
<1> HIDE DEF item
<1>7. item.importable => <<item.alias, item.endpoint>> = entry
  <2>1. SUFFICES ASSUME ValidPort(port)
                 PROVE  <<item.alias, item.endpoint>> = entry
    BY <1>6
  <2>2. item.endpoint = <<host, port, user>>
    BY <1>6, <2>1
  <2> QED
    BY <1>3, <1>6, <2>2
<1> HIDE DEF entry
<1>8. item.importable <=> Usable(entry)
  BY <1>5, <1>6 DEF Usable
<1> QED
  BY <1>7, <1>8 DEF item, entry

LEMMA ItemsOfElements ==
  ASSUME NEW stanza, NEW defaults, stanza.aliases \in Seq(ToSet(stanza.aliases))
  PROVE  ToSet(ItemsOf(stanza, defaults))
           = {Item(stanza, defaults, alias) : alias \in ToSet(stanza.aliases) \ HostPatterns}
<1> DEFINE list == stanza.aliases
           ItemFor(alias) == Item(stanza, defaults, alias)
           A == {ItemFor(alias) : alias \in ToSet(list)}
           parts == [i \in DOMAIN list |->
                       IF list[i] \in HostPatterns THEN <<>> ELSE <<ItemFor(list[i])>>]
<1>1. Len(list) \in Nat /\ DOMAIN list = 1..Len(list)
  BY LenProperties
<1> HIDE DEF ItemFor
<1>2. ASSUME NEW i \in DOMAIN list
      PROVE  /\ parts[i] \in Seq(A)
             /\ ToSet(parts[i]) = IF list[i] \in HostPatterns THEN {} ELSE {ItemFor(list[i])}
  <2>1. ItemFor(list[i]) \in A
    BY DEF ToSet
  <2> DEFINE x == ItemFor(list[i])
  <2> HIDE DEF A, x
  <2>2. CASE list[i] \in HostPatterns
    <3>1. parts[i] = <<>>
      BY <2>2
    <3> HIDE DEF parts
    <3> QED
      BY <2>2, <3>1 DEF ToSet
  <2>3. CASE list[i] \notin HostPatterns
    <3>1. parts[i] = <<x>> /\ x \in A
      BY <2>1, <2>3 DEF x
    <3>2. ToSet(<<x>>) = {x} /\ <<x>> \in Seq(A)
      BY <3>1 DEF ToSet
    <3> HIDE DEF parts
    <3> QED
      BY <2>3, <3>1, <3>2 DEF x
  <2> QED
    BY <2>2, <2>3
<1>3. parts \in Seq(Seq(A)) /\ DOMAIN parts = DOMAIN list
  <2>1. parts = [i \in 1..Len(list) |-> parts[i]]
    BY <1>1
  <2> HIDE DEF parts, A
  <2>2. parts \in [1..Len(list) -> Seq(A)]
    BY <1>1, <1>2, <2>1
  <2> QED
    BY <1>1, <2>2, IsASeq
<1>4. ItemsOf(stanza, defaults) = FlattenSeq(parts)
  BY DEF ItemsOf, ItemFor
<1> HIDE DEF parts
<1>5. ToSet(FlattenSeq(parts)) = UNION {ToSet(parts[i]) : i \in DOMAIN list}
  <2> HIDE DEF A
  <2> QED
    BY <1>3, FlattenElements
<1>6. UNION {ToSet(parts[i]) : i \in DOMAIN list} = {ItemFor(alias) : alias \in ToSet(list) \ HostPatterns}
  <2>1. ASSUME NEW x \in UNION {ToSet(parts[i]) : i \in DOMAIN list}
        PROVE  x \in {ItemFor(alias) : alias \in ToSet(list) \ HostPatterns}
    <3>1. PICK i \in DOMAIN list : x \in ToSet(parts[i])
      OBVIOUS
    <3>2. list[i] \notin HostPatterns /\ x = ItemFor(list[i]) /\ list[i] \in ToSet(list)
      BY <1>2, <3>1 DEF ToSet
    <3> QED
      BY <3>2
  <2>2. ASSUME NEW alias \in ToSet(list) \ HostPatterns
        PROVE  ItemFor(alias) \in UNION {ToSet(parts[i]) : i \in DOMAIN list}
    <3>1. PICK i \in DOMAIN list : alias = list[i]
      BY DEF ToSet
    <3>2. ItemFor(alias) \in ToSet(parts[i])
      BY <1>2, <3>1
    <3> QED
      BY <3>2
  <2> QED
    BY <2>1, <2>2
<1> QED
  BY <1>4, <1>5, <1>6 DEF ItemFor

\* The items are those of the stanzas.
LEMMA ItemsElements ==
  ASSUME NEW source, IsConfigFile(source), NEW parsed, parsed = ParseConfig(source)
  PROVE  /\ parsed.stanzas \in Seq(Stanza(source))
         /\ \A k \in 1..Len(parsed.stanzas) :
               parsed.stanzas[k].aliases \in Seq(ToSet(parsed.stanzas[k].aliases))
         /\ ToSet(Items(source)) =
               UNION {ToSet(ItemsOf(parsed.stanzas[k], parsed.defaults)) : k \in 1..Len(parsed.stanzas)}
<1> DEFINE parts == [s \in DOMAIN parsed.stanzas |-> ItemsOf(parsed.stanzas[s], parsed.defaults)]
           A == UNION {ToSet(parts[s]) : s \in DOMAIN parsed.stanzas}
<1>1. parsed.stanzas \in Seq(Stanza(source))
  BY ParseDescribes DEF Parsed
<1>2. Len(parsed.stanzas) \in Nat /\ DOMAIN parsed.stanzas = 1..Len(parsed.stanzas)
  BY <1>1, LenProperties
<1>3. \A k \in 1..Len(parsed.stanzas) :
         parsed.stanzas[k].aliases \in Seq(ToSet(parsed.stanzas[k].aliases))
  <2>1. \A list \in AliasLists(source) : list \in Seq(ToSet(list))
    BY DEF IsConfigFile, AliasLists, HostLines
  <2>2. \A k \in 1..Len(parsed.stanzas) : parsed.stanzas[k].aliases \in AliasLists(source)
    <3>1. \A k \in 1..Len(parsed.stanzas) : parsed.stanzas[k] \in Stanza(source)
      BY <1>1, <1>2, ElementOfSeq
    <3> QED
      BY <3>1 DEF Stanza
  <2> QED
    BY <2>1, <2>2
<1>4. \E B : parts \in Seq(Seq(B))
  BY <1>1, ItemsParts
<1>5. ToSet(FlattenSeq(parts)) = UNION {ToSet(parts[s]) : s \in DOMAIN parts}
  <2> HIDE DEF parts
  <2> QED
    BY <1>4, FlattenElements
<1>6. Items(source) = FlattenSeq(parts)
  BY DEF Items
<1>7. UNION {ToSet(parts[s]) : s \in DOMAIN parts}
        = UNION {ToSet(ItemsOf(parsed.stanzas[k], parsed.defaults)) : k \in 1..Len(parsed.stanzas)}
  BY <1>2
<1> QED
  BY <1>1, <1>3, <1>5, <1>6, <1>7

\* What the import gives every alias of a Host line, in a section's own terms: the
\* first value of each option in its section, or else in the head, or else the default.
LEMMA ImportedFromSections ==
  ASSUME NEW source, IsConfigFile(source)
  PROVE  ImportedEntries(source) =
           {entry \in UNION {{EntryOf(source, line, alias) :
                                 alias \in ToSet(source[line].value) \ HostPatterns} :
                             line \in HostLines(source)} : Usable(entry)}
<1> DEFINE parsed == ParseConfig(source)
           n == Len(parsed.stanzas)
           Imports == {i \in ToSet(Items(source)) : i.importable}
           Entries == UNION {{EntryOf(source, line, alias) :
                                 alias \in ToSet(source[line].value) \ HostPatterns} :
                             line \in HostLines(source)}
<1>1. PICK host : Describes(parsed, host, source, Len(source))
  BY ParseDescribes
<1>2. /\ \A k \in 1..n : parsed.stanzas[k].aliases \in Seq(ToSet(parsed.stanzas[k].aliases))
      /\ ToSet(Items(source)) = UNION {ToSet(ItemsOf(parsed.stanzas[k], parsed.defaults)) : k \in 1..n}
  BY ItemsElements
<1>3. Len(source) \in Nat /\ HostLines(source) \subseteq 1..Len(source)
  BY FileFacts DEF HostLines
<1> HIDE DEF parsed, n
<1>4. \A k \in 1..n : host[k] \in HostLines(source) /\ host[k] \in Nat
  BY <1>1, <1>3 DEF Describes, n
<1>5. \A k \in 1..n : parsed.stanzas[k] = StanzaOf(source, host[k], Len(source))
  BY <1>1 DEF Describes, n
<1>6. parsed.defaults = OptionsOf(source, 0, Len(source))
  BY <1>1 DEF Describes
<1>7. \A line \in HostLines(source) : \E k \in 1..n : host[k] = line
  BY <1>1, <1>3 DEF Describes, n
<1> DEFINE ItemFor(k, alias) == Item(parsed.stanzas[k], parsed.defaults, alias)
<1>8. ASSUME NEW k \in 1..n
      PROVE  ToSet(ItemsOf(parsed.stanzas[k], parsed.defaults))
               = {ItemFor(k, alias) : alias \in ToSet(source[host[k]].value) \ HostPatterns}
  <2>1. parsed.stanzas[k].aliases = source[host[k]].value
    <3>1. parsed.stanzas[k] = StanzaOf(source, host[k], Len(source))
      BY <1>5
    <3>2. StanzaOf(source, host[k], Len(source)).aliases = source[host[k]].value
      BY DEF StanzaOf
    <3> QED
      BY <3>1, <3>2
  <2> QED
    BY <1>2, <2>1, ItemsOfElements
<1>9. ASSUME NEW k \in 1..n, NEW alias
      PROVE  /\ ItemFor(k, alias).importable <=> Usable(EntryOf(source, host[k], alias))
             /\ ItemFor(k, alias).importable =>
                   <<ItemFor(k, alias).alias, ItemFor(k, alias).endpoint>> = EntryOf(source, host[k], alias)
  BY <1>4, <1>5, <1>6, ItemIsEntry
<1> HIDE DEF ItemFor
<1>10. ASSUME NEW item \in Imports
       PROVE  <<item.alias, item.endpoint>> \in {entry \in Entries : Usable(entry)}
  <2>1. PICK k \in 1..n : item \in ToSet(ItemsOf(parsed.stanzas[k], parsed.defaults))
    BY <1>2
  <2>2. PICK alias \in ToSet(source[host[k]].value) \ HostPatterns : item = ItemFor(k, alias)
    BY <1>8, <2>1
  <2>3. EntryOf(source, host[k], alias) \in Entries
    BY <1>4
  <2> HIDE DEF Entries
  <2> QED
    BY <1>9, <2>2, <2>3
<1>11. ASSUME NEW entry \in Entries, Usable(entry)
       PROVE  entry \in {<<item.alias, item.endpoint>> : item \in Imports}
  <2>1. PICK line \in HostLines(source) :
           \E alias \in ToSet(source[line].value) \ HostPatterns : entry = EntryOf(source, line, alias)
    OBVIOUS
  <2>2. PICK alias \in ToSet(source[line].value) \ HostPatterns : entry = EntryOf(source, line, alias)
    BY <2>1
  <2>3. PICK k \in 1..n : host[k] = line
    BY <1>7
  <2>4. ItemFor(k, alias) \in ToSet(ItemsOf(parsed.stanzas[k], parsed.defaults))
    BY <1>8, <2>2, <2>3
  <2>5. ItemFor(k, alias) \in ToSet(Items(source))
    BY <1>2, <2>4
  <2>6. /\ ItemFor(k, alias).importable
        /\ <<ItemFor(k, alias).alias, ItemFor(k, alias).endpoint>> = entry
    BY <1>9, <1>11, <2>2, <2>3
  <2> QED
    BY <2>5, <2>6
<1>12. {<<item.alias, item.endpoint>> : item \in Imports} = {entry \in Entries : Usable(entry)}
  <2> HIDE DEF Imports
  <2>1. {<<item.alias, item.endpoint>> : item \in Imports} \subseteq {entry \in Entries : Usable(entry)}
    BY <1>10
  <2>2. {entry \in Entries : Usable(entry)} \subseteq {<<item.alias, item.endpoint>> : item \in Imports}
    BY <1>11
  <2> QED
    BY <2>1, <2>2
<1> QED
  BY <1>12 DEF ImportedEntries

\* An alias that nothing else touches obtains from ssh what its section or the head gives.
LEMMA PlainEntry ==
  ASSUME NEW source, NEW alias, PlainFor(source, alias), NEW n \in NamedOn(source, alias)
  PROVE  EntryOf(source, n, alias) = SshEntry(source, alias)
<1>1. ASSUME NEW option \in Options
      PROVE  FirstGiven(source, n, option) = FirstOf(source, Obtained(source, alias, option))
  <2> DEFINE own == Given(source, n, option)
             head == Given(source, 0, option)
             obtained == Obtained(source, alias, option)
  <2>1. Applies(source, n, alias) /\ obtained \subseteq own \union head /\ (own = {} \/ head = {})
    BY DEF PlainFor
  <2>2. n \in HostLines(source)
    BY DEF NamedOn
  <2>3. own \subseteq obtained /\ head \subseteq obtained
    BY <2>1, <2>2 DEF Obtained
  <2>4. FirstGiven(source, n, option) = FirstOf(source, IF own # {} THEN own ELSE head)
    BY DEF FirstGiven
  <2> HIDE DEF own, head, obtained
  <2>5. obtained = IF own # {} THEN own ELSE head
    BY <2>1, <2>3
  <2> QED
    BY <2>4, <2>5 DEF obtained
<1> QED
  BY <1>1 DEF EntryOf, SshEntry, Options

\* An import offers only names of the file, and a name that no other block, no Match,
\* no Include and no second value touches is offered with the endpoint that ssh would
\* connect to: parse_config and build_preview against the rules of ssh_config(5).
THEOREM ImportReadsLikeSsh == \A source : IsConfigFile(source) => ReadsLikeSsh(source)
<1> SUFFICES ASSUME NEW source, IsConfigFile(source)
             PROVE  ReadsLikeSsh(source)
  OBVIOUS
<1> DEFINE imported == ImportedEntries(source)
           Entries == UNION {{EntryOf(source, line, alias) :
                                 alias \in ToSet(source[line].value) \ HostPatterns} :
                             line \in HostLines(source)}
<1>1. imported = {entry \in Entries : Usable(entry)}
  BY ImportedFromSections
<1> HIDE DEF imported
<1>2. \A line, alias : EntryOf(source, line, alias)[1] = alias
  BY DEF EntryOf
<1>3. ASSUME NEW entry \in imported
      PROVE  /\ entry[1] \in NamedHosts(source)
             /\ \E line \in NamedOn(source, entry[1]) : entry = EntryOf(source, line, entry[1])
             /\ Usable(entry)
  <2>1. PICK line \in HostLines(source) :
           \E alias \in ToSet(source[line].value) \ HostPatterns : entry = EntryOf(source, line, alias)
    BY <1>1
  <2>2. PICK alias \in ToSet(source[line].value) \ HostPatterns : entry = EntryOf(source, line, alias)
    BY <2>1
  <2>3. entry[1] = alias
    BY <1>2, <2>2
  <2> QED
    BY <1>1, <2>2, <2>3 DEF NamedHosts, NamedOn
<1>4. ASSUME NEW alias \in NamedHosts(source), PlainFor(source, alias)
      PROVE  {entry \in imported : entry[1] = alias}
               = {entry \in {SshEntry(source, alias)} : Usable(entry)}
  <2>1. ASSUME NEW entry \in imported, entry[1] = alias
        PROVE  entry = SshEntry(source, alias) /\ Usable(entry)
    BY <1>3, <1>4, <2>1, PlainEntry
  <2>2. ASSUME Usable(SshEntry(source, alias))
        PROVE  SshEntry(source, alias) \in imported /\ SshEntry(source, alias)[1] = alias
    <3>1. PICK line \in HostLines(source) : alias \in ToSet(source[line].value) \ HostPatterns
      BY DEF NamedHosts
    <3>2. EntryOf(source, line, alias) = SshEntry(source, alias)
      BY <1>4, <3>1, PlainEntry DEF NamedOn
    <3>3. EntryOf(source, line, alias) \in Entries
      BY <3>1
    <3> HIDE DEF Entries
    <3> QED
      BY <1>1, <1>2, <2>2, <3>2, <3>3
  <2> QED
    BY <2>1, <2>2
<1> QED
  BY <1>3, <1>4 DEF ReadsLikeSsh, imported

-----------------------------------------------------------------------------
(***************************************************************************)
(* The tables, for every value of the constants.                           *)
(***************************************************************************)
\* A finite set of numbers has a greatest one, and Max is it.
LEMMA MaxIsGreatest ==
  ASSUME NEW S, IsFiniteSet(S), S # {}, S \subseteq Nat
  PROVE  Max(S) \in S /\ \A x \in S : x <= Max(S)
<1> DEFINE n == Cardinality(S)
<1>1. n \in Nat /\ ExistsBijection(1..n, S)
  BY FS_CardinalityType
<1>2. PICK f \in [1..n -> S] : \A x \in S : \E i \in 1..n : f[i] = x
  BY <1>1 DEF ExistsBijection, Bijection, Surjection
<1>3. \A j \in 1..n : f[j] \in Nat
  OBVIOUS
<1> HIDE DEF n
<1> DEFINE Bounded == {k \in Nat : k + 1 <= n =>
                         \E i \in 1..(k + 1) : \A j \in 1..(k + 1) : f[j] <= f[i]}
<1>4. 0 \in Bounded
  <2>1. 1 <= n => f[1] \in Nat /\ f[1] <= f[1] /\ 1 \in 1..(0 + 1) /\ \A j \in 1..(0 + 1) : j = 1
    BY <1>1, <1>3
  <2> QED
    BY <2>1
<1>5. ASSUME NEW k \in Nat, k \in Bounded
      PROVE  k + 1 \in Bounded
  <2>1. SUFFICES ASSUME (k + 1) + 1 <= n
                 PROVE  \E i \in 1..((k + 1) + 1) : \A j \in 1..((k + 1) + 1) : f[j] <= f[i]
    OBVIOUS
  <2>2. PICK i \in 1..(k + 1) : \A j \in 1..(k + 1) : f[j] <= f[i]
    BY <1>1, <1>5, <2>1
  <2>3. \A j \in 1..((k + 1) + 1) : f[j] \in Nat
    BY <1>1, <1>3, <2>1
  <2>4. \A j \in 1..((k + 1) + 1) : j \in 1..(k + 1) \/ j = (k + 1) + 1
    OBVIOUS
  <2>5. CASE f[(k + 1) + 1] <= f[i]
    <3>1. \A j \in 1..((k + 1) + 1) : f[j] <= f[i]
      BY <2>2, <2>5, <2>4
    <3>2. i \in 1..((k + 1) + 1)
      OBVIOUS
    <3> QED
      BY <3>1, <3>2
  <2>6. CASE ~(f[(k + 1) + 1] <= f[i])
    <3>1. (k + 1) + 1 \in 1..((k + 1) + 1) /\ i \in 1..((k + 1) + 1)
      OBVIOUS
    <3>2. f[i] <= f[(k + 1) + 1]
      BY <2>3, <2>6, <3>1
    <3>3. \A j \in 1..((k + 1) + 1) : f[j] <= f[(k + 1) + 1]
      <4>1. ASSUME NEW j \in 1..((k + 1) + 1)
            PROVE  f[j] <= f[(k + 1) + 1]
        <5>1. CASE j \in 1..(k + 1)
          <6>1. f[j] <= f[i] /\ f[j] \in Nat /\ f[i] \in Nat /\ f[(k + 1) + 1] \in Nat
            BY <2>2, <2>3, <3>1, <5>1
          <6> QED
            BY <3>2, <6>1
        <5>2. CASE j = (k + 1) + 1
          BY <2>3, <3>1, <5>2
        <5> QED
          BY <2>4, <5>1, <5>2
      <4> QED
        BY <4>1
    <3> QED
      BY <3>1, <3>3
  <2> QED
    BY <2>5, <2>6
<1> HIDE DEF Bounded
<1>6. \A k \in Nat : k \in Bounded
  BY <1>4, <1>5, SetInduction
<1>7. n # 0
  <2>1. n = 0 => 1..n = {}
    OBVIOUS
  <2> QED
    BY <1>2, <2>1
<1>8. n - 1 \in Nat /\ (n - 1) + 1 = n
  BY <1>1, <1>7
<1>9. n - 1 \in Bounded
  BY <1>6, <1>8
<1>10. PICK i \in 1..n : \A j \in 1..n : f[j] <= f[i]
  BY <1>1, <1>8, <1>9 DEF Bounded
<1>11. f[i] \in S /\ \A x \in S : x <= f[i]
  BY <1>2, <1>10
<1>12. \A x \in S : f[i] >= x
  BY <1>11
<1>13. \E x \in S : \A y \in S : x >= y
  BY <1>11, <1>12
<1>14. Max(S) \in S /\ \A y \in S : Max(S) >= y
  BY <1>13 DEF Max
<1> QED
  BY <1>14

Names == {edit.name : edit \in Edits} \union {ImportItems[i].alias : i \in DOMAIN ImportItems}
Endpoints ==
  {edit.endpoint : edit \in Edits} \union {ImportItems[i].endpoint : i \in DOMAIN ImportItems}

\* Rows and records of the groups G.
RowsIn(G) == {row \in Row : row.group \in G}
Tables(G) == [Connections -> RowsIn(G) \union {None}]
Records(G) ==
  [id : Connections, settings : BOOLEAN,
   config : [group : G, name : Names, endpoint : Endpoints, credential : BOOLEAN]]

LEMMA NextOrderFacts ==
  ASSUME NEW G, NEW table \in Tables(G), NEW group
  PROVE  /\ NextOrder(table, group) \in Nat
         /\ \A id \in Members(table, group) : table[id].order < NextOrder(table, group)
<1> DEFINE M == Members(table, group)
           orders == {table[id].order : id \in M}
<1>1. \A id \in M : id \in Connections /\ table[id].order \in Nat
  BY NoRowAssumption DEF Members, Tables, RowsIn, Row
<1>2. IsFiniteSet(orders)
  <2>1. IsFiniteSet(M)
    BY RepositoryAssumption, FS_Subset DEF Members
  <2> DEFINE orderOf == [id \in M |-> table[id].order]
  <2>2. orderOf \in Surjection(M, orders)
    BY DEF Surjection
  <2> HIDE DEF M, orderOf, orders
  <2> QED
    BY <2>1, <2>2, FS_Surjection
<1>3. CASE M = {}
  BY <1>3 DEF NextOrder
<1>4. CASE M # {}
  <2>1. orders # {} /\ orders \subseteq Nat
    BY <1>1, <1>4
  <2>2. \A id \in M : table[id].order \in orders
    OBVIOUS
  <2>3. NextOrder(table, group) = Max(orders) + 1
    BY <1>4 DEF NextOrder
  <2>4. \A id \in M : table[id].order \in orders /\ table[id].order \in Nat
    BY <1>1
  <2> HIDE DEF orders
  <2>5. Max(orders) \in Nat /\ \A x \in orders : x <= Max(orders)
    BY <1>2, <2>1, MaxIsGreatest
  <2>6. QED
    BY <2>1, <2>4, <2>3, <2>5
<1> QED
  BY <1>3, <1>4

\* The rows that SaveRecord leaves, and the one it writes.
LEMMA SaveRecordFacts ==
  ASSUME NEW G \in SUBSET (Groups \union {None}), NEW table \in Tables(G), NEW record \in Records(G)
  PROVE  LET saved == SaveRecord(table, record)
             old == table[record.id]
             new == saved[record.id]
             config == record.config
         IN  /\ saved \in Tables(G)
             /\ \A id \in Connections : id # record.id => saved[id] = table[id]
             /\ new \in Row /\ new.live /\ new.group = config.group /\ new.name = config.name
             /\ new.endpoint = config.endpoint /\ new.credential = config.credential
             /\ new.settings = record.settings
             /\ new.favorite = (old # None /\ old.favorite)
             /\ new.revision = (IF old = None THEN 1 ELSE old.revision + 1)
             /\ new.order = IF KeepsPlace(table, record.id, config.group) THEN old.order
                            ELSE NextOrder(table, config.group)
<1> DEFINE config == record.config
           old == table[record.id]
           new == [group |-> config.group, name |-> config.name,
                   endpoint |-> config.endpoint, credential |-> config.credential,
                   settings |-> record.settings,
                   favorite |-> old # None /\ old.favorite,
                   order |-> IF KeepsPlace(table, record.id, config.group) THEN old.order
                             ELSE NextOrder(table, config.group),
                   live |-> TRUE,
                   revision |-> IF old = None THEN 1 ELSE old.revision + 1]
<1>1. SaveRecord(table, record) = [table EXCEPT ![record.id] = new]
  BY DEF SaveRecord
<1>2. record.id \in Connections /\ config \in [group : G, name : Names, endpoint : Endpoints, credential : BOOLEAN]
      /\ record.settings \in BOOLEAN
  BY DEF Records
<1>3. old \in RowsIn(G) \union {None}
  BY <1>2 DEF Tables
<1>4. new.order \in Nat
  <2>1. KeepsPlace(table, record.id, config.group) => old \in RowsIn(G)
    BY <1>3 DEF KeepsPlace
  <2> QED
    BY <2>1, NextOrderFacts DEF RowsIn, Row
<1>5. new.revision \in Nat \ {0}
  BY <1>3 DEF RowsIn, Row
<1>6. new.favorite \in BOOLEAN
  OBVIOUS
<1>7. new \in Row
  BY <1>2, <1>4, <1>5, <1>6 DEF Row, Names, Endpoints
<1>8. new \in RowsIn(G) /\ new.live /\ new.group = config.group /\ new.name = config.name
      /\ new.endpoint = config.endpoint /\ new.credential = config.credential
      /\ new.settings = record.settings
      /\ new.favorite = (old # None /\ old.favorite)
      /\ new.revision = (IF old = None THEN 1 ELSE old.revision + 1)
      /\ new.order = IF KeepsPlace(table, record.id, config.group) THEN old.order
                     ELSE NextOrder(table, config.group)
  BY <1>2, <1>7 DEF RowsIn
<1> HIDE DEF new
<1>9. /\ [table EXCEPT ![record.id] = new] \in Tables(G)
      /\ [table EXCEPT ![record.id] = new][record.id] = new
      /\ \A id \in Connections : id # record.id => [table EXCEPT ![record.id] = new][id] = table[id]
  BY <1>2, <1>8 DEF Tables
<1> QED
  BY <1>1, <1>7, <1>8, <1>9

(***************************************************************************)
(* What one saved record preserves, in any table.                          *)
(***************************************************************************)
\* Two live rows of one group share a place only if one of them is in excused.
Distinct(table, excused) ==
  \A id, other \in Connections :
     /\ id # other
     /\ table[id] # None /\ table[id].live
     /\ table[other] # None /\ table[other].live
     /\ table[id].group = table[other].group
     /\ table[id].order = table[other].order
     => id \in excused \/ other \in excused

\* The connections of moved that the step to this table has left where they were.
Kept(table) == {id \in moved : KeepsPlace(rows, id, table[id].group)}

\* No row goes away, and a row changes with its revision only.
Grows(old, new) ==
  \A id \in Connections :
     \/ new[id] = old[id]
     \/ new[id] # None /\ (old[id] # None => old[id].revision < new[id].revision)

LEMMA SaveKeepsDistinct ==
  ASSUME NEW G \in SUBSET (Groups \union {None}), NEW table \in Tables(G),
         NEW record \in Records(G), Distinct(table, Kept(table))
  PROVE  Distinct(SaveRecord(table, record), Kept(SaveRecord(table, record)))
<1> DEFINE saved == SaveRecord(table, record)
           target == record.id
           group == record.config.group
<1>1. target \in Connections
  BY DEF Records
<1>2. /\ \A id \in Connections : id # target => saved[id] = table[id]
      /\ saved[target].group = group
      /\ KeepsPlace(table, target, group) => saved[target].order = table[target].order
      /\ ~KeepsPlace(table, target, group) => saved[target].order = NextOrder(table, group)
  BY SaveRecordFacts
<1> HIDE DEF saved, target, group
<1>3. ASSUME NEW id \in Connections, id # target
      PROVE  id \in Kept(table) => id \in Kept(saved)
  BY <1>2, <1>3 DEF Kept
<1>4. ASSUME NEW id \in Connections, id # target, saved[id] # None, saved[id].live,
             saved[id].group = saved[target].group, saved[id].order = saved[target].order
      PROVE  id \in Kept(saved) \/ target \in Kept(saved)
  <2>1. /\ table[id] # None /\ table[id].live /\ table[id].group = group
        /\ table[id].order = saved[target].order
    BY <1>2, <1>4
  <2>2. CASE KeepsPlace(table, target, group)
    <3>1. /\ table[target] # None /\ table[target].live /\ table[target].group = group
          /\ table[target].order = table[id].order
      BY <1>2, <2>1, <2>2 DEF KeepsPlace
    <3>2. id \in Kept(table) \/ target \in Kept(table)
      BY <1>1, <1>4, <2>1, <3>1 DEF Distinct
    <3>3. target \in Kept(table) => target \in Kept(saved)
      BY <1>2, <3>1 DEF Kept
    <3> QED
      BY <1>3, <1>4, <3>2, <3>3
  <2>3. CASE ~KeepsPlace(table, target, group)
    <3>1. id \in Members(table, group)
      BY <2>1 DEF Members
    <3>2. NextOrder(table, group) \in Nat /\ table[id].order < NextOrder(table, group)
      BY <3>1, NextOrderFacts
    <3>3. table[id].order = NextOrder(table, group)
      BY <1>2, <2>1, <2>3
    <3> QED
      BY <3>2, <3>3
  <2> QED
    BY <2>2, <2>3
<1>5. SUFFICES ASSUME NEW id \in Connections, NEW other \in Connections, id # other,
                      saved[id] # None, saved[id].live, saved[other] # None, saved[other].live,
                      saved[id].group = saved[other].group, saved[id].order = saved[other].order
               PROVE  id \in Kept(saved) \/ other \in Kept(saved)
  BY DEF Distinct, saved
<1>6. CASE other = target
  BY <1>4, <1>5, <1>6
<1>7. CASE id = target
  BY <1>4, <1>5, <1>7
<1>8. CASE id # target /\ other # target
  <2>1. saved[id] = table[id] /\ saved[other] = table[other]
    BY <1>2, <1>8
  <2>2. id \in Kept(table) \/ other \in Kept(table)
    BY <1>5, <2>1 DEF Distinct
  <2> QED
    BY <1>3, <1>8, <2>2
<1> QED
  BY <1>6, <1>7, <1>8

LEMMA SaveGrows ==
  ASSUME NEW G \in SUBSET (Groups \union {None}), NEW table \in Tables(G), NEW record \in Records(G)
  PROVE  Grows(table, SaveRecord(table, record))
<1> DEFINE saved == SaveRecord(table, record)
           target == record.id
<1>1. target \in Connections
  BY DEF Records
<1>2. /\ \A id \in Connections : id # target => saved[id] = table[id]
      /\ saved[target] \in Row
      /\ saved[target].revision = IF table[target] = None THEN 1 ELSE table[target].revision + 1
  BY SaveRecordFacts
<1>3. table[target] # None => table[target].revision \in Nat
  BY <1>1 DEF Tables, RowsIn, Row
<1> HIDE DEF saved, target
<1>4. saved[target] # None
  BY <1>2, NoRowAssumption
<1>5. table[target] # None => table[target].revision < saved[target].revision
  BY <1>2, <1>3
<1>6. Grows(table, saved)
  BY <1>2, <1>4, <1>5 DEF Grows
<1> QED
  BY <1>6 DEF saved

LEMMA GrowsTransitive ==
  ASSUME NEW G, NEW a \in Tables(G), NEW b \in Tables(G), NEW c \in Tables(G),
         Grows(a, b), Grows(b, c)
  PROVE  Grows(a, c)
<1>1. SUFFICES ASSUME NEW id \in Connections, c[id] # a[id]
               PROVE  c[id] # None /\ (a[id] # None => a[id].revision < c[id].revision)
  BY DEF Grows
<1>2. \A table \in {a, b, c} : table[id] # None => table[id].revision \in Nat
  BY DEF Tables, RowsIn, Row
<1>3. CASE b[id] = a[id]
  BY <1>1, <1>3 DEF Grows
<1>4. CASE c[id] = b[id]
  BY <1>1, <1>4 DEF Grows
<1>5. CASE b[id] # a[id] /\ c[id] # b[id]
  <2>1. /\ b[id] # None /\ (a[id] # None => a[id].revision < b[id].revision)
        /\ c[id] # None /\ b[id].revision < c[id].revision
    BY <1>5 DEF Grows
  <2> QED
    BY <1>2, <2>1
<1> QED
  BY <1>3, <1>4, <1>5

(***************************************************************************)
(* An import saves its records one after the other.                        *)
(***************************************************************************)
SaveItem(table, target, i) ==
  IF i \in DOMAIN target THEN SaveRecord(table, ImportRecord(i, target[i])) ELSE table

\* The tables in between: the one after i items is run[i].
IsImport(run, target) ==
  /\ run[0] = rows
  /\ \A i \in 1..Len(ImportItems) : run[i] = SaveItem(run[i - 1], target, i)

LEMMA ImportRuns ==
  ASSUME NEW G \in SUBSET (Groups \union {None}), rows \in Tables(G),
         NEW target, \A i \in DOMAIN target : ImportRecord(i, target[i]) \in Records(G)
  PROVE  /\ Len(ImportItems) \in Nat /\ DOMAIN ImportItems = 1..Len(ImportItems)
         /\ \E run \in [0..Len(ImportItems) -> Tables(G)] :
               IsImport(run, target) /\ Imported(target) = run[Len(ImportItems)]
<1> DEFINE n == Len(ImportItems)
           T == Tables(G)
           step == [p \in T \X (1..n) |-> SaveItem(p[1], target, p[2])]
           indices == [i \in DOMAIN ImportItems |-> i]
           iter == CHOOSE iter : iter = [s \in SUBSET DOMAIN indices |->
                     IF s = {} THEN rows
                     ELSE SaveItem(iter[s \ {LastOf(s)}], target, indices[LastOf(s)])]
<1>1. n \in Nat /\ DOMAIN ImportItems = 1..n
  BY RepositoryAssumption, ItemsAreSequence, LenProperties DEF ImportItems
<1>2. Imported(target) = iter[DOMAIN indices]
  BY DEF Imported, FoldLeft, MapThenFoldSet, LastOf, Max, SaveItem
<1>3. DOMAIN indices = 1..n /\ \A i \in 1..n : indices[i] = i
  BY <1>1
<1>4. IsStep(step, T, n)
  <2>1. ASSUME NEW table \in T, NEW i \in 1..n
        PROVE  SaveItem(table, target, i) \in T
    BY SaveRecordFacts DEF SaveItem
  <2>2. \A p \in T \X (1..n) : SaveItem(p[1], target, p[2]) \in T
    BY <2>1
  <2> QED
    BY <2>2 DEF IsStep
<1>5. ASSUME NEW t \in T, NEW i \in 1..n
      PROVE  step[<<t, i>>] = SaveItem(t, target, i)
  OBVIOUS
<1> HIDE DEF n, T, step, indices
<1>6. rows \in T
  BY DEF T
<1>7. PICK fold : IsFold(fold, T, rows, step, n)
  BY <1>1, <1>4, <1>6, SetRecursion
<1>8. fold = [s \in SUBSET DOMAIN indices |->
                IF s = {} THEN rows
                ELSE SaveItem(fold[s \ {LastOf(s)}], target, indices[LastOf(s)])]
  <2>1. ASSUME NEW s \in SUBSET (1..n), s # {}
        PROVE  fold[s] = SaveItem(fold[s \ {LastOf(s)}], target, indices[LastOf(s)])
    <3>1. LastOf(s) \in 1..n
      BY <1>1, <2>1, LastOfIn
    <3>2. fold[s \ {LastOf(s)}] \in T
      BY <1>7 DEF IsFold
    <3> QED
      BY <1>3, <1>5, <1>7, <2>1, <3>1, <3>2 DEF IsFold
  <2> QED
    BY <1>3, <1>7, <2>1 DEF IsFold
<1>9. iter = [s \in SUBSET DOMAIN indices |->
                IF s = {} THEN rows
                ELSE SaveItem(iter[s \ {LastOf(s)}], target, indices[LastOf(s)])]
  BY <1>8
<1> HIDE DEF iter
<1>10. ASSUME NEW i \in 1..n
       PROVE  iter[1..i] = SaveItem(iter[1..(i - 1)], target, i)
  <2>1. /\ 1..i \in SUBSET DOMAIN indices /\ 1..i # {} /\ LastOf(1..i) = i
        /\ (1..i) \ {i} = 1..(i - 1)
    BY <1>1, <1>3, InitialFacts
  <2>2. iter[1..i] = SaveItem(iter[(1..i) \ {LastOf(1..i)}], target, indices[LastOf(1..i)])
    BY <1>9, <2>1
  <2> QED
    BY <1>3, <2>1, <2>2
<1> DEFINE run == [i \in 0..n |-> iter[1..i]]
<1>11. IsRun(run, T, rows, step, n)
  <2>1. iter[{}] = rows
    BY <1>9
  <2>2. \A i \in 1..n : iter[1..(i - 1)] \in T => iter[1..i] = step[<<iter[1..(i - 1)], i>>]
    BY <1>5, <1>10
  <2> QED
    BY <1>1, <1>4, <1>6, <2>1, <2>2, FoldRun
<1>12. run[n] = iter[DOMAIN indices]
  BY <1>1, <1>3
<1> HIDE DEF run
<1>13. ASSUME NEW i \in 1..n
       PROVE  run[i] = SaveItem(run[i - 1], target, i)
  <2>1. run[i - 1] \in T /\ run[i] = step[<<run[i - 1], i>>]
    BY <1>1, <1>11 DEF IsRun
  <2> QED
    BY <1>5, <2>1
<1>14. run \in [0..n -> T] /\ IsImport(run, target)
  BY <1>11, <1>13 DEF IsRun, IsImport, n
<1> QED
  BY <1>1, <1>2, <1>12, <1>14 DEF n, T

\* What each saved record preserves, the import preserves.
LEMMA ImportPreserves ==
  ASSUME NEW G \in SUBSET (Groups \union {None}), rows \in Tables(G),
         NEW target, \A i \in DOMAIN target : ImportRecord(i, target[i]) \in Records(G),
         NEW S \in SUBSET Tables(G), rows \in S,
         \A table \in S : \A i \in DOMAIN target :
            SaveRecord(table, ImportRecord(i, target[i])) \in S
  PROVE  Imported(target) \in S
<1> DEFINE n == Len(ImportItems)
<1>1. n \in Nat
  BY ImportRuns
<1>2. PICK run \in [0..n -> Tables(G)] : IsImport(run, target) /\ Imported(target) = run[n]
  BY ImportRuns
<1> DEFINE Reached == {k \in Nat : k <= n => run[k] \in S}
<1>3. 0 \in Reached
  BY <1>2 DEF IsImport
<1>4. ASSUME NEW k \in Nat, k \in Reached
      PROVE  k + 1 \in Reached
  <2>1. SUFFICES ASSUME k + 1 <= n
                 PROVE  run[k + 1] \in S
    OBVIOUS
  <2>2. k + 1 \in 1..n /\ (k + 1) - 1 = k /\ run[k] \in S
    BY <1>1, <1>4, <2>1
  <2>3. run[k + 1] = SaveItem(run[k], target, k + 1)
    BY <1>2, <2>2 DEF IsImport
  <2> QED
    BY <2>2, <2>3 DEF SaveItem
<1> HIDE DEF Reached
<1>5. n \in Reached
  BY <1>1, <1>3, <1>4, SetInduction
<1> QED
  BY <1>1, <1>2, <1>5 DEF Reached

-----------------------------------------------------------------------------
(***************************************************************************)
(* The inductive invariant.  It adds to the invariants of the run that a   *)
(* client has one copy of a connection.                                    *)
(***************************************************************************)
CopiesDiffer ==
  \A client \in Clients : read[client] # None =>
     \A copy, other \in read[client] : copy.id = other.id => copy = other

RepositoryInv ==
  RepositoryTypeOK /\ OrderIsDistinct /\ RevisionTellsStale /\ CopiesDiffer

OpenGroups == ExistingGroups \union {None}

LEMMA TablesType ==
  ASSUME RepositoryTypeOK
  PROVE  rows \in Tables(OpenGroups) /\ OpenGroups \in SUBSET (Groups \union {None})
  BY DEF RepositoryTypeOK, Tables, RowsIn, OpenGroups, ExistingGroups, Stored

LEMMA OrderIsDistinctRows == OrderIsDistinct <=> Distinct(rows, moved)
  BY DEF OrderIsDistinct, Distinct, Live, Stored

LEMMA CopyType ==
  ASSUME NEW reads, reads \in [Clients -> (SUBSET Copy) \union {None}],
         NEW client \in Clients, reads[client] # None, NEW copy \in reads[client]
  PROVE  copy \in Copy
<1>1. reads[client] \in (SUBSET Copy) \union {None}
  OBVIOUS
<1> QED
  BY <1>1

\* What a step must do for the invariant to hold afterwards, if it reads no copy.
LEMMA StepKeepsInv ==
  ASSUME RepositoryInv,
         rows' \in Tables(OpenGroups'), groups' \in [Groups -> Group \union {None}],
         Grows(rows, rows'), Distinct(rows', moved'),
         recent' \subseteq Stored', moved' \subseteq Stored', writes' \in 0..MaxWrites,
         read' \in [Clients -> (SUBSET Copy) \union {None}],
         \A client \in Clients : read'[client] \in {read[client], None}
  PROVE  RepositoryInv'
<1>1. rows' \in [Connections -> Row \union {None}]
  BY DEF Tables, RowsIn
<1>2. \A id \in Stored' : rows'[id].group \in ExistingGroups' \union {None}
  BY DEF Tables, RowsIn, OpenGroups, Stored
<1>3. RepositoryTypeOK'
  BY <1>1, <1>2 DEF RepositoryInv, RepositoryTypeOK
<1>4. OrderIsDistinct'
  BY DEF OrderIsDistinct, Distinct, Live, Stored
<1>5. RevisionTellsStale'
  <2>1. SUFFICES ASSUME NEW client \in Clients, read'[client] # None, NEW copy \in read'[client]
                 PROVE  /\ rows'[copy.id] # None
                        /\ copy.row.revision <= rows'[copy.id].revision
                        /\ copy.row.revision = rows'[copy.id].revision => copy.row = rows'[copy.id]
    BY DEF RevisionTellsStale
  <2>2. read[client] = read'[client] /\ copy \in Copy
    <3>1. read'[client] \in {read[client], None}
      BY <2>1
    <3>2. copy \in Copy
      BY <2>1, CopyType
    <3> QED
      BY <2>1, <3>1, <3>2
  <2>3. copy.id \in Connections /\ copy.row \in Row /\ copy.row.revision \in Nat
    BY <2>2 DEF Copy, Row
  <2>4. /\ rows[copy.id] # None
        /\ copy.row.revision <= rows[copy.id].revision
        /\ copy.row.revision = rows[copy.id].revision => copy.row = rows[copy.id]
    BY <2>1, <2>2 DEF RepositoryInv, RevisionTellsStale
  <2>5. rows[copy.id].revision \in Nat
    BY <2>3, <2>4 DEF RepositoryInv, RepositoryTypeOK, Row
  <2>6. rows'[copy.id] # None => rows'[copy.id].revision \in Nat
    BY <1>1, <2>3 DEF Row
  <2>7. CASE rows'[copy.id] = rows[copy.id]
    BY <2>4, <2>7
  <2>8. CASE rows'[copy.id] # rows[copy.id]
    <3>1. rows'[copy.id] # None /\ rows[copy.id].revision < rows'[copy.id].revision
      BY <2>3, <2>4, <2>8 DEF Grows
    <3> QED
      BY <2>3, <2>4, <2>5, <2>6, <3>1
  <2> QED
    BY <2>7, <2>8
<1>6. CopiesDiffer'
  BY DEF RepositoryInv, CopiesDiffer
<1> QED
  BY <1>3, <1>4, <1>5, <1>6 DEF RepositoryInv

\* No row goes away.
LEMMA StoredStays ==
  ASSUME RepositoryTypeOK, Grows(rows, rows')
  PROVE  /\ Stored \subseteq Stored'
         /\ recent \subseteq Stored' /\ moved \subseteq Stored'
  BY DEF RepositoryTypeOK, Grows, Stored

LEMMA ReadKeepsInv ==
  ASSUME RepositoryInv, NEW client \in Clients, NEW ids \in SUBSET Live,
         read' = [read EXCEPT ![client] = Read(ids)],
         UNCHANGED <<rows, groups, recent, moved, writes>>
  PROVE  RepositoryInv'
<1>1. ASSUME NEW copy \in Read(ids)
      PROVE  /\ copy \in Copy /\ copy.id \in Connections /\ copy.row = rows[copy.id]
             /\ copy = [id |-> copy.id, row |-> copy.row]
             /\ rows[copy.id] # None /\ copy.row.live /\ copy.row.revision \in Nat
  BY DEF RepositoryInv, RepositoryTypeOK, Read, Live, Stored, Copy, Row
<1>2. Read(ids) \subseteq Copy
  BY <1>1
<1>3. /\ read \in [Clients -> (SUBSET Copy) \union {None}]
      /\ read'[client] = Read(ids) /\ \A other \in Clients : other # client => read'[other] = read[other]
  BY DEF RepositoryInv, RepositoryTypeOK
<1>4. RepositoryTypeOK'
  <2>1. read' \in [Clients -> (SUBSET Copy) \union {None}]
    BY <1>2, <1>3
  <2>2. ASSUME NEW other \in Clients, read'[other] # None, NEW copy \in read'[other]
        PROVE  copy.row.live
    BY <1>1, <1>3, <2>2 DEF RepositoryInv, RepositoryTypeOK
  <2>3. Stored' = Stored /\ ExistingGroups' = ExistingGroups
    BY DEF Stored, ExistingGroups
  <2> QED
    BY <2>1, <2>2, <2>3 DEF RepositoryInv, RepositoryTypeOK
<1>5. OrderIsDistinct'
  BY DEF RepositoryInv, OrderIsDistinct, Live, Stored
<1>6. RevisionTellsStale'
  <2>1. SUFFICES ASSUME NEW other \in Clients, read'[other] # None, NEW copy \in read'[other]
                 PROVE  /\ rows[copy.id] # None
                        /\ copy.row.revision <= rows[copy.id].revision
                        /\ copy.row.revision = rows[copy.id].revision => copy.row = rows[copy.id]
    BY DEF RevisionTellsStale
  <2>2. CASE other = client
    BY <1>1, <1>3, <2>1, <2>2
  <2>3. CASE other # client
    BY <1>3, <2>1, <2>3 DEF RepositoryInv, RevisionTellsStale
  <2> QED
    BY <2>2, <2>3
<1>7. CopiesDiffer'
  <2>1. SUFFICES ASSUME NEW other \in Clients, read'[other] # None,
                        NEW copy \in read'[other], NEW second \in read'[other], copy.id = second.id
                 PROVE  copy = second
    BY DEF CopiesDiffer
  <2>2. CASE other = client
    BY <1>1, <1>3, <2>1, <2>2
  <2>3. CASE other # client
    BY <1>3, <2>1, <2>3 DEF RepositoryInv, CopiesDiffer
  <2> QED
    BY <2>2, <2>3
<1> QED
  BY <1>4, <1>5, <1>6, <1>7 DEF RepositoryInv

\* Saving rows, from whatever the client has read.
LEMMA SaveKeepsInv ==
  ASSUME RepositoryInv, Write,
         rows' \in Tables(OpenGroups), Grows(rows, rows'), Distinct(rows', Kept(rows')),
         moved' = StillMoved, UNCHANGED <<groups, recent>>,
         NEW client \in Clients, read' \in {read, [read EXCEPT ![client] = None]}
  PROVE  RepositoryInv'
<1>1. OpenGroups' = OpenGroups
  BY DEF OpenGroups, ExistingGroups
<1>2. moved' = Kept(rows') /\ moved' \subseteq moved
  BY DEF StillMoved, Kept
<1>3. recent' \subseteq Stored' /\ moved' \subseteq Stored'
  BY <1>2, StoredStays DEF RepositoryInv
<1>4. /\ read' \in [Clients -> (SUBSET Copy) \union {None}]
      /\ \A other \in Clients : read'[other] \in {read[other], None}
  <2>1. read \in [Clients -> (SUBSET Copy) \union {None}]
    BY DEF RepositoryInv, RepositoryTypeOK
  <2>2. CASE read' = read
    BY <2>1, <2>2
  <2>3. CASE read' = [read EXCEPT ![client] = None]
    BY <2>1, <2>3
  <2> QED
    BY <2>2, <2>3
<1>5. writes' \in 0..MaxWrites /\ groups' \in [Groups -> Group \union {None}]
  BY RepositoryAssumption DEF RepositoryInv, RepositoryTypeOK, Write
<1> QED
  BY <1>1, <1>2, <1>3, <1>4, <1>5, StepKeepsInv

LEMMA StartDistinct ==
  ASSUME RepositoryInv
  PROVE  Distinct(rows, Kept(rows))
  BY OrderIsDistinctRows DEF RepositoryInv, Distinct, Kept, KeepsPlace

LEMMA OneRecordSaved ==
  ASSUME RepositoryInv, NEW record \in Records(OpenGroups)
  PROVE  LET saved == SaveRecord(rows, record)
         IN  saved \in Tables(OpenGroups) /\ Grows(rows, saved) /\ Distinct(saved, Kept(saved))
<1>1. rows \in Tables(OpenGroups) /\ OpenGroups \in SUBSET (Groups \union {None})
  BY TablesType DEF RepositoryInv
<1> QED
  BY <1>1, StartDistinct, SaveRecordFacts, SaveGrows, SaveKeepsDistinct

LEMMA FormRecordType ==
  ASSUME RepositoryInv, NEW id \in Connections, NEW edit \in Edits,
         NEW group \in Groups \union {None}, SaveForm(id, edit, group)
  PROVE  \E record \in Records(OpenGroups) : record.id = id /\ rows' = SaveRecord(rows, record)
<1> DEFINE config == [group |-> group, name |-> edit.name,
                      endpoint |-> edit.endpoint, credential |-> edit.credential]
           record == [id |-> id, config |-> config, settings |-> edit.settings]
<1>1. config.group \in OpenGroups /\ rows' = SaveRecord(rows, record)
  BY DEF SaveForm, ForeignKeysHold, OpenGroups
<1>2. record \in Records(OpenGroups)
  <2>1. edit.credential \in BOOLEAN /\ edit.settings \in BOOLEAN
    BY RepositoryAssumption
  <2>2. edit.name \in Names /\ edit.endpoint \in Endpoints
    BY DEF Names, Endpoints
  <2> QED
    BY <1>1, <2>1, <2>2 DEF Records
<1>3. record.id = id
  OBVIOUS
<1> HIDE DEF record, config
<1> QED
  BY <1>1, <1>2, <1>3

LEMMA SaveFormKeeps ==
  ASSUME RepositoryInv, NEW id \in Connections, NEW edit \in Edits,
         NEW group \in Groups \union {None}, SaveForm(id, edit, group)
  PROVE  rows' \in Tables(OpenGroups) /\ Grows(rows, rows') /\ Distinct(rows', Kept(rows'))
  BY FormRecordType, OneRecordSaved

LEMMA EditorSavesKeepsInv == RepositoryInv /\ EditorSaves => RepositoryInv'
<1> SUFFICES ASSUME RepositoryInv, EditorSaves PROVE RepositoryInv'
  OBVIOUS
<1>1. PICK copy \in read["editor"], edit \in Edits, group \in Groups \union {None} :
         SaveForm(copy.id, edit, group)
  BY DEF EditorSaves
<1>2. copy.id \in Connections
  <2>1. read["editor"] # None /\ "editor" \in Clients
    BY DEF EditorSaves, Clients
  <2>2. copy \in Copy
    BY <2>1, CopyType DEF RepositoryInv, RepositoryTypeOK
  <2> QED
    BY <2>2 DEF Copy
<1>3. rows' \in Tables(OpenGroups) /\ Grows(rows, rows') /\ Distinct(rows', Kept(rows'))
  BY <1>1, <1>2, SaveFormKeeps
<1> QED
  BY <1>3, SaveKeepsInv DEF EditorSaves, Clients

LEMMA EditorCreatesKeepsInv == RepositoryInv /\ EditorCreates => RepositoryInv'
<1> SUFFICES ASSUME RepositoryInv, EditorCreates PROVE RepositoryInv'
  OBVIOUS
<1>1. PICK id \in Connections, edit \in Edits, group \in Groups \union {None} :
         SaveForm(id, edit, group)
  BY DEF EditorCreates
<1>2. rows' \in Tables(OpenGroups) /\ Grows(rows, rows') /\ Distinct(rows', Kept(rows'))
  BY <1>1, SaveFormKeeps
<1> QED
  BY <1>2, SaveKeepsInv DEF EditorCreates, Clients

\* Configurations with one or two fields replaced, named for the provers.
WithCredential(config, credential) == [config EXCEPT !.credential = credential]
WithName(config, name) == [config EXCEPT !.name = name]
WithEndpoint(config, endpoint) == [config EXCEPT !.endpoint = endpoint]
Renamed(config, name, endpoint) == [config EXCEPT !.name = name, !.endpoint = endpoint]

LEMMA ConfigExcept ==
  ASSUME NEW config, NEW g, NEW n, NEW e, NEW c,
         config = [group |-> g, name |-> n, endpoint |-> e, credential |-> c],
         NEW name, NEW endpoint, NEW credential
  PROVE  /\ WithCredential(config, credential)
               = [group |-> g, name |-> n, endpoint |-> e, credential |-> credential]
         /\ Renamed(config, name, endpoint)
               = [group |-> g, name |-> name, endpoint |-> endpoint, credential |-> c]
<1>1. WithCredential(config, credential)
               = [group |-> g, name |-> n, endpoint |-> e, credential |-> credential]
  BY DEF WithCredential
<1>2. Renamed(config, name, endpoint)
               = [group |-> g, name |-> name, endpoint |-> endpoint, credential |-> c]
  <2> DEFINE named == WithName(config, name)
  <2>1. Renamed(config, name, endpoint) = WithEndpoint(named, endpoint)
    BY DEF Renamed, WithName, WithEndpoint
  <2>2. named = [group |-> g, name |-> name, endpoint |-> e, credential |-> c]
    BY DEF WithName
  <2> HIDE DEF named
  <2>3. WithEndpoint(named, endpoint)
          = [group |-> g, name |-> name, endpoint |-> endpoint, credential |-> c]
    BY <2>2 DEF WithEndpoint
  <2> QED
    BY <2>1, <2>3
<1> QED
  BY <1>1, <1>2

SaverConfig(copy) == WithCredential(ConfigOf(copy.row), TRUE)
SaverRecord(copy) ==
  [id |-> copy.id, config |-> SaverConfig(copy), settings |-> copy.row.settings]

LEMMA SaverConfigFields ==
  ASSUME NEW copy
  PROVE  SaverConfig(copy) = [group |-> copy.row.group, name |-> copy.row.name,
                              endpoint |-> copy.row.endpoint, credential |-> TRUE]
<1>1. ConfigOf(copy.row) = [group |-> copy.row.group, name |-> copy.row.name,
                            endpoint |-> copy.row.endpoint, credential |-> copy.row.credential]
  BY DEF ConfigOf
<1> DEFINE known == TRUE
<1> HIDE DEF known
<1>2. WithCredential(ConfigOf(copy.row), known)
        = [group |-> copy.row.group, name |-> copy.row.name,
           endpoint |-> copy.row.endpoint, credential |-> known]
  BY <1>1, ConfigExcept
<1> QED
  BY <1>2 DEF SaverConfig, known

LEMMA SaverRecordType ==
  ASSUME NEW copy \in Copy, ForeignKeysHold({SaverConfig(copy)})
  PROVE  SaverRecord(copy) \in Records(OpenGroups)
<1>1. /\ copy.id \in Connections /\ copy.row.settings \in BOOLEAN
      /\ copy.row.name \in Names /\ copy.row.endpoint \in Endpoints
  BY DEF Copy, Row, Names, Endpoints
<1>2. copy.row.group \in OpenGroups
  BY SaverConfigFields DEF ForeignKeysHold, OpenGroups
<1> QED
  BY <1>1, <1>2, SaverConfigFields DEF SaverRecord, Records

LEMMA SaverWritesKeepsInv == RepositoryInv /\ SaverWrites => RepositoryInv'
<1> SUFFICES ASSUME RepositoryInv, SaverWrites PROVE RepositoryInv'
  OBVIOUS
<1>1. PICK copy \in read["saver"] :
         /\ ForeignKeysHold({SaverConfig(copy)})
         /\ rows' = SaveRecord(rows, SaverRecord(copy))
  BY DEF SaverWrites, SaverRecord, SaverConfig, WithCredential
<1>2. copy \in Copy
  <2>1. read["saver"] # None /\ "saver" \in Clients
    BY DEF SaverWrites, Clients
  <2> QED
    BY <2>1, CopyType DEF RepositoryInv, RepositoryTypeOK
<1>3. rows' \in Tables(OpenGroups) /\ Grows(rows, rows') /\ Distinct(rows', Kept(rows'))
  BY <1>1, <1>2, SaverRecordType, OneRecordSaved
<1> QED
  BY <1>3, SaveKeepsInv DEF SaverWrites, Clients

LEMMA ImportedConfigFields ==
  ASSUME NEW i, NEW id
  PROVE  LET known == {copy \in read["import"] : copy.id = id}
             row == (CHOOSE copy \in known : TRUE).row
             item == ImportItems[i]
         IN  ImportedConfig(i, id) =
               IF known # {}
               THEN [group |-> row.group, name |-> item.alias,
                     endpoint |-> item.endpoint, credential |-> row.credential]
               ELSE [group |-> None, name |-> item.alias,
                     endpoint |-> item.endpoint, credential |-> FALSE]
<1> DEFINE known == {copy \in read["import"] : copy.id = id}
           row == (CHOOSE copy \in known : TRUE).row
           item == ImportItems[i]
<1>1. ImportedConfig(i, id) =
        IF known # {} THEN Renamed(ConfigOf(row), item.alias, item.endpoint)
        ELSE [group |-> None, name |-> item.alias, endpoint |-> item.endpoint,
              credential |-> FALSE]
  BY DEF ImportedConfig, Renamed
<1> HIDE DEF known, row, item
<1>2. Renamed(ConfigOf(row), item.alias, item.endpoint)
        = [group |-> row.group, name |-> item.alias,
           endpoint |-> item.endpoint, credential |-> row.credential]
  BY ConfigExcept DEF ConfigOf
<1> QED
  BY <1>1, <1>2 DEF known, row, item

LEMMA ImportRecordType ==
  ASSUME RepositoryTypeOK, read["import"] # None,
         NEW i \in DOMAIN ImportItems, NEW id \in Connections,
         ForeignKeysHold({ImportedConfig(i, id)})
  PROVE  ImportRecord(i, id) \in Records(OpenGroups)
<1> DEFINE known == {copy \in read["import"] : copy.id = id}
           row == (CHOOSE copy \in known : TRUE).row
           config == ImportedConfig(i, id)
<1>1. ImportItems[i].alias \in Names /\ ImportItems[i].endpoint \in Endpoints
  BY DEF Names, Endpoints
<1>2. config.group \in OpenGroups
  BY DEF ForeignKeysHold, OpenGroups
<1>3. known # {} => row.credential \in BOOLEAN
  <2>1. "import" \in Clients
    BY DEF Clients
  <2>2. \A copy \in known : copy \in Copy
    BY <2>1, CopyType DEF RepositoryTypeOK
  <2>3. \A copy \in known : copy.row.credential \in BOOLEAN
    BY <2>2 DEF Copy, Row
  <2> QED
    BY <2>3
<1>4. config = IF known # {}
               THEN [group |-> row.group, name |-> ImportItems[i].alias,
                     endpoint |-> ImportItems[i].endpoint, credential |-> row.credential]
               ELSE [group |-> None, name |-> ImportItems[i].alias,
                     endpoint |-> ImportItems[i].endpoint, credential |-> FALSE]
  BY ImportedConfigFields
<1> HIDE DEF known, row, config
<1>5. config \in [group : OpenGroups, name : Names, endpoint : Endpoints, credential : BOOLEAN]
  BY <1>1, <1>2, <1>3, <1>4
<1> QED
  BY <1>5 DEF ImportRecord, Records, config

LEMMA ImportKeeps ==
  ASSUME RepositoryInv, read["import"] # None,
         NEW target, \A i \in DOMAIN target : i \in DOMAIN ImportItems /\ target[i] \in Connections,
         ForeignKeysHold({ImportedConfig(i, target[i]) : i \in DOMAIN target}),
         rows' = Imported(target)
  PROVE  /\ \A i \in DOMAIN target : ImportRecord(i, target[i]) \in Records(OpenGroups)
         /\ rows' \in Tables(OpenGroups) /\ Grows(rows, rows') /\ Distinct(rows', Kept(rows'))
<1>1. rows \in Tables(OpenGroups) /\ OpenGroups \in SUBSET (Groups \union {None})
  BY TablesType DEF RepositoryInv
<1>2. ASSUME NEW i \in DOMAIN target
      PROVE  ImportRecord(i, target[i]) \in Records(OpenGroups)
  <2>1. ForeignKeysHold({ImportedConfig(i, target[i])})
    BY DEF ForeignKeysHold
  <2> QED
    BY <2>1, ImportRecordType DEF RepositoryInv
<1> DEFINE S == {table \in Tables(OpenGroups) : Grows(rows, table) /\ Distinct(table, Kept(table))}
<1>3. rows \in S
  BY <1>1, StartDistinct DEF Grows
<1>4. ASSUME NEW table \in S, NEW i \in DOMAIN target
      PROVE  SaveRecord(table, ImportRecord(i, target[i])) \in S
  <2> DEFINE record == ImportRecord(i, target[i])
             saved == SaveRecord(table, record)
  <2>1. table \in Tables(OpenGroups) /\ Grows(rows, table) /\ Distinct(table, Kept(table))
    OBVIOUS
  <2>2. record \in Records(OpenGroups)
    BY <1>2
  <2> HIDE DEF record
  <2>3. saved \in Tables(OpenGroups) /\ Grows(table, saved) /\ Distinct(saved, Kept(saved))
    BY <1>1, <2>1, <2>2, SaveRecordFacts, SaveGrows, SaveKeepsDistinct
  <2> HIDE DEF saved
  <2>4. Grows(rows, saved)
    BY <1>1, <2>1, <2>3, GrowsTransitive
  <2> QED
    BY <2>3, <2>4 DEF saved, record
<1> HIDE DEF S
<1>5. S \in SUBSET Tables(OpenGroups)
  BY DEF S
<1>6. Imported(target) \in S
  BY <1>1, <1>2, <1>3, <1>4, <1>5, ImportPreserves
<1> QED
  BY <1>2, <1>6 DEF S

LEMMA ImportTargets ==
  ASSUME NEW chosen \in SUBSET DOMAIN ImportItems, NEW strategy,
         NEW target \in Targets(chosen, strategy)
  PROVE  \A i \in DOMAIN target : i \in DOMAIN ImportItems /\ target[i] \in Connections
  BY DEF Targets

LEMMA ImportWritesKeepsInv == RepositoryInv /\ ImportWrites => RepositoryInv'
<1> SUFFICES ASSUME RepositoryInv, ImportWrites PROVE RepositoryInv'
  OBVIOUS
<1>1. PICK chosen \in SUBSET DOMAIN ImportItems, strategy \in {"skip", "overwrite"} :
         \E target \in Targets(chosen, strategy) :
            /\ ForeignKeysHold({ImportedConfig(i, target[i]) : i \in DOMAIN target})
            /\ rows' = Imported(target)
  BY DEF ImportWrites
<1>2. PICK target \in Targets(chosen, strategy) :
         /\ ForeignKeysHold({ImportedConfig(i, target[i]) : i \in DOMAIN target})
         /\ rows' = Imported(target)
  BY <1>1
<1>3. read["import"] # None /\ \A i \in DOMAIN target : i \in DOMAIN ImportItems /\ target[i] \in Connections
  BY ImportTargets DEF ImportWrites
<1>4. rows' \in Tables(OpenGroups) /\ Grows(rows, rows') /\ Distinct(rows', Kept(rows'))
  BY <1>2, <1>3, ImportKeeps
<1> QED
  BY <1>4, SaveKeepsInv DEF ImportWrites, Clients

LEMMA ReadsKeepInv == RepositoryInv /\ (EditorOpens \/ SaverReads \/ ImportReads) => RepositoryInv'
<1> SUFFICES ASSUME RepositoryInv PROVE EditorOpens \/ SaverReads \/ ImportReads => RepositoryInv'
  OBVIOUS
<1>1. ASSUME EditorOpens PROVE RepositoryInv'
  <2>1. PICK id \in Live : read' = [read EXCEPT !["editor"] = Read({id})]
    BY <1>1 DEF EditorOpens
  <2>2. {id} \in SUBSET Live /\ "editor" \in Clients
    BY DEF Clients
  <2> QED
    BY <1>1, <2>1, <2>2, ReadKeepsInv DEF EditorOpens
<1>2. ASSUME SaverReads PROVE RepositoryInv'
  <2>1. PICK id \in Live : read' = [read EXCEPT !["saver"] = Read({id})]
    BY <1>2 DEF SaverReads
  <2>2. {id} \in SUBSET Live /\ "saver" \in Clients
    BY DEF Clients
  <2> QED
    BY <1>2, <2>1, <2>2, ReadKeepsInv DEF SaverReads
<1>3. ASSUME ImportReads PROVE RepositoryInv'
  <2>1. Live \in SUBSET Live /\ "import" \in Clients
    BY DEF Clients
  <2> QED
    BY <1>3, <2>1, ReadKeepsInv DEF ImportReads
<1> QED
  BY <1>1, <1>2, <1>3

\* A step that changes no row, and no client's copy but for giving it up.
LEMMA SameRowsKeepInv ==
  ASSUME RepositoryInv, UNCHANGED <<rows, moved>>,
         groups' \in [Groups -> Group \union {None}], ExistingGroups \subseteq ExistingGroups',
         recent' \subseteq Stored, writes' \in 0..MaxWrites,
         NEW client \in Clients, read' \in {read, [read EXCEPT ![client] = None]}
  PROVE  RepositoryInv'
<1>1. rows' \in Tables(OpenGroups')
  <2>1. rows \in Tables(OpenGroups)
    BY TablesType DEF RepositoryInv
  <2>2. RowsIn(OpenGroups) \subseteq RowsIn(OpenGroups')
    BY DEF RowsIn, OpenGroups
  <2> QED
    BY <2>1, <2>2 DEF Tables
<1>2. Grows(rows, rows') /\ Distinct(rows', moved')
  BY OrderIsDistinctRows DEF Grows, RepositoryInv
<1>3. recent' \subseteq Stored' /\ moved' \subseteq Stored'
  BY DEF RepositoryInv, RepositoryTypeOK, Stored
<1>4. /\ read' \in [Clients -> (SUBSET Copy) \union {None}]
      /\ \A other \in Clients : read'[other] \in {read[other], None}
  <2>1. read \in [Clients -> (SUBSET Copy) \union {None}]
    BY DEF RepositoryInv, RepositoryTypeOK
  <2>2. CASE read' = read
    BY <2>1, <2>2
  <2>3. CASE read' = [read EXCEPT ![client] = None]
    BY <2>1, <2>3
  <2> QED
    BY <2>2, <2>3
<1> QED
  BY <1>1, <1>2, <1>3, <1>4, StepKeepsInv

LEMMA WriteType ==
  ASSUME RepositoryTypeOK, Write
  PROVE  writes' \in 0..MaxWrites
  BY RepositoryAssumption DEF RepositoryTypeOK, Write

LEMMA GiveUpKeepsInv == RepositoryInv /\ GiveUp => RepositoryInv'
<1> SUFFICES ASSUME RepositoryInv, GiveUp PROVE RepositoryInv'
  OBVIOUS
<1>1. PICK client \in Clients : read' = [read EXCEPT ![client] = None]
  BY DEF GiveUp
<1>2. /\ groups' \in [Groups -> Group \union {None}] /\ ExistingGroups \subseteq ExistingGroups'
      /\ recent' \subseteq Stored /\ writes' \in 0..MaxWrites
  BY DEF GiveUp, RepositoryInv, RepositoryTypeOK, ExistingGroups
<1> QED
  BY <1>1, <1>2, SameRowsKeepInv DEF GiveUp

LEMMA GroupsKeepInv ==
  RepositoryInv /\ (RecordSuccessfulConnection \/ SaveGroup \/ SetGroupCollapsed \/ ReorderGroups)
    => RepositoryInv'
<1> SUFFICES ASSUME RepositoryInv,
                    RecordSuccessfulConnection \/ SaveGroup \/ SetGroupCollapsed \/ ReorderGroups
             PROVE  RepositoryInv'
  OBVIOUS
<1>1. /\ groups \in [Groups -> Group \union {None}] /\ recent \subseteq Stored
      /\ RepositoryTypeOK /\ "editor" \in Clients
  BY DEF RepositoryInv, RepositoryTypeOK, Clients
<1>2. UNCHANGED <<rows, moved, read>> /\ writes' \in 0..MaxWrites
  BY <1>1, WriteType DEF RecordSuccessfulConnection, SaveGroup, SetGroupCollapsed, ReorderGroups
<1>3. CASE RecordSuccessfulConnection
  <2>1. recent' \subseteq Stored /\ groups' = groups
    BY <1>1, <1>3 DEF RecordSuccessfulConnection, Live
  <2> QED
    BY <1>1, <1>2, <2>1, SameRowsKeepInv DEF ExistingGroups
<1>4. CASE SaveGroup
  <2>1. PICK g \in Groups, order \in 0..Cardinality(Groups), collapsed \in BOOLEAN :
           groups' = [groups EXCEPT ![g] = [order |-> order, collapsed |-> collapsed]]
    BY <1>4 DEF SaveGroup
  <2> DEFINE new == [order |-> order, collapsed |-> collapsed]
  <2>2. new \in Group
    <3>1. order \in Nat
      BY RepositoryAssumption, FS_CardinalityType
    <3> QED
      BY <3>1 DEF Group
  <2>3. groups' = [groups EXCEPT ![g] = new]
    BY <2>1
  <2> HIDE DEF new
  <2>4. new # None
    BY <2>2, NoRowAssumption
  <2>5. /\ groups' \in [Groups -> Group \union {None}] /\ ExistingGroups \subseteq ExistingGroups'
    BY <1>1, <2>2, <2>3, <2>4 DEF ExistingGroups
  <2>6. recent' = recent
    BY <1>4 DEF SaveGroup
  <2> QED
    BY <1>1, <1>2, <2>5, <2>6, SameRowsKeepInv
<1>5. CASE SetGroupCollapsed
  <2>1. PICK g \in ExistingGroups, collapsed \in BOOLEAN :
           groups' = [groups EXCEPT ![g].collapsed = collapsed]
    BY <1>5 DEF SetGroupCollapsed
  <2> DEFINE new == [groups[g] EXCEPT !.collapsed = collapsed]
  <2>2. g \in Groups /\ groups[g] \in Group
    BY <1>1 DEF ExistingGroups
  <2>3. new \in Group
    BY <2>2 DEF Group
  <2>4. groups' = [groups EXCEPT ![g] = new]
    BY <2>1
  <2> HIDE DEF new
  <2>5. new # None
    BY <2>3, NoRowAssumption
  <2>6. /\ groups' \in [Groups -> Group \union {None}] /\ ExistingGroups \subseteq ExistingGroups'
    BY <1>1, <2>2, <2>3, <2>4, <2>5 DEF ExistingGroups
  <2>7. recent' = recent
    BY <1>5 DEF SetGroupCollapsed
  <2> QED
    BY <1>1, <1>2, <2>6, <2>7, SameRowsKeepInv
<1>6. CASE ReorderGroups
  <2>1. PICK place \in [ExistingGroups -> 0..(Cardinality(ExistingGroups) - 1)] :
           groups' = [g \in Groups |-> IF g \in ExistingGroups
                                      THEN [groups[g] EXCEPT !.order = place[g]] ELSE None]
    BY <1>6 DEF ReorderGroups
  <2>2. Cardinality(ExistingGroups) \in Nat
    BY RepositoryAssumption, FS_Subset, FS_CardinalityType DEF ExistingGroups
  <2>3. ASSUME NEW g \in ExistingGroups
        PROVE  g \in Groups /\ groups'[g] \in Group
    <3>1. place[g] \in Nat
      BY <2>2
    <3>2. g \in Groups /\ groups[g] \in Group
      BY <1>1 DEF ExistingGroups
    <3>3. [groups[g] EXCEPT !.order = place[g]] \in Group
      BY <3>1, <3>2 DEF Group
    <3> QED
      BY <2>1, <3>2, <3>3
  <2>4. \A g \in Groups \ ExistingGroups : groups'[g] = None
    BY <2>1
  <2>5. groups' \in [Groups -> Group \union {None}] /\ ExistingGroups \subseteq ExistingGroups'
    <3>1. groups' = [g \in Groups |-> groups'[g]]
      BY <2>1
    <3>2. \A g \in Groups : groups'[g] \in Group \union {None}
      BY <2>3, <2>4
    <3>3. \A g \in ExistingGroups : groups'[g] # None
      BY <2>3, NoRowAssumption
    <3> QED
      BY <2>3, <3>1, <3>2, <3>3 DEF ExistingGroups
  <2>6. recent' = recent
    BY <1>6 DEF ReorderGroups
  <2> QED
    BY <1>1, <1>2, <2>5, <2>6, SameRowsKeepInv
<1> QED
  BY <1>3, <1>4, <1>5, <1>6

\* A step that changes stored rows, each with its revision.
Revised(old, new) == new \in Row /\ new.revision = old.revision + 1

LEMMA RowsKeepInv ==
  ASSUME RepositoryInv, Write, UNCHANGED <<recent, read>>,
         groups' \in [Groups -> Group \union {None}], rows' = [id \in Connections |-> rows'[id]],
         \A id \in Connections : rows'[id] = rows[id] \/ (id \in Stored /\ Revised(rows[id], rows'[id])),
         \A id \in Stored : rows'[id].group \in OpenGroups',
         Distinct(rows', moved'), moved' \subseteq Stored
  PROVE  RepositoryInv'
<1>1. /\ rows \in [Connections -> Row \union {None}] /\ recent \subseteq Stored
      /\ read \in [Clients -> (SUBSET Copy) \union {None}] /\ RepositoryTypeOK
  BY DEF RepositoryInv, RepositoryTypeOK
<1>2. ASSUME NEW id \in Connections
      PROVE  rows'[id] \in RowsIn(OpenGroups') \union {None}
  <2>1. CASE id \in Stored
    BY <1>1, <2>1 DEF Revised, RowsIn
  <2>2. CASE id \notin Stored
    BY <2>2 DEF Stored
  <2> QED
    BY <2>1, <2>2
<1>3. rows' \in Tables(OpenGroups')
  BY <1>2 DEF Tables
<1>4. ASSUME NEW id \in Connections, id \in Stored, Revised(rows[id], rows'[id])
      PROVE  rows'[id] # None /\ rows[id].revision < rows'[id].revision
  <2>1. rows[id].revision \in Nat
    BY <1>1, <1>4 DEF Stored, Row
  <2> QED
    BY <1>4, <2>1, NoRowAssumption DEF Revised
<1>5. Grows(rows, rows')
  BY <1>4 DEF Grows
<1>6. recent' \subseteq Stored' /\ moved' \subseteq Stored'
  BY <1>1, <1>5, StoredStays
<1>7. /\ read' \in [Clients -> (SUBSET Copy) \union {None}]
      /\ \A client \in Clients : read'[client] \in {read[client], None}
  BY <1>1
<1>8. writes' \in 0..MaxWrites
  BY <1>1, WriteType
<1> QED
  BY <1>3, <1>5, <1>6, <1>7, <1>8, StepKeepsInv

LEMMA DeleteConnectionKeepsInv == RepositoryInv /\ DeleteConnection => RepositoryInv'
<1> SUFFICES ASSUME RepositoryInv, DeleteConnection PROVE RepositoryInv'
  OBVIOUS
<1>1. /\ rows \in [Connections -> Row \union {None}] /\ moved \subseteq Stored
      /\ groups \in [Groups -> Group \union {None}]
      /\ \A id \in Stored : rows[id].group \in OpenGroups
  BY DEF RepositoryInv, RepositoryTypeOK, OpenGroups
<1>2. PICK id \in Live : rows' = [rows EXCEPT ![id].live = FALSE, ![id].revision = @ + 1]
  BY DEF DeleteConnection
<1>3. id \in Connections /\ id \in Stored /\ rows[id] \in Row
  BY <1>1 DEF Live, Stored
<1>4. /\ \A other \in Connections : other # id => rows'[other] = rows[other]
      /\ rows'[id] \in Row /\ rows'[id].group = rows[id].group /\ ~rows'[id].live
      /\ rows'[id].revision = rows[id].revision + 1
      /\ rows' = [other \in Connections |-> rows'[other]]
  BY <1>1, <1>2, <1>3 DEF Row
<1>5. Distinct(rows, moved)
  BY OrderIsDistinctRows DEF RepositoryInv
<1>6. Distinct(rows', moved)
  BY <1>4, <1>5 DEF Distinct
<1>7. OpenGroups' = OpenGroups
  BY DEF DeleteConnection, OpenGroups, ExistingGroups
<1>8. \A other \in Stored : rows'[other].group \in OpenGroups'
  BY <1>1, <1>4, <1>7 DEF Stored
<1>9. \A other \in Connections :
         rows'[other] = rows[other] \/ (other \in Stored /\ Revised(rows[other], rows'[other]))
  BY <1>3, <1>4 DEF Revised
<1> QED
  BY <1>1, <1>4, <1>6, <1>8, <1>9, RowsKeepInv DEF DeleteConnection

LEMMA SetConnectionFavoriteKeepsInv == RepositoryInv /\ SetConnectionFavorite => RepositoryInv'
<1> SUFFICES ASSUME RepositoryInv, SetConnectionFavorite PROVE RepositoryInv'
  OBVIOUS
<1>1. /\ rows \in [Connections -> Row \union {None}] /\ moved \subseteq Stored
      /\ groups \in [Groups -> Group \union {None}]
      /\ \A id \in Stored : rows[id].group \in OpenGroups
  BY DEF RepositoryInv, RepositoryTypeOK, OpenGroups
<1>2. PICK id \in Live, favorite \in BOOLEAN :
         rows' = [rows EXCEPT ![id].favorite = favorite, ![id].revision = @ + 1]
  BY DEF SetConnectionFavorite
<1>3. id \in Connections /\ id \in Stored /\ rows[id] \in Row
  BY <1>1 DEF Live, Stored
<1>4. /\ \A other \in Connections : other # id => rows'[other] = rows[other]
      /\ rows'[id] \in Row /\ rows'[id].group = rows[id].group
      /\ rows'[id].live = rows[id].live /\ rows'[id].order = rows[id].order
      /\ rows'[id].revision = rows[id].revision + 1
      /\ rows' = [other \in Connections |-> rows'[other]]
  BY <1>1, <1>2, <1>3 DEF Row
<1>5. Distinct(rows, moved) /\ rows[id] # None
  BY <1>3, OrderIsDistinctRows DEF RepositoryInv, Stored
<1>6. \A other \in Connections :
         /\ rows'[other] # None => rows[other] # None
         /\ rows[other] # None => /\ rows'[other].group = rows[other].group
                                  /\ rows'[other].live = rows[other].live
                                  /\ rows'[other].order = rows[other].order
  BY <1>4, <1>5
<1>7. Distinct(rows', moved)
  BY <1>5, <1>6 DEF Distinct
<1>8. OpenGroups' = OpenGroups
  BY DEF SetConnectionFavorite, OpenGroups, ExistingGroups
<1>9. \A other \in Stored : rows'[other].group \in OpenGroups'
  BY <1>1, <1>4, <1>8 DEF Stored
<1>10. \A other \in Connections :
          rows'[other] = rows[other] \/ (other \in Stored /\ Revised(rows[other], rows'[other]))
  BY <1>3, <1>4 DEF Revised
<1> QED
  BY <1>1, <1>4, <1>7, <1>9, <1>10, RowsKeepInv DEF SetConnectionFavorite

\* The two ways in which rows are changed in bulk, named for the provers.
Placed(row, order) == [row EXCEPT !.order = order, !.revision = @ + 1]
Ungrouped(row) == [row EXCEPT !.group = None, !.revision = @ + 1]

WithOrder(row, order) == [row EXCEPT !.order = order]
WithGroup(row, group) == [row EXCEPT !.group = group]
Revise(row) == [row EXCEPT !.revision = @ + 1]

LEMMA ReviseFacts ==
  ASSUME NEW row \in Row
  PROVE  /\ Revise(row) \in Row /\ Revise(row).revision = row.revision + 1
         /\ Revise(row).order = row.order /\ Revise(row).group = row.group
         /\ Revise(row).live = row.live
  BY DEF Revise, Row

LEMMA PlacedFacts ==
  ASSUME NEW row \in Row, NEW order \in Nat
  PROVE  /\ Placed(row, order) \in Row
         /\ Placed(row, order).order = order
         /\ Placed(row, order).revision = row.revision + 1
         /\ Placed(row, order).group = row.group
<1> DEFINE placed == WithOrder(row, order)
<1>1. placed \in Row /\ placed.order = order /\ placed.group = row.group
      /\ placed.revision = row.revision
  BY DEF WithOrder, Row
<1>2. Placed(row, order) = Revise(placed)
  BY DEF Placed, Revise, WithOrder
<1> HIDE DEF placed
<1> QED
  BY <1>1, <1>2, ReviseFacts

LEMMA UngroupedFacts ==
  ASSUME NEW row \in Row
  PROVE  /\ Ungrouped(row) \in Row
         /\ Ungrouped(row).group = None
         /\ Ungrouped(row).revision = row.revision + 1
         /\ Ungrouped(row).live = row.live
<1> DEFINE loose == WithGroup(row, None)
<1>1. loose \in Row /\ loose.group = None /\ loose.live = row.live
      /\ loose.revision = row.revision
  BY DEF WithGroup, Row
<1>2. Ungrouped(row) = Revise(loose)
  BY DEF Ungrouped, Revise, WithGroup
<1> HIDE DEF loose
<1> QED
  BY <1>1, <1>2, ReviseFacts

LEMMA ReorderConnectionsKeepsInv == RepositoryInv /\ ReorderConnections => RepositoryInv'
<1> SUFFICES ASSUME RepositoryInv, ReorderConnections PROVE RepositoryInv'
  OBVIOUS
<1>1. /\ rows \in [Connections -> Row \union {None}] /\ moved \subseteq Stored
      /\ groups \in [Groups -> Group \union {None}]
      /\ \A id \in Stored : rows[id].group \in OpenGroups
  BY DEF RepositoryInv, RepositoryTypeOK, OpenGroups
<1>2. PICK group \in Groups \union {None} :
         LET members == Members(rows, group)
         IN  /\ \E place \in [members -> 0..(Cardinality(members) - 1)] :
                   /\ \A id, other \in members : place[id] = place[other] => id = other
                   /\ rows' = [id \in Connections |->
                                 IF id \in members
                                 THEN [rows[id] EXCEPT !.order = place[id],
                                                       !.revision = @ + 1]
                                 ELSE rows[id]]
             /\ moved' = moved \ members
  BY DEF ReorderConnections
<1> DEFINE members == Members(rows, group)
<1>3. PICK place \in [members -> 0..(Cardinality(members) - 1)] :
         /\ \A id, other \in members : place[id] = place[other] => id = other
         /\ rows' = [id \in Connections |->
                       IF id \in members
                       THEN [rows[id] EXCEPT !.order = place[id], !.revision = @ + 1]
                       ELSE rows[id]]
  BY <1>2
<1>4. moved' = moved \ members
  BY <1>2
<1>5. Cardinality(members) \in Nat
  BY RepositoryAssumption, FS_Subset, FS_CardinalityType DEF Members
<1>6. \A id \in Connections :
         id \in members <=> rows[id] # None /\ rows[id].live /\ rows[id].group = group
  BY DEF Members
<1>7. members \subseteq Connections
  BY DEF Members
<1> HIDE DEF members
<1>8. ASSUME NEW id \in members
      PROVE  /\ rows'[id] \in Row /\ rows'[id].group = group /\ rows'[id].order = place[id]
             /\ rows'[id].revision = rows[id].revision + 1 /\ id \in Connections /\ rows[id] # None
  <2>1. rows[id] \in Row /\ id \in Connections /\ rows[id].group = group /\ rows[id] # None
    BY <1>1, <1>6, <1>7
  <2>2. place[id] \in Nat
    BY <1>5
  <2>3. rows'[id] = Placed(rows[id], place[id])
    BY <1>3, <2>1 DEF Placed
  <2> DEFINE row == rows[id]
             order == place[id]
  <2> HIDE DEF row, order
  <2>4. row \in Row /\ order \in Nat
    BY <2>1, <2>2 DEF row, order
  <2>5. /\ Placed(row, order) \in Row
        /\ Placed(row, order).order = order
        /\ Placed(row, order).revision = row.revision + 1
        /\ Placed(row, order).group = row.group
    BY <2>4, PlacedFacts
  <2>6. rows'[id] = Placed(row, order)
    BY <2>3 DEF row, order
  <2> QED
    BY <2>1, <2>5, <2>6 DEF row, order
<1>9. \A id \in Connections \ members : rows'[id] = rows[id]
  BY <1>3
<1>10. Distinct(rows', moved')
  <2>1. SUFFICES ASSUME NEW id \in Connections, NEW other \in Connections, id # other,
                        rows'[id] # None, rows'[id].live, rows'[other] # None, rows'[other].live,
                        rows'[id].group = rows'[other].group, rows'[id].order = rows'[other].order
                 PROVE  id \in moved' \/ other \in moved'
    BY DEF Distinct
  <2>2. CASE id \in members /\ other \in members
    <3>1. place[id] = place[other]
      BY <1>8, <2>1, <2>2
    <3>2. id = other
      BY <1>3, <2>2, <3>1
    <3> QED
      BY <2>1, <3>2
  <2>3. CASE id \in members /\ other \notin members
    <3>1. rows'[other] = rows[other] /\ rows'[id].group = group
      BY <1>8, <1>9, <2>3
    <3> QED
      BY <1>6, <2>1, <2>3, <3>1
  <2>4. CASE id \notin members /\ other \in members
    <3>1. rows'[id] = rows[id] /\ rows'[other].group = group
      BY <1>8, <1>9, <2>4
    <3> QED
      BY <1>6, <2>1, <2>4, <3>1
  <2>5. CASE id \notin members /\ other \notin members
    <3>1. Distinct(rows, moved) /\ rows'[id] = rows[id] /\ rows'[other] = rows[other]
      BY <1>9, <2>5, OrderIsDistinctRows DEF RepositoryInv
    <3> QED
      BY <1>4, <2>1, <2>5, <3>1 DEF Distinct
  <2> QED
    BY <2>2, <2>3, <2>4, <2>5
<1>11. OpenGroups' = OpenGroups
  BY DEF ReorderConnections, OpenGroups, ExistingGroups
<1>12. \A id \in Stored : rows'[id].group \in OpenGroups'
  BY <1>1, <1>6, <1>8, <1>9, <1>11 DEF Stored
<1>13. \A id \in Connections :
          rows'[id] = rows[id] \/ (id \in Stored /\ Revised(rows[id], rows'[id]))
  BY <1>8, <1>9 DEF Revised, Stored
<1>14. rows' = [id \in Connections |-> rows'[id]]
  BY <1>3
<1> QED
  BY <1>1, <1>4, <1>10, <1>12, <1>13, <1>14, RowsKeepInv DEF ReorderConnections

LEMMA DeleteGroupKeepsInv == RepositoryInv /\ DeleteGroup => RepositoryInv'
<1> SUFFICES ASSUME RepositoryInv, DeleteGroup PROVE RepositoryInv'
  OBVIOUS
<1>1. /\ rows \in [Connections -> Row \union {None}] /\ moved \subseteq Stored
      /\ groups \in [Groups -> Group \union {None}]
      /\ \A id \in Stored : rows[id].group \in OpenGroups
  BY DEF RepositoryInv, RepositoryTypeOK, OpenGroups
<1>2. PICK g \in ExistingGroups :
         LET members == {id \in Stored : rows[id].group = g}
         IN  /\ rows' = [id \in Connections |->
                           IF id \in members
                           THEN [rows[id] EXCEPT !.group = None, !.revision = @ + 1]
                           ELSE rows[id]]
             /\ groups' = [groups EXCEPT ![g] = None]
             /\ moved' = moved \union Members(rows, g)
  BY DEF DeleteGroup
<1> DEFINE members == {id \in Stored : rows[id].group = g}
<1>3. /\ rows' = [id \in Connections |->
                    IF id \in members
                    THEN [rows[id] EXCEPT !.group = None, !.revision = @ + 1]
                    ELSE rows[id]]
      /\ groups' = [groups EXCEPT ![g] = None]
      /\ moved' = moved \union Members(rows, g)
  BY <1>2
<1>4. \A id \in Connections : id \in members <=> id \in Stored /\ rows[id].group = g
  OBVIOUS
<1>5. members \subseteq Stored
  OBVIOUS
<1> HIDE DEF members
<1>6. ASSUME NEW id \in members
      PROVE  /\ id \in Connections /\ rows'[id] \in Row /\ rows'[id].group = None
             /\ rows'[id].revision = rows[id].revision + 1 /\ rows'[id].live = rows[id].live
  <2>1. id \in Connections /\ rows[id] \in Row
    BY <1>1, <1>5 DEF Stored
  <2>2. rows'[id] = Ungrouped(rows[id])
    BY <1>3, <2>1 DEF Ungrouped
  <2> QED
    BY <2>1, <2>2, UngroupedFacts
<1>7. \A id \in Connections \ members : rows'[id] = rows[id]
  BY <1>3
<1>8. \A id \in members : rows[id].live => id \in moved'
  BY <1>1, <1>3, <1>4, <1>5 DEF Members, Stored
<1>9. Distinct(rows', moved')
  <2>1. SUFFICES ASSUME NEW id \in Connections, NEW other \in Connections, id # other,
                        rows'[id] # None, rows'[id].live, rows'[other] # None, rows'[other].live,
                        rows'[id].group = rows'[other].group, rows'[id].order = rows'[other].order
                 PROVE  id \in moved' \/ other \in moved'
    BY DEF Distinct
  <2>2. CASE id \in members
    BY <1>6, <1>8, <2>1, <2>2
  <2>3. CASE other \in members
    BY <1>6, <1>8, <2>1, <2>3
  <2>4. CASE id \notin members /\ other \notin members
    <3>1. Distinct(rows, moved) /\ rows'[id] = rows[id] /\ rows'[other] = rows[other]
      BY <1>7, <2>4, OrderIsDistinctRows DEF RepositoryInv
    <3> QED
      BY <1>3, <2>1, <3>1 DEF Distinct
  <2> QED
    BY <2>2, <2>3, <2>4
<1>10. groups' \in [Groups -> Group \union {None}] /\ OpenGroups \ {g} \subseteq OpenGroups'
       /\ None \in OpenGroups'
  BY <1>1, <1>3 DEF OpenGroups, ExistingGroups
<1>11. ASSUME NEW id \in Stored
       PROVE  rows'[id].group \in OpenGroups'
  <2>1. CASE id \in members
    BY <1>6, <1>10, <2>1
  <2>2. CASE id \notin members
    <3>1. id \in Connections /\ rows'[id] = rows[id] /\ rows[id].group # g
      BY <1>4, <1>7, <2>2 DEF Stored
    <3> QED
      BY <1>1, <1>10, <3>1
  <2> QED
    BY <2>1, <2>2
<1>12. \A id \in Connections :
          rows'[id] = rows[id] \/ (id \in Stored /\ Revised(rows[id], rows'[id]))
  BY <1>5, <1>6, <1>7 DEF Revised
<1>13. rows' = [id \in Connections |-> rows'[id]]
  BY <1>3
<1>14. moved' \subseteq Stored
  BY <1>1, <1>3 DEF Members, Stored
<1> QED
  BY <1>9, <1>10, <1>11, <1>12, <1>13, <1>14, RowsKeepInv DEF DeleteGroup

LEMMA InitInv == RepositoryInit => RepositoryInv
<1> SUFFICES ASSUME RepositoryInit PROVE RepositoryInv
  OBVIOUS
<1>1. /\ \A id \in Connections : rows[id] = None
      /\ \A client \in Clients : read[client] = None
      /\ Stored = {} /\ Live = {}
  BY DEF RepositoryInit, Stored, Live
<1>2. RepositoryTypeOK
  BY <1>1, RepositoryAssumption DEF RepositoryInit, RepositoryTypeOK
<1> QED
  BY <1>1, <1>2 DEF RepositoryInv, OrderIsDistinct, RevisionTellsStale, CopiesDiffer

LEMMA NextInv == RepositoryInv /\ [RepositoryNext]_repositoryVars => RepositoryInv'
<1> SUFFICES ASSUME RepositoryInv, [RepositoryNext]_repositoryVars PROVE RepositoryInv'
  OBVIOUS
<1>1. CASE EditorOpens \/ SaverReads \/ ImportReads
  BY <1>1, ReadsKeepInv
<1>2. CASE EditorSaves
  BY <1>2, EditorSavesKeepsInv
<1>3. CASE EditorCreates
  BY <1>3, EditorCreatesKeepsInv
<1>4. CASE SaverWrites
  BY <1>4, SaverWritesKeepsInv
<1>5. CASE ImportWrites
  BY <1>5, ImportWritesKeepsInv
<1>6. CASE GiveUp
  BY <1>6, GiveUpKeepsInv
<1>7. CASE DeleteConnection
  BY <1>7, DeleteConnectionKeepsInv
<1>8. CASE SetConnectionFavorite
  BY <1>8, SetConnectionFavoriteKeepsInv
<1>9. CASE ReorderConnections
  BY <1>9, ReorderConnectionsKeepsInv
<1>10. CASE DeleteGroup
  BY <1>10, DeleteGroupKeepsInv
<1>11. CASE RecordSuccessfulConnection \/ SaveGroup \/ SetGroupCollapsed \/ ReorderGroups
  BY <1>11, GroupsKeepInv
<1>12. CASE UNCHANGED repositoryVars
  <2>1. UNCHANGED <<rows, groups, recent, read, moved, writes>>
    BY <1>12 DEF repositoryVars
  <2>2. RepositoryTypeOK'
    BY <2>1 DEF RepositoryInv, RepositoryTypeOK, Stored, ExistingGroups
  <2>3. OrderIsDistinct' /\ RevisionTellsStale' /\ CopiesDiffer'
    BY <2>1 DEF RepositoryInv, OrderIsDistinct, RevisionTellsStale, CopiesDiffer, Live, Stored
  <2> QED
    BY <2>2, <2>3 DEF RepositoryInv
<1> QED
  BY <1>1, <1>2, <1>3, <1>4, <1>5, <1>6, <1>7, <1>8, <1>9, <1>10, <1>11, <1>12
     DEF RepositoryNext

LEMMA RepositoryInvHolds == RepositorySpec => []RepositoryInv
  BY InitInv, NextInv, PTL DEF RepositorySpec

\* The tables are always what the schema declares.
THEOREM RepositoryTypes == RepositorySpec => []RepositoryTypeOK
<1>1. RepositoryInv => RepositoryTypeOK
  BY DEF RepositoryInv
<1> QED
  BY <1>1, RepositoryInvHolds, PTL

\* Two connections of a group share a place only after their group's deletion.
THEOREM OrderStaysDistinct == RepositorySpec => []OrderIsDistinct
<1>1. RepositoryInv => OrderIsDistinct
  BY DEF RepositoryInv
<1> QED
  BY <1>1, RepositoryInvHolds, PTL

\* A copy that a client holds differs from the row only at an older revision.
THEOREM StaleCopiesShow == RepositorySpec => []RevisionTellsStale
<1>1. RepositoryInv => RevisionTellsStale
  BY DEF RepositoryInv
<1> QED
  BY <1>1, RepositoryInvHolds, PTL

-----------------------------------------------------------------------------
(***************************************************************************)
(* What a client writes over a connection it has a current copy of.        *)
(***************************************************************************)
\* The fields that a save from a copy leaves as they were.
Unlost(row, old) ==
  /\ row \in Row
  /\ row.group = old.group /\ row.favorite = old.favorite
  /\ row.order = old.order /\ row.live = old.live

Spares(client, row, old) == \A field \in Spared[client] : row[field] = old[field]

LEMMA SparedFields ==
  ASSUME NEW old, NEW row
  PROVE  /\ row.favorite = old.favorite /\ row.live = old.live => Spares("editor", row, old)
         /\ /\ Unlost(row, old) /\ row.name = old.name
            /\ row.endpoint = old.endpoint /\ row.settings = old.settings
            => Spares("saver", row, old)
         /\ Unlost(row, old) /\ row.credential = old.credential => Spares("import", row, old)
<1>1. /\ Spared["editor"] = {"favorite", "live"}
      /\ Spared["saver"] = {"group", "name", "endpoint", "settings", "favorite", "order", "live"}
      /\ Spared["import"] = {"group", "credential", "favorite", "order", "live"}
  BY DEF Spared
<1>2. row.favorite = old.favorite /\ row.live = old.live => Spares("editor", row, old)
  BY <1>1 DEF Spares
<1>3. /\ Unlost(row, old) /\ row.name = old.name
      /\ row.endpoint = old.endpoint /\ row.settings = old.settings
      => Spares("saver", row, old)
  BY <1>1 DEF Spares, Unlost
<1>4. Unlost(row, old) /\ row.credential = old.credential => Spares("import", row, old)
  BY <1>1 DEF Spares, Unlost
<1> QED
  BY <1>2, <1>3, <1>4

\* A record of the row's own group leaves the row's place and favourite alone.
LEMMA SaveOverUnlost ==
  ASSUME NEW G \in SUBSET (Groups \union {None}), NEW table \in Tables(G), NEW record \in Records(G),
         NEW old \in Row, old.live, Unlost(table[record.id], old), record.config.group = old.group
  PROVE  Unlost(SaveRecord(table, record)[record.id], old)
<1> DEFINE new == SaveRecord(table, record)[record.id]
           row == table[record.id]
<1>1. row \in Row /\ row # None /\ row.live
  BY NoRowAssumption DEF Unlost
<1>2. KeepsPlace(table, record.id, record.config.group)
  BY <1>1 DEF KeepsPlace, Unlost
<1>3. /\ new \in Row /\ new.live /\ new.group = record.config.group
      /\ new.favorite = (row # None /\ row.favorite)
      /\ new.order = row.order
  BY <1>2, SaveRecordFacts
<1>4. row.favorite \in BOOLEAN /\ new.live \in BOOLEAN /\ old.live \in BOOLEAN
  BY <1>1, <1>3 DEF Row
<1> HIDE DEF new
<1>5. new.favorite = row.favorite
  BY <1>1, <1>3, <1>4
<1>6. new.live = old.live
  BY <1>3, <1>4
<1> QED
  BY <1>3, <1>5, <1>6 DEF Unlost, new

LosesNothing(client, copy) ==
  rows[copy.id] = copy.row /\ rows'[copy.id] # rows[copy.id] =>
     Spares(client, rows'[copy.id], copy.row)

LEMMA EditorLosesNothing ==
  ASSUME RepositoryInv, EditorSaves, NEW copy \in read["editor"]
  PROVE  LosesNothing("editor", copy)
<1>1. SUFFICES ASSUME rows[copy.id] = copy.row, rows'[copy.id] # rows[copy.id]
               PROVE  Spares("editor", rows'[copy.id], copy.row)
  BY DEF LosesNothing
<1>2. PICK written \in read["editor"], edit \in Edits, group \in Groups \union {None} :
         SaveForm(written.id, edit, group)
  BY DEF EditorSaves
<1>3. read["editor"] # None /\ "editor" \in Clients
  BY DEF EditorSaves, Clients
<1>4. copy \in Copy /\ written \in Copy
  BY <1>3, CopyType DEF RepositoryInv, RepositoryTypeOK
<1>5. copy.id \in Connections /\ copy.row \in Row /\ copy.row.live /\ written.id \in Connections
  BY <1>3, <1>4 DEF RepositoryInv, RepositoryTypeOK, Copy
<1>6. rows \in Tables(OpenGroups) /\ OpenGroups \in SUBSET (Groups \union {None})
  BY TablesType DEF RepositoryInv
<1>7. PICK record \in Records(OpenGroups) :
         record.id = written.id /\ rows' = SaveRecord(rows, record)
  BY <1>2, <1>5, FormRecordType
<1>8. record.id = copy.id
  BY <1>1, <1>5, <1>6, <1>7, SaveRecordFacts
<1>9. rows'[copy.id] \in Row /\ rows'[copy.id].live
      /\ rows'[copy.id].favorite = (copy.row # None /\ copy.row.favorite)
  BY <1>1, <1>6, <1>7, <1>8, SaveRecordFacts
<1>10. /\ copy.row # None /\ copy.row.favorite \in BOOLEAN /\ copy.row.live \in BOOLEAN
       /\ rows'[copy.id].live \in BOOLEAN
  BY <1>5, <1>9, NoRowAssumption DEF Row
<1>11. rows'[copy.id].favorite = copy.row.favorite
  BY <1>9, <1>10
<1>12. rows'[copy.id].live = copy.row.live
  BY <1>5, <1>9, <1>10
<1> QED
  BY <1>11, <1>12, SparedFields

LEMMA SaverLosesNothing ==
  ASSUME RepositoryInv, SaverWrites, NEW copy \in read["saver"]
  PROVE  LosesNothing("saver", copy)
<1>1. SUFFICES ASSUME rows[copy.id] = copy.row, rows'[copy.id] # rows[copy.id]
               PROVE  Spares("saver", rows'[copy.id], copy.row)
  BY DEF LosesNothing
<1>2. PICK written \in read["saver"] :
         /\ ForeignKeysHold({SaverConfig(written)})
         /\ rows' = SaveRecord(rows, SaverRecord(written))
  BY DEF SaverWrites, SaverRecord, SaverConfig, WithCredential
<1>3. read["saver"] # None /\ "saver" \in Clients
  BY DEF SaverWrites, Clients
<1>4. copy \in Copy /\ written \in Copy
  BY <1>3, CopyType DEF RepositoryInv, RepositoryTypeOK
<1>5. copy.id \in Connections /\ copy.row \in Row /\ copy.row.live
  BY <1>3, <1>4 DEF RepositoryInv, RepositoryTypeOK, Copy
<1>6. rows \in Tables(OpenGroups) /\ OpenGroups \in SUBSET (Groups \union {None})
  BY TablesType DEF RepositoryInv
<1> DEFINE record == SaverRecord(written)
<1>7. record \in Records(OpenGroups) /\ record.id = written.id
  BY <1>2, <1>4, SaverRecordType DEF SaverRecord
<1>8. written = copy
  <2>1. rows' = SaveRecord(rows, record)
    BY <1>2
  <2> HIDE DEF record
  <2>2. \A id \in Connections : id # record.id => rows'[id] = rows[id]
    BY <1>6, <1>7, <2>1, SaveRecordFacts
  <2>3. copy.id = written.id
    BY <1>1, <1>5, <1>7, <2>2
  <2> QED
    BY <1>3, <2>3 DEF RepositoryInv, CopiesDiffer
<1>9. /\ record.config.group = copy.row.group /\ record.config.name = copy.row.name
      /\ record.config.endpoint = copy.row.endpoint /\ record.config.credential
      /\ record.settings = copy.row.settings /\ record.id = copy.id
  BY <1>8, SaverConfigFields DEF SaverRecord
<1>10. rows' = SaveRecord(rows, record)
  BY <1>2
<1> HIDE DEF record
<1>11. Unlost(rows'[copy.id], copy.row)
  <2>1. Unlost(rows[record.id], copy.row)
    BY <1>1, <1>5, <1>9 DEF Unlost
  <2> QED
    BY <1>5, <1>6, <1>7, <1>9, <1>10, <2>1, SaveOverUnlost
<1>12. /\ rows'[copy.id].name = copy.row.name /\ rows'[copy.id].endpoint = copy.row.endpoint
       /\ rows'[copy.id].settings = copy.row.settings
  BY <1>6, <1>7, <1>9, <1>10, SaveRecordFacts
<1> QED
  BY <1>5, <1>11, <1>12, SparedFields

LEMMA ImportLosesNothing ==
  ASSUME RepositoryInv, ImportWrites, NEW copy \in read["import"]
  PROVE  LosesNothing("import", copy)
<1>1. SUFFICES ASSUME rows[copy.id] = copy.row, rows'[copy.id] # rows[copy.id]
               PROVE  Spares("import", rows'[copy.id], copy.row)
  BY DEF LosesNothing
<1>2. PICK chosen \in SUBSET DOMAIN ImportItems, strategy \in {"skip", "overwrite"} :
         \E target \in Targets(chosen, strategy) :
            /\ ForeignKeysHold({ImportedConfig(i, target[i]) : i \in DOMAIN target})
            /\ rows' = Imported(target)
  BY DEF ImportWrites
<1>3. PICK target \in Targets(chosen, strategy) :
         /\ ForeignKeysHold({ImportedConfig(i, target[i]) : i \in DOMAIN target})
         /\ rows' = Imported(target)
  BY <1>2
<1>4. /\ read["import"] # None /\ "import" \in Clients
      /\ \A i \in DOMAIN target : i \in DOMAIN ImportItems /\ target[i] \in Connections
  BY ImportTargets DEF ImportWrites, Clients
<1>5. \A i \in DOMAIN target : ImportRecord(i, target[i]) \in Records(OpenGroups)
  BY <1>3, <1>4, ImportKeeps
<1>6. copy \in Copy
  BY <1>4, CopyType DEF RepositoryInv, RepositoryTypeOK
<1>7. copy.id \in Connections /\ copy.row \in Row /\ copy.row.live
  BY <1>4, <1>6 DEF RepositoryInv, RepositoryTypeOK, Copy
<1>8. rows \in Tables(OpenGroups) /\ OpenGroups \in SUBSET (Groups \union {None})
  BY TablesType DEF RepositoryInv
<1> DEFINE Same(row) == row.credential = copy.row.credential
           S == {table \in Tables(OpenGroups) :
                   Unlost(table[copy.id], copy.row) /\ Same(table[copy.id])}
<1>9. rows \in S
  BY <1>1, <1>7, <1>8 DEF Unlost
<1>10. ASSUME NEW i
       PROVE  /\ ImportRecord(i, copy.id).config.group = copy.row.group
              /\ ImportRecord(i, copy.id).config.credential = copy.row.credential
  <2> DEFINE known == {other \in read["import"] : other.id = copy.id}
             first == CHOOSE other \in known : TRUE
  <2>1. copy \in known
    OBVIOUS
  <2>2. first = copy
    <3>1. first \in known
      BY <2>1
    <3> QED
      BY <1>4, <3>1 DEF RepositoryInv, CopiesDiffer
  <2>3. ImportedConfig(i, copy.id) =
          [group |-> first.row.group, name |-> ImportItems[i].alias,
           endpoint |-> ImportItems[i].endpoint, credential |-> first.row.credential]
    BY <2>1, ImportedConfigFields
  <2> HIDE DEF first, known
  <2>4. /\ ImportedConfig(i, copy.id).group = copy.row.group
        /\ ImportedConfig(i, copy.id).credential = copy.row.credential
    BY <2>2, <2>3
  <2> QED
    BY <2>4 DEF ImportRecord
<1>11. ASSUME NEW table \in S, NEW i \in DOMAIN target
       PROVE  SaveRecord(table, ImportRecord(i, target[i])) \in S
  <2> DEFINE record == ImportRecord(i, target[i])
             saved == SaveRecord(table, record)
  <2>1. table \in Tables(OpenGroups) /\ record \in Records(OpenGroups)
    BY <1>5
  <2>2. record.id = target[i]
    BY DEF ImportRecord
  <2>3. Unlost(table[copy.id], copy.row) /\ Same(table[copy.id])
    OBVIOUS
  <2>4. target[i] = copy.id => /\ record.config.group = copy.row.group
                              /\ record.config.credential = copy.row.credential
    BY <1>10
  <2> HIDE DEF record, S
  <2>5. /\ saved \in Tables(OpenGroups)
        /\ \A id \in Connections : id # record.id => saved[id] = table[id]
        /\ saved[record.id].credential = record.config.credential
    BY <1>8, <2>1, SaveRecordFacts
  <2>6. CASE target[i] # copy.id
    <3>1. saved[copy.id] = table[copy.id]
      BY <1>7, <2>2, <2>5, <2>6
    <3> QED
      BY <2>3, <2>5, <3>1 DEF S, record
  <2>7. CASE target[i] = copy.id
    <3>1. Unlost(saved[copy.id], copy.row)
      BY <1>7, <1>8, <2>1, <2>2, <2>3, <2>4, <2>7, SaveOverUnlost
    <3>2. Same(saved[copy.id])
      BY <2>2, <2>4, <2>5, <2>7
    <3> HIDE DEF Same, saved
    <3> QED
      BY <2>5, <3>1, <3>2 DEF S, saved, record
  <2> QED
    BY <2>6, <2>7
<1>12. S \in SUBSET Tables(OpenGroups)
  OBVIOUS
<1> HIDE DEF S
<1>13. Imported(target) \in S
  BY <1>5, <1>8, <1>9, <1>11, <1>12, ImportPreserves
<1>14. Unlost(rows'[copy.id], copy.row) /\ Same(rows'[copy.id])
  BY <1>3, <1>13 DEF S
<1> QED
  BY <1>1, <1>7, <1>14, SparedFields

LossTold(client, copy) ==
  \A field \in Spared[client] :
     rows'[copy.id][field] # rows[copy.id][field] => copy.row.revision < rows[copy.id].revision

\* A copy is current, or the revision tells that it is not.
LEMMA LossIsToldOf ==
  ASSUME RepositoryInv, NEW client \in Clients, read[client] # None, NEW copy \in read[client],
         LosesNothing(client, copy)
  PROVE  LossTold(client, copy)
<1>1. /\ rows[copy.id] # None /\ copy.row.revision <= rows[copy.id].revision
      /\ copy.row.revision = rows[copy.id].revision => copy.row = rows[copy.id]
  BY DEF RepositoryInv, RevisionTellsStale
<1>2. copy \in Copy /\ rows \in [Connections -> Row \union {None}]
  BY CopyType DEF RepositoryInv, RepositoryTypeOK
<1>3. copy.row \in Row /\ rows[copy.id] \in Row
  BY <1>1, <1>2 DEF Copy
<1>4. copy.row.revision \in Nat /\ rows[copy.id].revision \in Nat
  BY <1>3 DEF Row
<1>5. CASE copy.row.revision < rows[copy.id].revision
  BY <1>5 DEF LossTold
<1>6. CASE copy.row = rows[copy.id]
  BY <1>6 DEF LossTold, LosesNothing, Spares
<1> QED
  BY <1>1, <1>4, <1>5, <1>6

\* What a client loses of a connection that it is not there to change, it loses
\* because its copy was of an older revision, so that comparing would prevent it.
THEOREM LossesAreTold == RepositorySpec => LossIsTold
<1> DEFINE Step == \A client \in Clients :
                     read[client] # None /\ read'[client] = None =>
                        \A copy \in read[client] : LossTold(client, copy)
<1>1. RepositoryInv /\ RepositoryNext => Step
  <2> SUFFICES ASSUME RepositoryInv, RepositoryNext,
                      NEW client \in Clients, read[client] # None, read'[client] = None,
                      NEW copy \in read[client]
               PROVE  LossTold(client, copy)
    OBVIOUS
  <2> SUFFICES LosesNothing(client, copy)
    BY LossIsToldOf
  <2>1. CASE UNCHANGED rows
    BY <2>1 DEF LosesNothing
  <2>2. CASE read' = read
    BY <2>2
  <2>3. CASE EditorSaves
    <3>1. client = "editor"
      <4>1. read' = [read EXCEPT !["editor"] = None]
        BY <2>3 DEF EditorSaves
      <4> QED
        BY <4>1 DEF RepositoryInv, RepositoryTypeOK, Clients
    <3> QED
      BY <2>3, <3>1, EditorLosesNothing
  <2>4. CASE SaverWrites
    <3>1. client = "saver"
      <4>1. read' = [read EXCEPT !["saver"] = None]
        BY <2>4 DEF SaverWrites
      <4> QED
        BY <4>1 DEF RepositoryInv, RepositoryTypeOK, Clients
    <3> QED
      BY <2>4, <3>1, SaverLosesNothing
  <2>5. CASE ImportWrites
    <3>1. client = "import"
      <4>1. read' = [read EXCEPT !["import"] = None]
        BY <2>5 DEF ImportWrites
      <4> QED
        BY <4>1 DEF RepositoryInv, RepositoryTypeOK, Clients
    <3> QED
      BY <2>5, <3>1, ImportLosesNothing
  <2>6. EditorOpens \/ SaverReads \/ ImportReads \/ GiveUp => UNCHANGED rows
    BY DEF EditorOpens, SaverReads, ImportReads, GiveUp
  <2>7. \/ EditorCreates \/ DeleteConnection \/ SetConnectionFavorite \/ ReorderConnections
        \/ RecordSuccessfulConnection \/ SaveGroup \/ DeleteGroup \/ SetGroupCollapsed \/ ReorderGroups
        => read' = read
    BY DEF EditorCreates, DeleteConnection, SetConnectionFavorite, ReorderConnections,
           RecordSuccessfulConnection, SaveGroup, DeleteGroup, SetGroupCollapsed, ReorderGroups
  <2> QED
    BY <2>1, <2>2, <2>3, <2>4, <2>5, <2>6, <2>7 DEF RepositoryNext
<1>2. Step => \A client \in Clients :
                 read[client] # None /\ read'[client] = None =>
                     \A copy \in read[client], field \in Spared[client] :
                         rows'[copy.id][field] # rows[copy.id][field] =>
                             copy.row.revision < rows[copy.id].revision
  BY DEF LossTold
<1> HIDE DEF Step
<1> QED
  BY <1>1, <1>2, RepositoryInvHolds, PTL DEF RepositorySpec, LossIsTold
=============================================================================
