--------------------------- MODULE HostFiles_proofs ---------------------------
(***************************************************************************)
(* What HostFiles promises, for every section, every host and every        *)
(* contents of passwd and group.                                           *)
(*                                                                         *)
(* First the tables: Tells says that a table holds what some lines say;    *)
(* one more entry keeps it, and it decides every question of the account   *)
(* resolver the way the lines alone do.  Then ResolverInv, part by part:   *)
(* types, the Once, the check that loads, the table, the timeouts and the  *)
(* answers.  That the owner and group checks are grounded in the account   *)
(* file, and that all answers are forced, follows from it.                 *)
(***************************************************************************)
EXTENDS HostFiles, SequenceTheorems, TLAPS

-----------------------------------------------------------------------------
LEMMA Shapes == /\ Unreadable \notin Account
                /\ Missing \notin Account
                /\ \A e \in Account : e.name \in Names /\ e.id \in Ids /\ e.gid \in Ids
BY DEF Unreadable, Missing, Account

LEMMA NoNames == NoName \notin Names
BY NamesAssumption DEF NoName, Names

LEMMA EntriesOfPrefix ==
  ASSUME NEW file \in Seq(Line), NEW n \in Nat, n + 1 <= Len(file), file[n + 1] # Unreadable
  PROVE  /\ file[n + 1] \in Account
         /\ \A e : e \in Entries(SubSeq(file, 1, n + 1))
                     <=> e \in Entries(SubSeq(file, 1, n)) \/ e = file[n + 1]
<1> DEFINE short == SubSeq(file, 1, n)
           long == SubSeq(file, 1, n + 1)
<1>1. file[n + 1] \in Account
  BY DEF Line
<1>2. /\ DOMAIN short = 1..n
      /\ DOMAIN long = 1..(n + 1)
      /\ \A k \in 1..n : short[k] = file[k]
      /\ \A k \in 1..(n + 1) : long[k] = file[k]
  BY SMT
<1>3. \A k \in 1..(n + 1) : k \in 1..n \/ k = n + 1
  OBVIOUS
<1>4. 1..n \subseteq 1..(n + 1) /\ n + 1 \in 1..(n + 1)
  OBVIOUS
<1>. HIDE DEF short, long
<1>5. ASSUME NEW e PROVE e \in Entries(short) <=> e # Unreadable /\ \E k \in 1..n : file[k] = e
  BY <1>2 DEF Entries
<1>6. ASSUME NEW e PROVE e \in Entries(long) <=> e # Unreadable /\ \E k \in 1..(n + 1) : file[k] = e
  BY <1>2 DEF Entries
<1>7. ASSUME NEW e
      PROVE  e \in Entries(long) <=> e \in Entries(short) \/ e = file[n + 1]
  BY <1>5, <1>6, <1>3, <1>4
<1>. QED
  BY <1>1, <1>7 DEF short, long

LEMMA EntriesAreAccounts ==
  ASSUME NEW file \in Seq(Line)
  PROVE  Entries(file) \subseteq Account
BY DEF Entries, Line

LEMMA EntriesOfNone == Entries(<<>>) = {}
BY DEF Entries

LEMMA EmptyTells == EmptyTable \in Table /\ Tells(EmptyTable, <<>>)
BY EntriesOfNone DEF EmptyTable, Table, Tells, Kept, WithId, WithName, Single

\* One more entry beside those with the same key.
LEMMA KeptGrows ==
  ASSUME NEW old, NEW new, NEW kept, NEW e \in Account, old \subseteq Account,
         \A x : x \in new <=> x \in old \/ x = e,
         Kept(kept, old)
  PROVE  /\ Kept(IF kept = Missing THEN e ELSE kept, new)
         /\ ~Single(new) <=> ~Single(old) \/ kept \notin {Missing, e}
<1>1. Missing \notin Account
  BY Shapes
<1>2. CASE old = {}
  <2>1. kept = Missing /\ \A x : x \in new <=> x = e
    BY <1>2 DEF Kept
  <2>. QED
    BY <1>2, <2>1 DEF Kept, Single
<1>3. CASE old # {}
  <2>1. kept \in old /\ kept # Missing /\ kept \in new /\ e \in new
    BY <1>1, <1>3 DEF Kept
  <2>2. Single(new) => Single(old) /\ kept = e
    BY <2>1 DEF Single
  <2>3. Single(old) /\ kept = e => Single(new)
    BY <2>1 DEF Single
  <2>. QED
    BY <2>1, <2>2, <2>3 DEF Kept
<1>. QED
  BY <1>2, <1>3

LEMMA AddedTells ==
  ASSUME NEW t \in Table, NEW e \in Account, NEW old, NEW new, Entries(old) \subseteq Account,
         \A x : x \in Entries(new) <=> x \in Entries(old) \/ x = e,
         Tells(t, old)
  PROVE  Added(t, e) \in Table /\ Tells(Added(t, e), new)
<1> DEFINE a == Added(t, e)
<1>1. /\ e.name \in Names /\ e.id \in Ids
      /\ t.byId \in [Ids -> Account \union {Missing}] /\ t.idDup \in SUBSET Ids
      /\ t.byName \in [Names -> Account \union {Missing}] /\ t.nameDup \in SUBSET Names
  BY Shapes DEF Table
<1>2. /\ a.byId = [t.byId EXCEPT ![e.id] = IF @ = Missing THEN e ELSE @]
      /\ a.byName = [t.byName EXCEPT ![e.name] = IF @ = Missing THEN e ELSE @]
      /\ a.idDup = IF t.byId[e.id] \notin {Missing, e} THEN t.idDup \union {e.id} ELSE t.idDup
      /\ a.nameDup = IF t.byName[e.name] \notin {Missing, e} THEN t.nameDup \union {e.name}
                     ELSE t.nameDup
  BY DEF Added
<1>3. a \in Table
  <2>1. a.byId \in [Ids -> Account \union {Missing}] /\ a.idDup \in SUBSET Ids
    BY <1>1, <1>2
  <2>2. a.byName \in [Names -> Account \union {Missing}] /\ a.nameDup \in SUBSET Names
    BY <1>1, <1>2
  <2>3. a = [byId |-> a.byId, idDup |-> a.idDup, byName |-> a.byName, nameDup |-> a.nameDup]
    BY DEF Added
  <2>. QED
    BY <2>1, <2>2, <2>3 DEF Table
<1>. HIDE DEF a
<1>4. ASSUME NEW id \in Ids
      PROVE  /\ Kept(a.byId[id], WithId(new, id))
             /\ id \in a.idDup <=> ~Single(WithId(new, id))
  <2>1. /\ Kept(t.byId[id], WithId(old, id))
        /\ id \in t.idDup <=> ~Single(WithId(old, id))
    BY DEF Tells
  <2>2. CASE id = e.id
    <3>1. \A x : x \in WithId(new, id) <=> x \in WithId(old, id) \/ x = e
      BY <2>2 DEF WithId
    <3>2. WithId(old, id) \subseteq Account
      BY DEF WithId
    <3>3. a.byId[id] = IF t.byId[id] = Missing THEN e ELSE t.byId[id]
      BY <1>1, <1>2, <2>2
    <3>4. id \in a.idDup <=> id \in t.idDup \/ t.byId[id] \notin {Missing, e}
      BY <1>2, <2>2
    <3>5. /\ Kept(IF t.byId[id] = Missing THEN e ELSE t.byId[id], WithId(new, id))
          /\ ~Single(WithId(new, id)) <=> ~Single(WithId(old, id)) \/ t.byId[id] \notin {Missing, e}
      BY <2>1, <3>1, <3>2, KeptGrows
    <3>. QED
      BY <2>1, <3>3, <3>4, <3>5
  <2>3. CASE id # e.id
    <3>1. WithId(new, id) = WithId(old, id)
      BY <2>3 DEF WithId
    <3>2. a.byId[id] = t.byId[id] /\ (id \in a.idDup <=> id \in t.idDup)
      BY <1>1, <1>2, <2>3
    <3>. QED
      BY <2>1, <3>1, <3>2
  <2>. QED
    BY <2>2, <2>3
<1>5. ASSUME NEW name \in Names
      PROVE  /\ Kept(a.byName[name], WithName(new, name))
             /\ name \in a.nameDup <=> ~Single(WithName(new, name))
  <2>1. /\ Kept(t.byName[name], WithName(old, name))
        /\ name \in t.nameDup <=> ~Single(WithName(old, name))
    BY DEF Tells
  <2>2. CASE name = e.name
    <3>1. \A x : x \in WithName(new, name) <=> x \in WithName(old, name) \/ x = e
      BY <2>2 DEF WithName
    <3>2. WithName(old, name) \subseteq Account
      BY DEF WithName
    <3>3. a.byName[name] = IF t.byName[name] = Missing THEN e ELSE t.byName[name]
      BY <1>1, <1>2, <2>2
    <3>4. name \in a.nameDup <=> name \in t.nameDup \/ t.byName[name] \notin {Missing, e}
      BY <1>2, <2>2
    <3>5. /\ Kept(IF t.byName[name] = Missing THEN e ELSE t.byName[name], WithName(new, name))
          /\ ~Single(WithName(new, name)) <=> ~Single(WithName(old, name)) \/ t.byName[name] \notin {Missing, e}
      BY <2>1, <3>1, <3>2, KeptGrows
    <3>. QED
      BY <2>1, <3>3, <3>4, <3>5
  <2>3. CASE name # e.name
    <3>1. WithName(new, name) = WithName(old, name)
      BY <2>3 DEF WithName
    <3>2. a.byName[name] = t.byName[name] /\ (name \in a.nameDup <=> name \in t.nameDup)
      BY <1>1, <1>2, <2>3
    <3>. QED
      BY <2>1, <3>1, <3>2
  <2>. QED
    BY <2>2, <2>3
<1>6. Tells(a, new)
  BY <1>4, <1>5 DEF Tells
<1>. QED
  BY <1>3, <1>6 DEF a

\* What a table that tells what a file says answers to each question.
LEMMA NameOfForced ==
  ASSUME NEW t \in Table, NEW file, Entries(file) \subseteq Account, Tells(t, file),
         NEW id \in Ids, NEW name \in Names
  PROVE  NameOf(t, id) = name <=> OnlyNameOf(file, id, name)
<1>1. /\ Kept(t.byId[id], WithId(file, id))
      /\ id \in t.idDup <=> ~Single(WithId(file, id))
  BY DEF Tells
<1>2. WithId(file, id) \subseteq Account
  BY DEF WithId
<1>3. Missing \notin Account /\ NoName # name
  BY Shapes, NoNames
<1>4. CASE ~Single(WithId(file, id))
  BY <1>1, <1>3, <1>4 DEF NameOf, OnlyNameOf
<1>5. CASE WithId(file, id) = {}
  BY <1>1, <1>3, <1>5 DEF NameOf, OnlyNameOf, Kept
<1>6. CASE Single(WithId(file, id)) /\ WithId(file, id) # {}
  <2> DEFINE kept == t.byId[id]
  <2>1. kept \in WithId(file, id) /\ kept # Missing
    BY <1>1, <1>2, <1>3, <1>6 DEF Kept
  <2>2. \A e : e \in WithId(file, id) <=> e = kept
    BY <1>6, <2>1 DEF Single
  <2>3. {e.name : e \in WithId(file, id)} = {kept.name}
    BY <2>2
  <2>4. NameOf(t, id) = kept.name
    BY <1>1, <1>6, <2>1 DEF NameOf
  <2>. QED
    BY <1>6, <2>3, <2>4 DEF OnlyNameOf
<1>. QED
  BY <1>4, <1>5, <1>6

LEMMA NameOfIsName ==
  ASSUME NEW t \in Table, NEW id \in Ids
  PROVE  NameOf(t, id) \in Names \union {NoName}
BY Shapes DEF NameOf, Table

LEMMA OnlyOne ==
  ASSUME NEW entries, NEW kept, Kept(kept, entries), Single(entries), entries \subseteq Account
  PROVE  /\ kept # Missing => entries = {kept}
         /\ kept = Missing => entries = {}
BY Shapes DEF Kept, Single

LEMMA NormalizedForced ==
  ASSUME NEW t \in Table, NEW file, Entries(file) \subseteq Account, Tells(t, file),
         NEW value \in Names, NEW name \in Names
  PROVE  Normalized(t, value) = name <=> OnlyMeaning(file, value, name)
<1> DEFINE id == Number[value]
           literal == t.byName[value]
           numbered == t.byId[id]
           named == WithName(file, value)
           same == WithId(file, id)
<1>1. NoName # name
  BY NoNames
<1>2. CASE value \notin Numerals
  BY <1>2 DEF Normalized, OnlyMeaning
<1>3. CASE value \in Numerals /\ id \notin Ids
  BY <1>1, <1>3 DEF Normalized, OnlyMeaning
<1>4. CASE value \in Numerals /\ id \in Ids
  <2>1. /\ Kept(literal, named) /\ (value \in t.nameDup <=> ~Single(named))
        /\ Kept(numbered, same) /\ (id \in t.idDup <=> ~Single(same))
    BY <1>4 DEF Tells
  <2>2. named \subseteq Account /\ same \subseteq Account
    BY DEF WithName, WithId
  <2>3. OnlyMeaning(file, value, name)
          <=> /\ Single(named) /\ Single(same)
              /\ \E e \in named \union same : e.name = name
              /\ \A e \in named \union same : e.name = name
    BY <1>4 DEF OnlyMeaning
  <2>4. Normalized(t, value) =
          IF \/ value \in t.nameDup \/ id \in t.idDup
             \/ literal # Missing /\ numbered # Missing /\ literal.name # numbered.name
          THEN NoName
          ELSE IF literal # Missing THEN literal.name
          ELSE IF numbered = Missing THEN NoName ELSE numbered.name
    BY <1>4 DEF Normalized, NameOf
  <2>. HIDE DEF id, literal, numbered, named, same
  <2>5. CASE ~Single(named) \/ ~Single(same)
    BY <1>1, <2>1, <2>3, <2>4, <2>5
  <2>6. CASE Single(named) /\ Single(same)
    <3>1. /\ literal # Missing => named = {literal}
          /\ literal = Missing => named = {}
          /\ numbered # Missing => same = {numbered}
          /\ numbered = Missing => same = {}
      BY <2>1, <2>2, <2>6, OnlyOne
    <3>2. CASE literal # Missing /\ numbered # Missing
      BY <1>1, <2>1, <2>3, <2>4, <2>6, <3>1, <3>2
    <3>3. CASE literal # Missing /\ numbered = Missing
      BY <1>1, <2>1, <2>3, <2>4, <2>6, <3>1, <3>3
    <3>4. CASE literal = Missing /\ numbered # Missing
      BY <1>1, <2>1, <2>3, <2>4, <2>6, <3>1, <3>4
    <3>5. CASE literal = Missing /\ numbered = Missing
      BY <1>1, <2>1, <2>3, <2>4, <2>6, <3>1, <3>5
    <3>. QED
      BY <3>2, <3>3, <3>4, <3>5
  <2>. QED
    BY <2>5, <2>6
<1>. QED
  BY <1>2, <1>3, <1>4

LEMMA NormalizedIsName ==
  ASSUME NEW t \in Table, NEW value \in Names
  PROVE  Normalized(t, value) \in Names \union {NoName}
<1>1. CASE value \notin Numerals
  BY <1>1 DEF Normalized
<1>2. CASE value \in Numerals /\ Number[value] \notin Ids
  BY <1>2 DEF Normalized
<1>3. CASE value \in Numerals /\ Number[value] \in Ids
  <2>1. \/ Normalized(t, value) = NoName
        \/ t.byName[value] # Missing /\ Normalized(t, value) = t.byName[value].name
        \/ Normalized(t, value) = NameOf(t, Number[value])
    BY <1>3 DEF Normalized
  <2>2. t.byName[value] \in Account \union {Missing}
    BY DEF Table
  <2>. QED
    BY <1>3, <2>1, <2>2, NameOfIsName, Shapes
<1>. QED
  BY <1>1, <1>2, <1>3

LEMMA UserForced ==
  ASSUME NEW t \in Table, NEW file, Entries(file) \subseteq Account, Tells(t, file),
         NEW user \in Names \union {""}, NEW n \in Names
  PROVE  /\ ObservedUser(t, user) \in Names \union {NoName}
         /\ ObservedUser(t, user) = n <=> OnlyUser(file, user, n)
<1>1. "root" \in Names /\ "" \notin Names
  BY RootAssumption, NamesAssumption DEF Names
<1>2. CASE user = ""
  BY <1>1, <1>2 DEF ObservedUser, OnlyUser
<1>3. CASE user # ""
  BY <1>3, NormalizedForced, NormalizedIsName DEF ObservedUser, OnlyUser
<1>. QED
  BY <1>2, <1>3

LEMMA GroupForced ==
  ASSUME NEW t \in Table, NEW file, Entries(file) \subseteq Account, Tells(t, file),
         NEW g \in Table, NEW groups, Entries(groups) \subseteq Account, Tells(g, groups),
         NEW user \in Names \union {""}, NEW value \in Names \union {""}, NEW name \in Names
  PROVE  ObservedGroup(t, g, user, value) = name <=> OnlyGroup(file, groups, user, value, name)
<1>1. NoName # name
  BY NoNames
<1>2. CASE value # ""
  BY <1>2, NormalizedForced DEF ObservedGroup, OnlyGroup
<1>3. CASE value = ""
  <2> DEFINE n == ObservedUser(t, user)
  <2>1. /\ n \in Names \union {NoName}
        /\ \A m \in Names : n = m <=> OnlyUser(file, user, m)
    BY UserForced
  <2>2. OnlyGroup(file, groups, user, value, name)
          <=> \E m \in Names, e \in Entries(file) :
                /\ OnlyUser(file, user, m)
                /\ WithName(file, m) = {e}
                /\ OnlyNameOf(groups, e.gid, name)
    BY <1>3 DEF OnlyGroup
  <2>3. ObservedGroup(t, g, user, value) = IF n = NoName THEN NoName ELSE PrimaryGroup(t, g, n)
    BY <1>3 DEF ObservedGroup
  <2>. HIDE DEF n
  <2>4. CASE n = NoName
    BY <1>1, <2>1, <2>2, <2>3, <2>4, NoNames
  <2>5. CASE n \in Names
    <3> DEFINE kept == t.byName[n]
               named == WithName(file, n)
    <3>1. Kept(kept, named) /\ (n \in t.nameDup <=> ~Single(named))
      BY <2>5 DEF Tells
    <3>2. named \subseteq Account /\ named \subseteq Entries(file)
      BY DEF WithName
    <3>3. OnlyGroup(file, groups, user, value, name)
            <=> \E e \in named : named = {e} /\ OnlyNameOf(groups, e.gid, name)
      BY <2>1, <2>2, <2>5, <3>2
    <3>4. ObservedGroup(t, g, user, value) =
            IF n \in t.nameDup \/ kept = Missing THEN NoName ELSE NameOf(g, kept.gid)
      BY <2>3, <2>5, NoNames DEF PrimaryGroup
    <3>. HIDE DEF kept, named
    <3>5. CASE ~Single(named)
      BY <1>1, <3>1, <3>3, <3>4, <3>5 DEF Single
    <3>6. CASE Single(named) /\ kept = Missing
      BY <1>1, <3>1, <3>2, <3>3, <3>4, <3>6, OnlyOne
    <3>7. CASE Single(named) /\ kept # Missing
      <4>1. named = {kept}
        BY <3>1, <3>2, <3>7, OnlyOne
      <4>2. kept.gid \in Ids
        BY <3>2, <4>1, Shapes
      <4>3. NameOf(g, kept.gid) = name <=> OnlyNameOf(groups, kept.gid, name)
        BY <4>2, NameOfForced
      <4>. QED
        BY <3>1, <3>3, <3>4, <3>7, <4>1, <4>3
    <3>. QED
      BY <3>5, <3>6, <3>7
  <2>. QED
    BY <2>1, <2>4, <2>5
<1>. QED
  BY <1>2, <1>3

\* Steps of the engine and of the host, not of a check.
EngineStep == Block \/ Launch \/ Expire \/ TakeResult \/ StopWaiting \/ Change

LEMMA SectionFacts ==
  ASSUME TypeOK
  PROVE  /\ checks \in Seq(Check)
         /\ Len(checks) \in Nat
         /\ Checks = 1..Len(checks)
<1>1. checks \in Seq(Check)
  BY SectionsAssumption DEF TypeOK
<1>. QED
  BY <1>1 DEF Checks

LEMMA NextTurn == ASSUME NEW n \in Nat, NEW k \in 1..n PROVE k + 1 \in 1..(n + 1)
OBVIOUS

LEMMA CheckFacts ==
  ASSUME TypeOK, NEW i \in Checks
  PROVE  /\ checks[i] \in Check
         /\ checks[i].path \in Checked /\ checks[i].path \in Paths
         /\ Asked(i) \in Tables
         /\ Kind(i) \in Owners => checks[i].expected \in Names
<1>2. checks[i] \in Check
  BY SectionFacts
<1>3. checks[i].path \in Paths
  BY <1>2 DEF Check
<1>4. Kind(i) \in Owners => checks[i].expected \in Names
  BY <1>2 DEF Check, Kind, Owners, Gates
<1>. QED
  BY <1>2, <1>3, <1>4 DEF Checked, Asked, TableOf, Tables

LEMMA FileFacts ==
  ASSUME TypeOK
  PROVE  /\ \A p \in Checked : files[p] \in File \union {Absent}
         /\ \A t \in Tables : accounts[t] \in Passwds \union Groups
         /\ \A t \in Tables :
              /\ resolver[t] \in Load
              /\ resolver[t].file \in Seq(Line)
              /\ resolver[t].read \in Nat
              /\ resolver[t].table \in Table
<1>1. \A p \in Checked : p \in Paths
  BY CheckFacts DEF Checked
<1>2. \A t \in Tables : accounts[t] \in Passwds \union Groups
  BY DEF TypeOK, Tables
<1>3. ASSUME NEW t \in Tables
      PROVE  /\ resolver[t] \in Load
             /\ resolver[t].file \in Seq(Line)
             /\ resolver[t].read \in Nat
             /\ resolver[t].table \in Table
  <2>1. resolver[t] \in Load
    BY DEF TypeOK
  <2>2. <<>> \in Seq(Line)
    OBVIOUS
  <2>. QED
    BY <2>1, <2>2, AccountFilesAssumption DEF Load
<1>4. \A p \in Checked : files[p] \in File \union {Absent}
  BY <1>1, FilesAssumption DEF TypeOK
<1>. QED
  BY <1>2, <1>3, <1>4

-----------------------------------------------------------------------------
LEMMA FreshIsLoad == Fresh \in Load /\ Fresh.file = <<>> /\ Fresh.read = 0
BY EmptyTells DEF Fresh, Load

LEMMA InitTypeOK == Init => TypeOK
<1> SUFFICES ASSUME Init PROVE TypeOK
  OBVIOUS
<1>1. checks \in Seq(Check)
  BY SectionsAssumption DEF Init
<1>2. turn \in 1..(Len(checks) + 1)
  <2>1. Len(checks) \in Nat
    BY <1>1
  <2>2. turn = 1
    BY DEF Init
  <2>. QED
    BY <2>1, <2>2
<1>3. resolver \in [Tables -> Load] /\ \A t \in Tables : resolver[t].read <= Len(resolver[t].file)
  <2>1. resolver = [t \in Tables |-> Fresh]
    BY DEF Init
  <2>2. Fresh.read <= Len(Fresh.file)
    BY FreshIsLoad
  <2>. QED
    BY <2>1, <2>2, FreshIsLoad
<1>4. DOMAIN files = Checked /\ \A p \in Checked : files[p] \in Files[p]
  BY DEF Init
<1>5. DOMAIN accounts = Tables /\ accounts["passwd"] \in Passwds /\ accounts["group"] \in Groups
  BY DEF Init, Tables
<1>6. changes \in 0..MaxChanges
  <2>1. changes = 0
    BY DEF Init
  <2>. QED
    BY <2>1, MaxChangesAssumption
<1>7. /\ ctx \in [Checks -> {"live", "ended"}]
      /\ results \in [Checks -> Verdicts \union {"", "GATED"}]
      /\ at \in [Checks -> Places]
      /\ found \in [Checks -> File \union {Absent, Nothing}]
      /\ answer \in [Checks -> Verdicts \union {""}]
  BY DEF Init, Places
<1>. QED
  BY <1>2, <1>3, <1>4, <1>5, <1>6, <1>7 DEF TypeOK, Init

\* What the engine and the host do to the types.
LEMMA RecordTypeOK ==
  ASSUME TypeOK, turn \in Checks, NEW v \in Verdicts \union {"", "GATED"}, Record(v)
  PROVE  TypeOK'
<1>2. turn' \in 1..(Len(checks) + 1)
  <2>2. turn' = turn + 1
    BY DEF Record
  <2>. QED
    BY <2>2, SectionFacts, NextTurn
<1>3. results' \in [Checks -> Verdicts \union {"", "GATED"}]
  BY DEF Record, TypeOK
<1>4. UNCHANGED <<checks, ctx, at, found, answer, resolver, files, accounts, changes>>
  BY DEF Record, checkVars, hostVars
<1>. QED
  BY <1>2, <1>3, <1>4 DEF TypeOK, Checks, Checked

LEMMA ChangeTypeOK == TypeOK /\ Change => TypeOK'
<1> SUFFICES ASSUME TypeOK, Change PROVE TypeOK'
  OBVIOUS
<1>1. changes' \in 0..MaxChanges
  <2>1. changes' = changes + 1 /\ changes < MaxChanges /\ changes \in 0..MaxChanges
    BY DEF Change, TypeOK
  <2>. QED
    BY <2>1, MaxChangesAssumption
<1>2. DOMAIN files' = Checked /\ \A p \in Checked : files'[p] \in Files[p]
  BY DEF Change, TypeOK
<1>3. /\ DOMAIN accounts' = Tables
      /\ accounts'["passwd"] \in Passwds /\ accounts'["group"] \in Groups
  <2>1. /\ DOMAIN accounts = Tables
        /\ accounts["passwd"] \in Passwds /\ accounts["group"] \in Groups
    BY DEF TypeOK
  <2>2. \/ \E file \in Passwds : accounts' = [accounts EXCEPT !["passwd"] = file]
        \/ \E file \in Groups : accounts' = [accounts EXCEPT !["group"] = file]
        \/ UNCHANGED accounts
    BY DEF Change
  <2>. QED
    BY <2>1, <2>2 DEF Tables
<1>4. UNCHANGED <<checks, turn, ctx, results, at, found, answer, resolver>>
  BY DEF Change, engineVars, checkVars
<1>. QED
  BY <1>1, <1>2, <1>3, <1>4 DEF TypeOK, Checks, Checked

LEMMA EngineTypeOK == TypeOK /\ EngineStep => TypeOK'
<1> SUFFICES ASSUME TypeOK, EngineStep PROVE TypeOK'
  OBVIOUS
<1>1. CASE Block
  BY <1>1, RecordTypeOK DEF Block
<1>2. CASE TakeResult
  <2>1. answer[turn] \in Verdicts \union {""}
    BY <1>2 DEF TakeResult, TypeOK
  <2>. QED
    BY <1>2, <2>1, RecordTypeOK DEF TakeResult
<1>3. CASE StopWaiting
  BY <1>3, RecordTypeOK DEF StopWaiting, Verdicts
<1>4. CASE Launch
  BY <1>4 DEF Launch, TypeOK, engineVars, hostVars, Checks, Checked, Places
<1>5. CASE Expire
  BY <1>5 DEF Expire, TypeOK, checkVars, hostVars, Checks, Checked
<1>. QED
  BY <1>1, <1>2, <1>3, <1>4, <1>5, ChangeTypeOK DEF EngineStep

\* What a check does to the types.
LEMMA WorkerTypeOK ==
  ASSUME TypeOK, NEW i \in Checks,
         UNCHANGED <<engineVars, hostVars>>,
         NEW w \in Places, Go(i, w),
         UNCHANGED answer \/ \E v \in Verdicts : answer' = [answer EXCEPT ![i] = v],
         UNCHANGED found \/ \E f \in File \union {Absent} : found' = [found EXCEPT ![i] = f],
         UNCHANGED resolver
           \/ \E l \in Load : l.read <= Len(l.file) /\ Loads(i, l)
  PROVE  TypeOK'
<1>1. at' \in [Checks -> Places]
  BY DEF TypeOK, Go
<1>2. answer' \in [Checks -> Verdicts \union {""}]
  BY DEF TypeOK
<1>3. found' \in [Checks -> File \union {Absent, Nothing}]
  BY DEF TypeOK
<1>4. resolver' \in [Tables -> Load] /\ \A t \in Tables : resolver'[t].read <= Len(resolver'[t].file)
  <2>1. resolver \in [Tables -> Load] /\ \A t \in Tables : resolver[t].read <= Len(resolver[t].file)
    BY DEF TypeOK
  <2>2. ASSUME NEW l \in Load, l.read <= Len(l.file), Loads(i, l)
        PROVE  resolver' \in [Tables -> Load]
                 /\ \A t \in Tables : resolver'[t].read <= Len(resolver'[t].file)
    <3>1. Asked(i) \in Tables /\ resolver' = [resolver EXCEPT ![Asked(i)] = l]
      BY <2>2, CheckFacts DEF Loads
    <3>. QED
      BY <2>1, <2>2, <3>1
  <2>. QED
    BY <2>1, <2>2
<1>5. UNCHANGED <<checks, turn, ctx, results, files, accounts, changes>>
  BY DEF engineVars, hostVars
<1>6. Checks' = Checks /\ Checked' = Checked
  BY <1>5 DEF Checks, Checked
<1>7. /\ checks' \in Sections
      /\ turn' \in 1..(Len(checks') + 1)
      /\ ctx' \in [Checks' -> {"live", "ended"}]
      /\ results' \in [Checks' -> Verdicts \union {"", "GATED"}]
      /\ changes' \in 0..MaxChanges
  BY <1>5, <1>6 DEF TypeOK
<1>8. /\ DOMAIN files' = Checked' /\ \A p \in Checked' : files'[p] \in Files[p]
      /\ DOMAIN accounts' = Tables
      /\ accounts'["passwd"] \in Passwds /\ accounts'["group"] \in Groups
  BY <1>5, <1>6 DEF TypeOK
<1>. QED
  BY <1>1, <1>2, <1>3, <1>4, <1>6, <1>7, <1>8 DEF TypeOK

LEMMA BeginTypeOK == ASSUME TypeOK, NEW i \in Checks, Begin(i) PROVE TypeOK'
<1>1. CASE ctx[i] = "ended"
  BY <1>1, WorkerTypeOK DEF Begin, Answer, Verdicts, Places
<1>2. CASE ctx[i] # "ended"
  BY <1>2, WorkerTypeOK DEF Begin, Places
<1>. QED
  BY <1>1, <1>2

\* The ways Lstat goes on.
LEMMA LstatSteps ==
  ASSUME TypeOK, NEW i \in Checks, Lstat(i)
  PROVE  /\ at[i] = "lstat"
         /\ UNCHANGED <<engineVars, resolver, hostVars>>
         /\ UNCHANGED found \/ \E f \in File \union {Absent} : found' = [found EXCEPT ![i] = f]
         /\ \/ \E v \in Verdicts \ {"ERROR/TIMEOUT"} : Answer(i, v) /\
                 (Kind(i) \in Owners => v \notin {"PASS", "FAIL", "INSUFFICIENT_DATA/PARSE_ERROR"})
            \/ /\ Kind(i) \in Owners /\ Go(i, "load") /\ UNCHANGED answer
               /\ \E f \in File : found' = [found EXCEPT ![i] = f]
<1> DEFINE file == files[checks[i].path]
<1>1. file \in File \union {Absent}
  BY CheckFacts, FileFacts
<1>2. \A b : Judged(b) \in {"PASS", "FAIL"}
  BY DEF Judged
<1>3. CASE /\ found' = [found EXCEPT ![i] = file]
           /\ file = Absent
           /\ Answer(i, IF Kind(i) \in Gates THEN "FAIL/NOT_FOUND" ELSE "ERROR/PARSE_ERROR")
  <2> DEFINE v == IF Kind(i) \in Gates THEN "FAIL/NOT_FOUND" ELSE "ERROR/PARSE_ERROR"
  <2>1. v \in Verdicts \ {"ERROR/TIMEOUT", "PASS", "FAIL", "INSUFFICIENT_DATA/PARSE_ERROR"}
    BY DEF Verdicts
  <2>2. /\ Answer(i, v) /\ at[i] = "lstat"
        /\ UNCHANGED <<engineVars, resolver, hostVars>>
        /\ \E f \in File \union {Absent} : found' = [found EXCEPT ![i] = f]
    BY <1>1, <1>3 DEF Lstat
  <2>. HIDE DEF v
  <2>. QED
    BY <2>1, <2>2
<1>4. CASE /\ found' = [found EXCEPT ![i] = file]
           /\ file # Absent
           /\ Kind(i) \in Owners /\ Go(i, "load") /\ UNCHANGED answer
  BY <1>1, <1>4 DEF Lstat
<1>5. CASE /\ found' = [found EXCEPT ![i] = file]
           /\ Kind(i) \notin Owners /\ Answer(i, Judged(Matches(checks[i], file)))
  <2>1. Judged(Matches(checks[i], file)) \in Verdicts \ {"ERROR/TIMEOUT"}
    BY <1>2 DEF Verdicts
  <2>. QED
    BY <1>1, <1>5, <2>1 DEF Lstat
<1>6. CASE /\ \E failure \in LstatFailures :
                Answer(i, IF failure = "permission" THEN "ERROR/PERMISSION_DENIED"
                                                    ELSE "ERROR/PARSE_ERROR")
           /\ UNCHANGED found
  BY <1>6 DEF Lstat, Verdicts
<1>. QED
  BY <1>3, <1>4, <1>5, <1>6 DEF Lstat

LEMMA LstatTypeOK == ASSUME TypeOK, NEW i \in Checks, Lstat(i) PROVE TypeOK'
<1>1. "done" \in Places /\ "load" \in Places
  BY DEF Places
<1>2. /\ UNCHANGED <<engineVars, resolver, hostVars>>
      /\ UNCHANGED found \/ \E f \in File \union {Absent} : found' = [found EXCEPT ![i] = f]
  BY LstatSteps
<1>3. CASE \E v \in Verdicts : Answer(i, v)
  <2>1. Go(i, "done") /\ \E v \in Verdicts : answer' = [answer EXCEPT ![i] = v]
    BY <1>3 DEF Answer
  <2>. QED
    BY <1>1, <1>2, <2>1, WorkerTypeOK
<1>4. CASE Go(i, "load") /\ UNCHANGED answer
  BY <1>1, <1>2, <1>4, WorkerTypeOK
<1>. QED
  BY <1>3, <1>4, LstatSteps

\* The states of a table that the steps of a load make.
LEMMA LoadFailed ==
  ASSUME NEW r \in Load, NEW l, l = [r EXCEPT !.err = TRUE, !.once = "done"]
  PROVE  /\ l \in Load /\ l.once = "done" /\ l.file = r.file
         /\ l.read = r.read /\ l.table = r.table /\ l.err
BY DEF Load

LEMMA LoadEnded ==
  ASSUME NEW r \in Load, NEW l, l = [r EXCEPT !.once = "done"]
  PROVE  /\ l \in Load /\ l.once = "done" /\ l.file = r.file
         /\ l.read = r.read /\ l.table = r.table /\ l.err = r.err
BY DEF Load

\* What each step of a check does, for the parts of the invariant.
LEMMA OpenSteps ==
  ASSUME TypeOK, NEW i \in Checks, Open(i)
  PROVE  /\ UNCHANGED <<engineVars, found, answer, hostVars>>
         /\ at[i] = "load" /\ Go(i, "loading")
         /\ resolver[Asked(i)].once = "new"
         /\ \E l \in Load : /\ Loads(i, l)
                            /\ l.once = "busy" /\ l.read = 0 /\ l.table = EmptyTable /\ ~l.err
                            /\ l.file \in Seq(Line)
<1> DEFINE l == [Fresh EXCEPT !.once = "busy", !.file = accounts[Asked(i)]]
<1>1. accounts[Asked(i)] \in Passwds \union Groups
  BY CheckFacts, FileFacts
<1>2. Loads(i, l)
  BY DEF Open
<1>. HIDE DEF l
<1>3. /\ l \in Load /\ l.once = "busy" /\ l.file = accounts[Asked(i)]
      /\ l.read = Fresh.read /\ l.table = Fresh.table /\ l.err = Fresh.err
  <2> DEFINE f == accounts[Asked(i)]
  <2>1. l = [Fresh EXCEPT !.once = "busy", !.file = f]
    BY DEF l
  <2>2. f \in Passwds \union Groups /\ Fresh \in Load
    BY <1>1, FreshIsLoad
  <2>. HIDE DEF f
  <2>3. /\ l \in Load /\ l.once = "busy" /\ l.file = f
        /\ l.read = Fresh.read /\ l.table = Fresh.table /\ l.err = Fresh.err
    BY <2>1, <2>2 DEF Load
  <2>. QED
    BY <2>3 DEF f
<1>4. Fresh.read = 0 /\ Fresh.table = EmptyTable /\ Fresh.err = FALSE
  BY DEF Fresh
<1>5. l.file \in Seq(Line)
  BY <1>1, <1>3, AccountFilesAssumption
<1>. QED
  BY <1>2, <1>3, <1>4, <1>5 DEF Open

LEMMA ReadSteps ==
  ASSUME TypeOK, TableInv, NEW i \in Checks, ReadEntry(i)
  PROVE  /\ UNCHANGED <<engineVars, checkVars, hostVars>>
         /\ at[i] = "loading"
         /\ \E l \in Load :
              /\ Loads(i, l)
              /\ l.once = resolver[Asked(i)].once /\ l.err = resolver[Asked(i)].err
              /\ l.file = resolver[Asked(i)].file
              /\ l.read = resolver[Asked(i)].read + 1 /\ l.read <= Len(l.file)
              /\ l.file[l.read] # Unreadable
              /\ Tells(l.table, SubSeq(l.file, 1, l.read))
<1> DEFINE r == resolver[Asked(i)]
           e == r.file[r.read + 1]
           l == [r EXCEPT !.read = @ + 1, !.table = Added(@, e)]
           old == SubSeq(r.file, 1, r.read)
           new == SubSeq(r.file, 1, r.read + 1)
<1>1. /\ Asked(i) \in Tables /\ r \in Load
      /\ r.file \in Seq(Line) /\ r.read \in Nat /\ r.table \in Table
  BY CheckFacts, FileFacts
<1>2. /\ r.read < Len(r.file) /\ e # Unreadable /\ Loads(i, l) /\ at[i] = "loading"
      /\ UNCHANGED <<engineVars, checkVars, hostVars>>
  BY DEF ReadEntry, HasLine, NextLine
<1>3. r.read + 1 <= Len(r.file) /\ r.read + 1 \in Nat
  BY <1>1, <1>2
<1>4. Tells(r.table, old)
  BY <1>1 DEF TableInv, SoFar
<1>5. /\ e \in Account
      /\ \A x : x \in Entries(new) <=> x \in Entries(old) \/ x = e
  BY <1>1, <1>2, <1>3, EntriesOfPrefix
<1>6. Entries(old) \subseteq Account
  <2>1. old \in Seq(Line)
    BY <1>1, <1>3
  <2>. QED
    BY <2>1, EntriesAreAccounts
<1>7. Added(r.table, e) \in Table /\ Tells(Added(r.table, e), new)
  <2>. HIDE DEF old, new, e, r
  <2>. QED
    BY <1>1, <1>4, <1>5, <1>6, AddedTells
<1>. HIDE DEF l, r, e
<1>10. /\ l \in Load /\ l.once = r.once /\ l.err = r.err /\ l.file = r.file
       /\ l.read = r.read + 1 /\ l.table = Added(r.table, e)
  <2> DEFINE n == r.read + 1
             t == Added(r.table, e)
  <2>1. l = [r EXCEPT !.read = n, !.table = t]
    BY DEF l
  <2>2. n \in Nat /\ t \in Table /\ r \in Load
    BY <1>1, <1>3, <1>7
  <2>. HIDE DEF n, t
  <2>3. /\ l \in Load /\ l.once = r.once /\ l.file = r.file
        /\ l.read = n /\ l.table = t /\ l.err = r.err
    BY <2>1, <2>2 DEF Load
  <2>. QED
    BY <2>3 DEF n, t
<1>11. l.file[l.read] # Unreadable /\ l.read <= Len(l.file)
  BY <1>2, <1>3, <1>10 DEF e
<1>. QED
  BY <1>2, <1>7, <1>10, <1>11 DEF r

\* A load ends, at the end of the file or at a line that cannot be read.
EndsLoad(i) == FailLoad(i) \/ EndLoad(i)

LEMMA EndSteps ==
  ASSUME TypeOK, NEW i \in Checks, EndsLoad(i)
  PROVE  /\ UNCHANGED <<engineVars, found, answer, hostVars>>
         /\ at[i] = "loading" /\ Go(i, "resolve")
         /\ \E l \in Load :
              /\ Loads(i, l)
              /\ l.once = "done"
              /\ l.file = resolver[Asked(i)].file /\ l.read = resolver[Asked(i)].read
              /\ l.table = resolver[Asked(i)].table
              /\ l.err => \/ l.read < Len(l.file) /\ l.file[l.read + 1] = Unreadable
                          \/ resolver[Asked(i)].err
              /\ ~l.err => l.read = Len(l.file)
<1> DEFINE r == resolver[Asked(i)]
<1>1. /\ Asked(i) \in Tables /\ r \in Load
      /\ r.file \in Seq(Line) /\ r.read \in Nat /\ r.table \in Table
      /\ r.read <= Len(r.file) /\ Len(r.file) \in Nat
  <2>1. /\ Asked(i) \in Tables /\ r \in Load
        /\ r.file \in Seq(Line) /\ r.read \in Nat /\ r.table \in Table
    BY CheckFacts, FileFacts
  <2>2. r.read <= Len(r.file)
    BY <2>1 DEF TypeOK
  <2>. HIDE DEF r
  <2>. QED
    BY <2>1, <2>2, LenProperties
<1>2. CASE FailLoad(i)
  <2> DEFINE l == [r EXCEPT !.err = TRUE, !.once = "done"]
  <2>3. /\ UNCHANGED <<engineVars, found, answer, hostVars>>
        /\ at[i] = "loading" /\ Go(i, "resolve") /\ Loads(i, l)
        /\ r.read < Len(r.file) /\ r.file[r.read + 1] = Unreadable
    BY <1>2 DEF FailLoad, HasLine, NextLine
  <2>4. /\ l \in Load /\ l.once = "done" /\ l.file = r.file
        /\ l.read = r.read /\ l.table = r.table /\ l.err
    BY <1>1, LoadFailed
  <2>. HIDE DEF l
  <2>. QED
    BY <2>3, <2>4
<1>3. CASE EndLoad(i)
  <2> DEFINE l == [r EXCEPT !.once = "done"]
  <2>3. /\ UNCHANGED <<engineVars, found, answer, hostVars>>
        /\ at[i] = "loading" /\ Go(i, "resolve") /\ Loads(i, l)
        /\ ~(r.read < Len(r.file))
    BY <1>3 DEF EndLoad, HasLine
  <2>4. r.read = Len(r.file)
    BY <1>1, <2>3
  <2>5. /\ l \in Load /\ l.once = "done" /\ l.file = r.file
        /\ l.read = r.read /\ l.table = r.table /\ l.err = r.err
    BY <1>1, LoadEnded
  <2>. HIDE DEF l
  <2>. QED
    BY <2>3, <2>4, <2>5
<1>. QED
  BY <1>2, <1>3 DEF EndsLoad

LEMMA ResolvedKinds ==
  \A i : Resolved(i) \in {"PASS", "FAIL", "INSUFFICIENT_DATA/PARSE_ERROR"}
BY DEF Resolved, Judged

LEMMA WorkersTypeOK ==
  ASSUME TypeOK, TableInv, NEW i \in Checks, Worker(i)
  PROVE  TypeOK'
<1>0. {"load", "loading", "resolve", "done"} \subseteq Places
  BY DEF Places
<1>1. CASE Begin(i)
  BY <1>1, BeginTypeOK
<1>2. CASE Lstat(i)
  BY <1>2, LstatTypeOK
<1>3. CASE Open(i)
  <2>1. \A l : l.read = 0 /\ l.file \in Seq(Line) => l.read <= Len(l.file)
    OBVIOUS
  <2>. QED
    BY <1>0, <1>3, <2>1, OpenSteps, WorkerTypeOK
<1>4. CASE Pass(i)
  BY <1>0, <1>4, WorkerTypeOK DEF Pass
<1>5. CASE ReadEntry(i)
  <2>1. Go(i, "loading")
    BY <1>5, ReadSteps DEF Go, TypeOK, checkVars
  <2>. QED
    BY <1>0, <1>5, <2>1, ReadSteps, WorkerTypeOK DEF checkVars
<1>6. CASE EndsLoad(i)
  <2>1. resolver[Asked(i)].read <= Len(resolver[Asked(i)].file)
    BY CheckFacts DEF TypeOK
  <2>. QED
    BY <1>0, <1>6, <2>1, EndSteps, WorkerTypeOK
<1>7. CASE Resolve(i)
  <2>1. Resolved(i) \in Verdicts
    BY ResolvedKinds DEF Verdicts
  <2>2. Go(i, "done") /\ answer' = [answer EXCEPT ![i] = Resolved(i)]
        /\ UNCHANGED <<engineVars, found, resolver, hostVars>>
    BY <1>7 DEF Resolve, Answer
  <2>. QED
    BY <1>0, <2>1, <2>2, WorkerTypeOK
<1>. QED
  BY <1>1, <1>2, <1>3, <1>4, <1>5, <1>6, <1>7 DEF Worker, EndsLoad

LEMMA LoadsAt ==
  ASSUME TypeOK, NEW i \in Checks, NEW l, Loads(i, l)
  PROVE  /\ Asked(i) \in Tables /\ resolver'[Asked(i)] = l
         /\ \A t \in Tables : t # Asked(i) => resolver'[t] = resolver[t]
BY CheckFacts DEF Loads, TypeOK

LEMMA GoesAt ==
  ASSUME TypeOK, NEW i \in Checks, NEW w, Go(i, w)
  PROVE  at'[i] = w /\ \A j \in Checks : j # i => at'[j] = at[j]
BY DEF Go, TypeOK

LEMMA SectionKept ==
  ASSUME UNCHANGED checks
  PROVE  Checks' = Checks /\ \A i : Kind(i)' = Kind(i) /\ Asked(i)' = Asked(i)
BY DEF Checks, Kind, Asked

-----------------------------------------------------------------------------
\* The table.
LEMMA TableStep ==
  ASSUME TypeOK, TableInv, NEW i \in Checks, NEW l, Loads(i, l),
         \A k \in 1..l.read : l.file[k] # Unreadable,
         Tells(l.table, SubSeq(l.file, 1, l.read))
  PROVE  TableInv'
<1> DEFINE Told(r) == /\ \A k \in 1..r.read : r.file[k] # Unreadable
                      /\ Tells(r.table, SubSeq(r.file, 1, r.read))
<1>1. \A t \in Tables : Told(resolver[t])
  BY DEF TableInv, SoFar
<1>2. Told(l)
  OBVIOUS
<1>. HIDE DEF Told
<1>3. \A t \in Tables : Told(resolver'[t])
  BY <1>1, <1>2, LoadsAt
<1>. QED
  BY <1>3 DEF Told, TableInv, SoFar

LEMMA TableKept == TableInv /\ UNCHANGED resolver => TableInv'
BY DEF TableInv, SoFar

LEMMA TableNext ==
  ASSUME TypeOK, TableInv, NEW i \in Checks, Worker(i)
  PROVE  TableInv'
<1>1. CASE UNCHANGED resolver
  BY <1>1, TableKept
<1>2. CASE Open(i)
  <2>1. PICK l \in Load : Loads(i, l) /\ l.read = 0 /\ l.table = EmptyTable
    BY <1>2, OpenSteps
  <2>2. SubSeq(l.file, 1, l.read) = <<>> /\ 1..l.read = {}
    BY <2>1, SubSeqEmpty
  <2>. QED
    BY <2>1, <2>2, EmptyTells, TableStep
<1>3. CASE ReadEntry(i)
  <2>1. PICK l \in Load :
          /\ Loads(i, l)
          /\ l.file = resolver[Asked(i)].file
          /\ l.read = resolver[Asked(i)].read + 1
          /\ l.file[l.read] # Unreadable
          /\ Tells(l.table, SubSeq(l.file, 1, l.read))
    BY <1>3, ReadSteps
  <2>2. resolver[Asked(i)].read \in Nat
        /\ \A k \in 1..resolver[Asked(i)].read : resolver[Asked(i)].file[k] # Unreadable
    BY CheckFacts, FileFacts DEF TableInv
  <2>3. \A k \in 1..l.read : k \in 1..resolver[Asked(i)].read \/ k = l.read
    BY <2>1, <2>2
  <2>4. \A k \in 1..l.read : l.file[k] # Unreadable
    BY <2>1, <2>2, <2>3
  <2>. QED
    BY <2>1, <2>4, TableStep
<1>4. CASE EndsLoad(i)
  <2>1. PICK l \in Load :
          /\ Loads(i, l)
          /\ l.file = resolver[Asked(i)].file /\ l.read = resolver[Asked(i)].read
          /\ l.table = resolver[Asked(i)].table
    BY <1>4, EndSteps
  <2>2. /\ \A k \in 1..l.read : l.file[k] # Unreadable
        /\ Tells(l.table, SubSeq(l.file, 1, l.read))
    BY <2>1, CheckFacts DEF TableInv, SoFar
  <2>. QED
    BY <2>1, <2>2, TableStep
<1>. QED
  BY <1>1, <1>2, <1>3, <1>4 DEF Worker, EndsLoad, Begin, Lstat, Pass, Resolve

-----------------------------------------------------------------------------
\* The Once: what OnceInv says of one table.
OnceOf(t) ==
  /\ resolver[t].once = "new" => resolver[t] = Fresh
  /\ resolver[t].once = "busy" =>
       \E i \in Checks : at[i] = "loading" /\ Kind(i) \in Owners /\ Asked(i) = t
  /\ resolver[t].err =>
       /\ resolver[t].once = "done"
       /\ resolver[t].read < Len(resolver[t].file)
       /\ resolver[t].file[resolver[t].read + 1] = Unreadable
  /\ resolver[t].once = "done" /\ ~resolver[t].err =>
       resolver[t].read = Len(resolver[t].file)

LEMMA OnceOfAll == OnceInv <=> \A t \in Tables : OnceOf(t)
BY DEF OnceInv, OnceOf

LEMMA OnceKept ==
  ASSUME UNCHANGED checks, NEW t, UNCHANGED resolver[t], OnceOf(t),
         \A j \in Checks : Asked(j) = t /\ at[j] = "loading" => at'[j] = "loading"
  PROVE  OnceOf(t)'
<1>1. /\ resolver[t]'.once = "new" => resolver[t]' = Fresh
      /\ resolver[t]'.err =>
           /\ resolver[t]'.once = "done"
           /\ resolver[t]'.read < Len(resolver[t]'.file)
           /\ resolver[t]'.file[resolver[t]'.read + 1] = Unreadable
      /\ resolver[t]'.once = "done" /\ ~resolver[t]'.err =>
           resolver[t]'.read = Len(resolver[t]'.file)
  BY DEF OnceOf
<1>2. resolver[t]'.once = "busy" =>
        \E i \in Checks : at'[i] = "loading" /\ Kind(i) \in Owners /\ Asked(i) = t
  BY DEF OnceOf
<1>. QED
  BY <1>1, <1>2, SectionKept DEF OnceOf

LEMMA OnceNext ==
  ASSUME TypeOK, OnceInv, LoaderInv, TableInv, NEW i \in Checks, Worker(i)
  PROVE  OnceInv'
<1>1. UNCHANGED checks /\ Checks' = Checks
  BY SectionKept DEF Worker, Begin, Lstat, Open, Pass, ReadEntry, FailLoad, EndLoad, Resolve, engineVars
<1>2. \A t \in Tables : OnceOf(t)
  BY OnceOfAll
<1>3. Asked(i) \in Tables
  BY CheckFacts
<1>4. ASSUME NEW t \in Tables, t # Asked(i), UNCHANGED resolver[t], NEW w, Go(i, w)
      PROVE  OnceOf(t)'
  BY <1>1, <1>2, <1>4, OnceKept, GoesAt
<1>5. CASE /\ UNCHANGED resolver /\ at[i] # "loading"
           /\ \E w : Go(i, w)
  <2>1. \A j \in Checks : at[j] = "loading" => at'[j] = "loading"
    BY <1>5, GoesAt
  <2>2. \A t \in Tables : OnceOf(t)'
    BY <1>1, <1>2, <1>5, <2>1, OnceKept
  <2>. QED
    BY <2>2 DEF OnceInv, OnceOf
<1>6. CASE Open(i)
  <2>1. PICK l \in Load : /\ Loads(i, l)
                          /\ l.once = "busy" /\ ~l.err
    BY <1>6, OpenSteps
  <2>2. /\ resolver'[Asked(i)] = l /\ \A t \in Tables : t # Asked(i) => resolver'[t] = resolver[t]
        /\ at'[i] = "loading" /\ at[i] = "load" /\ Go(i, "loading")
    BY <1>6, <2>1, OpenSteps, LoadsAt, GoesAt
  <2>3. Kind(i) \in Owners
    BY <2>2 DEF LoaderInv
  <2>4. OnceOf(Asked(i))'
    BY <1>1, <2>1, <2>2, <2>3, SectionKept DEF OnceOf
  <2>5. \A t \in Tables : OnceOf(t)'
    BY <1>1, <1>4, <2>2, <2>4, SectionKept
  <2>. QED
    BY <2>5 DEF OnceInv, OnceOf
<1>7. CASE ReadEntry(i)
  <2>1. PICK l \in Load :
          /\ Loads(i, l)
          /\ l.once = resolver[Asked(i)].once /\ l.err = resolver[Asked(i)].err
    BY <1>7, ReadSteps
  <2>2. /\ resolver'[Asked(i)] = l /\ \A t \in Tables : t # Asked(i) => resolver'[t] = resolver[t]
        /\ at' = at /\ at[i] = "loading"
    BY <1>7, <2>1, ReadSteps, LoadsAt DEF checkVars
  <2>3. Kind(i) \in Owners /\ l.once = "busy" /\ ~l.err
    BY <1>2, <1>3, <2>1, <2>2 DEF LoaderInv, OnceOf
  <2>4. OnceOf(Asked(i))'
    BY <1>1, <2>1, <2>2, <2>3, SectionKept DEF OnceOf
  <2>5. \A t \in Tables : t # Asked(i) => OnceOf(t)'
    BY <1>1, <1>2, <2>2, OnceKept
  <2>6. \A t \in Tables : OnceOf(t)'
    BY <2>4, <2>5, SectionKept, <1>1
  <2>. QED
    BY <2>6 DEF OnceInv, OnceOf
<1>8. CASE EndsLoad(i)
  <2>1. PICK l \in Load :
          /\ Loads(i, l)
          /\ l.once = "done"
          /\ l.err => \/ l.read < Len(l.file) /\ l.file[l.read + 1] = Unreadable
                      \/ resolver[Asked(i)].err
          /\ ~l.err => l.read = Len(l.file)
    BY <1>8, EndSteps
  <2>2. /\ resolver'[Asked(i)] = l /\ \A t \in Tables : t # Asked(i) => resolver'[t] = resolver[t]
        /\ at[i] = "loading" /\ Go(i, "resolve")
    BY <1>8, <2>1, EndSteps, LoadsAt
  <2>3. ~resolver[Asked(i)].err
    BY <1>2, <1>3, <2>2 DEF LoaderInv, OnceOf
  <2>4. OnceOf(Asked(i))'
    BY <1>1, <2>1, <2>2, <2>3, SectionKept DEF OnceOf
  <2>5. \A t \in Tables : OnceOf(t)'
    BY <1>1, <1>4, <2>2, <2>4, SectionKept
  <2>. QED
    BY <2>5 DEF OnceInv, OnceOf
<1>9. CASE Begin(i)
  BY <1>5, <1>9 DEF Begin, Answer
<1>10. CASE Lstat(i)
  BY <1>5, <1>10, LstatSteps DEF Answer
<1>11. CASE Pass(i) \/ Resolve(i)
  BY <1>5, <1>11 DEF Pass, Resolve, Answer
<1>. QED
  BY <1>6, <1>7, <1>8, <1>9, <1>10, <1>11 DEF Worker, EndsLoad

\* Where each check is, and what it then has.
LoaderOf(i) ==
  /\ at[i] \in {"load", "loading", "resolve"} => Kind(i) \in Owners /\ found[i] \in File
  /\ at[i] = "loading" =>
       /\ resolver[Asked(i)].once = "busy"
       /\ \A j \in Checks : at[j] = "loading" /\ Asked(j) = Asked(i) => j = i
  /\ at[i] = "resolve" => resolver[Asked(i)].once = "done"
  /\ at[i] = "done" => answer[i] # ""

LEMMA LoaderOfAll == LoaderInv <=> \A i \in Checks : LoaderOf(i)
BY DEF LoaderInv, LoaderOf

\* A check that does not move, while no other one starts to load what it loads.
LEMMA LoaderKept ==
  ASSUME UNCHANGED checks, NEW j \in Checks, LoaderOf(j),
         UNCHANGED <<at[j], found[j], answer[j]>>,
         at[j] \in {"loading", "resolve"} => UNCHANGED resolver[Asked(j)].once,
         \A k \in Checks : at'[k] = "loading" => at[k] = "loading" \/ Asked(k) # Asked(j)
  PROVE  LoaderOf(j)'
<1>1. Checks' = Checks /\ \A i : Kind(i)' = Kind(i) /\ Asked(i)' = Asked(i)
  BY SectionKept
<1>2. /\ at[j]' \in {"load", "loading", "resolve"} => Kind(j)' \in Owners /\ found[j]' \in File
      /\ at[j]' = "done" => answer[j]' # ""
  BY <1>1 DEF LoaderOf
<1>3. Asked(j)' = Asked(j)
  BY <1>1
<1>4. at[j]' = "resolve" => resolver'[Asked(j)'].once = "done"
  BY <1>1 DEF LoaderOf
<1>5. at[j]' = "loading" => resolver'[Asked(j)'].once = "busy"
  BY <1>1 DEF LoaderOf
<1>6. at[j]' = "loading" => \A k \in Checks' : at'[k] = "loading" /\ Asked(k)' = Asked(j)' => k = j
  BY <1>1 DEF LoaderOf
<1>. QED
  BY <1>2, <1>4, <1>5, <1>6 DEF LoaderOf

\* What a check other than i keeps.
LEMMA OthersKept ==
  ASSUME TypeOK, TableInv, NEW i \in Checks, Worker(i), NEW j \in Checks, j # i
  PROVE  UNCHANGED <<at[j], found[j], answer[j]>>
<1>1. CASE Lstat(i)
  <2>1. ASSUME \E v : Answer(i, v) PROVE at'[j] = at[j] /\ answer'[j] = answer[j]
    <3>1. PICK v : at' = [at EXCEPT ![i] = "done"] /\ answer' = [answer EXCEPT ![i] = v]
      BY <2>1 DEF Answer, Go
    <3>. QED
      BY <3>1 DEF TypeOK
  <2>3. ASSUME Go(i, "load"), UNCHANGED answer PROVE at'[j] = at[j] /\ answer'[j] = answer[j]
    BY <2>3, GoesAt
  <2>2. found'[j] = found[j]
    BY <1>1, LstatSteps DEF TypeOK
  <2>4. at'[j] = at[j] /\ answer'[j] = answer[j]
    BY <1>1, <2>1, <2>3, LstatSteps
  <2>. QED
    BY <2>2, <2>4
<1>2. CASE Begin(i)
  BY <1>2 DEF Begin, Answer, Go, TypeOK
<1>3. CASE Open(i)
  BY <1>3, GoesAt DEF Open
<1>4. CASE Pass(i)
  BY <1>4, GoesAt DEF Pass
<1>5. CASE ReadEntry(i)
  BY <1>5 DEF ReadEntry, checkVars
<1>6. CASE EndsLoad(i)
  BY <1>6, GoesAt DEF EndsLoad, FailLoad, EndLoad
<1>7. CASE Resolve(i)
  BY <1>7 DEF Resolve, Answer, Go, TypeOK
<1>. QED
  BY <1>1, <1>2, <1>3, <1>4, <1>5, <1>6, <1>7 DEF Worker, EndsLoad

LEMMA WorkerFrame ==
  ASSUME NEW i, Worker(i)
  PROVE  UNCHANGED <<checks, turn, ctx, results, files, accounts, changes>>
BY DEF Worker, Begin, Lstat, Open, Pass, ReadEntry, FailLoad, EndLoad, Resolve, engineVars, hostVars

LEMMA AnswersAt ==
  ASSUME TypeOK, NEW i \in Checks, NEW v, Answer(i, v)
  PROVE  at'[i] = "done" /\ answer'[i] = v
BY DEF Answer, Go, TypeOK

LEMMA LoaderOwn ==
  ASSUME TypeOK, OnceInv, LoaderInv, TableInv, NEW i \in Checks, Worker(i)
  PROVE  LoaderOf(i)'
<1>1. UNCHANGED checks /\ Checks' = Checks /\ \A j : Kind(j)' = Kind(j) /\ Asked(j)' = Asked(j)
  BY WorkerFrame, SectionKept
<1>2. LoaderOf(i)
  BY LoaderOfAll
<1>3. ASSUME NEW v, v # "", Answer(i, v) PROVE LoaderOf(i)'
  BY <1>1, <1>3, AnswersAt DEF LoaderOf
<1>4. CASE Begin(i)
  <2>1. CASE Go(i, "lstat")
    <3>1. at'[i] = "lstat"
      BY <2>1, GoesAt
    <3>. QED
      BY <1>1, <3>1 DEF LoaderOf
  <2>. QED
    BY <1>3, <1>4, <2>1 DEF Begin
<1>5. CASE Lstat(i)
  <2>1. CASE /\ Kind(i) \in Owners /\ Go(i, "load")
             /\ \E f \in File : found' = [found EXCEPT ![i] = f]
    <3>1. found'[i] \in File
      BY <2>1 DEF TypeOK
    <3>2. at'[i] = "load"
      BY <2>1, GoesAt
    <3>. QED
      BY <1>1, <2>1, <3>1, <3>2 DEF LoaderOf
  <2>2. "" \notin Verdicts
    BY DEF Verdicts
  <2>. QED
    BY <1>3, <1>5, <2>1, <2>2, LstatSteps
<1>6. CASE Open(i)
  <2>1. PICK l \in Load : Loads(i, l) /\ l.once = "busy"
    BY <1>6, OpenSteps
  <2>2. /\ resolver'[Asked(i)] = l
        /\ at[i] = "load" /\ Go(i, "loading") /\ found' = found
        /\ resolver[Asked(i)].once = "new"
    BY <1>6, <2>1, OpenSteps, LoadsAt
  <2>3. \A j \in Checks : at'[j] = "loading" /\ Asked(j) = Asked(i) => j = i
    BY <2>2, GoesAt DEF LoaderInv
  <2>4. at'[i] = "loading"
    BY <2>2, GoesAt
  <2>. QED
    BY <1>1, <1>2, <2>1, <2>2, <2>3, <2>4 DEF LoaderOf
<1>7. CASE Pass(i)
  <2>1. /\ at[i] = "load" /\ Go(i, "resolve") /\ found' = found /\ resolver' = resolver
        /\ resolver[Asked(i)].once = "done"
    BY <1>7 DEF Pass
  <2>2. at'[i] = "resolve"
    BY <2>1, GoesAt
  <2>. QED
    BY <1>1, <1>2, <2>1, <2>2 DEF LoaderOf
<1>8. CASE ReadEntry(i)
  <2>1. PICK l \in Load : Loads(i, l) /\ l.once = resolver[Asked(i)].once
    BY <1>8, ReadSteps
  <2>2. resolver'[Asked(i)] = l /\ UNCHANGED <<at, found, answer>>
    BY <1>8, <2>1, LoadsAt DEF ReadEntry, checkVars
  <2>3. UNCHANGED resolver[Asked(i)].once
    BY <1>1, <2>1, <2>2
  <2>. QED
    BY <1>1, <1>2, <2>2, <2>3, LoaderKept
<1>9. CASE EndsLoad(i)
  <2>1. PICK l \in Load : Loads(i, l) /\ l.once = "done"
    BY <1>9, EndSteps
  <2>2. resolver'[Asked(i)] = l /\ at[i] = "loading" /\ Go(i, "resolve") /\ found' = found
    BY <1>9, <2>1, EndSteps, LoadsAt
  <2>3. at'[i] = "resolve"
    BY <2>2, GoesAt
  <2>. QED
    BY <1>1, <1>2, <2>1, <2>2, <2>3 DEF LoaderOf
<1>10. CASE Resolve(i)
  BY <1>3, <1>10, ResolvedKinds DEF Resolve
<1>. QED
  BY <1>4, <1>5, <1>6, <1>7, <1>8, <1>9, <1>10 DEF Worker, EndsLoad

LEMMA LoaderOthers ==
  ASSUME TypeOK, OnceInv, LoaderInv, TableInv, NEW i \in Checks, Worker(i),
         NEW j \in Checks, j # i
  PROVE  LoaderOf(j)'
<1>1. UNCHANGED checks /\ LoaderOf(j) /\ LoaderOf(i)
  BY WorkerFrame, LoaderOfAll
<1>2. UNCHANGED <<at[j], found[j], answer[j]>> /\ \A k \in Checks : k # i => at'[k] = at[k]
  BY OthersKept
<1>3. CASE UNCHANGED resolver /\ at'[i] # "loading"
  <2>1. UNCHANGED resolver[Asked(j)].once
    BY <1>1, <1>3, SectionKept
  <2>2. \A k \in Checks : at'[k] = "loading" => at[k] = "loading" \/ Asked(k) # Asked(j)
    BY <1>2, <1>3
  <2>. QED
    BY <1>1, <1>2, <2>1, <2>2, LoaderKept
<1>4. CASE ReadEntry(i)
  <2>1. PICK l \in Load : Loads(i, l) /\ l.once = resolver[Asked(i)].once
    BY <1>4, ReadSteps
  <2>2. at' = at
    BY <1>4 DEF ReadEntry, checkVars
  <2>3. Asked(j) \in Tables /\ Asked(j)' = Asked(j)
    BY <1>1, CheckFacts, SectionKept
  <2>4. UNCHANGED resolver[Asked(j)].once
    BY <2>1, <2>3, LoadsAt
  <2>. QED
    BY <1>1, <1>2, <2>2, <2>4, LoaderKept
<1>5. CASE Open(i) \/ EndsLoad(i)
  <2>1. /\ at[i] \in {"load", "loading"} /\ \E l \in Load : Loads(i, l)
        /\ Open(i) => resolver[Asked(i)].once = "new"
        /\ EndsLoad(i) => at[i] = "loading" /\ at'[i] = "resolve"
    BY <1>5, OpenSteps, EndSteps, GoesAt
  <2>2. CASE Asked(j) # Asked(i)
    <3>1. Asked(j) \in Tables /\ Asked(j)' = Asked(j)
      BY <1>1, CheckFacts, SectionKept
    <3>2. UNCHANGED resolver[Asked(j)].once
      BY <2>1, <2>2, <3>1, LoadsAt
    <3>. QED
      BY <1>1, <1>2, <2>2, <3>2, LoaderKept
  <2>3. CASE Asked(j) = Asked(i)
    <3>1. at[j] \notin {"loading", "resolve"}
      BY <1>1, <1>5, <2>1, <2>3 DEF LoaderOf
    <3>. QED
      BY <1>1, <1>2, <3>1, SectionKept DEF LoaderOf
  <2>. QED
    BY <2>2, <2>3
<1>6. CASE Begin(i)
  BY <1>3, <1>6, GoesAt DEF Begin, Answer
<1>7. CASE Lstat(i)
  BY <1>3, <1>7, LstatSteps, GoesAt DEF Answer
<1>8. CASE Pass(i) \/ Resolve(i)
  BY <1>3, <1>8, GoesAt DEF Pass, Resolve, Answer
<1>. QED
  BY <1>4, <1>5, <1>6, <1>7, <1>8 DEF Worker, EndsLoad

LEMMA LoaderNext ==
  ASSUME TypeOK, OnceInv, LoaderInv, TableInv, NEW i \in Checks, Worker(i)
  PROVE  LoaderInv'
<1>1. \A j \in Checks : LoaderOf(j)'
  BY LoaderOwn, LoaderOthers
<1>2. Checks' = Checks
  BY WorkerFrame, SectionKept
<1>. QED
  BY <1>1, <1>2 DEF LoaderInv, LoaderOf

\* What a step of the engine, or of the host, leaves the checks.
LEMMA EngineFrame ==
  ASSUME TypeOK, EngineStep
  PROVE  /\ UNCHANGED <<checks, found, answer, resolver>>
         /\ \/ UNCHANGED at
            \/ turn \in Checks /\ at[turn] = "idle" /\ Go(turn, "run")
         /\ \A i \in Checks : ctx[i] = "ended" => ctx'[i] = "ended"
         /\ \A i \in Checks : \/ UNCHANGED results[i]
                              \/ results'[i] = "GATED"
                              \/ results'[i] = "ERROR/TIMEOUT" /\ ctx[i] = "ended"
                              \/ results'[i] = answer[i]
<1>1. ASSUME NEW v, turn \in Checks, Record(v)
      PROVE  /\ UNCHANGED <<checks, found, answer, resolver, at, ctx>>
             /\ results'[turn] = v /\ \A i \in Checks : i # turn => UNCHANGED results[i]
  BY <1>1 DEF Record, checkVars, hostVars, TypeOK
<1>2. CASE Block
  BY <1>1, <1>2 DEF Block
<1>3. CASE TakeResult
  BY <1>1, <1>3 DEF TakeResult
<1>4. CASE StopWaiting
  BY <1>1, <1>4 DEF StopWaiting
<1>5. CASE Launch
  BY <1>5 DEF Launch, Go, engineVars, hostVars
<1>6. CASE Expire
  <2>1. UNCHANGED <<checks, results, found, answer, resolver, at>>
        /\ ctx' = [ctx EXCEPT ![turn] = "ended"]
    BY <1>6 DEF Expire, checkVars, hostVars
  <2>2. \A i \in Checks : ctx[i] = "ended" => ctx'[i] = "ended"
    BY <2>1 DEF TypeOK
  <2>. QED
    BY <2>1, <2>2
<1>7. CASE Change
  BY <1>7 DEF Change, engineVars, checkVars
<1>. QED
  BY <1>2, <1>3, <1>4, <1>5, <1>6, <1>7 DEF EngineStep

LEMMA EngineResolverInv ==
  ASSUME TypeOK, OnceInv, LoaderInv, TableInv, EngineStep
  PROVE  OnceInv' /\ LoaderInv' /\ TableInv'
<1>1. UNCHANGED <<checks, found, answer, resolver>>
      /\ (UNCHANGED at \/ (turn \in Checks /\ at[turn] = "idle" /\ Go(turn, "run")))
  BY EngineFrame
<1>2. Checks' = Checks
  BY <1>1, SectionKept
<1>3. \A i \in Checks : UNCHANGED at[i] \/ (at[i] = "idle" /\ at'[i] = "run")
  BY <1>1, GoesAt
<1>4. \A t \in Tables : OnceOf(t)'
  BY <1>1, <1>3, OnceOfAll, OnceKept
<1>5. ASSUME NEW i \in Checks PROVE LoaderOf(i)'
  <2>1. LoaderOf(i) /\ UNCHANGED resolver[Asked(i)].once
    BY <1>1, LoaderOfAll, SectionKept
  <2>2. CASE UNCHANGED at[i]
    BY <1>1, <1>3, <2>1, <2>2, LoaderKept
  <2>3. CASE at'[i] = "run"
    BY <2>3 DEF LoaderOf
  <2>. QED
    BY <1>3, <2>2, <2>3
<1>6. TableInv'
  BY <1>1, TableKept
<1>. QED
  BY <1>2, <1>4, <1>5, <1>6 DEF OnceInv, OnceOf, LoaderInv, LoaderOf

-----------------------------------------------------------------------------
\* Timeouts and answers.
LEMMA TimeoutEngine == TypeOK /\ TimeoutIsOwn /\ EngineStep => TimeoutIsOwn'
<1> SUFFICES ASSUME TypeOK, TimeoutIsOwn, EngineStep PROVE TimeoutIsOwn'
  OBVIOUS
<1>1. UNCHANGED <<checks, answer>> /\ Checks' = Checks
  BY EngineFrame, SectionKept
<1>. QED
  BY <1>1, EngineFrame DEF TimeoutIsOwn

LEMMA AnswerKinds ==
  ASSUME TypeOK, TableInv, NEW i \in Checks, Worker(i)
  PROVE  \/ UNCHANGED answer[i]
         \/ answer'[i] = "ERROR/TIMEOUT" /\ ctx[i] = "ended"
         \/ /\ answer'[i] \in Verdicts \ {"ERROR/TIMEOUT"}
            /\ Kind(i) \notin Owners \/ answer'[i] \notin {"PASS", "FAIL", "INSUFFICIENT_DATA/PARSE_ERROR"}
         \/ Resolve(i) /\ answer'[i] = Resolved(i)
<1>1. CASE Begin(i)
  BY <1>1, AnswersAt DEF Begin
<1>2. CASE Lstat(i)
  BY <1>2, LstatSteps, AnswersAt
<1>3. CASE Resolve(i)
  BY <1>3, AnswersAt DEF Resolve
<1>4. CASE Open(i) \/ Pass(i) \/ ReadEntry(i) \/ FailLoad(i) \/ EndLoad(i)
  BY <1>4 DEF Open, Pass, ReadEntry, FailLoad, EndLoad, checkVars
<1>. QED
  BY <1>1, <1>2, <1>3, <1>4 DEF Worker

LEMMA TimeoutWorker ==
  ASSUME TypeOK, TableInv, TimeoutIsOwn, NEW i \in Checks, Worker(i)
  PROVE  TimeoutIsOwn'
<1>1. UNCHANGED <<checks, results, ctx>> /\ Checks' = Checks
  BY WorkerFrame, SectionKept
<1>2. \A j \in Checks : j # i => UNCHANGED answer[j]
  BY OthersKept
<1>3. answer'[i] = "ERROR/TIMEOUT" => answer[i] = "ERROR/TIMEOUT" \/ ctx[i] = "ended"
  BY AnswerKinds, ResolvedKinds
<1>. QED
  BY <1>1, <1>2, <1>3 DEF TimeoutIsOwn

\* What AnswerInv says of one check.
AnswerOf(i) ==
  /\ at[i] # "done" => answer[i] = ""
  /\ results[i] \in {"", "GATED", "ERROR/TIMEOUT", answer[i]}
  /\ Kind(i) \in Owners /\ answer[i] \in {"PASS", "FAIL", "INSUFFICIENT_DATA/PARSE_ERROR"} =>
       /\ found[i] \in File
       /\ resolver[Asked(i)].once = "done"
       /\ answer[i] = Resolved(i)

LEMMA ResolvedKept ==
  ASSUME UNCHANGED checks, NEW i, UNCHANGED found[i], resolver'[Asked(i)] = resolver[Asked(i)]
  PROVE  Resolved(i)' = Resolved(i)
<1>1. /\ Kind(i)' = Kind(i) /\ Asked(i)' = Asked(i)
      /\ found[i]' = found[i] /\ resolver'[Asked(i)'] = resolver[Asked(i)]
  BY SectionKept
<1>2. Id(i)' = Id(i)
  BY <1>1 DEF Id
<1>3. Named(i)' = Named(i)
  BY <1>1, <1>2 DEF Named
<1>. QED
  BY <1>3 DEF Resolved

LEMMA AnswerKept ==
  ASSUME UNCHANGED checks, NEW i, UNCHANGED <<found[i], answer[i]>>,
         at[i] = "done" => at'[i] = "done",
         resolver[Asked(i)].once = "done" => resolver'[Asked(i)] = resolver[Asked(i)],
         results'[i] \in {"GATED", "ERROR/TIMEOUT", answer[i], results[i]},
         AnswerOf(i)
  PROVE  AnswerOf(i)'
<1>1. /\ at'[i] # "done" => answer'[i] = ""
      /\ results'[i] \in {"", "GATED", "ERROR/TIMEOUT", answer'[i]}
  BY DEF AnswerOf
<1>2. ASSUME Kind(i)' \in Owners,
             answer'[i] \in {"PASS", "FAIL", "INSUFFICIENT_DATA/PARSE_ERROR"}
      PROVE  /\ found[i]' \in File
             /\ resolver'[Asked(i)'].once = "done"
             /\ answer[i]' = Resolved(i)'
  <2>1. /\ found[i] \in File
        /\ resolver[Asked(i)].once = "done"
        /\ answer[i] = Resolved(i)
    BY <1>2, SectionKept DEF AnswerOf
  <2>. QED
    BY <2>1, SectionKept, ResolvedKept
<1>. QED
  BY <1>1, <1>2 DEF AnswerOf

LEMMA AnswerEngine ==
  ASSUME TypeOK, AnswerInv, EngineStep
  PROVE  AnswerInv'
<1>1. /\ UNCHANGED <<checks, found, answer, resolver>>
      /\ (UNCHANGED at \/ (turn \in Checks /\ at[turn] = "idle" /\ Go(turn, "run")))
  BY EngineFrame
<1>2. \A i \in Checks : at[i] = "done" => at'[i] = "done"
  BY <1>1, GoesAt
<1>3. \A i \in Checks : AnswerOf(i)
  BY DEF AnswerInv, AnswerOf
<1>4. ASSUME NEW i \in Checks PROVE AnswerOf(i)'
  <2>1. results'[i] \in {"GATED", "ERROR/TIMEOUT", answer[i], results[i]}
    BY EngineFrame
  <2>2. resolver'[Asked(i)] = resolver[Asked(i)]
    BY <1>1
  <2>. QED
    BY <1>1, <1>2, <1>3, <2>1, <2>2, AnswerKept
<1>5. Checks' = Checks
  BY <1>1, SectionKept
<1>. QED
  BY <1>4, <1>5 DEF AnswerInv, AnswerOf

\* A table that is done is done with.
LEMMA DoneStays ==
  ASSUME TypeOK, LoaderInv, TableInv, NEW i \in Checks, Worker(i),
         NEW t \in Tables, resolver[t].once = "done"
  PROVE  UNCHANGED resolver[t]
<1>1. CASE UNCHANGED resolver
  BY <1>1
<1>2. ASSUME NEW l, Loads(i, l), resolver[Asked(i)].once # "done" PROVE resolver'[t] = resolver[t]
  BY <1>2, LoadsAt
<1>3. CASE Open(i)
  BY <1>2, <1>3, OpenSteps
<1>4. CASE ReadEntry(i) \/ EndsLoad(i)
  <2>1. at[i] = "loading" /\ \E l : Loads(i, l)
    BY <1>4, ReadSteps, EndSteps
  <2>2. resolver[Asked(i)].once # "done"
    BY <2>1 DEF LoaderInv
  <2>. QED
    BY <1>2, <2>1, <2>2
<1>. QED
  BY <1>1, <1>3, <1>4 DEF Worker, EndsLoad, Begin, Lstat, Pass, Resolve

LEMMA AnswerWorker ==
  ASSUME TypeOK, LoaderInv, TableInv, AnswerInv, NEW i \in Checks, Worker(i)
  PROVE  AnswerInv'
<1>1. UNCHANGED <<checks, results>> /\ Checks' = Checks
  BY WorkerFrame, SectionKept
<1>2. \A j \in Checks : AnswerOf(j)
  BY DEF AnswerInv, AnswerOf
<1>3. \A j \in Checks : resolver[Asked(j)].once = "done" => resolver'[Asked(j)] = resolver[Asked(j)]
  BY CheckFacts, DoneStays
<1>4. ASSUME NEW j \in Checks, j # i PROVE AnswerOf(j)'
  <2>1. UNCHANGED <<at[j], found[j], answer[j]>>
    BY <1>4, OthersKept
  <2>. QED
    BY <1>1, <1>2, <1>3, <2>1, AnswerKept
<1>5. at[i] # "done" /\ answer[i] = "" /\ results[i] \in {"", "GATED", "ERROR/TIMEOUT"}
  <2>1. at[i] # "done"
    BY DEF Worker, Begin, Lstat, Open, Pass, ReadEntry, FailLoad, EndLoad, Resolve
  <2>. QED
    BY <1>2, <2>1 DEF AnswerOf
<1>6. at'[i] # "done" => answer'[i] = ""
  <2>1. CASE Begin(i)
    BY <1>5, <2>1, AnswersAt DEF Begin
  <2>2. CASE Lstat(i)
    BY <1>5, <2>2, LstatSteps, AnswersAt
  <2>3. CASE Resolve(i)
    BY <2>3, AnswersAt DEF Resolve
  <2>4. CASE Open(i) \/ Pass(i) \/ ReadEntry(i) \/ FailLoad(i) \/ EndLoad(i)
    BY <1>5, <2>4 DEF Open, Pass, ReadEntry, FailLoad, EndLoad, checkVars
  <2>. QED
    BY <2>1, <2>2, <2>3, <2>4 DEF Worker
<1>7. ASSUME Kind(i) \in Owners,
             answer'[i] \in {"PASS", "FAIL", "INSUFFICIENT_DATA/PARSE_ERROR"}
      PROVE  /\ found'[i] \in File
             /\ resolver'[Asked(i)].once = "done"
             /\ answer'[i] = Resolved(i)'
  <2>1. Resolve(i) /\ answer'[i] = Resolved(i)
    BY <1>5, <1>7, AnswerKinds
  <2>2. at[i] = "resolve" /\ UNCHANGED <<found, resolver>>
    BY <2>1 DEF Resolve
  <2>3. found[i] \in File /\ resolver[Asked(i)].once = "done"
    BY <2>2 DEF LoaderInv
  <2>4. Resolved(i)' = Resolved(i)
    BY <1>1, <2>2, ResolvedKept
  <2>. QED
    BY <2>1, <2>2, <2>3, <2>4
<1>8. AnswerOf(i)'
  <2>1. results'[i] \in {"", "GATED", "ERROR/TIMEOUT", answer'[i]}
    BY <1>1, <1>5
  <2>. QED
    BY <1>1, <1>6, <1>7, <2>1, SectionKept DEF AnswerOf
<1>9. \A j \in Checks : AnswerOf(j)'
  BY <1>4, <1>8
<1>. QED
  BY <1>1, <1>9 DEF AnswerInv, AnswerOf

-----------------------------------------------------------------------------
LEMMA InitResolverInv == Init => ResolverInv
<1> SUFFICES ASSUME Init PROVE ResolverInv
  OBVIOUS
<1>1. TypeOK
  BY InitTypeOK
<1>2. \A t \in Tables : resolver[t] = Fresh
  BY DEF Init
<1>3. OnceInv
  <2>1. Fresh.once = "new" /\ Fresh.err = FALSE
    BY DEF Fresh
  <2>. QED
    BY <1>2, <2>1 DEF OnceInv
<1>4. \A i \in Checks : at[i] = "idle" /\ answer[i] = "" /\ results[i] = ""
  BY DEF Init
<1>5. LoaderInv /\ TimeoutIsOwn /\ AnswerInv
  BY <1>4 DEF LoaderInv, TimeoutIsOwn, AnswerInv
<1>6. TableInv
  <2>1. \A t \in Tables : SoFar(t) = <<>> /\ 1..resolver[t].read = {}
    BY <1>2, FreshIsLoad, SubSeqEmpty DEF SoFar
  <2>2. \A t \in Tables : resolver[t].table = EmptyTable
    BY <1>2 DEF Fresh
  <2>. QED
    BY <2>1, <2>2, EmptyTells DEF TableInv
<1>. QED
  BY <1>1, <1>3, <1>5, <1>6 DEF ResolverInv

LEMMA NextResolverInv == ResolverInv /\ Next => ResolverInv'
<1> SUFFICES ASSUME ResolverInv, Next PROVE ResolverInv'
  OBVIOUS
<1>. USE DEF ResolverInv
<1>1. CASE EngineStep
  BY <1>1, EngineTypeOK, EngineResolverInv, TimeoutEngine, AnswerEngine
<1>2. ASSUME NEW i \in Checks, Worker(i) PROVE ResolverInv'
  BY <1>2, WorkersTypeOK, OnceNext, LoaderNext, TableNext, TimeoutWorker, AnswerWorker
<1>. QED
  BY <1>1, <1>2 DEF Next, EngineStep

LEMMA StutterResolverInv == ResolverInv /\ UNCHANGED vars => ResolverInv'
<1> SUFFICES ASSUME ResolverInv, UNCHANGED vars PROVE ResolverInv'
  OBVIOUS
<1>1. UNCHANGED <<checks, turn, ctx, results, at, found, answer, resolver, files, accounts, changes>>
  BY DEF vars, engineVars, checkVars, hostVars
<1>2. TypeOK'
  BY <1>1 DEF ResolverInv, TypeOK, Checks, Checked
<1>3. OnceInv' /\ LoaderInv'
  BY <1>1 DEF ResolverInv, OnceInv, LoaderInv, Checks, Kind, Asked
<1>4. TableInv' /\ TimeoutIsOwn'
  BY <1>1, TableKept DEF ResolverInv, TimeoutIsOwn, Checks
<1>5. AnswerInv'
  BY <1>1, ResolvedKept DEF ResolverInv, AnswerInv, Checks, Kind, Asked
<1>. QED
  BY <1>2, <1>3, <1>4, <1>5 DEF ResolverInv

(***************************************************************************)
(* The inductive invariant of the path and socket checks and of the        *)
(* account resolver they share, whatever changes on the host, whichever    *)
(* deadline fires and whoever loads a table.                               *)
(***************************************************************************)
THEOREM ResolverInvariant == Spec => []ResolverInv
<1>1. ResolverInv /\ [Next]_vars => ResolverInv'
  BY NextResolverInv, StutterResolverInv
<1>. QED
  BY InitResolverInv, <1>1, PTL DEF Spec

-----------------------------------------------------------------------------
\* A table that is complete tells what its file says.
LEMMA CompleteTells ==
  ASSUME ResolverInv, NEW t \in Tables, Complete(t)
  PROVE  /\ resolver[t].table \in Table
         /\ Entries(resolver[t].file) \subseteq Account
         /\ Tells(resolver[t].table, resolver[t].file)
         /\ Unreadable \notin {resolver[t].file[k] : k \in DOMAIN resolver[t].file}
<1> DEFINE r == resolver[t]
<1>1. r.table \in Table /\ r.file \in Seq(Line) /\ r.read = Len(r.file)
  BY FileFacts DEF ResolverInv, OnceInv, Complete
<1>2. \A k \in 1..r.read : r.file[k] # Unreadable
  BY DEF ResolverInv, TableInv
<1>3. Tells(r.table, SubSeq(r.file, 1, r.read))
  BY DEF ResolverInv, TableInv, SoFar
<1>. HIDE DEF r
<1>4. Tells(r.table, r.file)
  BY <1>1, <1>3, SubSeqFull
<1>5. Unreadable \notin {r.file[k] : k \in DOMAIN r.file}
  BY <1>1, <1>2
<1>6. Entries(r.file) \subseteq Account
  BY <1>1, EntriesAreAccounts
<1>. QED
  BY <1>1, <1>4, <1>5, <1>6 DEF r

LEMMA ForcedInv == ResolverInv => AnswersAreForced
<1> SUFFICES ASSUME ResolverInv PROVE AnswersAreForced
  OBVIOUS
<1>1. ASSUME NEW t \in Tables, Complete(t), NEW name \in Names
      PROVE  /\ \A id \in Ids : NameOf(resolver[t].table, id) = name
                                  <=> OnlyNameOf(resolver[t].file, id, name)
             /\ \A value \in Names : Normalized(resolver[t].table, value) = name
                                       <=> OnlyMeaning(resolver[t].file, value, name)
  BY <1>1, CompleteTells, NameOfForced, NormalizedForced
<1>2. ASSUME \A t \in Tables : Complete(t),
             NEW user \in Names \union {""}, NEW value \in Names \union {""}, NEW name \in Names
      PROVE  ObservedGroup(resolver["passwd"].table, resolver["group"].table, user, value) = name
               <=> OnlyGroup(resolver["passwd"].file, resolver["group"].file, user, value, name)
  <2>1. "passwd" \in Tables /\ "group" \in Tables
    BY DEF Tables
  <2> DEFINE pt == resolver["passwd"].table
             pf == resolver["passwd"].file
             gt == resolver["group"].table
             gf == resolver["group"].file
  <2>2. pt \in Table /\ Entries(pf) \subseteq Account /\ Tells(pt, pf)
    BY <1>2, <2>1, CompleteTells
  <2>3. gt \in Table /\ Entries(gf) \subseteq Account /\ Tells(gt, gf)
    BY <1>2, <2>1, CompleteTells
  <2>. HIDE DEF pt, pf, gt, gf
  <2>4. ObservedGroup(pt, gt, user, value) = name <=> OnlyGroup(pf, gf, user, value, name)
    BY <2>2, <2>3, GroupForced
  <2>. QED
    BY <2>4 DEF pt, pf, gt, gf
<1>. QED
  BY <1>1, <1>2 DEF AnswersAreForced

(***************************************************************************)
(* Every answer of the account resolver is the one that the lines of       *)
(* passwd and group force, and it has none where they force none.          *)
(***************************************************************************)
THEOREM ForcedAnswers == Spec => []AnswersAreForced
BY ResolverInvariant, ForcedInv, PTL

LEMMA GroundedInv == ResolverInv => OwnershipIsGrounded
<1> SUFFICES ASSUME ResolverInv, NEW i \in Checks, Kind(i) \in Owners
             PROVE  LET file == resolver[Asked(i)].file
                        id == IdOf(Kind(i), found[i])
                        readable == Unreadable \notin {file[k] : k \in DOMAIN file}
                    IN /\ results[i] = "PASS" => readable /\ OnlyNameOf(file, id, checks[i].expected)
                       /\ results[i] = "FAIL" =>
                            readable /\ \E n \in Names \ {checks[i].expected} : OnlyNameOf(file, id, n)
                       /\ results[i] = "INSUFFICIENT_DATA/PARSE_ERROR" =>
                            ~readable \/ ~\E n \in Names : OnlyNameOf(file, id, n)
  BY DEF OwnershipIsGrounded
<1> DEFINE r == resolver[Asked(i)]
           id == IdOf(Kind(i), found[i])
           readable == Unreadable \notin {r.file[k] : k \in DOMAIN r.file}
           expected == checks[i].expected
<1> SUFFICES ASSUME results[i] \in {"PASS", "FAIL", "INSUFFICIENT_DATA/PARSE_ERROR"}
             PROVE  /\ results[i] = "PASS" => readable /\ OnlyNameOf(r.file, id, expected)
                    /\ results[i] = "FAIL" =>
                         readable /\ \E n \in Names \ {expected} : OnlyNameOf(r.file, id, n)
                    /\ results[i] = "INSUFFICIENT_DATA/PARSE_ERROR" =>
                         ~readable \/ ~\E n \in Names : OnlyNameOf(r.file, id, n)
  OBVIOUS
<1>1. Asked(i) \in Tables /\ expected \in Names
  BY CheckFacts DEF ResolverInv
<1>2. found[i] \in File /\ r.once = "done" /\ results[i] = Resolved(i)
  BY DEF ResolverInv, AnswerInv
<1>3. id \in Ids
  BY <1>2 DEF File, IdOf
<1>4. Resolved(i) = IF Named(i) = NoName THEN "INSUFFICIENT_DATA/PARSE_ERROR"
                    ELSE IF Named(i) = expected THEN "PASS" ELSE "FAIL"
  BY DEF Resolved, Judged
<1>5. CASE r.err
  <2>1. Named(i) = NoName
    BY <1>5 DEF Named
  <2>2. r.read \in Nat /\ r.read < Len(r.file) /\ r.file[r.read + 1] = Unreadable /\ r.file \in Seq(Line)
    BY <1>1, <1>5, FileFacts DEF ResolverInv, OnceInv
  <2>3. r.read + 1 \in DOMAIN r.file
    BY <2>2
  <2>. QED
    BY <1>2, <1>4, <2>1, <2>2, <2>3
<1>6. CASE ~r.err
  <2>1. /\ r.table \in Table /\ Entries(r.file) \subseteq Account /\ Tells(r.table, r.file)
        /\ readable
    BY <1>1, <1>2, <1>6, CompleteTells DEF Complete
  <2>2. Named(i) = NameOf(r.table, id) /\ Named(i) \in Names \union {NoName}
    BY <1>3, <1>6, <2>1, NameOfIsName DEF Named, Id
  <2>3. \A n \in Names : Named(i) = n <=> OnlyNameOf(r.file, id, n)
    BY <1>3, <2>1, <2>2, NameOfForced
  <2>4. NoName \notin Names
    BY NoNames
  <2>. HIDE DEF r, id, readable, expected
  <2>. QED
    BY <1>1, <1>2, <1>4, <2>1, <2>2, <2>3, <2>4
<1>. QED
  BY <1>5, <1>6

(***************************************************************************)
(* What the engine records of an owner or group check is what the whole    *)
(* account file says of the id that Lstat found.                           *)
(***************************************************************************)
THEOREM OwnersAreGrounded == Spec => []OwnershipIsGrounded
BY ResolverInvariant, GroundedInv, PTL
=============================================================================
