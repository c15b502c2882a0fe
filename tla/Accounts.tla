------------------------------- MODULE Accounts -------------------------------
(***************************************************************************)
(* The tables src/internal/collectors/accounts.go makes of passwd and      *)
(* group, and the questions it answers from them.  A line of either file   *)
(* is an entry with a name, an id and the id of a primary group, which in  *)
(* the group file is the id itself, or a line no entry can be read from.   *)
(* Blank lines and comments are left out.  A file that cannot be opened or *)
(* read to its end is one with an unreadable line at that place.           *)
(*                                                                         *)
(* A name is a word or a numeral, which is what strconv.Atoi accepts.      *)
(* Number[v] is what strconv.ParseUint makes of a numeral; where that is   *)
(* an error (a sign, more than 32 bits), it is no member of Ids.           *)
(***************************************************************************)
EXTENDS Integers, Sequences

CONSTANTS
    Ids,       \* the user and group ids: 32-bit unsigned numbers
    Words,     \* names that are no numerals
    Numerals,  \* names, and values of User= and Group=, that are
    Number     \* the number of a numeral

ASSUME IdsAssumption == Ids \subseteq Nat
ASSUME NamesAssumption == Words \intersect Numerals = {} /\ "" \notin Words \union Numerals
ASSUME RootAssumption == "root" \in Words
ASSUME NumberAssumption == Number \in [Numerals -> Int]

Names == Words \union Numerals
Account == [name : Names, id : Ids, gid : Ids]
Unreadable == [unreadable |-> TRUE]
Missing == [missing |-> TRUE]
Line == Account \union {Unreadable}

\* No name: the resolver returned an error.
NoName == ""

(***************************************************************************)
(* passwdByUID, passwdByName, passwdUIDDup and passwdNameDup, or the four  *)
(* of the group file.  The first entry of an id or a name is kept, and a   *)
(* later one that differs from it in any field marks it ambiguous.         *)
(***************************************************************************)
Table == [byId : [Ids -> Account \union {Missing}], idDup : SUBSET Ids,
          byName : [Names -> Account \union {Missing}], nameDup : SUBSET Names]

EmptyTable == [byId |-> [i \in Ids |-> Missing], idDup |-> {},
               byName |-> [n \in Names |-> Missing], nameDup |-> {}]

\* Slip: entries that agree on name and id are the same one.
AddedByName(t, e) ==
    LET first(kept) == IF kept = Missing THEN e ELSE kept
        clashes(kept) == kept # Missing /\ (kept.id # e.id \/ kept.name # e.name)
    IN [byId |-> [t.byId EXCEPT ![e.id] = first(@)],
        idDup |-> IF clashes(t.byId[e.id]) THEN t.idDup \union {e.id} ELSE t.idDup,
        byName |-> [t.byName EXCEPT ![e.name] = first(@)],
        nameDup |-> IF clashes(t.byName[e.name]) THEN t.nameDup \union {e.name} ELSE t.nameDup]

\* What loadPasswd and loadGroup do with an entry.
Added(t, e) ==
    LET first(kept) == IF kept = Missing THEN e ELSE kept
        clashes(kept) == kept \notin {Missing, e}
    IN [byId |-> [t.byId EXCEPT ![e.id] = first(@)],
        idDup |-> IF clashes(t.byId[e.id]) THEN t.idDup \union {e.id} ELSE t.idDup,
        byName |-> [t.byName EXCEPT ![e.name] = first(@)],
        nameDup |-> IF clashes(t.byName[e.name]) THEN t.nameDup \union {e.name} ELSE t.nameDup]

\* UserNameByUID, GroupNameByGID.
NameOf(t, id) ==
    IF id \in t.idDup \/ t.byId[id] = Missing THEN NoName ELSE t.byId[id].name

\* PrimaryGroupNameByUser.
PrimaryGroup(passwd, group, user) ==
    IF user \in passwd.nameDup \/ user \notin Names \/ passwd.byName[user] = Missing
    THEN NoName ELSE NameOf(group, passwd.byName[user].gid)

\* Slip: a numeral is taken for a number even if an account is called that.
NormalizedAsNumber(t, value) ==
    IF value \notin Numerals THEN value
    ELSE IF Number[value] \in Ids THEN NameOf(t, Number[value]) ELSE NoName

\* NormalizeUserValue, NormalizeGroupValue: a word stands for itself; a numeral
\* for the account of that name or of that id, unless these are two.
Normalized(t, value) ==
    LET id == Number[value]
        literal == t.byName[value]
        numbered == t.byId[id]
    IN CASE value \notin Numerals -> value
         [] value \in Numerals /\ (\/ id \notin Ids \/ value \in t.nameDup \/ id \in t.idDup
                                   \/ /\ Missing \notin {literal, numbered}
                                      /\ literal.name # numbered.name) -> NoName
         [] OTHER -> IF literal # Missing THEN literal.name ELSE NameOf(t, id)

\* observedServiceUser and observedServiceGroup, of User= and Group=.
ObservedUser(passwd, user) == IF user = "" THEN "root" ELSE Normalized(passwd, user)

ObservedGroup(passwd, group, user, value) ==
    IF value # "" THEN Normalized(group, value)
    ELSE IF ObservedUser(passwd, user) = NoName THEN NoName
    ELSE PrimaryGroup(passwd, group, ObservedUser(passwd, user))

-----------------------------------------------------------------------------
(***************************************************************************)
(* What the files say, without tables: the entries of a file, and the name *)
(* that follows from a set of them if no two of them differ.               *)
(***************************************************************************)
Entries(file) == {file[k] : k \in DOMAIN file} \ {Unreadable}
WithId(file, id) == {e \in Entries(file) : e.id = id}
WithName(file, name) == {e \in Entries(file) : e.name = name}

Single(entries) == \A e, f \in entries : e = f

(***************************************************************************)
(* The table t holds what the lines of a file say: the kept entry of an id *)
(* or a name is one of its entries, and it is marked if there are others.  *)
(***************************************************************************)
Kept(kept, entries) == IF entries = {} THEN kept = Missing ELSE kept \in entries

Tells(t, file) ==
    /\ \A id \in Ids : /\ Kept(t.byId[id], WithId(file, id))
                       /\ id \in t.idDup <=> ~Single(WithId(file, id))
    /\ \A name \in Names : /\ Kept(t.byName[name], WithName(file, name))
                           /\ name \in t.nameDup <=> ~Single(WithName(file, name))

\* The file leaves no choice but `name' for the id, or for the value.
OnlyNameOf(file, id, name) ==
    Single(WithId(file, id)) /\ {e.name : e \in WithId(file, id)} = {name}

OnlyMeaning(file, value, name) ==
    IF value \notin Numerals THEN name = value
    ELSE /\ Number[value] \in Ids
         /\ Single(WithName(file, value))
         /\ Single(WithId(file, Number[value]))
         /\ name \in {e.name : e \in WithName(file, value) \union WithId(file, Number[value])}
         /\ \A e \in WithName(file, value) \union WithId(file, Number[value]) : e.name = name
=============================================================================
