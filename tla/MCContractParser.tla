--------------------------- MODULE MCContractParser ---------------------------
(***************************************************************************)
(* Families of documents for TLC: single lines over the characters the     *)
(* scanners look for, in a value and in a key; outlines of a few lines;    *)
(* and a whole contract with one line removed, moved, repeated or given    *)
(* another value.                                                          *)
(***************************************************************************)
EXTENDS QuotedLines

CONSTANTS MaxValue,   \* characters of a value in a single line
          MaxLines    \* lines of an outline

L(indent, text) == [indent |-> indent, text |-> text]
TextsUpTo(n, characters) == UNION {[1..k -> characters] : k \in 0..n}

-----------------------------------------------------------------------------
(* Single lines: a key and a value, quoted or not.                         *)

Scanner == {"'", "\"", "\\", " ", "#", ":", "n"}
SingleLines == {ValueLine(raw) : raw \in TextsUpTo(MaxValue, Scanner)}

PlainKeys == {<<L(0, key \o <<":", " ", "x">>)>> : key \in TextsUpTo(MaxValue + 1, {"k", "'", ":", " "})}

\* Every text of a few characters that quotes, or the scans, are about.
Characters == {"'", "\"", "\\", " ", "#", ":", "n", "7"}
ShortTexts == TextsUpTo(3, Characters \union {"\n", "\t"})

-----------------------------------------------------------------------------
(* Outlines: entries with and without a value, and items.                  *)

Shapes == {<<"a", ":">>, <<"b", ":">>, <<"a", ":", " ", "x">>, <<"-", " ", "x">>}
Outlines ==
    UNION {[1..n -> {L(indent, shape) : indent \in 0..2, shape \in Shapes}] : n \in 1..MaxLines}

-----------------------------------------------------------------------------
(* A contract, and what an editor may make of it.                          *)

Capabilities == {"CAP_CHOWN"}

Field(indent, name) == L(indent, <<name, ":">>)
FieldIs(indent, name, word) == L(indent, <<name, ":", " ", word>>)

Whole == <<
    FieldIs(0, "apiVersion", "savk/v1"),
    FieldIs(0, "kind", "ApplianceContract"),
    Field(0, "metadata"),
    FieldIs(2, "name", "x"),
    FieldIs(2, "target", "linux-systemd"),
    Field(0, "services"),
    Field(2, "s"),
    FieldIs(4, "state", "active"),
    Field(4, "run_as"),
    FieldIs(6, "user", "u"),
    FieldIs(6, "group", "u"),
    FieldIs(4, "restart", "always"),
    Field(4, "capabilities"),
    L(6, <<"-", " ", "CAP_CHOWN">>),
    Field(0, "identity"),
    Field(2, "i"),
    FieldIs(4, "service", "s"),
    FieldIs(4, "uid", "7"),
    Field(4, "capabilities"),
    L(6, <<"effective", ":", " ", "[", "]">>),
    Field(0, "paths"),
    L(2, <<"/", "p", ":">>),
    L(4, <<"mode", ":", " ", "\"", "0", "6", "4", "0", "\"">>),
    FieldIs(4, "type", "file"),
    Field(0, "sockets"),
    L(2, <<"/", "p", ":">>),
    FieldIs(4, "owner", "u")>>

Lines == DOMAIN Whole
NameOf(text) == SubSeq(text, 1, Min({i \in DOMAIN text : text[i] = ":"}) - 1)
AfterName(text) == SubSeq(text, Len(NameOf(text)) + 1, Len(text))
Named == {i \in Lines : \E n \in DOMAIN Whole[i].text : Whole[i].text[n] = ":"}

Values == {<<"inactive">>, <<"7">>, <<"-", "1">>, <<"[", "]">>, <<"'", "'">>, <<"true">>, <<>>}
Names == {"state", "service", "owner", "group", "extra"}

Edited ==
    {Whole}
    \union {RemoveAt(Whole, i) : i \in Lines}
    \union {SubSeq(Whole, 1, i - 1) \o SubSeq(Whole, j + 1, Len(Whole)) :
              i \in Lines, j \in {k \in Lines : k > 5}}
    \union {InsertAt(Whole, i + 1, [Whole[i] EXCEPT !.indent = n]) : i \in Lines, n \in {0, 2, 4, 6}}
    \union {[Whole EXCEPT ![i].indent = n] : i \in Lines, n \in {0, 2, 3, 4, 6}}
    \union {[Whole EXCEPT ![i].text = NameOf(@) \o <<":", " ">> \o v] : i \in Named, v \in Values}
    \union {[Whole EXCEPT ![i].text = <<n>> \o AfterName(@)] :
              i \in Named, n \in Names}

AllDocuments == SingleLines \union PlainKeys \union ValueLines \union KeyLines \union Outlines \union Edited

-----------------------------------------------------------------------------
(***************************************************************************)
(* contract-v1.md: "an absolute path key containing `:' MUST be quoted",   *)
(* which splitKeyValue says of every mapping key.                          *)
(***************************************************************************)
ColonsAreQuoted ==
    phase \in {"parsed", "accepted", "invalid"} =>
      \A i \in DOMAIN lines :
        IsEntry(i) /\ ":" \in ToSet(LineSplit(i).key) => Starts(lines[i].text, Quotes)
=============================================================================
