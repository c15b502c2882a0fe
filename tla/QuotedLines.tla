----------------------------- MODULE QuotedLines -----------------------------
(***************************************************************************)
(* The reader of quoted texts against a writer: a text that is written     *)
(* between quotes the way docs/spec/contract-v1.md describes, as the value *)
(* or the key of a line, is what ParseBytes reads.                         *)
(***************************************************************************)
EXTENDS ContractParser

CONSTANT Texts   \* what is written

ASSUME TextsAssumption == Texts \subseteq Seq(STRING)

\* What is written with an escape, if at all.
Controls == {"\n", "\r", "\t"}

\* One character between quotes.
WrittenAs(ch, quote) ==
    CASE quote = "'" /\ ch = "'" -> <<"'", "'">>
      [] quote = "\"" /\ ch \in {"\"", "\\"} -> <<"\\", ch>>
      [] quote = "\"" /\ ch = "\n" -> <<"\\", "n">>
      [] quote = "\"" /\ ch = "\r" -> <<"\\", "r">>
      [] quote = "\"" /\ ch = "\t" -> <<"\\", "t">>
      [] OTHER -> <<ch>>

\* Characters written one after the other.
Written(text, quote) ==
    LET upTo[i \in 0..Len(text)] ==
          IF i = 0 THEN <<>> ELSE upTo[i - 1] \o WrittenAs(text[i], quote)
    IN upTo

Writes(text, quote) == <<quote>> \o Written(text, quote)[Len(text)] \o <<quote>>

\* Every way to write each text, and what it means.
Writings ==
    {<<Writes(text, "\""), text>> : text \in Texts}
      \union {<<Writes(text, "'"), text>> : text \in {t \in Texts : ToSet(t) \cap Controls = {}}}

Meaning ==
    LET writings == Writings
    IN [raw \in {w[1] : w \in writings} |-> (CHOOSE w \in writings : w[1] = raw)[2]]

ValueLine(raw) == <<[indent |-> 0, text |-> <<"k", ":", " ">> \o raw]>>
KeyLine(raw) == <<[indent |-> 0, text |-> raw \o <<":", " ", "x">>]>>

ValueLines == {ValueLine(w[1]) : w \in Writings}
KeyLines == {KeyLine(w[1]) : w \in Writings}

\* What a line beginning with characters, or ending with them, has besides.
Behind(text, n) == SubSeq(text, n + 1, Len(text))
Before(text, n) == SubSeq(text, 1, Len(text) - n)

-----------------------------------------------------------------------------
(***************************************************************************)
(* Whatever is written between quotes is read back as it was meant: as a   *)
(* value and as a key, with quotes, backslashes, colons and number signs   *)
(* in it, neither the scan for comments nor the one for the colon is       *)
(* misled, and in no document another writing is taken for a quoted text.  *)
(***************************************************************************)
QuotesAreExact ==
    LET text == doc[1].text
        isParsed == phase \in {"parsed", "accepted", "invalid"}
    IN /\ doc \in ValueLines =>
            /\ phase # "malformed"
            /\ isParsed => root.entries = [k \in {<<"k">>} |-> StringNode(Meaning[Behind(text, 3)])]
       /\ doc \in KeyLines =>
            /\ phase # "malformed"
            /\ isParsed => DOMAIN root.entries = {Meaning[Before(text, 3)]}
       /\ isParsed =>
            \A i \in DOMAIN lines :
              LET raw == LineSplit(i).raw
                  node == ParseInlineValue(raw)
                  isClean(t) == ToSet(t) \cap Controls = {}
              IN /\ IsEntry(i) /\ Starts(raw, Quotes) /\ isClean(raw) /\ node # Unreadable =>
                      raw = Writes(node.text, Head(raw))
                 /\ IsEntry(i) /\ Starts(lines[i].text, Quotes) /\ isClean(lines[i].text) =>
                      IsPrefix(Writes(LineSplit(i).key, Head(lines[i].text)), lines[i].text)
=============================================================================
