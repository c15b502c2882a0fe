----------------------------- MODULE ContractText -----------------------------
(***************************************************************************)
(* What src/internal/contract/parser.go makes of one line of a contract:   *)
(* the scan for comments, the split into key and value, quoted and plain   *)
(* scalars.                                                                *)
(*                                                                         *)
(* A text is a sequence of characters.  A character is a string of length  *)
(* one, or a whole word ("state", "true") where no rule looks inside it.   *)
(***************************************************************************)
EXTENDS Integers, SequencesExt

Whitespace == {" ", "\t", "\n", "\r"}
Quotes == {"'", "\""}
OctalDigits == {"0", "1", "2", "3", "4", "5", "6", "7"}
Digits == OctalDigits \union {"8", "9"}

\* strings.TrimSpace.
Trim(text) ==
    LET kept == {i \in DOMAIN text : text[i] \notin Whitespace}
    IN IF kept = {} THEN <<>> ELSE SubSeq(text, Min(kept), Max(kept))

Starts(text, characters) == text # <<>> /\ Head(text) \in characters

-----------------------------------------------------------------------------
(* The scan that hasUnsupportedInlineComment and keyValueDelimiter share.  *)

\* Slip: a backslash is not told from any other character.
ScannedNoEscapes(q, ch) ==
    [single |-> q.single # (ch = "'" /\ ~q.double),
     double |-> q.double # (ch = "\"" /\ ~q.single),
     escaped |-> FALSE]

\* inSingle, inDouble and escaped after one more character.
Scanned(q, ch) ==
    [single |-> q.single # (ch = "'" /\ ~q.double),
     double |-> q.double # (ch = "\"" /\ ~q.single /\ ~q.escaped),
     escaped |-> ch = "\\" /\ q.double /\ ~q.escaped]

\* The scan before the first character, and after each one.
Scans(text) ==
    LET start == [single |-> FALSE, double |-> FALSE, escaped |-> FALSE]
        after[i \in 0..Len(text)] == IF i = 0 THEN start ELSE Scanned(after[i - 1], text[i])
    IN after

\* The positions the scan takes to be outside quotes.
Outside(text) ==
    LET before == Scans(text)
    IN {i \in DOMAIN text : ~before[i - 1].single /\ ~before[i - 1].double}

HasUnsupportedInlineComment(text) ==
    \E i \in Outside(text) : i > 1 /\ text[i] = "#" /\ text[i - 1] = " "

-----------------------------------------------------------------------------
(* Quoted strings                                                          *)

Bad == [kind |-> "bad", value |-> <<>>]
Plain(text) == [kind |-> "plain", value |-> text]
Quoted(text) == [kind |-> "quoted", value |-> text]

\* Between single quotes, a single quote is written twice; between double quotes, quotes
\* and backslashes are written behind a backslash: the first of a pair, and the second.
First(quote) == IF quote = "'" THEN "'" ELSE "\\"
Second(quote) == IF quote = "'" THEN {"'"} ELSE {"\"", "\\", "n", "r", "t"}

\* decodeDoubleQuotedString's switch.
Escape(ch) == CASE ch = "n" -> "\n" [] ch = "r" -> "\r" [] ch = "t" -> "\t" [] OTHER -> ch

\* The value so far, whether a pair has begun, and whether all is well, after ch.
Unquoted(quote, s, ch) ==
    IF s.pair
    THEN [value |-> Append(s.value, Escape(ch)), pair |-> FALSE,
          ok |-> s.ok /\ ch \in Second(quote)]
    ELSE [value |-> IF ch = First(quote) THEN s.value ELSE Append(s.value, ch),
          pair |-> ch = First(quote),
          ok |-> s.ok /\ (ch = quote => ch = First(quote))]

\* validQuotedString and decodeQuotedString, before the first character and after each one.
Unquotes(quote, inner) ==
    LET start == [value |-> <<>>, pair |-> FALSE, ok |-> TRUE]
        after[i \in 0..Len(inner)] ==
          IF i = 0 THEN start ELSE Unquoted(quote, after[i - 1], inner[i])
    IN after

DecodeQuotedString(quote, inner) ==
    LET end == Unquotes(quote, inner)[Len(inner)]
    IN IF end.ok /\ ~end.pair THEN Quoted(end.value) ELSE Bad

\* parseQuotedString.
ParseQuotedString(raw) ==
    IF raw = <<>> THEN Plain(raw)
    ELSE IF Head(raw) \in Quotes
         THEN IF Len(raw) < 2 \/ Last(raw) # Head(raw) THEN Bad
              ELSE DecodeQuotedString(Head(raw), SubSeq(raw, 2, Len(raw) - 1))
         ELSE IF Last(raw) \in Quotes THEN Bad ELSE Plain(raw)

-----------------------------------------------------------------------------
(* Keys and values                                                         *)

\* rejectUnsupportedKeyFeature: merge keys, anchors, aliases and tags.
UnsupportedKey(key) == key = <<"<", "<">> \/ Starts(key, {"&", "*", "!"})

NoEntry == [ok |-> FALSE, key |-> <<>>, raw |-> <<>>]

\* splitKeyValue and keyValueDelimiter: the key and what is left for its value.
SplitKeyValue(text) ==
    LET colons == {i \in Outside(text) : text[i] = ":"}
        delimiters == {i \in colons : i = Len(text) \/ text[i + 1] = " "}
        index == Min(delimiters)
        key == ParseQuotedString(Trim(SubSeq(text, 1, index - 1)))
    IN IF \/ delimiters = {}
          \/ Trim(SubSeq(text, 1, index - 1)) = <<>>
          \/ key.kind = "bad"
          \/ key.kind = "plain" /\ (Min(colons) < index \/ UnsupportedKey(key.value))
       THEN NoEntry
       ELSE [ok |-> TRUE, key |-> key.value, raw |-> Trim(SubSeq(text, index + 1, Len(text)))]

\* The nodes a contract is made of.
StringNode(text) == [kind |-> "string", text |-> text]
IntNode(n) == [kind |-> "int", number |-> n]
BoolNode(b) == [kind |-> "bool", truth |-> b]
MapNode(entries) == [kind |-> "map", entries |-> entries]
ListNode(items) == [kind |-> "list", items |-> items]
Unreadable == [kind |-> "unreadable"]

\* strconv.Atoi reads it: digits behind a sign at most (few enough to fit).
Unsigned(raw) == IF Starts(raw, {"+", "-"}) THEN Tail(raw) ELSE raw
IsInteger(raw) == Unsigned(raw) # <<>> /\ ToSet(Unsigned(raw)) \subseteq Digits
Atoi(raw) ==
    LET digit(ch) == CHOOSE n \in 0..9 : ToString(n) = ch
        number == FoldLeft(LAMBDA n, ch : 10 * n + digit(ch), 0, Unsigned(raw))
    IN IF Head(raw) = "-" THEN -number ELSE number

\* parseInlineValue: flow style, multi-line strings, anchors, aliases and tags are
\* refused; only what is not quoted can be a truth value or a number.
ParseInlineValue(raw) ==
    LET scalar == ParseQuotedString(raw)
    IN IF raw = <<"[", "]">> THEN ListNode(<<>>)
       ELSE IF Starts(raw, {"[", "{", "|", ">", "&", "*", "!"}) \/ scalar.kind = "bad" THEN Unreadable
       ELSE IF scalar.kind = "quoted" THEN StringNode(scalar.value)
       ELSE IF raw \in {<<"true">>, <<"false">>} THEN BoolNode(raw = <<"true">>)
       ELSE IF IsInteger(raw) THEN IntNode(Atoi(raw)) ELSE StringNode(raw)
=============================================================================
