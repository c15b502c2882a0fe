---------------------------- MODULE ContractParser ----------------------------
(***************************************************************************)
(* ParseBytes of src/internal/contract/parser.go.  tokenize drops blank    *)
(* lines and comments and notes the indentation of the others; parseBlock, *)
(* parseMap and parseList build the tree, calling one another for each     *)
(* deeper block; decodeContract and ValidateSemantics judge it.  The call  *)
(* stack is explicit: a frame is a call of parseMap or parseList, with     *)
(* what it has collected and the key its caller will store that under.     *)
(***************************************************************************)
EXTENDS ContractDecode

CONSTANT Documents   \* the files: sequences of lines, an indentation and a text each

ASSUME DocumentsAssumption == Documents \subseteq Seq([indent : Nat, text : Seq(STRING)])

VARIABLES
    doc,     \* the file
    phase,   \* where ParseBytes is, or how it ended
    lines,   \* the lines tokenize kept
    index,   \* the line being read
    frames,  \* the calls of parseMap and parseList in progress
    root     \* the node they have built, or the contract, once there is one

vars == <<doc, phase, lines, index, frames, root>>

None == [kind |-> "none"]

Init ==
    /\ doc \in Documents
    /\ phase = "text"
    /\ lines = <<>>
    /\ index = 1
    /\ frames = <<>>
    /\ root = None

-----------------------------------------------------------------------------
(* tokenize *)

IsBlank(text) == Trim(text) = <<>> \/ Starts(Trim(text), {"#"})
IsDocumentMarker(text) == Trim(text) \in {<<"-", "-", "-">>, <<".", ".", ".">>}

Refused(text) ==
    \/ "\t" \in ToSet(text)
    \/ ~IsBlank(text) /\ (IsDocumentMarker(text) \/ HasUnsupportedInlineComment(text))

\* Of n values, in their order, those with a chosen number, up to each of them.
Collected(n, chosen, value) ==
    LET upTo[i \in 0..n] ==
          IF i = 0 THEN <<>>
          ELSE IF i \in chosen THEN Append(upTo[i - 1], value[i]) ELSE upTo[i - 1]
    IN upTo

Kept(document) ==
    LET n == Len(document)
        trimmed == [i \in 1..n |-> [document[i] EXCEPT !.text = Trim(@)]]
    IN Collected(n, {i \in 1..n : ~IsBlank(document[i].text)}, trimmed)[n]

\* There are lines, and the first one is not indented.
StartsAtColumnZero(kept) == kept # <<>> /\ kept[1].indent = 0

\* tokenize and ParseBytes let the lines through.
IsTokenized == (\A i \in DOMAIN doc : ~Refused(doc[i].text)) /\ StartsAtColumnZero(Kept(doc))

RefuseText ==
    /\ phase = "text"
    /\ ~IsTokenized
    /\ phase' = "malformed"
    /\ UNCHANGED <<doc, lines, index, frames, root>>

IsItem(line) == Len(line.text) >= 2 /\ line.text[1] = "-" /\ line.text[2] = " "

\* parseBlock: the call that reads the block beginning with line.
Frame(line, key) ==
    [kind |-> IF IsItem(line) THEN "list" ELSE "map",
     indent |-> line.indent, key |-> key, entries |-> <<>>, items |-> <<>>]

Tokenize ==
    /\ phase = "text"
    /\ IsTokenized
    /\ phase' = "blocks"
    /\ lines' = Kept(doc)
    /\ frames' = <<Frame(Kept(doc)[1], <<>>)>>
    /\ UNCHANGED <<doc, index, root>>

-----------------------------------------------------------------------------
(* parseMap and parseList *)

Top == Last(frames)
Line == lines[index]

\* The loop of Top is left: no line, a shallower one, or one that is no item.
BlockEnds ==
    index <= Len(lines) =>
      \/ Line.indent < Top.indent
      \/ Top.kind = "list" /\ Line.indent = Top.indent /\ ~IsItem(Line)

Reading(kind) ==
    phase = "blocks" /\ ~BlockEnds /\ Line.indent = Top.indent /\ Top.kind = kind

Read == SplitKeyValue(Line.text)
ItemValue == ParseInlineValue(Trim(SubSeq(Line.text, 2, Len(Line.text))))

\* Slip: a key that is there already is overwritten.
ReadsAnyEntry == Reading("map") /\ ~IsItem(Line) /\ Read.ok

\* The line is an entry, with a key the mapping does not have yet.
ReadsEntry ==
    Reading("map") /\ ~IsItem(Line) /\ Read.ok /\ Read.key \notin DOMAIN Top.entries

\* A value that is not on the line itself is looked for below it.
OpensBlock == Read.raw = <<>> /\ index < Len(lines) /\ lines[index + 1].indent > Top.indent

\* What the line of an entry that opens no block stands for.
EntryValue == IF Read.raw = <<>> THEN MapNode(<<>>) ELSE ParseInlineValue(Read.raw)

WithEntry(calls, key, node) ==
    [calls EXCEPT ![Len(calls)].entries =
       [k \in {key} \union DOMAIN @ |-> IF k = key THEN node ELSE @[k]]]

ReadEntry ==
    /\ ReadsEntry
    /\ ~OpensBlock
    /\ EntryValue # Unreadable
    /\ frames' = WithEntry(frames, Read.key, EntryValue)
    /\ index' = index + 1
    /\ UNCHANGED <<doc, phase, lines, root>>

OpenBlock ==
    /\ ReadsEntry
    /\ OpensBlock
    /\ frames' = Append(frames, Frame(lines[index + 1], Read.key))
    /\ index' = index + 1
    /\ UNCHANGED <<doc, phase, lines, root>>

ReadItem ==
    /\ Reading("list")
    /\ ItemValue.kind \in {"string", "int", "bool"}
    /\ frames' = [frames EXCEPT ![Len(frames)].items = Append(@, ItemValue)]
    /\ index' = index + 1
    /\ UNCHANGED <<doc, phase, lines, root>>

Node(frame) == IF frame.kind = "map" THEN MapNode(frame.entries) ELSE ListNode(frame.items)

\* The call returns, and its caller stores the node.
Return ==
    /\ phase = "blocks"
    /\ BlockEnds
    /\ Len(frames) > 1
    /\ frames' = WithEntry(Front(frames), Top.key, Node(Top))
    /\ UNCHANGED <<doc, phase, lines, index, root>>

\* The outermost call returns: all lines must have been read, into a mapping.
ReturnRoot ==
    /\ phase = "blocks"
    /\ BlockEnds
    /\ Len(frames) = 1
    /\ IF index > Len(lines) /\ Top.kind = "map"
       THEN phase' = "parsed" /\ root' = Node(Top)
       ELSE phase' = "malformed" /\ UNCHANGED root
    /\ frames' = <<>>
    /\ UNCHANGED <<doc, lines, index>>

\* Too deep, no entry or one there is already, or a value that cannot be read.
RefuseLine ==
    /\ phase = "blocks"
    /\ ~BlockEnds
    /\ \/ Line.indent > Top.indent
       \/ Reading("map") /\ ~ReadsEntry
       \/ ReadsEntry /\ ~OpensBlock /\ EntryValue = Unreadable
       \/ Reading("list") /\ ItemValue.kind \notin {"string", "int", "bool"}
    /\ phase' = "malformed"
    /\ frames' = <<>>
    /\ UNCHANGED <<doc, lines, index, root>>

-----------------------------------------------------------------------------
\* decodeContract and ValidateSemantics.
IsContract == Decodes(root) /\ SemanticallyValid(Decoded(root))

Accept ==
    /\ phase = "parsed"
    /\ IsContract
    /\ phase' = "accepted"
    /\ UNCHANGED <<doc, lines, index, frames, root>>

RefuseTree ==
    /\ phase = "parsed"
    /\ ~IsContract
    /\ phase' = "invalid"
    /\ UNCHANGED <<doc, lines, index, frames, root>>

Next == \/ RefuseText \/ Tokenize
        \/ ReadEntry \/ OpenBlock \/ ReadItem \/ Return \/ ReturnRoot \/ RefuseLine
        \/ Accept \/ RefuseTree

Spec == Init /\ [][Next]_vars

-----------------------------------------------------------------------------
(***************************************************************************)
(* What the lines say, without reading them in order.  A line belongs to   *)
(* the nearest line above it that is less deep; 0 stands for the document. *)
(***************************************************************************)
LineSplit(i) == SplitKeyValue(lines[i].text)
Nearest(i, depth) == Max({0} \union {j \in 1..(i - 1) : lines[j].indent < depth})
Owner(i) == Nearest(i, lines[i].indent)
Below(i, last) == {j \in 1..last : Owner(j) = i}

ItemOf(i) == ParseInlineValue(Trim(SubSeq(lines[i].text, 2, Len(lines[i].text))))

IsScalarItem(i) == IsItem(lines[i]) /\ ItemOf(i).kind \in {"string", "int", "bool"}
IsEntry(i) == ~IsItem(lines[i]) /\ LineSplit(i).ok

\* What stands below line i, or below nothing, makes one block: items, or entries
\* whose values are on their lines or below them.
IsBlock(i, last) ==
    LET below == Below(i, last)
        alone(j) == Below(j, last) = {}
    IN /\ \A j, k \in below : lines[j].indent = lines[k].indent
       /\ \/ \A j \in below : IsScalarItem(j) /\ alone(j)
          \/ /\ \A j \in below :
                  /\ IsEntry(j)
                  /\ \/ LineSplit(j).raw = <<>>
                     \/ alone(j) /\ ParseInlineValue(LineSplit(j).raw) # Unreadable
             /\ \A j, k \in below : LineSplit(j).key = LineSplit(k).key => j = k

\* So far, and as a whole.
IsOutlined(last) == \A i \in 0..last : IsBlock(i, last)
IsOutline ==
    /\ lines # <<>>
    /\ lines[1].indent = 0
    /\ IsOutlined(Len(lines))
    /\ ~IsItem(lines[1])

\* The items below line i, up to each line.
ItemsBelow(i) ==
    Collected(Len(lines), Below(i, Len(lines)), [j \in 1..Len(lines) |-> ItemOf(j)])

\* The node line i of an outline stands for, 0 for the whole of it.
OutlineNode(i, tree) ==
    LET below == Below(i, Len(lines))
    IN IF below # {} /\ \A j \in below : IsItem(lines[j]) THEN ListNode(ItemsBelow(i)[Len(lines)])
       ELSE IF i # 0 /\ LineSplit(i).raw # <<>> THEN ParseInlineValue(LineSplit(i).raw)
       ELSE MapNode([key \in {LineSplit(j).key : j \in below} |->
                       tree[CHOOSE j \in below : LineSplit(j).key = key]])

Outline == LET tree[i \in 0..Len(lines)] == OutlineNode(i, tree) IN tree

(***************************************************************************)
(* The recursive descent of parseBlock, parseMap and parseList finds the   *)
(* outline: it returns the tree of the lines when every line belongs to    *)
(* one block with its siblings, none of them twice, and refuses the        *)
(* document otherwise.  No line is skipped, put under another parent or    *)
(* replaced by a later one.                                                *)
(***************************************************************************)
ParsesOutlines ==
    /\ phase \in {"parsed", "accepted", "invalid"} => IsOutline /\ root = Outline[0]
    /\ phase = "malformed" /\ lines # <<>> => ~IsOutline

\* The fields below an entry of a section: those in a mapping are told from the others
\* by its name before theirs, and a mapping without any is a field itself.
FieldsOf(node) ==
    LET deep == {f \in DOMAIN node.entries : /\ node.entries[f].kind = "map"
                                             /\ DOMAIN node.entries[f].entries # {}}
    IN {Head(f) : f \in DOMAIN node.entries \ deep}
       \union UNION {{Head(f) \o "." \o Head(g) : g \in DOMAIN node.entries[f].entries} : f \in deep}

(***************************************************************************)
(* An accepted contract asks for exactly what it says: every field below   *)
(* an entry becomes a check, or is the state or the service of the entry,  *)
(* and nothing else is asked.  A field the decoder passes over would be    *)
(* reported as satisfied by not being reported at all.                     *)
(***************************************************************************)
EveryFieldIsAsked ==
    phase = "accepted" =>
      LET fields(section, name) == FieldsOf(Entries(root, section)[name])
          contract == Decoded(root)
      IN /\ DOMAIN contract.services = DOMAIN Entries(root, "services")
         /\ \A s \in DOMAIN contract.services :
              fields("services", s) = contract.services[s].asks \union {"state"}
         /\ DOMAIN contract.identity = DOMAIN Entries(root, "identity")
         /\ \A i \in DOMAIN contract.identity :
              fields("identity", i) = contract.identity[i].asks \union {"service"}
         /\ contract.paths = [p \in DOMAIN Entries(root, "paths") |-> fields("paths", p)]
         /\ contract.sockets = [s \in DOMAIN Entries(root, "sockets") |-> fields("sockets", s)]

-----------------------------------------------------------------------------
(***************************************************************************)
(* Why.  Each frame reads one block: it was opened at the nearest line     *)
(* above that is less deep, which is an entry without a value of the       *)
(* caller's block, and has the depth and the kind of the line behind that  *)
(* one.                                                                    *)
(***************************************************************************)
Opener(k) == Nearest(index, frames[k].indent)

TypeOK ==
    /\ doc \in Documents
    /\ phase \in {"text", "blocks", "parsed", "accepted", "invalid", "malformed"}
    /\ lines \in Seq([indent : Nat, text : Seq(STRING)])
    /\ index \in Nat
    /\ frames \in Seq(ToSet(frames))
    /\ \A k \in DOMAIN frames :
         /\ DOMAIN frames[k] = {"kind", "indent", "key", "entries", "items"}
         /\ frames[k].entries = [key \in DOMAIN frames[k].entries |-> frames[k].entries[key]]

FrameInv ==
    /\ phase = "text" => lines = <<>> /\ index = 1
    /\ phase = "blocks" =>
         /\ lines # <<>> /\ lines[1].indent = 0 /\ index \in 1..(Len(lines) + 1)
         /\ frames # <<>> /\ frames[1].indent = 0
         /\ \A k \in DOMAIN frames :
              LET i == Opener(k)
              IN /\ i < Len(lines) /\ i < index
                 /\ frames[k].indent = lines[i + 1].indent
                 /\ frames[k].kind = IF IsItem(lines[i + 1]) THEN "list" ELSE "map"
         /\ \A k \in DOMAIN frames \ {1} :
              LET i == Opener(k)
              IN /\ i # 0 /\ frames[k].key = LineSplit(i).key
                 /\ lines[i].indent = frames[k - 1].indent
                 /\ \A j \in 1..(k - 1) : frames[j].indent < frames[k].indent
                 /\ frames[k - 1].kind = "map"
                 /\ LineSplit(i).raw = <<>>

(***************************************************************************)
(* The lines read are an outline as far as they go; once a line is too     *)
(* deep for the block that is being read, all of them are none.            *)
(***************************************************************************)
ReadInv ==
    phase = "blocks" =>
      /\ IsOutlined(index - 1)
      /\ index <= Len(lines) /\ Line.indent > Top.indent => ~IsOutline

\* The lines of its block that a frame has taken in, without the one that is still open.
TakenIn(k) ==
    {j \in Below(Opener(k), index - 1) : k < Len(frames) => j # Opener(k + 1)}

(***************************************************************************)
(* What a frame has collected is what these lines stand for.               *)
(***************************************************************************)
TakenInv ==
    phase = "blocks" =>
      \A k \in DOMAIN frames :
        IF frames[k].kind = "map"
        THEN /\ DOMAIN frames[k].entries = {LineSplit(j).key : j \in TakenIn(k)}
             /\ IsOutline =>
                  \A j \in TakenIn(k) : frames[k].entries[LineSplit(j).key] = Outline[j]
        ELSE IsOutline => frames[k].items = ItemsBelow(Opener(k))[index - 1]

\* What follows the parser: an accepted tree is that of a contract.
AcceptedInv == phase = "accepted" => IsContract

ParserInv == TypeOK /\ FrameInv /\ ReadInv /\ TakenInv /\ AcceptedInv /\ ParsesOutlines
=============================================================================
