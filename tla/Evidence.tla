------------------------------- MODULE Evidence -------------------------------
(***************************************************************************)
(* sanitizeEvidence of src/internal/reporters/evidence_sanitize.go: what a *)
(* report shows of the text a collector kept as evidence.                  *)
(*                                                                         *)
(* A text is a sequence of pieces with a size in bytes: a character, the   *)
(* value of a credential (what the redaction patterns replace), a letter   *)
(* of the mark put in its place, or a byte that is no UTF-8.               *)
(***************************************************************************)
EXTENDS Integers, SequencesExt

CONSTANTS
    RawLimit,    \* defaultEvidenceRawLimit
    SuffixSize,  \* bytes of truncateSuffix
    MarkSize     \* bytes of "[REDACTED]"

ASSUME LimitAssumption == RawLimit \in Nat /\ SuffixSize \in 1..(RawLimit - 1) /\ MarkSize \in Nat

Piece(kind, size) == [kind |-> kind, size |-> size]

\* What a collector may have kept.
RawPiece == [kind : {"char", "secret", "stray"}, size : Nat \ {0}]

Mark == [n \in 1..MarkSize |-> Piece("mark", 1)]
Suffix == <<Piece("suffix", SuffixSize)>>

\* Where each piece ends, in bytes.
Ends(text) ==
    LET end[i \in 0..Len(text)] == IF i = 0 THEN 0 ELSE end[i - 1] + text[i].size IN end
Bytes(text) == Ends(text)[Len(text)]
Offset(text, i) == Ends(text)[i - 1]

\* redactEvidenceRaw: the patterns and what they leave.
Redact(text) ==
    FlattenSeq([i \in DOMAIN text |-> IF text[i].kind = "secret" THEN Mark ELSE <<text[i]>>])

\* utf8.RuneLen of what range finds: the replacement character for a stray byte.
RuneLen(piece) == IF piece.kind = "stray" THEN 3 ELSE piece.size

\* The cut of truncateUTF8: the end of the last rune before the first that does not fit.
Cut(text, limit) ==
    LET after(i) == Offset(text, i) + RuneLen(text[i])
        kept == Max({0} \union {i \in DOMAIN text : \A j \in 1..i : after(j) <= limit})
    IN IF kept = 0 THEN 0 ELSE after(kept)

\* value[:cut]; a piece that straddles the cut is torn.
Prefix(text, cut) ==
    [i \in 1..Max({0} \union {j \in DOMAIN text : Offset(text, j) < cut}) |->
       IF Offset(text, i) + text[i].size <= cut THEN text[i]
       ELSE Piece("torn", cut - Offset(text, i))]

\* truncateEvidenceRaw.
Truncate(text) ==
    IF Bytes(text) <= RawLimit THEN text
    ELSE Prefix(text, Cut(text, RawLimit - SuffixSize)) \o Suffix

\* Slip: truncated first, redacted afterwards.
SanitizeCutFirst(raw, includeRaw) ==
    IF includeRaw THEN [raw |-> raw, redacted |-> FALSE, truncated |-> FALSE]
    ELSE [raw |-> Redact(Truncate(raw)),
          redacted |-> Redact(Truncate(raw)) # Truncate(raw),
          truncated |-> Truncate(raw) # raw]

\* sanitizeEvidence; no collector sets the flags, and an empty text stays as it is.
Sanitize(raw, includeRaw) ==
    IF includeRaw THEN [raw |-> raw, redacted |-> FALSE, truncated |-> FALSE]
    ELSE [raw |-> Truncate(Redact(raw)),
          redacted |-> Redact(raw) # raw,
          truncated |-> Bytes(Redact(raw)) > RawLimit]
=============================================================================
