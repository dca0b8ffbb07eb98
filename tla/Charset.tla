------------------------------- MODULE Charset -------------------------------
(***************************************************************************)
(* Characters, lines and columns of a run of bytes: the functions of       *)
(* charset.c behind the "8bit" family and "utf8", and eb_nextc / eb_prevc  *)
(* of buffer.c, which step over the whole contents of a buffer.            *)
(*                                                                         *)
(* A byte is told apart by its role only: "a" stands for every byte that   *)
(* is one character, "nl" and "cr" for the two end of line bytes, "L2" and *)
(* "L3" for the lead bytes of two and three byte sequences, "T" for a      *)
(* trailing byte.  "L0" is the lead byte 0xC0, which adds no bits: with    *)
(* the trailing bytes "TN" (0x8A) and "TR" (0x8D) it is an overlong line   *)
(* feed and an overlong carriage return, which the lax decoder accepts.    *)
(* (Longer overlong sequences are treated alike.)  Offsets count from 0.   *)
(***************************************************************************)
EXTENDS Integers, Sequences, FiniteSets

Charsets == {"8bit", "utf8"}
EolTypes == {"UNIX", "DOS", "MAC"}

Trailing == {"T", "TN", "TR"}

(* utf8_length *)
utf8_length(c) == CASE c \in {"L0", "L2"} -> 2 [] c = "L3" -> 3 [] OTHER -> 1

(* utf8_decode: how many bytes of s the character at offset o takes.  A    *)
(* sequence that is cut short counts as single bytes.                      *)
DecodedLength(s, o) ==
    LET n == utf8_length(s[o + 1])
    IN  IF o + n <= Len(s) /\ \A i \in o + 2 .. o + n : s[i] \in Trailing THEN n ELSE 1

(* utf8_decode, decode_8bit: the character at offset o, as the byte that   *)
(* encodes it in the shortest way.                                         *)
Decoded(s, o, cs) ==
    IF cs = "utf8" /\ s[o + 1] = "L0" /\ DecodedLength(s, o) = 2
    THEN CASE s[o + 2] = "TN" -> "nl" [] s[o + 2] = "TR" -> "cr" [] OTHER -> "a"
    ELSE s[o + 1]

-----------------------------------------------------------------------------
(* charset_decode_init: the byte that ends a line. *)
eol_char(eol) == IF eol = "UNIX" THEN "nl" ELSE "cr"

Eols(s, eol) == {i \in 1 .. Len(s) : s[i] = eol_char(eol)}

(* In a DOS text the line feed at offset o belongs to the end of line.     *)
SkipLineFeed(s, o, eol) ==
    IF eol = "DOS" /\ o < Len(s) /\ s[o + 1] = "nl" THEN o + 1 ELSE o

(* charset_goto_line_8bit: where line number `nlines' of s starts, or the  *)
(* last line when there are fewer.                                         *)
goto_line_8bit(s, nlines, eol) ==
    LET E == Eols(s, eol)
        n == IF nlines > Cardinality(E) THEN Cardinality(E) ELSE nlines
        Ends(i) == Cardinality({j \in E : j <= i}) = n
    IN  SkipLineFeed(s, IF n = 0 THEN 0 ELSE CHOOSE i \in E : Ends(i), eol)

(* charset_get_pos_8bit: number of lines and column at the end of s. *)
get_pos_8bit(s, eol) ==
    LET n == Cardinality(Eols(s, eol))
    IN  [line |-> n, col |-> Len(s) - goto_line_8bit(s, n, eol)]

(* charset_get_pos_utf8: the column counts hops of utf8_length from the    *)
(* last end of line.                                                       *)
get_pos_utf8(s, eol) ==
    LET E == Eols(s, eol)
        lp == IF E = {} THEN 0 ELSE CHOOSE i \in E : \A j \in E : j <= i
        hops[o \in 0 .. Len(s) + 2] ==
            IF o >= Len(s) THEN 0 ELSE 1 + hops[o + utf8_length(s[o + 1])]
    IN  [line |-> Cardinality(E), col |-> hops[lp]]

get_pos_func(s, cs, eol) ==
    IF cs = "utf8" THEN get_pos_utf8(s, eol) ELSE get_pos_8bit(s, eol)

(* charset_get_chars_8bit, charset_get_chars_utf8: trailing bytes, and the *)
(* line feeds of a DOS text, count for nothing.                            *)
Counted(c, cs, eol) == ~(cs = "utf8" /\ c \in Trailing) /\ ~(eol = "DOS" /\ c = "nl")
get_chars_func(s, cs, eol) == Cardinality({i \in 1 .. Len(s) : Counted(s[i], cs, eol)})

(* charset_goto_char_8bit, charset_goto_char_utf8: offset of the counted   *)
(* byte that `pos' counted bytes come before, or the end of s.             *)
goto_char_func(s, pos, cs, eol) ==
    IF cs = "8bit" /\ eol # "DOS"
    THEN IF pos > Len(s) THEN Len(s) ELSE pos
    ELSE LET At(o) == \/ o = Len(s)
                      \/ /\ Counted(s[o + 1], cs, eol)
                         /\ get_chars_func(SubSeq(s, 1, o), cs, eol) >= pos
         IN  CHOOSE o \in 0 .. Len(s) : At(o) /\ \A p \in 0 .. o - 1 : ~At(p)

-----------------------------------------------------------------------------
(* eb_nextc and eb_prevc look at the other character of a DOS end of line  *)
(* in `buf', of which only the bytes read from the text are set.  `junk'   *)
(* is the uninitialised byte behind them: any byte.                        *)
Junk == {"a", "TN", "TR"}

(* eb_nextc: the end of the character at o, and whether it is a carriage   *)
(* return of a DOS text with a line feed, as decoded, behind it.           *)
CharEnd(t, o, cs) == o + (IF cs = "utf8" THEN DecodedLength(t, o) ELSE 1)
DosEol(t, o, cs, eol, junk) ==
    LET p == CharEnd(t, o, cs)
    IN  /\ eol = "DOS" /\ Decoded(t, o, cs) = "cr"
        /\ p < Len(t) /\ Decoded(Append(t, junk), p, cs) = "nl"

(* eb_nextc on the text t: the offset behind the character at o.  The line *)
(* feed is skipped by char_size, one byte, however it is encoded.          *)
eb_next(t, o, cs, eol, junk) ==
    CASE o >= Len(t) -> Len(t)
      [] o < Len(t) /\ DosEol(t, o, cs, eol, junk) -> CharEnd(t, o, cs) + 1
      [] OTHER -> CharEnd(t, o, cs)

(* eb_nextc: the character at o ends a line. *)
AtNewline(t, o, cs, eol, junk) ==
    \/ o >= Len(t)
    \/ eol = "MAC" /\ Decoded(t, o, cs) = "cr"
    \/ eol # "MAC" /\ Decoded(t, o, cs) = "nl"
    \/ DosEol(t, o, cs, eol, junk)

(* eb_prevc on the text t: the offset of the character that ends at o.  At *)
(* a trailing byte it looks back for a lead byte, over at most             *)
(* MAX_CHAR_BYTES bytes, and takes the single byte when the sequence found *)
(* does not end at o.                                                      *)
MAX_CHAR_BYTES == 6

Lead(t, o) ==
    LET Found(p) == \A i \in p + 2 .. o : t[i] \in Trailing
        lowest == IF o > MAX_CHAR_BYTES THEN o - MAX_CHAR_BYTES ELSE 0
    IN  CHOOSE p \in lowest .. o - 1 :
            Found(p) /\ (t[p + 1] \notin Trailing \/ p = lowest)

(* The byte in front of offset o, decoded on its own, is a carriage return. *)
ReturnBefore(t, o, cs, junk) ==
    o >= 1 /\ Decoded(<<t[o], junk>>, 0, cs) = "cr"

(* Mutant: the sequence found is taken although it does not end at o. *)
eb_prevLead(t, o, cs, eol, junk) ==
    IF o <= 0 THEN 0
    ELSE LET p == IF cs = "utf8" /\ t[o] \in Trailing THEN Lead(t, o) ELSE o - 1
             dos == eol = "DOS" /\ Decoded(t, p, cs) = "nl"
         IN  IF dos /\ ReturnBefore(t, p, cs, junk) THEN p - 1 ELSE p

eb_prev(t, o, cs, eol, junk) ==
    IF o <= 0 THEN 0
    ELSE LET p == IF cs = "utf8" /\ t[o] \in Trailing THEN Lead(t, o) ELSE o - 1
             q == IF cs = "utf8" /\ p + DecodedLength(t, p) = o THEN p ELSE o - 1
             dos == eol = "DOS" /\ Decoded(SubSeq(t, 1, o), q, cs) = "nl"
         IN  IF dos /\ ReturnBefore(t, q, cs, junk) THEN q - 1 ELSE q

-----------------------------------------------------------------------------
(* Correctly encoded: nothing is overlong, every lead byte has its         *)
(* trailing bytes and every trailing byte has its lead byte.               *)
CorrectUtf8(t) ==
    /\ \A i \in 1 .. Len(t) : t[i] # "L0" /\ utf8_length(t[i]) = DecodedLength(t, i - 1)
    /\ \A i \in 1 .. Len(t) :
        t[i] \in Trailing => \E k \in 1 .. i - 1 : k + utf8_length(t[k]) > i

(* In a DOS text a line feed comes after a carriage return only. *)
CorrectDos(t) == \A i \in 1 .. Len(t) : t[i] = "nl" => i > 1 /\ t[i - 1] = "cr"

Correct(t, cs, eol) == (cs = "utf8" => CorrectUtf8(t)) /\ (eol = "DOS" => CorrectDos(t))

(* No overlong end of line in a DOS text, and none that a lead byte 0xC0   *)
(* next to an end of line byte may be taken for: there buffer.c says of    *)
(* eb_nextc "incorrect behaviour on ill encoded utf8 sequences".           *)
NoOverlongEol(t, cs, eol) ==
    cs = "utf8" /\ eol = "DOS" =>
        \A i \in 1 .. Len(t) : t[i] = "L0" =>
            /\ i > 1 => t[i - 1] \notin {"cr", "L0"}
            /\ i < Len(t) => t[i + 1] \notin {"nl", "TN", "TR"}

(* The offsets that eb_nextc reaches from the start of t. *)
Boundaries(t, cs, eol) ==
    LET reached[o \in 0 .. Len(t)] ==
            o = 0 \/ \E p \in 0 .. o - 1, j \in Junk :
                        reached[p] /\ eb_next(t, p, cs, eol, j) = o
    IN  {o \in 0 .. Len(t) : reached[o]}
=============================================================================
