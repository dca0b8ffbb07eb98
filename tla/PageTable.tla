------------------------------ MODULE PageTable ------------------------------
(***************************************************************************)
(* The pages behind the contents of one edit buffer (buffer.c): splitting  *)
(* and merging of pages, the page cache of find_page, the pages that map a *)
(* file read-only, and the line / column / character numbers cached in     *)
(* each page.                                                              *)
(*                                                                         *)
(* A page holds its bytes, whether they are those of the mapped file (addr *)
(* is then their place in the file), and the two caches, NotValid when the *)
(* PG_VALID flag is clear.  An insertion takes several steps, one for each *)
(* turn of the `retry' loop of eb_insert_lowlevel; everything else is one  *)
(* step.                                                                   *)
(***************************************************************************)
EXTENDS Charset, TextOps, SequencesExt

CONSTANTS
    Byte,           \* the bytes that are inserted
    MAX_PAGE_SIZE,  \* qe.h
    MapFile,        \* contents of the file that may be mapped
    UsedCharsets, UsedEols,
    MaxSize,        \* bound: longest contents
    MaxInsert,      \* bound: longest string inserted at once
    Ops             \* the operations in use

ASSUME PageTableAssumption ==
    /\ MAX_PAGE_SIZE \in Nat \ {0}
    /\ UsedCharsets \subseteq Charsets /\ UsedEols \subseteq EolTypes

VARIABLES
    pages,          \* page_table[0 .. nb_pages - 1]
    total_size,
    cur_page,       \* index in pages, 0 for NULL
    cur_offset,
    charset, eol_type,
    ins             \* locals of a running insertion, or Idle

vars == <<pages, total_size, cur_page, cur_offset, charset, eol_type, ins>>

NotValid == [valid |-> FALSE]
Idle == [chunks |-> <<>>]

Size(p) == Len(p.data)
NewPage(d) == [data |-> d, ro |-> FALSE, addr |-> 0, pos |-> NotValid, chars |-> NotValid]

(* The contents: the bytes of all pages. *)
Contents(t) == FlattenSeq([i \in DOMAIN t |-> t[i].data])

(* Offset of the first byte of page i. *)
PageStart(t, i) == Len(Contents(SubSeq(t, 1, i - 1)))

Least(m, n) == IF m < n THEN m ELSE n
LastBytes(d, n) == SubSeq(d, Len(d) - n + 1, Len(d))

-----------------------------------------------------------------------------
(* Mutant: the numbers of a page are kept under a change. *)
UpdateKeepsPos(p, d) == [NewPage(d) EXCEPT !.pos = p.pos]

(* update_page and the change of the bytes that always follows it. *)
Update(p, d) == NewPage(d)

(* What find_page reads when it runs past the last page. *)
BeyondTable == [page |-> 0, offset |-> 0, start |-> 0]

(* find_page: the page that holds offset o, searched from the cached page  *)
(* when the cache is at or before o, and from the first page otherwise.    *)
find_page(t, cur, curoff, o) ==
    LET cached == cur # 0 /\ o >= curoff
        from == IF cached THEN cur ELSE 1
        base == IF cached THEN curoff ELSE 0
        start[i \in from .. Len(t)] ==
            IF i = from THEN base ELSE start[i - 1] + Size(t[i - 1])
        Holds(i) == o < start[i] + Size(t[i]) /\ \A j \in from .. i - 1 : o >= start[j] + Size(t[j])
        k == CHOOSE i \in from .. Len(t) : Holds(i)
    IN  IF \E i \in from .. Len(t) : Holds(i)
        THEN [page |-> k, offset |-> o - start[k], start |-> start[k]]
        ELSE BeyondTable

(* eb_read of one byte, through the cache. *)
ByteAt(t, cur, curoff, o) ==
    LET f == find_page(t, cur, curoff, o)
    IN  IF f = BeyondTable THEN "none" ELSE t[f.page].data[f.offset + 1]

-----------------------------------------------------------------------------
(* Mutants: a page filled beyond its limit; bytes taken from the wrong end. *)
eb_insert1Whole(t, k, buf) ==
    IF k <= Len(t) THEN [t EXCEPT ![k] = Update(@, buf \o @.data)] ELSE Append(t, NewPage(buf))

eb_insert1Front(t, k, buf) ==
    LET len == IF k <= Len(t) THEN Least(MAX_PAGE_SIZE - Size(t[k]), Len(buf)) ELSE 0
        rest == Len(buf) - len
        n == (rest + MAX_PAGE_SIZE - 1) \div MAX_PAGE_SIZE
        new == [i \in 1 .. n |->
                  NewPage(SubSeq(buf, (i - 1) * MAX_PAGE_SIZE + 1, Least(i * MAX_PAGE_SIZE, rest)))]
        t1 == IF len > 0 THEN [t EXCEPT ![k] = Update(@, SubSeq(buf, 1, len) \o @.data)] ELSE t
    IN  SubSeq(t1, 1, k - 1) \o new \o SubSeq(t1, k, Len(t1))

(* eb_insert1: the bytes buf at the beginning of page k.  Their end goes   *)
(* into page k as far as it has room, the rest into new pages before it.   *)
eb_insert1(t, k, buf) ==
    LET len == IF k <= Len(t) THEN Least(MAX_PAGE_SIZE - Size(t[k]), Len(buf)) ELSE 0
        rest == Len(buf) - len
        n == (rest + MAX_PAGE_SIZE - 1) \div MAX_PAGE_SIZE
        new == [i \in 1 .. n |->
                  NewPage(SubSeq(buf, (i - 1) * MAX_PAGE_SIZE + 1, Least(i * MAX_PAGE_SIZE, rest)))]
        t1 == IF len > 0 THEN [t EXCEPT ![k] = Update(@, LastBytes(buf, len) \o @.data)] ELSE t
    IN  SubSeq(t1, 1, k - 1) \o new \o SubSeq(t1, k, Len(t1))

(* The end of eb_insert_lowlevel, with no room to gain in the page before: *)
(* the bytes of page k behind `offset' that do not fit move on, then buf   *)
(* fills page k, and what is left of buf goes in front of page k + 1.      *)
InsertInPage(t, k, offset, buf) ==
    LET d == t[k].data
        len == Least(MAX_PAGE_SIZE - offset, Len(buf))
        out == Len(d) + len - MAX_PAGE_SIZE
        keep == IF out > 0 THEN Len(d) - out ELSE Len(d)
        t1 == IF out > 0 THEN eb_insert1(t, k + 1, LastBytes(d, out)) ELSE t
        t2 == IF len = 0 THEN t1
              ELSE [t1 EXCEPT ![k] = Update(@, InsertBytes(SubSeq(d, 1, keep), offset,
                                                           SubSeq(buf, 1, len)))]
    IN  IF len = Len(buf) THEN t2 ELSE eb_insert1(t2, k + 1, SubSeq(buf, len + 1, Len(buf)))

-----------------------------------------------------------------------------
(* Lines and columns.  A page is measured once, then remembered.           *)
PagePos(p) == IF p.pos.valid THEN p.pos.at ELSE get_pos_func(p.data, charset, eol_type)
PageChars(p) == IF p.chars.valid THEN p.chars.at ELSE get_chars_func(p.data, charset, eol_type)
WithPos(p) == [p EXCEPT !.pos = [valid |-> TRUE, at |-> PagePos(p)]]
WithChars(p) == [p EXCEPT !.chars = [valid |-> TRUE, at |-> PageChars(p)]]

(* The pages that end at or before offset o. *)
FullPages(t, o) == Cardinality({i \in DOMAIN t : PageStart(t, i + 1) <= o})

Origin == [line |-> 0, col |-> 0]
AddPos(p, q) ==
    [line |-> p.line + q.line, col |-> (IF q.line # 0 THEN 0 ELSE p.col) + q.col]

(* eb_get_pos *)
eb_get_pos(t, o) ==
    LET k == FullPages(t, o)
        full == FoldLeft(AddPos, Origin, [i \in 1 .. k |-> PagePos(t[i])])
    IN  IF k = Len(t) THEN full
        ELSE AddPos(full, get_pos_func(Bytes(t[k + 1].data, 0, o - PageStart(t, k + 1)),
                                       charset, eol_type))

(* eb_goto_pos: line and column in front of page i, as the loop adds them  *)
(* up, the page where it stops, and the walk from there.  Without the byte *)
(* "L0" in the text the uninitialised byte of eb_nextc makes no difference.*)
LoopPos(t, i) ==
    FoldLeft(LAMBDA p, q : [line |-> p.line + q.line, col |-> p.col + q.col], Origin,
             [j \in 1 .. i - 1 |-> PagePos(t[j])])
(* Mutant: a page that ends in the line is passed over. *)
StopsAtLater(t, i, line, col) == LoopPos(t, i + 1).line > line

StopsAt(t, i, line, col) ==
    LET q == LoopPos(t, i + 1) IN q.line > line \/ (q.line = line /\ q.col >= col)
StopPages(t, line, col) == {i \in DOMAIN t : StopsAt(t, i, line, col)}
Walk(txt, o, n) ==
    LET walk[m \in 0 .. n] ==
            IF m = 0 THEN o
            ELSE IF AtNewline(txt, walk[m - 1], charset, eol_type, "a") THEN walk[m - 1]
            ELSE eb_next(txt, walk[m - 1], charset, eol_type, "a")
    IN  walk[n]
eb_goto_pos(t, line, col) ==
    LET S == StopPages(t, line, col)
        i == CHOOSE j \in S : \A k \in S : j <= k
        q == LoopPos(t, i)
        o == PageStart(t, i)
    IN  CASE S = {} -> Len(Contents(t))
          [] S # {} /\ q.line < line ->
                Walk(Contents(t), o + goto_line_8bit(t[i].data, line - q.line, eol_type), col)
          [] OTHER -> Walk(Contents(t), o, IF col > q.col THEN col - q.col ELSE 0)

(* eb_goto_char and eb_get_char_offset *)
FixedSize == charset = "8bit" /\ eol_type # "DOS"
CharsBefore(t, i) == FoldLeft(+, 0, [j \in 1 .. i - 1 |-> PageChars(t[j])])
CharPages(t, pos) == {i \in DOMAIN t : pos < CharsBefore(t, i + 1)}
eb_goto_char(t, pos) ==
    LET S == CharPages(t, pos)
        i == CHOOSE j \in S : \A k \in S : j <= k
    IN  CASE FixedSize -> Least(pos, total_size)
          [] ~FixedSize /\ S = {} -> Len(Contents(t))
          [] OTHER -> PageStart(t, i)
                      + goto_char_func(t[i].data, pos - CharsBefore(t, i), charset, eol_type)
RoundDown(txt, o) ==
    LET R == {p \in 0 .. o : p = 0 \/ p >= Len(txt) \/ txt[p + 1] # "T"}
    IN  IF charset = "utf8" THEN CHOOSE p \in R : \A q \in R : q <= p ELSE o
eb_get_char_offset(t, offset) ==
    LET o == RoundDown(Contents(t), offset)
        k == FullPages(t, o)
    IN  CASE FixedSize -> Least(offset, total_size)
          [] ~FixedSize /\ k = Len(t) -> CharsBefore(t, k + 1)
          [] OTHER -> CharsBefore(t, k + 1)
                      + get_chars_func(Bytes(t[k + 1].data, 0, o - PageStart(t, k + 1)),
                                       charset, eol_type)

-----------------------------------------------------------------------------
NoCache == cur_page' = 0 /\ UNCHANGED cur_offset
FindPage(f) == cur_page' = f.page /\ cur_offset' = f.start
SameCharset == UNCHANGED <<charset, eol_type>>

Strings == UNION {[1 .. n -> Byte] : n \in 1 .. MaxInsert}

(* eb_insert, past its checks: one string at a clipped offset.             *)
(* eb_insert_buffer: the same for the pieces of the pages of a source.     *)
eb_insert ==
    /\ "insert" \in Ops /\ ins = Idle
    /\ \E s \in Strings, o \in 0 .. total_size :
        /\ total_size + Len(s) <= MaxSize
        /\ ins' = [chunks |-> <<s>>, at |-> o, page |-> 0, offset |-> 0]
    /\ SameCharset /\ UNCHANGED <<pages, total_size, cur_page, cur_offset>>

eb_insert_buffer ==
    /\ "insert-buffer" \in Ops /\ ins = Idle
    /\ \E s, r \in Strings, o \in 0 .. total_size :
        /\ total_size + Len(s) + Len(r) <= MaxSize
        /\ ins' = [chunks |-> <<s, r>>, at |-> o, page |-> 0, offset |-> 0]
    /\ SameCharset /\ UNCHANGED <<pages, total_size, cur_page, cur_offset>>

(* Mutant: the page cache survives an insertion. *)
InsertedKeepsCache(t) ==
    /\ pages' = t
    /\ ins' = IF Len(ins.chunks) = 1 THEN Idle
              ELSE [chunks |-> Tail(ins.chunks), at |-> ins.at + Len(Head(ins.chunks)),
                    page |-> 0, offset |-> 0]
    /\ UNCHANGED <<cur_page, cur_offset>>

(* The string is in: the cache is dropped, the next piece follows. *)
Inserted(t) ==
    /\ pages' = t
    /\ ins' = IF Len(ins.chunks) = 1 THEN Idle
              ELSE [chunks |-> Tail(ins.chunks), at |-> ins.at + Len(Head(ins.chunks)),
                    page |-> 0, offset |-> 0]
    /\ NoCache

(* eb_insert_lowlevel up to `retry'. *)
LowlevelBegin ==
    /\ ins # Idle /\ ins.page = 0
    /\ total_size' = total_size + Len(Head(ins.chunks))
    /\ \/ /\ ins.at = 0
          /\ Inserted(eb_insert1(pages, 1, Head(ins.chunks)))
       \/ /\ ins.at > 0
          /\ LET f == find_page(pages, cur_page, cur_offset, ins.at - 1)
             IN  /\ ins' = [ins EXCEPT !.page = f.page, !.offset = f.offset + 1]
                 /\ FindPage(f)
          /\ UNCHANGED pages
    /\ SameCharset

Overflows(k, offset) ==
    Size(pages[k]) + Least(MAX_PAGE_SIZE - offset, Len(Head(ins.chunks))) > MAX_PAGE_SIZE

(* Mutant: a full page before is taken to have room. *)
CanShiftFull == Overflows(ins.page, ins.offset) /\ ins.page > 1

(* One turn of the loop that makes room by filling the page before. *)
CanShift == Overflows(ins.page, ins.offset) /\ ins.page > 1
            /\ Size(pages[ins.page - 1]) < MAX_PAGE_SIZE
LowlevelShift ==
    /\ ins # Idle /\ ins.page # 0 /\ CanShift
    /\ LET k == ins.page
           chunk == Least(MAX_PAGE_SIZE - Size(pages[k - 1]), ins.offset)
           prev == pages[k - 1].data \o SubSeq(pages[k].data, 1, chunk)
           rest == SubSeq(pages[k].data, chunk + 1, Size(pages[k]))
           shifted == [pages EXCEPT ![k - 1] = Update(@, prev), ![k] = Update(@, rest)]
           restart == rest = <<>> \/ (chunk = ins.offset /\ Len(prev) < MAX_PAGE_SIZE)
       IN  /\ pages' = IF rest = <<>> THEN RemoveAt(shifted, k) ELSE shifted
           /\ ins' = IF restart THEN [ins EXCEPT !.page = k - 1, !.offset = Len(prev)]
                     ELSE [ins EXCEPT !.offset = @ - chunk]
    /\ SameCharset /\ UNCHANGED <<total_size, cur_page, cur_offset>>

LowlevelEnd ==
    /\ ins # Idle /\ ins.page # 0 /\ ~CanShift
    /\ Inserted(InsertInPage(pages, ins.page, ins.offset, Head(ins.chunks)))
    /\ SameCharset /\ UNCHANGED total_size

eb_insert_lowlevel == LowlevelBegin \/ LowlevelShift \/ LowlevelEnd

-----------------------------------------------------------------------------
(* The part of page i, whose first byte is at offset start, within the n   *)
(* bytes from o: offset in the page and length.                            *)
PartFrom(start, o) == IF o > start THEN o - start ELSE 0

(* Mutant: only the page where the change starts is dealt with. *)
PartLengthFirst(p, start, o, n) ==
    IF o >= start THEN Least(Size(p), o + n - start) - PartFrom(start, o) ELSE 0

PartLength(p, start, o, n) ==
    Least(Size(p), IF o + n > start THEN o + n - start ELSE 0) - PartFrom(start, o)

(* The pages with New applied to those that hold some of the n bytes from  *)
(* o, found from the page find_page gave: where they are in the page, how  *)
(* many, and how many of the n come before them.                           *)
Change(t, f, o, n, New(_, _, _, _)) ==
    [i \in DOMAIN t |->
        LET start == f.start + Len(Contents(SubSeq(t, f.page, i - 1)))
            from == PartFrom(start, o)
            len == PartLength(t[i], start, o, n)
        IN  IF i < f.page \/ len <= 0 THEN t[i] ELSE New(t[i], from, len, start + from - o)]

(* eb_delete: whole pages go, the pages at the two ends are cut. *)
eb_delete(o, n) ==
    /\ "delete" \in Ops /\ ins = Idle
    /\ LET Cut(p, from, len, before) == Update(p, DeleteBytes(p.data, from, len))
           f == find_page(pages, cur_page, cur_offset, o)
       IN  /\ total_size' = total_size - n
           /\ pages' = SelectSeq(Change(pages, f, o, n, Cut), LAMBDA p : p.data # <<>>)
    /\ NoCache /\ SameCharset /\ UNCHANGED ins

(* eb_write: over the bytes there are, then as an insertion at the end. *)
eb_write(o, s) ==
    /\ "write" \in Ops /\ ins = Idle
    /\ LET n == Least(Len(s), total_size - o)
           f == find_page(pages, cur_page, cur_offset, o)
           Over(p, from, len, before) ==
               Update(p, WriteBytes(p.data, from, Bytes(s, before, len)))
       IN  /\ \/ n > 0 /\ pages' = Change(pages, f, o, n, Over) /\ FindPage(f)
              \/ n = 0 /\ UNCHANGED <<pages, cur_page, cur_offset>>
           /\ ins' = IF n = Len(s) THEN Idle
                     ELSE [chunks |-> <<Bytes(s, n, Len(s) - n)>>, at |-> o + n,
                           page |-> 0, offset |-> 0]
    /\ SameCharset /\ UNCHANGED total_size

(* eb_read_one_byte, eb_read: only the cache moves. *)
eb_read ==
    /\ "read" \in Ops /\ ins = Idle
    /\ \E o \in 0 .. total_size - 1 : FindPage(find_page(pages, cur_page, cur_offset, o))
    /\ SameCharset /\ UNCHANGED <<pages, total_size, ins>>

(* eb_mmap_buffer, into an empty buffer. *)
eb_mmap_buffer ==
    /\ "mmap" \in Ops /\ ins = Idle /\ pages = <<>>
    /\ LET n == (Len(MapFile) + MAX_PAGE_SIZE - 1) \div MAX_PAGE_SIZE
           piece(i) == Bytes(MapFile, (i - 1) * MAX_PAGE_SIZE,
                             Least(MAX_PAGE_SIZE, Len(MapFile) - (i - 1) * MAX_PAGE_SIZE))
       IN  pages' = [i \in 1 .. n |-> [NewPage(piece(i)) EXCEPT
                                          !.ro = TRUE, !.addr = (i - 1) * MAX_PAGE_SIZE]]
    /\ total_size' = Len(MapFile)
    /\ SameCharset /\ UNCHANGED <<cur_page, cur_offset, ins>>

(* Mutant: a new charset under the old numbers. *)
SetCharsetKeepsNumbers ==
    /\ "set-charset" \in Ops /\ ins = Idle
    /\ charset' \in UsedCharsets /\ eol_type' \in UsedEols
    /\ UNCHANGED <<pages, total_size, cur_page, cur_offset, ins>>

(* eb_set_charset: the numbers in the pages no longer hold. *)
eb_set_charset ==
    /\ "set-charset" \in Ops /\ ins = Idle
    /\ charset' \in UsedCharsets /\ eol_type' \in UsedEols
    /\ pages' = [i \in DOMAIN pages |-> [pages[i] EXCEPT !.pos = NotValid, !.chars = NotValid]]
    /\ UNCHANGED <<total_size, cur_page, cur_offset, ins>>

(* The queries number the pages they look at.  eb_get_pos and eb_goto_pos  *)
(* number lines, eb_get_char_offset and eb_goto_char characters: the pages *)
(* up to the one where the search ends, all of them when it ends nowhere.  *)
NumberLines ==
    /\ "pos" \in Ops /\ ins = Idle
    /\ \E k \in DOMAIN pages :
        pages' = [i \in DOMAIN pages |-> IF i <= k THEN WithPos(pages[i]) ELSE pages[i]]
    /\ SameCharset /\ UNCHANGED <<total_size, cur_page, cur_offset, ins>>
NumberChars ==
    /\ "char" \in Ops /\ ins = Idle /\ ~FixedSize
    /\ \E k \in DOMAIN pages :
        pages' = [i \in DOMAIN pages |-> IF i <= k THEN WithChars(pages[i]) ELSE pages[i]]
    /\ SameCharset /\ UNCHANGED <<total_size, cur_page, cur_offset, ins>>

-----------------------------------------------------------------------------
(* A new buffer: eb_new. *)
Init ==
    /\ pages = <<>> /\ total_size = 0 /\ cur_page = 0 /\ cur_offset = 0
    /\ charset \in UsedCharsets /\ eol_type \in UsedEols
    /\ ins = Idle

Edit ==
    \/ \E o \in 0 .. total_size - 1 : \E n \in 1 .. total_size - o : eb_delete(o, n)
    \/ \E o \in 0 .. total_size, s \in Strings : o + Len(s) <= MaxSize /\ eb_write(o, s)

Next ==
    \/ eb_insert \/ eb_insert_buffer \/ eb_insert_lowlevel \/ Edit
    \/ eb_read \/ eb_mmap_buffer \/ eb_set_charset \/ NumberLines \/ NumberChars

(* The editor is one thread: an insertion that has started goes on. *)
Spec == Init /\ [][Next]_vars /\ WF_vars(eb_insert_lowlevel)

-----------------------------------------------------------------------------
PageType ==
    [data : Seq(Byte), ro : BOOLEAN, addr : Nat, pos : {NotValid} \cup [valid : {TRUE}, at : [line : Nat, col : Nat]],
     chars : {NotValid} \cup [valid : {TRUE}, at : Nat]]
TypeOK ==
    /\ pages \in Seq(PageType) /\ total_size \in Nat
    /\ cur_page \in 0 .. Len(pages) /\ cur_offset \in Nat
    /\ charset \in UsedCharsets /\ eol_type \in UsedEols
    /\ ins = Idle \/ ins \in [chunks : Seq(Seq(Byte)), at : Nat, page : Nat, offset : Nat]

text == Contents(pages)

(* Pages are never empty and never larger than MAX_PAGE_SIZE, at every     *)
(* turn of the loop of eb_insert_lowlevel too, and total_size counts their *)
(* bytes together with those an insertion under way is about to add.  A    *)
(* page that is marked read only is the mapped file's: update_page has     *)
(* copied every page that was changed.                                     *)
PagesFit ==
    /\ TypeOK
    /\ \A i \in DOMAIN pages :
        pages[i].ro => pages[i].data = Bytes(MapFile, pages[i].addr, Size(pages[i]))
    /\ \A i \in DOMAIN pages : Size(pages[i]) \in 1 .. MAX_PAGE_SIZE
    /\ total_size = Len(text) + IF ins = Idle \/ ins.page = 0 THEN 0 ELSE Len(Head(ins.chunks))

(* Between two operations, every byte that is read through the page cache  *)
(* of find_page is the byte at that offset.                                *)
CacheExact ==
    ins = Idle =>
        \A o \in 0 .. total_size - 1 : ByteAt(pages, cur_page, cur_offset, o) = text[o + 1]

(* eb_get_pos, which adds up the numbers the pages remember, gives the     *)
(* line and column that a scan of the whole text up to the offset gives,   *)
(* wherever the text is split.  Charsets of one byte, ends of line of one  *)
(* byte: a character split between two pages is counted in both.           *)
PosExact ==
    ins = Idle /\ FixedSize =>
        \A o \in 0 .. Len(text) :
            eb_get_pos(pages, o) = get_pos_func(Bytes(text, 0, o), charset, eol_type)

(* eb_goto_pos finds the beginning of every line, as display and colouring *)
(* ask for it (text_backward_offset, get_colorized_line), however lines    *)
(* are spread over the pages.                                              *)
LineFound ==
    ins = Idle /\ FixedSize =>
        \A o \in 0 .. Len(text) :
            LET q == get_pos_func(Bytes(text, 0, o), charset, eol_type)
            IN  q.col = 0 => eb_goto_pos(pages, q.line, 0) = o

(* eb_get_char_offset is the inverse of eb_goto_char, for any bytes and    *)
(* any split into pages.                                                   *)
CharRoundTrip ==
    ins = Idle =>
        \A n \in 0 .. get_chars_func(text, charset, eol_type) :
            eb_get_char_offset(pages, eb_goto_char(pages, n)) = n

(* eb_delete removes the bytes it was asked to remove and eb_write changes *)
(* those under the string, whatever pages they are in and wherever the     *)
(* page cache points.                                                      *)
EditsExact ==
    [][ /\ \A o \in 0 .. total_size - 1 : \A n \in 1 .. total_size - o :
             eb_delete(o, n) => text' = DeleteBytes(text, o, n)
        /\ \A o \in 0 .. total_size, s \in Strings :
             eb_write(o, s) =>
                text' = WriteBytes(text, o, Bytes(s, 0, Least(Len(s), total_size - o))) ]_vars

(* The pages implement the sequence of bytes of TextBuffer. *)
TB == INSTANCE TextBuffer WITH
        File <- MapFile,
        pending <- IF ins = Idle THEN [at |-> 0, data |-> <<>>]
                   ELSE [at |-> ins.at, data |-> FlattenSeq(ins.chunks)]
ImplementsTextBuffer == TB!Spec

(* The loop of eb_insert_lowlevel ends: no page is shifted for ever. *)
InsertEnds == ins # Idle ~> ins = Idle
=============================================================================
