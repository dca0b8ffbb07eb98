------------------------------- MODULE Search -------------------------------
(***************************************************************************)
(* Searching in one window (search.c): incremental search, query-replace   *)
(* and the commands that delete matching or other lines, while a process   *)
(* may write to the buffer between two keys.                               *)
(*                                                                         *)
(* Search strings and texts are sequences of characters; matching by case, *)
(* by hexadecimal bytes and by regular expressions is left out, matching   *)
(* of whole words is kept (SEARCH_FLAG_WORD).  A step of an incremental    *)
(* search is a character or a place to search from, as in                  *)
(* search_u32_steps.                                                       *)
(***************************************************************************)
EXTENDS Integers, Sequences, FiniteSetsExt, TextOps

CONSTANTS
    Word, Newline,      \* letters, the end of a line
    MaxPattern,         \* bound: longest string searched for or put in its place
    SEARCH_STEPS,       \* search.c: limit on the steps of a search
    MaxSize,            \* bound: longest text in which a command deletes lines
    MaxReplaced,        \* bound: longest text in which a replacement starts
    MaxSearched,        \* bound: longest text in which an incremental search starts
    MaxEvents           \* bound: commands, changes of flags and writes of a process

Char == Word \cup {Newline}
Texts(n) == UNION {[1 .. k -> Char] : k \in 0 .. n}
Patterns == Texts(MaxPattern)

ASSUME SearchAssumption ==
    /\ Newline \notin Word
    /\ SEARCH_STEPS \in Nat /\ MaxPattern \in Nat /\ MaxEvents \in Nat
    /\ MaxSize \in Nat /\ MaxReplaced \in Nat /\ MaxSearched \in Nat

VARIABLES
    text, point, mark,  \* the buffer and the offset of its window
    is,                 \* global_isearch_state, or Off
    qr,                 \* QueryReplaceState, or Off
    hist,               \* the last entry of the search history
    left,               \* bound: events still to come
    aux                 \* auxiliary, see below

vars == <<text, point, mark, is, qr, hist, left, aux>>

Off == [active |-> FALSE]
NoMatch == [at |-> -1, end |-> -1]
NoHistory == [str |-> <<>>, word |-> FALSE]
NoAux == [was |-> <<>>, sure |-> TRUE, moved |-> FALSE, point |-> 0, mark |-> 0,
          from |-> 0, text |-> <<>>, whole |-> FALSE, shown |-> FALSE]

-----------------------------------------------------------------------------
(* When a command may begin; what counts as an event. *)
Free == ~is.active /\ ~qr.active
Event == left > 0 /\ left' = left - 1
Begin(max) == Free /\ Len(text) <= max /\ Event

WordAt(t, o) == o \in 0 .. Len(t) - 1 /\ t[o + 1] \in Word

(* str occurs in t at o, on its own if whole words are wanted. *)
Matches(t, str, word, o) ==
    /\ o + Len(str) <= Len(t)
    /\ Bytes(t, o, Len(str)) = str
    /\ word => ~WordAt(t, o - 1) /\ ~WordAt(t, o + Len(str))

(* eb_search, for a string that is not empty. *)
eb_search(t, dir, word, start, stop, str) ==
    LET ahead == {o \in start .. stop - 1 : Matches(t, str, word, o)}
        back == {o \in 0 .. start - 1 : Matches(t, str, word, o) /\ o + Len(str) <= start}
        Found(o) == [at |-> o, end |-> o + Len(str)]
    IN  CASE dir > 0 /\ ahead # {} -> Found(Min(ahead))
          [] dir < 0 /\ back # {} -> Found(Max(back))
          [] OTHER -> NoMatch

(* The search looks at offset 0, where it asks whether input is pending.   *)
PassesZero(t, dir, word, start, str) ==
    IF dir > 0 THEN start = 0 /\ t # <<>>
    ELSE start > 0 /\ eb_search(t, dir, word, start, Len(t), str).at <= 0

(* eb_offset_callback for the point and the mark. *)
OnInsert(p, o, n) == IF p > o THEN p + n ELSE p

OnDelete(p, o, n) == IF p > o THEN Max({o, p - n}) ELSE p

-----------------------------------------------------------------------------
(* Incremental search. *)

CharStep(ch) == [char |-> ch, dir |-> 0, from |-> 0]
PlaceStep(dir, o) == [char |-> Newline, dir |-> dir, from |-> o]

(* isearch_run, the loop over the steps. *)
SearchString(steps) ==
    LET chars == SelectSeq(steps, LAMBDA s : s.dir = 0) IN [i \in DOMAIN chars |-> chars[i].char]
Places(s) == {i \in DOMAIN s.steps : s.steps[i].dir # 0}

Dir(s) == IF Places(s) = {} THEN s.start_dir ELSE s.steps[Max(Places(s))].dir

(* Mutant: without a repeat, the search starts at the point. *)
FromPoint(s) == IF Places(s) = {} THEN point ELSE s.steps[Max(Places(s))].from

From(s) == IF Places(s) = {} THEN s.start_offset ELSE s.steps[Max(Places(s))].from

(* What isearch_run leaves in the search, the point and the mark.  An      *)
(* aborted search has found nothing.                                       *)
isearch_run(s, pending) ==
    LET str == SearchString(s.steps)
        aborted == pending /\ str # <<>> /\ PassesZero(text, Dir(s), s.word, From(s), str)
        f == IF str = <<>> \/ aborted THEN NoMatch
             ELSE eb_search(text, Dir(s), s.word, From(s), Len(text), str)
        hit == f.at >= 0
    IN  [is |-> [s EXCEPT !.dir = Dir(s), !.found = f, !.str = str,
                          !.wrapped = @ /\ ~hit /\ str # <<>>],
         point |-> CASE str = <<>> -> s.start_offset
                     [] hit /\ Dir(s) > 0 -> f.end
                     [] hit /\ Dir(s) < 0 -> f.at
                     [] OTHER -> point,
         mark |-> CASE str = <<>> -> s.saved_mark
                    [] hit /\ Dir(s) > 0 -> f.at
                    [] hit /\ Dir(s) < 0 -> f.end
                    [] OTHER -> mark,
         aborted |-> aborted]

Run(s, pending) ==
    LET r == isearch_run(s, pending)
    IN  is' = r.is /\ point' = r.point /\ mark' = r.mark

(* Steps beyond SEARCH_STEPS are dropped. *)
WithSteps(s, more) ==
    [s EXCEPT !.steps = SubSeq(@ \o more, 1, Min({SEARCH_STEPS, Len(@ \o more)}))]

(* Auxiliary: `was' holds, for each step, what was found and shown before  *)
(* it was taken, if that is known: the search was not aborted, and neither *)
(* text nor flags have changed since.                                      *)
Snapshot == [found |-> is.found, point |-> point, mark |-> mark, known |-> aux.sure]
Unknown(was) == [i \in DOMAIN was |-> [was[i] EXCEPT !.known = FALSE]]
Grown(was, n) == was \o [i \in 1 .. n |-> [Snapshot EXCEPT !.known = @ /\ i = 1]]

(* isearch_key: a command has made s of the search, isearch_run follows.   *)
Searching == is.active /\ ~qr.active
isearch_key(s, was, pending) ==
    /\ Run(s, pending)
    /\ aux' = [aux EXCEPT !.was = was, !.sure = ~isearch_run(s, pending).aborted]
    /\ UNCHANGED <<text, qr, hist>>
Taking(s, more, pending) ==
    LET t == WithSteps(s, more)
    IN  isearch_key(t, Grown(aux.was, Len(t.steps) - Len(s.steps)), pending) /\ UNCHANGED left

(* set_search_state, do_isearch *)

set_search_state(dir) ==
    [active |-> TRUE, start_offset |-> point, saved_mark |-> mark, start_dir |-> dir,
     dir |-> dir, steps |-> <<>>, str |-> <<>>, found |-> NoMatch, word |-> FALSE,
     wrapped |-> FALSE]

do_isearch(dir) ==
    /\ Begin(MaxSearched)
    /\ Run(set_search_state(dir), FALSE)
    /\ aux' = [aux EXCEPT !.was = <<>>, !.sure = TRUE, !.moved = FALSE,
                          !.point = point, !.mark = mark]
    /\ UNCHANGED <<text, qr, hist>>

isearch_printing_char(ch, pending) == Searching /\ Taking(is, <<CharStep(ch)>>, pending)

isearch_yank_char(pending) ==
    /\ Searching /\ point < Len(text)
    /\ Taking(is, <<CharStep(text[point + 1])>>, pending)

(* Mutant: the place is the beginning of the match. *)
RepeatFromMatch(dir) == PlaceStep(dir, Max({0, is.found.at}))

(* The place isearch_addpos searches on from. *)
Failing == is.found.at < 0 /\ is.str # <<>>
RepeatFrom(dir) ==
    PlaceStep(dir, CASE Failing /\ dir < 0 -> Len(text)
                     [] Failing /\ dir > 0 -> 0
                     [] OTHER -> point)

FromHistory(dir) == is.str = <<>> /\ dir = is.dir
isearch_addpos(dir, pending) ==
    /\ Searching
    /\ IF FromHistory(dir)
       THEN Taking(IF hist = NoHistory THEN is
                   ELSE [is EXCEPT !.word = hist.word, !.wrapped = FALSE],
                   [i \in DOMAIN hist.str |-> CharStep(hist.str[i])], pending)
       ELSE Taking([is EXCEPT !.wrapped = @ \/ (Failing /\ Len(is.steps) < SEARCH_STEPS)],
                   <<RepeatFrom(dir)>>, pending)

isearch_delete_char(pending) ==
    /\ Searching
    /\ LET n == Max({0, Len(is.steps) - 1})
       IN  isearch_key([is EXCEPT !.steps = SubSeq(@, 1, n)], SubSeq(aux.was, 1, n), pending)
    /\ UNCHANGED left

isearch_toggle_word_match(pending) ==
    /\ Searching /\ Event
    /\ isearch_key([is EXCEPT !.word = ~@], Unknown(aux.was), pending)

(* isearch_end: search_str, which starts with the flags, goes to the history. *)
isearch_end ==
    /\ hist' = IF is.str # <<>> \/ is.word THEN [str |-> is.str, word |-> is.word] ELSE hist
    /\ is' = Off /\ aux' = NoAux
    /\ UNCHANGED <<text, qr, left>>

isearch_abort ==
    /\ Searching
    /\ point' = is.start_offset /\ mark' = is.saved_mark
    /\ isearch_end

(* RET, or a key that is given back. *)
isearch_exit ==
    /\ Searching
    /\ mark' = Min({is.start_offset, Len(text)})
    /\ UNCHANGED point
    /\ isearch_end

-----------------------------------------------------------------------------
(* Query-replace.  pc "ask": the user is asked; "run": the loop of         *)
(* query_replace_run is under way.  Auxiliary: every match in front of     *)
(* aux.from has been answered.                                             *)

query_replace(str, repl, all, word) ==
    /\ Begin(MaxReplaced)
    /\ qr' = [active |-> TRUE, pc |-> "run", start_offset |-> point,
              found |-> [at |-> point, end |-> point], last_offset |-> point,
              all |-> all, word |-> word, str |-> str, repl |-> repl, help |-> FALSE]
    /\ aux' = [aux EXCEPT !.from = point, !.text = text, !.moved = FALSE,
                          !.whole = all /\ ~word, !.shown = FALSE]
    /\ UNCHANGED <<text, point, mark, is, hist>>

(* query_replace_abort *)
query_replace_abort ==
    /\ mark' = qr.start_offset
    /\ qr' = Off /\ aux' = NoAux

(* query_replace_replace: the text, where offsets go, and the state, whose *)
(* found_end stays.                                                        *)
Substituted(f) == InsertBytes(DeleteBytes(text, f.at, f.end - f.at), f.at, qr.repl)
Shifted(p, f) == OnInsert(OnDelete(p, f.at, f.end - f.at), f.at, Len(qr.repl))

(* Mutant: the search goes on inside the new text. *)
ReplacedInside(f) == [qr EXCEPT !.pc = "run", !.found = [f EXCEPT !.at = @ + 1]]

Replaced(f) == [qr EXCEPT !.pc = "run", !.found = [f EXCEPT !.at = @ + Len(qr.repl)]]
Answered(o) == [aux EXCEPT !.from = o, !.shown = FALSE]

Match == IF qr.str = <<>> THEN NoMatch
         ELSE eb_search(text, 1, qr.word, qr.found.at, Len(text), qr.str)

(* Mutant: replacing all goes on when nothing is found. *)
run_none_asked(f) ==
    /\ f = NoMatch
    /\ IF qr.all THEN UNCHANGED <<mark, qr, aux>> ELSE query_replace_abort
    /\ UNCHANGED <<text, point, is, hist, left>>

(* One turn of the loop of query_replace_run, which has found f. *)
run_none(f) ==
    /\ f = NoMatch
    /\ query_replace_abort
    /\ UNCHANGED <<text, point, is, hist, left>>

run_replace(f) ==
    /\ f # NoMatch /\ qr.all
    /\ text' = Substituted(f)
    /\ point' = Shifted(point, f) /\ mark' = Shifted(mark, f)
    /\ qr' = Replaced(f)
    /\ aux' = Answered(f.at + Len(qr.repl))
    /\ UNCHANGED <<is, hist, left>>

run_ask(f) ==
    /\ f # NoMatch /\ ~qr.all
    /\ qr' = [qr EXCEPT !.pc = "ask", !.found = f]
    /\ point' = f.end /\ mark' = f.at
    /\ UNCHANGED <<text, is, hist, left, aux>>

query_replace_run ==
    /\ qr.active /\ qr.pc = "run"
    /\ \E f \in {Match} : run_none(f) \/ run_replace(f) \/ run_ask(f)

(* query_replace_run sets last_offset before it searches. *)
RunFrom(q) == [q EXCEPT !.pc = "run", !.last_offset = q.found.at]

Asking == qr.active /\ qr.pc = "ask"
Asked == Asking /\ ~qr.help

(* query_replace_key: the keys.  `y' and `.' replace, `.' also ends. *)
key_y ==
    /\ Asked
    /\ text' = Substituted(qr.found)
    /\ point' = Replaced(qr.found).found.at /\ mark' = Shifted(mark, qr.found)
    /\ qr' = RunFrom(Replaced(qr.found))
    /\ aux' = Answered(point')
    /\ UNCHANGED <<is, hist, left>>

key_dot ==
    /\ Asked
    /\ text' = Substituted(qr.found)
    /\ point' = Replaced(qr.found).found.at
    /\ query_replace_abort
    /\ UNCHANGED <<is, hist, left>>

key_all ==
    /\ Asked
    /\ qr' = RunFrom([qr EXCEPT !.all = TRUE])
    /\ UNCHANGED <<text, point, mark, is, hist, left, aux>>

key_n ==
    /\ Asked
    /\ qr' = RunFrom([qr EXCEPT !.found.at = qr.found.end])
    /\ aux' = Answered(qr.found.end)
    /\ UNCHANGED <<text, point, mark, is, hist, left>>

(* Mutant: the question stays after the flags have changed. *)
key_word_asks ==
    /\ Asked
    /\ qr' = [qr EXCEPT !.word = ~@, !.found.at = qr.last_offset]
    /\ aux' = [aux EXCEPT !.whole = FALSE]
    /\ UNCHANGED <<text, point, mark, is, hist, left>>

(* C-w changes what matches: back to where the last search began. *)
key_word ==
    /\ Asked
    /\ qr' = RunFrom([qr EXCEPT !.word = ~@, !.found.at = qr.last_offset])
    /\ aux' = [aux EXCEPT !.whole = FALSE]
    /\ UNCHANGED <<text, point, mark, is, hist, left>>

(* C-l, and `?' which shows a help window that the next key closes. *)
key_center(help) ==
    /\ Asked
    /\ qr' = RunFrom([qr EXCEPT !.help = help])
    /\ aux' = [aux EXCEPT !.shown = TRUE]
    /\ UNCHANGED <<text, point, mark, is, hist, left>>

key_help_over ==
    /\ Asking /\ qr.help
    /\ qr' = [qr EXCEPT !.help = FALSE]
    /\ UNCHANGED <<text, point, mark, is, hist, left, aux>>

(* Any other key ends; C-g may also bring the point back. *)
key_quit(back) ==
    /\ Asked
    /\ point' = IF back THEN qr.start_offset ELSE point
    /\ query_replace_abort
    /\ UNCHANGED <<text, is, hist, left>>

-----------------------------------------------------------------------------
(* do_search_string: a search for its own sake, and the commands on lines. *)
eb_goto_bol(t, o) == Max({0} \cup {p \in 1 .. o : t[p] = Newline})
eb_next_line(t, o) == Min({Len(t)} \cup {p \in o + 1 .. Len(t) : t[p] = Newline})
LinesEnd(t, f) == IF f.end > 0 /\ t[f.end] = Newline THEN f.end ELSE eb_next_line(t, f.end)

(* A highlighted region is all that is searched: min_offset, where the     *)
(* search starts, max_offset.                                              *)
Lowest(region) == IF region THEN Min({mark, point}) ELSE 0
Start(region) == IF region THEN Min({mark, point}) ELSE point
Stop(region) == IF region THEN Max({mark, point}) ELSE Len(text)

search_string(dir, region, str) ==
    LET from == IF region /\ dir < 0 THEN Stop(TRUE) ELSE Start(region)
        f == eb_search(text, dir, FALSE, from, Stop(region), str)
        hit == f # NoMatch /\ f.at >= Lowest(region)
    IN  /\ Free /\ Event /\ str # <<>>
        /\ point' = CASE ~hit -> point
                      [] hit /\ dir > 0 -> f.end
                      [] hit /\ dir < 0 -> f.at
        /\ UNCHANGED <<text, mark, is, qr, hist, aux>>

(* The buffer after eb_delete_range. *)
Cut(e, p, q) ==
    [text |-> DeleteBytes(e.text, p, q - p), point |-> OnDelete(e.point, p, q - p),
     mark |-> OnDelete(e.mark, p, q - p)]

(* Mutant: the search goes on behind the first character of the next line. *)
RECURSIVE DeleteMatchingOff(_, _, _, _, _)
DeleteMatchingOff(e, min, offset, stop, str) ==
    LET f == eb_search(e.text, 1, FALSE, offset, Min({stop, Len(e.text)}), str)
        p1 == eb_goto_bol(e.text, f.at)
        p2 == LinesEnd(e.text, f)
    IN  IF f = NoMatch \/ f.at < min THEN e
        ELSE DeleteMatchingOff(Cut(e, p1, p2), min, p1 + 1, stop - (p2 - p1), str)

(* delete-matching-lines from offset, the searched part ending at stop.    *)
(* The end moves with the text, min_offset does not: a match found in      *)
(* front of it ends the loop.                                              *)
RECURSIVE DeleteMatching(_, _, _, _, _)
DeleteMatching(e, min, offset, stop, str) ==
    LET f == eb_search(e.text, 1, FALSE, offset, Min({stop, Len(e.text)}), str)
        p1 == eb_goto_bol(e.text, f.at)
        p2 == LinesEnd(e.text, f)
    IN  IF f = NoMatch \/ f.at < min THEN e
        ELSE DeleteMatching(Cut(e, p1, p2), min, p1, stop - (p2 - p1), str)

(* delete-non-matching-lines; `last' is the end of the last line kept. *)
RECURSIVE DeleteOthers(_, _, _, _, _, _)
DeleteOthers(e, min, last, offset, stop, str) ==
    LET f == eb_search(e.text, 1, FALSE, offset, Min({stop, Len(e.text)}), str)
        p1 == eb_goto_bol(e.text, f.at)
        kept == last + LinesEnd(e.text, f) - p1
    IN  IF f = NoMatch \/ f.at < min THEN Cut(e, offset, Len(e.text))
        ELSE DeleteOthers(Cut(e, last, p1), min, kept, kept, stop - (p1 - last), str)

Buffer == [text |-> text, point |-> point, mark |-> mark]
Becomes(e) ==
    /\ text' = e.text /\ point' = e.point /\ mark' = e.mark
    /\ UNCHANGED <<is, qr, hist, aux>>

delete_matching_lines(region, str) ==
    /\ Free /\ Event /\ str # <<>>
    /\ Becomes(DeleteMatching(Buffer, Lowest(region), Start(region), Stop(region), str))

delete_non_matching_lines(region, str) ==
    /\ Free /\ Event /\ str # <<>>
    /\ Becomes(DeleteOthers(Buffer, Lowest(region), eb_goto_bol(text, Start(region)),
                            Start(region), Stop(region), str))

-----------------------------------------------------------------------------
(* Between two keys: a process writes a character, at the end of the text  *)
(* or, as a terminal, anywhere; the point moves by its callback.           *)
shell_read_cb(o, ch) ==
    /\ is.active \/ Asking
    /\ Event
    /\ text' = InsertBytes(text, o, <<ch>>)
    /\ point' = OnInsert(point, o, 1) /\ mark' = OnInsert(mark, o, 1)
    /\ aux' = [aux EXCEPT !.was = Unknown(@), !.sure = FALSE, !.whole = FALSE,
                          !.moved = @ \/ o < Max({aux.point, aux.mark})
                                      \/ (qr.active /\ o <= qr.found.end)]
    /\ UNCHANGED <<is, qr, hist>>

move_point(p) ==
    /\ Free
    /\ point' = p
    /\ UNCHANGED <<text, mark, is, qr, hist, left, aux>>

do_set_mark ==
    /\ Free /\ Event
    /\ mark' = point
    /\ UNCHANGED <<text, point, is, qr, hist, aux>>

Init ==
    /\ text \in Texts(MaxSize)
    /\ point = 0 /\ mark = 0
    /\ is = Off /\ qr = Off /\ hist = NoHistory /\ left = MaxEvents
    /\ aux = NoAux

IsearchNext ==
    \/ \E dir \in {-1, 1} : do_isearch(dir)
    \/ \E pending \in BOOLEAN :
        \/ \E ch \in Word : isearch_printing_char(ch, pending)
        \/ isearch_yank_char(pending)
        \/ \E dir \in {-1, 1} : isearch_addpos(dir, pending)
        \/ isearch_delete_char(pending)
        \/ isearch_toggle_word_match(pending)
    \/ isearch_abort
    \/ isearch_exit

ReplaceNext ==
    \/ \E str, repl \in Patterns, all, word \in BOOLEAN : query_replace(str, repl, all, word)
    \/ query_replace_run
    \/ key_y \/ key_dot \/ key_all \/ key_n \/ key_word \/ key_help_over
    \/ \E help \in BOOLEAN : key_center(help)
    \/ \E back \in BOOLEAN : key_quit(back)

LineNext ==
    \/ \E region \in BOOLEAN, str \in Patterns :
        \/ \E dir \in {-1, 1} : search_string(dir, region, str)
        \/ delete_matching_lines(region, str)
        \/ delete_non_matching_lines(region, str)
    \/ do_set_mark
    \/ \E p \in 0 .. Len(text) : move_point(p)

Next ==
    \/ IsearchNext \/ ReplaceNext \/ LineNext
    \/ \E o \in 0 .. Len(text), ch \in Word : shell_read_cb(o, ch)

(* The loop of query_replace_run does not wait. *)
Spec == Init /\ [][Next]_vars /\ WF_vars(query_replace_run)

-----------------------------------------------------------------------------
(* Types; offsets of the window lie in the text. *)
TypeOK ==
    /\ text \in Seq(Char)
    /\ point \in 0 .. Len(text) /\ mark \in 0 .. Len(text)
    /\ is.active =>
        /\ Len(is.steps) <= SEARCH_STEPS /\ Len(aux.was) = Len(is.steps)
        /\ is.found # NoMatch => is.found.end - is.found.at = Len(is.str)
    /\ qr.active => qr.pc \in {"run", "ask"} /\ ~is.active

(* isearch_delete_char, isearch_run, isearch_abort: DEL brings back the    *)
(* match that was shown before the last step, whatever repeats, reversals  *)
(* and failures have come since, unless the search was aborted by pending  *)
(* input or the text or the flags have changed; C-g brings back the point  *)
(* and the mark of the beginning, unless a process has inserted text in    *)
(* front of them.                                                          *)
StepsTakenBack ==
    [][LET n == Len(is.steps)
       IN  /\ (/\ is.active /\ is'.active /\ Len(is'.steps) < n
               /\ aux.was[n].known /\ aux.was[n].found # NoMatch /\ aux'.sure)
                => /\ is'.found = aux.was[n].found
                   /\ point' = aux.was[n].point /\ mark' = aux.was[n].mark
           /\ isearch_abort /\ ~aux.moved => point' = aux.point /\ mark' = aux.mark]_vars

(* isearch_addpos: a repeat in the same direction never shows an overlap   *)
(* with the match it comes from.                                           *)
RepeatAdvances ==
    [][(/\ is.active /\ is'.active /\ aux.sure /\ Len(is'.steps) > Len(is.steps)
        /\ is'.str = is.str /\ is'.dir = is.dir
        /\ is.found # NoMatch /\ is'.found # NoMatch)
         => IF is.dir > 0 THEN is'.found.at >= is.found.end
            ELSE is'.found.end <= is.found.at]_vars

(* query_replace_run, query_replace_key: what the user is asked about, and *)
(* `y' replaces, is a match under the flags now in force, and no match     *)
(* between the last answer and the question is passed over, also after     *)
(* C-w; after C-l or `?' the start of the search is forgotten.             *)
AskedFirst ==
    /\ TypeOK
    /\ Asking /\ ~aux.moved =>
        /\ Matches(text, qr.str, qr.word, qr.found.at)
        /\ qr.found.end = qr.found.at + Len(qr.str)
        /\ ~aux.shown => \A o \in aux.from .. qr.found.at - 1 : ~Matches(text, qr.str, qr.word, o)

(* The text with all occurrences replaced from left to right. *)
RECURSIVE Rewritten(_, _, _)
Rewritten(t, str, repl) ==
    CASE Len(t) < Len(str) \/ str = <<>> -> t
      [] str # <<>> /\ Bytes(t, 0, Len(str)) = str -> repl \o Rewritten(Bytes(t, Len(str), Len(t) - Len(str)), str, repl)
      [] OTHER -> <<Head(t)>> \o Rewritten(Tail(t), str, repl)

(* do_replace_string replaces "till the end of the buffer", as its entry   *)
(* in the table of commands says: the text behind the point is rewritten   *)
(* from left to right, the text in front of it is left alone.  The text    *)
(* under a highlighted region is no exception, although the description of *)
(* the command speaks of it: query_replace does not look at the region.    *)
ReplaceStringExact ==
    [][qr.active /\ ~qr'.active /\ aux.whole =>
         LET n == qr.start_offset
         IN  text' = Bytes(aux.text, 0, n)
                       \o Rewritten(Bytes(aux.text, n, Len(aux.text) - n), qr.str, qr.repl)]_vars

(* query_replace_run: its loop ends, also when the new text contains the old. *)
ReplaceEnds == (qr.active /\ qr.pc = "run") ~> ~(qr.active /\ qr.pc = "run")

(* The lines of t, as positions, and whether a match begins in one. *)
Lines(t) == {<<p, eb_next_line(t, p)>> : p \in {0} \cup {q \in 1 .. Len(t) - 1 : t[q] = Newline}}
Hit(line, region, str) ==
    \E o \in Max({line[1], Start(region)}) .. Min({line[2], Stop(region)}) - 1 :
       Matches(text, str, FALSE, o)
Without(t, lines) ==
    LET kept == SelectSeq([i \in 1 .. Len(t) |-> i],
                          LAMBDA i : \A l \in lines : i \notin l[1] + 1 .. l[2])
    IN  [i \in DOMAIN kept |-> t[kept[i]]]
OneLine == {str \in Patterns : \A i \in DOMAIN str : str[i] # Newline}

(* do_search_string: delete-matching-lines deletes only lines in which a   *)
(* match begins, of those searched, and all of them unless a region begins *)
(* inside a line: then the loop may end at a match that a deletion moved   *)
(* in front of min_offset.  delete-non-matching-lines, if it finds a match *)
(* and there is no region, keeps of the lines from the point on those in   *)
(* which a match begins.                                                   *)
LinesDeleted ==
    [][Free => \A str \in OneLine :
         /\ \A region \in BOOLEAN : delete_matching_lines(region, str) =>
              LET hits == {l \in Lines(text) : Hit(l, region, str)}
                  inside == region /\ eb_goto_bol(text, Start(TRUE)) < Start(TRUE)
              IN  \E gone \in IF inside THEN SUBSET hits ELSE {hits} :
                     text' = Without(text, gone)
         /\ (delete_non_matching_lines(FALSE, str) /\ \E l \in Lines(text) : Hit(l, FALSE, str)) =>
              text' = Without(text, {l \in Lines(text) : l[2] > eb_goto_bol(text, point)
                                                         /\ ~Hit(l, FALSE, str)})]_vars
=============================================================================
