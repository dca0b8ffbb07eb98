------------------------------- MODULE UndoLog -------------------------------
(***************************************************************************)
(* The undo log of one edit buffer (buffer.c): eb_addlog and its callers,  *)
(* do_undo, do_redo, and the commands of qe.c that edit, save or protect   *)
(* the buffer between them.                                                *)
(*                                                                         *)
(* `b' is the EditBuffer together with the point of its window.  Its text  *)
(* is a byte sequence (module PageTable models the pages behind it).  The  *)
(* log buffer is the sequence of its records: a record starts where the    *)
(* previous one ends, so the code's byte indices are the positions between *)
(* records.  log_current is 0 or, as in the code, 1 + the index of a       *)
(* record: seen from 1 it is the position in `log' of the entry that the   *)
(* last undo reverted.  log_buffer = NULL is the empty log.                *)
(*                                                                         *)
(* The field `before' of a record is auxiliary: the text in front of the   *)
(* change.  No action reads it.                                            *)
(***************************************************************************)
EXTENDS TextOps

CONSTANTS
    Byte,           \* the bytes of a text
    Space, Newline, \* the two bytes that close a run of typed characters
    NB_LOGS_MAX,    \* qe.h: limit on the number of log records
    MayEvict,       \* FALSE: sessions too short to fill the log
    MaxSize,        \* bound: longest text
    MaxYank,        \* bound: longest string yanked or received at once
    Commands        \* the commands the session uses

ASSUME UndoLogAssumption ==
    /\ {Space, Newline} \subseteq Byte
    /\ NB_LOGS_MAX \in Nat \ {0, 1, 2}
    /\ MaxSize \in Nat /\ MaxYank \in Nat
    /\ MayEvict \in BOOLEAN

VARIABLES
    b,          \* the buffer
    last_cmd,   \* qe_state.last_cmd_func: "undo", "redo" or "other"
    file        \* contents of the visited file on disk

vars == <<b, last_cmd, file>>

Text == Seq(Byte)
LogOp == {"WRITE", "INSERT", "DELETE"}
LogRecord == [op : LogOp, offset : Nat, size : Nat, data : Text,
              was_modified : BOOLEAN, before : Text]
EditBuffer ==
    [text : Text, point : Nat, mark : Nat, region_style : BOOLEAN,
     readonly : BOOLEAN, modified : BOOLEAN, log : Seq(LogRecord), nb_logs : Nat,
     log_current : Nat, last_log : LogOp \cup {"FREE"},
     last_log_char : Byte \cup {"NUL"}, corrupt : BOOLEAN]

-----------------------------------------------------------------------------
(* Mutant: markers left behind by a deletion. *)
MovedNoDelete(p, op, o, n) == IF op = "INSERT" /\ p > o THEN p + n ELSE p

(* eb_offset_callback with edge = 0, the callback of the point of a window *)
(* and of the mark.                                                        *)
Moved(p, op, o, n) ==
    CASE op = "INSERT" /\ p > o -> p + n
      [] op = "DELETE" /\ p > o -> IF p - n < o THEN o ELSE p - n
      [] OTHER -> p

(* eb_addlog up to the test of save_log: callbacks and modified flag. *)
Notify(e, op, o, n) ==
    [e EXCEPT !.point = Moved(e.point, op, o, n),
              !.mark = Moved(e.mark, op, o, n),
              !.modified = TRUE]

LogFull(e) == e.nb_logs >= NB_LOGS_MAX - 1

(* Mutant: an eviction that forgets log_current. *)
EvictKeepsCurrent(e) ==
    IF LogFull(e) /\ e.log # <<>>
    THEN [e EXCEPT !.log = Tail(e.log), !.nb_logs = e.nb_logs - 1] ELSE e

(* eb_addlog: "no free space, delete least recent entry".  On an empty log *)
(* the code takes the length to drop from an uninitialised record, and the *)
(* log no longer parses: corrupt.                                          *)
Evict(e) ==
    IF ~LogFull(e) THEN e
    ELSE IF e.log = <<>> THEN [e EXCEPT !.corrupt = TRUE]
    ELSE [e EXCEPT !.log = Tail(e.log),
                   !.log_current = IF e.log_current > 1 THEN e.log_current - 1
                                   ELSE e.log_current,
                   !.nb_logs = e.nb_logs - 1]

(* The test for merging an insertion into the last record. *)
Coalesces(e, op, o) ==
    /\ op = "INSERT" /\ e.last_log = "INSERT" /\ e.log # <<>>
    /\ LET r == e.log[Len(e.log)] IN r.op = "INSERT" /\ r.offset + r.size = o

Grown(log, n) ==
    LET r == log[Len(log)] IN [log EXCEPT ![Len(log)] = [r EXCEPT !.size = r.size + n]]

(* The record.  Data outside the text is not copied but is counted in     *)
(* log_new_index, which then lies beyond the end of the log buffer.       *)
Record(e, f, op, o, n, before) ==
    [op |-> op, offset |-> o, size |-> n,
     data |-> IF op = "INSERT" \/ o + n > Len(f.text) THEN <<>>
              ELSE Bytes(f.text, o, n),
     was_modified |-> e.modified, before |-> before]

(* eb_addlog with logging on; `before' is the auxiliary field.  The first  *)
(* record creates the log buffer (nb_logs = 0), which clears last_log_char.*)
AddLog(e, op, o, n, before) ==
    LET f == Evict(Notify(e, op, o, n))
    IN  IF Coalesces(f, op, o)
        THEN [f EXCEPT !.log = Grown(f.log, n)]
        ELSE [f EXCEPT !.last_log = op,
                       !.last_log_char = IF f.nb_logs = 0 THEN "NUL" ELSE @,
                       !.log = Append(f.log, Record(e, f, op, o, n, before)),
                       !.nb_logs = f.nb_logs + 1,
                       !.corrupt = @ \/ (op # "INSERT" /\ o + n > Len(f.text))]

-----------------------------------------------------------------------------
(* The primitives, with their early returns. *)

Insert(e, offset, d) ==
    LET o == Clip(offset, Len(e.text))
    IN  IF e.readonly \/ d = <<>> THEN e
        ELSE [AddLog(e, "INSERT", o, Len(d), e.text)
                EXCEPT !.text = InsertBytes(e.text, o, d)]

(* Mutant: eb_delete that logs the text it leaves. *)
DeleteThenLog(e, o, size) ==
    LET n == Clip(size, Len(e.text) - o)
    IN  IF e.readonly \/ o >= Len(e.text) \/ size <= 0 THEN e
        ELSE AddLog([e EXCEPT !.text = DeleteBytes(e.text, o, n)],
                    "DELETE", o, n, e.text)

Delete(e, o, size) ==
    LET n == Clip(size, Len(e.text) - o)
    IN  IF e.readonly \/ o >= Len(e.text) \/ size <= 0 THEN e
        ELSE [AddLog(e, "DELETE", o, n, e.text)
                EXCEPT !.text = DeleteBytes(e.text, o, n)]

Write(e, o, d) ==
    LET n == Clip(Len(d), Len(e.text) - o)
        f == IF n <= 0 THEN e
             ELSE [AddLog(e, "WRITE", o, n, e.text)
                     EXCEPT !.text = WriteBytes(e.text, o, SubSeq(d, 1, n))]
    IN  IF e.readonly \/ o > Len(e.text) \/ d = <<>> THEN e
        ELSE Insert(f, o + n, SubSeq(d, n + 1, Len(d)))

(* The same two changes of the text with save_log & 2 set: neither logged *)
(* nor announced.                                                         *)
MuteInsert(e, o, d) ==
    IF e.readonly THEN e
    ELSE [e EXCEPT !.text = InsertBytes(e.text, Clip(o, Len(e.text)), d)]

MuteDelete(e, o, n) ==
    IF e.readonly \/ o >= Len(e.text) THEN e
    ELSE [e EXCEPT !.text = DeleteBytes(e.text, o, Clip(n, Len(e.text) - o))]

(* eb_delete while do_redo has save_log & 1 cleared: announced, not logged. *)
QuietDelete(e, o, size) ==
    LET n == Clip(size, Len(e.text) - o)
    IN  IF e.readonly \/ o >= Len(e.text) THEN e
        ELSE [Notify(e, "DELETE", o, n) EXCEPT !.text = DeleteBytes(e.text, o, n)]

-----------------------------------------------------------------------------
(* Commands.  exec_command sets last_cmd_func when the command returns.     *)

Issue(name) ==
    /\ name \in Commands
    /\ last_cmd' = IF name \in {"undo", "redo"} THEN name ELSE "other"

(* Bounds: the log has room for two more records, unless the session may   *)
(* fill it; the text stays short.  What the code does with a log that no   *)
(* longer parses is not followed.                                          *)
Room == ~b.corrupt /\ (MayEvict \/ b.nb_logs + 2 < NB_LOGS_MAX)
Fits(n) == Len(b.text) + n <= MaxSize

Strings(n) == UNION {[1 .. k -> Byte] : k \in 0 .. n}

(* do_delete_selection, eb_delete_range. *)
Deselect(e) == [e EXCEPT !.region_style = FALSE]
SelectionActive(e) == e.region_style /\ e.mark # e.point
DeleteRange(e, p, q) == IF p < q THEN Delete(e, p, q - p) ELSE Delete(e, q, p - q)
DeleteSelection(e) ==
    Deselect(IF SelectionActive(e) THEN DeleteRange(e, e.mark, e.point) ELSE e)

(* text_write_char without an input method, one column per character. *)
InsertChar(e, c) ==
    LET breaks == c = Newline \/ (c # Space /\ e.last_log_char = Space)
        f == [e EXCEPT !.last_log = IF breaks THEN "FREE" ELSE @,
                       !.last_log_char = c]
    IN  [Insert(f, e.point, <<c>>) EXCEPT !.point = @ + 1]

AtEol(e) == e.point >= Len(e.text) \/ e.text[e.point + 1] = Newline

text_write_char(e, c, overwrite) ==
    IF ~overwrite \/ AtEol(e) \/ c = Newline THEN InsertChar(e, c)
    ELSE [Write(e, e.point, <<c>>) EXCEPT !.point = @ + 1]

do_char(c, overwrite) ==
    /\ Issue(IF overwrite THEN "overwrite" ELSE "self-insert")
    /\ Room /\ Fits(1)
    /\ b' = IF b.readonly THEN b
            ELSE text_write_char(DeleteSelection(b), c, overwrite)
    /\ UNCHANGED file

(* do_delete_char without argument. *)
do_delete_char ==
    /\ Issue("delete-char") /\ Room
    /\ b' = IF b.readonly THEN b
            ELSE IF SelectionActive(b) THEN DeleteSelection(b)
            ELSE Delete(Deselect(b), b.point, 1)
    /\ UNCHANGED file

(* do_kill_region.  The kill ring is another component. *)
do_kill_region ==
    /\ Issue("kill-region") /\ Room
    /\ b' = IF b.readonly THEN Deselect(b)
            ELSE [DeleteRange(Deselect(b), b.mark, b.point)
                    EXCEPT !.point = IF b.mark < b.point THEN b.mark ELSE b.point]
    /\ UNCHANGED file

(* do_yank; d is the current entry of the kill ring. *)
Yank(e, d) ==
    LET f == [e EXCEPT !.mark = e.point,
                       !.last_log = IF d = <<>> THEN @ ELSE "FREE"]
    IN  [Insert(f, e.point, d) EXCEPT !.point = @ + Len(d)]

do_yank(d) ==
    /\ Issue("yank") /\ Room /\ Fits(Len(d))
    /\ b' = IF b.readonly THEN b ELSE Yank(DeleteSelection(b), d)
    /\ UNCHANGED file

(* The motion commands, and do_set_mark. *)
move_point(p) ==
    /\ Issue("move")
    /\ b' = [b EXCEPT !.point = p]
    /\ UNCHANGED file

do_set_mark ==
    /\ Issue("set-mark")
    /\ b' = [b EXCEPT !.mark = Clip(b.point, Len(b.text)),
                      !.point = Clip(b.point, Len(b.text)),
                      !.region_style = TRUE]
    /\ UNCHANGED file

do_toggle_read_only ==
    /\ Issue("toggle-read-only")
    /\ b' = [b EXCEPT !.readonly = ~@]
    /\ UNCHANGED file

do_not_modified(arg) ==
    /\ Issue("not-modified")
    /\ b' = [b EXCEPT !.modified = arg]
    /\ UNCHANGED file

(* shell_read_cb of a process without terminal emulation.  It is not a      *)
(* command: last_cmd_func stays.                                            *)
shell_read_cb(d) ==
    LET f == Write([b EXCEPT !.readonly = FALSE, !.last_log = "FREE"],
                   Len(b.text), d)
    IN  /\ "output" \in Commands
        /\ d # <<>> /\ Room /\ Fits(Len(d))
        /\ b' = IF b.readonly THEN [f EXCEPT !.modified = FALSE, !.readonly = TRUE]
                ELSE f
        /\ UNCHANGED <<last_cmd, file>>

-----------------------------------------------------------------------------
(* do_save_buffer and eb_save_buffer.  `file' holds the contents of the     *)
(* visited file, or nothing when it was renamed to its backup and not       *)
(* written again.  A failed save leaves the old file (no backup was made),  *)
(* no file (open failed) or a prefix of the text (write failed).            *)
do_save_buffer ==
    /\ Issue("save-buffer")
    /\ \/ ~b.modified /\ UNCHANGED <<b, file>>
       \/ b.modified /\ b' = [b EXCEPT !.modified = FALSE] /\ file' = {b.text}

(* Mutant: the error code of buffer_save is ignored. *)
save_failure_ignored ==
    /\ Issue("save-buffer")
    /\ b.modified
    /\ b' = [b EXCEPT !.modified = FALSE]
    /\ file' = {}

save_buffer_failure ==
    /\ Issue("save-buffer")
    /\ b.modified
    /\ \E f \in {file, {}} \cup {{SubSeq(b.text, 1, n)} : n \in 0 .. Len(b.text) - 1} :
          file' = f
    /\ UNCHANGED b

-----------------------------------------------------------------------------
(* do_undo and do_redo. *)

(* Mutant: the undo state survives other commands. *)
CurrentKept == b.log_current

(* log_current after the test of last_cmd_func. *)
Current == IF last_cmd \in {"undo", "redo"} THEN b.log_current ELSE 0

(* The position of the record that the next undo reverts; 0: none. *)
UndoPos == IF Current = 0 THEN Len(b.log) ELSE Current - 1

(* The switch of do_undo: play r backwards on e and log that as a change.  *)
UndoPlay(e, r, before) ==
    CASE r.op = "WRITE" ->
            [AddLog(MuteInsert(MuteDelete(e, r.offset, r.size), r.offset, r.data),
                    "WRITE", r.offset, r.size, before)
               EXCEPT !.point = r.offset + r.size]
      [] r.op = "DELETE" ->
            [AddLog(MuteInsert(e, r.offset, r.data),
                    "INSERT", r.offset, r.size, before)
               EXCEPT !.point = r.offset + r.size]
      [] r.op = "INSERT" ->
            [Delete(e, r.offset, r.size) EXCEPT !.point = r.offset]

Undo(e, pos) ==
    [UndoPlay([Deselect(e) EXCEPT !.log_current = pos, !.last_log = "FREE"],
              e.log[pos], e.text)
       EXCEPT !.modified = e.log[pos].was_modified]

do_undo ==
    /\ Issue("undo") /\ Room
    /\ b' = IF b.nb_logs = 0 THEN b
            ELSE IF UndoPos = 0 THEN [Deselect(b) EXCEPT !.log_current = Current]
            ELSE Undo(b, UndoPos)
    /\ UNCHANGED file

CanRedo == Current # 0 /\ b.log # <<>>

(* The switch of do_redo: the same without logging. *)
RedoPlay(e, r) ==
    CASE r.op = "WRITE" ->
            [Notify(MuteInsert(MuteDelete(e, r.offset, r.size), r.offset, r.data),
                    "WRITE", r.offset, r.size)
               EXCEPT !.point = r.offset + r.size]
      [] r.op = "DELETE" ->
            [Notify(MuteInsert(e, r.offset, r.data), "INSERT", r.offset, r.size)
               EXCEPT !.point = r.offset + r.size]
      [] r.op = "INSERT" ->
            [QuietDelete(e, r.offset, r.size) EXCEPT !.point = r.offset]

Redo(e, cur) ==
    LET n == Len(e.log)
    IN  [RedoPlay(Deselect(e), e.log[n]) EXCEPT
            !.modified = e.log[n].was_modified,
            !.log = SubSeq(e.log, 1, n - 1),
            !.log_current = IF cur + 1 >= n THEN 0 ELSE cur + 1]

do_redo ==
    /\ Issue("redo") /\ ~b.corrupt
    /\ b' = IF b.nb_logs = 0 THEN b
            ELSE IF ~CanRedo THEN [Deselect(b) EXCEPT !.log_current = Current]
            ELSE Redo(b, Current)
    /\ UNCHANGED file

-----------------------------------------------------------------------------
(* A file has just been loaded. *)
Init ==
    \E t \in Strings(MaxSize) :
        /\ b = [text |-> t, point |-> 0, mark |-> 0,
                region_style |-> FALSE, readonly |-> FALSE,
                modified |-> FALSE, log |-> <<>>, nb_logs |-> 0, log_current |-> 0,
                last_log |-> "FREE", last_log_char |-> "NUL", corrupt |-> FALSE]
        /\ last_cmd = "other"
        /\ file = {t}

Next ==
    \/ \E c \in Byte, overwrite \in BOOLEAN : do_char(c, overwrite)
    \/ do_delete_char
    \/ do_kill_region
    \/ \E d \in Strings(MaxYank) : do_yank(d)
    \/ \E p \in 0 .. Len(b.text) : move_point(p)
    \/ do_set_mark
    \/ do_toggle_read_only
    \/ \E arg \in BOOLEAN : do_not_modified(arg)
    \/ \E d \in Strings(MaxYank) : shell_read_cb(d)
    \/ do_save_buffer
    \/ save_buffer_failure
    \/ do_undo
    \/ do_redo

Spec == Init /\ [][Next]_vars

-----------------------------------------------------------------------------
(* The types of the buffer, of the last command and of the file. *)
TypeOK ==
    /\ b \in EditBuffer
    /\ last_cmd \in {"undo", "redo", "other"}
    /\ file \in SUBSET Text

(* eb_offset_callback and the offsets set by undo and redo keep the point   *)
(* and the mark inside the text.                                            *)
MarkersInText == b.point <= Len(b.text) /\ b.mark <= Len(b.text)

(* The text that followed record i. *)
After(e, i) == IF i = Len(e.log) THEN e.text ELSE e.log[i + 1].before

(* What playing record r backwards makes of text t. *)
Reverted(t, r) ==
    CASE r.op = "INSERT" -> DeleteBytes(t, r.offset, r.size)
      [] r.op = "DELETE" -> InsertBytes(t, r.offset, r.data)
      [] r.op = "WRITE" -> WriteBytes(t, r.offset, r.data)

(* Every record of the log lies inside the text it was made for and turns  *)
(* that text back into the text before the change: appended, coalesced,    *)
(* evicted and popped records always form one unbroken history that ends   *)
(* in the current text.                                                    *)
LogReplays ==
    \A i \in 1 .. Len(b.log) :
        LET r == b.log[i] IN
        /\ r.offset + (IF r.op = "DELETE" THEN 0 ELSE r.size) <= Len(After(b, i))
        /\ Reverted(After(b, i), r) = r.before

InChain == last_cmd \in {"undo", "redo"} /\ b.log_current # 0

(* In a chain of undo and redo commands the text is the text in front of   *)
(* the entry log_current designates: the records added and popped by undo  *)
(* and redo themselves never make log_current stale.                       *)
UndoChain ==
    InChain => b.log_current <= Len(b.log) /\ b.text = b.log[b.log_current].before

(* In such a chain the records behind log_current are the undone history   *)
(* followed by its reversal: redo can walk back by popping the last one.   *)
UndoMirror ==
    InChain => \A i \in b.log_current + 1 .. Len(b.log) :
        b.log[i].before = b.log[Len(b.log) + b.log_current + 1 - i].before

(* The same whenever a further undo is possible: the entry it will play is *)
(* played on the text it was recorded for, even after eviction moved the   *)
(* indices.                                                                *)
UndoInSync == InChain /\ UndoPos # 0 => b.text = b.log[b.log_current].before

(* "Redo the last change undone": redo brings back the text that followed  *)
(* the entry which the last undo reverted.                                 *)
RedoRestores ==
    [][do_redo /\ CanRedo => b'.text = After(b, b.log_current)]_vars

(* do_not_modified, and shell_read_cb for a read-only buffer, clear the    *)
(* flag on purpose.                                                        *)
ClearsOnPurpose ==
    \/ do_not_modified(FALSE)
    \/ b.readonly /\ \E d \in Strings(MaxYank) : shell_read_cb(d)

LosesTrack ==
    /\ (b.modified \/ b'.text # b.text) /\ ~b'.modified
    /\ file' # {b'.text} /\ ~ClearsOnPurpose

(* The log buffer always parses: no record is read from an empty log and no *)
(* record claims data that the text does not have.                          *)
LogParses == ~b.corrupt

(* nb_logs counts the records of the log, so that eviction happens only    *)
(* when there is "no free space".                                          *)
LogCounted == b.nb_logs = Len(b.log)
=============================================================================
