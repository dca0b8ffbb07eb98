--------------------------- MODULE MCUndoSessions ---------------------------
(***************************************************************************)
(* Four kinds of session with UndoLog: "plain" ones with undo and redo     *)
(* that never fill the log (the constants of the configuration), "full"    *)
(* ones with undo that fill a log as large as theirs again and again,      *)
(* "saving" ones with overwriting, process output, protection and saves on *)
(* a small log, and "mixed" ones in which output and saves come between    *)
(* undos.                                                                  *)
(***************************************************************************)
EXTENDS MCUndoLog

VARIABLE session

Full == INSTANCE UndoLog WITH
    Byte <- {Space, Newline}, NB_LOGS_MAX <- 6, MayEvict <- TRUE, MaxYank <- 1,
    Commands <- {"self-insert", "delete-char", "move", "undo"}
Saving == INSTANCE UndoLog WITH
    Byte <- {Space, Newline}, NB_LOGS_MAX <- 3, MayEvict <- TRUE, MaxYank <- 1,
    Commands <- SaveOnly
Mixed == INSTANCE UndoLog WITH
    Byte <- {Space, Newline}, NB_LOGS_MAX <- 3, MayEvict <- TRUE, MaxYank <- 1,
    Commands <- {"self-insert", "delete-char", "move", "undo", "save-buffer", "output"}

SessionInit == Init /\ session \in {"plain", "full", "saving", "mixed"}
SessionNext ==
    /\ UNCHANGED session
    /\ \/ session = "plain" /\ Next
       \/ session = "full" /\ Full!Next
       \/ session = "saving" /\ Saving!Next
       \/ session = "mixed" /\ Mixed!Next
SessionSpec == SessionInit /\ [][SessionNext]_<<vars, session>>

(* eb_addlog, do_undo, eb_offset_callback: the buffer is well typed, point *)
(* and mark stay in the text, every record of the log can be parsed, and,  *)
(* without redo, nb_logs counts the records, so that they are evicted only *)
(* when there is no room.                                                  *)
LogSound ==
    /\ TypeOK /\ MarkersInText /\ LogParses
    /\ session # "plain" => LogCounted

(* do_undo: whenever a further undo is possible, the record it will play   *)
(* is played on the text it was recorded for, even after eviction moved    *)
(* the indices; in plain sessions undo walks back through the history one  *)
(* record at a time, and the records it appends mirror those it has        *)
(* stepped over, so that redo can walk back.                               *)
UndoInOrder ==
    /\ session # "mixed" => UndoInSync
    /\ session = "plain" => UndoChain /\ UndoMirror

(* eb_save_buffer, eb_addlog, shell_read_cb: no step loses track of        *)
(* unsaved text: after a change, and as long as a change is pending, the   *)
(* buffer stays modified until its file holds the text.                    *)
FlagKept == [][session # "mixed" => ~Saving!LosesTrack]_vars
=============================================================================
