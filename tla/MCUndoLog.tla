------------------------------ MODULE MCUndoLog ------------------------------
(* Instances of UndoLog for TLC: the commands each kind of session uses. *)
EXTENDS UndoLog

EditCommands == {"self-insert", "delete-char", "kill-region", "yank", "move",
                 "set-mark", "undo", "redo"}
SaveOnly == {"self-insert", "overwrite", "delete-char", "move", "save-buffer",
             "output", "toggle-read-only", "not-modified"}

OverwriteUndo == {"overwrite", "move", "undo", "redo"}
=============================================================================
