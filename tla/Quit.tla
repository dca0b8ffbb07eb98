-------------------------------- MODULE Quit --------------------------------
(***************************************************************************)
(* Leaving the editor (qe.c): do_exit_qemacs goes through the list of      *)
(* buffers, asks about each modified one and, when some change is not      *)
(* saved, asks for a confirmation.  Between two questions the event loop   *)
(* runs: keys go to quit_key because it has grabbed them, but the mouse    *)
(* still acts on windows, and a process in a terminal buffer               *)
(* (modes/shell.c) writes to its buffer, takes over the grab, releases it, *)
(* or exits, which releases it too.                                        *)
(*                                                                         *)
(* Buffers are numbered in the order of the list; NULL is the end of it.   *)
(* `visiting' are those with a file name that are not system buffers.      *)
(* Auxiliary: `refused' are the buffers that the answers to the current    *)
(* quit said not to save, `failed' those whose save failed in it, `late'   *)
(* those that the mouse or a process has changed since it started.         *)
(***************************************************************************)
EXTENDS Naturals

CONSTANT N      \* the number of buffers

ASSUME QuitAssumption == N \in Nat

VARIABLES
    visiting,   \* buffers that visit a file
    modified,   \* buffers with b->modified
    grab,       \* key_ctx.grab_key_cb: "none", "quit" or "shell"
    is,         \* the QuitState
    active,     \* the active window: "window", or a minibuffer, "confirm"
                \* (for quit_confirm_cb) or "other"
    confirm,    \* a minibuffer for quit_confirm_cb is open
    shell,      \* the buffer of a running terminal process, or 0
    exited,     \* "no", or how the editor was left
    refused, failed, late

vars == <<visiting, modified, grab, is, active, confirm, shell, exited, refused, failed, late>>

Buffer == 1 .. N
NULL == N + 1
QuitState == [state : {"ASK", "NOSAVE", "SAVE"}, modified : BOOLEAN, b : 1 .. N + 1]
Keys == {"y", "n", "q", "!", ".", "C-g", "other"}

Running == exited = "no"
(* Mutant: the scan starts behind the buffer it is at. *)
CandidatesBehind(m, b) == {c \in visiting \cap m : c > b}

(* The buffers from b on that quit_examine_buffers asks about. *)
Candidates(m, b) == {c \in visiting \cap m : c >= b}

-----------------------------------------------------------------------------
(* The end of quit_examine_buffers: confirmation or exit.  In a minibuffer *)
(* minibuffer_edit refuses, and the quit is dropped.                       *)
Finish(unsaved) ==
    /\ grab' = "none"
    /\ \/ /\ unsaved
          /\ IF active = "window" THEN active' = "confirm" /\ confirm' = TRUE
                                 ELSE UNCHANGED <<active, confirm>>
          /\ UNCHANGED exited
       \/ /\ ~unsaved
          /\ exited' = "quit"
          /\ UNCHANGED <<active, confirm>>

(* quit_examine_buffers from buffer b on, when m are modified and saves of *)
(* f have failed so far.                                                   *)
quit_examine_buffers(st, mod, b, m, f) ==
    LET rest == Candidates(m, b)
    IN  \/ /\ st = "ASK"
           /\ \E c \in rest : /\ \A d \in rest : c <= d
                              /\ is' = [state |-> st, modified |-> mod, b |-> c]
           /\ modified' = m /\ failed' = f /\ grab' = "quit"
           /\ UNCHANGED <<active, confirm, exited>>
        \/ /\ st = "ASK" /\ rest = {}
           /\ is' = [state |-> st, modified |-> mod, b |-> NULL]
           /\ modified' = m /\ failed' = f
           /\ Finish(mod)
        \/ /\ st = "NOSAVE"
           /\ is' = [state |-> st, modified |-> mod \/ rest # {}, b |-> NULL]
           /\ modified' = m /\ failed' = f
           /\ Finish(mod \/ rest # {})
        \/ /\ st = "SAVE"
           /\ is' = [state |-> st, modified |-> mod, b |-> NULL]
           /\ \E fails \in SUBSET rest :
                 modified' = m \ (rest \ fails) /\ failed' = f \cup fails
           /\ Finish(mod)

do_exit_qemacs ==
    /\ Running /\ grab = "none"
    /\ refused' = {} /\ late' = {}
    /\ quit_examine_buffers("ASK", FALSE, 1, modified, {})
    /\ UNCHANGED <<visiting, shell>>

(* With a prefix argument the editor is left at once. *)
exit_forced ==
    /\ Running /\ grab = "none"
    /\ exited' = "forced"
    /\ UNCHANGED <<visiting, modified, grab, is, active, confirm, shell, refused, failed, late>>

-----------------------------------------------------------------------------
(* quit_key.  The result of eb_save_buffer, ok, is ignored by the code. *)
StateAfter(key) == CASE key = "!" -> "SAVE"
                     [] key \in {"q", "."} -> "NOSAVE"
                     [] OTHER -> is.state
Declined(key) == CASE key = "n" -> {is.b}
                   [] key = "q" -> Candidates(modified, is.b)
                   [] key = "." -> Candidates(modified, is.b + 1)
                   [] OTHER -> {}

AnswerWith(key, ok, unsaved, next) ==
    LET saves == key \in {"y", "!", "."}
    IN  /\ refused' = refused \cup Declined(key)
        /\ quit_examine_buffers(StateAfter(key), unsaved, next,
               IF saves /\ ok THEN modified \ {is.b} ELSE modified,
               IF saves /\ ~ok THEN failed \cup {is.b} ELSE failed)
        /\ UNCHANGED <<visiting, shell, late>>

(* Mutants: the scan stays at the buffer; `n' does not set is->modified. *)
AnswerStays(key, ok) == AnswerWith(key, ok, is.modified \/ key \in {"n", "q"}, is.b)
AnswerForgets(key, ok) == AnswerWith(key, ok, is.modified \/ key = "q", is.b + 1)

Answer(key, ok) == AnswerWith(key, ok, is.modified \/ key \in {"n", "q"}, is.b + 1)

quit_key(key, ok) ==
    /\ Running /\ grab = "quit"
    /\ \/ key \in Keys \ {"C-g", "other"} /\ Answer(key, ok)
       \/ /\ key = "C-g" /\ grab' = "none"
          /\ UNCHANGED <<visiting, modified, is, active, confirm, shell, exited, refused, failed, late>>
       \/ key = "other" /\ UNCHANGED vars

(* The minibuffer is closed with an answer or aborted, and some other      *)
(* window, which may be one more minibuffer, becomes the active one.       *)
quit_confirm_cb(yes) ==
    /\ Running /\ grab = "none" /\ active = "confirm"
    /\ confirm' \in BOOLEAN
    /\ active' \in {"window", "other"} \cup IF confirm' THEN {"confirm"} ELSE {}
    /\ exited' = IF yes THEN "confirmed" ELSE "no"
    /\ UNCHANGED <<visiting, modified, grab, is, shell, refused, failed, late>>

-----------------------------------------------------------------------------
(* Other commands: they edit or save a buffer, open and close prompts, and *)
(* select windows.                                                         *)
Command(b) ==
    /\ Running /\ grab = "none"
    /\ modified' \in {modified \cup {b}, modified \ {b}}
    /\ active' \in {"window", "other"} \cup IF confirm THEN {"confirm"} ELSE {}
    /\ UNCHANGED <<visiting, grab, is, confirm, shell, exited, refused, failed, late>>

(* qe_mouse_event does not ask key_ctx: a button selects the window under  *)
(* the mouse, and the middle one yanks into it, whoever has grabbed the    *)
(* keys.                                                                   *)
qe_mouse_event(b) ==
    /\ Running
    /\ \/ UNCHANGED <<modified, late>>
       \/ modified' = modified \cup {b} /\ late' = late \cup {b}
    /\ active' \in {"window", "other"} \cup IF confirm THEN {"confirm"} ELSE {}
    /\ UNCHANGED <<visiting, grab, is, confirm, shell, exited, refused, failed>>

(* Output sets b->modified, or resets it when the buffer is read-only. *)
Output ==
    /\ modified' \in {modified \cup {shell}, modified \ {shell}}
    /\ late' = late \cup {shell}

(* shell_read_cb; what is read may enter or leave the alternate screen. *)
shell_read_cb(g) ==
    /\ Running /\ shell # 0
    /\ Output
    /\ grab' = g
    /\ UNCHANGED <<visiting, is, active, confirm, shell, exited, refused, failed>>

(* shell_key: C-o ends the grab, every other key goes to the process. *)
shell_key ==
    /\ Running /\ grab = "shell"
    /\ grab' = "none"
    /\ UNCHANGED <<visiting, modified, is, active, confirm, shell, exited, refused, failed, late>>

shell_pid_cb ==
    /\ Running /\ shell # 0
    /\ Output
    /\ shell' = 0
    /\ grab' = "none"
    /\ UNCHANGED <<visiting, is, active, confirm, exited, refused, failed>>

Init ==
    /\ visiting \in SUBSET Buffer
    /\ modified = {} /\ refused = {} /\ failed = {} /\ late = {}
    /\ grab = "none" /\ active = "window" /\ confirm = FALSE /\ exited = "no"
    /\ is = [state |-> "ASK", modified |-> FALSE, b |-> NULL]
    /\ shell \in 0 .. N

Next ==
    \/ do_exit_qemacs
    \/ exit_forced
    \/ \E key \in Keys, ok \in BOOLEAN : quit_key(key, ok)
    \/ \E yes \in BOOLEAN : quit_confirm_cb(yes)
    \/ \E b \in Buffer : Command(b) \/ qe_mouse_event(b)
    \/ \E g \in {grab, "shell", "none"} : shell_read_cb(g)
    \/ shell_key
    \/ shell_pid_cb

Spec == Init /\ [][Next]_vars

-----------------------------------------------------------------------------
(* The types; while quit_key has the keys, is->b is a buffer and not NULL. *)
TypeOK ==
    /\ visiting \subseteq Buffer /\ modified \subseteq Buffer
    /\ refused \subseteq Buffer /\ failed \subseteq Buffer /\ late \subseteq Buffer
    /\ grab \in {"none", "quit", "shell"}
    /\ is \in QuitState /\ (grab = "quit" => is.b # NULL)
    /\ active \in {"window", "confirm", "other"} /\ confirm \in BOOLEAN
    /\ active = "confirm" => confirm
    /\ shell \in 0 .. N
    /\ exited \in {"no", "quit", "confirmed", "forced"}

(* The question of quit_examine_buffers is about a buffer that is modified,*)
(* and each modified buffer before it was refused by the user or its save  *)
(* failed: none is passed over.  Exempt are only the buffers that the      *)
(* mouse or a process has changed since the quit began, which the scan,    *)
(* going once through the list, may already have left behind.              *)
QuitScan ==
    grab = "quit" =>
        /\ is.b \in visiting
        /\ is.b \in modified \cup late
        /\ \A c \in visiting \cap modified : c < is.b => c \in refused \cup failed \cup late

(* The editor exits without confirmation only when every buffer that       *)
(* visits a file is saved.  Exempt are buffers whose save failed, because  *)
(* quit_key ignores the error, and those changed behind the questions.     *)
ExitAccounted ==
    exited = "quit" => visiting \cap modified \subseteq failed \cup late

(* Each answer ends the questions or moves on in the list, so that a quit  *)
(* asks at most once about a buffer.                                       *)
QuitProgress ==
    [][\A key \in Keys \ {"other"}, ok \in BOOLEAN :
         quit_key(key, ok) => grab' # "quit" \/ is'.b > is.b]_vars
=============================================================================
