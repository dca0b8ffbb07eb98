------------------------------- MODULE Windows -------------------------------
(***************************************************************************)
(* Buffers, windows and prompts (qe.c, buffer.c): who points to whom, and  *)
(* who frees what.  Commands run in the active window; a command that      *)
(* needs an argument opens a minibuffer and goes on in its callback, any   *)
(* number of commands later.                                               *)
(*                                                                         *)
(* `q' is the QEmacsState.  q.buf maps the live buffers to what matters of *)
(* them: kind "file" (b->filename is set), "scratch" (it is not), "help"   *)
(* and "minibuf" (BF_SYSTEM); for a minibuffer also mb->cb and mb->opaque. *)
(* q.win maps the windows to the buffer they show and their target window. *)
(* Addresses are small numbers, 0 is NULL; a freed address is used again.  *)
(* The order of the two lists is abstracted: where the code takes the      *)
(* first window or buffer that qualifies, an action takes any.             *)
(*                                                                         *)
(* Auxiliary: `stale' marks a pending callback whose argument has been     *)
(* freed, `broken' an access to freed memory or through NULL; what the     *)
(* program does after that is not followed.  `irregular' records that a    *)
(* window other than an open prompt or popup became active, that a buffer  *)
(* other than a system buffer became BF_TRANSIENT, or that parse_arguments *)
(* went on with the window its command had closed.                         *)
(*                                                                         *)
(* Names typed at prompts are those of file and scratch buffers.  Popups   *)
(* of the completion, and last_buffer, a hint that check_buffer validates  *)
(* before use, are left out.                                               *)
(***************************************************************************)
EXTENDS Naturals, FiniteSets, FiniteSetsExt, Functions

CONSTANTS
    MaxBuffer,  \* bound: live buffers
    MaxWindow,  \* bound: windows
    Commands    \* the commands of the session

ASSUME WindowsAssumption == MaxBuffer \in Nat \ {0} /\ MaxWindow \in Nat \ {0}

VARIABLES
    q,          \* buffers, windows, the active window
    irregular   \* see above

vars == <<q, irregular>>

NULL == 0
Addr == 0 .. (MaxBuffer + MaxWindow)
Prompts == {"switch-to-buffer", "kill-buffer", "find-file", "find-alternate-file"}
EditBuffer == [kind : {"file", "scratch", "help", "minibuf"}, transient : BOOLEAN,
               modified : BOOLEAN, cb : Prompts \cup {"confirm", "none"},
               opaque : Addr, stale : BOOLEAN]
EditState == [b : Addr, kind : {"normal", "popup", "minibuf"}, target : Addr]

Buffers(p) == DOMAIN p.buf
Windows(p) == DOMAIN p.win
Showing(p, b) == {w \in Windows(p) : p.win[w].b = b}
Of(p, kind) == {w \in Windows(p) : p.win[w].kind = kind}
Named(p) == {b \in Buffers(p) : p.buf[b].kind \in {"file", "scratch"}}

FreshBuffer(p) == Min((1 .. MaxBuffer) \ Buffers(p))
FreshWindow(p) == Min((1 .. MaxWindow) \ Windows(p))
Broken(p) == [p EXCEPT !.broken = TRUE]

-----------------------------------------------------------------------------
(* Creation and deletion. *)

Buffer(kind) == [kind |-> kind, transient |-> FALSE, modified |-> FALSE,
                 cb |-> "none", opaque |-> NULL, stale |-> FALSE]

(* The lists with the member y at the address a. *)
Added(f, a, y) == [c \in DOMAIN f \cup {a} |-> IF c = a THEN y ELSE f[c]]

eb_new(p, kind) == [p EXCEPT !.buf = Added(@, FreshBuffer(p), Buffer(kind))]

(* The pending callbacks of kind cbs that hold an address of gone dangle. *)
Freed(p, cbs, gone) ==
    [p EXCEPT !.buf = [c \in Buffers(p) |->
        IF @[c].cb \in cbs /\ @[c].opaque \in gone
        THEN [@[c] EXCEPT !.opaque = NULL, !.stale = TRUE] ELSE @[c]]]

(* eb_free.  The destructor of a minibuffer calls a pending callback with  *)
(* NULL, which only frees the callback's own data.                         *)
eb_free(p, b) ==
    IF b \notin Buffers(p) THEN Broken(p)
    ELSE Freed([p EXCEPT !.buf = Restrict(@, Buffers(p) \ {b})], {"confirm"}, {b})

(* Mutant: a transient buffer is freed although another window shows it. *)
switch_frees_shown(p, w, b) ==
    LET b0 == p.win[w].b
        p1 == [p EXCEPT !.win[w].b = b]
    IN  IF b = b0 \/ b0 = NULL THEN p1
        ELSE IF p.buf[b0].transient THEN eb_free(p1, b0)
        ELSE p1

switch_to_buffer(p, w, b) ==
    LET b0 == p.win[w].b
        p1 == [p EXCEPT !.win[w].b = b]
    IN  IF b = b0 \/ b0 = NULL THEN p1
        ELSE IF p.buf[b0].transient /\ Showing(p1, b0) = {} THEN eb_free(p1, b0)
        ELSE p1

edit_new(p, b, kind, target) ==
    [p EXCEPT !.win = Added(@, FreshWindow(p), [b |-> b, kind |-> kind, target |-> target])]

edit_detach(p, w, first) ==
    LET t == p.win[w].target
    IN  [p EXCEPT !.win = [v \in Windows(p) \ {w} |->
                              [p.win[v] EXCEPT !.target = IF @ = w THEN NULL ELSE @]],
                  !.active = IF @ # w THEN @ ELSE IF t # NULL THEN t ELSE first]

(* A command that waits for its argument holds the window it runs in. *)
edit_close(p, w, first) ==
    Freed(edit_detach(switch_to_buffer(p, w, NULL), w, first), Prompts, {w})

(* The loop of do_delete_other_windows, which runs in none of the windows  *)
(* ws it closes: a transient buffer goes with the last window that shows   *)
(* it.                                                                     *)
CloseAll(p, ws) ==
    LET dead == {b \in Buffers(p) : /\ p.buf[b].transient
                                    /\ Showing(p, b) # {} /\ Showing(p, b) \subseteq ws}
        p1 == [p EXCEPT !.buf = Restrict(@, Buffers(p) \ dead),
                        !.win = [v \in Windows(p) \ ws |->
                              [p.win[v] EXCEPT !.target = IF @ \in ws THEN NULL ELSE @]]]
    IN  Freed(Freed(p1, {"confirm"}, dead), Prompts, ws)

-----------------------------------------------------------------------------
(* minibuffer_edit: in a minibuffer the callback is called with NULL. *)
minibuffer_edit(p, w, cb, opaque) ==
    LET m == FreshBuffer(p)
        p1 == eb_new(p, "minibuf")
        p2 == [p1 EXCEPT !.buf[m].cb = cb, !.buf[m].opaque = opaque]
    IN  IF p.win[w].kind = "minibuf" THEN p
        ELSE [edit_new(p2, m, "minibuf", w) EXCEPT !.active = FreshWindow(p)]

(* qe_kill_buffer; b1 is the first other buffer that is no system buffer.  *)
(* The loop moves the windows that show b.  When b is transient, its last  *)
(* switch_to_buffer frees b, and the code goes on to free it.              *)
qe_kill_buffer(p, b, b1) ==
    LET others == Named(p) \ {b}
        p1 == IF others = {} THEN eb_new(p, "scratch") ELSE p
        new == IF others = {} THEN FreshBuffer(p) ELSE b1
        p2 == [p1 EXCEPT !.win = [w \in Windows(p) |->
                  IF p.win[w].b = b THEN [p.win[w] EXCEPT !.b = new] ELSE p.win[w]]]
    IN  IF b \notin Buffers(p) THEN Broken(p)
        ELSE IF Showing(p, b) = {} THEN eb_free(p, b)
        ELSE IF p.buf[b].transient THEN Broken(eb_free(p2, b))
        ELSE eb_free(p2, b)

(* Mutant: a buffer is killed without the question. *)
kill_unasked(p, s, b, b1) == qe_kill_buffer(p, b, b1)

do_kill_buffer(p, s, b, b1) ==
    IF p.buf[b].modified /\ p.buf[b].kind = "file"
    THEN minibuffer_edit(p, s, "confirm", b)
    ELSE qe_kill_buffer(p, b, b1)

(* do_switch_to_buffer; b = NULL: the name of no buffer. *)
do_switch_to_buffer(p, s, b) ==
    IF p.win[s].kind = "minibuf" THEN p
    ELSE IF b # NULL THEN switch_to_buffer(p, s, b)
    ELSE switch_to_buffer(eb_new(p, "scratch"), s, FreshBuffer(p))

(* qe_find_target_window for a popup with a target window. *)
LeavePopup(p, s) ==
    LET p1 == [p EXCEPT !.active = IF @ = s THEN p.win[s].target ELSE @,
                        !.buf[p.win[s].b].transient = TRUE]
    IN  edit_close(p1, s, p1.active)

(* qe_load_file once its window is known.  b: the buffer that visits the   *)
(* file already, if it is alive; else ok tells whether the file loads.     *)
Load(p, s, b, ok, alternate) ==
    LET p1 == IF alternate /\ ~p.buf[p.win[s].b].modified
              THEN [p EXCEPT !.buf[p.win[s].b].transient = TRUE] ELSE p
    IN  IF p.win[s].kind \in {"popup", "minibuf"} THEN p
        ELSE IF b \in Buffers(p) THEN switch_to_buffer(p, s, b)
        ELSE IF ~ok THEN p1
        ELSE switch_to_buffer(eb_new(p1, "file"), s, FreshBuffer(p1))

qe_load_file(p, s, b, ok, alternate) ==
    LET t == p.win[s].target
    IN  IF p.win[s].kind # "popup" THEN Load(p, s, b, ok, alternate)
        ELSE IF t = NULL THEN Broken(p)
        ELSE Load(LeavePopup(p, s), t, b, ok, alternate)

-----------------------------------------------------------------------------
(* Commands.  Bounds: a command finds room for what it may create. *)

Issue(name) == name \in Commands /\ ~q.broken
Room(buffers, windows) ==
    /\ Cardinality(Buffers(q)) + buffers <= MaxBuffer
    /\ Cardinality(Windows(q)) + windows <= MaxWindow
s == q.active

(* Strays: a command can run elsewhere while a prompt is open, or while a  *)
(* popup is open that is not the target of a prompt.                       *)
Strays(p) ==
    \/ ~(Of(p, "minibuf") \subseteq {p.active})
    \/ \E w \in Of(p, "popup") \ {p.active} :
          \A v \in Of(p, "minibuf") : p.win[v].target # w
Doomed(p) == \E b \in Named(p) : p.buf[b].transient
Track == irregular' = (irregular \/ Strays(q') \/ Doomed(q'))

(* exec_command and parse_arguments for a command that asks for a name.    *)
(* The prefix argument repeats the commands that do not take it.  One that *)
(* leaves its window open is then given again in that window: it finds     *)
(* done what it did, or it does what it does after do_other_window.        *)
exec_command(name) ==
    /\ Issue(name) /\ Room(1, 1)
    /\ q' = minibuffer_edit(q, s, name, s)
    /\ Track

(* do_minibuffer_exit closes the window before it calls the callback. *)
Closed(first) ==
    edit_close([q EXCEPT !.buf[q.win[s].b].transient = TRUE,
                         !.buf[q.win[s].b].cb = "none"], s, first)

Pending(cb) == /\ q.win[s].kind = "minibuf" /\ ~q.broken
               /\ q.buf[q.win[s].b].cb = cb
opaque == q.buf[q.win[s].b].opaque
First == Windows(q) \ {s}

(* Minibuffer-abort: the callback is called with NULL. *)
minibuffer_abort ==
    /\ q.win[s].kind = "minibuf" /\ ~q.broken
    /\ \E first \in First : q' = Closed(first)
    /\ Track

(* Minibuffer-exit: the callback finds its argument alive, or else uses    *)
(* freed memory.                                                           *)
Answer(cb, result(_)) ==
    /\ Pending(cb)
    /\ \E first \in First :
          q' = IF q.buf[q.win[s].b].stale THEN Broken(q) ELSE result(Closed(first))
    /\ Track

answer_switch ==
    \E b \in Named(q) \cup {NULL} :
        Answer("switch-to-buffer", LAMBDA p : do_switch_to_buffer(p, opaque, b))

answer_kill ==
    \E b \in Named(q) : \E b1 \in (Named(q) \ {b}) \cup {NULL} :
        /\ b1 = NULL => Named(q) = {b}
        /\ Answer("kill-buffer", LAMBDA p : do_kill_buffer(p, opaque, b, b1))

kill_buffer_confirm_cb(yes) ==
    \E b1 \in (Named(q) \ {opaque}) \cup {NULL} :
        /\ b1 = NULL => Named(q) \subseteq {opaque}
        /\ Answer("confirm", LAMBDA p : IF yes THEN qe_kill_buffer(p, opaque, b1) ELSE p)

answer_find(name) ==
    \E b \in {c \in Buffers(q) : q.buf[c].kind = "file"} \cup {NULL},
       ok \in BOOLEAN :
        Answer(name, LAMBDA p :
                   qe_load_file(p, opaque, b, ok, name = "find-alternate-file"))

-----------------------------------------------------------------------------
do_split_window(focus) ==
    /\ Issue("split-window") /\ Room(0, 1)
    /\ q.win[s].kind = "normal"
    /\ q' = [edit_new(q, q.win[s].b, "normal", NULL)
               EXCEPT !.active = IF focus THEN FreshWindow(q) ELSE @]
    /\ Track

(* e1 is the window that takes the place, or the first window. *)
do_delete_window ==
    /\ Issue("delete-window")
    /\ q.win[s].kind # "minibuf" /\ Cardinality(Of(q, "normal")) > 1
    /\ \E e1 \in Windows(q), first \in First :
          /\ e1 \in Of(q, "normal") \ {s} \/ e1 = first \/ q.win[s].kind = "popup"
          /\ q' = edit_close([q EXCEPT !.active = e1], s, first)
    /\ Track

(* Mutants: the minibuffer window is closed like the others; the command   *)
(* is accepted in a popup.                                                 *)
delete_minibuffer_too ==
    /\ Issue("delete-other-windows")
    /\ q.win[s].kind = "normal"
    /\ q' = CloseAll(q, Windows(q) \ {s})
    /\ Track

delete_from_popup ==
    /\ Issue("delete-other-windows")
    /\ q.win[s].kind # "minibuf"
    /\ q' = CloseAll(q, Windows(q) \ ({s} \cup Of(q, "minibuf")))
    /\ Track

do_delete_other_windows ==
    /\ Issue("delete-other-windows")
    /\ q.win[s].kind = "normal"
    /\ q' = CloseAll(q, Windows(q) \ ({s} \cup Of(q, "minibuf")))
    /\ Track

(* minibuffer-exit and -abort, popup-exit and delete-window close the      *)
(* window they run in.  parse_arguments goes on with it: it prepares the   *)
(* next repetition in it, and after 100 ms it reports the time there.      *)
ClosesOwn ==
    \/ q.win[s].kind = "minibuf"
    \/ q.win[s].kind = "popup" /\ "help" \in Commands
    \/ "delete-window" \in Commands /\ Cardinality(Of(q, "normal")) > 1

parse_arguments ==
    /\ ~q.broken /\ ClosesOwn
    /\ q' = Broken(q)
    /\ irregular' = TRUE

(* do_other_window, do_previous_window, do_find_window. *)
do_other_window(w) ==
    /\ Issue("other-window")
    /\ q' = [q EXCEPT !.active = w]
    /\ Track

(* new_help_buffer and show_popup. *)
show_popup ==
    LET help == {b \in Buffers(q) : q.buf[b].kind = "help"}
        b == IF help = {} THEN FreshBuffer(q) ELSE Min(help)
        p == IF help = {} THEN eb_new(q, "help") ELSE q
    IN  /\ Issue("help") /\ Room(1, 1)
        /\ q.win[s].b # b
        /\ q' = [edit_new(p, b, "popup", s) EXCEPT !.active = FreshWindow(q)]
        /\ Track

do_popup_exit ==
    /\ Issue("help")
    /\ q.win[s].kind = "popup"
    /\ \E first \in First :
          q' = edit_close([q EXCEPT !.buf[q.win[s].b].transient =
                              @ \/ q.buf[q.win[s].b].kind = "help"], s, first)
    /\ Track

(* An edit of the text, or a save. *)
Modify(modified) ==
    /\ ~q.broken /\ q.buf[q.win[s].b].kind = "file"
    /\ q' = [q EXCEPT !.buf[q.win[s].b].modified = modified]
    /\ Track

-----------------------------------------------------------------------------
(* The editor has started on a file. *)
Init ==
    /\ q = [buf |-> [b \in {1} |-> Buffer("file")],
            win |-> [w \in {1} |-> [b |-> 1, kind |-> "normal", target |-> NULL]],
            active |-> 1, broken |-> FALSE]
    /\ irregular = FALSE

Next ==
    \/ \E name \in Prompts : exec_command(name)
    \/ minibuffer_abort
    \/ answer_switch
    \/ answer_kill
    \/ \E yes \in BOOLEAN : kill_buffer_confirm_cb(yes)
    \/ \E name \in {"find-file", "find-alternate-file"} : answer_find(name)
    \/ \E focus \in BOOLEAN : do_split_window(focus)
    \/ do_delete_window
    \/ do_delete_other_windows
    \/ parse_arguments
    \/ \E w \in Windows(q) : do_other_window(w)
    \/ show_popup
    \/ do_popup_exit
    \/ \E modified \in BOOLEAN : Modify(modified)

Spec == Init /\ [][Next]_vars

-----------------------------------------------------------------------------
(* The types of buffers and windows; the active window exists. *)
TypeOK ==
    /\ q.active \in Windows(q)
    /\ \A b \in Buffers(q) : q.buf[b] \in EditBuffer
    /\ \A w \in Windows(q) : q.win[w] \in EditState
    /\ irregular \in BOOLEAN

(* No window shows a freed buffer or has a closed window as its target,    *)
(* whatever is closed, killed or replaced by switch_to_buffer, edit_close, *)
(* qe_kill_buffer and the loading of files; one window is active, and one  *)
(* to edit in is left.                                                     *)
NothingDangles ==
    /\ TypeOK
    /\ \A w \in Windows(q) : /\ q.win[w].b \in Buffers(q)
                             /\ q.win[w].target \in Windows(q) \cup {NULL}
    /\ Of(q, "normal") # {}

(* Every prompt can still be answered: an open minibuffer keeps its window *)
(* and its callback until that callback has been called, once.             *)
PromptsAnswerable ==
    LET open == {b \in Buffers(q) : q.buf[b].kind = "minibuf"}
    IN  /\ \A b \in open : q.buf[b].cb # "none" /\ Cardinality(Showing(q, b)) = 1
        /\ \A w \in Of(q, "minibuf") : q.win[w].b \in open

(* As long as prompts and popups are ended before another window becomes   *)
(* active, no buffer with text of the user is BF_TRANSIENT, and no command *)
(* that closes its own window is repeated by a prefix argument or takes    *)
(* 100 ms, what a prompt was opened for is alive when it is answered, and  *)
(* no command touches freed memory.                                        *)
PromptsFresh ==
    ~irregular => ~q.broken /\ \A b \in Buffers(q) : ~q.buf[b].stale

(* "if modified and associated to a filename, then ask": a buffer with     *)
(* unsaved changes to a file disappears only when the user has answered    *)
(* yes to the question about this buffer.                                  *)
Lost(b) == q.buf[b].kind = "file" /\ q.buf[b].modified /\ b \notin Buffers(q')
Asked(b) == kill_buffer_confirm_cb(TRUE) /\ opaque = b

KillAsked == [][\A b \in Buffers(q) : Lost(b) => Asked(b)]_vars

(* The same for a buffer that is not BF_TRANSIENT and that no popup shows, *)
(* so that qe_find_target_window cannot make it BF_TRANSIENT.              *)
KillAskedInWindow ==
    [][\A b \in Buffers(q) :
         /\ Lost(b) /\ ~q.buf[b].transient
         /\ \A w \in Of(q, "popup") : q.win[w].b # b
         => Asked(b)]_vars
=============================================================================
