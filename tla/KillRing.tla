------------------------------ MODULE KillRing ------------------------------
(***************************************************************************)
(* The kill ring of qe.c: killing, copying and yanking in a window, with   *)
(* the mouse moving point and mark between two commands, and with the      *)
(* selection of X11.                                                       *)
(***************************************************************************)
EXTENDS TextOps, FiniteSetsExt, Functions

CONSTANTS
    NB_YANK_BUFFERS,
    None,           \* NULL
    Byte,           \* the bytes of the texts
    MaxText,        \* bound on the length of a text
    MaxTotal        \* bound on the length of all texts together

Text == UNION {[1..n -> Byte] : n \in 0..MaxText}

(* NULL is not a text, neither of a buffer nor of another program.         *)
ASSUME KillRingAssumption ==
    /\ NB_YANK_BUFFERS \in Nat \ {0} /\ {MaxText, MaxTotal} \subseteq Nat
    /\ None \notin Seq(Byte \cup {Max(Byte)})

VARIABLES
    win,            \* the window and its buffer
    yank_buffers,   \* place -> text of the buffer there, or None for NULL
    yank_current,
    last_cmd_func,
    mouse,          \* "up", "selecting": a text is shown as selected
    owned,          \* the selection of X11 is not another program's
    disturbed       \* auxiliary: the mouse was used since the last yank

vars == <<win, yank_buffers, yank_current, last_cmd_func, mouse, owned, disturbed>>

Slot == 0..(NB_YANK_BUFFERS - 1)
ring == [at |-> yank_buffers, cur |-> yank_current]

TypeOK ==
    /\ win.text \in Text /\ win.readonly \in BOOLEAN /\ win.region_style \in BOOLEAN
    /\ win.mark \in 0..Len(win.text) /\ win.offset \in 0..Len(win.text)
    /\ yank_buffers \in [Slot -> Text \cup {None}]
    /\ yank_current \in Slot
    /\ last_cmd_func \in {"do_append_next_kill", "do_yank", "other"}
    /\ mouse \in {"up", "selecting"}
    /\ owned \in BOOLEAN /\ disturbed \in BOOLEAN

Init ==
    /\ win \in [text : Text, mark : {0}, offset : {0}, region_style : {FALSE},
                readonly : BOOLEAN]
    /\ yank_buffers = [i \in Slot |-> None]
    /\ yank_current = 0
    /\ last_cmd_func = "other"
    /\ mouse = "up" /\ owned = TRUE /\ disturbed = FALSE

-----------------------------------------------------------------------------
MinOf(i, j) == IF i < j THEN i ELSE j
Dist(i, j) == IF i < j THEN j - i ELSE i - j

(* eb_insert and eb_delete_range, with point and mark following the text.  *)
eb_insert(e, o, t) ==
    LET Moved(p) == IF p > o THEN p + Len(t) ELSE p
    IN [e EXCEPT !.text = InsertBytes(@, o, t), !.mark = Moved(@), !.offset = Moved(@)]

eb_delete_range(e, p1, p2) ==
    LET o == MinOf(p1, p2)
        n == Dist(p1, p2)
        Moved(p) == IF p <= o THEN p ELSE IF p < o + n THEN o ELSE p - n
    IN IF e.readonly THEN e
       ELSE [e EXCEPT !.text = DeleteBytes(@, o, n), !.mark = Moved(@), !.offset = Moved(@)]

do_delete_selection(e) ==
    [(IF e.region_style THEN eb_delete_range(e, e.mark, e.offset) ELSE e)
        EXCEPT !.region_style = FALSE]

-----------------------------------------------------------------------------
(* Mutant: the place before, which holds the previous kill.                *)
new_yank_buffer_back(r, t) ==
    LET cur == IF r.at[r.cur] = None THEN r.cur
               ELSE (r.cur + NB_YANK_BUFFERS - 1) % NB_YANK_BUFFERS
    IN [at |-> [r.at EXCEPT ![cur] = t], cur |-> cur]

(* new_yank_buffer, for the text t: a free place is used as it is,         *)
(* otherwise the next place is cleared.                                    *)
new_yank_buffer(r, t) ==
    LET cur == IF r.at[r.cur] = None THEN r.cur ELSE (r.cur + 1) % NB_YANK_BUFFERS
    IN [at |-> [r.at EXCEPT ![cur] = t], cur |-> cur]

(* do_kill: the ring afterwards, for the text t killed in direction dir.   *)
Saved(r, t, dir) ==
    IF r.at[r.cur] = None \/ dir = 0 \/ last_cmd_func # "do_append_next_kill"
    THEN new_yank_buffer(r, t)
    ELSE [r EXCEPT !.at[r.cur] = IF dir < 0 THEN t \o @ ELSE @ \o t]

(* Mutant: p1 and p2 are not put in order.                                 *)
Killed_unordered(e, p1, p2) ==
    IF e.readonly THEN [e EXCEPT !.region_style = FALSE]
    ELSE [eb_delete_range(e, p1, MinOf(p1 + Dist(p1, p2), Len(e.text)))
            EXCEPT !.region_style = FALSE, !.offset = p1]

(* do_kill: the window afterwards.                                         *)
Killed(e, p1, p2) ==
    IF e.readonly THEN [e EXCEPT !.region_style = FALSE]
    ELSE [eb_delete_range(e, p1, p2)
            EXCEPT !.region_style = FALSE, !.offset = MinOf(p1, p2)]

Region(e, p1, p2) == Bytes(e.text, MinOf(p1, p2), Dist(p1, p2))

(* do_yank, with selection_request: what another program selected becomes  *)
(* an entry first.                                                         *)
Foreign == [i \in 1..1 |-> Max(Byte)]
selection_request(r) ==
    IF owned \/ mouse = "selecting" THEN r ELSE new_yank_buffer(r, Foreign)

(* Mutant: the mark is left where it was.                                  *)
Yanked_unmarked(e, r) ==
    LET d == do_delete_selection(e)
        t == IF r.at[r.cur] = None THEN <<>> ELSE r.at[r.cur]
    IN [eb_insert(d, d.offset, t) EXCEPT !.offset = d.offset + Len(t)]

Yanked(e, r) ==
    LET d == do_delete_selection(e)
        t == IF r.at[r.cur] = None THEN <<>> ELSE r.at[r.cur]
        m == [d EXCEPT !.mark = d.offset]
    IN [eb_insert(m, d.offset, t) EXCEPT !.offset = d.offset + Len(t)]

(* do_yank_pop: the place before, or from the first to the last in use.    *)
PrevSlot(r) ==
    IF r.cur > 0 THEN r.cur - 1 ELSE Max({0} \cup {i \in Slot : r.at[i] # None})

-----------------------------------------------------------------------------
(* save_selection, at the start of a command and when the button goes up:  *)
(* a text selected with the mouse is copied to the ring.                   *)
save_selection ==
    IF mouse = "selecting" THEN Saved(ring, Region(win, win.mark, win.offset), 0) ELSE ring
Deselected == IF mouse = "selecting" THEN [win EXCEPT !.region_style = FALSE] ELSE win

(* The window and the ring afterwards, within the bounds.                  *)
TextLen(t) == IF t = None THEN 0 ELSE Len(t)
Becomes(e, r) ==
    /\ win' = e /\ yank_buffers' = r.at /\ yank_current' = r.cur
    /\ e.text \in Text /\ \A i \in Slot : r.at[i] \in Text \cup {None}
    /\ FoldFunction(+, Len(e.text), [i \in Slot |-> TextLen(r.at[i])]) <= MaxTotal

(* exec_command: save_selection, the command, and last_cmd_func.  A prefix *)
(* argument that repeats a command, all with the last_cmd_func in front of *)
(* the first, is left out.                                                 *)
exec_command(e, r, this_cmd_func) ==
    /\ Becomes(e, r)
    /\ last_cmd_func' = this_cmd_func
    /\ mouse' = "up"
    /\ disturbed' = FALSE

(* A kill, and save_selection when it copies, take the selection of X11.   *)
Owning == owned' = (owned \/ mouse = "selecting")

do_kill_region ==
    /\ exec_command(Killed(win, win.mark, win.offset),
                    Saved(save_selection, Region(win, win.mark, win.offset), 1),
                    "do_append_next_kill")
    /\ owned' = TRUE

(* do_kill_line, do_kill_word, do_kill_whole_line, and do_delete_char and  *)
(* do_backspace with an argument: up to a place before or after the point. *)
do_kill_to ==
    \E p \in 0..Len(win.text) : \E dir \in {1, -1} :
       /\ (p - win.offset) * dir >= 0
       /\ exec_command(Killed([win EXCEPT !.offset = p], win.offset, p),
                       Saved(save_selection, Region(win, win.offset, p), dir),
                       "do_append_next_kill")
       /\ owned' = TRUE

do_copy_region ==
    /\ exec_command([win EXCEPT !.region_style = FALSE],
                    Saved(save_selection, Region(win, win.mark, win.offset), 0), "other")
    /\ owned' = TRUE

do_append_next_kill ==
    exec_command(Deselected, save_selection, "do_append_next_kill") /\ Owning

(* yank and yank-pop are refused in a buffer that is read only.            *)
do_yank ==
    LET r == selection_request(save_selection)
    IN ~win.readonly /\ exec_command(Yanked(Deselected, r), r, "do_yank") /\ Owning

do_yank_pop ==
    /\ ~win.readonly
    /\ Owning
    /\ IF last_cmd_func # "do_yank"
       THEN exec_command(Deselected, save_selection, "other")
       ELSE LET e == eb_delete_range(Deselected, win.mark, win.offset)
                r == selection_request([save_selection EXCEPT !.cur = PrevSlot(save_selection)])
            IN exec_command(Yanked(e, r), r, "do_yank")

(* Commands without a part in the ring; the entries are buffers that the   *)
(* user may kill.                                                          *)
do_char ==
    \E c \in Byte :
       LET e == do_delete_selection(Deselected)
       IN /\ ~win.readonly
          /\ exec_command([eb_insert(e, e.offset, <<c>>) EXCEPT !.offset = e.offset + 1],
                          save_selection, "other")
          /\ Owning

do_move ==
    \E o \in 0..Len(win.text) :
       exec_command([Deselected EXCEPT !.offset = o], save_selection, "other") /\ Owning

do_set_mark ==
    /\ exec_command([win EXCEPT !.mark = win.offset, !.region_style = TRUE],
                    save_selection, "other")
    /\ Owning

do_kill_buffer ==
    \E i \in Slot :
       /\ save_selection.at[i] # None
       /\ exec_command(Deselected, [save_selection EXCEPT !.at[i] = None], "other")
       /\ Owning

-----------------------------------------------------------------------------
(* qe_mouse_event.  It is no command: last_cmd_func stays.                 *)
Mouse(e, r) ==
    /\ Becomes(e, r)
    /\ disturbed' = (last_cmd_func = "do_yank")
    /\ UNCHANGED last_cmd_func

mouse_left ==
    \E o \in 0..Len(win.text) :
       Mouse([Deselected EXCEPT !.offset = o], save_selection) /\ Owning /\ mouse' = "up"

mouse_middle ==
    \E o \in 0..Len(win.text) :
       LET e == [Deselected EXCEPT !.offset = o]
           r == selection_request(save_selection)
       IN /\ IF win.readonly THEN Mouse(e, save_selection) ELSE Mouse(Yanked(e, r), r)
          /\ Owning /\ mouse' = "up"

(* Moving with the left button down: the mark stays where this began.      *)
mouse_motion ==
    \E o \in 0..Len(win.text) :
       /\ Mouse([win EXCEPT !.offset = o,
                            !.mark = IF mouse = "selecting" THEN @ ELSE win.offset], ring)
       /\ mouse' = "selecting" /\ UNCHANGED owned

mouse_release ==
    mouse = "selecting" /\ Mouse(Deselected, save_selection) /\ Owning /\ mouse' = "up"

(* Another program takes the selection.                                    *)
SelectionClear ==
    /\ owned' = FALSE
    /\ UNCHANGED <<win, yank_buffers, yank_current, last_cmd_func, mouse, disturbed>>

Next ==
    \/ do_kill_region \/ do_kill_to \/ do_copy_region \/ do_append_next_kill
    \/ do_yank \/ do_yank_pop \/ do_char \/ do_move \/ do_set_mark \/ do_kill_buffer
    \/ mouse_left \/ mouse_middle \/ mouse_motion \/ mouse_release
    \/ SelectionClear

Spec == Init /\ [][Next]_vars

-----------------------------------------------------------------------------
CurrentText == IF yank_buffers[yank_current] = None THEN <<>>
               ELSE yank_buffers[yank_current]

(* As long as yank-pop would go ahead, the text between mark and point is  *)
(* the entry yanked last, so that this is what it deletes: whatever was    *)
(* selected, killed or read from the selection before.  Exempt is the use  *)
(* of the mouse in between, which moves point and mark without being a     *)
(* command.                                                                *)
YankedRegion ==
    (last_cmd_func = "do_yank" /\ ~disturbed) =>
        Bytes(win.text, win.mark, win.offset - win.mark) = CurrentText

(* Text that leaves the buffer by a kill is in the entry that yank inserts *)
(* next, at the end where it belongs.                                      *)
KillKeepsText ==
    [][(last_cmd_func' = "do_append_next_kill" /\ win'.text # win.text
        /\ ~(mouse_middle)) =>
          \E o, n \in 0..MaxText :
             /\ o + n <= Len(win.text)
             /\ win'.text = DeleteBytes(win.text, o, n)
             /\ LET e == CurrentText'
                IN n <= Len(e) /\ Bytes(win.text, o, n) \in
                                     {Bytes(e, 0, n), Bytes(e, Len(e) - n, n)}]_vars

(* The ring, read from the current place backwards, is a KillHistory: a    *)
(* kill costs at most the entry furthest back, extends no other than the   *)
(* one in front, and yank-pop passes over none.  Exempt is a yank-pop that *)
(* asks for the selection of another program.                              *)
Place(i) == (yank_current + 1 - i) % NB_YANK_BUFFERS
History == INSTANCE KillHistory WITH
    Size <- NB_YANK_BUFFERS,
    entries <- [i \in 1..NB_YANK_BUFFERS |-> yank_buffers[Place(i)]]
ImplementsKillHistory ==
    History!Init /\ [][History!Next \/ (~owned /\ last_cmd_func = "do_yank")]_vars
=============================================================================
