---------------------------- MODULE PromptProofs ----------------------------
(***************************************************************************)
(* What the prompts protect, for any number of buffers and windows: no     *)
(* unsaved text goes without a question, and outside irregular sessions    *)
(* the question is about a buffer that still exists.                       *)
(***************************************************************************)
EXTENDS WindowsProofs

-----------------------------------------------------------------------------
(* Unsaved changes.  A guarded buffer has some, and neither is transient   *)
(* nor can be made so by leaving a popup.                                  *)
Guarded(p, b) ==
    /\ b \in Buffers(p) /\ p.buf[b].kind = "file" /\ p.buf[b].modified /\ ~p.buf[b].transient
    /\ \A w \in Of(p, "popup") : p.win[w].b # b
Spares(p, r) == \A b : Guarded(p, b) => Guarded(r, b)
Survive(p, r) == \A b : Guarded(p, b) => b \in Buffers(r)

LEMMA SparesSurvive ==
    ASSUME NEW p, NEW n, NEW r, Spares(p, n), Survive(n, r)
    PROVE  Survive(p, r)
  BY Zenon DEF Spares, Survive

LEMMA GrowSurvive ==
    ASSUME NEW p, NEW r, Buffers(p) \subseteq Buffers(r)
    PROVE  Survive(p, r)
  <1>1. \A b \in Buffers(p) : b \in Buffers(r)
    OBVIOUS
  <1> QED BY Zenon, <1>1 DEF Survive, Guarded

(* Only transient buffers are freed with a window. *)
LEMMA FreesSurvive ==
    ASSUME NEW p, NEW r, NEW D, NEW W, Frees(p.buf, r.buf, D, W),
           \A b \in D : ~Guarded(p, b)
    PROVE  Survive(p, r)
  <1>1. ASSUME NEW b, Guarded(p, b) PROVE b \in Buffers(r)
    <2>1. b \in DOMAIN p.buf /\ b \notin D
      BY Zenon, <1>1 DEF Guarded, Buffers
    <2>2. DOMAIN r.buf = DOMAIN p.buf \ D
      BY Zenon DEF Frees
    <2> QED BY <2>1, <2>2 DEF Buffers
  <1> QED BY Zenon, <1>1 DEF Survive

LEMMA GoneSpares ==
    ASSUME NEW p, NEW r, NEW D, NEW W, Frees(p.buf, r.buf, D, W), Closes(p.win, r.win, W),
           \A b \in D : ~Guarded(p, b)
    PROVE  Spares(p, r)
  <1>1. ASSUME NEW b, Guarded(p, b) PROVE Guarded(r, b)
    <2>1. b \in Buffers(r)
      BY Zenon, <1>1, FreesSurvive DEF Survive
    <2>2. Later(p.buf[b], r.buf[b], D, W)
      BY Zenon, <2>1 DEF Frees, Buffers
    <2>3. r.buf[b].kind = "file" /\ r.buf[b].modified /\ ~r.buf[b].transient
      BY Zenon, <1>1, <2>2 DEF Guarded, Later
    <2>4. ASSUME NEW w \in Of(r, "popup") PROVE r.win[w].b # b
      <3>1. w \in DOMAIN r.win /\ r.win[w].kind = "popup"
        BY Zenon, <2>4 DEF Of, Windows
      <3>2. w \in Windows(p) /\ r.win[w].b = p.win[w].b /\ p.win[w].kind = "popup"
        BY <3>1 DEF Closes, Windows
      <3>3. w \in Of(p, "popup")
        BY Zenon, <3>2 DEF Of
      <3> QED BY Zenon, <1>1, <3>2, <3>3 DEF Guarded
    <2> QED BY Zenon, <2>1, <2>3, <2>4 DEF Guarded
  <1> QED BY Zenon, <1>1 DEF Spares

LEMMA LeftTransient ==
    ASSUME NEW p, NEW w, NEW b
    PROVE  \A c \in Left(p, w, b) : ~Guarded(p, c)
  BY DEF Left, Guarded

(* A buffer that is not guarded is marked. *)
LEMMA MarkSpares ==
    ASSUME NEW p, NEW r, NEW b, NEW y, Put(p, r, b, y), ~Guarded(p, b)
    PROVE  Spares(p, r)
  <1>1. ASSUME NEW c, Guarded(p, c) PROVE Guarded(r, c)
    <2>1. c # b /\ c \in Buffers(p)
      BY Zenon, <1>1 DEF Guarded
    <2>2. c \in Buffers(r) /\ r.buf[c] = p.buf[c] /\ Of(r, "popup") = Of(p, "popup")
          /\ r.win = p.win
      BY Zenon, <2>1 DEF Put, Of, Windows
    <2> QED BY Zenon, <1>1, <2>2 DEF Guarded
  <1> QED BY Zenon, <1>1 DEF Spares

LEMMA CreateSpares ==
    ASSUME NEW p, NEW r, NEW m, NEW y, Creates(p, r, m, y)
    PROVE  Spares(p, r)
  <1>1. ASSUME NEW c, Guarded(p, c) PROVE Guarded(r, c)
    <2>1. c \in Buffers(p)
      BY Zenon, <1>1 DEF Guarded
    <2>2. c \in Buffers(r)
      BY <2>1 DEF Creates
    <2>3. r.buf[c] = p.buf[c] /\ Of(r, "popup") = Of(p, "popup") /\ r.win = p.win
      BY Zenon, <2>1 DEF Creates, Of, Windows
    <2> QED BY Zenon, <1>1, <2>2, <2>3 DEF Guarded
  <1> QED BY Zenon, <1>1 DEF Spares

LEMMA SwitchSurvive ==
    ASSUME NEW p, WellFormed(p), NEW w \in Windows(p), NEW b \in Buffers(p)
    PROVE  Survive(p, switch_to_buffer(p, w, b))
  <1> DEFINE r == switch_to_buffer(p, w, b)
             D == Left(p, w, b)
             e == {}
  <1>1. p \in State /\ p.win[w].b \in Buffers(p) /\ b \in Addr
    BY Zenon, StateParts DEF WellFormed, WindowOK
  <1>2. Frees(p.buf, r.buf, D, e)
    BY Zenon, <1>1, SwitchFacts
  <1>3. \A c \in D : ~Guarded(p, c)
    BY Zenon, LeftTransient
  <1> HIDE DEF r, D, e
  <1>4. Survive(p, r)
    BY Zenon, <1>2, <1>3, FreesSurvive
  <1> QED BY Zenon, <1>4 DEF r

LEMMA NewSwitchSurvive ==
    ASSUME NEW p, WellFormed(p), SpareBuffer(p), NEW w \in Windows(p),
           NEW kind \in {"file", "scratch", "help"}
    PROVE  Survive(p, switch_to_buffer(eb_new(p, kind), w, FreshBuffer(p)))
  <1> DEFINE f == eb_new(p, kind)
             m == FreshBuffer(p)
  <1>1. kind \in {"file", "scratch", "help", "minibuf"} /\ p \in State
    BY Zenon DEF WellFormed
  <1>2. WellFormed(f) /\ Creates(p, f, m, Buffer(kind))
    BY Zenon, <1>1, NewFacts, CreateWell
  <1> HIDE DEF f, m
  <1>3. m \in Buffers(f) /\ w \in Windows(f)
    BY <1>2 DEF Creates, Windows
  <1>4. Spares(p, f) /\ Survive(f, switch_to_buffer(f, w, m))
    BY Zenon, <1>2, <1>3, CreateSpares, SwitchSurvive
  <1>5. Survive(p, switch_to_buffer(f, w, m))
    BY Zenon, <1>4, SparesSurvive
  <1> QED BY Zenon, <1>5 DEF f, m

LEMMA SwitchToSurvive ==
    ASSUME NEW p, WellFormed(p), SpareBuffer(p), NEW w \in Windows(p), NEW b,
           b # NULL => b \in Buffers(p)
    PROVE  Survive(p, do_switch_to_buffer(p, w, b))
  <1> DEFINE k == "scratch"
  <1>1. CASE p.win[w].kind = "minibuf"
    BY Zenon, <1>1 DEF do_switch_to_buffer, Survive, Guarded
  <1>2. CASE p.win[w].kind # "minibuf" /\ b # NULL
    BY Zenon, <1>2, SwitchSurvive DEF do_switch_to_buffer
  <1>3. CASE p.win[w].kind # "minibuf" /\ b = NULL
    <2>1. k \in {"file", "scratch", "help"}
      OBVIOUS
    <2>2. do_switch_to_buffer(p, w, b) = switch_to_buffer(eb_new(p, k), w, FreshBuffer(p))
      BY Zenon, <1>3 DEF do_switch_to_buffer
    <2> HIDE DEF k
    <2> QED BY Zenon, <2>1, <2>2, NewSwitchSurvive
  <1> QED BY Zenon, <1>1, <1>2, <1>3

LEMMA LoadSurvive ==
    ASSUME NEW p, WellFormed(p), NEW w \in Windows(p), SpareBuffer(p), NEW b, NEW ok,
           NEW alternate
    PROVE  Survive(p, Load(p, w, b, ok, alternate))
  <1> DEFINE n == LoadMarked(p, w, alternate)
             k == "file"
             r == Load(p, w, b, ok, alternate)
  <1>1. r = IF p.win[w].kind \in {"popup", "minibuf"} THEN p
            ELSE IF b \in Buffers(p) THEN switch_to_buffer(p, w, b)
            ELSE IF ~ok THEN n ELSE switch_to_buffer(eb_new(n, k), w, FreshBuffer(n))
    BY Zenon DEF Load, LoadMarked
  <1>2. LoadMarks(p, w, n) /\ k \in {"file", "scratch", "help"}
    BY LoadMarkFacts
  <1> HIDE DEF r, n, k
  <1>3. WellFormed(n) /\ SpareBuffer(n) /\ w \in Windows(n) /\ Buffers(n) = Buffers(p)
    BY Zenon, <1>2 DEF LoadMarks, SpareBuffer, Windows
  <1>4. Spares(p, n)
    <2>1. CASE n = p
      BY Zenon, <2>1 DEF Spares
    <2>2. CASE ~p.buf[p.win[w].b].modified /\ Put(p, n, p.win[w].b, n.buf[p.win[w].b])
      BY Zenon, <2>2, MarkSpares DEF Guarded
    <2> QED BY Zenon, <1>2, <2>1, <2>2 DEF LoadMarks
  <1>5. Survive(n, switch_to_buffer(eb_new(n, k), w, FreshBuffer(n)))
    BY Zenon, <1>2, <1>3, NewSwitchSurvive
  <1>6. Survive(p, p) /\ Survive(p, n)
    BY Zenon, <1>3 DEF Survive, Guarded
  <1>7. b \in Buffers(p) => Survive(p, switch_to_buffer(p, w, b))
    BY Zenon, SwitchSurvive
  <1>8. Survive(p, switch_to_buffer(eb_new(n, k), w, FreshBuffer(n)))
    BY Zenon, <1>4, <1>5, SparesSurvive
  <1>9. Survive(p, r)
    BY Zenon, <1>1, <1>6, <1>7, <1>8
  <1> QED BY Zenon, <1>9 DEF r

(* qe_find_target_window: the popup shows no guarded buffer. *)
LEMMA LeaveSpares ==
    ASSUME NEW p, WellFormed(p), NEW w \in Windows(p), p.win[w].kind = "popup",
           p.win[w].target # NULL
    PROVE  Spares(p, LeavePopup(p, w))
  <1> DEFINE n == PopupLeft(p, w)
             k == PopupMarked(p, w)
             r == LeavePopup(p, w)
             D == Left(n, w, NULL)
             W == {w}
  <1> HIDE DEF n, k, r
  <1>1. Leaves(p, w, k, n)
    BY Zenon, LeaveFacts DEF n, k
  <1>2. LeftFor(p, r, w)
    BY Zenon, LeaveWell DEF r
  <1>3. Frees(n.buf, r.buf, D, W) /\ Closes(n.win, r.win, W)
    BY Zenon, <1>2 DEF LeftFor, ClosesWindow, n
  <1>4. \A c \in D : ~Guarded(n, c)
    BY Zenon, LeftTransient
  <1> HIDE DEF D, W
  <1>5. Spares(n, r)
    BY Zenon, <1>3, <1>4, GoneSpares
  <1>6. w \in Of(p, "popup")
    BY DEF Of
  <1>7. ~Guarded(p, p.win[w].b)
    BY Zenon, <1>6 DEF Guarded
  <1>8. Spares(p, k)
    BY Zenon, <1>1, <1>7, MarkSpares DEF Leaves
  <1>9. Spares(k, n)
    BY Zenon, <1>1 DEF Leaves, Spares, Guarded, Of, Windows, Buffers
  <1>10. Spares(p, r)
    BY Zenon, <1>5, <1>8, <1>9 DEF Spares
  <1> QED BY Zenon, <1>10 DEF r

LEMMA BrokenFacts ==
    ASSUME NEW p, WellFormed(p)
    PROVE  /\ Broken(p).broken /\ Broken(p).buf = p.buf /\ Survive(p, Broken(p))
  <1>1. BrokenSet(p, Broken(p), TRUE)
    BY Zenon, SetBroken DEF WellFormed
  <1>2. Broken(p).broken /\ Broken(p).buf = p.buf
    BY Zenon, <1>1 DEF BrokenSet
  <1> QED BY Zenon, <1>2 DEF Survive, Guarded, Buffers

LEMMA LoadFileSurvive ==
    ASSUME NEW p, WellFormed(p), NEW w \in Windows(p), SpareBuffer(p), NEW b, NEW ok,
           NEW alternate
    PROVE  Survive(p, qe_load_file(p, w, b, ok, alternate))
  <1> DEFINE t == p.win[w].target
             l == LeavePopup(p, w)
  <1>1. CASE p.win[w].kind # "popup"
    BY Zenon, <1>1, LoadSurvive DEF qe_load_file
  <1>2. CASE p.win[w].kind = "popup" /\ t = NULL
    BY Zenon, <1>2, BrokenFacts DEF qe_load_file
  <1>3. CASE p.win[w].kind = "popup" /\ t # NULL
    <2>1. qe_load_file(p, w, b, ok, alternate) = Load(l, t, b, ok, alternate)
      BY Zenon, <1>3 DEF qe_load_file
    <2>2. LeftFor(p, l, w) /\ Spares(p, l)
      BY Zenon, <1>3, LeaveWell, LeaveSpares
    <2> HIDE DEF l
    <2>3. WellFormed(l) /\ Fewer(p, l) /\ Windows(l) = Windows(p) \ {w}
      BY Zenon, <2>2 DEF LeftFor
    <2>4. t \in Windows(l)
      BY SMTT(30), Z3T(30), <1>3, <2>3 DEF WellFormed, WindowOK
    <2>5. SpareBuffer(l)
      BY <2>3 DEF SpareBuffer, Fewer
    <2> HIDE DEF t
    <2>6. Survive(l, Load(l, t, b, ok, alternate))
      BY Zenon, <2>3, <2>4, <2>5, LoadSurvive
    <2> QED BY Zenon, <2>1, <2>2, <2>6, SparesSurvive
  <1> QED BY Zenon, <1>1, <1>2, <1>3

(* qe_kill_buffer frees b alone. *)
LEMMA KillSurvive ==
    ASSUME NEW p, NEW b, NEW r, KillOutcome(p, r, b)
    PROVE  \A c : Guarded(p, c) /\ c # b => c \in Buffers(r)
  <1>1. ASSUME NEW c, Guarded(p, c), c # b PROVE c \in Buffers(r)
    <2>1. c \in Buffers(p) \ {b}
      BY <1>1 DEF Guarded
    <2> QED BY Zenon, <2>1 DEF KillOutcome
  <1> QED BY Zenon, <1>1

(* do_kill_buffer asks before it kills a guarded buffer. *)
LEMMA DoKillSurvive ==
    ASSUME NEW p, WellFormed(p), SpareBuffer(p), SpareWindow(p), NEW w \in Windows(p),
           NEW b, NEW b1, Killable(p, b, b1)
    PROVE  Survive(p, do_kill_buffer(p, w, b, b1))
  <1> DEFINE k == "confirm"
  <1>1. p \in State /\ b \in Addr
    BY Zenon, StateParts DEF Killable, WellFormed
  <1>2. CASE p.buf[b].modified /\ p.buf[b].kind = "file"
    <2>1. do_kill_buffer(p, w, b, b1) = minibuffer_edit(p, w, k, b)
      BY Zenon, <1>2 DEF do_kill_buffer
    <2>2. k \in Callbacks
      BY DEF Callbacks
    <2> HIDE DEF k
    <2>3. CASE p.win[w].kind = "minibuf"
      BY Zenon, <2>1, <2>3 DEF minibuffer_edit, Survive, Guarded
    <2>4. CASE p.win[w].kind # "minibuf"
      <3> DEFINE r == minibuffer_edit(p, w, k, b)
      <3>1. Opens(p, r, w, k, b)
        BY Zenon, <1>1, <2>2, <2>4, OpenFacts
      <3> HIDE DEF r
      <3>2. Buffers(p) \subseteq Buffers(r)
        BY <3>1 DEF Opens
      <3>3. Survive(p, r)
        BY Zenon, <3>2, GrowSurvive
      <3> QED BY Zenon, <2>1, <3>3 DEF r
    <2> QED BY Zenon, <2>3, <2>4
  <1>3. CASE ~(p.buf[b].modified /\ p.buf[b].kind = "file")
    <2>1. do_kill_buffer(p, w, b, b1) = qe_kill_buffer(p, b, b1)
      BY Zenon, <1>3 DEF do_kill_buffer
    <2>2. KillOutcome(p, qe_kill_buffer(p, b, b1), b)
      BY Zenon, KillFacts
    <2>3. ~Guarded(p, b)
      BY Zenon, <1>3 DEF Guarded
    <2>4. Survive(p, qe_kill_buffer(p, b, b1))
      BY Zenon, <2>2, <2>3, KillSurvive DEF Survive
    <2> QED BY Zenon, <2>1, <2>4
  <1> QED BY Zenon, <1>2, <1>3

(* The end of a prompt. *)
LEMMA EndedSpares ==
    ASSUME NEW p, WellFormed(p), p.win[p.active].kind = "minibuf", NEW c, Ended(p, c)
    PROVE  Spares(p, c)
  <1> DEFINE D == {p.win[p.active].b}
             W == {p.active}
  <1>1. p.buf[p.win[p.active].b].kind = "minibuf"
    BY Zenon DEF WellFormed, WindowOK
  <1>2. \A b \in D : ~Guarded(p, b)
    BY <1>1 DEF Guarded
  <1>3. Frees(p.buf, c.buf, D, W) /\ Closes(p.win, c.win, W)
    BY Zenon DEF Ended, Gone
  <1> HIDE DEF D, W
  <1> QED BY Zenon, <1>2, <1>3, GoneSpares

LEMMA AnsweredSpares ==
    ASSUME NEW cb, NEW c, Answered(cb, c)
    PROVE  WellFormed(c) /\ SpareBuffer(c) /\ SpareWindow(c) /\ Spares(q, c)
  <1>1. WellFormed(q) /\ q.win[q.active].kind = "minibuf" /\ Ended(q, c)
    BY Zenon DEF Answered, s
  <1> QED BY Zenon, <1>1, EndedSpares DEF Ended

LEMMA AnsweredSurvive ==
    ASSUME WellFormed(q),
           \/ Fails
           \/ \E c, b : SwitchResult(c, b)
           \/ \E c, b, b1 : KillResult(c, b, b1)
           \/ \E name, c, b, ok : FindResult(name, c, b, ok)
    PROVE  Survive(q, q')
  <1>1. ASSUME Fails PROVE Survive(q, q')
    BY Zenon, <1>1, BrokenFacts DEF Fails
  <1>2. ASSUME NEW c, NEW b, SwitchResult(c, b) PROVE Survive(q, q')
    <2>1. WellFormed(c) /\ SpareBuffer(c) /\ Spares(q, c)
      BY Zenon, <1>2, AnsweredSpares DEF SwitchResult
    <2>2. Survive(c, q')
      BY Zenon, <1>2, <2>1, SwitchToSurvive DEF SwitchResult
    <2> QED BY Zenon, <2>1, <2>2, SparesSurvive
  <1>3. ASSUME NEW c, NEW b, NEW b1, KillResult(c, b, b1) PROVE Survive(q, q')
    <2>1. WellFormed(c) /\ SpareBuffer(c) /\ SpareWindow(c) /\ Spares(q, c)
      BY Zenon, <1>3, AnsweredSpares DEF KillResult
    <2>2. Survive(c, q')
      BY ZenonT(40), <1>3, <2>1, DoKillSurvive DEF KillResult
    <2> QED BY Zenon, <2>1, <2>2, SparesSurvive
  <1>4. ASSUME NEW name, NEW c, NEW b, NEW ok, FindResult(name, c, b, ok) PROVE Survive(q, q')
    <2> DEFINE alternate == name = "find-alternate-file"
    <2>1. WellFormed(c) /\ SpareBuffer(c) /\ Spares(q, c)
      BY Zenon, <1>4, AnsweredSpares DEF FindResult
    <2>2. opaque \in Windows(c) /\ q' = qe_load_file(c, opaque, b, ok, alternate)
      BY Zenon, <1>4 DEF FindResult
    <2> HIDE DEF alternate
    <2>3. Survive(c, q')
      BY Zenon, <2>1, <2>2, LoadFileSurvive
    <2> QED BY Zenon, <2>1, <2>3, SparesSurvive
  <1> QED BY Zenon, <1>1, <1>2, <1>3, <1>4

(* Yes to the question loses the buffer the question is about. *)
LEMMA ConfirmSurvive ==
    ASSUME NEW yes, NEW c, NEW b1, ConfirmResult(yes, c, b1)
    PROVE  \A b : Guarded(q, b) /\ (yes => b # opaque) => b \in Buffers(q')
  <1>1. WellFormed(c) /\ Spares(q, c)
    BY Zenon, AnsweredSpares DEF ConfirmResult
  <1>2. CASE yes
    <2>1. KillOutcome(c, q', opaque)
      BY Zenon, <1>1, <1>2, KillFacts DEF ConfirmResult
    <2> QED BY ZenonT(40), <1>1, <1>2, <2>1, KillSurvive DEF Spares
  <1>3. CASE ~yes
    <2>1. q' = c
      BY Zenon, <1>3 DEF ConfirmResult
    <2> QED BY Zenon, <1>1, <2>1 DEF Spares, Guarded
  <1> QED BY Zenon, <1>2, <1>3

(* The windows commands. *)
LEMMA CloseSurvive ==
    ASSUME NEW p, NEW r, NEW w, ClosesWindow(p, r, w, Left(p, w, NULL))
    PROVE  Survive(p, r)
  <1> DEFINE D == Left(p, w, NULL)
             W == {w}
  <1>1. Frees(p.buf, r.buf, D, W)
    BY Zenon DEF ClosesWindow
  <1>2. \A b \in D : ~Guarded(p, b)
    BY Zenon, LeftTransient
  <1> HIDE DEF D, W
  <1> QED BY Zenon, <1>1, <1>2, FreesSurvive

LEMMA WindowsSurvive ==
    ASSUME WellFormed(q),
           \/ \E focus \in BOOLEAN : do_split_window(focus)
           \/ do_delete_window \/ do_delete_other_windows
           \/ \E w \in Windows(q) : do_other_window(w)
           \/ show_popup \/ do_popup_exit
           \/ \E modified \in BOOLEAN : Modify(modified)
           \/ parse_arguments
    PROVE  Survive(q, q')
  <1>1. ASSUME NEW focus \in BOOLEAN, do_split_window(focus) PROVE Survive(q, q')
    <2>1. q'.buf = q.buf
      BY Zenon, <1>1, SplitWell DEF Adds
    <2> QED BY Zenon, <2>1 DEF Survive, Guarded, Buffers
  <1>2. ASSUME do_delete_window PROVE Survive(q, q')
    BY Zenon, <1>2, DeleteWell, CloseSurvive
  <1>3. ASSUME do_delete_other_windows PROVE Survive(q, q')
    <2> DEFINE W == Others
               D == Dead(q, W)
    <2>1. Frees(q.buf, q'.buf, D, W)
      BY Zenon, <1>3, DeleteOthersWell DEF ClosesAll
    <2>2. \A b \in D : ~Guarded(q, b)
      BY DEF Dead, Guarded
    <2> HIDE DEF D, W
    <2> QED BY Zenon, <2>1, <2>2, FreesSurvive
  <1>4. ASSUME NEW w \in Windows(q), do_other_window(w) PROVE Survive(q, q')
    <2>1. q'.buf = q.buf
      BY Zenon, <1>4, OtherWell DEF ActiveSet
    <2> QED BY Zenon, <2>1 DEF Survive, Guarded, Buffers
  <1>5. ASSUME show_popup PROVE Survive(q, q')
    <2>1. PICK p, b : /\ Helped(p, b)
                      /\ Adds(p, q', FreshWindow(q), [b |-> b, kind |-> "popup", target |-> s])
      BY Zenon, <1>5, PopupFacts
    <2>2. Buffers(q) \subseteq Buffers(p) /\ q'.buf = p.buf
      BY <2>1 DEF Helped, Creates, Adds
    <2>3. Buffers(q) \subseteq Buffers(q')
      BY Zenon, <2>2 DEF Buffers
    <2> QED BY Zenon, <2>3, GrowSurvive
  <1>6. ASSUME do_popup_exit PROVE Survive(q, q')
    <2>1. PICK n : Exits(n)
      BY ZenonT(40), <1>6, ExitFacts
    <2>2. s \in Of(q, "popup")
      BY <1>6 DEF do_popup_exit, Of, WellFormed, s
    <2>3. ~Guarded(q, q.win[s].b)
      BY Zenon, <2>2 DEF Guarded
    <2>4. Spares(q, n)
      BY Zenon, <2>1, <2>3, MarkSpares DEF Exits
    <2>5. Survive(n, q')
      BY Zenon, <2>1, CloseSurvive DEF Exits
    <2> QED BY Zenon, <2>4, <2>5, SparesSurvive
  <1>7. ASSUME NEW modified \in BOOLEAN, Modify(modified) PROVE Survive(q, q')
    <2>1. Buffers(q') = Buffers(q)
      BY Zenon, <1>7, ModifyWell DEF Put
    <2> QED BY Zenon, <2>1 DEF Survive, Guarded
  <1>8. ASSUME parse_arguments PROVE Survive(q, q')
    BY Zenon, <1>8, BrokenFacts DEF parse_arguments
  <1> QED BY ZenonT(40), <1>1, <1>2, <1>3, <1>4, <1>5, <1>6, <1>7, <1>8

LEMMA NextSurvive ==
    ASSUME WellFormed(q), Next, NEW b, Guarded(q, b), b \notin Buffers(q')
    PROVE  Asked(b)
  <1>1. ~Survive(q, q')
    BY Zenon DEF Survive
  <1>2. ASSUME NEW name \in Prompts, exec_command(name) PROVE Survive(q, q')
    <2>1. Buffers(q) \subseteq Buffers(q')
      BY <1>2, ExecWell DEF Opens
    <2> QED BY ZenonT(40), <2>1, GrowSurvive
  <1>3. ASSUME minibuffer_abort PROVE Survive(q, q')
    <2>1. Ended(q, q') /\ q.win[q.active].kind = "minibuf"
      BY Zenon, <1>3, AbortWell DEF s
    <2>2. Spares(q, q')
      BY Zenon, <2>1, EndedSpares
    <2> QED BY Zenon, <2>2 DEF Spares, Survive, Guarded
  <1>4. ASSUME answer_switch PROVE Survive(q, q')
    BY Zenon, <1>4, SwitchAnswered, AnsweredSurvive
  <1>5. ASSUME answer_kill PROVE Survive(q, q')
    BY Zenon, <1>5, KillAnswered, AnsweredSurvive
  <1>6. ASSUME NEW name \in {"find-file", "find-alternate-file"}, answer_find(name)
        PROVE  Survive(q, q')
    BY Zenon, <1>6, FindAnswered, AnsweredSurvive
  <1>7. ASSUME NEW yes \in BOOLEAN, kill_buffer_confirm_cb(yes) PROVE Asked(b)
    <2>1. ~Fails
      BY Zenon, <1>1, AnsweredSurvive
    <2>2. PICK c, b1 : ConfirmResult(yes, c, b1)
      BY Zenon, <1>7, <2>1, ConfirmAnswered
    <2>3. yes /\ b = opaque
      BY Zenon, <2>2, ConfirmSurvive
    <2>4. yes = TRUE
      BY <2>3
    <2> QED BY Zenon, <1>7, <2>3, <2>4 DEF Asked
  <1> QED BY ZenonT(40), <1>1, <1>2, <1>3, <1>4, <1>5, <1>6, <1>7, WindowsSurvive DEF Next

(* do_kill_buffer asks: a modified file buffer that is not transient and   *)
(* that no popup shows is freed by no command but the yes to the question  *)
(* about this very buffer, whatever prompts and windows are open.          *)
THEOREM KillIsAsked == Spec => KillAskedInWindow
  <1> DEFINE A == \A b \in Buffers(q) :
                    /\ Lost(b) /\ ~q.buf[b].transient
                    /\ \A w \in Of(q, "popup") : q.win[w].b # b
                    => Asked(b)
  <1>1. Inv /\ [Next]_vars => [A]_vars
    <2> SUFFICES ASSUME Inv, Next PROVE A
      BY Zenon
    <2>1. ASSUME NEW b \in Buffers(q), Lost(b), ~q.buf[b].transient,
                 \A w \in Of(q, "popup") : q.win[w].b # b
          PROVE  Asked(b)
      <3>1. Guarded(q, b) /\ b \notin Buffers(q')
        BY Zenon, <2>1 DEF Guarded, Lost
      <3> QED BY Zenon, <3>1, NextSurvive DEF Inv
    <2> QED BY Zenon, <2>1
  <1> QED BY <1>1, Invariance, PTL DEF Spec, KillAskedInWindow

-----------------------------------------------------------------------------
(* Sessions that are not irregular.  No access went wrong, no callback is  *)
(* stale and every popup has a target that is no prompt; and, outside of   *)
(* prompts, no callback is pending at all.                                 *)
Aimed(p, t) == t \in Windows(p) /\ p.win[t].kind # "minibuf"
PopupsAim(p) == \A w \in Of(p, "popup") : Aimed(p, p.win[w].target)
Calm(p) ==
    /\ ~p.broken /\ PopupsAim(p)
    /\ \A b \in Buffers(p) :
          ~p.buf[b].stale /\ (p.buf[b].kind # "minibuf" => p.buf[b].cb = "none")
Idle(f) == \A b \in DOMAIN f : f[b].cb = "none" /\ ~f[b].stale
Quiet(p) == ~p.broken /\ PopupsAim(p) /\ Idle(p.buf)

LEMMA QuietCalm ==
    ASSUME NEW p, Quiet(p)
    PROVE  Calm(p)
  BY Zenon DEF Quiet, Calm, Idle, Buffers

LEMMA FreesIdle ==
    ASSUME NEW f, NEW g, NEW D, NEW W, Frees(f, g, D, W), Idle(f)
    PROVE  Idle(g)
  <1>1. ASSUME NEW b \in DOMAIN g PROVE g[b].cb = "none" /\ ~g[b].stale
    <2>1. Later(f[b], g[b], D, W) /\ b \in DOMAIN f
      BY DEF Frees
    <2>2. f[b].cb = "none" /\ ~f[b].stale
      BY Zenon, <2>1 DEF Idle
    <2> QED BY Zenon, <2>1, <2>2 DEF Later
  <1> QED BY Zenon, <1>1 DEF Idle

(* The flags of a buffer are changed, not its callback. *)
Steady(x, y) == y.kind = x.kind /\ y.cb = x.cb /\ y.stale = x.stale
Marks(p, r, b) == Put(p, r, b, r.buf[b]) /\ Steady(p.buf[b], r.buf[b])

LEMMA PutIdle ==
    ASSUME NEW p, NEW r, NEW b, Marks(p, r, b), Idle(p.buf)
    PROVE  Idle(r.buf)
  <1>1. ASSUME NEW c \in DOMAIN r.buf PROVE r.buf[c].cb = "none" /\ ~r.buf[c].stale
    <2>1. c \in Buffers(p) /\ p.buf[c].cb = "none" /\ ~p.buf[c].stale
      BY Zenon DEF Marks, Put, Buffers, Idle
    <2>2. CASE c = b
      BY Zenon, <2>1, <2>2 DEF Marks, Steady
    <2>3. CASE c # b
      BY Zenon, <2>1, <2>3 DEF Marks, Put
    <2> QED BY Zenon, <2>2, <2>3
  <1> QED BY Zenon, <1>1 DEF Idle

LEMMA SameAim ==
    ASSUME NEW p, NEW r, Windows(r) = Windows(p), PopupsAim(p),
           \A v \in Windows(p) : r.win[v].kind = p.win[v].kind /\ r.win[v].target = p.win[v].target
    PROVE  PopupsAim(r)
  <1>1. ASSUME NEW w \in Of(r, "popup") PROVE Aimed(r, r.win[w].target)
    <2>1. w \in Windows(p) /\ r.win[w].kind = "popup"
      BY Zenon, <1>1 DEF Of
    <2>2. w \in Of(p, "popup")
      BY Zenon, <2>1 DEF Of
    <2>3. Aimed(p, r.win[w].target)
      BY Zenon, <2>1, <2>2 DEF PopupsAim
    <2> QED BY Zenon, <2>3 DEF Aimed
  <1> QED BY Zenon, <1>1 DEF PopupsAim

(* Windows are closed that are the target of no popup that stays. *)
LEMMA ClosesAim ==
    ASSUME NEW p, NEW r, NEW W, Closes(p.win, r.win, W), PopupsAim(p),
           \A v \in Of(p, "popup") \ W : p.win[v].target \notin W
    PROVE  PopupsAim(r)
  <1>1. ASSUME NEW w \in Of(r, "popup") PROVE Aimed(r, r.win[w].target)
    <2>1. w \in DOMAIN r.win /\ r.win[w].kind = "popup"
      BY Zenon, <1>1 DEF Of, Windows
    <2>2. /\ w \in Windows(p) /\ w \notin W /\ p.win[w].kind = "popup"
          /\ r.win[w].target = IF p.win[w].target \in W THEN NULL ELSE p.win[w].target
          /\ Windows(r) = Windows(p) \ W
      BY <2>1 DEF Closes, Windows
    <2>3. w \in Of(p, "popup") \ W
      BY <2>2 DEF Of
    <2> DEFINE t == p.win[w].target
    <2>4. t \notin W /\ Aimed(p, t)
      BY Zenon, <2>3 DEF PopupsAim
    <2> HIDE DEF t
    <2>5. r.win[w].target = t /\ t \in Windows(r)
      BY <2>2, <2>4 DEF t, Aimed
    <2>6. r.win[t].kind = p.win[t].kind
      BY Zenon, <2>5 DEF Closes, Windows
    <2> QED BY Zenon, <2>4, <2>5, <2>6 DEF Aimed
  <1> QED BY Zenon, <1>1 DEF PopupsAim

LEMMA GoneQuiet ==
    ASSUME NEW p, NEW r, NEW D, NEW W, Quiet(p), r.broken = p.broken,
           Frees(p.buf, r.buf, D, W), Closes(p.win, r.win, W),
           \A v \in Of(p, "popup") \ W : p.win[v].target \notin W
    PROVE  Quiet(r)
  <1>1. Idle(r.buf)
    BY Zenon, FreesIdle DEF Quiet
  <1>2. PopupsAim(r)
    BY Zenon, ClosesAim DEF Quiet
  <1> QED BY Zenon, <1>1, <1>2 DEF Quiet

LEMMA PutQuiet ==
    ASSUME NEW p, NEW r, NEW b, Marks(p, r, b), Quiet(p)
    PROVE  Quiet(r)
  <1>1. Idle(r.buf)
    BY Zenon, PutIdle DEF Quiet
  <1>2. r.win = p.win /\ r.broken = p.broken /\ Windows(r) = Windows(p)
    BY Zenon DEF Marks, Put, Windows
  <1>3. PopupsAim(r)
    BY Zenon, <1>2 DEF Quiet, PopupsAim, Aimed, Of
  <1> QED BY Zenon, <1>1, <1>2, <1>3 DEF Quiet

LEMMA NewIdle ==
    ASSUME NEW kind
    PROVE  Buffer(kind).cb = "none" /\ ~Buffer(kind).stale
  BY DEF Buffer

LEMMA CreateQuiet ==
    ASSUME NEW p, NEW r, NEW m, NEW kind, Creates(p, r, m, Buffer(kind)), Quiet(p)
    PROVE  Quiet(r)
  <1>1. ASSUME NEW c \in DOMAIN r.buf PROVE r.buf[c].cb = "none" /\ ~r.buf[c].stale
    <2>1. CASE c = m
      BY Zenon, <2>1, NewIdle DEF Creates
    <2>2. CASE c # m
      <3>1. c \in Buffers(p)
        BY <2>2 DEF Creates, Buffers
      <3> QED BY Zenon, <3>1 DEF Creates, Quiet, Idle, Buffers
    <2> QED BY Zenon, <2>1, <2>2
  <1>2. r.win = p.win /\ r.broken = p.broken
    BY Zenon DEF Creates
  <1>3. PopupsAim(r)
    BY Zenon, <1>2 DEF Quiet, PopupsAim, Aimed, Of, Windows
  <1> QED BY Zenon, <1>1, <1>2, <1>3 DEF Quiet, Idle

LEMMA SwitchQuiet ==
    ASSUME NEW p, WellFormed(p), NEW w \in Windows(p), NEW b \in Buffers(p), Quiet(p)
    PROVE  Quiet(switch_to_buffer(p, w, b))
  <1> DEFINE r == switch_to_buffer(p, w, b)
             D == Left(p, w, b)
             e == {}
  <1>1. p \in State /\ p.win[w].b \in Buffers(p) /\ b \in Addr
    BY Zenon, StateParts DEF WellFormed, WindowOK
  <1>2. /\ r \in State /\ r.active = p.active /\ r.broken = p.broken
        /\ Shows(p.win, r.win, w, b) /\ Frees(p.buf, r.buf, D, e)
    BY Zenon, <1>1, SwitchFacts
  <1> HIDE DEF r, D, e
  <1>3. Idle(r.buf)
    BY Zenon, <1>2, FreesIdle DEF Quiet
  <1>4. PopupsAim(r)
    <2>1. /\ Windows(r) = Windows(p)
          /\ \A v \in Windows(p) : r.win[v].kind = p.win[v].kind
                                  /\ r.win[v].target = p.win[v].target
      BY Zenon, <1>2 DEF Shows, Windows
    <2> QED BY Zenon, <2>1, SameAim DEF Quiet
  <1>5. Quiet(r)
    BY Zenon, <1>2, <1>3, <1>4 DEF Quiet
  <1> QED BY Zenon, <1>5 DEF r

LEMMA NewSwitchQuiet ==
    ASSUME NEW p, WellFormed(p), SpareBuffer(p), NEW w \in Windows(p), Quiet(p),
           NEW kind \in {"file", "scratch", "help"}
    PROVE  Quiet(switch_to_buffer(eb_new(p, kind), w, FreshBuffer(p)))
  <1> DEFINE f == eb_new(p, kind)
             m == FreshBuffer(p)
  <1>1. kind \in {"file", "scratch", "help", "minibuf"} /\ p \in State
    BY Zenon DEF WellFormed
  <1>2. WellFormed(f) /\ Creates(p, f, m, Buffer(kind))
    BY ZenonT(40), <1>1, NewFacts, CreateWell
  <1> HIDE DEF f, m
  <1>3. m \in Buffers(f) /\ w \in Windows(f)
    BY <1>2 DEF Creates, Windows
  <1>4. Quiet(f)
    BY Zenon, <1>2, CreateQuiet
  <1>5. Quiet(switch_to_buffer(f, w, m))
    BY ZenonT(40), <1>2, <1>3, <1>4, SwitchQuiet
  <1> QED BY Zenon, <1>5 DEF f, m

LEMMA SwitchToQuiet ==
    ASSUME NEW p, WellFormed(p), SpareBuffer(p), NEW w \in Windows(p), NEW b, Quiet(p),
           b # NULL => b \in Buffers(p)
    PROVE  Quiet(do_switch_to_buffer(p, w, b))
  <1> DEFINE k == "scratch"
  <1>1. CASE p.win[w].kind = "minibuf"
    BY Zenon, <1>1 DEF do_switch_to_buffer
  <1>2. CASE p.win[w].kind # "minibuf" /\ b # NULL
    BY Zenon, <1>2, SwitchQuiet DEF do_switch_to_buffer
  <1>3. CASE p.win[w].kind # "minibuf" /\ b = NULL
    <2>1. k \in {"file", "scratch", "help"}
      OBVIOUS
    <2>2. do_switch_to_buffer(p, w, b) = switch_to_buffer(eb_new(p, k), w, FreshBuffer(p))
      BY Zenon, <1>3 DEF do_switch_to_buffer
    <2> HIDE DEF k
    <2> QED BY Zenon, <2>1, <2>2, NewSwitchQuiet
  <1> QED BY Zenon, <1>1, <1>2, <1>3

LEMMA LoadQuiet ==
    ASSUME NEW p, WellFormed(p), NEW w \in Windows(p), SpareBuffer(p), NEW b, NEW ok,
           NEW alternate, Quiet(p)
    PROVE  Quiet(Load(p, w, b, ok, alternate))
  <1> DEFINE n == LoadMarked(p, w, alternate)
             k == "file"
             r == Load(p, w, b, ok, alternate)
  <1>1. r = IF p.win[w].kind \in {"popup", "minibuf"} THEN p
            ELSE IF b \in Buffers(p) THEN switch_to_buffer(p, w, b)
            ELSE IF ~ok THEN n ELSE switch_to_buffer(eb_new(n, k), w, FreshBuffer(n))
    BY Zenon DEF Load, LoadMarked
  <1>2. LoadMarks(p, w, n) /\ k \in {"file", "scratch", "help"}
    BY LoadMarkFacts
  <1> HIDE DEF r, n, k
  <1>3. WellFormed(n) /\ SpareBuffer(n) /\ w \in Windows(n)
    BY Zenon, <1>2 DEF LoadMarks, SpareBuffer, Windows
  <1>4. Quiet(n)
    <2> DEFINE c == p.win[w].b
    <2>1. CASE n = p
      BY Zenon, <2>1
    <2>2. CASE /\ Put(p, n, c, n.buf[c])
               /\ Flags(p.buf[c], n.buf[c], TRUE, p.buf[c].modified)
      <3> HIDE DEF c
      <3>1. Put(p, n, c, n.buf[c])
        BY Zenon, <2>2
      <3>2. Steady(p.buf[c], n.buf[c])
        BY Zenon, <2>2 DEF Flags, Steady
      <3>3. Marks(p, n, c)
        BY Zenon, <3>1, <3>2 DEF Marks
      <3> QED BY Zenon, <3>3, PutQuiet
    <2> QED BY Zenon, <1>2, <2>1, <2>2 DEF LoadMarks
  <1>5. Quiet(switch_to_buffer(eb_new(n, k), w, FreshBuffer(n)))
    BY Zenon, <1>2, <1>3, <1>4, NewSwitchQuiet
  <1>6. b \in Buffers(p) => Quiet(switch_to_buffer(p, w, b))
    BY Zenon, SwitchQuiet
  <1>7. Quiet(r)
    BY Zenon, <1>1, <1>4, <1>5, <1>6
  <1> QED BY Zenon, <1>7 DEF r

(* The only popup is left for its target. *)
LEMMA LeaveQuiet ==
    ASSUME NEW p, WellFormed(p), NEW w \in Windows(p), p.win[w].kind = "popup",
           p.win[w].target # NULL, Of(p, "popup") \subseteq {w}, Quiet(p)
    PROVE  Quiet(LeavePopup(p, w))
  <1> DEFINE n == PopupLeft(p, w)
             k == PopupMarked(p, w)
             r == LeavePopup(p, w)
             D == Left(n, w, NULL)
             W == {w}
  <1> HIDE DEF n, k, r
  <1>1. Leaves(p, w, k, n)
    BY Zenon, LeaveFacts DEF n, k
  <1>2. LeftFor(p, r, w)
    BY Zenon, LeaveWell DEF r
  <1>3. Frees(n.buf, r.buf, D, W) /\ Closes(n.win, r.win, W) /\ r.broken = n.broken
    BY Zenon, <1>2 DEF LeftFor, ClosesWindow, n
  <1>4. Quiet(k) /\ k.win = p.win
    <2> DEFINE c == p.win[w].b
    <2>1. Put(p, k, c, k.buf[c])
      BY Zenon, <1>1 DEF Leaves
    <2>2. Steady(p.buf[c], k.buf[c])
      BY Zenon, <1>1 DEF Leaves, Flags, Steady
    <2> HIDE DEF c
    <2>3. Marks(p, k, c) /\ k.win = p.win
      BY Zenon, <2>1, <2>2 DEF Marks, Put
    <2> QED BY Zenon, <2>3, PutQuiet
  <1>5. Quiet(n) /\ Of(n, "popup") = Of(p, "popup")
    <2>1. n.buf = k.buf /\ n.win = k.win /\ n.broken = k.broken
      BY Zenon, <1>1 DEF Leaves
    <2>2. PopupsAim(n) <=> PopupsAim(k)
      BY Zenon, <2>1 DEF PopupsAim, Aimed, Of, Windows
    <2>3. Of(n, "popup") = Of(p, "popup")
      BY Zenon, <1>4, <2>1 DEF Of, Windows
    <2> QED BY Zenon, <1>4, <2>1, <2>2, <2>3 DEF Quiet
  <1>6. \A v \in Of(n, "popup") \ W : n.win[v].target \notin W
    BY <1>5
  <1> HIDE DEF D, W
  <1>7. Quiet(r)
    BY Zenon, <1>3, <1>5, <1>6, GoneQuiet
  <1> QED BY Zenon, <1>7 DEF r

LEMMA LoadFileQuiet ==
    ASSUME NEW p, WellFormed(p), NEW w \in Windows(p), SpareBuffer(p), NEW b, NEW ok,
           NEW alternate, Quiet(p), p.win[w].kind = "popup" => Of(p, "popup") \subseteq {w}
    PROVE  Quiet(qe_load_file(p, w, b, ok, alternate))
  <1> DEFINE t == p.win[w].target
             l == LeavePopup(p, w)
  <1>1. CASE p.win[w].kind # "popup"
    BY Zenon, <1>1, LoadQuiet DEF qe_load_file
  <1>2. CASE p.win[w].kind = "popup"
    <2>1. w \in Of(p, "popup")
      BY Zenon, <1>2 DEF Of
    <2>2. t \in Windows(p) /\ t # NULL
      <3>1. t \in Windows(p)
        BY Zenon, <2>1 DEF Quiet, PopupsAim, Aimed
      <3>2. Windows(p) \subseteq 1 .. MaxWindow
        BY Zenon, StateParts DEF WellFormed
      <3> QED BY SMTT(30), Z3T(30), <3>1, <3>2 DEF NULL
    <2>3. qe_load_file(p, w, b, ok, alternate) = Load(l, t, b, ok, alternate)
      BY Zenon, <1>2, <2>2 DEF qe_load_file
    <2>4. LeftFor(p, l, w) /\ Quiet(l)
      BY Zenon, <1>2, <2>2, LeaveWell, LeaveQuiet
    <2> HIDE DEF l
    <2>5. WellFormed(l) /\ Fewer(p, l) /\ Windows(l) = Windows(p) \ {w}
      BY ZenonT(40), <2>4 DEF LeftFor
    <2>6. t \in Windows(l)
      BY SMTT(30), Z3T(30), <2>2, <2>5 DEF WellFormed, WindowOK
    <2>7. SpareBuffer(l)
      BY <2>5 DEF SpareBuffer, Fewer
    <2> HIDE DEF t
    <2>8. Quiet(Load(l, t, b, ok, alternate))
      BY ZenonT(40), <2>4, <2>5, <2>6, <2>7, LoadQuiet
    <2> QED BY Zenon, <2>3, <2>8
  <1> QED BY Zenon, <1>1, <1>2

(* A prompt is opened. *)
LEMMA OpenCalm ==
    ASSUME NEW p, NEW r, NEW w, NEW cb \in Callbacks, NEW o \in Addr, Opens(p, r, w, cb, o),
           Calm(p)
    PROVE  Calm(r)
  <1> DEFINE m == FreshBuffer(p)
             n == FreshWindow(p)
             y == [Buffer("minibuf") EXCEPT !.cb = cb, !.opaque = o]
             z == [b |-> m, kind |-> "minibuf", target |-> w]
  <1>1. Waits(y, cb, o)
    BY Zenon, MinibufFields
  <1>2. z.kind = "minibuf"
    OBVIOUS
  <1> HIDE DEF y, z
  <1>3. /\ r.broken = p.broken /\ Buffers(r) = Buffers(p) \cup {m} /\ r.buf[m] = y
        /\ \A c \in Buffers(p) : r.buf[c] = p.buf[c]
        /\ Windows(r) = Windows(p) \cup {n} /\ r.win[n] = z
        /\ \A v \in Windows(p) : r.win[v] = p.win[v]
    BY Zenon DEF Opens, y, z
  <1> HIDE DEF m, n
  <1>4. ASSUME NEW b \in Buffers(r)
        PROVE  ~r.buf[b].stale /\ (r.buf[b].kind # "minibuf" => r.buf[b].cb = "none")
    <2>1. CASE b = m
      BY Zenon, <1>1, <1>3, <2>1 DEF Waits
    <2>2. CASE b # m
      <3>1. b \in Buffers(p)
        BY Zenon, <1>3, <2>2
      <3> QED BY Zenon, <1>3, <3>1 DEF Calm
    <2> QED BY Zenon, <2>1, <2>2
  <1>5. ASSUME NEW v \in Of(r, "popup") PROVE Aimed(r, r.win[v].target)
    <2>1. v \in Windows(r) /\ r.win[v].kind = "popup"
      BY Zenon, <1>5 DEF Of
    <2>2. v # n
      BY SMTT(30), Z3T(30), <1>2, <1>3, <2>1
    <2>3. v \in Windows(p) /\ r.win[v] = p.win[v]
      BY SMTT(30), Z3T(30), <1>3, <2>1, <2>2
    <2>4. v \in Of(p, "popup")
      BY Zenon, <2>1, <2>3 DEF Of
    <2> DEFINE t == p.win[v].target
    <2>5. Aimed(p, t) /\ r.win[v].target = t
      BY Zenon, <2>3, <2>4 DEF Calm, PopupsAim
    <2> HIDE DEF t
    <2>6. t \in Windows(p) /\ p.win[t].kind # "minibuf"
      BY Zenon, <2>5 DEF Aimed
    <2>7. t \in Windows(r) /\ r.win[t] = p.win[t]
      BY Zenon, <1>3, <2>6
    <2> QED BY Zenon, <2>5, <2>6, <2>7 DEF Aimed
  <1> QED BY Zenon, <1>3, <1>4, <1>5 DEF Calm, PopupsAim

LEMMA KillQuiet ==
    ASSUME NEW p, NEW b, NEW r, KillOutcome(p, r, b), ~p.buf[b].transient, Quiet(p)
    PROVE  Quiet(r)
  <1>1. ASSUME NEW x, NEW y, NEW D, NEW W, Later(x, y, D, W), x.cb = "none", ~x.stale
        PROVE  y.cb = "none" /\ ~y.stale
    BY Zenon, <1>1 DEF Later
  <1>2. ASSUME NEW c \in DOMAIN r.buf PROVE r.buf[c].cb = "none" /\ ~r.buf[c].stale
    <2>1. c \in Buffers(r)
      BY Zenon DEF Buffers
    <2>2. CASE c \in Buffers(p)
      <3>1. c \in Buffers(p) \ {b}
        BY Zenon, <2>1, <2>2 DEF KillOutcome
      <3>2. Later(p.buf[c], r.buf[c], {b}, {})
        BY Zenon, <3>1 DEF KillOutcome
      <3>3. p.buf[c].cb = "none" /\ ~p.buf[c].stale
        BY Zenon, <2>2 DEF Quiet, Idle, Buffers
      <3> QED BY Zenon, <1>1, <3>2, <3>3
    <2>3. CASE c \notin Buffers(p)
      <3>1. c \in Buffers(r) \ Buffers(p)
        BY Zenon, <2>1, <2>3
      <3>2. Later(Buffer("scratch"), r.buf[c], {b}, {})
        BY Zenon, <3>1 DEF KillOutcome
      <3> QED BY ZenonT(40), <1>1, <3>2, NewIdle
    <2> QED BY Zenon, <2>2, <2>3
  <1>3. Windows(r) = Windows(p) /\ r.broken = p.broken
    BY Zenon DEF KillOutcome
  <1>4. \A v \in Windows(p) : r.win[v].kind = p.win[v].kind /\ r.win[v].target = p.win[v].target
    BY Zenon DEF KillOutcome
  <1>5. PopupsAim(r)
    BY ZenonT(40), <1>3, <1>4, SameAim DEF Quiet
  <1> QED BY ZenonT(40), <1>2, <1>3, <1>5 DEF Quiet, Idle

LEMMA DoKillCalm ==
    ASSUME NEW p, WellFormed(p), SpareBuffer(p), SpareWindow(p), NEW w \in Windows(p),
           NEW b, NEW b1, Killable(p, b, b1), ~p.buf[b].transient, Quiet(p)
    PROVE  Calm(do_kill_buffer(p, w, b, b1))
  <1> DEFINE k == "confirm"
  <1>1. p \in State /\ b \in Addr /\ Calm(p)
    BY Zenon, StateParts, QuietCalm DEF Killable, WellFormed
  <1>2. CASE p.buf[b].modified /\ p.buf[b].kind = "file"
    <2>1. do_kill_buffer(p, w, b, b1) = minibuffer_edit(p, w, k, b)
      BY Zenon, <1>2 DEF do_kill_buffer
    <2>2. k \in Callbacks
      BY DEF Callbacks
    <2> HIDE DEF k
    <2>3. CASE p.win[w].kind = "minibuf"
      BY Zenon, <1>1, <2>1, <2>3 DEF minibuffer_edit
    <2>4. CASE p.win[w].kind # "minibuf"
      <3> DEFINE r == minibuffer_edit(p, w, k, b)
      <3>1. Opens(p, r, w, k, b)
        BY ZenonT(40), <1>1, <2>2, <2>4, OpenFacts
      <3> HIDE DEF r
      <3>2. Calm(r)
        BY ZenonT(40), <1>1, <2>2, <3>1, OpenCalm
      <3> QED BY Zenon, <2>1, <3>2 DEF r
    <2> QED BY Zenon, <2>3, <2>4
  <1>3. CASE ~(p.buf[b].modified /\ p.buf[b].kind = "file")
    <2>1. do_kill_buffer(p, w, b, b1) = qe_kill_buffer(p, b, b1)
      BY Zenon, <1>3 DEF do_kill_buffer
    <2>2. KillOutcome(p, qe_kill_buffer(p, b, b1), b)
      BY Zenon, KillFacts
    <2>3. Quiet(qe_kill_buffer(p, b, b1))
      BY Zenon, <2>2, KillQuiet
    <2> QED BY ZenonT(40), <2>1, <2>3, QuietCalm
  <1> QED BY Zenon, <1>2, <1>3

(* While nothing strays, a prompt that is open is the active window.       *)
LEMMA PromptsActive ==
    ASSUME NEW p, WellFormed(p), ~Strays(p), NEW b \in Buffers(p), p.buf[b].kind = "minibuf"
    PROVE  p.win[p.active].kind = "minibuf" /\ p.win[p.active].b = b
  <1>1. PICK w \in Windows(p) : Showing(p, b) = {w}
    BY Zenon DEF WellFormed, PromptOK
  <1>2. w \in Showing(p, b)
    BY <1>1
  <1>3. p.win[w].b = b
    BY Zenon, <1>2 DEF Showing
  <1>4. p.win[w].kind = "minibuf"
    BY Zenon, <1>3 DEF WellFormed, WindowOK
  <1>5. w \in Of(p, "minibuf")
    BY Zenon, <1>4 DEF Of
  <1>6. Of(p, "minibuf") \subseteq {p.active}
    BY Zenon DEF Strays
  <1>7. w = p.active
    BY SMTT(30), Z3T(30), <1>5, <1>6
  <1> QED BY Zenon, <1>3, <1>4, <1>7

LEMMA OutsideQuiet ==
    ASSUME NEW p, WellFormed(p), Calm(p), ~Strays(p), p.win[p.active].kind # "minibuf"
    PROVE  Quiet(p) /\ Of(p, "popup") \subseteq {p.active}
  <1>1. \A b \in Buffers(p) : p.buf[b].kind # "minibuf"
    BY Zenon, PromptsActive
  <1>2. Quiet(p)
    BY Zenon, <1>1 DEF Calm, Quiet, Idle, Buffers
  <1>3. Of(p, "minibuf") \subseteq {p.active} /\ p.active \notin Of(p, "minibuf")
    BY Zenon DEF Strays, Of
  <1>4. \A w \in Of(p, "popup") \ {p.active} : \E v \in Of(p, "minibuf") : p.win[v].target = w
    BY Zenon DEF Strays
  <1>5. Of(p, "popup") \subseteq {p.active}
    BY SMTT(30), Z3T(30), <1>3, <1>4
  <1> QED BY Zenon, <1>2, <1>5

(* The end of the prompt leaves no callback pending and one popup at most. *)
LEMMA EndedQuiet ==
    ASSUME NEW p, WellFormed(p), Calm(p), ~Strays(p), p.win[p.active].kind = "minibuf",
           NEW c, Ended(p, c)
    PROVE  Quiet(c) /\ \A w \in Of(c, "popup") : Of(c, "popup") \subseteq {w}
  <1> DEFINE m == p.win[p.active].b
             a == p.active
             W == {a}
             D == {m}
  <1>1. Frees(p.buf, c.buf, D, W) /\ Closes(p.win, c.win, W) /\ c.broken = p.broken
    BY Zenon DEF Ended, Gone
  <1>2. ASSUME NEW b \in DOMAIN c.buf PROVE c.buf[b].cb = "none" /\ ~c.buf[b].stale
    <2>1. b \in Buffers(p) /\ b # m /\ Later(p.buf[b], c.buf[b], D, W)
      BY SMTT(30), Z3T(30), <1>1 DEF Frees, Buffers
    <2>2. p.buf[b].kind # "minibuf"
      BY Zenon, <2>1, PromptsActive
    <2>3. p.buf[b].cb = "none" /\ ~p.buf[b].stale
      BY Zenon, <2>1, <2>2 DEF Calm
    <2> HIDE DEF D, W
    <2> QED BY ZenonT(40), <2>1, <2>3 DEF Later
  <1>3. \A v \in Of(p, "popup") \ W : p.win[v].target \notin W
    BY DEF Calm, PopupsAim, Aimed
  <1>4. PopupsAim(p) /\ ~p.broken
    BY Zenon DEF Calm
  <1>5. \A w \in Of(p, "popup") : w = p.win[a].target
    <2>1. Of(p, "minibuf") \subseteq {a}
      BY Zenon DEF Strays
    <2>2. \A w \in Of(p, "popup") \ {a} : \E v \in Of(p, "minibuf") : p.win[v].target = w
      BY Zenon DEF Strays
    <2>3. a \notin Of(p, "popup")
      BY DEF Of
    <2> QED BY SMTT(30), Z3T(30), <2>1, <2>2, <2>3
  <1>6. Of(c, "popup") \subseteq Of(p, "popup")
    BY SMTT(30), Z3T(30), <1>1 DEF Closes, Of, Windows
  <1>7. \A w \in Of(c, "popup") : Of(c, "popup") \subseteq {w}
    BY SMTT(30), Z3T(30), <1>5, <1>6
  <1> HIDE DEF W, D
  <1>8. PopupsAim(c)
    BY ZenonT(40), <1>1, <1>3, <1>4, ClosesAim
  <1> QED BY ZenonT(40), <1>1, <1>2, <1>4, <1>7, <1>8 DEF Quiet, Idle

Regular(p) == WellFormed(p) /\ Calm(p) /\ ~Strays(p) /\ ~Doomed(p)
AfterPrompt(c) ==
    /\ WellFormed(c) /\ SpareBuffer(c) /\ SpareWindow(c) /\ Quiet(c)
    /\ \A w \in Of(c, "popup") : Of(c, "popup") \subseteq {w}
    /\ \A b \in Named(c) : ~c.buf[b].transient

LEMMA AnsweredQuiet ==
    ASSUME Regular(q), NEW cb, NEW c, Answered(cb, c)
    PROVE  AfterPrompt(c)
  <1>1. WellFormed(q) /\ q.win[q.active].kind = "minibuf" /\ Ended(q, c)
    BY Zenon DEF Answered, s
  <1>2. Quiet(c) /\ \A w \in Of(c, "popup") : Of(c, "popup") \subseteq {w}
    BY Zenon, <1>1, EndedQuiet DEF Regular
  <1>3. ASSUME NEW b \in Named(c) PROVE ~c.buf[b].transient
    <2>1. b \in Named(q)
      BY Zenon, <1>1, EndedNamed
    <2>2. b \in Buffers(q) /\ q.buf[b].kind # "minibuf"
      BY SMTT(30), Z3T(30), <2>1 DEF Named
    <2> DEFINE D == {q.win[q.active].b}
               W == {q.active}
    <2>3. Later(q.buf[b], c.buf[b], D, W)
      BY ZenonT(40), <1>1, <2>2, EndedNamed
    <2> HIDE DEF D, W
    <2>4. c.buf[b].transient = q.buf[b].transient
      BY Zenon, <2>3 DEF Later
    <2> QED BY Zenon, <2>1, <2>4 DEF Regular, Doomed
  <1> QED BY ZenonT(40), <1>1, <1>2, <1>3 DEF AfterPrompt, Ended

LEMMA NotFails ==
    ASSUME Regular(q)
    PROVE  ~Fails
  <1>1. Mini \in Buffers(q)
    BY Zenon DEF Regular, WellFormed, WindowOK, Mini, s
  <1> QED BY Zenon, <1>1 DEF Regular, Calm, Fails

LEMMA AnsweredCalm ==
    ASSUME Regular(q),
           \/ \E c, b : SwitchResult(c, b)
           \/ \E c, b, b1 : KillResult(c, b, b1)
           \/ \E yes, c, b1 : ConfirmResult(yes, c, b1)
           \/ \E name, c, b, ok : FindResult(name, c, b, ok)
    PROVE  Calm(q')
  <1>1. ASSUME NEW c, NEW b, SwitchResult(c, b) PROVE Calm(q')
    <2>1. AfterPrompt(c)
      BY Zenon, <1>1, AnsweredQuiet DEF SwitchResult
    <2>2. Quiet(q')
      BY Zenon, <1>1, <2>1, SwitchToQuiet DEF SwitchResult, AfterPrompt
    <2> QED BY Zenon, <2>2, QuietCalm
  <1>2. ASSUME NEW c, NEW b, NEW b1, KillResult(c, b, b1) PROVE Calm(q')
    <2>1. AfterPrompt(c)
      BY Zenon, <1>2, AnsweredQuiet DEF KillResult
    <2>2. ~c.buf[b].transient
      BY Zenon, <1>2, <2>1 DEF KillResult, AfterPrompt
    <2> QED BY ZenonT(40), <1>2, <2>1, <2>2, DoKillCalm DEF KillResult, AfterPrompt
  <1>3. ASSUME NEW yes, NEW c, NEW b1, ConfirmResult(yes, c, b1) PROVE Calm(q')
    <2>1. AfterPrompt(c)
      BY Zenon, <1>3, AnsweredQuiet DEF ConfirmResult
    <2>2. opaque \in Named(c)
      BY <1>3 DEF ConfirmResult, Killable, Named
    <2>3. ~c.buf[opaque].transient
      BY Zenon, <2>1, <2>2 DEF AfterPrompt
    <2>4. KillOutcome(c, qe_kill_buffer(c, opaque, b1), opaque)
      BY Zenon, <1>3, <2>1, KillFacts DEF ConfirmResult, AfterPrompt
    <2>5. Quiet(qe_kill_buffer(c, opaque, b1)) /\ Quiet(c)
      BY ZenonT(40), <2>1, <2>3, <2>4, KillQuiet DEF AfterPrompt
    <2> QED BY ZenonT(40), <1>3, <2>5, QuietCalm DEF ConfirmResult
  <1>4. ASSUME NEW name, NEW c, NEW b, NEW ok, FindResult(name, c, b, ok) PROVE Calm(q')
    <2> DEFINE alternate == name = "find-alternate-file"
    <2>1. AfterPrompt(c)
      BY Zenon, <1>4, AnsweredQuiet DEF FindResult
    <2>2. opaque \in Windows(c) /\ q' = qe_load_file(c, opaque, b, ok, alternate)
      BY Zenon, <1>4 DEF FindResult
    <2> HIDE DEF alternate
    <2>3. c.win[opaque].kind = "popup" => Of(c, "popup") \subseteq {opaque}
      BY Zenon, <2>1, <2>2 DEF AfterPrompt, Of
    <2>4. Quiet(q')
      BY ZenonT(40), <2>1, <2>2, <2>3, LoadFileQuiet DEF AfterPrompt
    <2> QED BY Zenon, <2>4, QuietCalm
  <1> QED BY ZenonT(40), <1>1, <1>2, <1>3, <1>4

LEMMA AddCalm ==
    ASSUME NEW p, NEW r, NEW w, NEW y, Adds(p, r, w, y), Calm(p),
           y.kind = "popup" => Aimed(p, y.target)
    PROVE  Calm(r)
  <1>1. /\ r.buf = p.buf /\ r.broken = p.broken /\ r.win[w] = y
        /\ Windows(r) = Windows(p) \cup {w} /\ \A v \in Windows(p) : r.win[v] = p.win[v]
    BY Zenon DEF Adds
  <1>2. ASSUME NEW t, Aimed(p, t) PROVE Aimed(r, t)
    BY SMTT(30), Z3T(30), <1>1, <1>2 DEF Aimed
  <1>3. ASSUME NEW v \in Of(r, "popup") PROVE Aimed(r, r.win[v].target)
    <2>1. v \in Windows(r) /\ r.win[v].kind = "popup"
      BY Zenon, <1>3 DEF Of
    <2>2. CASE v = w
      BY Zenon, <1>1, <1>2, <2>1, <2>2
    <2>3. CASE v # w
      <3>1. v \in Windows(p) /\ r.win[v] = p.win[v]
        BY SMTT(30), Z3T(30), <1>1, <2>1, <2>3
      <3>2. v \in Of(p, "popup")
        BY Zenon, <2>1, <3>1 DEF Of
      <3> QED BY Zenon, <1>2, <3>1, <3>2 DEF Calm, PopupsAim
    <2> QED BY Zenon, <2>2, <2>3
  <1> QED BY Zenon, <1>1, <1>3 DEF Calm, PopupsAim, Buffers

LEMMA CloseCalm ==
    ASSUME NEW p, NEW r, NEW w, NEW D, ClosesWindow(p, r, w, D), Quiet(p),
           Of(p, "popup") \subseteq {w}
    PROVE  Calm(r)
  <1> DEFINE W == {w}
  <1>1. Frees(p.buf, r.buf, D, W) /\ Closes(p.win, r.win, W) /\ r.broken = p.broken
    BY Zenon DEF ClosesWindow
  <1>2. \A v \in Of(p, "popup") \ W : p.win[v].target \notin W
    OBVIOUS
  <1> HIDE DEF W
  <1>3. Quiet(r)
    BY Zenon, <1>1, <1>2, GoneQuiet
  <1> QED BY Zenon, <1>3, QuietCalm

LEMMA WindowsCalm ==
    ASSUME Regular(q), ~Strays(q'),
           \/ \E focus \in BOOLEAN : do_split_window(focus)
           \/ do_delete_window \/ do_delete_other_windows
           \/ \E w \in Windows(q) : do_other_window(w)
           \/ show_popup \/ do_popup_exit
           \/ \E modified \in BOOLEAN : Modify(modified)
    PROVE  Calm(q')
  <1>1. WellFormed(q) /\ Calm(q) /\ s \in Windows(q)
    BY Zenon DEF Regular, WellFormed, s
  <1>2. q.win[s].kind # "minibuf" => Quiet(q) /\ Of(q, "popup") \subseteq {s}
    BY Zenon, OutsideQuiet DEF Regular, s
  <1>3. ASSUME NEW focus \in BOOLEAN, do_split_window(focus) PROVE Calm(q')
    <2> DEFINE y == [b |-> q.win[s].b, kind |-> "normal", target |-> NULL]
    <2>1. Adds(q, q', FreshWindow(q), y)
      BY ZenonT(40), <1>1, <1>3, SplitWell
    <2>2. y.kind # "popup"
      OBVIOUS
    <2> HIDE DEF y
    <2> QED BY ZenonT(40), <1>1, <2>1, <2>2, AddCalm
  <1>4. ASSUME do_delete_window PROVE Calm(q')
    <2>1. ClosesWindow(q, q', s, Left(q, s, NULL)) /\ q.win[s].kind # "minibuf"
      BY Zenon, <1>1, <1>4, DeleteWell DEF do_delete_window
    <2> QED BY Zenon, <1>2, <2>1, CloseCalm
  <1>5. ASSUME do_delete_other_windows PROVE Calm(q')
    <2> DEFINE W == Others
               D == Dead(q, W)
    <2>1. Frees(q.buf, q'.buf, D, W) /\ Closes(q.win, q'.win, W) /\ q'.broken = q.broken
      BY Zenon, <1>1, <1>5, DeleteOthersWell DEF ClosesAll
    <2>2. q.win[s].kind = "normal"
      BY Zenon, <1>5 DEF do_delete_other_windows
    <2>3. Quiet(q) /\ Of(q, "popup") = {}
      BY SMTT(30), Z3T(30), <1>2, <2>2 DEF Of
    <2>4. \A v \in Of(q, "popup") \ W : q.win[v].target \notin W
      BY Zenon, <2>3
    <2> HIDE DEF D, W
    <2>5. Quiet(q')
      BY ZenonT(40), <2>1, <2>3, <2>4, GoneQuiet
    <2> QED BY Zenon, <2>5, QuietCalm
  <1>6. ASSUME NEW w \in Windows(q), do_other_window(w) PROVE Calm(q')
    <2>1. q'.buf = q.buf /\ q'.win = q.win /\ q'.broken = q.broken
      BY ZenonT(40), <1>1, <1>6, OtherWell DEF ActiveSet
    <2> QED BY Zenon, <1>1, <2>1 DEF Calm, PopupsAim, Aimed, Of, Windows, Buffers
  <1>7. ASSUME show_popup PROVE Calm(q')
    <2>1. PICK p, b : /\ Helped(p, b)
                      /\ Adds(p, q', FreshWindow(q), [b |-> b, kind |-> "popup", target |-> s])
                      /\ q'.active = FreshWindow(q)
      BY Zenon, <1>1, <1>7, PopupFacts
    <2> DEFINE y == [b |-> b, kind |-> "popup", target |-> s]
    <2>2. y.target = s /\ Adds(p, q', FreshWindow(q), y)
      BY <2>1
    <2> HIDE DEF y
    <2>3. p.win = q.win /\ Windows(p) = Windows(q)
      BY Zenon, <2>1 DEF Helped, Windows
    <2>4. q.win[s].kind # "minibuf"
      <3> SUFFICES ASSUME q.win[s].kind = "minibuf" PROVE FALSE
        OBVIOUS
      <3>1. /\ FreshWindow(q) \notin Windows(p) /\ Windows(q') = Windows(p) \cup {FreshWindow(q)}
            /\ q'.win[s] = p.win[s]
        BY ZenonT(40), <1>1, <2>2, <2>3 DEF Adds
      <3>2. s \in Windows(q') /\ q'.win[s].kind = "minibuf" /\ s # q'.active
        BY SMTT(30), Z3T(30), <1>1, <2>1, <2>3, <3>1
      <3>3. s \in Of(q', "minibuf")
        BY Zenon, <3>2 DEF Of
      <3>4. ~(Of(q', "minibuf") \subseteq {q'.active})
        BY Zenon, <3>2, <3>3
      <3> QED BY Zenon, <3>4 DEF Strays
    <2>5. Quiet(p)
      <3> DEFINE k == "help"
      <3>1. Quiet(q) /\ (p = q \/ Creates(q, p, b, Buffer(k)))
        BY ZenonT(40), <1>2, <2>1, <2>4 DEF Helped
      <3> HIDE DEF k
      <3>2. ASSUME Creates(q, p, b, Buffer(k)) PROVE Quiet(p)
        BY ZenonT(40), <3>1, <3>2, CreateQuiet
      <3> QED BY Zenon, <3>1, <3>2
    <2>6. Calm(p) /\ Aimed(p, s)
      BY ZenonT(40), <1>1, <2>3, <2>4, <2>5, QuietCalm DEF Aimed
    <2> QED BY Zenon, <2>2, <2>6, AddCalm
  <1>8. ASSUME do_popup_exit PROVE Calm(q')
    <2> DEFINE b == q.win[s].b
    <2>1. PICK n : Exits(n)
      BY ZenonT(40), <1>1, <1>8, ExitFacts
    <2>2. q.win[s].kind = "popup"
      BY Zenon, <1>8 DEF do_popup_exit
    <2>3. Quiet(q) /\ Of(q, "popup") \subseteq {s}
      BY Zenon, <1>2, <2>2
    <2>4. Put(q, n, b, n.buf[b]) /\ ClosesWindow(n, q', s, Left(n, s, NULL))
      BY Zenon, <2>1 DEF Exits
    <2>5. Steady(q.buf[b], n.buf[b])
      BY Zenon, <2>1 DEF Exits, Flags, Steady
    <2> HIDE DEF b
    <2>6. Quiet(n) /\ Of(n, "popup") = Of(q, "popup")
      <3>1. Marks(q, n, b) /\ Of(n, "popup") = Of(q, "popup")
        BY Zenon, <2>4, <2>5 DEF Marks, Put, Of, Windows
      <3> QED BY ZenonT(40), <2>3, <3>1, PutQuiet
    <2> QED BY ZenonT(40), <2>3, <2>4, <2>6, CloseCalm
  <1>9. ASSUME NEW modified \in BOOLEAN, Modify(modified) PROVE Calm(q')
    <2> DEFINE b == q.win[s].b
    <2>1. q.win[s].kind # "minibuf"
      BY <1>1, <1>9 DEF Modify, WellFormed, WindowOK
    <2>2. Put(q, q', b, q'.buf[b])
      BY Zenon, <1>1, <1>9, ModifyWell
    <2>3. Flags(q.buf[b], q'.buf[b], q.buf[b].transient, modified)
      BY ZenonT(40), <1>1, <1>9, ModifyWell
    <2> HIDE DEF b
    <2>4. Steady(q.buf[b], q'.buf[b])
      BY Zenon, <2>3 DEF Flags, Steady
    <2>5. Marks(q, q', b)
      BY ZenonT(40), <2>2, <2>4 DEF Marks
    <2>6. Quiet(q')
      BY ZenonT(40), <1>2, <2>1, <2>5, PutQuiet
    <2> QED BY ZenonT(40), <2>6, QuietCalm
  <1> QED BY ZenonT(40), <1>3, <1>4, <1>5, <1>6, <1>7, <1>8, <1>9

LEMMA NextCalm ==
    ASSUME Regular(q), Next, ~parse_arguments, ~Strays(q')
    PROVE  Calm(q')
  <1>1. WellFormed(q) /\ Calm(q) /\ ~Strays(q) /\ ~Fails
    BY Zenon, NotFails DEF Regular
  <1>2. ASSUME NEW name \in Prompts, exec_command(name) PROVE Calm(q')
    <2>1. name \in Callbacks
      BY DEF Callbacks
    <2>2. s \in Addr
      BY Zenon, <1>1, StateParts DEF WellFormed, s
    <2>3. q' = q \/ Opens(q, q', s, name, s)
      BY Zenon, <1>1, <1>2, ExecWell
    <2>4. ASSUME Opens(q, q', s, name, s) PROVE Calm(q')
      BY ZenonT(40), <1>1, <2>1, <2>2, <2>4, OpenCalm
    <2> QED BY Zenon, <1>1, <2>3, <2>4
  <1>3. ASSUME minibuffer_abort PROVE Calm(q')
    <2>1. Ended(q, q') /\ q.win[q.active].kind = "minibuf"
      BY ZenonT(40), <1>1, <1>3, AbortWell DEF s
    <2> QED BY ZenonT(40), <1>1, <2>1, EndedQuiet, QuietCalm
  <1>4. ASSUME answer_switch PROVE Calm(q')
    BY ZenonT(40), <1>1, <1>4, SwitchAnswered, AnsweredCalm
  <1>5. ASSUME answer_kill PROVE Calm(q')
    BY ZenonT(40), <1>1, <1>5, KillAnswered, AnsweredCalm
  <1>6. ASSUME NEW yes \in BOOLEAN, kill_buffer_confirm_cb(yes) PROVE Calm(q')
    BY ZenonT(40), <1>1, <1>6, ConfirmAnswered, AnsweredCalm
  <1>7. ASSUME NEW name \in {"find-file", "find-alternate-file"}, answer_find(name)
        PROVE  Calm(q')
    BY ZenonT(40), <1>1, <1>7, FindAnswered, AnsweredCalm
  <1> QED BY ZenonT(40), <1>2, <1>3, <1>4, <1>5, <1>6, <1>7, WindowsCalm DEF Next

FreshInv == Inv /\ (irregular \/ (Calm(q) /\ ~Strays(q) /\ ~Doomed(q)))

LEMMA InitFresh == Init => FreshInv
  <1> SUFFICES ASSUME Init PROVE FreshInv
    OBVIOUS
  <1> DEFINE y == Buffer("file")
             z == [b |-> 1, kind |-> "normal", target |-> NULL]
  <1>1. Inv
    BY Zenon, InitInv
  <1>2. q = [buf |-> [b \in {1} |-> y], win |-> [w \in {1} |-> z], active |-> 1,
             broken |-> FALSE]
    BY Zenon DEF Init
  <1>3. z.kind = "normal" /\ y.cb = "none" /\ ~y.stale /\ ~y.transient
    BY DEF Buffer
  <1> HIDE DEF y, z
  <1>4. q.buf = [b \in {1} |-> y] /\ q.win = [w \in {1} |-> z] /\ ~q.broken
    BY SMTT(30), Z3T(30), <1>2
  <1>5. /\ Buffers(q) = {1} /\ Windows(q) = {1} /\ q.win[1] = z /\ q.buf[1] = y
    BY SMTT(30), Z3T(30), <1>4 DEF Buffers, Windows
  <1>6. Of(q, "popup") = {} /\ Of(q, "minibuf") = {}
    BY Zenon, <1>3, <1>5 DEF Of
  <1>7. Calm(q)
    <2>1. PopupsAim(q)
      BY SMTT(30), Z3T(30), <1>6 DEF PopupsAim
    <2>2. \A b \in Buffers(q) : q.buf[b] = y
      BY SMTT(30), Z3T(30), <1>5
    <2> QED BY ZenonT(40), <1>3, <1>4, <2>1, <2>2 DEF Calm
  <1>8. ~Strays(q)
    BY Zenon, <1>6 DEF Strays
  <1>9. ~Doomed(q)
    BY Zenon, <1>3, <1>5 DEF Doomed, Named
  <1> QED BY ZenonT(40), <1>1, <1>7, <1>8, <1>9 DEF FreshInv

LEMMA NextFresh == FreshInv /\ [Next]_vars => FreshInv'
  <1> SUFFICES ASSUME FreshInv, [Next]_vars PROVE FreshInv'
    OBVIOUS
  <1>1. Inv'
    BY Zenon, NextInv DEF FreshInv
  <1>2. CASE Next
    <2>1. irregular' = (irregular \/ Strays(q') \/ Doomed(q') \/ parse_arguments)
      BY Zenon, <1>2, NextTracks DEF Track, parse_arguments
    <2>2. CASE irregular \/ Strays(q') \/ Doomed(q') \/ parse_arguments
      <3>1. irregular'
        BY Zenon, <2>1, <2>2
      <3> QED BY Zenon, <1>1, <3>1 DEF FreshInv
    <2>3. CASE ~irregular /\ ~Strays(q') /\ ~Doomed(q') /\ ~parse_arguments
      <3>1. Regular(q)
        BY Zenon, <2>3 DEF FreshInv, Inv, Regular
      <3>2. Calm(q')
        BY ZenonT(40), <1>2, <2>3, <3>1, NextCalm
      <3>3. Calm(q)' /\ ~Strays(q)' /\ ~Doomed(q)'
        BY ZenonT(40), <2>3, <3>2
      <3> QED BY Zenon, <1>1, <3>3 DEF FreshInv
    <2> QED BY Zenon, <2>2, <2>3
  <1>3. CASE UNCHANGED vars
    <2>1. q' = q /\ irregular' = irregular
      BY <1>3 DEF vars
    <2>2. (irregular \/ (Calm(q) /\ ~Strays(q) /\ ~Doomed(q)))'
      BY Zenon, <2>1 DEF FreshInv
    <2> QED BY ZenonT(40), <1>1, <2>2 DEF FreshInv
  <1> QED BY ZenonT(40), <1>2, <1>3

(* While every prompt and popup is ended before another window becomes     *)
(* active, no buffer with a name is transient, and no command that closes  *)
(* its own window is repeated by parse_arguments or takes 100 ms, a        *)
(* callback finds what it was opened for: nothing freed is used.           *)
THEOREM PromptsStayFresh == Spec => []PromptsFresh
  <1>1. FreshInv => PromptsFresh
    BY Zenon DEF FreshInv, Calm, PromptsFresh
  <1> QED BY <1>1, InitFresh, NextFresh, PTL DEF Spec
=============================================================================
