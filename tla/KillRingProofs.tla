--------------------------- MODULE KillRingProofs ---------------------------
(***************************************************************************)
(* The kill ring, of any size and with texts over any bytes: what yank-pop *)
(* deletes is what was yanked last, and point, mark and ring stay in shape.*)
(***************************************************************************)
EXTENDS KillRing, TextOpsProofs, WellFoundedInduction

(* The bytes that may occur, those of other programs included. *)
Chars == Byte \cup {Max(Byte)}

WindowRecord == [text : Seq(Chars), mark : Nat, offset : Nat,
                 region_style : BOOLEAN, readonly : BOOLEAN]
Window(e) ==
    e \in WindowRecord /\ e.mark <= Len(e.text) /\ e.offset <= Len(e.text)

Ring(r) == r \in [at : [Slot -> Seq(Chars) \cup {None}], cur : Slot]

CurrentOf(r) == IF r.at[r.cur] = None THEN <<>> ELSE r.at[r.cur]

(* The inductive invariant: TypeOK says nothing of the shape of win, which *)
(* the primitives of buffer.c rely on.                                     *)
IInv == TypeOK /\ win \in WindowRecord /\ YankedRegion

-----------------------------------------------------------------------------
(* The texts of the model are sequences. *)
LEMMA TextType == Text \subseteq Seq(Chars) /\ <<>> \in Seq(Chars)
  <1>1. ASSUME NEW n \in 0 .. MaxText, NEW t \in [1 .. n -> Byte]
        PROVE  t \in Seq(Chars)
    <2>1. n \in Nat
      OBVIOUS
    <2>2. \A i \in 1 .. n : t[i] \in Chars
      BY DEF Chars
    <2> QED BY <2>1, <2>2
  <1> QED BY <1>1 DEF Text

LEMMA InvFacts ==
    ASSUME IInv
    PROVE  Window(win) /\ Ring(ring)
  <1>1. Window(win)
    BY DEF IInv, TypeOK, WindowRecord, Window
  <1>2. Ring(ring)
    BY TextType DEF IInv, TypeOK, Ring, ring
  <1> QED BY <1>1, <1>2

LEMMA SlotFacts ==
    /\ NB_YANK_BUFFERS \in Nat \ {0}
    /\ \A i \in Slot : (i + 1) % NB_YANK_BUFFERS \in Slot
    /\ 0 \in Slot
  <1>1. NB_YANK_BUFFERS \in Nat \ {0}
    BY KillRingAssumption
  <1>2. \A i \in Slot : (i + 1) % NB_YANK_BUFFERS \in Slot
    BY <1>1 DEF Slot
  <1> QED BY <1>1, <1>2 DEF Slot

(* A set of places has a last one. *)
LEMMA LastPlace ==
    ASSUME NEW S, S \subseteq Slot, S # {}
    PROVE  Max(S) \in S /\ \A j \in S : Max(S) >= j
  <1> DEFINE n == NB_YANK_BUFFERS - 1
             T == {n - i : i \in S}
  <1>1. n \in Nat /\ \A i \in S : i \in Nat /\ i <= n
    BY SlotFacts DEF Slot
  <1>2. T \subseteq Nat /\ T # {}
    BY <1>1
  <1> HIDE DEF T, n
  <1>3. PICK x \in T : \A y \in T : ~(<<y, x>> \in OpToRel(<, Nat))
    BY <1>2, NatLessThanWellFounded, WFMin
  <1>4. \A y \in T : ~(y < x)
    BY Zenon, <1>2, <1>3 DEF OpToRel
  <1>5. PICK i \in S : x = n - i
    BY <1>3 DEF T
  <1>6. \A j \in S : i >= j
    <2> SUFFICES ASSUME NEW j \in S PROVE i >= j
      OBVIOUS
    <2>1. n - j \in T
      BY DEF T
    <2> QED BY <1>1, <1>4, <1>5, <2>1
  <1> QED BY <1>6 DEF Max

LEMMA PrevSlotType ==
    ASSUME NEW r, Ring(r)
    PROVE  PrevSlot(r) \in Slot
  <1>1. CASE r.cur > 0
    BY <1>1, SlotFacts DEF PrevSlot, Ring, Slot
  <1>2. CASE ~(r.cur > 0)
    <2> DEFINE S == {0} \cup {i \in Slot : r.at[i] # None}
    <2>1. S \subseteq Slot /\ S # {}
      BY SlotFacts
    <2> HIDE DEF S
    <2>2. Max(S) \in Slot
      BY <2>1, LastPlace
    <2> QED BY <1>2, <2>2 DEF PrevSlot, S
  <1> QED BY <1>1, <1>2

-----------------------------------------------------------------------------
(* What is needed of TextOps, for the bytes of this module. *)
LEMMA DeletedText ==
    ASSUME NEW t \in Seq(Chars), NEW o \in Nat, NEW n \in Nat, o + n <= Len(t)
    PROVE  DeleteBytes(t, o, n) \in Seq(Chars) /\ Len(DeleteBytes(t, o, n)) = Len(t) - n
  <1>1. DeleteBytes(t, o, n) \in Seq(Chars)
    BY DeleteType
  <1>2. Len(DeleteBytes(t, o, n)) = Len(t) - n
    BY DeleteLen
  <1> QED BY <1>1, <1>2

LEMMA InsertedText ==
    ASSUME NEW t \in Seq(Chars), NEW d \in Seq(Chars), NEW o \in Nat, o <= Len(t)
    PROVE  InsertBytes(t, o, d) \in Seq(Chars) /\ Len(InsertBytes(t, o, d)) = Len(t) + Len(d)
  <1>1. InsertBytes(t, o, d) \in Seq(Chars)
    BY InsertType
  <1>2. Len(InsertBytes(t, o, d)) = Len(t) + Len(d)
    BY InsertLen
  <1> QED BY <1>1, <1>2

(* eb_delete_range within the text keeps point and mark in it. *)
LEMMA DeleteWindow ==
    ASSUME NEW e, Window(e), NEW p1 \in 0 .. Len(e.text), NEW p2 \in 0 .. Len(e.text)
    PROVE  /\ Window(eb_delete_range(e, p1, p2))
           /\ ~e.readonly => MinOf(p1, p2) \in 0 .. Len(eb_delete_range(e, p1, p2).text)
  <1> DEFINE o == MinOf(p1, p2)
             n == Dist(p1, p2)
             Moved(p) == IF p <= o THEN p ELSE IF p < o + n THEN o ELSE p - n
             y == [e EXCEPT !.text = DeleteBytes(e.text, o, n), !.mark = Moved(e.mark),
                            !.offset = Moved(e.offset)]
  <1>1. /\ e \in WindowRecord /\ e.text \in Seq(Chars) /\ Len(e.text) \in Nat
        /\ e.mark \in Nat /\ e.offset \in Nat /\ e.mark <= Len(e.text) /\ e.offset <= Len(e.text)
    BY DEF Window, WindowRecord
  <1>2. o \in Nat /\ n \in Nat /\ o + n <= Len(e.text)
    BY <1>1 DEF MinOf, Dist
  <1>3. CASE e.readonly
    BY <1>3 DEF eb_delete_range
  <1>4. CASE ~e.readonly
    <2> DEFINE x == DeleteBytes(e.text, o, n)
    <2>1. x \in Seq(Chars) /\ Len(x) = Len(e.text) - n
      BY Zenon, <1>1, <1>2, DeletedText
    <2>2. eb_delete_range(e, p1, p2) = y
      BY <1>4 DEF eb_delete_range
    <2> HIDE DEF o, n, x
    <2>3. \A p \in Nat : p <= Len(e.text) => Moved(p) \in Nat /\ Moved(p) <= Len(x)
      BY <1>1, <1>2, <2>1
    <2>4. y.text = x /\ y.mark = Moved(e.mark) /\ y.offset = Moved(e.offset)
      BY <1>1 DEF WindowRecord, x
    <2>5. y \in WindowRecord
      BY Zenon, <1>1, <2>1, <2>3 DEF WindowRecord, x
    <2>6. Window(y)
      BY <1>1, <2>3, <2>4, <2>5 DEF Window
    <2>7. o \in 0 .. Len(y.text)
      BY <1>1, <1>2, <2>1, <2>4
    <2> QED BY <2>2, <2>6, <2>7 DEF o
  <1> QED BY <1>3, <1>4

LEMMA InsertWindow ==
    ASSUME NEW e, Window(e), NEW o \in 0 .. Len(e.text), NEW t \in Seq(Chars)
    PROVE  /\ Window(eb_insert(e, o, t))
           /\ eb_insert(e, o, t).text = InsertBytes(e.text, o, t)
           /\ e.mark <= o => eb_insert(e, o, t).mark = e.mark
  <1> DEFINE Moved(p) == IF p > o THEN p + Len(t) ELSE p
             x == InsertBytes(e.text, o, t)
             y == [e EXCEPT !.text = x, !.mark = Moved(e.mark), !.offset = Moved(e.offset)]
  <1>1. /\ e \in WindowRecord /\ e.text \in Seq(Chars) /\ Len(e.text) \in Nat
        /\ e.mark \in Nat /\ e.offset \in Nat /\ e.mark <= Len(e.text) /\ e.offset <= Len(e.text)
        /\ o \in Nat /\ o <= Len(e.text) /\ Len(t) \in Nat
    BY DEF Window, WindowRecord
  <1>2. x \in Seq(Chars) /\ Len(x) = Len(e.text) + Len(t)
    BY Zenon, <1>1, InsertedText
  <1>3. eb_insert(e, o, t) = y
    BY DEF eb_insert
  <1> HIDE DEF x
  <1>4. \A p \in Nat : p <= Len(e.text) => Moved(p) \in Nat /\ Moved(p) <= Len(x)
    BY <1>1, <1>2
  <1>5. y.text = x /\ y.mark = Moved(e.mark) /\ y.offset = Moved(e.offset)
    BY <1>1 DEF WindowRecord
  <1>6. y \in WindowRecord
    BY Zenon, <1>1, <1>2, <1>4 DEF WindowRecord
  <1>7. Window(y)
    BY <1>1, <1>4, <1>5, <1>6 DEF Window
  <1>8. e.mark <= o => y.mark = e.mark
    BY <1>1, <1>5
  <1> QED BY <1>3, <1>5, <1>7, <1>8 DEF x

(* Fields set to places in the text, and what this leaves as it is. *)
LEMMA SetOffset ==
    ASSUME NEW e, Window(e), NEW o \in 0 .. Len(e.text)
    PROVE  LET y == [e EXCEPT !.offset = o]
           IN  Window(y) /\ y.text = e.text /\ y.offset = o /\ y.mark = e.mark
  BY DEF Window, WindowRecord

LEMMA SetMark ==
    ASSUME NEW e, Window(e), NEW o \in 0 .. Len(e.text)
    PROVE  LET y == [e EXCEPT !.mark = o]
           IN  Window(y) /\ y.text = e.text /\ y.mark = o /\ y.offset = e.offset
  BY DEF Window, WindowRecord

LEMMA SetStyle ==
    ASSUME NEW e, Window(e), NEW s \in BOOLEAN
    PROVE  LET y == [e EXCEPT !.region_style = s]
           IN  Window(y) /\ y.text = e.text /\ y.mark = e.mark /\ y.offset = e.offset
  <1> DEFINE y == [e EXCEPT !.region_style = s]
  <1>1. e \in WindowRecord
    BY DEF Window
  <1>2. y.text = e.text /\ y.mark = e.mark /\ y.offset = e.offset
    BY <1>1 DEF WindowRecord
  <1>3. y \in WindowRecord
    BY <1>1 DEF WindowRecord
  <1> HIDE DEF y
  <1>4. Window(y)
    BY <1>2, <1>3 DEF Window
  <1> QED BY <1>2, <1>4 DEF y

LEMMA SelectionDeleted ==
    ASSUME NEW e, Window(e)
    PROVE  Window(do_delete_selection(e))
  <1>1. e.mark \in 0 .. Len(e.text) /\ e.offset \in 0 .. Len(e.text)
    BY DEF Window, WindowRecord
  <1>2. Window(IF e.region_style THEN eb_delete_range(e, e.mark, e.offset) ELSE e)
    BY <1>1, DeleteWindow
  <1> DEFINE d == IF e.region_style THEN eb_delete_range(e, e.mark, e.offset) ELSE e
  <1> HIDE DEF d
  <1>3. Window([d EXCEPT !.region_style = FALSE])
    BY Zenon, <1>2, SetStyle DEF d
  <1> QED BY <1>3 DEF d, do_delete_selection

LEMMA KilledWindow ==
    ASSUME NEW e, Window(e), NEW p1 \in 0 .. Len(e.text), NEW p2 \in 0 .. Len(e.text)
    PROVE  Window(Killed(e, p1, p2))
  <1>1. CASE e.readonly
    BY Zenon, <1>1, SetStyle DEF Killed
  <1>2. CASE ~e.readonly
    <2> DEFINE d == eb_delete_range(e, p1, p2)
    <2>1. Window(d) /\ MinOf(p1, p2) \in 0 .. Len(d.text)
      BY <1>2, DeleteWindow
    <2> HIDE DEF d
    <2> DEFINE c == [d EXCEPT !.region_style = FALSE]
    <2>2. Window(c) /\ MinOf(p1, p2) \in 0 .. Len(c.text)
      BY Zenon, <2>1, SetStyle
    <2>3. [d EXCEPT !.region_style = FALSE, !.offset = MinOf(p1, p2)]
            = [c EXCEPT !.offset = MinOf(p1, p2)]
      BY <2>1 DEF Window, WindowRecord
    <2> HIDE DEF c
    <2>4. Window([c EXCEPT !.offset = MinOf(p1, p2)])
      BY <2>2, SetOffset
    <2> QED BY <1>2, <2>3, <2>4 DEF d, Killed
  <1> QED BY <1>1, <1>2

-----------------------------------------------------------------------------
(* new_yank_buffer and do_kill keep a ring a ring. *)
LEMMA NewYankRing ==
    ASSUME NEW r, Ring(r), NEW t \in Seq(Chars)
    PROVE  Ring(new_yank_buffer(r, t))
  <1> DEFINE cur == IF r.at[r.cur] = None THEN r.cur ELSE (r.cur + 1) % NB_YANK_BUFFERS
  <1>1. cur \in Slot
    BY SlotFacts DEF Ring
  <1> HIDE DEF cur
  <1>2. [r.at EXCEPT ![cur] = t] \in [Slot -> Seq(Chars) \cup {None}]
    BY <1>1 DEF Ring
  <1> QED BY <1>1, <1>2 DEF Ring, new_yank_buffer, cur

LEMMA SavedRing ==
    ASSUME NEW r, Ring(r), NEW t \in Seq(Chars), NEW dir \in Int
    PROVE  Ring(Saved(r, t, dir))
  <1>1. CASE r.at[r.cur] = None \/ dir = 0 \/ last_cmd_func # "do_append_next_kill"
    BY <1>1, NewYankRing DEF Saved
  <1>2. CASE ~(r.at[r.cur] = None \/ dir = 0 \/ last_cmd_func # "do_append_next_kill")
    <2> DEFINE u == IF dir < 0 THEN t \o r.at[r.cur] ELSE r.at[r.cur] \o t
    <2>1. r.at[r.cur] \in Seq(Chars)
      BY <1>2 DEF Ring
    <2>2. u \in Seq(Chars)
      BY <2>1
    <2>3. Saved(r, t, dir) = [r EXCEPT !.at = [r.at EXCEPT ![r.cur] = u]]
      BY <1>2 DEF Saved, Ring
    <2> HIDE DEF u
    <2> QED BY Zenon, <2>2, <2>3 DEF Ring
  <1> QED BY <1>1, <1>2

LEMMA RegionText ==
    ASSUME NEW e, Window(e), NEW p1 \in 0 .. Len(e.text), NEW p2 \in 0 .. Len(e.text)
    PROVE  Region(e, p1, p2) \in Seq(Chars)
  <1>1. e.text \in Seq(Chars) /\ Len(e.text) \in Nat
    BY DEF Window, WindowRecord
  <1>2. MinOf(p1, p2) \in Nat /\ Dist(p1, p2) \in Nat /\ MinOf(p1, p2) + Dist(p1, p2) <= Len(e.text)
    BY <1>1 DEF MinOf, Dist
  <1> QED BY <1>1, <1>2, BytesType DEF Region

LEMMA Places ==
    ASSUME NEW e, Window(e)
    PROVE  e.mark \in 0 .. Len(e.text) /\ e.offset \in 0 .. Len(e.text)
  BY DEF Window, WindowRecord

LEMMA SelectionRing ==
    ASSUME IInv
    PROVE  Ring(save_selection)
  <1>1. Window(win) /\ Ring(ring)
    BY InvFacts
  <1>2. Region(win, win.mark, win.offset) \in Seq(Chars)
    BY <1>1, Places, RegionText
  <1> QED BY <1>1, <1>2, SavedRing DEF save_selection

LEMMA RequestRing ==
    ASSUME NEW r, Ring(r)
    PROVE  Ring(selection_request(r))
  <1>1. Foreign \in Seq(Chars)
    <2>1. Max(Byte) \in Chars
      BY DEF Chars
    <2> HIDE DEF Chars
    <2> QED BY <2>1 DEF Foreign
  <1> QED BY <1>1, NewYankRing DEF selection_request

LEMMA DeselectedWindow ==
    ASSUME IInv
    PROVE  /\ Window(Deselected) /\ Deselected.text = win.text
           /\ Deselected.mark = win.mark /\ Deselected.offset = win.offset
  BY Zenon, InvFacts, SetStyle DEF Deselected

-----------------------------------------------------------------------------
LEMMA ReadText ==
    ASSUME NEW t \in Seq(Chars), NEW o \in Nat, NEW n \in Nat, o + n <= Len(t)
    PROVE  Bytes(t, o, n) \in Seq(Chars) /\ Len(Bytes(t, o, n)) = n
  BY BytesType

LEMMA ReadAt ==
    ASSUME NEW t \in Seq(Chars), NEW o \in Nat, NEW n \in Nat, o + n <= Len(t), NEW i \in 1 .. n
    PROVE  Bytes(t, o, n)[i] = t[o + i]
  BY BytesType

(* eb_insert_buffer: what was inserted can be read where it was inserted. *)
LEMMA ReadInserted ==
    ASSUME NEW t \in Seq(Chars), NEW d \in Seq(Chars), NEW o \in Nat, o <= Len(t)
    PROVE  Bytes(InsertBytes(t, o, d), o, Len(d)) = d
  <1> DEFINE x == InsertBytes(t, o, d)
             y == Bytes(x, o, Len(d))
  <1>1. Len(t) \in Nat /\ Len(d) \in Nat
    OBVIOUS
  <1>2. x \in Seq(Chars) /\ Len(x) = Len(t) + Len(d)
    BY InsertedText
  <1>3. \A i \in 1 .. Len(t) + Len(d) :
          x[i] = IF i <= o THEN t[i] ELSE IF i <= o + Len(d) THEN d[i - o] ELSE t[i - Len(d)]
    BY InsertType
  <1> HIDE DEF x
  <1>4. o + Len(d) <= Len(x)
    BY <1>1, <1>2
  <1>5. y \in Seq(Chars) /\ Len(y) = Len(d)
    BY <1>1, <1>2, <1>4, ReadText
  <1>6. ASSUME NEW i \in 1 .. Len(d) PROVE y[i] = d[i]
    <2>1. y[i] = x[o + i]
      BY Zenon, <1>1, <1>2, <1>4, ReadAt
    <2>2. o + i \in 1 .. Len(t) + Len(d) /\ ~(o + i <= o) /\ o + i <= o + Len(d) /\ o + i - o = i
      BY <1>1
    <2>3. x[o + i] = d[o + i - o]
      BY <1>3, <2>2
    <2> QED BY <2>1, <2>2, <2>3
  <1> HIDE DEF y
  <1>7. y = d
    BY <1>5, <1>6
  <1> QED BY <1>7 DEF x, y

(* do_yank: the entry is between mark and point. *)
LEMMA YankedFacts ==
    ASSUME NEW e, Window(e), NEW r, Ring(r)
    PROVE  LET y == Yanked(e, r)
           IN  Window(y) /\ Bytes(y.text, y.mark, y.offset - y.mark) = CurrentOf(r)
  <1> DEFINE d == do_delete_selection(e)
             t == CurrentOf(r)
             m == [d EXCEPT !.mark = d.offset]
             i == eb_insert(m, d.offset, t)
             y == [i EXCEPT !.offset = d.offset + Len(t)]
  <1>1. t \in Seq(Chars) /\ Len(t) \in Nat
    BY TextType DEF CurrentOf, Ring
  <1>2. Window(d) /\ d.offset \in 0 .. Len(d.text) /\ d.text \in Seq(Chars)
    <2>1. Window(d)
      BY SelectionDeleted
    <2> HIDE DEF d
    <2> QED BY <2>1, Places DEF Window, WindowRecord
  <1>3. Yanked(e, r) = y
    BY DEF Yanked, CurrentOf
  <1> HIDE DEF d, t
  <1>4. Window(m) /\ m.text = d.text /\ m.mark = d.offset
    BY <1>2, SetMark
  <1> HIDE DEF m
  <1>5. Window(i) /\ i.text = InsertBytes(d.text, d.offset, t) /\ i.mark = d.offset
    BY <1>1, <1>2, <1>4, InsertWindow
  <1> HIDE DEF i
  <1>6. d.offset + Len(t) \in 0 .. Len(i.text)
    <2>1. d.offset \in Nat /\ d.offset <= Len(d.text)
      BY <1>2
    <2>2. Len(InsertBytes(d.text, d.offset, t)) = Len(d.text) + Len(t)
      BY Zenon, <1>1, <1>2, <2>1, InsertedText
    <2> QED BY <1>1, <1>2, <1>5, <2>1, <2>2
  <1>7. Window(y) /\ y.text = i.text /\ y.offset = d.offset + Len(t) /\ y.mark = i.mark
    BY <1>5, <1>6, SetOffset
  <1> HIDE DEF y
  <1>8. y.offset - y.mark = Len(t)
    BY <1>1, <1>2, <1>5, <1>7
  <1>9. Bytes(y.text, y.mark, y.offset - y.mark) = t
    BY SMTT(30), Z3T(30), <1>1, <1>2, <1>5, <1>7, <1>8, ReadInserted
  <1> QED BY <1>3, <1>7, <1>9 DEF t

-----------------------------------------------------------------------------
(* Window and ring after a step, within the bounds of the model. *)
LEMMA BecomesFacts ==
    ASSUME NEW e, NEW r, Window(e), Ring(r), Becomes(e, r)
    PROVE  /\ win' = e /\ yank_buffers' = r.at /\ yank_current' = r.cur
           /\ win' \in WindowRecord
           /\ win'.text \in Text /\ win'.readonly \in BOOLEAN /\ win'.region_style \in BOOLEAN
           /\ win'.mark \in 0 .. Len(win'.text) /\ win'.offset \in 0 .. Len(win'.text)
           /\ yank_buffers' \in [Slot -> Text \cup {None}]
           /\ yank_current' \in Slot
           /\ CurrentText' = CurrentOf(r)
  <1>1. /\ win' = e /\ yank_buffers' = r.at /\ yank_current' = r.cur
        /\ e.text \in Text /\ \A i \in Slot : r.at[i] \in Text \cup {None}
    BY Zenon DEF Becomes
  <1>2. e \in WindowRecord /\ e.readonly \in BOOLEAN /\ e.region_style \in BOOLEAN
    BY DEF Window, WindowRecord
  <1>3. e.mark \in 0 .. Len(e.text) /\ e.offset \in 0 .. Len(e.text)
    BY Places
  <1>4. r.at \in [Slot -> Text \cup {None}] /\ r.cur \in Slot
    BY <1>1 DEF Ring
  <1>5. CurrentText' = CurrentOf(r)
    BY <1>1 DEF CurrentText, CurrentOf
  <1> QED BY <1>1, <1>2, <1>3, <1>4, <1>5

(* A command other than yank and yank-pop. *)
LEMMA CommandStep ==
    ASSUME NEW e, NEW r, NEW f \in {"do_append_next_kill", "other"},
           Window(e), Ring(r), exec_command(e, r, f), owned' \in BOOLEAN
    PROVE  IInv'
  <1>1. Becomes(e, r) /\ last_cmd_func' = f /\ mouse' = "up" /\ disturbed' = FALSE
    BY DEF exec_command
  <1>2. YankedRegion'
    BY <1>1 DEF YankedRegion
  <1> QED BY Zenon, <1>1, <1>2, BecomesFacts DEF IInv, TypeOK

(* yank, and yank-pop after a yank. *)
LEMMA YankStep ==
    ASSUME NEW e, NEW r, Window(e), Ring(r),
           exec_command(Yanked(e, r), r, "do_yank"), owned' \in BOOLEAN
    PROVE  IInv'
  <1> DEFINE y == Yanked(e, r)
  <1>1. Becomes(y, r) /\ last_cmd_func' = "do_yank" /\ mouse' = "up" /\ disturbed' = FALSE
    BY DEF exec_command
  <1>2. Window(y) /\ Bytes(y.text, y.mark, y.offset - y.mark) = CurrentOf(r)
    BY YankedFacts
  <1> HIDE DEF y
  <1>3. YankedRegion'
    BY <1>1, <1>2, BecomesFacts DEF YankedRegion
  <1> QED BY Zenon, <1>1, <1>2, <1>3, BecomesFacts DEF IInv, TypeOK

(* What the mouse does. *)
LEMMA MouseStep ==
    ASSUME IInv, NEW e, NEW r, Window(e), Ring(r), Mouse(e, r),
           owned' \in BOOLEAN, mouse' \in {"up", "selecting"}
    PROVE  IInv'
  <1>1. Becomes(e, r) /\ disturbed' = (last_cmd_func = "do_yank") /\ last_cmd_func' = last_cmd_func
    BY DEF Mouse
  <1>2. YankedRegion'
    BY Zenon, <1>1 DEF YankedRegion
  <1>3. last_cmd_func' \in {"do_append_next_kill", "do_yank", "other"} /\ disturbed' \in BOOLEAN
    BY <1>1 DEF IInv, TypeOK
  <1> QED BY <1>1, <1>2, <1>3, BecomesFacts DEF IInv, TypeOK

-----------------------------------------------------------------------------
LEMMA InitIInv == Init => IInv
  <1> SUFFICES ASSUME Init PROVE IInv
    OBVIOUS
  <1>1. win.text \in Text /\ win.mark = 0 /\ win.offset = 0 /\ win.region_style = FALSE
        /\ win.readonly \in BOOLEAN /\ win \in [text : Text, mark : {0}, offset : {0},
                                                region_style : {FALSE}, readonly : BOOLEAN]
    BY Zenon DEF Init
  <1>2. win \in WindowRecord
    <2>1. win.text \in Seq(Chars)
      BY <1>1, TextType
    <2>2. win = [text |-> win.text, mark |-> 0, offset |-> 0, region_style |-> FALSE,
                 readonly |-> win.readonly]
      BY <1>1
    <2>3. \A t \in Seq(Chars), b \in BOOLEAN :
            [text |-> t, mark |-> 0, offset |-> 0, region_style |-> FALSE, readonly |-> b]
              \in WindowRecord
      BY DEF WindowRecord
    <2> QED BY <1>1, <2>1, <2>2, <2>3
  <1>3. Len(win.text) \in Nat
    BY <1>2 DEF WindowRecord
  <1>4. yank_buffers \in [Slot -> Text \cup {None}] /\ yank_current \in Slot
    BY SlotFacts DEF Init
  <1>5. TypeOK
    BY <1>1, <1>3, <1>4 DEF Init, TypeOK
  <1> QED BY <1>2, <1>5 DEF Init, IInv, YankedRegion

(* The commands that kill or copy. *)
LEMMA KillIInv ==
    ASSUME IInv, do_kill_region \/ do_kill_to \/ do_copy_region \/ do_append_next_kill
    PROVE  IInv'
  <1>1. Window(win) /\ win.mark \in 0 .. Len(win.text) /\ win.offset \in 0 .. Len(win.text)
    BY InvFacts, Places
  <1>2. Ring(save_selection)
    BY SelectionRing
  <1>3. \A p1, p2 \in 0 .. Len(win.text), dir \in Int :
          Ring(Saved(save_selection, Region(win, p1, p2), dir))
    BY <1>1, <1>2, RegionText, SavedRing
  <1>4. CASE do_kill_region
    <2>1. Window(Killed(win, win.mark, win.offset))
      BY <1>1, KilledWindow
    <2>2. Ring(Saved(save_selection, Region(win, win.mark, win.offset), 1))
      BY <1>1, <1>3
    <2> QED BY <1>4, <2>1, <2>2, CommandStep DEF do_kill_region
  <1>5. CASE do_kill_to
    <2> DEFINE e(p) == [win EXCEPT !.offset = p]
    <2>1. PICK p \in 0 .. Len(win.text), dir \in {1, -1} :
            /\ exec_command(Killed(e(p), win.offset, p),
                            Saved(save_selection, Region(win, win.offset, p), dir),
                            "do_append_next_kill")
            /\ owned' = TRUE
      BY <1>5 DEF do_kill_to
    <2>2. Window(e(p)) /\ e(p).text = win.text
      BY <1>1, SetOffset
    <2> HIDE DEF e
    <2>3. Window(Killed(e(p), win.offset, p))
      BY <1>1, <2>2, KilledWindow
    <2>4. Ring(Saved(save_selection, Region(win, win.offset, p), dir))
      BY <1>1, <1>3
    <2> QED BY <2>1, <2>3, <2>4, CommandStep
  <1>6. CASE do_copy_region
    <2>1. Window([win EXCEPT !.region_style = FALSE])
      BY Zenon, <1>1, SetStyle
    <2>2. Ring(Saved(save_selection, Region(win, win.mark, win.offset), 0))
      BY <1>1, <1>3
    <2> QED BY <1>6, <2>1, <2>2, CommandStep DEF do_copy_region
  <1>7. CASE do_append_next_kill
    BY <1>2, <1>7, DeselectedWindow, CommandStep DEF do_append_next_kill, Owning
  <1> QED BY <1>4, <1>5, <1>6, <1>7

(* yank and yank-pop. *)
LEMMA YankIInv ==
    ASSUME IInv, do_yank \/ do_yank_pop
    PROVE  IInv'
  <1>1. Window(Deselected) /\ Ring(save_selection)
    BY DeselectedWindow, SelectionRing
  <1>2. owned' \in BOOLEAN
    BY Zenon DEF do_yank, do_yank_pop, Owning
  <1>3. CASE do_yank
    <2> DEFINE r == selection_request(save_selection)
    <2>1. Ring(r)
      BY <1>1, RequestRing
    <2>2. exec_command(Yanked(Deselected, r), r, "do_yank")
      BY <1>3 DEF do_yank
    <2> HIDE DEF r
    <2> QED BY <1>1, <1>2, <2>1, <2>2, YankStep
  <1>4. CASE do_yank_pop /\ last_cmd_func # "do_yank"
    <2>1. exec_command(Deselected, save_selection, "other")
      BY <1>4 DEF do_yank_pop
    <2> QED BY <1>1, <1>2, <2>1, CommandStep
  <1>5. CASE do_yank_pop /\ last_cmd_func = "do_yank"
    <2> DEFINE e == eb_delete_range(Deselected, win.mark, win.offset)
               q == [save_selection EXCEPT !.cur = PrevSlot(save_selection)]
               r == selection_request(q)
    <2>1. Window(e)
      BY <1>1, DeselectedWindow, Places, DeleteWindow
    <2>2. Ring(q)
      BY <1>1, PrevSlotType DEF Ring
    <2>3. exec_command(Yanked(e, r), r, "do_yank")
      BY <1>5 DEF do_yank_pop
    <2> HIDE DEF e, q
    <2>4. Ring(r)
      BY <2>2, RequestRing
    <2> HIDE DEF r
    <2> QED BY <1>2, <2>1, <2>3, <2>4, YankStep
  <1> QED BY <1>3, <1>4, <1>5

(* The other commands. *)
LEMMA CommandIInv ==
    ASSUME IInv, do_char \/ do_move \/ do_set_mark \/ do_kill_buffer
    PROVE  IInv'
  <1>1. Window(win) /\ win.offset \in 0 .. Len(win.text)
    BY InvFacts, Places
  <1>2. Window(Deselected) /\ Deselected.text = win.text /\ Ring(save_selection)
    BY DeselectedWindow, SelectionRing
  <1>3. CASE do_char
    <2> DEFINE e == do_delete_selection(Deselected)
    <2>1. PICK c \in Byte :
            /\ exec_command([eb_insert(e, e.offset, <<c>>) EXCEPT !.offset = e.offset + 1],
                            save_selection, "other")
            /\ Owning
      BY <1>3 DEF do_char
    <2>2. Window(e) /\ e.offset \in 0 .. Len(e.text) /\ e.text \in Seq(Chars)
      <3>1. Window(e)
        BY <1>2, SelectionDeleted
      <3> HIDE DEF e
      <3> QED BY <3>1, Places DEF Window, WindowRecord
    <2>3. <<c>> \in Seq(Chars) /\ Len(<<c>>) = 1
      BY DEF Chars
    <2> HIDE DEF e
    <2> DEFINE t == <<c>>
               i == eb_insert(e, e.offset, t)
    <2> HIDE DEF t
    <2>4. Window(i) /\ i.text = InsertBytes(e.text, e.offset, t)
      BY Zenon, <2>2, <2>3, InsertWindow DEF t
    <2>5. e.offset + 1 \in 0 .. Len(i.text)
      <3>1. e.offset \in Nat /\ e.offset <= Len(e.text) /\ Len(e.text) \in Nat
        BY <2>2
      <3>2. Len(InsertBytes(e.text, e.offset, t)) = Len(e.text) + Len(t)
        BY Zenon, <2>2, <2>3, <3>1, InsertedText DEF t
      <3> QED BY <2>3, <2>4, <3>1, <3>2 DEF t
    <2> HIDE DEF i
    <2>6. Window([i EXCEPT !.offset = e.offset + 1])
      BY <2>4, <2>5, SetOffset
    <2>7. owned' \in BOOLEAN
      BY <2>1 DEF Owning
    <2> QED BY <1>2, <2>1, <2>6, <2>7, CommandStep DEF i, t
  <1>4. CASE do_move
    <2>1. PICK o \in 0 .. Len(win.text) :
            exec_command([Deselected EXCEPT !.offset = o], save_selection, "other") /\ Owning
      BY <1>4 DEF do_move
    <2>2. Window([Deselected EXCEPT !.offset = o])
      BY <1>2, SetOffset
    <2> QED BY <1>2, <2>1, <2>2, CommandStep DEF Owning
  <1>5. CASE do_set_mark
    <2> DEFINE m == [win EXCEPT !.mark = win.offset]
    <2>1. Window(m)
      BY <1>1, SetMark
    <2>2. [win EXCEPT !.mark = win.offset, !.region_style = TRUE] = [m EXCEPT !.region_style = TRUE]
      BY <1>1 DEF Window, WindowRecord
    <2> HIDE DEF m
    <2>3. Window([m EXCEPT !.region_style = TRUE])
      BY Zenon, <2>1, SetStyle
    <2> QED BY <1>2, <1>5, <2>2, <2>3, CommandStep DEF do_set_mark, Owning
  <1>6. CASE do_kill_buffer
    <2>1. PICK i \in Slot :
            exec_command(Deselected, [save_selection EXCEPT !.at[i] = None], "other") /\ Owning
      BY Zenon, <1>6 DEF do_kill_buffer
    <2>2. Ring([save_selection EXCEPT !.at[i] = None])
      BY <1>2 DEF Ring
    <2> QED BY <1>2, <2>1, <2>2, CommandStep DEF Owning
  <1> QED BY <1>3, <1>4, <1>5, <1>6

(* The mouse. *)
LEMMA MouseIInv ==
    ASSUME IInv, mouse_left \/ mouse_middle \/ mouse_motion \/ mouse_release
    PROVE  IInv'
  <1>1. Window(win) /\ win.offset \in 0 .. Len(win.text) /\ win.mark \in 0 .. Len(win.text)
    BY InvFacts, Places
  <1>2. Window(Deselected) /\ Deselected.text = win.text /\ Ring(save_selection)
    BY DeselectedWindow, SelectionRing
  <1>3. CASE mouse_left
    <2>1. PICK o \in 0 .. Len(win.text) :
            Mouse([Deselected EXCEPT !.offset = o], save_selection) /\ Owning /\ mouse' = "up"
      BY <1>3 DEF mouse_left
    <2>2. Window([Deselected EXCEPT !.offset = o])
      BY <1>2, SetOffset
    <2> QED BY <1>2, <2>1, <2>2, MouseStep DEF Owning
  <1>4. CASE mouse_middle
    <2> DEFINE e(o) == [Deselected EXCEPT !.offset = o]
               r == selection_request(save_selection)
    <2>1. PICK o \in 0 .. Len(win.text) :
            /\ Mouse(e(o), save_selection) \/ Mouse(Yanked(e(o), r), r)
            /\ Owning /\ mouse' = "up"
      BY <1>4 DEF mouse_middle
    <2>2. Window(e(o)) /\ Ring(r)
      BY <1>2, SetOffset, RequestRing
    <2> HIDE DEF e, r
    <2>3. Window(Yanked(e(o), r))
      BY <2>2, YankedFacts
    <2>4. owned' \in BOOLEAN
      BY <2>1 DEF Owning
    <2> QED BY <1>2, <2>1, <2>2, <2>3, <2>4, MouseStep
  <1>5. CASE mouse_motion
    <2> DEFINE m == IF mouse = "selecting" THEN win.mark ELSE win.offset
               d == [win EXCEPT !.mark = m]
    <2>1. PICK o \in 0 .. Len(win.text) :
            Mouse([win EXCEPT !.offset = o, !.mark = m], ring) /\ mouse' = "selecting"
            /\ owned' = owned
      BY <1>5 DEF mouse_motion
    <2>2. Window(d) /\ d.text = win.text
      BY <1>1, SetMark
    <2>3. [win EXCEPT !.offset = o, !.mark = m] = [d EXCEPT !.offset = o]
      BY Zenon, <1>1 DEF Window, WindowRecord
    <2> HIDE DEF d, m
    <2>4. Window([d EXCEPT !.offset = o])
      BY <2>2, SetOffset
    <2>5. owned' \in BOOLEAN /\ Ring(ring)
      BY <2>1, InvFacts DEF IInv, TypeOK
    <2>6. Mouse([d EXCEPT !.offset = o], ring)
      BY Zenon, <2>1, <2>3
    <2>7. mouse' \in {"up", "selecting"}
      BY <2>1
    <2> DEFINE w == [d EXCEPT !.offset = o]
    <2>8. Window(w) /\ Mouse(w, ring)
      BY Zenon, <2>4, <2>6
    <2> HIDE DEF w
    <2> QED BY ZenonT(40), <2>5, <2>7, <2>8, MouseStep
  <1>6. CASE mouse_release
    BY <1>2, <1>6, MouseStep DEF mouse_release, Owning
  <1> QED BY <1>3, <1>4, <1>5, <1>6

LEMMA NextIInv == IInv /\ [Next]_vars => IInv'
  <1> SUFFICES ASSUME IInv, [Next]_vars PROVE IInv'
    OBVIOUS
  <1>1. CASE SelectionClear
    BY Zenon, <1>1 DEF SelectionClear, IInv, TypeOK, YankedRegion, CurrentText
  <1>2. CASE UNCHANGED vars
    BY <1>2 DEF vars, IInv, TypeOK, YankedRegion, CurrentText
  <1> QED BY <1>1, <1>2, KillIInv, YankIInv, CommandIInv, MouseIInv DEF Next

LEMMA Invariance == Spec => []IInv
  BY InitIInv, NextIInv, PTL DEF Spec

-----------------------------------------------------------------------------
(* do_yank_pop: for a ring and texts of any size, what yank-pop            *)
(* deletes, the text between mark and point, is the entry yanked last,     *)
(* whatever was killed, copied, selected or read from another program's    *)
(* selection before, unless the mouse came in between.                     *)
THEOREM YankPopDeletesYanked == Spec => []YankedRegion
  <1>1. IInv => YankedRegion
    BY DEF IInv
  <1> QED BY <1>1, Invariance, PTL

(* do_kill, do_yank, do_yank_pop, qe_mouse_event: point and mark stay in   *)
(* the text, and yank_current is a place of the ring, also when yank-pop   *)
(* goes from the first place to the last one in use.                       *)
THEOREM RingTyped == Spec => []TypeOK
  <1>1. IInv => TypeOK
    BY DEF IInv
  <1> QED BY <1>1, Invariance, PTL

-----------------------------------------------------------------------------
(* A text, here as the part of a longer one that a kill appends to it. *)
LEMMA ReadFront ==
    ASSUME NEW t \in Seq(Chars), NEW d \in Seq(Chars)
    PROVE  Bytes(t \o d, 0, Len(t)) = t
  <1> DEFINE x == t \o d
             y == Bytes(x, 0, Len(t))
  <1>1. x \in Seq(Chars) /\ Len(x) = Len(t) + Len(d) /\ Len(t) \in Nat /\ Len(d) \in Nat
    OBVIOUS
  <1>2. \A i \in 1 .. Len(t) : x[i] = t[i]
    OBVIOUS
  <1> HIDE DEF x
  <1>3. 0 + Len(t) <= Len(x)
    BY <1>1
  <1>4. y \in Seq(Chars) /\ Len(y) = Len(t)
    BY <1>1, <1>3, ReadText
  <1>5. \A i \in 1 .. Len(t) : y[i] = x[0 + i]
    BY <1>1, <1>3, ReadAt
  <1> HIDE DEF y
  <1>6. \A i \in 1 .. Len(t) : y[i] = t[i]
    BY <1>1, <1>2, <1>5
  <1>7. y = t
    BY <1>4, <1>6
  <1> QED BY <1>7 DEF x, y

LEMMA ReadBack ==
    ASSUME NEW t \in Seq(Chars), NEW d \in Seq(Chars)
    PROVE  Bytes(d \o t, Len(d \o t) - Len(t), Len(t)) = t
  <1> DEFINE x == d \o t
             y == Bytes(x, Len(d), Len(t))
  <1>1. x \in Seq(Chars) /\ Len(x) = Len(t) + Len(d) /\ Len(t) \in Nat /\ Len(d) \in Nat
    OBVIOUS
  <1>2. \A i \in 1 .. Len(t) : x[Len(d) + i] = t[i]
    OBVIOUS
  <1> HIDE DEF x
  <1>3. Len(d) + Len(t) <= Len(x) /\ Len(x) - Len(t) = Len(d)
    BY <1>1
  <1>4. y \in Seq(Chars) /\ Len(y) = Len(t)
    BY <1>1, <1>3, ReadText
  <1>5. \A i \in 1 .. Len(t) : y[i] = x[Len(d) + i]
    BY Zenon, <1>1, <1>3, ReadAt
  <1> HIDE DEF y
  <1>6. \A i \in 1 .. Len(t) : y[i] = t[i]
    BY <1>2, <1>5
  <1>7. y = t
    BY <1>4, <1>6
  <1> QED BY <1>3, <1>7 DEF x, y

(* The entry c has the text t at one of its ends. *)
Keeps(c, t) ==
    Len(t) <= Len(c) /\ t \in {Bytes(c, 0, Len(t)), Bytes(c, Len(c) - Len(t), Len(t))}

LEMMA NoText == \A t \in Seq(Chars) : t # None
  BY KillRingAssumption DEF Chars

(* new_yank_buffer: the new entry is the current one. *)
LEMMA NewYankCurrent ==
    ASSUME NEW r, Ring(r), NEW t \in Seq(Chars)
    PROVE  CurrentOf(new_yank_buffer(r, t)) = t
  <1> DEFINE cur == IF r.at[r.cur] = None THEN r.cur ELSE (r.cur + 1) % NB_YANK_BUFFERS
  <1>1. cur \in Slot /\ t # None
    BY SlotFacts, NoText DEF Ring
  <1>2. new_yank_buffer(r, t) = [at |-> [r.at EXCEPT ![cur] = t], cur |-> cur]
    BY DEF new_yank_buffer
  <1> HIDE DEF cur
  <1>3. [r.at EXCEPT ![cur] = t][cur] = t
    BY <1>1 DEF Ring
  <1> QED BY <1>1, <1>2, <1>3 DEF CurrentOf

(* do_kill: the text killed is in the current entry, at one of its ends. *)
LEMMA SavedKeeps ==
    ASSUME NEW r, Ring(r), NEW t \in Seq(Chars), NEW dir \in Int
    PROVE  Keeps(CurrentOf(Saved(r, t, dir)), t)
  <1>1. CASE r.at[r.cur] = None \/ dir = 0 \/ last_cmd_func # "do_append_next_kill"
    <2>1. CurrentOf(Saved(r, t, dir)) = t
      BY <1>1, NewYankCurrent DEF Saved
    <2>2. Bytes(t, 0, Len(t)) = t
      <3>1. <<>> \in Seq(Chars) /\ t \o <<>> = t
        OBVIOUS
      <3> QED BY Zenon, <3>1, ReadFront
    <2>3. Len(t) \in Nat
      OBVIOUS
    <2> QED BY <2>1, <2>2, <2>3 DEF Keeps
  <1>2. CASE ~(r.at[r.cur] = None \/ dir = 0 \/ last_cmd_func # "do_append_next_kill")
    <2> DEFINE d == r.at[r.cur]
               u == IF dir < 0 THEN t \o d ELSE d \o t
    <2>1. d \in Seq(Chars)
      BY <1>2 DEF Ring
    <2>2. Saved(r, t, dir) = [r EXCEPT !.at = [r.at EXCEPT ![r.cur] = u]]
      BY <1>2 DEF Saved, Ring
    <2> HIDE DEF d
    <2>3. u \in Seq(Chars) /\ Len(t) <= Len(u)
      BY <2>1
    <2>4. Keeps(u, t)
      <3>1. CASE dir < 0
        BY <2>1, <2>3, <3>1, ReadFront DEF Keeps
      <3>2. CASE ~(dir < 0)
        BY <2>1, <2>3, <3>2, ReadBack DEF Keeps
      <3> QED BY <3>1, <3>2
    <2>5. u # None
      BY Zenon, <2>3, NoText
    <2> HIDE DEF u
    <2>6. CurrentOf(Saved(r, t, dir)) = u
      BY <2>2, <2>5 DEF CurrentOf, Ring
    <2> QED BY <2>4, <2>6
  <1> QED BY <1>1, <1>2

LEMMA DeletedWindowText ==
    ASSUME NEW e, Window(e), ~e.readonly, NEW p1, NEW p2
    PROVE  eb_delete_range(e, p1, p2).text = DeleteBytes(e.text, MinOf(p1, p2), Dist(p1, p2))
  BY DEF eb_delete_range, Window, WindowRecord

LEMMA KilledText ==
    ASSUME NEW e, Window(e), NEW p1 \in 0 .. Len(e.text), NEW p2 \in 0 .. Len(e.text)
    PROVE  Killed(e, p1, p2).text \in
              {e.text, DeleteBytes(e.text, MinOf(p1, p2), Dist(p1, p2))}
  <1>1. CASE e.readonly
    BY <1>1, SetStyle DEF Killed
  <1>2. CASE ~e.readonly
    <2> DEFINE d == eb_delete_range(e, p1, p2)
    <2>1. Window(d) /\ d.text = DeleteBytes(e.text, MinOf(p1, p2), Dist(p1, p2))
      BY <1>2, DeleteWindow, DeletedWindowText
    <2> HIDE DEF d
    <2>2. [d EXCEPT !.region_style = FALSE, !.offset = MinOf(p1, p2)].text = d.text
      BY <2>1 DEF Window, WindowRecord
    <2> QED BY <1>2, <2>1, <2>2 DEF d, Killed
  <1> QED BY <1>1, <1>2

(* What KillKeepsText says of a step. *)
KillKept ==
    (last_cmd_func' = "do_append_next_kill" /\ win'.text # win.text /\ ~(mouse_middle)) =>
       \E o, n \in 0..MaxText :
          /\ o + n <= Len(win.text)
          /\ win'.text = DeleteBytes(win.text, o, n)
          /\ LET e == CurrentText'
             IN n <= Len(e) /\ Bytes(win.text, o, n) \in
                                  {Bytes(e, 0, n), Bytes(e, Len(e) - n, n)}

LEMMA TextLength ==
    ASSUME NEW t \in Text
    PROVE  Len(t) \in 0 .. MaxText
  <1>1. PICK n \in 0 .. MaxText : t \in [1 .. n -> Byte]
    BY DEF Text
  <1>2. Len(t) = n
    BY <1>1
  <1> QED BY <1>2

(* do_kill, for both commands that use it. *)
LEMMA KillKeepsStep ==
    ASSUME IInv, NEW e, Window(e), e.text = win.text, NEW dir \in Int, NEW f,
           NEW p1 \in 0 .. Len(win.text), NEW p2 \in 0 .. Len(win.text),
           exec_command(Killed(e, p1, p2), Saved(save_selection, Region(win, p1, p2), dir), f)
    PROVE  KillKept
  <1> DEFINE o == MinOf(p1, p2)
             n == Dist(p1, p2)
             t == Region(win, p1, p2)
             r == Saved(save_selection, t, dir)
             k == Killed(e, p1, p2)
  <1>1. Window(win) /\ Ring(save_selection)
    BY InvFacts, SelectionRing
  <1>2. win.text \in Seq(Chars) /\ Len(win.text) \in 0 .. MaxText /\ MaxText \in Nat
    <2>1. win.text \in Text
      BY DEF IInv, TypeOK
    <2> QED BY Zenon, <2>1, TextType, TextLength, KillRingAssumption
  <1>3. o \in 0 .. MaxText /\ n \in 0 .. MaxText /\ o + n <= Len(win.text)
    BY <1>2 DEF MinOf, Dist
  <1>4. t \in Seq(Chars) /\ t = Bytes(win.text, o, n)
    BY <1>1, RegionText DEF Region
  <1>5. Len(t) = n
    BY SMTT(30), Z3T(30), <1>2, <1>3, <1>4, ReadText
  <1>6. Window(k) /\ k.text \in {win.text, DeleteBytes(win.text, o, n)}
    BY KilledWindow, KilledText
  <1>7. Becomes(k, r)
    BY DEF exec_command
  <1> HIDE DEF o, n, t, k
  <1>8. Ring(r) /\ Keeps(CurrentOf(r), t)
    BY Zenon, <1>1, <1>4, SavedRing, SavedKeeps
  <1> HIDE DEF r
  <1>9. win' = k /\ CurrentText' = CurrentOf(r)
    BY Zenon, <1>6, <1>7, <1>8, BecomesFacts
  <1>10. Keeps(CurrentText', t)
    BY <1>8, <1>9
  <1>11. /\ n <= Len(CurrentText')
         /\ Bytes(win.text, o, n) \in
              {Bytes(CurrentText', 0, n), Bytes(CurrentText', Len(CurrentText') - n, n)}
    BY SMTT(30), Z3T(30), <1>4, <1>5, <1>10 DEF Keeps
  <1>12. CASE k.text = win.text
    BY SMTT(30), Z3T(30), <1>9, <1>12 DEF KillKept
  <1>13. CASE k.text = DeleteBytes(win.text, o, n)
    BY <1>3, <1>9, <1>11, <1>13 DEF KillKept
  <1> QED BY <1>6, <1>12, <1>13

LEMMA NextKillKept == IInv /\ Next => KillKept
  <1> SUFFICES ASSUME IInv, Next PROVE KillKept
    OBVIOUS
  <1>1. Window(win) /\ win.mark \in 0 .. Len(win.text) /\ win.offset \in 0 .. Len(win.text)
    BY InvFacts, Places
  <1>2. Window(Deselected) /\ Deselected.text = win.text
    BY DeselectedWindow
  <1>3. CASE do_kill_region
    BY <1>1, <1>3, KillKeepsStep DEF do_kill_region
  <1>4. CASE do_kill_to
    <2> DEFINE e(p) == [win EXCEPT !.offset = p]
    <2>1. PICK p \in 0 .. Len(win.text), dir \in {1, -1} :
            exec_command(Killed(e(p), win.offset, p),
                         Saved(save_selection, Region(win, win.offset, p), dir),
                         "do_append_next_kill")
      BY <1>4 DEF do_kill_to
    <2>2. Window(e(p)) /\ e(p).text = win.text
      BY <1>1, SetOffset
    <2> HIDE DEF e
    <2> QED BY <1>1, <2>1, <2>2, KillKeepsStep
  <1>5. CASE do_copy_region \/ do_yank \/ do_yank_pop \/ do_char \/ do_move \/ do_set_mark
             \/ do_kill_buffer
    <2>1. last_cmd_func' # "do_append_next_kill"
      BY Zenon, <1>5 DEF do_copy_region, do_yank, do_yank_pop, do_char, do_move, do_set_mark,
                  do_kill_buffer, exec_command
    <2> QED BY <2>1 DEF KillKept
  <1>6. CASE do_append_next_kill \/ mouse_release
    <2>1. win' = Deselected
      BY <1>6 DEF do_append_next_kill, exec_command, mouse_release, Mouse, Becomes
    <2> QED BY <1>2, <2>1 DEF KillKept
  <1>7. CASE mouse_left
    <2>1. PICK o \in 0 .. Len(win.text) : win' = [Deselected EXCEPT !.offset = o]
      BY <1>7 DEF mouse_left, Mouse, Becomes
    <2> QED BY <1>2, <2>1, SetOffset DEF KillKept
  <1>8. CASE mouse_middle
    BY <1>8 DEF KillKept
  <1>9. CASE mouse_motion
    <2> DEFINE m == IF mouse = "selecting" THEN win.mark ELSE win.offset
    <2>1. PICK o \in 0 .. Len(win.text) : win' = [win EXCEPT !.offset = o, !.mark = m]
      BY <1>9 DEF mouse_motion, Mouse, Becomes
    <2> HIDE DEF m
    <2>2. win'.text = win.text
      BY <1>1, <2>1 DEF Window, WindowRecord
    <2> QED BY <2>2 DEF KillKept
  <1>10. CASE SelectionClear
    BY <1>10 DEF SelectionClear, KillKept
  <1> QED BY SMTT(30), Z3T(30), <1>3, <1>4, <1>5, <1>6, <1>7, <1>8, <1>9, <1>10 DEF Next

(* do_kill, do_append_next_kill: for a ring and texts of any size, a text  *)
(* that leaves the buffer by a kill is in the entry that yank inserts      *)
(* next, whole, and at the end where it was in the buffer; also when a     *)
(* selection made with the mouse was copied first.                         *)
THEOREM KilledTextKept == Spec => KillKeepsText
  <1>1. IInv /\ [Next]_vars => [KillKept]_vars
    BY NextKillKept
  <1>2. Spec => [][KillKept]_vars
    BY <1>1, Invariance, PTL DEF Spec
  <1> QED BY <1>2 DEF KillKeepsText, KillKept

-----------------------------------------------------------------------------
(* The ring as a KillHistory: read from the current place backwards. *)
Entry == Seq(Chars) \cup {None}
Hist(r) == [i \in 1..NB_YANK_BUFFERS |-> r.at[(r.cur + 1 - i) % NB_YANK_BUFFERS]]
Entries == [i \in 1..NB_YANK_BUFFERS |-> yank_buffers[Place(i)]]

(* The place i places back from c. *)
Back(c, i) == IF i <= c + 1 THEN c + 1 - i ELSE c + 1 - i + NB_YANK_BUFFERS

LEMMA SmallMod ==
    ASSUME NEW n \in Nat \ {0}, NEW x \in Int, 0 <= x, x < n
    PROVE  x % n = x
  BY Z3

LEMMA BackFacts ==
    ASSUME NEW c \in Slot, NEW i \in 1 .. NB_YANK_BUFFERS
    PROVE  (c + 1 - i) % NB_YANK_BUFFERS = Back(c, i) /\ Back(c, i) \in Slot
  <1> DEFINE n == NB_YANK_BUFFERS
             x == c + 1 - i
  <1>1. n \in Nat \ {0} /\ c \in 0 .. n - 1 /\ i \in 1 .. n
    BY SlotFacts DEF Slot
  <1> HIDE DEF n
  <1>2. x \in Int /\ -n <= x /\ x < n
    BY <1>1
  <1>3. x >= 0 => x % n = x
    <2> HIDE DEF x
    <2> QED BY SMTT(30), Z3T(30), <1>1, <1>2, SmallMod
  <1>4. x < 0 => x % n = x + n
    <2> HIDE DEF x
    <2> QED BY <1>1, <1>2
  <1>5. x % n = IF i <= c + 1 THEN x ELSE x + n
    BY SMTT(30), Z3T(30), <1>1, <1>3, <1>4
  <1>6. (IF i <= c + 1 THEN x ELSE x + n) \in 0 .. n - 1
    BY <1>1
  <1> QED BY <1>5, <1>6 DEF Back, n, Slot

LEMMA HistType ==
    ASSUME NEW r, Ring(r)
    PROVE  /\ Hist(r) \in Seq(Entry) /\ Len(Hist(r)) = NB_YANK_BUFFERS
           /\ \A i \in 1 .. NB_YANK_BUFFERS : Hist(r)[i] = r.at[Back(r.cur, i)]
           /\ Hist(r)[1] = r.at[r.cur]
  <1>1. r.cur \in Slot /\ \A i \in Slot : r.at[i] \in Entry
    BY DEF Ring, Entry
  <1>2. \A i \in 1 .. NB_YANK_BUFFERS : Hist(r)[i] = r.at[Back(r.cur, i)]
    BY <1>1, BackFacts DEF Hist
  <1>3. \A i \in 1 .. NB_YANK_BUFFERS : Hist(r)[i] \in Entry
    BY <1>1, <1>2, BackFacts
  <1>4. NB_YANK_BUFFERS \in Nat \ {0} /\ 1 \in 1 .. NB_YANK_BUFFERS
    BY SlotFacts
  <1>5. Hist(r) \in [1 .. NB_YANK_BUFFERS -> Entry]
    BY <1>3 DEF Hist
  <1>6. Hist(r) \in Seq(Entry) /\ Len(Hist(r)) = NB_YANK_BUFFERS
    BY <1>4, <1>5
  <1>7. Back(r.cur, 1) = r.cur
    BY <1>1 DEF Back, Slot
  <1> QED BY SMTT(30), Z3T(30), <1>2, <1>4, <1>6, <1>7

(* Histories are equal when they agree at every place. *)
Reads(s, r) ==
    /\ s \in Seq(Entry) /\ Len(s) = NB_YANK_BUFFERS
    /\ \A i \in 1 .. NB_YANK_BUFFERS : s[i] = r.at[Back(r.cur, i)]

LEMMA HistEqual ==
    ASSUME NEW r, Ring(r), NEW s, Reads(s, r)
    PROVE  Hist(r) = s
  <1> DEFINE h == Hist(r)
  <1>1. h \in Seq(Entry) /\ Len(h) = NB_YANK_BUFFERS
        /\ \A i \in 1 .. NB_YANK_BUFFERS : h[i] = s[i]
    BY HistType DEF Reads
  <1>2. s \in Seq(Entry) /\ Len(s) = NB_YANK_BUFFERS
    BY DEF Reads
  <1> HIDE DEF h
  <1>3. h = s
    BY <1>1, <1>2
  <1> QED BY <1>3 DEF h

LEMMA PushedFacts ==
    ASSUME NEW h \in Seq(Entry), Len(h) = NB_YANK_BUFFERS, NEW t \in Entry
    PROVE  LET x == History!Pushed(h, t)
           IN  /\ x \in Seq(Entry) /\ Len(x) = NB_YANK_BUFFERS /\ x[1] = t
               /\ \A i \in 2 .. NB_YANK_BUFFERS : x[i] = IF h[1] = None THEN h[i] ELSE h[i - 1]
  <1> DEFINE n == NB_YANK_BUFFERS
             d == IF h[1] = None THEN Tail(h) ELSE SubSeq(h, 1, n - 1)
             x == <<t>> \o d
  <1>1. n \in Nat \ {0} /\ Len(h) = n
    BY SlotFacts
  <1> HIDE DEF n
  <1>2. d \in Seq(Entry) /\ Len(d) = n - 1
    <2>1. CASE h[1] = None
      <3>1. h # <<>>
        BY <1>1
      <3> QED BY <1>1, <2>1, <3>1
    <2>2. CASE h[1] # None
      BY <1>1, <2>2
    <2> QED BY <2>1, <2>2
  <1>3. \A i \in 1 .. n - 1 : d[i] = IF h[1] = None THEN h[i + 1] ELSE h[i]
    <2>1. CASE h[1] = None
      <3>1. h # <<>>
        BY <1>1
      <3> QED BY SMTT(30), Z3T(30), <1>1, <2>1, <3>1
    <2>2. CASE h[1] # None
      BY <1>1, <2>2
    <2> QED BY Zenon, <2>1, <2>2
  <1>4. x = History!Pushed(h, t)
    BY DEF History!Pushed, n
  <1> HIDE DEF d
  <1>5. <<t>> \in Seq(Entry) /\ Len(<<t>>) = 1 /\ <<t>>[1] = t
    OBVIOUS
  <1>6. x \in Seq(Entry)
    BY <1>2, <1>5
  <1>7. Len(x) = n /\ x[1] = t
    BY <1>1, <1>2, <1>5
  <1>8. \A i \in 2 .. n : x[i] = d[i - 1]
    BY SMTT(30), Z3T(30), <1>1, <1>2, <1>5
  <1>9. \A i \in 2 .. n : x[i] = IF h[1] = None THEN h[i] ELSE h[i - 1]
    <2> HIDE DEF x
    <2> SUFFICES ASSUME NEW i \in 2 .. n
                 PROVE  x[i] = IF h[1] = None THEN h[i] ELSE h[i - 1]
      OBVIOUS
    <2>1. i - 1 \in 1 .. n - 1 /\ i - 1 + 1 = i
      BY <1>1
    <2> QED BY SMTT(30), Z3T(30), <1>3, <1>8, <2>1
  <1> QED BY Zenon, <1>4, <1>6, <1>7, <1>9 DEF n

(* new_yank_buffer puts an entry in front, at the cost of the one furthest *)
(* back at most.                                                           *)
LEMMA NewYankHist ==
    ASSUME NEW r, Ring(r), NEW t \in Seq(Chars)
    PROVE  Hist(new_yank_buffer(r, t)) = History!Pushed(Hist(r), t)
  <1> DEFINE n == NB_YANK_BUFFERS
             c == r.cur
             q == new_yank_buffer(r, t)
             k == IF r.at[c] = None THEN c ELSE (c + 1) % n
             a == [r.at EXCEPT ![k] = t]
             h == Hist(r)
             x == History!Pushed(h, t)
  <1>1. n \in Nat \ {0} /\ c \in 0 .. n - 1 /\ c \in Slot /\ r.at \in [Slot -> Entry]
    BY SlotFacts DEF Ring, Slot, Entry
  <1>2. q = [at |-> a, cur |-> k]
    BY DEF new_yank_buffer
  <1>3. Ring(q)
    BY NewYankRing
  <1>4. /\ h \in Seq(Entry) /\ Len(h) = n /\ h[1] = r.at[c]
        /\ \A i \in 1 .. n : h[i] = r.at[Back(c, i)]
    BY HistType
  <1>5. t \in Entry
    BY DEF Entry
  <1> HIDE DEF h
  <1>6. /\ x \in Seq(Entry) /\ Len(x) = n /\ x[1] = t
        /\ \A i \in 2 .. n : x[i] = IF h[1] = None THEN h[i] ELSE h[i - 1]
    BY Zenon, <1>4, <1>5, PushedFacts
  <1>7. k = IF r.at[c] = None THEN c ELSE IF c + 1 = n THEN 0 ELSE c + 1
    <2>1. c + 1 = n => (c + 1) % n = 0
      BY <1>1
    <2>2. c + 1 # n => (c + 1) % n = c + 1
      <3> DEFINE m == c + 1
      <3>1. m \in Int /\ 0 <= m /\ (m # n => m < n)
        BY <1>1
      <3> HIDE DEF m, n
      <3>2. m < n => m % n = m
        BY SMTT(30), Z3T(30), <1>1, <3>1, SmallMod
      <3> QED BY <3>1, <3>2 DEF m
    <2> QED BY <2>1, <2>2
  <1>8. k \in Slot /\ a \in [Slot -> Entry] /\ a[k] = t /\ \A j \in Slot : j # k => a[j] = r.at[j]
    <2>1. k \in Slot
      BY SMTT(30), Z3T(30), <1>1, <1>7 DEF Slot
    <2> HIDE DEF k
    <2> QED BY SMTT(30), Z3T(30), <1>1, <1>5, <2>1
  <1> HIDE DEF x, k, a, q
  <1>9. ASSUME NEW i \in 1 .. n PROVE x[i] = a[Back(k, i)]
    <2>1. CASE i = 1
      <3>1. Back(k, 1) = k
        BY SMTT(30), Z3T(30), <1>8 DEF Back, Slot
      <3> QED BY SMTT(30), Z3T(30), <1>6, <1>8, <2>1, <3>1
    <2>2. CASE i # 1
      <3>1. i \in 2 .. n /\ i - 1 \in 1 .. n
        BY <1>1, <2>2
      <3>2. Back(k, i) \in Slot /\ Back(c, i) \in Slot /\ Back(c, i - 1) \in Slot
        BY Zenon, <1>1, <1>8, <3>1, BackFacts DEF n
      <3>3. Back(k, i) # k
        BY SMTT(30), Z3T(30), <1>1, <1>8, <3>1 DEF Back, Slot, n
      <3>4. a[Back(k, i)] = r.at[Back(k, i)]
        BY <1>8, <3>2, <3>3
      <3>5. r.at[c] = None => Back(k, i) = Back(c, i)
        BY <1>7
      <3>6. r.at[c] # None => Back(k, i) = Back(c, i - 1)
        BY SMTT(30), Z3T(30), <1>1, <1>7, <3>1 DEF Back, n
      <3> QED BY SMTT(30), Z3T(30), <1>4, <1>6, <3>1, <3>4, <3>5, <3>6
    <2> QED BY <2>1, <2>2
  <1>10. q.at = a /\ q.cur = k
    BY <1>2
  <1>11. Hist(q) = x
    <2>1. Reads(x, q)
      BY SMTT(30), Z3T(30), <1>6, <1>9, <1>10 DEF Reads, n
    <2> QED BY Zenon, <1>3, <2>1, HistEqual
  <1> QED BY <1>11 DEF q, x, h

(* A place of the ring set to v, as the history sees it. *)
LEMMA SetHist ==
    ASSUME NEW r, Ring(r), NEW v \in Entry, NEW i \in 1 .. NB_YANK_BUFFERS, NEW q, Ring(q),
           q.cur = r.cur, q.at = [r.at EXCEPT ![Back(r.cur, i)] = v]
    PROVE  Hist(q) = [Hist(r) EXCEPT ![i] = v]
  <1> DEFINE n == NB_YANK_BUFFERS
             c == r.cur
             h == Hist(r)
             x == [h EXCEPT ![i] = v]
  <1>1. n \in Nat \ {0} /\ c \in 0 .. n - 1 /\ c \in Slot /\ r.at \in [Slot -> Entry]
    BY SlotFacts DEF Ring, Slot, Entry
  <1>2. /\ h \in Seq(Entry) /\ Len(h) = n
        /\ \A j \in 1 .. n : h[j] = r.at[Back(c, j)]
    BY HistType
  <1> HIDE DEF h
  <1>3. h \in [1 .. n -> Entry]
    BY <1>2
  <1>4. x \in [1 .. n -> Entry] /\ \A j \in 1 .. n : x[j] = IF j = i THEN v ELSE h[j]
    BY <1>3 DEF n
  <1> HIDE DEF x
  <1>5. x \in Seq(Entry) /\ Len(x) = n
    BY <1>1, <1>4
  <1>6. ASSUME NEW j \in 1 .. n PROVE x[j] = q.at[Back(c, j)]
    <2>1. Back(c, j) \in Slot /\ Back(c, i) \in Slot
      BY <1>1, BackFacts DEF n
    <2>2. Back(c, j) = Back(c, i) => j = i
      BY <1>1 DEF Back, n
    <2> QED BY SMTT(30), Z3T(30), <1>1, <1>2, <1>4, <2>1, <2>2
  <1>7. \A j \in 1 .. n : x[j] = q.at[Back(q.cur, j)]
    BY <1>6
  <1>8. Hist(q) = x
    <2>1. Reads(x, q)
      BY SMTT(30), Z3T(30), <1>5, <1>7 DEF Reads, n
    <2> QED BY Zenon, <2>1, HistEqual
  <1> QED BY <1>8 DEF x, h

LEMMA TurnedFacts ==
    ASSUME NEW h \in Seq(Entry), Len(h) = NB_YANK_BUFFERS, NEW m \in 1 .. NB_YANK_BUFFERS
    PROVE  LET x == History!Turned(h, m)
           IN  /\ x \in Seq(Entry) /\ Len(x) = NB_YANK_BUFFERS
               /\ \A i \in 1 .. NB_YANK_BUFFERS :
                    x[i] = IF i <= NB_YANK_BUFFERS - m THEN h[m + i]
                           ELSE h[i - (NB_YANK_BUFFERS - m)]
  <1> DEFINE n == NB_YANK_BUFFERS
             a == SubSeq(h, m + 1, n)
             b == SubSeq(h, 1, m)
             x == a \o b
  <1>1. n \in Nat \ {0} /\ Len(h) = n /\ m \in 1 .. n
    BY SlotFacts
  <1> HIDE DEF n
  <1>2. a \in Seq(Entry) /\ Len(a) = n - m /\ \A i \in 1 .. n - m : a[i] = h[m + i]
    BY <1>1
  <1>3. b \in Seq(Entry) /\ Len(b) = m /\ \A i \in 1 .. m : b[i] = h[i]
    BY <1>1
  <1>4. x = History!Turned(h, m)
    BY DEF History!Turned, n
  <1> HIDE DEF a, b
  <1>5. x \in Seq(Entry) /\ Len(x) = n
    <2>1. \A u, v \in Seq(Entry) : u \o v \in Seq(Entry) /\ Len(u \o v) = Len(u) + Len(v)
      OBVIOUS
    <2>2. x \in Seq(Entry) /\ Len(x) = Len(a) + Len(b)
      BY Zenon, <1>2, <1>3, <2>1
    <2> HIDE DEF x
    <2> QED BY SMTT(30), Z3T(30), <1>1, <1>2, <1>3, <2>2
  <1>6. \A i \in 1 .. n : x[i] = IF i <= n - m THEN a[i] ELSE b[i - (n - m)]
    BY SMTT(30), Z3T(30), <1>1, <1>2, <1>3
  <1>7. \A i \in 1 .. n : x[i] = IF i <= n - m THEN h[m + i] ELSE h[i - (n - m)]
    <2> HIDE DEF x
    <2> SUFFICES ASSUME NEW i \in 1 .. n
                 PROVE  x[i] = IF i <= n - m THEN h[m + i] ELSE h[i - (n - m)]
      OBVIOUS
    <2>1. IF i <= n - m THEN i \in 1 .. n - m ELSE i - (n - m) \in 1 .. m
      BY <1>1
    <2> QED BY SMTT(30), Z3T(30), <1>2, <1>3, <1>6, <2>1
  <1> QED BY <1>4, <1>5, <1>7 DEF n

(* do_yank_pop turns the ring, over free places only. *)
Turns(h, g) ==
    \E m \in 1 .. NB_YANK_BUFFERS : g = History!Turned(h, m) /\ \A i \in 2 .. m : h[i] = None

LEMMA PrevHist ==
    ASSUME NEW r, Ring(r), NEW q, q = [r EXCEPT !.cur = PrevSlot(r)]
    PROVE  Turns(Hist(r), Hist(q))
  <1> DEFINE n == NB_YANK_BUFFERS
             c == r.cur
             k == PrevSlot(r)
             h == Hist(r)
             m == IF c > 0 THEN 1 ELSE n - k
             x == History!Turned(h, m)
  <1>1. n \in Nat \ {0} /\ c \in 0 .. n - 1 /\ c \in Slot
    BY SlotFacts DEF Ring, Slot
  <1>2. k \in Slot /\ k \in 0 .. n - 1
    BY PrevSlotType DEF Slot
  <1>3. Ring(q) /\ q.at = r.at /\ q.cur = k
    BY <1>2 DEF Ring
  <1>4. IF c > 0 THEN k = c - 1 ELSE \A j \in Slot : j > k => r.at[j] = None
    <2>1. CASE c > 0
      BY <2>1 DEF PrevSlot
    <2>2. CASE ~(c > 0)
      <3> DEFINE S == {0} \cup {i \in Slot : r.at[i] # None}
      <3>1. S \subseteq Slot /\ S # {} /\ \A j \in Slot : r.at[j] # None => j \in S
        BY SlotFacts
      <3>2. k = Max(S)
        BY <2>2 DEF PrevSlot
      <3> HIDE DEF S, k
      <3>3. \A j \in S : k >= j
        BY SMTT(30), Z3T(30), <3>1, <3>2, LastPlace
      <3>4. \A j \in Slot : j > k => ~(k >= j)
        BY <1>2 DEF Slot
      <3> QED BY SMTT(30), Z3T(30), <2>2, <3>1, <3>3, <3>4
    <2> QED BY <2>1, <2>2
  <1>5. /\ h \in Seq(Entry) /\ Len(h) = n
        /\ \A i \in 1 .. n : h[i] = r.at[Back(c, i)]
    BY HistType
  <1> HIDE DEF h, k
  <1>6. m \in 1 .. n
    BY <1>1, <1>2
  <1>7. /\ x \in Seq(Entry) /\ Len(x) = n
        /\ \A i \in 1 .. n : x[i] = IF i <= n - m THEN h[m + i] ELSE h[i - (n - m)]
    BY Zenon, <1>5, <1>6, TurnedFacts
  <1> HIDE DEF x
  <1>8. ASSUME NEW i \in 1 .. n PROVE x[i] = q.at[Back(q.cur, i)]
    <2>1. CASE c > 0
      <3>1. m = 1 /\ k = c - 1
        BY <1>4, <2>1
      <3>2. CASE i <= n - 1
        <4>1. x[i] = h[1 + i] /\ 1 + i \in 1 .. n
          BY SMTT(30), Z3T(30), <1>1, <1>7, <3>1, <3>2
        <4>2. Back(c, 1 + i) = Back(k, i)
          BY <1>1, <3>1 DEF Back, n
        <4> QED BY SMTT(30), Z3T(30), <1>3, <1>5, <4>1, <4>2
      <3>3. CASE ~(i <= n - 1)
        <4>1. i = n /\ x[i] = h[1] /\ 1 \in 1 .. n
          BY SMTT(30), Z3T(30), <1>1, <1>7, <3>1, <3>3
        <4>2. Back(c, 1) = Back(k, n)
          BY SMTT(30), Z3T(30), <1>1, <2>1, <3>1 DEF Back, n
        <4> QED BY SMTT(30), Z3T(30), <1>3, <1>5, <4>1, <4>2
      <3> QED BY <3>2, <3>3
    <2>2. CASE ~(c > 0)
      <3>1. m = n - k /\ c = 0 /\ n - m = k
        BY <1>1, <1>2, <2>2
      <3>2. CASE i <= k
        <4>1. x[i] = h[m + i] /\ m + i \in 1 .. n
          BY SMTT(30), Z3T(30), <1>1, <1>2, <1>7, <3>1, <3>2
        <4>2. Back(c, m + i) = Back(k, i)
          BY SMTT(30), Z3T(30), <1>1, <1>2, <3>1, <3>2 DEF Back, n
        <4> QED BY SMTT(30), Z3T(30), <1>3, <1>5, <4>1, <4>2
      <3>3. CASE ~(i <= k)
        <4>1. x[i] = h[i - k] /\ i - k \in 1 .. n
          BY SMTT(30), Z3T(30), <1>1, <1>2, <1>7, <3>1, <3>3
        <4>2. Back(c, i - k) = Back(k, i)
          BY SMTT(30), Z3T(30), <1>1, <1>2, <3>1, <3>3 DEF Back, n
        <4> QED BY SMTT(30), Z3T(30), <1>3, <1>5, <4>1, <4>2
      <3> QED BY <3>2, <3>3
    <2> QED BY <2>1, <2>2
  <1>9. Hist(q) = x
    <2>1. \A i \in 1 .. n : x[i] = q.at[Back(q.cur, i)]
      BY <1>8
    <2>2. Reads(x, q)
      BY <1>7, <2>1 DEF Reads, n
    <2> QED BY Zenon, <1>3, <2>2, HistEqual
  <1>10. ASSUME NEW i \in 2 .. m PROVE h[i] = None
    <2>1. c = 0 /\ m = n - k /\ i \in 1 .. n
      BY <1>1, <1>2
    <2>2. Back(c, i) \in Slot /\ Back(c, i) > k
      BY <1>1, <1>2, <2>1 DEF Back, Slot, n
    <2> QED BY SMTT(30), Z3T(30), <1>4, <1>5, <2>1, <2>2
  <1>11. Hist(q) = History!Turned(h, m) /\ \A i \in 2 .. m : h[i] = None
    BY <1>9, <1>10 DEF x
  <1> HIDE DEF m
  <1>12. Turns(h, Hist(q))
    BY Zenon, <1>6, <1>11 DEF Turns, n
  <1> QED BY <1>12 DEF h

-----------------------------------------------------------------------------
(* The steps of KillHistory, from the entries h to the entries g. *)
Pushes(h, g) == \E t \in Text : g = History!Pushed(h, t) /\ g[1] = t
Extends(h, g) ==
    /\ h[1] # None /\ g[1] \in Text
    /\ Tail(g) = Tail(h)
    /\ Len(g[1]) >= Len(h[1])
    /\ h[1] \in {SubSeq(g[1], 1, Len(h[1])),
                 SubSeq(g[1], Len(g[1]) - Len(h[1]) + 1, Len(g[1]))}
Removes(h, g) == \E i \in 1 .. NB_YANK_BUFFERS : g = [h EXCEPT ![i] = None]
Steps(h, g) == g = h \/ Pushes(h, g) \/ Extends(h, g) \/ Turns(h, g) \/ Removes(h, g)

(* The entries after save_selection. *)
Copied(h) == {h} \cup {History!Pushed(h, t) : t \in Text}

LEMMA HistoryStep ==
    ASSUME NEW h \in Copied(Entries), Steps(h, Entries')
    PROVE  History!Next
  <1>1. h \in {Entries} \cup {History!Pushed(Entries, t) : t \in Text}
    BY SMTT(30), Z3T(30) DEF Copied
  <1>2. CASE Entries' = h
    BY SMTT(30), Z3T(30), <1>1, <1>2 DEF History!Next, Entries
  <1>3. CASE Pushes(h, Entries')
    <2>1. History!Push(h)
      BY Zenon, <1>3 DEF Pushes, History!Push, Entries
    <2> QED BY <1>1, <2>1 DEF History!Next, Entries
  <1>4. CASE Extends(h, Entries')
    <2>1. History!Extend(h)
      BY Zenon, <1>4 DEF Extends, History!Extend, Entries
    <2> QED BY <1>1, <2>1 DEF History!Next, Entries
  <1>5. CASE Turns(h, Entries')
    <2>1. History!Turn(h)
      BY Zenon, <1>5 DEF Turns, History!Turn, Entries
    <2> QED BY <1>1, <2>1 DEF History!Next, Entries
  <1>6. CASE Removes(h, Entries')
    <2>1. History!Remove(h)
      BY Zenon, <1>6 DEF Removes, History!Remove, Entries
    <2> QED BY <1>1, <2>1 DEF History!Next, Entries
  <1> QED BY Zenon, <1>2, <1>3, <1>4, <1>5, <1>6 DEF Steps

(* A part of a text of the buffer is a text. *)
LEMMA RegionInText ==
    ASSUME IInv, NEW p1 \in 0 .. Len(win.text), NEW p2 \in 0 .. Len(win.text)
    PROVE  Region(win, p1, p2) \in Text
  <1> DEFINE o == MinOf(p1, p2)
             n == Dist(p1, p2)
             t == win.text
             y == Bytes(t, o, n)
  <1>1. t \in Text /\ t \in Seq(Chars) /\ Len(t) \in 0 .. MaxText /\ MaxText \in Nat
    <2>1. win.text \in Text
      BY DEF IInv, TypeOK
    <2> QED BY Zenon, <2>1, TextType, TextLength, KillRingAssumption
  <1>2. o \in Nat /\ n \in 0 .. MaxText /\ o + n <= Len(t)
    BY <1>1 DEF MinOf, Dist
  <1>3. \A i \in 1 .. Len(t) : t[i] \in Byte
    <2>1. PICK k \in 0 .. MaxText : t \in [1 .. k -> Byte]
      BY <1>1 DEF Text
    <2>2. Len(t) = k
      BY <2>1
    <2> QED BY SMTT(30), Z3T(30), <2>1, <2>2
  <1> HIDE DEF o, n, t
  <1>4. y \in Seq(Chars) /\ Len(y) = n
    BY <1>1, <1>2, ReadText
  <1>5. \A i \in 1 .. n : y[i] = t[o + i]
    BY <1>1, <1>2, ReadAt
  <1>6. \A i \in 1 .. n : o + i \in 1 .. Len(t)
    BY <1>1, <1>2
  <1> HIDE DEF y
  <1>7. y \in [1 .. n -> Byte]
    <2>1. y \in [1 .. n -> Chars]
      BY <1>4
    <2> QED BY Zenon, <1>3, <1>5, <1>6, <2>1
  <1>8. y \in Text
    BY <1>2, <1>7 DEF Text
  <1> QED BY <1>8 DEF y, o, n, t, Region

(* new_yank_buffer is a push. *)
LEMMA NewYankPushes ==
    ASSUME NEW r, Ring(r), NEW t \in Text
    PROVE  Pushes(Hist(r), Hist(new_yank_buffer(r, t)))
  <1> DEFINE h == Hist(r)
             g == Hist(new_yank_buffer(r, t))
  <1>1. t \in Seq(Chars) /\ t \in Entry
    BY TextType DEF Entry
  <1>2. g = History!Pushed(h, t)
    BY <1>1, NewYankHist
  <1>3. h \in Seq(Entry) /\ Len(h) = NB_YANK_BUFFERS
    BY HistType
  <1> HIDE DEF h, g
  <1>4. g[1] = t
    BY Zenon, <1>1, <1>2, <1>3, PushedFacts
  <1>5. Pushes(h, g)
    BY <1>2, <1>4 DEF Pushes
  <1> QED BY <1>5 DEF h, g

LEMMA CopiedPushes ==
    ASSUME NEW h, NEW g, Pushes(h, g)
    PROVE  g \in Copied(h)
  BY DEF Pushes, Copied

(* save_selection copies a text to the front, or leaves the ring alone. *)
LEMMA SelectionHist ==
    ASSUME IInv
    PROVE  Hist(save_selection) \in Copied(Entries)
  <1>1. Entries = Hist(ring) /\ Ring(ring)
    BY InvFacts DEF Entries, Hist, ring, Place
  <1>2. CASE mouse = "selecting"
    <2> DEFINE t == Region(win, win.mark, win.offset)
    <2>1. t \in Text
      BY InvFacts, Places, RegionInText
    <2>2. save_selection = new_yank_buffer(ring, t)
      BY <1>2 DEF save_selection, Saved
    <2> HIDE DEF t
    <2>3. Pushes(Entries, Hist(save_selection))
      BY SMTT(30), Z3T(30), <1>1, <2>1, <2>2, NewYankPushes
    <2> QED BY <2>3, CopiedPushes
  <1>3. CASE mouse # "selecting"
    BY <1>1, <1>3 DEF save_selection, Copied
  <1> QED BY <1>2, <1>3

(* do_kill pushes or extends. *)
LEMMA SavedHist ==
    ASSUME NEW r, Ring(r), NEW t \in Text, NEW dir \in Int,
           \A i \in Slot : Saved(r, t, dir).at[i] \in Text \cup {None}
    PROVE  Steps(Hist(r), Hist(Saved(r, t, dir)))
  <1>1. CASE r.at[r.cur] = None \/ dir = 0 \/ last_cmd_func # "do_append_next_kill"
    BY Zenon, <1>1, NewYankPushes DEF Saved, Steps
  <1>2. CASE ~(r.at[r.cur] = None \/ dir = 0 \/ last_cmd_func # "do_append_next_kill")
    <2> DEFINE d == r.at[r.cur]
               u == IF dir < 0 THEN t \o d ELSE d \o t
               q == Saved(r, t, dir)
               h == Hist(r)
               g == Hist(q)
    <2>1. d \in Seq(Chars) /\ t \in Seq(Chars) /\ d # None
      BY <1>2, TextType DEF Ring
    <2>2. q = [r EXCEPT !.at = [r.at EXCEPT ![r.cur] = u]]
      BY <1>2 DEF Saved, Ring
    <2>3. Ring(q)
      BY <2>1, SavedRing
    <2>4. r.cur \in Slot /\ Back(r.cur, 1) = r.cur
      BY DEF Ring, Back, Slot
    <2>5. h \in Seq(Entry) /\ Len(h) = NB_YANK_BUFFERS /\ h[1] = d /\ NB_YANK_BUFFERS \in Nat \ {0}
      BY HistType, SlotFacts
    <2> HIDE DEF d, q, h, g
    <2>6. u \in Seq(Chars) /\ u \in Entry /\ u # None /\ Len(u) >= Len(d)
      <3>1. u \in Seq(Chars)
        BY <2>1
      <3>2. Len(u) >= Len(d)
        <4>1. /\ Len(t \o d) = Len(t) + Len(d) /\ Len(d \o t) = Len(d) + Len(t)
              /\ Len(t) \in Nat /\ Len(d) \in Nat
          BY <2>1
        <4>2. u = t \o d \/ u = d \o t
          BY Zenon
        <4> HIDE DEF u
        <4> QED BY <4>1, <4>2
      <3> HIDE DEF u
      <3> QED BY SMTT(30), Z3T(30), <3>1, <3>2, NoText DEF Entry
    <2>7. d \in {SubSeq(u, 1, Len(d)), SubSeq(u, Len(u) - Len(d) + 1, Len(u))}
      <3>1. CASE dir < 0
        BY <2>1, <3>1
      <3>2. CASE ~(dir < 0)
        BY <2>1, <3>2
      <3> QED BY Zenon, <3>1, <3>2
    <2> HIDE DEF u
    <2>8. q.cur = r.cur /\ q.at = [r.at EXCEPT ![Back(r.cur, 1)] = u] /\ q.at[r.cur] = u
      BY SMTT(30), Z3T(30), <2>2, <2>4 DEF Ring
    <2>9. g = [h EXCEPT ![1] = u]
      BY SMTT(30), Z3T(30), <2>3, <2>5, <2>6, <2>8, SetHist DEF g, h
    <2>10. u \in Text
      BY SMTT(30), Z3T(30), <2>4, <2>6, <2>8 DEF q
    <2>11. g[1] = u /\ Tail(g) = Tail(h)
      BY <2>5, <2>6, <2>9
    <2>12. Extends(h, g)
      BY Zenon, <2>1, <2>5, <2>6, <2>7, <2>10, <2>11 DEF Extends
    <2> QED BY <2>12 DEF Steps, h, g, q
  <1> QED BY Zenon, <1>1, <1>2

(* selection_request leaves the ring alone or pushes. *)
LEMMA RequestHist ==
    ASSUME NEW r, Ring(r), \A i \in Slot : selection_request(r).at[i] \in Text \cup {None}
    PROVE  Steps(Hist(r), Hist(selection_request(r)))
  <1>1. CASE owned \/ mouse = "selecting"
    BY Zenon, <1>1 DEF selection_request, Steps
  <1>2. CASE ~(owned \/ mouse = "selecting")
    <2>1. selection_request(r) = new_yank_buffer(r, Foreign)
      BY <1>2 DEF selection_request
    <2>2. Foreign \in Seq(Chars)
      <3>1. Max(Byte) \in Chars
        BY DEF Chars
      <3> HIDE DEF Chars
      <3> QED BY <3>1 DEF Foreign
    <2> HIDE DEF Foreign
    <2> DEFINE q == new_yank_buffer(r, Foreign)
    <2>3. CurrentOf(q) = Foreign /\ Ring(q) /\ Foreign # None
      BY Zenon, <2>2, NewYankCurrent, NewYankRing, NoText
    <2> HIDE DEF q
    <2>4. \A i \in Slot : q.at[i] \in Text \cup {None}
      BY <2>1 DEF q
    <2>5. <<>> \in Text
      <3>1. <<>> \in [1 .. 0 -> Byte] /\ 0 \in 0 .. MaxText
        BY KillRingAssumption
      <3> QED BY <3>1 DEF Text
    <2>6. Foreign \in Text
      BY Zenon, <2>3, <2>4, <2>5 DEF CurrentOf, Ring
    <2> QED BY SMTT(30), Z3T(30), <2>1, <2>6, NewYankPushes DEF Steps
  <1> QED BY <1>1, <1>2

(* A step that leaves the ring r behind. *)
LEMMA BecomesHist ==
    ASSUME NEW e, NEW r, Becomes(e, r)
    PROVE  Entries' = Hist(r) /\ \A i \in Slot : r.at[i] \in Text \cup {None}
  <1>1. yank_buffers' = r.at /\ yank_current' = r.cur
    BY Zenon DEF Becomes
  <1>2. Entries' = Hist(r)
    BY <1>1 DEF Entries, Hist, Place
  <1>3. \A i \in Slot : r.at[i] \in Text \cup {None}
    BY Zenon DEF Becomes
  <1> QED BY <1>2, <1>3

(* A command that leaves the ring as save_selection did. *)
LEMMA SelectionStep ==
    ASSUME IInv, NEW e, Becomes(e, save_selection)
    PROVE  History!Next
  <1>1. Entries' = Hist(save_selection)
    BY BecomesHist
  <1>2. Steps(Hist(save_selection), Entries')
    BY <1>1 DEF Steps
  <1> QED BY Zenon, <1>2, SelectionHist, HistoryStep

LEMMA KillStep ==
    ASSUME IInv, NEW e, NEW p1 \in 0 .. Len(win.text), NEW p2 \in 0 .. Len(win.text),
           NEW dir \in Int, Becomes(e, Saved(save_selection, Region(win, p1, p2), dir))
    PROVE  History!Next
  <1> DEFINE t == Region(win, p1, p2)
             r == save_selection
  <1>1. t \in Text /\ Ring(r)
    BY RegionInText, SelectionRing
  <1>2. Becomes(e, Saved(r, t, dir))
    OBVIOUS
  <1>3. Hist(r) \in Copied(Entries)
    BY SelectionHist
  <1> HIDE DEF t, r
  <1>4. Entries' = Hist(Saved(r, t, dir))
        /\ \A i \in Slot : Saved(r, t, dir).at[i] \in Text \cup {None}
    BY <1>2, BecomesHist
  <1>5. Steps(Hist(r), Entries')
    BY <1>1, <1>4, SavedHist
  <1> QED BY <1>3, <1>5, HistoryStep

LEMMA RequestStep ==
    ASSUME IInv, NEW e, Becomes(e, selection_request(save_selection))
    PROVE  History!Next
  <1> DEFINE r == save_selection
  <1>1. Ring(r) /\ Hist(r) \in Copied(Entries)
    BY SelectionRing, SelectionHist
  <1>2. Becomes(e, selection_request(r))
    OBVIOUS
  <1> HIDE DEF r
  <1>3. Entries' = Hist(selection_request(r))
        /\ \A i \in Slot : selection_request(r).at[i] \in Text \cup {None}
    BY <1>2, BecomesHist
  <1>4. Steps(Hist(r), Entries')
    BY <1>1, <1>3, RequestHist
  <1> QED BY <1>1, <1>4, HistoryStep

(* yank-pop after a yank, with a selection that is ours. *)
LEMMA TurnStep ==
    ASSUME IInv, NEW e, NEW q, q = [save_selection EXCEPT !.cur = PrevSlot(save_selection)],
           Becomes(e, q)
    PROVE  History!Next
  <1> DEFINE r == save_selection
  <1>1. Ring(r) /\ Hist(r) \in Copied(Entries)
    BY SelectionRing, SelectionHist
  <1>2. Entries' = Hist(q)
    BY BecomesHist
  <1>3. q = [r EXCEPT !.cur = PrevSlot(r)]
    OBVIOUS
  <1> HIDE DEF r
  <1>4. Turns(Hist(r), Hist(q))
    BY Zenon, <1>1, <1>3, PrevHist
  <1>5. Steps(Hist(r), Entries')
    BY <1>2, <1>4 DEF Steps
  <1> QED BY <1>1, <1>5, HistoryStep

(* The user kills the buffer of an entry. *)
LEMMA RemoveStep ==
    ASSUME IInv, NEW e, NEW j \in Slot, Becomes(e, [save_selection EXCEPT !.at[j] = None])
    PROVE  History!Next
  <1> DEFINE r == save_selection
             n == NB_YANK_BUFFERS
             q == [r EXCEPT !.at[j] = None]
             i == IF j <= r.cur THEN r.cur + 1 - j ELSE r.cur + 1 - j + n
  <1>1. Ring(r) /\ Hist(r) \in Copied(Entries)
    BY SelectionRing, SelectionHist
  <1>2. Entries' = Hist(q)
    BY BecomesHist
  <1> HIDE DEF r
  <1>3. n \in Nat \ {0} /\ r.cur \in 0 .. n - 1 /\ j \in 0 .. n - 1
    BY <1>1, SlotFacts DEF Ring, Slot
  <1>4. i \in 1 .. n /\ Back(r.cur, i) = j
    BY <1>3 DEF Back
  <1>5. q.cur = r.cur /\ q.at = [r.at EXCEPT ![j] = None]
    BY <1>1 DEF Ring
  <1>6. Ring(q)
    BY <1>1 DEF Ring
  <1> HIDE DEF i, q
  <1>7. q.at = [r.at EXCEPT ![Back(r.cur, i)] = None]
    BY <1>4, <1>5
  <1>8. None \in Entry
    BY DEF Entry
  <1>9. Hist(q) = [Hist(r) EXCEPT ![i] = None]
    BY SMTT(30), Z3T(30), <1>1, <1>4, <1>5, <1>6, <1>7, <1>8, SetHist DEF n
  <1>10. Removes(Hist(r), Entries')
    BY Zenon, <1>2, <1>4, <1>9 DEF Removes, n
  <1>11. Steps(Hist(r), Entries')
    BY <1>10 DEF Steps
  <1> QED BY <1>1, <1>11, HistoryStep

(* A step that leaves the ring alone. *)
LEMMA SameStep ==
    ASSUME IInv, yank_buffers' = yank_buffers, yank_current' = yank_current
    PROVE  History!Next
  <1>1. Entries' = Entries
    BY DEF Entries, Place
  <1>2. Entries \in Copied(Entries) /\ Steps(Entries, Entries')
    BY <1>1 DEF Copied, Steps
  <1> QED BY <1>2, HistoryStep

LEMMA NextHistory ==
    IInv /\ Next => History!Next \/ (~owned /\ last_cmd_func = "do_yank")
  <1> SUFFICES ASSUME IInv, Next, owned \/ last_cmd_func # "do_yank" PROVE History!Next
    OBVIOUS
  <1>1. win.mark \in 0 .. Len(win.text) /\ win.offset \in 0 .. Len(win.text)
    BY InvFacts, Places
  <1>2. CASE do_kill_region \/ do_copy_region
    <2>1. PICK dir \in {0, 1} : \E e :
            Becomes(e, Saved(save_selection, Region(win, win.mark, win.offset), dir))
      BY <1>2 DEF do_kill_region, do_copy_region, exec_command
    <2> QED BY <1>1, <2>1, KillStep
  <1>3. CASE do_kill_to
    <2>1. PICK p \in 0 .. Len(win.text), dir \in {1, -1} : \E e :
            Becomes(e, Saved(save_selection, Region(win, win.offset, p), dir))
      BY <1>3 DEF do_kill_to, exec_command
    <2> QED BY <1>1, <2>1, KillStep
  <1>4. CASE do_append_next_kill \/ do_char \/ do_move \/ do_set_mark \/ mouse_left
             \/ mouse_release
    <2>1. \E e : Becomes(e, save_selection)
      BY Zenon, <1>4 DEF do_append_next_kill, do_char, do_move, do_set_mark, mouse_left,
                  mouse_release, exec_command, Mouse
    <2> QED BY <2>1, SelectionStep
  <1>5. CASE do_yank
    <2>1. \E e : Becomes(e, selection_request(save_selection))
      BY <1>5 DEF do_yank, exec_command
    <2> QED BY <2>1, RequestStep
  <1>6. CASE do_yank_pop /\ last_cmd_func # "do_yank"
    <2>1. \E e : Becomes(e, save_selection)
      BY <1>6 DEF do_yank_pop, exec_command
    <2> QED BY <2>1, SelectionStep
  <1>7. CASE do_yank_pop /\ last_cmd_func = "do_yank"
    <2> DEFINE q == [save_selection EXCEPT !.cur = PrevSlot(save_selection)]
    <2>1. \E e : Becomes(e, selection_request(q))
      BY <1>7 DEF do_yank_pop, exec_command
    <2>2. selection_request(q) = q
      BY <1>7 DEF selection_request
    <2> QED BY <2>1, <2>2, TurnStep
  <1>8. CASE do_kill_buffer
    <2>1. PICK i \in Slot : \E e : Becomes(e, [save_selection EXCEPT !.at[i] = None])
      BY Zenon, <1>8 DEF do_kill_buffer, exec_command
    <2> QED BY <2>1, RemoveStep
  <1>9. CASE mouse_middle
    <2>1. \E e : Becomes(e, save_selection) \/ Becomes(e, selection_request(save_selection))
      BY <1>9 DEF mouse_middle, Mouse
    <2> QED BY <2>1, SelectionStep, RequestStep
  <1>10. CASE mouse_motion
    <2>1. yank_buffers' = yank_buffers /\ yank_current' = yank_current
      BY <1>10 DEF mouse_motion, Mouse, Becomes, ring
    <2> QED BY <2>1, SameStep
  <1>11. CASE SelectionClear
    BY <1>11, SameStep DEF SelectionClear
  <1> QED BY SMTT(30), Z3T(30), <1>2, <1>3, <1>4, <1>5, <1>6, <1>7, <1>8, <1>9, <1>10, <1>11 DEF Next

(* The ring that do_kill, new_yank_buffer, do_yank_pop, save_selection and *)
(* selection_request maintain, read from the current place backwards,      *)
(* implements KillHistory, for any NB_YANK_BUFFERS: a kill costs at most   *)
(* the entry furthest back and extends only the one in front, yank-pop     *)
(* passes over free places only.  Exempt is a yank-pop that asks for the   *)
(* selection of another program.                                           *)
THEOREM RingIsHistory == Spec => ImplementsKillHistory
  <1>1. Init => History!Init
    <2> SUFFICES ASSUME Init PROVE History!Init
      OBVIOUS
    <2>1. \A i \in 1 .. NB_YANK_BUFFERS : yank_buffers[Place(i)] = None
      BY Zenon, SlotFacts, BackFacts DEF Init, Place
    <2> QED BY <2>1 DEF History!Init
  <1>2. IInv /\ [Next]_vars => [History!Next \/ (~owned /\ last_cmd_func = "do_yank")]_vars
    BY NextHistory
  <1> QED BY <1>1, <1>2, Invariance, PTL DEF Spec, ImplementsKillHistory
=============================================================================
