---------------------------- MODULE UndoLogProofs ----------------------------
(***************************************************************************)
(* Proofs about module UndoLog, for every set of bytes, every limit on the *)
(* log, every bound and every set of commands.                             *)
(***************************************************************************)
EXTENDS UndoLog, TextOpsProofs

(* A buffer whose log_current designates a record, or none. *)
Sound(e) == e \in EditBuffer /\ e.log_current <= Len(e.log)

-----------------------------------------------------------------------------
(* The primitives map sound buffers to sound buffers. *)

LEMMA MovedType ==
    ASSUME NEW p \in Nat, NEW op, NEW o \in Nat, NEW n \in Nat
    PROVE  Moved(p, op, o, n) \in Nat
  BY DEF Moved

LEMMA NotifySound ==
    ASSUME NEW e, Sound(e), NEW op, NEW o \in Nat, NEW n \in Nat
    PROVE  /\ Sound(Notify(e, op, o, n))
           /\ Notify(e, op, o, n).text = e.text
<1>1. Moved(e.point, op, o, n) \in Nat /\ Moved(e.mark, op, o, n) \in Nat
  BY MovedType DEF Sound, EditBuffer
<1>. QED
  BY Zenon, <1>1 DEF Sound, Notify, EditBuffer

LEMMA EvictSound ==
    ASSUME NEW e, Sound(e)
    PROVE  /\ Evict(e) \in EditBuffer
           /\ Evict(e).log_current <= Len(Evict(e).log) + 1
           /\ Evict(e).log # <<>> => Sound(Evict(e))
           /\ Evict(e).text = e.text
<1>0. e \in EditBuffer /\ e.log \in Seq(LogRecord) /\ e.nb_logs \in Nat /\ e.log_current \in Nat
  BY DEF Sound, EditBuffer
<1>1. CASE ~LogFull(e)
  BY <1>1, <1>0 DEF Sound, Evict
<1>2. CASE LogFull(e) /\ e.log = <<>>
  <2>1. Evict(e) = [e EXCEPT !.corrupt = TRUE]
    BY <1>2 DEF Evict
  <2>2. /\ Evict(e) \in EditBuffer /\ Evict(e).log = e.log
        /\ Evict(e).log_current = e.log_current /\ Evict(e).text = e.text
    BY Zenon, <1>0, <2>1 DEF EditBuffer
  <2>. QED
    BY <2>2, <1>0, <1>2, LenProperties DEF Sound
<1>3. CASE LogFull(e) /\ e.log # <<>>
  <2>1. /\ Tail(e.log) \in Seq(LogRecord) /\ Len(Tail(e.log)) = Len(e.log) - 1
        /\ Len(e.log) \in Nat \ {0}
    BY <1>0, <1>3, HeadTailProperties, LenProperties, EmptySeq
  <2>2. e.nb_logs - 1 \in Nat
    BY <1>0, <1>3, UndoLogAssumption DEF LogFull
  <2>. DEFINE c == IF e.log_current > 1 THEN e.log_current - 1 ELSE e.log_current
  <2>3. c \in Nat /\ c <= Len(e.log)
    BY <1>0, <2>1 DEF Sound
  <2>4. Evict(e) = [e EXCEPT !.log = Tail(e.log), !.log_current = c,
                             !.nb_logs = e.nb_logs - 1]
    BY <1>3 DEF Evict
  <2>. HIDE DEF c
  <2>5. Evict(e) \in EditBuffer /\ Evict(e).log = Tail(e.log) /\ Evict(e).log_current = c
        /\ Evict(e).text = e.text
    BY <1>0, <2>1, <2>2, <2>3, <2>4, ZenonT(40) DEF EditBuffer
  <2>6. Tail(e.log) # <<>> => c <= Len(Tail(e.log))
    BY <1>0, <2>1, <2>3, EmptySeq DEF c, Sound
  <2>. QED
    BY <2>1, <2>3, <2>5, <2>6 DEF Sound
<1>. QED
  BY <1>1, <1>2, <1>3

LEMMA RecordType ==
    ASSUME NEW e, e \in EditBuffer, NEW f, f.text \in Text, NEW op \in LogOp,
           NEW o \in Nat, NEW n \in Nat, NEW before \in Text
    PROVE  Record(e, f, op, o, n, before) \in LogRecord
<1>1. <<>> \in Text
  BY DEF Text
<1>2. o + n <= Len(f.text) => Bytes(f.text, o, n) \in Text
  BY BytesType DEF Text
<1>. QED
  BY <1>1, <1>2 DEF Record, LogRecord, EditBuffer

LEMMA GrownType ==
    ASSUME NEW log \in Seq(LogRecord), log # <<>>, NEW n \in Nat
    PROVE  /\ Grown(log, n) \in Seq(LogRecord)
           /\ Len(Grown(log, n)) = Len(log)
           /\ Grown(log, n)[Len(log)] = [log[Len(log)] EXCEPT !.size = log[Len(log)].size + n]
           /\ \A i \in 1 .. Len(log) - 1 : Grown(log, n)[i] = log[i]
<1>1. PICK k \in Nat \ {0} : k = Len(log)
  BY LenProperties, EmptySeq
<1>. DEFINE q == [log[k] EXCEPT !.size = log[k].size + n]
<1>2. q \in LogRecord
  <2>1. log[k] \in LogRecord
    BY <1>1, ElementOfSeq
  <2>2. log[k].size + n \in Nat
    <3>1. log[k].size \in Nat
      BY Zenon, <2>1 DEF LogRecord
    <3>. QED
      BY <3>1
  <2>. QED
    BY Zenon, <2>1, <2>2 DEF LogRecord
<1>3. Grown(log, n) = [log EXCEPT ![k] = q]
  BY <1>1 DEF Grown
<1>. HIDE DEF q
<1>4. /\ [log EXCEPT ![k] = q] \in Seq(LogRecord)
      /\ Len([log EXCEPT ![k] = q]) = Len(log)
      /\ \A j \in 1 .. Len(log) : [log EXCEPT ![k] = q][j] = IF j = k THEN q ELSE log[j]
  BY <1>1, <1>2, ExceptSeq
<1>. QED
  BY <1>1, <1>3, <1>4 DEF q

LEMMA AddLogSound ==
    ASSUME NEW e, Sound(e), NEW op \in LogOp, NEW o \in Nat, NEW n \in Nat,
           NEW before \in Text
    PROVE  /\ Sound(AddLog(e, op, o, n, before))
           /\ AddLog(e, op, o, n, before).text = e.text
<1>. DEFINE g == Notify(e, op, o, n)
            f == Evict(g)
            a == AddLog(e, op, o, n, before)
            r == Record(e, f, op, o, n, before)
<1>1. Sound(g) /\ g.text = e.text
  BY NotifySound
<1>2. /\ f \in EditBuffer /\ f.text = e.text
      /\ f.log_current <= Len(f.log) + 1
      /\ f.log # <<>> => Sound(f)
  BY <1>1, EvictSound
<1>3. r \in LogRecord
  <2>1. e \in EditBuffer /\ f.text \in Text
    BY <1>2 DEF EditBuffer, Sound
  <2>. HIDE DEF f
  <2>. QED
    BY <2>1, RecordType
<1>4. f.log \in Seq(LogRecord) /\ f.log_current \in Nat /\ f.nb_logs \in Nat
  BY <1>2 DEF EditBuffer
<1>5. CASE Coalesces(f, op, o)
  <2>1. a = [f EXCEPT !.log = Grown(f.log, n)]
    BY <1>5 DEF AddLog
  <2>2. f.log # <<>> /\ Sound(f)
    BY <1>2, <1>5 DEF Coalesces
  <2>. HIDE DEF f, g, r, a
  <2>3. Grown(f.log, n) \in Seq(LogRecord) /\ Len(Grown(f.log, n)) = Len(f.log)
    BY Zenon, <1>4, <2>2, GrownType
  <2>4. /\ a \in EditBuffer /\ a.log = Grown(f.log, n)
        /\ a.log_current = f.log_current /\ a.text = f.text
    BY Zenon, <1>2, <2>1, <2>3 DEF EditBuffer
  <2>. QED
    BY <2>2, <2>3, <2>4, <1>2 DEF Sound, a
<1>6. CASE ~Coalesces(f, op, o)
  <2>. DEFINE z == f.corrupt \/ (op # "INSERT" /\ o + n > Len(f.text))
              c == IF f.nb_logs = 0 THEN "NUL" ELSE f.last_log_char
  <2>1. a = [f EXCEPT !.last_log = op, !.last_log_char = c, !.log = Append(f.log, r),
                      !.nb_logs = f.nb_logs + 1, !.corrupt = z]
    BY <1>6 DEF AddLog
  <2>2. z \in BOOLEAN /\ f.nb_logs + 1 \in Nat /\ c \in Byte \cup {"NUL"}
    BY <1>2, <1>4 DEF EditBuffer
  <2>. HIDE DEF f, g, r, a, z, c
  <2>3. Append(f.log, r) \in Seq(LogRecord) /\ Len(Append(f.log, r)) = Len(f.log) + 1
    BY <1>3, <1>4, AppendProperties
  <2>4. /\ a \in EditBuffer /\ a.log = Append(f.log, r)
        /\ a.log_current = f.log_current /\ a.text = f.text
    BY Zenon, <1>2, <2>1, <2>2, <2>3 DEF EditBuffer
  <2>. QED
    BY <2>3, <2>4, <1>2 DEF Sound, a
<1>. QED
  BY <1>5, <1>6

LEMMA InsertSound ==
    ASSUME NEW e, Sound(e), NEW o \in Nat, NEW d \in Text
    PROVE  Sound(Insert(e, o, d))
<1>0. e \in EditBuffer /\ e.text \in Text /\ Len(e.text) \in Nat /\ Len(d) \in Nat
  BY LenProperties DEF Sound, EditBuffer, Text
<1>. DEFINE p == Clip(o, Len(e.text))
            a == AddLog(e, "INSERT", p, Len(d), e.text)
            t == InsertBytes(e.text, p, d)
<1>1. p \in Nat /\ p <= Len(e.text)
  BY <1>0 DEF Clip
<1>2. Insert(e, o, d) = e \/ Insert(e, o, d) = [a EXCEPT !.text = t]
  BY DEF Insert
<1>. HIDE DEF p
<1>3. Sound(a)
  BY Zenon, <1>0, <1>1, AddLogSound DEF LogOp
<1>4. t \in Text
  BY SMTT(30), Z3T(30), <1>0, <1>1, InsertType DEF Text
<1>. HIDE DEF a, t
<1>5. Sound([a EXCEPT !.text = t])
  BY Zenon, <1>3, <1>4 DEF Sound, EditBuffer
<1>. QED
  BY <1>2, <1>5

LEMMA DeleteSound ==
    ASSUME NEW e, Sound(e), NEW o \in Nat, NEW size \in Nat
    PROVE  Sound(Delete(e, o, size))
<1>0. e \in EditBuffer /\ e.text \in Text /\ Len(e.text) \in Nat
  BY LenProperties DEF Sound, EditBuffer, Text
<1>. DEFINE n == Clip(size, Len(e.text) - o)
            a == AddLog(e, "DELETE", o, n, e.text)
            t == DeleteBytes(e.text, o, n)
<1>1. Delete(e, o, size) = e \/ (o < Len(e.text) /\ Delete(e, o, size) = [a EXCEPT !.text = t])
  BY <1>0 DEF Delete
<1>2. CASE o < Len(e.text)
  <2>1. n \in Nat /\ o + n <= Len(e.text)
    BY <1>0, <1>2 DEF Clip
  <2>. HIDE DEF n
  <2>2. Sound(a)
    BY <1>0, <2>1, AddLogSound DEF LogOp
  <2>3. t \in Text
    BY <1>0, <2>1, DeleteType DEF Text
  <2>. HIDE DEF a, t
  <2>. QED
    BY Zenon, <1>1, <2>2, <2>3 DEF Sound, EditBuffer
<1>. QED
  BY <1>1, <1>2

LEMMA MuteSound ==
    ASSUME NEW e, Sound(e), NEW o \in Nat, NEW n \in Nat, NEW d \in Text
    PROVE  Sound(MuteInsert(e, o, d)) /\ Sound(MuteDelete(e, o, n))
<1>0. e \in EditBuffer /\ e.text \in Text /\ Len(e.text) \in Nat
  BY LenProperties DEF Sound, EditBuffer, Text
<1>1. Sound(MuteInsert(e, o, d))
  <2>. DEFINE p == Clip(o, Len(e.text))
              t == InsertBytes(e.text, p, d)
  <2>1. p \in Nat /\ p <= Len(e.text)
    BY <1>0 DEF Clip
  <2>2. MuteInsert(e, o, d) = e \/ MuteInsert(e, o, d) = [e EXCEPT !.text = t]
    BY DEF MuteInsert
  <2>. HIDE DEF p
  <2>3. t \in Text
    BY <1>0, <2>1, InsertType DEF Text
  <2>. HIDE DEF t
  <2>. QED
    BY SMTT(30), Z3T(30), <2>2, <2>3 DEF Sound, EditBuffer
<1>2. Sound(MuteDelete(e, o, n))
  <2>. DEFINE m == Clip(n, Len(e.text) - o)
              t == DeleteBytes(e.text, o, m)
  <2>1. MuteDelete(e, o, n) = e \/ (o < Len(e.text) /\ MuteDelete(e, o, n) = [e EXCEPT !.text = t])
    BY <1>0 DEF MuteDelete
  <2>2. CASE o < Len(e.text)
    <3>1. m \in Nat /\ o + m <= Len(e.text)
      BY <1>0, <2>2 DEF Clip
    <3>. HIDE DEF m
    <3>2. t \in Text
      BY <1>0, <3>1, DeleteType DEF Text
    <3>. HIDE DEF t
    <3>. QED
      BY SMTT(30), Z3T(30), <2>1, <3>2 DEF Sound, EditBuffer
  <2>. QED
    BY <2>1, <2>2
<1>. QED
  BY <1>1, <1>2

LEMMA QuietDeleteSound ==
    ASSUME NEW e, Sound(e), NEW o \in Nat, NEW size \in Nat
    PROVE  Sound(QuietDelete(e, o, size))
<1>0. e \in EditBuffer /\ e.text \in Text /\ Len(e.text) \in Nat
  BY LenProperties DEF Sound, EditBuffer, Text
<1>. DEFINE n == Clip(size, Len(e.text) - o)
            a == Notify(e, "DELETE", o, n)
            t == DeleteBytes(e.text, o, n)
<1>1. \/ QuietDelete(e, o, size) = e
      \/ o < Len(e.text) /\ QuietDelete(e, o, size) = [a EXCEPT !.text = t]
  BY <1>0 DEF QuietDelete
<1>2. CASE o < Len(e.text)
  <2>1. n \in Nat /\ o + n <= Len(e.text)
    BY <1>0, <1>2 DEF Clip
  <2>. HIDE DEF n
  <2>2. Sound(a)
    BY <2>1, NotifySound
  <2>3. t \in Text
    BY <1>0, <2>1, DeleteType DEF Text
  <2>. HIDE DEF a, t
  <2>. QED
    BY Zenon, <1>1, <2>2, <2>3 DEF Sound, EditBuffer
<1>. QED
  BY <1>1, <1>2

LEMMA WriteBytesType ==
    ASSUME NEW t \in Text, NEW o \in Nat, NEW d \in Text, o + Len(d) <= Len(t)
    PROVE  WriteBytes(t, o, d) \in Text
<1>1. Len(d) \in Nat /\ Len(t) \in Nat
  BY LenProperties DEF Text
<1>. DEFINE u == DeleteBytes(t, o, Len(d))
<1>2. u \in Text
  BY <1>1, DeleteType DEF Text
<1>3. Len(u) = Len(t) - Len(d)
  BY Zenon, <1>1, DeleteLen DEF Text
<1>4. o <= Len(u)
  BY <1>1, <1>3
<1>5. WriteBytes(t, o, d) = InsertBytes(u, o, d)
  BY DEF WriteBytes
<1>. HIDE DEF u
<1>. QED
  BY <1>2, <1>4, <1>5, InsertType DEF Text

LEMMA WriteSound ==
    ASSUME NEW e, Sound(e), NEW o \in Nat, NEW d \in Text
    PROVE  Sound(Write(e, o, d))
<1>0. e \in EditBuffer /\ e.text \in Text /\ Len(e.text) \in Nat /\ Len(d) \in Nat
  BY LenProperties DEF Sound, EditBuffer, Text
<1>. DEFINE n == Clip(Len(d), Len(e.text) - o)
            h == SubSeq(d, 1, n)
            g == SubSeq(d, n + 1, Len(d))
            a == AddLog(e, "WRITE", o, n, e.text)
            f == IF n <= 0 THEN e ELSE [a EXCEPT !.text = WriteBytes(e.text, o, h)]
<1>1. CASE e.readonly \/ o > Len(e.text) \/ d = <<>>
  BY <1>1 DEF Write
<1>2. CASE ~(e.readonly \/ o > Len(e.text) \/ d = <<>>)
  <2>1. n \in Nat /\ n <= Len(d) /\ o + n <= Len(e.text)
    BY <1>0, <1>2 DEF Clip
  <2>2. Write(e, o, d) = Insert(f, o + n, g)
    BY <1>2 DEF Write
  <2>. HIDE DEF n
  <2>3. h \in Text /\ Len(h) = n /\ g \in Text
    BY <1>0, <2>1, PartType DEF Text
  <2>. HIDE DEF h, g
  <2>4. WriteBytes(e.text, o, h) \in Text
    BY <1>0, <2>1, <2>3, WriteBytesType
  <2>5. Sound(a)
    BY Zenon, <1>0, <2>1, AddLogSound DEF LogOp
  <2>. HIDE DEF a
  <2>6. Sound(f)
    BY Zenon, <2>4, <2>5 DEF Sound, EditBuffer
  <2>. HIDE DEF f
  <2>. QED
    BY <2>1, <2>2, <2>3, <2>6, InsertSound
<1>. QED
  BY <1>1, <1>2

-----------------------------------------------------------------------------
(* So do the bodies of the commands. *)

LEMMA PointSound ==
    \A e : Sound(e) => \A k \in Nat :
        Sound([e EXCEPT !.point = k]) /\ Sound([e EXCEPT !.point = @ + k])
  BY SMTT(30), Z3T(30) DEF Sound, EditBuffer

LEMMA DeleteSelectionSound ==
    ASSUME NEW e, Sound(e)
    PROVE  Sound(Deselect(e)) /\ Sound(DeleteSelection(e))
<1>0. e.point \in Nat /\ e.mark \in Nat
  BY DEF Sound, EditBuffer
<1>1. \A f : Sound(f) => Sound(Deselect(f))
  BY Zenon DEF Sound, EditBuffer, Deselect
<1>2. Sound(DeleteRange(e, e.mark, e.point))
  <2>1. CASE e.mark < e.point
    BY <2>1, <1>0, DeleteSound DEF DeleteRange
  <2>2. CASE ~(e.mark < e.point)
    BY <2>2, <1>0, DeleteSound DEF DeleteRange
  <2>. QED
    BY <2>1, <2>2
<1>. QED
  BY <1>1, <1>2 DEF DeleteSelection

LEMMA InsertCharSound ==
    ASSUME NEW e, Sound(e), NEW c \in Byte
    PROVE  Sound(InsertChar(e, c))
<1>. DEFINE breaks == c = Newline \/ (c # Space /\ e.last_log_char = Space)
            f == [e EXCEPT !.last_log = IF breaks THEN "FREE" ELSE @,
                           !.last_log_char = c]
<1>1. Sound(f)
  BY Zenon DEF Sound, EditBuffer
<1>2. <<c>> \in Text /\ e.point \in Nat
  BY DEF Text, Sound, EditBuffer
<1>3. InsertChar(e, c) = [Insert(f, e.point, <<c>>) EXCEPT !.point = @ + 1]
  BY DEF InsertChar
<1>. HIDE DEF f
<1>4. Sound(Insert(f, e.point, <<c>>))
  BY <1>1, <1>2, InsertSound
<1>5. Sound([Insert(f, e.point, <<c>>) EXCEPT !.point = @ + 1])
  <2>1. PICK k \in Nat : k = 1
    OBVIOUS
  <2>2. Sound([Insert(f, e.point, <<c>>) EXCEPT !.point = @ + k])
    BY Zenon, <1>4, PointSound
  <2>. QED
    BY <2>1, <2>2
<1>. QED
  BY <1>3, <1>5

LEMMA WriteCharSound ==
    ASSUME NEW e, Sound(e), NEW c \in Byte, NEW overwrite \in BOOLEAN
    PROVE  Sound(text_write_char(e, c, overwrite))
<1>1. Sound(InsertChar(e, c))
  BY InsertCharSound
<1>2. <<c>> \in Text /\ e.point \in Nat
  BY DEF Text, Sound, EditBuffer
<1>3. Sound(Write(e, e.point, <<c>>))
  BY <1>2, WriteSound
<1>4. Sound([Write(e, e.point, <<c>>) EXCEPT !.point = @ + 1])
  BY Zenon, <1>3, PointSound
<1>. QED
  BY <1>1, <1>4 DEF text_write_char

LEMMA YankSound ==
    ASSUME NEW e, Sound(e), NEW d \in Text
    PROVE  Sound(Yank(e, d))
<1>. DEFINE f == [e EXCEPT !.mark = e.point,
                           !.last_log = IF d = <<>> THEN @ ELSE "FREE"]
<1>1. Sound(f) /\ e.point \in Nat
  BY Zenon DEF Sound, EditBuffer
<1>2. Yank(e, d) = [Insert(f, e.point, d) EXCEPT !.point = @ + Len(d)]
  BY DEF Yank
<1>. HIDE DEF f
<1>3. Sound(Insert(f, e.point, d)) /\ Len(d) \in Nat
  BY <1>1, InsertSound, LenProperties DEF Text
<1>. QED
  BY ZenonT(40), <1>2, <1>3, PointSound

LEMMA UndoSound ==
    ASSUME NEW e, Sound(e), NEW pos \in Nat, pos # 0, pos <= Len(e.log)
    PROVE  Sound(Undo(e, pos))
<1>. DEFINE r == e.log[pos]
            f == [Deselect(e) EXCEPT !.log_current = pos, !.last_log = "FREE"]
<1>1. Sound(f) /\ f.text = e.text /\ e.text \in Text
  BY Zenon DEF Sound, EditBuffer, Deselect
<1>2. r \in LogRecord
  <2>1. e.log \in Seq(LogRecord) /\ Len(e.log) \in Nat
    BY LenProperties DEF Sound, EditBuffer
  <2>. QED
    BY <2>1, ElementOfSeq
<1>3. /\ r.offset \in Nat /\ r.size \in Nat /\ r.data \in Text /\ r.was_modified \in BOOLEAN
      /\ r.op \in LogOp
  BY <1>2 DEF LogRecord
<1>. DEFINE p == UndoPlay(f, r, e.text)
<1>4. Undo(e, pos) = [p EXCEPT !.modified = r.was_modified]
  BY DEF Undo
<1>. HIDE DEF f, r
<1>5. Sound(p)
  <2>1. CASE r.op = "WRITE"
    <3>. DEFINE g == MuteInsert(MuteDelete(f, r.offset, r.size), r.offset, r.data)
                a == AddLog(g, "WRITE", r.offset, r.size, e.text)
    <3>1. Sound(g)
      BY SMTT(30), Z3T(30), <1>1, <1>3, MuteSound
    <3>2. p = [a EXCEPT !.point = r.offset + r.size]
      BY <2>1 DEF UndoPlay
    <3>. HIDE DEF g
    <3>3. Sound(a)
      BY Zenon, <3>1, <1>1, <1>3, AddLogSound DEF LogOp
    <3>. HIDE DEF a
    <3>. QED
      <4>1. r.offset + r.size \in Nat
        BY <1>3
      <4>. QED
        BY <3>2, <3>3, <4>1, PointSound, ZenonT(40)
  <2>2. CASE r.op = "DELETE"
    <3>. DEFINE g == MuteInsert(f, r.offset, r.data)
                a == AddLog(g, "INSERT", r.offset, r.size, e.text)
    <3>1. Sound(g)
      BY <1>1, <1>3, MuteSound
    <3>2. p = [a EXCEPT !.point = r.offset + r.size]
      BY <2>2 DEF UndoPlay
    <3>. HIDE DEF g
    <3>3. Sound(a)
      BY Zenon, <3>1, <1>1, <1>3, AddLogSound DEF LogOp
    <3>. HIDE DEF a
    <3>. QED
      <4>1. r.offset + r.size \in Nat
        BY <1>3
      <4>. QED
        BY <3>2, <3>3, <4>1, PointSound, ZenonT(40)
  <2>3. CASE r.op = "INSERT"
    <3>1. Sound(Delete(f, r.offset, r.size))
      BY <1>1, <1>3, DeleteSound
    <3>2. p = [Delete(f, r.offset, r.size) EXCEPT !.point = r.offset]
      BY <2>3 DEF UndoPlay
    <3>. QED
      BY <3>1, <3>2, <1>3, PointSound, ZenonT(40)
  <2>. QED
    BY <2>1, <2>2, <2>3, <1>3 DEF LogOp
<1>. HIDE DEF p
<1>. QED
  BY Zenon, <1>3, <1>4, <1>5 DEF Sound, EditBuffer

LEMMA RedoSound ==
    ASSUME NEW e, Sound(e), NEW cur \in Nat, e.log # <<>>
    PROVE  Sound(Redo(e, cur))
<1>1. PICK n \in Nat \ {0} : n = Len(e.log)
  BY LenProperties, EmptySeq DEF Sound, EditBuffer
<1>2. e.log \in Seq(LogRecord)
  BY DEF Sound, EditBuffer
<1>. DEFINE r == e.log[n]
            f == Deselect(e)
            l == SubSeq(e.log, 1, n - 1)
            c == IF cur + 1 >= n THEN 0 ELSE cur + 1
            p == RedoPlay(f, r)
<1>3. r \in LogRecord
  BY <1>1, <1>2, ElementOfSeq
<1>4. r.offset \in Nat /\ r.size \in Nat /\ r.data \in Text /\ r.was_modified \in BOOLEAN
      /\ r.op \in LogOp
  BY <1>3 DEF LogRecord
<1>5. Sound(f)
  BY DeleteSelectionSound
<1>6. Redo(e, cur) = [p EXCEPT !.modified = r.was_modified, !.log = l, !.log_current = c]
  BY <1>1 DEF Redo
<1>7. l \in Seq(LogRecord) /\ Len(l) = n - 1
  BY <1>1, <1>2, PartType
<1>8. c \in Nat /\ c <= n - 1
  BY <1>1
<1>. HIDE DEF r, f, l, c
<1>9. Sound(p)
  <2>1. CASE r.op = "WRITE"
    <3>. DEFINE g == MuteInsert(MuteDelete(f, r.offset, r.size), r.offset, r.data)
                a == Notify(g, "WRITE", r.offset, r.size)
    <3>1. Sound(g)
      BY SMTT(30), Z3T(30), <1>4, <1>5, MuteSound
    <3>2. p = [a EXCEPT !.point = r.offset + r.size]
      BY <2>1 DEF RedoPlay
    <3>. HIDE DEF g
    <3>3. Sound(a)
      BY <3>1, <1>4, NotifySound
    <3>. HIDE DEF a
    <3>. QED
      <4>1. r.offset + r.size \in Nat
        BY <1>4
      <4>. QED
        BY <3>2, <3>3, <4>1, PointSound, ZenonT(40)
  <2>2. CASE r.op = "DELETE"
    <3>. DEFINE g == MuteInsert(f, r.offset, r.data)
                a == Notify(g, "INSERT", r.offset, r.size)
    <3>1. Sound(g)
      BY <1>4, <1>5, MuteSound
    <3>2. p = [a EXCEPT !.point = r.offset + r.size]
      BY <2>2 DEF RedoPlay
    <3>. HIDE DEF g
    <3>3. Sound(a)
      BY <3>1, <1>4, NotifySound
    <3>. HIDE DEF a
    <3>. QED
      <4>1. r.offset + r.size \in Nat
        BY <1>4
      <4>. QED
        BY <3>2, <3>3, <4>1, PointSound, ZenonT(40)
  <2>3. CASE r.op = "INSERT"
    <3>1. Sound(QuietDelete(f, r.offset, r.size))
      BY <1>4, <1>5, QuietDeleteSound
    <3>2. p = [QuietDelete(f, r.offset, r.size) EXCEPT !.point = r.offset]
      BY <2>3 DEF RedoPlay
    <3>. QED
      BY <3>1, <3>2, <1>4, PointSound, ZenonT(40)
  <2>. QED
    BY <2>1, <2>2, <2>3, <1>4 DEF LogOp
<1>. HIDE DEF p
<1>10. /\ Redo(e, cur) \in EditBuffer /\ Redo(e, cur).log = l
       /\ Redo(e, cur).log_current = c
  BY <1>4, <1>6, <1>7, <1>8, <1>9, ZenonT(40) DEF Sound, EditBuffer
<1>. QED
  BY <1>7, <1>8, <1>10 DEF Sound

-----------------------------------------------------------------------------
(* Type correctness. *)

TypeInv == TypeOK /\ Sound(b)

LEMMA StringsType ==
    ASSUME NEW n \in Nat, NEW d \in Strings(n)
    PROVE  d \in Text
<1>1. PICK k \in 0 .. n : d \in [1 .. k -> Byte]
  BY DEF Strings
<1>. QED
  BY <1>1 DEF Text

LEMMA CurrentType ==
    TypeInv => /\ Current \in Nat /\ Current <= Len(b.log)
               /\ UndoPos \in Nat /\ UndoPos <= Len(b.log)
  BY LenProperties DEF TypeInv, Sound, EditBuffer, Current, UndoPos

LEMMA TypeInit ==
    Init => TypeInv
<1>. SUFFICES ASSUME Init PROVE TypeInv
  OBVIOUS
<1>1. PICK t \in Strings(MaxSize) :
        /\ b = [text |-> t, point |-> 0, mark |-> 0,
                region_style |-> FALSE, readonly |-> FALSE,
                modified |-> FALSE, log |-> <<>>, nb_logs |-> 0, log_current |-> 0,
                last_log |-> "FREE", last_log_char |-> "NUL", corrupt |-> FALSE]
        /\ last_cmd = "other"
        /\ file = {t}
  BY Zenon DEF Init
<1>2. t \in Text
  BY StringsType, UndoLogAssumption
<1>3. <<>> \in Seq(LogRecord) /\ Len(<<>>) = 0
  OBVIOUS
<1>4. b \in EditBuffer
  BY <1>1, <1>2, <1>3 DEF EditBuffer
<1>. QED
  BY <1>1, <1>2, <1>3, <1>4 DEF TypeInv, TypeOK, Sound

LEMMA SoundStep ==
    ASSUME TypeInv, Next
    PROVE  Sound(b')
<1>0. /\ Sound(b) /\ b.text \in Text /\ Len(b.text) \in Nat
      /\ b.point \in Nat /\ b.mark \in Nat
  BY LenProperties DEF TypeInv, Sound, EditBuffer, Text
<1>1. ASSUME NEW c \in Byte, NEW overwrite \in BOOLEAN, do_char(c, overwrite)
      PROVE  Sound(b')
  BY <1>0, <1>1, DeleteSelectionSound, WriteCharSound DEF do_char
<1>2. CASE do_delete_char
  <2>1. Sound(Delete(Deselect(b), b.point, 1))
    BY <1>0, DeleteSelectionSound, DeleteSound
  <2>. QED
    BY <1>0, <1>2, <2>1, DeleteSelectionSound DEF do_delete_char
<1>3. CASE do_kill_region
  <2>. DEFINE e == Deselect(b)
              k == IF b.mark < b.point THEN b.mark ELSE b.point
              g == DeleteRange(e, b.mark, b.point)
  <2>1. Sound(e)
    BY <1>0, DeleteSelectionSound
  <2>. HIDE DEF e
  <2>2. Sound(g)
    <3>1. CASE b.mark < b.point
      BY <3>1, <1>0, <2>1, DeleteSound DEF DeleteRange
    <3>2. CASE ~(b.mark < b.point)
      BY SMTT(30), Z3T(30), <3>2, <1>0, <2>1, DeleteSound DEF DeleteRange
    <3>. QED
      BY <3>1, <3>2
  <2>3. b' = IF b.readonly THEN e ELSE [g EXCEPT !.point = k]
    BY <1>3 DEF do_kill_region, e
  <2>4. k \in Nat
    BY <1>0
  <2>. HIDE DEF g, k
  <2>. QED
    BY Zenon, <2>1, <2>2, <2>3, <2>4, PointSound
<1>4. ASSUME NEW d \in Strings(MaxYank), do_yank(d)
      PROVE  Sound(b')
  <2>1. d \in Text
    BY StringsType, UndoLogAssumption
  <2>. QED
    BY <1>0, <1>4, <2>1, DeleteSelectionSound, YankSound DEF do_yank
<1>5. ASSUME NEW p \in 0 .. Len(b.text), move_point(p)
      PROVE  Sound(b')
  <2>1. p \in Nat /\ b' = [b EXCEPT !.point = p]
    BY <1>0, <1>5 DEF move_point
  <2>. QED
    BY Zenon, <1>0, <2>1, PointSound
<1>6. CASE do_set_mark
  <2>1. Clip(b.point, Len(b.text)) \in Nat
    BY <1>0 DEF Clip
  <2>. QED
    BY Zenon, <1>0, <1>6, <2>1 DEF do_set_mark, Sound, EditBuffer
<1>7. CASE do_toggle_read_only
  BY Zenon, <1>0, <1>7 DEF do_toggle_read_only, Sound, EditBuffer
<1>8. ASSUME NEW arg \in BOOLEAN, do_not_modified(arg)
      PROVE  Sound(b')
  BY Zenon, <1>0, <1>8 DEF do_not_modified, Sound, EditBuffer
<1>9. ASSUME NEW d \in Strings(MaxYank), shell_read_cb(d)
      PROVE  Sound(b')
  <2>. DEFINE e == [b EXCEPT !.readonly = FALSE, !.last_log = "FREE"]
              f == Write(e, Len(b.text), d)
  <2>1. Sound(e)
    BY Zenon, <1>0 DEF Sound, EditBuffer
  <2>2. d \in Text
    BY StringsType, UndoLogAssumption
  <2>3. b' = IF b.readonly THEN [f EXCEPT !.modified = FALSE, !.readonly = TRUE] ELSE f
    BY <1>9 DEF shell_read_cb
  <2>. HIDE DEF e
  <2>4. Sound(f)
    BY <1>0, <2>1, <2>2, WriteSound
  <2>. HIDE DEF f
  <2>. QED
    BY Zenon, <2>3, <2>4 DEF Sound, EditBuffer
<1>10. CASE do_save_buffer
  BY Zenon, <1>0, <1>10 DEF do_save_buffer, Sound, EditBuffer
<1>11. CASE save_buffer_failure
  BY <1>0, <1>11 DEF save_buffer_failure
<1>12. CASE do_undo
  <2>1. Current \in Nat /\ Current <= Len(b.log) /\ UndoPos \in Nat /\ UndoPos <= Len(b.log)
    BY CurrentType
  <2>2. UndoPos # 0 => Sound(Undo(b, UndoPos))
    BY <1>0, <2>1, UndoSound
  <2>3. Sound([Deselect(b) EXCEPT !.log_current = Current])
    BY Zenon, <1>0, <2>1 DEF Sound, EditBuffer, Deselect
  <2>. QED
    BY <1>0, <1>12, <2>2, <2>3 DEF do_undo
<1>13. CASE do_redo
  <2>1. Current \in Nat /\ Current <= Len(b.log)
    BY CurrentType
  <2>2. CanRedo => Sound(Redo(b, Current))
    BY <1>0, <2>1, RedoSound DEF CanRedo
  <2>3. Sound([Deselect(b) EXCEPT !.log_current = Current])
    BY ZenonT(40), <1>0, <2>1 DEF Sound, EditBuffer, Deselect
  <2>. QED
    BY <1>0, <1>13, <2>2, <2>3 DEF do_redo
<1>. QED
  BY <1>1, <1>2, <1>3, <1>4, <1>5, <1>6, <1>7, <1>8, <1>9, <1>10, <1>11, <1>12, <1>13
  DEF Next

LEMMA CommandAndFileStep ==
    ASSUME TypeInv, Next
    PROVE  last_cmd' \in {"undo", "redo", "other"} /\ file' \in SUBSET Text
<1>0. b.text \in Text /\ Len(b.text) \in Nat /\ file \in SUBSET Text
  BY Zenon, LenProperties DEF TypeInv, TypeOK, Sound, EditBuffer, Text
<1>1. last_cmd' \in {"undo", "redo", "other"}
  BY ZenonT(40) DEF TypeInv, TypeOK, Next, Issue, do_char, do_delete_char, do_kill_region, do_yank,
         move_point, do_set_mark, do_toggle_read_only, do_not_modified, shell_read_cb,
         do_save_buffer, save_buffer_failure, do_undo, do_redo
<1>2. file' \in SUBSET Text
  <2>1. CASE do_save_buffer
    BY <1>0, <2>1 DEF do_save_buffer
  <2>2. CASE save_buffer_failure
    <3>1. ASSUME NEW n \in 0 .. Len(b.text) - 1
          PROVE  SubSeq(b.text, 1, n) \in Text
      BY <1>0, PartType DEF Text
    <3>2. PICK f \in {file, {}} \cup {{SubSeq(b.text, 1, n)} : n \in 0 .. Len(b.text) - 1} :
              file' = f
      BY <2>2 DEF save_buffer_failure
    <3>3. CASE f \in {file, {}}
      BY <1>0, <3>2, <3>3
    <3>4. CASE f \in {{SubSeq(b.text, 1, n)} : n \in 0 .. Len(b.text) - 1}
      <4>1. PICK n \in 0 .. Len(b.text) - 1 : f = {SubSeq(b.text, 1, n)}
        BY <3>4
      <4>. QED
        BY <3>1, <3>2, <4>1
    <3>. QED
      BY <3>3, <3>4
  <2>3. CASE UNCHANGED file
    BY <1>0, <2>3
  <2>. QED
    BY <2>1, <2>2, <2>3
    DEF Next, do_char, do_delete_char, do_kill_region, do_yank, move_point, do_set_mark,
        do_toggle_read_only, do_not_modified, shell_read_cb, do_undo, do_redo
<1>. QED
  BY <1>1, <1>2

LEMMA TypeStep ==
    ASSUME TypeInv, [Next]_vars
    PROVE  TypeInv'
<1>1. CASE Next
  <2>1. Sound(b') /\ last_cmd' \in {"undo", "redo", "other"} /\ file' \in SUBSET Text
    BY <1>1, SoundStep, CommandAndFileStep
  <2>. QED
    BY <2>1 DEF TypeInv, TypeOK, Sound
<1>2. CASE UNCHANGED vars
  BY <1>2 DEF TypeInv, TypeOK, Sound, vars
<1>. QED
  BY <1>1, <1>2

(* Every reachable buffer has the type of EditBuffer, whatever the bounds,  *)
(* the limit on the log and the commands used: no offset, count or log      *)
(* position of buffer.c becomes negative, and the log_current of do_undo    *)
(* and do_redo never points beyond the log.                                 *)
THEOREM TypeCorrect ==
    Spec => [](TypeOK /\ b.log_current <= Len(b.log))
<1>1. Init => TypeInv
  BY TypeInit
<1>2. TypeInv /\ [Next]_vars => TypeInv'
  BY TypeStep
<1>3. TypeInv => TypeOK /\ b.log_current <= Len(b.log)
  BY DEF TypeInv, Sound
<1>. QED
  BY <1>1, <1>2, <1>3, PTL DEF Spec

-----------------------------------------------------------------------------
(***************************************************************************)
(* The modified flag.  F stands for the contents of the file: a buffer is  *)
(* tracked when it, and every text that a record with was_modified = 0     *)
(* stands for, is the text of the file unless the flag is set.             *)
(***************************************************************************)
LogTracked(F, log) ==
    \A i \in 1 .. Len(log) : log[i].was_modified \/ F = {log[i].before}
Tracked(F, e) == (e.modified \/ F = {e.text}) /\ LogTracked(F, e.log)

(* From e to f no change of the text goes unmarked. *)
Traced(e, f) ==
    /\ f.modified \/ (~e.modified /\ f.text = e.text)
    /\ \A F : Tracked(F, e) => Tracked(F, f)

LEMMA TracedTrans ==
    ASSUME NEW e, NEW f, NEW g, Traced(e, f), Traced(f, g)
    PROVE  Traced(e, g)
  BY DEF Traced

LEMMA SameTraced ==
    ASSUME NEW e, NEW f, f.text = e.text, f.modified = e.modified, f.log = e.log
    PROVE  Traced(e, f)
  BY DEF Traced, Tracked

LEMMA GrownTracked ==
    ASSUME NEW F, NEW log \in Seq(LogRecord), log # <<>>, NEW n \in Nat, LogTracked(F, log)
    PROVE  LogTracked(F, Grown(log, n))
<1>. DEFINE g == Grown(log, n)
<1>1. PICK k \in Nat \ {0} : k = Len(log)
  BY LenProperties, EmptySeq
<1>2. /\ Len(g) = k /\ g[k] = [log[k] EXCEPT !.size = log[k].size + n]
      /\ \A i \in 1 .. k - 1 : g[i] = log[i]
  BY <1>1, GrownType
<1>. HIDE DEF g
<1>3. g[k].was_modified = log[k].was_modified /\ g[k].before = log[k].before
  <2>1. log[k] \in LogRecord
    BY <1>1, ElementOfSeq
  <2>. QED
    BY <1>2, <2>1 DEF LogRecord
<1>4. ASSUME NEW i \in 1 .. k
      PROVE  g[i].was_modified \/ F = {g[i].before}
  <2>1. log[i].was_modified \/ F = {log[i].before}
    BY <1>1 DEF LogTracked
  <2>2. i = k \/ g[i] = log[i]
    BY <1>2
  <2>. QED
    BY <1>3, <2>1, <2>2
<1>. QED
  BY <1>2, <1>4 DEF LogTracked, g

LEMMA AppendTracked ==
    ASSUME NEW F, NEW log \in Seq(LogRecord), NEW r \in LogRecord, LogTracked(F, log),
           r.was_modified \/ F = {r.before}
    PROVE  LogTracked(F, Append(log, r))
<1>1. Len(log) \in Nat
  BY LenProperties
<1>2. /\ Len(Append(log, r)) = Len(log) + 1 /\ Append(log, r)[Len(log) + 1] = r
      /\ \A i \in 1 .. Len(log) : Append(log, r)[i] = log[i]
  BY AppendProperties
<1>. DEFINE g == Append(log, r)
<1>. HIDE DEF g
<1>3. ASSUME NEW i \in 1 .. Len(log) + 1
      PROVE  g[i].was_modified \/ F = {g[i].before}
  <2>1. CASE i = Len(log) + 1
    BY <1>2, <2>1 DEF g
  <2>2. CASE i # Len(log) + 1
    <3>1. i \in 1 .. Len(log) /\ g[i] = log[i]
      BY <1>1, <1>2, <2>2 DEF g
    <3>. QED
      BY <3>1 DEF LogTracked
  <2>. QED
    BY <2>1, <2>2
<1>. QED
  BY <1>2, <1>3 DEF LogTracked, g

(* Neither does eb_addlog when it makes room ... *)
LEMMA EvictTracked ==
    ASSUME NEW e, e \in EditBuffer
    PROVE  /\ Evict(e).modified = e.modified
           /\ \A F : LogTracked(F, e.log) => LogTracked(F, Evict(e).log)
<1>1. CASE ~LogFull(e)
  BY <1>1 DEF Evict
<1>2. CASE LogFull(e) /\ e.log = <<>>
  <2>1. Evict(e) = [e EXCEPT !.corrupt = TRUE]
    BY <1>2 DEF Evict
  <2>. QED
    BY <2>1 DEF EditBuffer
<1>3. CASE LogFull(e) /\ e.log # <<>>
  <2>. DEFINE c == IF e.log_current > 1 THEN e.log_current - 1 ELSE e.log_current
              l == Tail(e.log)
              k == e.nb_logs - 1
  <2>1. Evict(e) = [e EXCEPT !.log = l, !.log_current = c, !.nb_logs = k]
    BY <1>3 DEF Evict
  <2>2. /\ Len(l) = Len(e.log) - 1 /\ Len(e.log) \in Nat
        /\ \A i \in 1 .. Len(e.log) - 1 : l[i] = e.log[i + 1]
    BY <1>3, HeadTailProperties, LenProperties DEF EditBuffer
  <2>. HIDE DEF c, l, k
  <2>3. Evict(e).modified = e.modified /\ Evict(e).log = l
    BY <2>1 DEF EditBuffer
  <2>4. ASSUME NEW F, LogTracked(F, e.log)
        PROVE  LogTracked(F, l)
    <3>1. ASSUME NEW i \in 1 .. Len(l)
          PROVE  i + 1 \in 1 .. Len(e.log) /\ l[i] = e.log[i + 1]
      BY <2>2
    <3>. QED
      BY SMTT(30), Z3T(30), <2>4, <3>1 DEF LogTracked
  <2>. QED
    BY <2>3, <2>4
<1>. QED
  BY <1>1, <1>2, <1>3

(* ... and the record it adds has the flag and the text of before. *)
LEMMA AddLogTracked ==
    ASSUME NEW e, Sound(e), NEW op \in LogOp, NEW o \in Nat, NEW n \in Nat,
           NEW before \in Text
    PROVE  /\ AddLog(e, op, o, n, before).modified = TRUE
           /\ \A F : LogTracked(F, e.log) /\ (e.modified \/ F = {before}) =>
                        LogTracked(F, AddLog(e, op, o, n, before).log)
<1>. DEFINE g == Notify(e, op, o, n)
            f == Evict(g)
            a == AddLog(e, op, o, n, before)
            r == Record(e, f, op, o, n, before)
<1>1. Sound(g) /\ g.text = e.text
  BY NotifySound
<1>2. g.modified = TRUE /\ g.log = e.log
  BY DEF Notify, Sound, EditBuffer
<1>. HIDE DEF g
<1>3. f \in EditBuffer /\ f.text = e.text
  BY <1>1, EvictSound
<1>4. /\ f.modified = TRUE
      /\ \A F : LogTracked(F, e.log) => LogTracked(F, f.log)
  <2>1. g \in EditBuffer
    BY <1>1 DEF Sound
  <2>. HIDE DEF f
  <2>2. /\ f.modified = g.modified
        /\ \A F : LogTracked(F, g.log) => LogTracked(F, f.log)
    BY <2>1, EvictTracked DEF f
  <2>. QED
    BY <1>2, <2>2
<1>5. a = IF Coalesces(f, op, o)
          THEN [f EXCEPT !.log = Grown(f.log, n)]
          ELSE [f EXCEPT !.last_log = op,
                         !.last_log_char = IF f.nb_logs = 0 THEN "NUL" ELSE @,
                         !.log = Append(f.log, r), !.nb_logs = f.nb_logs + 1,
                         !.corrupt = f.corrupt \/ (op # "INSERT" /\ o + n > Len(f.text))]
  BY DEF AddLog, g
<1>. HIDE DEF f, a
<1>6. r \in LogRecord /\ r.was_modified = e.modified /\ r.before = before
  <2>1. e \in EditBuffer /\ f.text \in Text
    BY <1>3 DEF EditBuffer, Sound
  <2>2. r \in LogRecord
    BY <2>1, RecordType
  <2>. QED
    BY <2>2 DEF Record
<1>7. f.log \in Seq(LogRecord)
  BY <1>3 DEF EditBuffer
<1>. HIDE DEF r
<1>8. CASE Coalesces(f, op, o)
  <2>1. f.log # <<>>
    BY <1>8 DEF Coalesces
  <2>2. a.modified = TRUE /\ a.log = Grown(f.log, n)
    BY <1>3, <1>4, <1>5, <1>8 DEF EditBuffer
  <2>. QED
    BY <1>4, <1>7, <2>1, <2>2, GrownTracked DEF a
<1>9. CASE ~Coalesces(f, op, o)
  <2>1. a.modified = TRUE /\ a.log = Append(f.log, r)
    BY <1>3, <1>4, <1>5, <1>9 DEF EditBuffer
  <2>. QED
    BY <1>4, <1>6, <1>7, <2>1, AppendTracked DEF a
<1>. QED
  BY Zenon, <1>8, <1>9

LEMMA InsertTraced ==
    ASSUME NEW e, Sound(e), NEW o \in Nat, NEW d \in Text
    PROVE  Traced(e, Insert(e, o, d))
<1>0. e \in EditBuffer /\ e.text \in Text /\ Len(e.text) \in Nat /\ Len(d) \in Nat
  BY LenProperties DEF Sound, EditBuffer, Text
<1>. DEFINE p == Clip(o, Len(e.text))
            a == AddLog(e, "INSERT", p, Len(d), e.text)
            t == InsertBytes(e.text, p, d)
<1>1. p \in Nat
  BY <1>0 DEF Clip
<1>2. Insert(e, o, d) = IF e.readonly \/ d = <<>> THEN e ELSE [a EXCEPT !.text = t]
  BY DEF Insert
<1>. HIDE DEF p
<1>3. Sound(a)
  BY Zenon, <1>0, <1>1, AddLogSound DEF LogOp
<1>4. /\ a.modified = TRUE
      /\ \A F : LogTracked(F, e.log) /\ (e.modified \/ F = {e.text}) => LogTracked(F, a.log)
  BY Zenon, <1>0, <1>1, AddLogTracked DEF LogOp
<1>. HIDE DEF a, t
<1>5. [a EXCEPT !.text = t].modified = TRUE /\ [a EXCEPT !.text = t].log = a.log
  BY <1>3, <1>4 DEF Sound, EditBuffer
<1>6. Traced(e, [a EXCEPT !.text = t])
  BY <1>4, <1>5 DEF Traced, Tracked
<1>. QED
  BY <1>2, <1>5, <1>6, SameTraced

LEMMA DeleteTraced ==
    ASSUME NEW e, Sound(e), NEW o \in Nat, NEW size \in Nat
    PROVE  Traced(e, Delete(e, o, size))
<1>0. e \in EditBuffer /\ e.text \in Text /\ Len(e.text) \in Nat
  BY LenProperties DEF Sound, EditBuffer, Text
<1>. DEFINE n == Clip(size, Len(e.text) - o)
            a == AddLog(e, "DELETE", o, n, e.text)
            t == DeleteBytes(e.text, o, n)
<1>1. Delete(e, o, size) = e \/ (o < Len(e.text) /\ Delete(e, o, size) = [a EXCEPT !.text = t])
  BY <1>0 DEF Delete
<1>2. Traced(e, e)
  BY SameTraced
<1>3. CASE o < Len(e.text)
  <2>1. n \in Nat
    BY <1>0, <1>3 DEF Clip
  <2>. HIDE DEF n
  <2>2. Sound(a)
    BY <1>0, <2>1, AddLogSound DEF LogOp
  <2>3. /\ a.modified = TRUE
        /\ \A F : LogTracked(F, e.log) /\ (e.modified \/ F = {e.text}) => LogTracked(F, a.log)
    BY Zenon, <1>0, <2>1, AddLogTracked DEF LogOp
  <2>. HIDE DEF a, t
  <2>4. [a EXCEPT !.text = t].modified = TRUE /\ [a EXCEPT !.text = t].log = a.log
    BY <2>2, <2>3 DEF Sound, EditBuffer
  <2>5. Traced(e, [a EXCEPT !.text = t])
    BY <2>3, <2>4 DEF Traced, Tracked
  <2>. QED
    BY <1>1, <1>2, <2>5
<1>. QED
  BY <1>1, <1>2, <1>3

LEMMA WriteTraced ==
    ASSUME NEW e, Sound(e), NEW o \in Nat, NEW d \in Text
    PROVE  Traced(e, Write(e, o, d))
<1>0. e \in EditBuffer /\ e.text \in Text /\ Len(e.text) \in Nat /\ Len(d) \in Nat
  BY LenProperties DEF Sound, EditBuffer, Text
<1>. DEFINE n == Clip(Len(d), Len(e.text) - o)
            h == SubSeq(d, 1, n)
            g == SubSeq(d, n + 1, Len(d))
            a == AddLog(e, "WRITE", o, n, e.text)
            t == WriteBytes(e.text, o, h)
            f == IF n <= 0 THEN e ELSE [a EXCEPT !.text = t]
<1>1. CASE e.readonly \/ o > Len(e.text) \/ d = <<>>
  <2>1. Write(e, o, d) = e
    BY <1>1 DEF Write
  <2>. QED
    BY <2>1, SameTraced
<1>2. CASE ~(e.readonly \/ o > Len(e.text) \/ d = <<>>)
  <2>1. n \in Nat /\ n <= Len(d) /\ o + n <= Len(e.text)
    BY <1>0, <1>2 DEF Clip
  <2>2. Write(e, o, d) = Insert(f, o + n, g)
    BY <1>2 DEF Write
  <2>. HIDE DEF n
  <2>3. h \in Text /\ Len(h) = n /\ g \in Text
    BY <1>0, <2>1, PartType DEF Text
  <2>. HIDE DEF h, g
  <2>4. t \in Text
    BY <1>0, <2>1, <2>3, WriteBytesType
  <2>5. Sound(a)
    BY Zenon, <1>0, <2>1, AddLogSound DEF LogOp
  <2>6. /\ a.modified = TRUE
        /\ \A F : LogTracked(F, e.log) /\ (e.modified \/ F = {e.text}) => LogTracked(F, a.log)
    BY Zenon, <1>0, <2>1, AddLogTracked DEF LogOp
  <2>. HIDE DEF a, t
  <2>7. [a EXCEPT !.text = t].modified = TRUE /\ [a EXCEPT !.text = t].log = a.log
    BY <2>5, <2>6 DEF Sound, EditBuffer
  <2>8. Traced(e, [a EXCEPT !.text = t])
    BY <2>6, <2>7 DEF Traced, Tracked
  <2>9. Traced(e, f)
    BY <2>8, SameTraced
  <2>10. Sound(f)
    BY Zenon, <2>4, <2>5 DEF Sound, EditBuffer
  <2>. HIDE DEF f
  <2>11. Traced(f, Insert(f, o + n, g))
    BY <2>1, <2>3, <2>10, InsertTraced
  <2>. QED
    BY <2>2, <2>9, <2>11, TracedTrans
<1>. QED
  BY <1>1, <1>2

(* So do the bodies of the commands that edit. *)
LEMMA PointTraced ==
    ASSUME NEW e, e \in EditBuffer, NEW k
    PROVE  Traced(e, [e EXCEPT !.point = k]) /\ Traced(e, [e EXCEPT !.point = @ + k])
<1>1. \A j : LET f == [e EXCEPT !.point = j] IN
             f.text = e.text /\ f.modified = e.modified /\ f.log = e.log
  BY DEF EditBuffer
<1>2. \A j : Traced(e, [e EXCEPT !.point = j])
  BY Zenon, <1>1, SameTraced
<1>. QED
  BY <1>2

LEMMA DeleteSelectionTraced ==
    ASSUME NEW e, Sound(e)
    PROVE  /\ Traced(e, Deselect(e)) /\ Traced(e, DeleteSelection(e))
           /\ \A p \in Nat, q \in Nat : Traced(e, DeleteRange(e, p, q))
<1>0. e.point \in Nat /\ e.mark \in Nat /\ e \in EditBuffer
  BY DEF Sound, EditBuffer
<1>1. \A f : f \in EditBuffer => Traced(f, Deselect(f))
  <2>1. ASSUME NEW f, f \in EditBuffer
        PROVE  /\ Deselect(f).text = f.text /\ Deselect(f).modified = f.modified
               /\ Deselect(f).log = f.log
    BY <2>1 DEF Deselect, EditBuffer
  <2>. QED
    BY <2>1, SameTraced
<1>2. ASSUME NEW p \in Nat, NEW q \in Nat
      PROVE  Traced(e, DeleteRange(e, p, q)) /\ Sound(DeleteRange(e, p, q))
  <2>1. CASE p < q
    BY <2>1, DeleteTraced, DeleteSound DEF DeleteRange
  <2>2. CASE ~(p < q)
    BY <2>2, DeleteTraced, DeleteSound DEF DeleteRange
  <2>. QED
    BY <2>1, <2>2
<1>3. CASE SelectionActive(e)
  <2>. DEFINE f == DeleteRange(e, e.mark, e.point)
  <2>1. Traced(e, f) /\ f \in EditBuffer
    BY Zenon, <1>0, <1>2 DEF Sound
  <2>2. DeleteSelection(e) = Deselect(f)
    BY <1>3 DEF DeleteSelection
  <2>. HIDE DEF f
  <2>3. Traced(e, Deselect(f))
    BY <1>1, <2>1, TracedTrans
  <2>. QED
    BY <1>0, <1>1, <1>2, <2>2, <2>3
<1>4. CASE ~SelectionActive(e)
  BY <1>0, <1>1, <1>2, <1>4 DEF DeleteSelection
<1>. QED
  BY <1>3, <1>4

LEMMA WriteCharTraced ==
    ASSUME NEW e, Sound(e), NEW c \in Byte, NEW overwrite \in BOOLEAN
    PROVE  Traced(e, text_write_char(e, c, overwrite))
<1>0. <<c>> \in Text /\ e.point \in Nat /\ e \in EditBuffer
  BY DEF Text, Sound, EditBuffer
<1>1. Traced(e, InsertChar(e, c))
  <2>. DEFINE breaks == c = Newline \/ (c # Space /\ e.last_log_char = Space)
              f == [e EXCEPT !.last_log = IF breaks THEN "FREE" ELSE @,
                             !.last_log_char = c]
              g == Insert(f, e.point, <<c>>)
  <2>1. Sound(f) /\ f.text = e.text /\ f.modified = e.modified /\ f.log = e.log
    BY Zenon DEF Sound, EditBuffer
  <2>2. InsertChar(e, c) = [g EXCEPT !.point = @ + 1]
    BY DEF InsertChar
  <2>. HIDE DEF f
  <2>3. Traced(e, f)
    BY <2>1, SameTraced
  <2>4. Traced(f, g) /\ Sound(g)
    BY <1>0, <2>1, InsertTraced, InsertSound
  <2>. HIDE DEF g
  <2>5. Traced(g, [g EXCEPT !.point = @ + 1])
    BY Zenon, <2>4, PointTraced DEF Sound
  <2>. QED
    BY <2>2, <2>3, <2>4, <2>5, TracedTrans
<1>2. Traced(e, [Write(e, e.point, <<c>>) EXCEPT !.point = @ + 1])
  <2>. DEFINE g == Write(e, e.point, <<c>>)
  <2>1. Traced(e, g) /\ Sound(g)
    BY <1>0, WriteTraced, WriteSound
  <2>. HIDE DEF g
  <2>2. Traced(g, [g EXCEPT !.point = @ + 1])
    BY Zenon, <2>1, PointTraced DEF Sound
  <2>. QED
    BY <2>1, <2>2, TracedTrans DEF g
<1>. QED
  BY <1>1, <1>2 DEF text_write_char

LEMMA YankTraced ==
    ASSUME NEW e, Sound(e), NEW d \in Text
    PROVE  Traced(e, Yank(e, d))
<1>. DEFINE f == [e EXCEPT !.mark = e.point,
                           !.last_log = IF d = <<>> THEN @ ELSE "FREE"]
            g == Insert(f, e.point, d)
<1>1. Sound(f) /\ e.point \in Nat /\ f.text = e.text /\ f.modified = e.modified /\ f.log = e.log
  BY Zenon DEF Sound, EditBuffer
<1>2. Yank(e, d) = [g EXCEPT !.point = @ + Len(d)]
  BY DEF Yank
<1>. HIDE DEF f
<1>3. Traced(e, f)
  BY <1>1, SameTraced
<1>4. Traced(f, g) /\ Sound(g)
  BY <1>1, InsertTraced, InsertSound
<1>. HIDE DEF g
<1>5. Traced(g, [g EXCEPT !.point = @ + Len(d)])
  BY Zenon, <1>4, PointTraced DEF Sound
<1>. QED
  BY <1>2, <1>3, <1>4, <1>5, TracedTrans

(* Every step other than undo, redo and a save either marks what it        *)
(* changes or clears the flag on purpose.                                  *)
LEMMA EditTraced ==
    ASSUME TypeInv, Next
    PROVE  Traced(b, b') \/ do_undo \/ do_redo \/ do_save_buffer \/ ClearsOnPurpose
<1>0. /\ Sound(b) /\ b \in EditBuffer /\ b.text \in Text /\ Len(b.text) \in Nat
      /\ b.point \in Nat /\ b.mark \in Nat
  BY LenProperties DEF TypeInv, Sound, EditBuffer, Text
<1>a. Traced(b, b)
  BY SameTraced
<1>b. /\ Sound(Deselect(b)) /\ Sound(DeleteSelection(b))
      /\ Traced(b, Deselect(b)) /\ Traced(b, DeleteSelection(b))
  BY <1>0, DeleteSelectionSound, DeleteSelectionTraced
<1>1. ASSUME NEW c \in Byte, NEW overwrite \in BOOLEAN, do_char(c, overwrite)
      PROVE  Traced(b, b')
  <2>1. Traced(b, text_write_char(DeleteSelection(b), c, overwrite))
    BY <1>b, WriteCharTraced, TracedTrans
  <2>. QED
    BY <1>1, <1>a, <2>1 DEF do_char
<1>2. CASE do_delete_char
  <2>1. Traced(Deselect(b), Delete(Deselect(b), b.point, 1))
    BY <1>0, <1>b, DeleteTraced
  <2>2. Traced(b, Delete(Deselect(b), b.point, 1))
    BY <1>b, <2>1, TracedTrans
  <2>. QED
    BY <1>2, <1>a, <1>b, <2>2 DEF do_delete_char
<1>3. CASE do_kill_region
  <2>. DEFINE k == IF b.mark < b.point THEN b.mark ELSE b.point
              g == DeleteRange(Deselect(b), b.mark, b.point)
  <2>1. Traced(Deselect(b), g)
    BY <1>0, <1>b, DeleteSelectionTraced
  <2>2. g \in EditBuffer
    BY <1>0, <1>b, DeleteSound DEF DeleteRange, Sound
  <2>3. b' = IF b.readonly THEN Deselect(b) ELSE [g EXCEPT !.point = k]
    BY <1>3 DEF do_kill_region
  <2>. HIDE DEF g, k
  <2>4. Traced(g, [g EXCEPT !.point = k])
    BY Zenon, <2>2, PointTraced
  <2>5. Traced(b, [g EXCEPT !.point = k])
    BY <1>b, <2>1, <2>4, TracedTrans
  <2>. QED
    BY <1>b, <2>3, <2>5
<1>4. ASSUME NEW d \in Strings(MaxYank), do_yank(d)
      PROVE  Traced(b, b')
  <2>1. d \in Text
    BY StringsType, UndoLogAssumption
  <2>2. Traced(b, Yank(DeleteSelection(b), d))
    BY <1>b, <2>1, YankTraced, TracedTrans
  <2>. QED
    BY <1>4, <1>a, <2>2 DEF do_yank
<1>5. ASSUME NEW p \in 0 .. Len(b.text), move_point(p)
      PROVE  Traced(b, b')
  BY Zenon, <1>0, <1>5, PointTraced DEF move_point
<1>6. CASE do_set_mark
  <2>1. b'.text = b.text /\ b'.modified = b.modified /\ b'.log = b.log
    BY <1>0, <1>6 DEF do_set_mark, EditBuffer
  <2>. QED
    BY <2>1, SameTraced
<1>7. CASE do_toggle_read_only
  <2>1. b'.text = b.text /\ b'.modified = b.modified /\ b'.log = b.log
    BY <1>0, <1>7 DEF do_toggle_read_only, EditBuffer
  <2>. QED
    BY <2>1, SameTraced
<1>8. ASSUME NEW arg \in BOOLEAN, do_not_modified(arg)
      PROVE  Traced(b, b') \/ ClearsOnPurpose
  <2>1. CASE arg = FALSE
    BY Zenon, <1>8, <2>1 DEF ClearsOnPurpose
  <2>2. CASE arg = TRUE
    <3>1. b'.text = b.text /\ b'.modified = TRUE /\ b'.log = b.log
      BY <1>0, <1>8, <2>2 DEF do_not_modified, EditBuffer
    <3>. QED
      BY <3>1 DEF Traced, Tracked
  <2>. QED
    BY Zenon, <2>1, <2>2
<1>9. ASSUME NEW d \in Strings(MaxYank), shell_read_cb(d)
      PROVE  Traced(b, b') \/ ClearsOnPurpose
  <2>1. CASE b.readonly
    BY Zenon, <1>9, <2>1 DEF ClearsOnPurpose
  <2>2. CASE ~b.readonly
    <3>. DEFINE e == [b EXCEPT !.readonly = FALSE, !.last_log = "FREE"]
    <3>1. Sound(e) /\ e.text = b.text /\ e.modified = b.modified /\ e.log = b.log
      BY Zenon, <1>0 DEF Sound, EditBuffer
    <3>2. d \in Text
      BY StringsType, UndoLogAssumption
    <3>3. b' = Write(e, Len(b.text), d)
      BY <1>9, <2>2 DEF shell_read_cb
    <3>. HIDE DEF e
    <3>4. Traced(b, e)
      BY <3>1, SameTraced
    <3>5. Traced(e, Write(e, Len(b.text), d))
      BY <1>0, <3>1, <3>2, WriteTraced
    <3>. QED
      BY <3>3, <3>4, <3>5, TracedTrans
  <2>. QED
    BY <2>1, <2>2
<1>10. CASE save_buffer_failure
  BY <1>10, <1>a DEF save_buffer_failure
<1>. QED
  BY <1>1, <1>2, <1>3, <1>4, <1>5, <1>6, <1>7, <1>8, <1>9, <1>10 DEF Next

(* Without undo and redo no session loses track of unsaved changes,        *)
(* whatever else it does (saves that fail, output of processes, read-only  *)
(* mode and full logs included): a step that changes the text, or finds    *)
(* the buffer modified, leaves the modified flag of eb_addlog set unless   *)
(* the file on disk has just received the text or the flag is cleared on   *)
(* purpose.                                                                *)
THEOREM ChangesAreMarked ==
    Commands \cap {"undo", "redo"} = {} => (Spec => [][~LosesTrack]_vars)
<1>. SUFFICES ASSUME Commands \cap {"undo", "redo"} = {}
              PROVE  Spec => [][~LosesTrack]_vars
  OBVIOUS
<1>1. Spec => []TypeInv
  <2>1. Init => TypeInv
    BY TypeInit
  <2>2. TypeInv /\ [Next]_vars => TypeInv'
    BY TypeStep
  <2>. QED
    BY <2>1, <2>2, PTL DEF Spec
<1>2. TypeInv /\ [Next]_vars => [~LosesTrack]_vars
  <2>. SUFFICES ASSUME TypeInv, Next, LosesTrack PROVE FALSE
    OBVIOUS
  <2>1. ~do_undo /\ ~do_redo /\ ~ClearsOnPurpose
    BY DEF do_undo, do_redo, Issue, LosesTrack
  <2>2. CASE Traced(b, b')
    BY <2>2 DEF Traced, LosesTrack
  <2>3. CASE do_save_buffer
    <3>1. b \in EditBuffer
      BY DEF TypeInv, Sound
    <3>2. CASE ~b.modified /\ UNCHANGED <<b, file>>
      BY <3>2 DEF LosesTrack
    <3>3. CASE b' = [b EXCEPT !.modified = FALSE] /\ file' = {b.text}
      <4>1. b'.text = b.text
        BY <3>1, <3>3 DEF EditBuffer
      <4>. QED
        BY <3>3, <4>1 DEF LosesTrack
    <3>. QED
      BY <2>3, <3>2, <3>3 DEF do_save_buffer
  <2>. QED
    BY <2>1, <2>2, <2>3, EditTraced
<1>. QED
  BY <1>1, <1>2, PTL DEF Spec

-----------------------------------------------------------------------------
(***************************************************************************)
(* Undo and redo are exact, for texts and log limits of any size, as long  *)
(* as nothing is overwritten, no process writes to the buffer, read-only   *)
(* mode is not toggled, and redo is not combined with a log that is full.  *)
(***************************************************************************)
(* The sessions the theorems are about: plain ones do not fill the log,    *)
(* full ones may do so but do not redo.                                    *)
Undisturbed == Commands \cap {"overwrite", "output", "toggle-read-only"} = {}
PlainSession == Undisturbed /\ MayEvict = FALSE
FullSession == Undisturbed /\ "redo" \notin Commands

(* Record r describes the change that led from r.before to text t. *)
Describes(r, t) ==
    /\ r.op \in {"INSERT", "DELETE"} /\ r.size # 0
    /\ r.op = "DELETE" => Len(r.data) = r.size /\ r.offset <= Len(t)
    /\ r.op = "INSERT" => r.offset + r.size <= Len(t)
    /\ Reverted(t, r) = r.before

(* The records of a log describe a history that ends in text t. *)
Follows(log, i, t) == IF i = Len(log) THEN t ELSE log[i + 1].before
Tells(log, t) == \A i \in 1 .. Len(log) : Describes(log[i], Follows(log, i, t))

-----------------------------------------------------------------------------
(* Logs that tell a history: a new record, a longer last record, one record *)
(* less.                                                                    *)

LEMMA TellsAppend ==
    ASSUME NEW log \in Seq(LogRecord), NEW t, Tells(log, t),
           NEW r \in LogRecord, r.before = t, NEW u, Describes(r, u)
    PROVE  Tells(Append(log, r), u)
<1>. DEFINE l == Append(log, r)
<1>1. Len(log) \in Nat
  BY LenProperties
<1>2. /\ Len(l) = Len(log) + 1 /\ l[Len(log) + 1] = r
      /\ \A i \in 1 .. Len(log) : l[i] = log[i]
  BY <1>1, AppendProperties
<1>. HIDE DEF l
<1>3. ASSUME NEW i \in 1 .. Len(l)
      PROVE  Describes(l[i], Follows(l, i, u))
  <2>1. CASE i = Len(l)
    BY <2>1, <1>2 DEF Follows
  <2>2. CASE i # Len(l)
    <3>1. i \in 1 .. Len(log) /\ l[i] = log[i]
      BY <2>2, <1>1, <1>2
    <3>2. Follows(l, i, u) = Follows(log, i, t)
      <4>1. CASE i = Len(log)
        BY <4>1, <2>2, <1>2 DEF Follows
      <4>2. CASE i # Len(log)
        <5>1. i + 1 \in 1 .. Len(log)
          BY <4>2, <3>1, <1>1
        <5>. QED
          BY <5>1, <4>2, <2>2, <1>2 DEF Follows
      <4>. QED
        BY <4>1, <4>2
    <3>. QED
      BY <3>1, <3>2 DEF Tells
  <2>. QED
    BY <2>1, <2>2
<1>. QED
  BY <1>3 DEF Tells, l

LEMMA TellsGrown ==
    ASSUME NEW log \in Seq(LogRecord), log # <<>>, NEW t \in Text, Tells(log, t),
           NEW d \in Text,
           log[Len(log)].op = "INSERT"
    PROVE  Tells(Grown(log, Len(d)),
                 InsertBytes(t, log[Len(log)].offset + log[Len(log)].size, d))
<1>1. PICK n \in Nat \ {0} : n = Len(log)
  BY LenProperties, EmptySeq
<1>2. Len(d) \in Nat /\ Len(t) \in Nat
  BY LenProperties DEF Text
<1>. DEFINE r == log[n]
            o == r.offset + r.size
            q == [r EXCEPT !.size = r.size + Len(d)]
            u == InsertBytes(t, o, d)
            l == Grown(log, Len(d))
<1>3. r \in LogRecord /\ r.op = "INSERT"
  BY <1>1, ElementOfSeq
<1>4. Len(l) = n /\ l[n] = q /\ \A i \in 1 .. n - 1 : l[i] = log[i]
  BY Zenon, <1>1, <1>2, GrownType
<1>5. Describes(r, t)
  BY <1>1 DEF Tells, Follows
<1>. HIDE DEF r, l
<1>6. /\ r.offset \in Nat /\ r.size \in Nat /\ r.size # 0 /\ o <= Len(t)
      /\ DeleteBytes(t, r.offset, r.size) = r.before
  BY <1>3, <1>5 DEF LogRecord, Describes, Reverted
<1>7. /\ q.op = "INSERT" /\ q.offset = r.offset /\ q.size = r.size + Len(d)
      /\ q.before = r.before
  BY <1>3 DEF LogRecord
<1>8. Describes(q, u)
  <2>1. Len(u) = Len(t) + Len(d)
    <3>1. o \in Nat
      BY <1>6
    <3>. QED
      BY <3>1, <1>6, InsertType DEF Text
  <2>2. DeleteBytes(u, r.offset, r.size + Len(d)) = r.before
    BY <1>6, DeleteGrown DEF Text
  <2>. HIDE DEF q, u
  <2>3. Reverted(u, q) = q.before
    BY <2>2, <1>7 DEF Reverted
  <2>. QED
    BY <2>1, <2>3, <1>2, <1>6, <1>7 DEF Describes
<1>. HIDE DEF q, u
<1>9. ASSUME NEW i \in 1 .. n
      PROVE  Describes(l[i], Follows(l, i, u))
  <2>1. CASE i = n
    BY <2>1, <1>4, <1>8 DEF Follows
  <2>2. CASE i = n - 1
    <3>1. Follows(l, i, u) = r.before
      BY <2>2, <1>4, <1>7 DEF Follows
    <3>2. Follows(log, i, t) = r.before
      BY <2>2, <1>1 DEF Follows, r
    <3>. QED
      BY <3>1, <3>2, <2>2, <1>1, <1>4 DEF Tells
  <2>3. CASE i < n - 1
    <3>1. i \in 1 .. n - 1 /\ i + 1 \in 1 .. n - 1 /\ i # n
      BY <2>3
    <3>2. Follows(l, i, u) = Follows(log, i, t)
      BY <3>1, <1>1, <1>4 DEF Follows
    <3>. QED
      BY <3>1, <3>2, <1>1, <1>4 DEF Tells
  <2>. QED
    BY <2>1, <2>2, <2>3
<1>10. Tells(l, u)
  BY <1>4, <1>9 DEF Tells
<1>. QED
  BY <1>1, <1>10 DEF l, u, r

LEMMA TellsPop ==
    ASSUME NEW log \in Seq(LogRecord), NEW t, Tells(log, t),
           NEW n \in Nat \ {0}, n = Len(log)
    PROVE  Tells(SubSeq(log, 1, n - 1), log[n].before)
<1>. DEFINE l == SubSeq(log, 1, n - 1)
            u == log[n].before
<1>1. Len(l) = n - 1 /\ \A i \in 1 .. n - 1 : l[i] = log[i]
  BY PartType
<1>. HIDE DEF l
<1>2. ASSUME NEW i \in 1 .. Len(l)
      PROVE  Describes(l[i], Follows(l, i, u))
  <2>1. Follows(l, i, u) = Follows(log, i, t)
    <3>1. CASE i = n - 1
      BY <3>1, <1>1 DEF Follows
    <3>2. CASE i < n - 1
      <4>1. i + 1 \in 1 .. n - 1 /\ i # Len(l) /\ i # n
        BY SMTT(30), Z3T(30), <3>2, <1>1
      <4>. QED
        BY <4>1, <1>1 DEF Follows
    <3>. QED
      BY <3>1, <3>2, <1>1
  <2>. QED
    BY <2>1, <1>1 DEF Tells
<1>. QED
  BY <1>2 DEF Tells, l

-----------------------------------------------------------------------------
(* eb_addlog with room in the log, field by field. *)
LEMMA AddLogFields ==
    ASSUME NEW e, Sound(e), ~LogFull(e), NEW op \in LogOp, NEW o \in Nat, NEW n \in Nat,
           NEW before \in Text
    PROVE  LET a == AddLog(e, op, o, n, before) IN
           /\ a.text = e.text /\ a.readonly = e.readonly
           /\ a.log_current = e.log_current
           /\ a.point = Moved(e.point, op, o, n) /\ a.mark = Moved(e.mark, op, o, n)
           /\ Coalesces(e, op, o) =>
                a.log = Grown(e.log, n) /\ a.nb_logs = e.nb_logs /\ a.corrupt = e.corrupt
           /\ ~Coalesces(e, op, o) =>
                /\ a.log = Append(e.log, Record(e, e, op, o, n, before))
                /\ a.nb_logs = e.nb_logs + 1
                /\ a.corrupt = (e.corrupt \/ (op # "INSERT" /\ o + n > Len(e.text)))
<1>. DEFINE a == AddLog(e, op, o, n, before)
<1>. DEFINE f == Notify(e, op, o, n)
<1>0. e \in EditBuffer
  BY DEF Sound
<1>1. /\ f.text = e.text /\ f.readonly = e.readonly /\ f.log_current = e.log_current
      /\ f.point = Moved(e.point, op, o, n) /\ f.mark = Moved(e.mark, op, o, n)
      /\ f.log = e.log /\ f.nb_logs = e.nb_logs /\ f.corrupt = e.corrupt
      /\ f.last_log = e.last_log
  BY <1>0 DEF Notify, EditBuffer
<1>2. f \in EditBuffer
  BY NotifySound DEF Sound
<1>. HIDE DEF f
<1>3. Evict(f) = f
  BY <1>1 DEF Evict, LogFull
<1>4. Coalesces(f, op, o) = Coalesces(e, op, o)
  BY <1>1 DEF Coalesces
<1>5. Record(e, f, op, o, n, before) = Record(e, e, op, o, n, before)
  BY <1>1 DEF Record
<1>6. CASE Coalesces(e, op, o)
  <2>1. a = [f EXCEPT !.log = Grown(f.log, n)]
    BY Zenon, <1>3, <1>4, <1>6 DEF AddLog, f
  <2>. QED
    BY <2>1, <1>1, <1>2, <1>6 DEF EditBuffer
<1>7. CASE ~Coalesces(e, op, o)
  <2>. DEFINE r == Record(e, e, op, o, n, before)
              z == f.corrupt \/ (op # "INSERT" /\ o + n > Len(f.text))
              c == IF f.nb_logs = 0 THEN "NUL" ELSE f.last_log_char
  <2>1. a = [f EXCEPT !.last_log = op, !.last_log_char = c, !.log = Append(f.log, r),
                      !.nb_logs = f.nb_logs + 1, !.corrupt = z]
    BY <1>3, <1>4, <1>5, <1>7 DEF AddLog, f
  <2>. HIDE DEF r, z, c
  <2>2. /\ a.text = f.text /\ a.readonly = f.readonly /\ a.log_current = f.log_current
        /\ a.point = f.point /\ a.mark = f.mark /\ a.log = Append(f.log, r)
        /\ a.nb_logs = f.nb_logs + 1 /\ a.corrupt = z
    BY SMTT(30), Z3T(30), <2>1, <1>2 DEF EditBuffer
  <2>3. z = (e.corrupt \/ (op # "INSERT" /\ o + n > Len(e.text)))
    BY Zenon, <1>1 DEF z
  <2>. QED
    BY <2>2, <2>3, <1>1, <1>7 DEF r
<1>. QED
  BY <1>6, <1>7

LEMMA AddLogGrows ==
    ASSUME NEW e, Sound(e), ~LogFull(e), NEW o \in Nat, NEW n \in Nat,
           NEW before \in Text, Coalesces(e, "INSERT", o), ~e.readonly, ~e.corrupt
    PROVE  LET a == AddLog(e, "INSERT", o, n, before) IN
           /\ ~a.readonly /\ ~a.corrupt
           /\ a.log_current = e.log_current
           /\ a.point = Moved(e.point, "INSERT", o, n) /\ a.mark = Moved(e.mark, "INSERT", o, n)
           /\ a.log = Grown(e.log, n) /\ a.nb_logs = e.nb_logs
<1>1. "INSERT" \in LogOp
  BY Zenon DEF LogOp
<1>. QED
  BY <1>1, AddLogFields

LEMMA AddLogAppends ==
    ASSUME NEW e, Sound(e), ~LogFull(e), NEW op \in LogOp, NEW o \in Nat, NEW n \in Nat,
           NEW before \in Text, ~Coalesces(e, op, o), ~e.readonly, ~e.corrupt,
           op = "INSERT" \/ ~(o + n > Len(e.text))
    PROVE  LET a == AddLog(e, op, o, n, before) IN
           /\ ~a.readonly /\ ~a.corrupt
           /\ a.log_current = e.log_current
           /\ a.point = Moved(e.point, op, o, n) /\ a.mark = Moved(e.mark, op, o, n)
           /\ a.log = Append(e.log, Record(e, e, op, o, n, before))
           /\ a.nb_logs = e.nb_logs + 1
<1>. DEFINE a == AddLog(e, op, o, n, before)
<1>1. /\ a.readonly = e.readonly /\ a.log_current = e.log_current
      /\ a.point = Moved(e.point, op, o, n) /\ a.mark = Moved(e.mark, op, o, n)
  BY SMTT(30), Z3T(30), AddLogFields
<1>2. a.log = Append(e.log, Record(e, e, op, o, n, before))
  BY SMTT(30), Z3T(30), AddLogFields
<1>3. a.nb_logs = e.nb_logs + 1
  BY SMTT(30), Z3T(30), AddLogFields
<1>4. a.corrupt = (e.corrupt \/ (op # "INSERT" /\ o + n > Len(e.text)))
  BY AddLogFields
<1>. HIDE DEF a
<1>5. ~a.corrupt
  BY Zenon, <1>4
<1>. QED
  BY Zenon, <1>1, <1>2, <1>3, <1>5 DEF a

LEMMA RecordFields ==
    ASSUME NEW e, NEW op, NEW o, NEW n, NEW before, NEW r, r = Record(e, e, op, o, n, before)
    PROVE  /\ r.op = op /\ r.offset = o /\ r.size = n /\ r.before = before
           /\ op = "DELETE" /\ ~(o + n > Len(e.text)) => r.data = Bytes(e.text, o, n)
  BY DEF Record

(* Markers stay in the text when it grows and when it shrinks. *)
LEMMA MovedInText ==
    \A p, o, n, l \in Nat : p <= l =>
      /\ o <= l => Moved(p, "INSERT", o, n) <= l + n
      /\ o + n <= l => Moved(p, "DELETE", o, n) <= l - n
      /\ p <= o => Moved(p, "INSERT", o, n) = p
  BY DEF Moved

-----------------------------------------------------------------------------
(* What holds of the buffer between the changes of a plain session. *)
Faithful(e) ==
    /\ Sound(e) /\ ~e.readonly /\ ~e.corrupt
    /\ Tells(e.log, e.text) /\ e.nb_logs >= Len(e.log)
    /\ e.point <= Len(e.text) /\ e.mark <= Len(e.text)

LEMMA FaithfulTypes ==
    ASSUME NEW e, Faithful(e)
    PROVE  /\ Sound(e) /\ e \in EditBuffer /\ e.readonly = FALSE /\ e.corrupt = FALSE
           /\ e.text \in Text /\ e.text \in Seq(Byte) /\ Len(e.text) \in Nat
           /\ e.log \in Seq(LogRecord) /\ Len(e.log) \in Nat
           /\ e.nb_logs \in Nat /\ e.point \in Nat /\ e.mark \in Nat
           /\ e.log_current \in Nat
  BY LenProperties DEF Faithful, Sound, EditBuffer, Text

(* eb_insert and eb_delete keep the history, or extend it by one record. *)
LEMMA InsertFaithful ==
    ASSUME NEW e, Faithful(e), ~LogFull(e), NEW o \in Nat, o <= Len(e.text), NEW d \in Text
    PROVE  LET f == Insert(e, o, d) IN
           /\ Faithful(f)
           /\ f.nb_logs <= e.nb_logs + 1 /\ f.log_current = e.log_current
           /\ e.nb_logs = Len(e.log) => f.nb_logs = Len(f.log)
           /\ e.point = o => f.point + Len(d) <= Len(f.text)
<1>. SUFFICES ASSUME NEW f, f = Insert(e, o, d)
              PROVE  /\ Faithful(f)
                     /\ f.nb_logs <= e.nb_logs + 1 /\ f.log_current = e.log_current
                     /\ e.nb_logs = Len(e.log) => f.nb_logs = Len(f.log)
                     /\ e.point = o => f.point + Len(d) <= Len(f.text)
  OBVIOUS
<1>0. /\ Sound(e) /\ e \in EditBuffer /\ e.readonly = FALSE /\ e.corrupt = FALSE
      /\ e.text \in Text /\ e.text \in Seq(Byte) /\ Len(e.text) \in Nat
      /\ e.log \in Seq(LogRecord) /\ Len(e.log) \in Nat
      /\ e.nb_logs \in Nat /\ e.point \in Nat /\ e.mark \in Nat
      /\ d \in Seq(Byte) /\ Len(d) \in Nat
  BY Zenon, FaithfulTypes, LenProperties DEF Text
<1>1. CASE d = <<>>
  <2>1. f = e /\ Len(d) = 0
    BY <1>1 DEF Insert
  <2>. QED
    BY <2>1, <1>0
<1>2. CASE d # <<>>
  <2>1. PICK n \in Nat \ {0} : n = Len(d)
    BY <1>0, <1>2, EmptySeq
  <2>. DEFINE a == AddLog(e, "INSERT", o, n, e.text)
              t == InsertBytes(e.text, o, d)
              r == Record(e, e, "INSERT", o, n, e.text)
  <2>2. Clip(o, Len(e.text)) = o
    BY <1>0 DEF Clip
  <2>3. f = [a EXCEPT !.text = t]
    BY <1>0, <1>2, <2>1, <2>2 DEF Insert
  <2>4. t \in Text /\ Len(t) = Len(e.text) + n
    <3>1. t \in Text
      BY Zenon, <1>0, InsertType DEF Text
    <3>2. Len(t) = Len(e.text) + Len(d)
      BY SMTT(30), Z3T(30), <1>0, InsertLen
    <3>. QED
      BY <3>1, <3>2, <2>1
  <2>5. DeleteBytes(t, o, n) = e.text
    BY <1>0, <2>1, DeleteInserted
  <2>6. Sound(a)
    BY ZenonT(40), <1>0, AddLogSound DEF LogOp
  <2>7. /\ ~a.readonly /\ ~a.corrupt /\ a.log_current = e.log_current
        /\ a.point = Moved(e.point, "INSERT", o, n) /\ a.mark = Moved(e.mark, "INSERT", o, n)
        /\ Coalesces(e, "INSERT", o) => a.log = Grown(e.log, n) /\ a.nb_logs = e.nb_logs
        /\ ~Coalesces(e, "INSERT", o) => a.log = Append(e.log, r) /\ a.nb_logs = e.nb_logs + 1
    <3>0. "INSERT" \in LogOp /\ ~e.readonly /\ ~e.corrupt
      BY ZenonT(40), <1>0 DEF LogOp
    <3>1. CASE Coalesces(e, "INSERT", o)
      BY SMTT(30), Z3T(30), <3>0, <3>1, <1>0, AddLogGrows
    <3>2. CASE ~Coalesces(e, "INSERT", o)
      BY SMTT(30), Z3T(30), <3>0, <3>2, <1>0, AddLogAppends
    <3>. QED
      BY <3>1, <3>2
  <2>8. r \in LogRecord
    BY <1>0, RecordType DEF LogOp
  <2>9. r.op = "INSERT" /\ r.offset = o /\ r.size = n /\ r.before = e.text
    BY RecordFields
  <2>. HIDE DEF a, t, r
  <2>10. /\ Sound(f) /\ f.text = t /\ ~f.readonly /\ ~f.corrupt /\ f.log_current = e.log_current
         /\ f.point = Moved(e.point, "INSERT", o, n) /\ f.mark = Moved(e.mark, "INSERT", o, n)
         /\ f.log = a.log /\ f.nb_logs = a.nb_logs
    BY ZenonT(40), <2>3, <2>4, <2>6, <2>7 DEF Sound, EditBuffer
  <2>11. e.point <= Len(e.text) /\ e.mark <= Len(e.text) /\ Tells(e.log, e.text)
         /\ e.nb_logs >= Len(e.log)
    BY DEF Faithful
  <2>12. f.point <= Len(t) /\ f.mark <= Len(t)
    <3>1. Moved(e.point, "INSERT", o, n) <= Len(e.text) + n
      BY Zenon, <1>0, <2>11, MovedInText
    <3>2. Moved(e.mark, "INSERT", o, n) <= Len(e.text) + n
      BY Zenon, <1>0, <2>11, MovedInText
    <3>. QED
      BY <3>1, <3>2, <2>4, <2>10
  <2>13. e.point = o => f.point + Len(d) <= Len(f.text)
    <3>1. e.point = o => Moved(e.point, "INSERT", o, n) = o
      BY SMTT(30), Z3T(30), <1>0, <2>1 DEF Moved
    <3>. QED
      BY <3>1, <1>0, <2>1, <2>4, <2>10
  <2>14. CASE Coalesces(e, "INSERT", o)
    <3>1. /\ e.log # <<>> /\ e.log[Len(e.log)].op = "INSERT"
          /\ e.log[Len(e.log)].offset + e.log[Len(e.log)].size = o
      BY <2>14 DEF Coalesces
    <3>2. Tells(Grown(e.log, n), t)
      BY <3>1, <1>0, <2>1, <2>11, TellsGrown DEF t
    <3>3. Len(Grown(e.log, n)) = Len(e.log)
      BY Zenon, <3>1, <1>0, GrownType
    <3>. QED
      BY SMTT(30), Z3T(30), <3>2, <3>3, <1>0, <2>7, <2>10, <2>11, <2>12, <2>13, <2>14 DEF Faithful
  <2>15. CASE ~Coalesces(e, "INSERT", o)
    <3>1. Describes(r, t)
      BY SMTT(30), Z3T(30), <1>0, <2>4, <2>5, <2>9 DEF Describes, Reverted
    <3>2. Tells(Append(e.log, r), t)
      BY Zenon, <3>1, <1>0, <2>8, <2>9, <2>11, TellsAppend
    <3>3. Len(Append(e.log, r)) = Len(e.log) + 1
      BY SMTT(30), Z3T(30), <1>0, <2>8, AppendProperties
    <3>4. f.log = Append(e.log, r) /\ f.nb_logs = e.nb_logs + 1
      BY <2>7, <2>10, <2>15
    <3>5. /\ f.nb_logs >= Len(f.log) /\ f.nb_logs <= e.nb_logs + 1
          /\ e.nb_logs = Len(e.log) => f.nb_logs = Len(f.log)
      BY SMTT(30), Z3T(30), <3>3, <3>4, <1>0, <2>11
    <3>. QED
      BY <3>2, <3>4, <3>5, <2>10, <2>12, <2>13 DEF Faithful
  <2>. QED
    BY <2>14, <2>15
<1>. QED
  BY <1>1, <1>2

LEMMA DeleteFaithful ==
    ASSUME NEW e, Faithful(e), ~LogFull(e), NEW o \in Nat, NEW n \in Nat, o + n <= Len(e.text)
    PROVE  LET f == Delete(e, o, n) IN
           /\ Faithful(f)
           /\ f.nb_logs <= e.nb_logs + 1 /\ f.log_current = e.log_current
           /\ e.nb_logs = Len(e.log) => f.nb_logs = Len(f.log)
           /\ Len(f.text) = Len(e.text) - n
           /\ n # 0 => /\ f.text = DeleteBytes(e.text, o, n)
                       /\ \E r \in LogRecord : r.before = e.text /\ f.log = Append(e.log, r)
<1>. SUFFICES ASSUME NEW f, f = Delete(e, o, n)
              PROVE  /\ Faithful(f)
                     /\ f.nb_logs <= e.nb_logs + 1 /\ f.log_current = e.log_current
                     /\ e.nb_logs = Len(e.log) => f.nb_logs = Len(f.log)
                     /\ Len(f.text) = Len(e.text) - n
                     /\ n # 0 => /\ f.text = DeleteBytes(e.text, o, n)
                                 /\ \E r \in LogRecord :
                                        r.before = e.text /\ f.log = Append(e.log, r)
  OBVIOUS
<1>0. /\ Sound(e) /\ e \in EditBuffer /\ e.readonly = FALSE /\ e.corrupt = FALSE
      /\ e.text \in Text /\ e.text \in Seq(Byte) /\ Len(e.text) \in Nat
      /\ e.log \in Seq(LogRecord) /\ Len(e.log) \in Nat
      /\ e.nb_logs \in Nat /\ e.point \in Nat /\ e.mark \in Nat
  BY Zenon, FaithfulTypes
<1>. DEFINE a == AddLog(e, "DELETE", o, n, e.text)
            t == DeleteBytes(e.text, o, n)
            r == Record(e, e, "DELETE", o, n, e.text)
<1>1. t \in Text /\ Len(t) = Len(e.text) - n
  <2>1. t \in Text
    BY Zenon, <1>0, DeleteType DEF Text
  <2>2. Len(t) = Len(e.text) - n
    BY Zenon, <1>0, DeleteLen
  <2>. QED
    BY <2>1, <2>2
<1>2. InsertBytes(t, o, Bytes(e.text, o, n)) = e.text
  BY <1>0, InsertDeleted
<1>3. CASE n = 0
  <2>1. f = e
    BY <1>3 DEF Delete
  <2>. QED
    BY <1>0, <1>3, <2>1
<1>4. CASE n # 0
  <2>2. Clip(n, Len(e.text) - o) = n /\ ~(o >= Len(e.text)) /\ ~(n <= 0)
    BY <1>0, <1>4 DEF Clip
  <2>3. f = [a EXCEPT !.text = t]
    BY Zenon, <1>0, <2>2 DEF Delete
  <2>6. Sound(a)
    BY SMTT(30), Z3T(30), <1>0, AddLogSound DEF LogOp
  <2>7. /\ ~a.readonly /\ ~a.corrupt /\ a.log_current = e.log_current
        /\ a.point = Moved(e.point, "DELETE", o, n) /\ a.mark = Moved(e.mark, "DELETE", o, n)
        /\ a.log = Append(e.log, r) /\ a.nb_logs = e.nb_logs + 1
    <3>1. /\ ~Coalesces(e, "DELETE", o) /\ ~(o + n > Len(e.text)) /\ "DELETE" \in LogOp
          /\ ~e.readonly /\ ~e.corrupt
      BY <1>0 DEF Coalesces, LogOp
    <3>. QED
      BY SMTT(30), Z3T(30), <3>1, <1>0, AddLogAppends
  <2>8. r \in LogRecord
    BY <1>0, RecordType DEF LogOp
  <2>9. /\ r.op = "DELETE" /\ r.offset = o /\ r.size = n /\ r.before = e.text
        /\ r.data = Bytes(e.text, o, n)
    <3>1. ~(o + n > Len(e.text))
      BY <1>0
    <3>. QED
      BY <3>1, RecordFields
  <2>. HIDE DEF a, t, r
  <2>10. /\ Sound(f) /\ f.text = t /\ ~f.readonly /\ ~f.corrupt /\ f.log_current = e.log_current
         /\ f.point = Moved(e.point, "DELETE", o, n) /\ f.mark = Moved(e.mark, "DELETE", o, n)
         /\ f.log = a.log /\ f.nb_logs = a.nb_logs
    BY Zenon, <2>3, <1>1, <2>6, <2>7 DEF Sound, EditBuffer
  <2>11. e.point <= Len(e.text) /\ e.mark <= Len(e.text) /\ Tells(e.log, e.text)
         /\ e.nb_logs >= Len(e.log)
    BY DEF Faithful
  <2>12. f.point <= Len(t) /\ f.mark <= Len(t)
    <3>1. Moved(e.point, "DELETE", o, n) <= Len(e.text) - n
      BY Zenon, <1>0, <2>11, MovedInText
    <3>2. Moved(e.mark, "DELETE", o, n) <= Len(e.text) - n
      BY Zenon, <1>0, <2>11, MovedInText
    <3>. QED
      BY <3>1, <3>2, <1>1, <2>10
  <2>13. Describes(r, t)
    <3>1. Len(r.data) = r.size
      BY SMTT(30), Z3T(30), <1>0, <2>9, BytesType
    <3>. QED
      BY SMTT(30), Z3T(30), <3>1, <1>0, <1>1, <1>2, <1>4, <2>9 DEF Describes, Reverted
  <2>14. Tells(Append(e.log, r), t)
    BY Zenon, <2>13, <1>0, <2>8, <2>9, <2>11, TellsAppend
  <2>15. Len(Append(e.log, r)) = Len(e.log) + 1
    BY SMTT(30), Z3T(30), <1>0, <2>8, AppendProperties
  <2>16. Faithful(f)
    BY SMTT(30), Z3T(30), <2>14, <2>15, <1>0, <2>7, <2>10, <2>11, <2>12 DEF Faithful
  <2>17. \E q \in LogRecord : q.before = e.text /\ f.log = Append(e.log, q)
    BY <2>7, <2>8, <2>9, <2>10
  <2>. QED
    <3>1. /\ f.nb_logs <= e.nb_logs + 1
          /\ e.nb_logs = Len(e.log) => f.nb_logs = Len(f.log)
      BY <1>0, <2>7, <2>10, <2>15
    <3>. QED
      BY Zenon, <3>1, <2>16, <2>17, <1>1, <2>10 DEF t
<1>. QED
  BY <1>3, <1>4

(* Setting a marker inside the text, or the modified flag. *)
LEMMA SetPoint ==
    ASSUME NEW e, Faithful(e), NEW k \in Nat, k <= Len(e.text), NEW f,
           f = [e EXCEPT !.point = k]
    PROVE  /\ Faithful(f) /\ f.text = e.text /\ f.log = e.log
           /\ f.log_current = e.log_current /\ f.nb_logs = e.nb_logs
<1>1. e \in EditBuffer
  BY Zenon, FaithfulTypes
<1>2. /\ f \in EditBuffer /\ f.text = e.text /\ f.log = e.log /\ f.readonly = e.readonly
      /\ f.log_current = e.log_current /\ f.nb_logs = e.nb_logs /\ f.corrupt = e.corrupt
      /\ f.point = k /\ f.mark = e.mark
  BY Zenon, <1>1 DEF EditBuffer
<1>. QED
  BY <1>2 DEF Faithful, Sound

LEMMA SetModified ==
    ASSUME NEW e, Faithful(e), NEW m \in BOOLEAN, NEW f, f = [e EXCEPT !.modified = m]
    PROVE  /\ Faithful(f) /\ f.text = e.text /\ f.log = e.log
           /\ f.log_current = e.log_current /\ f.nb_logs = e.nb_logs
<1>1. e \in EditBuffer
  BY Zenon, FaithfulTypes
<1>2. /\ f \in EditBuffer /\ f.text = e.text /\ f.log = e.log /\ f.readonly = e.readonly
      /\ f.log_current = e.log_current /\ f.nb_logs = e.nb_logs /\ f.corrupt = e.corrupt
      /\ f.point = e.point /\ f.mark = e.mark
  BY <1>1 DEF EditBuffer
<1>. QED
  BY <1>2 DEF Faithful, Sound

(* What a record says when it describes the change to text t. *)
LEMMA DescribesFields ==
    ASSUME NEW r \in LogRecord, NEW t, Describes(r, t)
    PROVE  /\ r.offset \in Nat /\ r.size \in Nat /\ r.size # 0 /\ r.data \in Text
           /\ r.was_modified \in BOOLEAN /\ r.op \in {"INSERT", "DELETE"}
           /\ r.op = "INSERT" => /\ r.offset + r.size <= Len(t)
                                 /\ DeleteBytes(t, r.offset, r.size) = r.before
           /\ r.op = "DELETE" => /\ r.offset <= Len(t) /\ Len(r.data) = r.size
                                 /\ InsertBytes(t, r.offset, r.data) = r.before
<1>1. r.op \in {"INSERT", "DELETE"} /\ Reverted(t, r) = r.before
  BY Zenon DEF Describes
<1>. QED
  BY <1>1 DEF Describes, LogRecord, Reverted

(* The record that undo plays describes the change to the current text. *)
InSync(e, pos) == e.text = Follows(e.log, pos, e.text)

LEMMA PlayFaithful ==
    ASSUME NEW g, Faithful(g), ~LogFull(g), g.last_log = "FREE",
           NEW r \in LogRecord, Describes(r, g.text)
    PROVE  LET p == UndoPlay(g, r, g.text) IN
           /\ Faithful(p) /\ p.text = r.before /\ p.log_current = g.log_current
           /\ p.nb_logs <= g.nb_logs + 1
           /\ g.nb_logs = Len(g.log) => p.nb_logs = Len(p.log)
           /\ \E q \in LogRecord : q.before = g.text /\ p.log = Append(g.log, q)
<1>. SUFFICES ASSUME NEW p, p = UndoPlay(g, r, g.text)
              PROVE  /\ Faithful(p) /\ p.text = r.before /\ p.log_current = g.log_current
                     /\ p.nb_logs <= g.nb_logs + 1
                     /\ g.nb_logs = Len(g.log) => p.nb_logs = Len(p.log)
                     /\ \E q \in LogRecord : q.before = g.text /\ p.log = Append(g.log, q)
  OBVIOUS
<1>0. /\ g \in EditBuffer /\ ~g.readonly /\ ~g.corrupt
      /\ g.text \in Text /\ g.text \in Seq(Byte) /\ Len(g.text) \in Nat
      /\ g.log \in Seq(LogRecord) /\ Len(g.log) \in Nat /\ Sound(g)
      /\ g.mark \in Nat /\ g.nb_logs \in Nat
  BY Zenon, FaithfulTypes
<1>1. /\ r.offset \in Nat /\ r.size \in Nat /\ r.size # 0 /\ r.data \in Text
      /\ r.was_modified \in BOOLEAN /\ r.op \in {"INSERT", "DELETE"}
      /\ r.op = "INSERT" => /\ r.offset + r.size <= Len(g.text)
                            /\ DeleteBytes(g.text, r.offset, r.size) = r.before
      /\ r.op = "DELETE" => /\ r.offset <= Len(g.text) /\ Len(r.data) = r.size
                            /\ InsertBytes(g.text, r.offset, r.data) = r.before
  BY DescribesFields
<1>2. PICK o \in Nat, n \in Nat : o = r.offset /\ n = r.size
  BY Zenon, <1>1
<1>3. CASE r.op = "INSERT"
  <2>1. PICK h : h = Delete(g, o, n)
    OBVIOUS
  <2>2. p = [h EXCEPT !.point = o]
    BY <1>2, <1>3, <2>1 DEF UndoPlay
  <2>3. o + n <= Len(g.text) /\ n # 0
    BY Zenon, <1>1, <1>2, <1>3
  <2>4. /\ Faithful(h) /\ h.log_current = g.log_current /\ Len(h.text) = Len(g.text) - n
        /\ h.nb_logs <= g.nb_logs + 1
        /\ g.nb_logs = Len(g.log) => h.nb_logs = Len(h.log)
        /\ n # 0 => /\ h.text = DeleteBytes(g.text, o, n)
                    /\ \E q \in LogRecord : q.before = g.text /\ h.log = Append(g.log, q)
    BY Zenon, <2>1, <2>3, DeleteFaithful
  <2>5. /\ h.text = DeleteBytes(g.text, o, n)
        /\ \E q \in LogRecord : q.before = g.text /\ h.log = Append(g.log, q)
    BY SMTT(30), Z3T(30), <2>3, <2>4
  <2>6. o <= Len(h.text)
    BY <1>0, <2>3, <2>4
  <2>7. /\ Faithful(p) /\ p.text = h.text /\ p.log = h.log
        /\ p.log_current = h.log_current /\ p.nb_logs = h.nb_logs
    BY SMTT(30), Z3T(30), <2>2, <2>4, <2>6, SetPoint
  <2>. QED
    BY <1>1, <1>2, <1>3, <2>4, <2>5, <2>7
<1>4. CASE r.op = "DELETE"
  <2>. DEFINE t == InsertBytes(g.text, o, r.data)
              h == MuteInsert(g, o, r.data)
              a == AddLog(h, "INSERT", o, n, g.text)
              q == Record(h, h, "INSERT", o, n, g.text)
  <2>1. p = [a EXCEPT !.point = o + n]
    BY <1>2, <1>4 DEF UndoPlay
  <2>2. h = [g EXCEPT !.text = t]
    <3>1. Clip(o, Len(g.text)) = o
      BY <1>0, <1>1, <1>2, <1>4 DEF Clip
    <3>. QED
      BY SMTT(30), Z3T(30), <3>1, <1>0 DEF MuteInsert
  <2>3. t \in Text /\ Len(t) = Len(g.text) + n
    <3>1. t \in Text
      BY Zenon, <1>0, <1>1, <1>2, <1>4, InsertType DEF Text
    <3>2. Len(t) = Len(g.text) + Len(r.data)
      BY Zenon, <1>0, <1>1, <1>2, <1>4, InsertLen DEF Text
    <3>. QED
      BY Zenon, <3>1, <3>2, <1>1, <1>2, <1>4
  <2>4. DeleteBytes(t, o, n) = g.text
    <3>1. DeleteBytes(t, o, Len(r.data)) = g.text
      BY <1>0, <1>1, <1>2, <1>4, DeleteInserted DEF Text
    <3>. QED
      BY Zenon, <3>1, <1>1, <1>2, <1>4
  <2>. HIDE DEF t, h
  <2>5. /\ h \in EditBuffer /\ h.text = t /\ h.log = g.log /\ ~h.readonly /\ ~h.corrupt
        /\ h.log_current = g.log_current /\ h.nb_logs = g.nb_logs
        /\ h.mark = g.mark /\ h.last_log = "FREE"
    BY Zenon, <2>2, <2>3, <1>0 DEF EditBuffer
  <2>6. Sound(h) /\ ~LogFull(h) /\ ~Coalesces(h, "INSERT", o)
    BY <1>0, <2>5 DEF Sound, LogFull, Coalesces
  <2>7. "INSERT" \in LogOp
    BY SMTT(30), Z3T(30) DEF LogOp
  <2>8. /\ ~a.readonly /\ ~a.corrupt /\ a.log_current = h.log_current
        /\ a.mark = Moved(h.mark, "INSERT", o, n)
        /\ a.log = Append(h.log, q) /\ a.nb_logs = h.nb_logs + 1
    <3>1. Sound(h) /\ ~LogFull(h) /\ ~Coalesces(h, "INSERT", o) /\ ~h.readonly /\ ~h.corrupt
          /\ g.text \in Text /\ "INSERT" \in LogOp
      BY Zenon, <1>0, <2>5, <2>6, <2>7
    <3>2. /\ ~a.readonly /\ ~a.corrupt
          /\ a.log_current = h.log_current
          /\ a.point = Moved(h.point, "INSERT", o, n) /\ a.mark = Moved(h.mark, "INSERT", o, n)
          /\ a.log = Append(h.log, q)
          /\ a.nb_logs = h.nb_logs + 1
      BY Zenon, <3>1, AddLogAppends
    <3>. QED
      BY <3>2
  <2>9. Sound(a) /\ a.text = h.text
    <3>1. g.text \in Text /\ Sound(h)
      BY <1>0, <2>6
    <3>. QED
      BY <3>1, <2>7, AddLogSound
  <2>10. q \in LogRecord
    BY Zenon, <1>0, <2>3, <2>5, <2>7, RecordType
  <2>11. q.op = "INSERT" /\ q.offset = o /\ q.size = n /\ q.before = g.text
    BY RecordFields
  <2>. HIDE DEF a, q
  <2>12. Describes(q, t)
    BY SMTT(30), Z3T(30), <1>0, <1>1, <1>2, <1>4, <2>3, <2>4, <2>11 DEF Describes, Reverted
  <2>13. Tells(Append(g.log, q), t)
    BY Zenon, <1>0, <2>10, <2>11, <2>12, TellsAppend DEF Faithful
  <2>14. Len(Append(g.log, q)) = Len(g.log) + 1
    BY <1>0, <2>10, AppendProperties
  <2>15. Moved(g.mark, "INSERT", o, n) <= Len(g.text) + n
    BY ZenonT(40), <1>0, <1>1, <1>2, <1>4, MovedInText DEF Faithful
  <2>16. /\ p \in EditBuffer /\ p.text = t /\ p.log = Append(g.log, q)
         /\ p.log_current = g.log_current
         /\ ~p.readonly /\ ~p.corrupt /\ p.nb_logs = g.nb_logs + 1
         /\ p.point = o + n /\ p.mark = Moved(g.mark, "INSERT", o, n)
    <3>1. a \in EditBuffer /\ o + n \in Nat
      BY <2>9 DEF Sound
    <3>2. /\ p \in EditBuffer /\ p.text = a.text /\ p.log = a.log /\ p.log_current = a.log_current
          /\ p.readonly = a.readonly /\ p.corrupt = a.corrupt /\ p.nb_logs = a.nb_logs
          /\ p.point = o + n /\ p.mark = a.mark
      BY ZenonT(40), <2>1, <3>1 DEF EditBuffer
    <3>. QED
      BY Zenon, <3>2, <2>5, <2>8, <2>9
  <2>17. /\ p.nb_logs >= Len(p.log) /\ p.log_current <= Len(p.log)
         /\ p.nb_logs <= g.nb_logs + 1
         /\ g.nb_logs = Len(g.log) => p.nb_logs = Len(p.log)
    <3>1. g.nb_logs >= Len(g.log) /\ g.log_current <= Len(g.log) /\ g.log_current \in Nat
      BY Zenon, FaithfulTypes DEF Faithful, Sound
    <3>. QED
      BY SMTT(30), Z3T(30), <3>1, <1>0, <2>14, <2>16
  <2>18. p.point <= Len(p.text) /\ p.mark <= Len(p.text)
    BY SMTT(30), Z3T(30), <1>0, <1>1, <1>2, <1>4, <2>3, <2>15, <2>16
  <2>19. Faithful(p)
    BY <2>13, <2>16, <2>17, <2>18 DEF Faithful, Sound
  <2>. QED
    BY SMTT(30), Z3T(30), <1>1, <1>2, <1>4, <2>10, <2>11, <2>16, <2>17, <2>19 DEF t
<1>. QED
  BY SMTT(30), Z3T(30), <1>1, <1>3, <1>4

LEMMA UndoFaithful ==
    ASSUME NEW e, Faithful(e), ~LogFull(e), NEW pos \in Nat, pos # 0, pos <= Len(e.log),
           InSync(e, pos)
    PROVE  LET f == Undo(e, pos) IN
           /\ Faithful(f) /\ f.text = e.log[pos].before /\ f.log_current = pos
           /\ f.nb_logs <= e.nb_logs + 1
           /\ e.nb_logs = Len(e.log) => f.nb_logs = Len(f.log)
           /\ \E q \in LogRecord : q.before = e.text /\ f.log = Append(e.log, q)
<1>. SUFFICES ASSUME NEW f, f = Undo(e, pos)
              PROVE  /\ Faithful(f) /\ f.text = e.log[pos].before /\ f.log_current = pos
                     /\ f.nb_logs <= e.nb_logs + 1
                     /\ e.nb_logs = Len(e.log) => f.nb_logs = Len(f.log)
                     /\ \E q \in LogRecord : q.before = e.text /\ f.log = Append(e.log, q)
  OBVIOUS
<1>0. e \in EditBuffer /\ e.log \in Seq(LogRecord) /\ Len(e.log) \in Nat
  BY Zenon, FaithfulTypes
<1>. DEFINE r == e.log[pos]
            g == [Deselect(e) EXCEPT !.log_current = pos, !.last_log = "FREE"]
            p == UndoPlay(g, r, e.text)
<1>1. r \in LogRecord
  BY <1>0, ElementOfSeq
<1>2. Describes(r, e.text)
  BY <1>0 DEF InSync, Faithful, Tells
<1>3. f = [p EXCEPT !.modified = r.was_modified]
  BY DEF Undo
<1>. HIDE DEF r
<1>4. /\ g \in EditBuffer /\ g.text = e.text /\ g.log = e.log /\ g.readonly = e.readonly
      /\ g.log_current = pos /\ g.nb_logs = e.nb_logs /\ g.corrupt = e.corrupt
      /\ g.point = e.point /\ g.mark = e.mark /\ g.last_log = "FREE"
  BY ZenonT(40), <1>0 DEF EditBuffer, Deselect
<1>. HIDE DEF g
<1>5. Faithful(g) /\ ~LogFull(g)
  BY Zenon, <1>4 DEF Faithful, Sound, LogFull
<1>6. Describes(r, g.text) /\ p = UndoPlay(g, r, g.text)
  BY Zenon, <1>2, <1>4
<1>. HIDE DEF p
<1>7. /\ Faithful(p) /\ p.text = r.before /\ p.log_current = g.log_current
      /\ p.nb_logs <= g.nb_logs + 1
      /\ g.nb_logs = Len(g.log) => p.nb_logs = Len(p.log)
      /\ \E q \in LogRecord : q.before = g.text /\ p.log = Append(g.log, q)
  BY Zenon, <1>1, <1>4, <1>5, <1>6, PlayFaithful
<1>8. /\ Faithful(f) /\ f.text = p.text /\ f.log = p.log /\ f.log_current = p.log_current
      /\ f.nb_logs = p.nb_logs
  <2>1. r.was_modified \in BOOLEAN
    BY <1>1 DEF LogRecord
  <2>. QED
    BY <1>3, <1>7, <2>1, SetModified
<1>. QED
  BY Zenon, <1>4, <1>7, <1>8 DEF r

(* do_redo plays the last record and removes it. *)
LEMMA RedoFaithful ==
    ASSUME NEW e, Faithful(e), NEW n \in Nat \ {0}, n = Len(e.log), NEW cur \in Nat
    PROVE  LET f == Redo(e, cur) IN
           /\ Faithful(f) /\ f.text = e.log[n].before /\ f.log = SubSeq(e.log, 1, n - 1)
           /\ f.log_current = IF cur + 1 >= n THEN 0 ELSE cur + 1
           /\ f.modified = e.log[n].was_modified
<1>. SUFFICES ASSUME NEW f, f = Redo(e, cur)
              PROVE  /\ Faithful(f) /\ f.text = e.log[n].before
                     /\ f.log = SubSeq(e.log, 1, n - 1)
                     /\ f.log_current = IF cur + 1 >= n THEN 0 ELSE cur + 1
                     /\ f.modified = e.log[n].was_modified
  OBVIOUS
<1>0. /\ e \in EditBuffer /\ ~e.readonly /\ ~e.corrupt
      /\ e.text \in Text /\ e.text \in Seq(Byte) /\ Len(e.text) \in Nat
      /\ e.log \in Seq(LogRecord) /\ Len(e.log) \in Nat /\ Sound(e)
      /\ e.point \in Nat /\ e.mark \in Nat /\ e.nb_logs \in Nat
  BY Zenon, FaithfulTypes
<1>. DEFINE r == e.log[n]
            g == Deselect(e)
            p == RedoPlay(g, r)
            l == SubSeq(e.log, 1, n - 1)
            c == IF cur + 1 >= n THEN 0 ELSE cur + 1
<1>1. r \in LogRecord
  BY <1>0, ElementOfSeq
<1>2. Describes(r, e.text)
  BY <1>0 DEF Faithful, Tells, Follows
<1>3. Tells(l, r.before) /\ l \in Seq(LogRecord) /\ Len(l) = n - 1
  <2>1. Tells(l, r.before)
    BY <1>0, TellsPop DEF Faithful
  <2>2. l \in Seq(LogRecord) /\ Len(l) = n - 1
    BY <1>0, PartType
  <2>. QED
    BY SMTT(30), Z3T(30), <2>1, <2>2
<1>4. c \in Nat /\ c <= n - 1
  OBVIOUS
<1>5. f = [p EXCEPT !.modified = r.was_modified, !.log = l, !.log_current = c]
  BY DEF Redo
<1>. HIDE DEF r, l, c
<1>6. /\ r.offset \in Nat /\ r.size \in Nat /\ r.size # 0 /\ r.data \in Text
      /\ r.was_modified \in BOOLEAN /\ r.op \in {"INSERT", "DELETE"}
      /\ r.op = "INSERT" => /\ r.offset + r.size <= Len(e.text)
                            /\ DeleteBytes(e.text, r.offset, r.size) = r.before
      /\ r.op = "DELETE" => /\ r.offset <= Len(e.text) /\ Len(r.data) = r.size
                            /\ InsertBytes(e.text, r.offset, r.data) = r.before
  BY <1>1, <1>2, DescribesFields
<1>7. /\ g \in EditBuffer /\ g.text = e.text /\ g.readonly = e.readonly
      /\ g.nb_logs = e.nb_logs /\ g.corrupt = e.corrupt
      /\ g.point = e.point /\ g.mark = e.mark
  BY Zenon, <1>0 DEF EditBuffer, Deselect
<1>. HIDE DEF g
<1>8. PICK o \in Nat, k \in Nat : o = r.offset /\ k = r.size
  BY SMTT(30), Z3T(30), <1>6
<1>9. /\ p \in EditBuffer /\ p.text = r.before /\ ~p.readonly /\ ~p.corrupt
      /\ p.nb_logs = e.nb_logs /\ p.point <= Len(p.text) /\ p.mark <= Len(p.text)
  <2>0. e.mark <= Len(e.text)
    BY Zenon DEF Faithful
  <2>1. CASE r.op = "INSERT"
    <3>. DEFINE t == DeleteBytes(e.text, o, k)
                m == Moved(e.mark, "DELETE", o, k)
                w == Moved(e.point, "DELETE", o, k)
    <3>1. o + k <= Len(e.text) /\ k # 0 /\ t = r.before
      BY <1>6, <1>8, <2>1
    <3>2. t \in Text /\ Len(t) = Len(e.text) - k
      <4>1. t \in Text
        BY <1>0, <3>1, DeleteType DEF Text
      <4>2. Len(t) = Len(e.text) - k
        BY Zenon, <1>0, <3>1, DeleteLen
      <4>. QED
        BY <4>1, <4>2
    <3>3. m \in Nat /\ m <= Len(e.text) - k /\ w \in Nat
      <4>1. m <= Len(e.text) - k
        BY Zenon, <1>0, <2>0, <3>1, MovedInText
      <4>. QED
        BY Zenon, <4>1, <1>0, MovedType
    <3>4. Clip(k, Len(e.text) - o) = k /\ ~(o >= Len(e.text))
      BY <1>0, <3>1 DEF Clip
    <3>5. QuietDelete(g, o, k) = [Notify(g, "DELETE", o, k) EXCEPT !.text = t]
      BY SMTT(30), Z3T(30), <1>0, <1>7, <3>4 DEF QuietDelete
    <3>6. Notify(g, "DELETE", o, k) = [g EXCEPT !.point = w, !.mark = m, !.modified = TRUE]
      BY <1>7 DEF Notify
    <3>7. p = [QuietDelete(g, o, k) EXCEPT !.point = o]
      BY SMTT(30), Z3T(30), <1>8, <2>1 DEF RedoPlay
    <3>. HIDE DEF t, m, w, p
    <3>8. /\ p \in EditBuffer /\ p.text = t /\ p.readonly = g.readonly /\ p.corrupt = g.corrupt
          /\ p.nb_logs = g.nb_logs /\ p.point = o /\ p.mark = m
      <4>1. PICK N, Q : /\ N = [g EXCEPT !.point = w, !.mark = m, !.modified = TRUE]
                        /\ Q = [N EXCEPT !.text = t] /\ p = [Q EXCEPT !.point = o]
        BY Zenon, <3>5, <3>6, <3>7
      <4>2. /\ N \in EditBuffer /\ N.readonly = g.readonly /\ N.corrupt = g.corrupt
            /\ N.nb_logs = g.nb_logs /\ N.mark = m
        BY Zenon, <1>7, <3>3, <4>1 DEF EditBuffer
      <4>3. /\ Q \in EditBuffer /\ Q.text = t /\ Q.readonly = g.readonly
            /\ Q.corrupt = g.corrupt /\ Q.nb_logs = g.nb_logs /\ Q.mark = m
        BY ZenonT(40), <3>2, <4>1, <4>2 DEF EditBuffer
      <4>4. o \in Nat /\ p = [Q EXCEPT !.point = o]
        BY <4>1
      <4>5. /\ p \in EditBuffer /\ p.text = Q.text /\ p.readonly = Q.readonly
            /\ p.corrupt = Q.corrupt /\ p.nb_logs = Q.nb_logs /\ p.mark = Q.mark
            /\ p.point = o
        BY Zenon, <4>3, <4>4 DEF EditBuffer
      <4>. QED
        BY <4>3, <4>5
    <3>9. o <= Len(t) /\ m <= Len(t)
      BY SMTT(30), Z3T(30), <1>0, <3>1, <3>2, <3>3
    <3>. QED
      BY <1>0, <1>7, <3>1, <3>8, <3>9
  <2>2. CASE r.op = "DELETE"
    <3>. DEFINE t == InsertBytes(e.text, o, r.data)
                m == Moved(e.mark, "INSERT", o, k)
                w == Moved(e.point, "INSERT", o, k)
    <3>1. o <= Len(e.text) /\ Len(r.data) = k /\ t = r.before /\ r.data \in Seq(Byte)
      BY <1>6, <1>8, <2>2 DEF Text
    <3>2. t \in Text /\ Len(t) = Len(e.text) + k
      <4>1. t \in Text
        BY Zenon, <1>0, <3>1, InsertType DEF Text
      <4>2. Len(t) = Len(e.text) + Len(r.data)
        BY <1>0, <3>1, InsertLen, ZenonT(40)
      <4>. QED
        BY <4>1, <4>2, <3>1
    <3>3. m \in Nat /\ m <= Len(e.text) + k /\ w \in Nat
      <4>1. m <= Len(e.text) + k
        BY Zenon, <1>0, <2>0, <3>1, MovedInText
      <4>. QED
        BY <4>1, <1>0, MovedType
    <3>4. Clip(o, Len(e.text)) = o
      BY <1>0, <3>1 DEF Clip
    <3>5. MuteInsert(g, o, r.data) = [g EXCEPT !.text = t]
      BY <1>0, <1>7, <3>4 DEF MuteInsert
    <3>6. Notify(MuteInsert(g, o, r.data), "INSERT", o, k) =
            [g EXCEPT !.text = t, !.point = w, !.mark = m, !.modified = TRUE]
      <4>. HIDE DEF t
      <4>1. /\ MuteInsert(g, o, r.data).point = e.point
            /\ MuteInsert(g, o, r.data).mark = e.mark
        BY <1>7, <3>5 DEF EditBuffer
      <4>. QED
        BY Zenon, <1>7, <3>5, <4>1 DEF Notify, EditBuffer
    <3>7. p = [Notify(MuteInsert(g, o, r.data), "INSERT", o, k) EXCEPT !.point = o + k]
      BY <1>8, <2>2 DEF RedoPlay
    <3>. HIDE DEF t, m, w, p
    <3>8. /\ p \in EditBuffer /\ p.text = t /\ p.readonly = g.readonly /\ p.corrupt = g.corrupt
          /\ p.nb_logs = g.nb_logs /\ p.point = o + k /\ p.mark = m
      <4>1. PICK N : /\ N = [g EXCEPT !.text = t, !.point = w, !.mark = m, !.modified = TRUE]
                     /\ p = [N EXCEPT !.point = o + k]
        BY Zenon, <3>6, <3>7
      <4>2. /\ N \in EditBuffer /\ N.text = t /\ N.readonly = g.readonly
            /\ N.corrupt = g.corrupt /\ N.nb_logs = g.nb_logs /\ N.mark = m
        BY Zenon, <1>7, <3>2, <3>3, <4>1 DEF EditBuffer
      <4>3. o + k \in Nat
        OBVIOUS
      <4>. QED
        BY <4>1, <4>2, <4>3, ZenonT(40) DEF EditBuffer
    <3>9. o + k <= Len(t) /\ m <= Len(t)
      BY <1>0, <3>1, <3>2, <3>3
    <3>. QED
      BY <1>0, <1>7, <3>1, <3>8, <3>9
  <2>. QED
    BY <1>6, <2>1, <2>2
<1>. HIDE DEF p
<1>10. /\ f \in EditBuffer /\ f.text = p.text /\ f.log = l /\ f.log_current = c
       /\ f.readonly = p.readonly /\ f.corrupt = p.corrupt /\ f.nb_logs = p.nb_logs
       /\ f.point = p.point /\ f.mark = p.mark /\ f.modified = r.was_modified
  BY ZenonT(40), <1>3, <1>4, <1>5, <1>6, <1>9 DEF EditBuffer
<1>11. f.nb_logs >= Len(f.log) /\ f.log_current <= Len(f.log)
  <2>1. e.nb_logs >= Len(e.log)
    BY DEF Faithful
  <2>. QED
    BY SMTT(30), Z3T(30), <2>1, <1>0, <1>3, <1>4, <1>9, <1>10
<1>12. Faithful(f)
  BY <1>3, <1>9, <1>10, <1>11 DEF Faithful, Sound
<1>. QED
  BY <1>9, <1>10, <1>12 DEF r, l, c

-----------------------------------------------------------------------------
(* A full log.  As long as nb_logs counts the records, making room in      *)
(* front of eb_addlog is the same as in it, so that what holds of a log    *)
(* with room carries over.                                                 *)
Counted(e) == e.nb_logs = Len(e.log) /\ e.nb_logs < NB_LOGS_MAX
Roomy(e) == ~LogFull(e) \/ Counted(e)

LEMMA EvictFields ==
    ASSUME NEW e, e \in EditBuffer, Counted(e), LogFull(e)
    PROVE  LET c == IF e.log_current > 1 THEN e.log_current - 1 ELSE e.log_current IN
           /\ e.log # <<>> /\ Len(e.log) >= 2
           /\ Evict(e) = [e EXCEPT !.log = Tail(e.log), !.log_current = c,
                                   !.nb_logs = e.nb_logs - 1]
           /\ e.nb_logs - 1 \in Nat /\ c \in Nat /\ ~(e.nb_logs - 1 >= NB_LOGS_MAX - 1)
           /\ Tail(e.log) \in Seq(LogRecord) /\ Len(Tail(e.log)) = Len(e.log) - 1
           /\ \A i \in 1 .. Len(e.log) - 1 : Tail(e.log)[i] = e.log[i + 1]
<1>1. e.log \in Seq(LogRecord) /\ e.nb_logs \in Nat /\ e.log_current \in Nat /\ Len(e.log) \in Nat
  BY LenProperties DEF EditBuffer
<1>2. Len(e.log) >= 2 /\ e.nb_logs - 1 \in Nat /\ ~(e.nb_logs - 1 >= NB_LOGS_MAX - 1)
  BY <1>1, UndoLogAssumption DEF Counted, LogFull
<1>3. e.log # <<>>
  BY <1>1, <1>2, EmptySeq
<1>4. /\ Tail(e.log) \in Seq(LogRecord) /\ Len(Tail(e.log)) = Len(e.log) - 1
      /\ \A i \in 1 .. Len(e.log) - 1 : Tail(e.log)[i] = e.log[i + 1]
  BY <1>1, <1>3, HeadTailProperties
<1>. QED
  BY <1>1, <1>2, <1>3, <1>4 DEF Evict

(* Making room changes nothing but the log and its indices. *)
LEMMA EvictKeeps ==
    ASSUME NEW e, e \in EditBuffer, Counted(e), LogFull(e), NEW v, v = Evict(e)
    PROVE  /\ v \in EditBuffer /\ v.text = e.text /\ v.point = e.point /\ v.mark = e.mark
           /\ v.region_style = e.region_style /\ v.readonly = e.readonly
           /\ v.modified = e.modified /\ v.last_log = e.last_log
           /\ v.last_log_char = e.last_log_char /\ v.corrupt = e.corrupt
           /\ v.log = Tail(e.log) /\ v.nb_logs = e.nb_logs - 1
           /\ v.log_current = IF e.log_current > 1 THEN e.log_current - 1 ELSE e.log_current
           /\ ~LogFull(v)
<1>. DEFINE c == IF e.log_current > 1 THEN e.log_current - 1 ELSE e.log_current
            l == Tail(e.log)
            n == e.nb_logs - 1
<1>1. /\ v = [e EXCEPT !.log = l, !.log_current = c, !.nb_logs = n]
      /\ n \in Nat /\ c \in Nat /\ l \in Seq(LogRecord) /\ ~(n >= NB_LOGS_MAX - 1)
  BY EvictFields
<1>. HIDE DEF c, l, n
<1>2. /\ v \in EditBuffer /\ v.text = e.text /\ v.point = e.point /\ v.mark = e.mark
      /\ v.region_style = e.region_style /\ v.readonly = e.readonly
      /\ v.modified = e.modified /\ v.last_log = e.last_log
      /\ v.last_log_char = e.last_log_char /\ v.corrupt = e.corrupt
      /\ v.log = l /\ v.nb_logs = n /\ v.log_current = c
  BY ZenonT(40), <1>1 DEF EditBuffer
<1>3. ~LogFull(v)
  BY <1>1, <1>2 DEF LogFull
<1>. QED
  BY SMTT(30), Z3T(30), <1>2, <1>3 DEF c, l, n

LEMMA EvictFaithful ==
    ASSUME NEW e, Faithful(e), Counted(e), LogFull(e), NEW v, v = Evict(e)
    PROVE  Faithful(v) /\ Counted(v)
<1>0. /\ e \in EditBuffer /\ e.log \in Seq(LogRecord) /\ Len(e.log) \in Nat
      /\ e.nb_logs \in Nat /\ e.log_current \in Nat /\ ~e.readonly /\ ~e.corrupt
      /\ e.log_current <= Len(e.log)
  BY Zenon, FaithfulTypes DEF Faithful, Sound
<1>1. PICK l : l = Tail(e.log)
  BY ZenonT(40)
<1>2. /\ Len(e.log) >= 2 /\ l \in Seq(LogRecord) /\ Len(l) = Len(e.log) - 1
      /\ \A i \in 1 .. Len(e.log) - 1 : l[i] = e.log[i + 1]
  BY <1>0, <1>1, EvictFields
<1>3. /\ v \in EditBuffer /\ v.text = e.text /\ v.point = e.point /\ v.mark = e.mark
      /\ v.readonly = e.readonly /\ v.corrupt = e.corrupt
      /\ v.log = l /\ v.nb_logs = e.nb_logs - 1
      /\ v.log_current = IF e.log_current > 1 THEN e.log_current - 1 ELSE e.log_current
  BY SMTT(30), Z3T(30), <1>0, <1>1, EvictKeeps
<1>4. ASSUME NEW i \in 1 .. Len(l)
      PROVE  Describes(l[i], Follows(l, i, e.text))
  <2>1. i + 1 \in 1 .. Len(e.log) /\ l[i] = e.log[i + 1]
    BY <1>0, <1>2
  <2>2. Follows(l, i, e.text) = Follows(e.log, i + 1, e.text)
    <3>1. CASE i = Len(l)
      BY <1>0, <1>2, <3>1 DEF Follows
    <3>2. CASE i # Len(l)
      <4>1. i + 1 \in 1 .. Len(e.log) - 1 /\ i + 1 # Len(e.log)
        BY <1>0, <1>2, <3>2
      <4>2. l[i + 1] = e.log[(i + 1) + 1]
        BY <1>2, <4>1
      <4>. QED
        BY <3>2, <4>1, <4>2 DEF Follows
    <3>. QED
      BY Zenon, <3>1, <3>2
  <2>. QED
    BY <2>1, <2>2 DEF Faithful, Tells
<1>5. Tells(l, e.text)
  BY <1>4 DEF Tells
<1>6. v.log_current <= Len(l) /\ v.nb_logs = Len(l) /\ v.nb_logs < NB_LOGS_MAX
  BY <1>0, <1>2, <1>3, UndoLogAssumption DEF Counted
<1>7. e.point <= Len(e.text) /\ e.mark <= Len(e.text)
  BY DEF Faithful
<1>8. v.nb_logs >= Len(v.log)
  BY <1>0, <1>2, <1>3, <1>6
<1>. QED
  BY <1>0, <1>3, <1>5, <1>6, <1>7, <1>8 DEF Faithful, Sound, Counted

LEMMA EvictFirst ==
    ASSUME NEW e, e \in EditBuffer, Counted(e), LogFull(e), NEW v, v = Evict(e),
           NEW op, NEW o \in Nat, NEW n \in Nat, NEW before
    PROVE  AddLog(e, op, o, n, before) = AddLog(v, op, o, n, before)
<1>. DEFINE p == Moved(e.point, op, o, n)
            m == Moved(e.mark, op, o, n)
            c == IF e.log_current > 1 THEN e.log_current - 1 ELSE e.log_current
            l == Tail(e.log)
            k == e.nb_logs - 1
            g == Notify(e, op, o, n)
            f == Notify(v, op, o, n)
<1>0. p \in Nat /\ m \in Nat
  BY MovedType DEF EditBuffer
<1>1. /\ v = [e EXCEPT !.log = l, !.log_current = c, !.nb_logs = k]
      /\ k \in Nat /\ c \in Nat /\ l \in Seq(LogRecord) /\ e.log # <<>>
  BY EvictFields
<1>2. v.point = e.point /\ v.mark = e.mark /\ v.modified = e.modified /\ ~LogFull(v)
  BY EvictKeeps
<1>3. g = [e EXCEPT !.point = p, !.mark = m, !.modified = TRUE]
  BY DEF Notify
<1>4. f = [v EXCEPT !.point = p, !.mark = m, !.modified = TRUE]
  BY <1>2 DEF Notify
<1>. HIDE DEF p, m, g, f, l, c, k
<1>5. /\ g.log = e.log /\ g.nb_logs = e.nb_logs /\ g.log_current = e.log_current
      /\ f.nb_logs = v.nb_logs
  <2>1. v \in EditBuffer
    BY EvictKeeps
  <2>. QED
    BY Zenon, <1>3, <1>4, <2>1 DEF EditBuffer
<1>6. Evict(g) = [g EXCEPT !.log = l, !.log_current = c, !.nb_logs = k]
  BY <1>1, <1>5 DEF Evict, LogFull, l, c, k
<1>7. Evict(f) = f
  BY <1>2, <1>5 DEF Evict, LogFull
<1>8. f = [g EXCEPT !.log = l, !.log_current = c, !.nb_logs = k]
  BY Zenon, <1>0, <1>1, <1>3, <1>4 DEF EditBuffer
<1>9. Record(e, f, op, o, n, before) = Record(v, f, op, o, n, before)
  BY <1>2 DEF Record
<1>. QED
  BY ZenonT(40), <1>6, <1>7, <1>8, <1>9 DEF AddLog, f, g

LEMMA EvictDelete ==
    ASSUME NEW e, e \in EditBuffer, Counted(e), LogFull(e), NEW v, v = Evict(e),
           NEW o \in Nat, NEW n \in Nat, n # 0, o + n <= Len(e.text), ~e.readonly
    PROVE  Delete(e, o, n) = Delete(v, o, n)
<1>1. v.text = e.text /\ v.readonly = e.readonly
  BY EvictKeeps
<1>2. Len(e.text) \in Nat
  BY LenProperties DEF EditBuffer, Text
<1>3. Clip(n, Len(e.text) - o) = n
  BY <1>2 DEF Clip
<1>4. AddLog(e, "DELETE", o, n, e.text) = AddLog(v, "DELETE", o, n, e.text)
  BY EvictFirst
<1>. QED
  BY <1>1, <1>3, <1>4 DEF Delete

(* eb_insert and eb_delete on a log that may be full. *)
LEMMA InsertKeeps ==
    ASSUME NEW e, Faithful(e), Roomy(e), NEW o \in Nat, o <= Len(e.text), NEW d \in Text
    PROVE  LET f == Insert(e, o, d) IN
           /\ Faithful(f) /\ f.nb_logs <= e.nb_logs + 1 /\ (Counted(e) => Counted(f))
           /\ e.point = o => f.point + Len(d) <= Len(f.text)
<1>. SUFFICES ASSUME NEW f, f = Insert(e, o, d)
              PROVE  /\ Faithful(f) /\ f.nb_logs <= e.nb_logs + 1 /\ (Counted(e) => Counted(f))
                     /\ e.point = o => f.point + Len(d) <= Len(f.text)
  OBVIOUS
<1>0. e \in EditBuffer /\ e.nb_logs \in Nat /\ Len(d) \in Nat
  BY Zenon, FaithfulTypes, LenProperties DEF Text
<1>1. CASE d = <<>>
  <2>1. f = e /\ Len(d) = 0
    BY <1>1 DEF Insert
  <2>. QED
    BY <1>0, <2>1, FaithfulTypes DEF Faithful
<1>2. CASE ~LogFull(e)
  <2>1. /\ Faithful(f) /\ f.nb_logs <= e.nb_logs + 1
        /\ e.nb_logs = Len(e.log) => f.nb_logs = Len(f.log)
        /\ e.point = o => f.point + Len(d) <= Len(f.text)
    BY <1>2, InsertFaithful
  <2>2. f.nb_logs \in Nat
    BY ZenonT(40), <2>1, FaithfulTypes
  <2>. QED
    BY SMTT(30), Z3T(30), <1>0, <1>2, <2>1, <2>2, UndoLogAssumption DEF Counted, LogFull
<1>3. CASE LogFull(e) /\ d # <<>>
  <2>1. PICK v : v = Evict(e)
    OBVIOUS
  <2>2. Counted(e)
    BY <1>3 DEF Roomy
  <2>3. Faithful(v) /\ Counted(v)
    BY Zenon, <1>3, <2>1, <2>2, EvictFaithful
  <2>4. /\ v.text = e.text /\ v.point = e.point /\ v.readonly = e.readonly /\ ~LogFull(v)
        /\ v.nb_logs = e.nb_logs - 1
    BY <1>0, <1>3, <2>1, <2>2, EvictKeeps
  <2>5. f = Insert(v, o, d)
    <3>1. Clip(o, Len(e.text)) \in Nat
      BY FaithfulTypes DEF Clip
    <3>2. \A k \in Nat : AddLog(e, "INSERT", k, Len(d), e.text)
                          = AddLog(v, "INSERT", k, Len(d), e.text)
      BY SMTT(30), Z3T(30), <1>0, <1>3, <2>1, <2>2, EvictFirst
    <3>3. ~e.readonly /\ ~v.readonly
      BY <2>4 DEF Faithful
    <3>4. PICK k \in Nat : k = Clip(o, Len(e.text))
      BY <3>1
    <3>5. f = [AddLog(e, "INSERT", k, Len(d), e.text) EXCEPT !.text = InsertBytes(e.text, k, d)]
      BY <1>3, <3>3, <3>4 DEF Insert
    <3>6. Insert(v, o, d) = [AddLog(v, "INSERT", k, Len(d), e.text)
                               EXCEPT !.text = InsertBytes(e.text, k, d)]
      BY Zenon, <1>3, <2>4, <3>3, <3>4 DEF Insert
    <3>. QED
      BY <3>2, <3>5, <3>6
  <2>6. /\ Faithful(f) /\ f.nb_logs <= v.nb_logs + 1
        /\ v.nb_logs = Len(v.log) => f.nb_logs = Len(f.log)
        /\ v.point = o => f.point + Len(d) <= Len(f.text)
    BY <2>3, <2>4, <2>5, InsertFaithful
  <2>7. f.nb_logs \in Nat
    BY Zenon, <2>6, FaithfulTypes
  <2>. QED
    BY <1>0, <2>2, <2>3, <2>4, <2>6, <2>7, UndoLogAssumption DEF Counted
<1>. QED
  BY <1>1, <1>2, <1>3

LEMMA DeleteKeeps ==
    ASSUME NEW e, Faithful(e), Roomy(e), NEW o \in Nat, NEW n \in Nat, o + n <= Len(e.text)
    PROVE  LET f == Delete(e, o, n) IN
           /\ Faithful(f) /\ f.nb_logs <= e.nb_logs + 1 /\ (Counted(e) => Counted(f))
           /\ Len(f.text) = Len(e.text) - n
<1>. SUFFICES ASSUME NEW f, f = Delete(e, o, n)
              PROVE  /\ Faithful(f) /\ f.nb_logs <= e.nb_logs + 1 /\ (Counted(e) => Counted(f))
                     /\ Len(f.text) = Len(e.text) - n
  OBVIOUS
<1>0. e \in EditBuffer /\ e.nb_logs \in Nat /\ Len(e.text) \in Nat
  BY Zenon, FaithfulTypes
<1>1. CASE n = 0
  <2>1. f = e
    BY <1>1 DEF Delete
  <2>. QED
    BY <1>0, <1>1, <2>1
<1>2. CASE ~LogFull(e)
  <2>1. /\ Faithful(f) /\ f.nb_logs <= e.nb_logs + 1
        /\ e.nb_logs = Len(e.log) => f.nb_logs = Len(f.log)
        /\ Len(f.text) = Len(e.text) - n
    BY Zenon, <1>2, DeleteFaithful
  <2>2. f.nb_logs \in Nat
    BY Zenon, <2>1, FaithfulTypes
  <2>. QED
    BY SMTT(30), Z3T(30), <1>0, <1>2, <2>1, <2>2, UndoLogAssumption DEF Counted, LogFull
<1>3. CASE LogFull(e) /\ n # 0
  <2>1. PICK v : v = Evict(e)
    OBVIOUS
  <2>2. Counted(e)
    BY <1>3 DEF Roomy
  <2>3. Faithful(v) /\ Counted(v)
    BY Zenon, <1>3, <2>1, <2>2, EvictFaithful
  <2>4. v.text = e.text /\ v.readonly = e.readonly /\ ~LogFull(v) /\ v.nb_logs = e.nb_logs - 1
    BY SMTT(30), Z3T(30), <1>0, <1>3, <2>1, <2>2, EvictKeeps
  <2>5. f = Delete(v, o, n)
    BY <1>0, <1>3, <2>1, <2>2, EvictDelete DEF Faithful
  <2>6. /\ Faithful(f) /\ f.nb_logs <= v.nb_logs + 1
        /\ v.nb_logs = Len(v.log) => f.nb_logs = Len(f.log)
        /\ Len(f.text) = Len(v.text) - n
    <3>1. o + n <= Len(v.text)
      BY Zenon, <2>4
    <3>2. /\ Faithful(Delete(v, o, n)) /\ Delete(v, o, n).nb_logs <= v.nb_logs + 1
          /\ v.nb_logs = Len(v.log) => Delete(v, o, n).nb_logs = Len(Delete(v, o, n).log)
          /\ Len(Delete(v, o, n).text) = Len(v.text) - n
      BY <2>3, <2>4, <3>1, DeleteFaithful
    <3>. QED
      BY <2>5, <3>2
  <2>7. f.nb_logs \in Nat
    BY Zenon, <2>6, FaithfulTypes
  <2>. QED
    BY SMTT(30), Z3T(30), <1>0, <2>2, <2>3, <2>4, <2>6, <2>7, UndoLogAssumption DEF Counted
<1>. QED
  BY <1>1, <1>2, <1>3

-----------------------------------------------------------------------------
(* The editing commands. *)

LEMMA DeselectFaithful ==
    ASSUME NEW e, Faithful(e)
    PROVE  /\ Faithful(Deselect(e)) /\ Deselect(e).text = e.text
           /\ Deselect(e).nb_logs = e.nb_logs /\ Deselect(e).point = e.point
           /\ Deselect(e).mark = e.mark /\ (Counted(e) => Counted(Deselect(e)))
<1>1. e \in EditBuffer
  BY Zenon, FaithfulTypes
<1>. DEFINE f == Deselect(e)
<1>2. /\ f \in EditBuffer /\ f.text = e.text /\ f.log = e.log /\ f.readonly = e.readonly
      /\ f.log_current = e.log_current /\ f.nb_logs = e.nb_logs /\ f.corrupt = e.corrupt
      /\ f.point = e.point /\ f.mark = e.mark
  BY Zenon, <1>1 DEF EditBuffer, Deselect
<1>. QED
  BY <1>2 DEF Faithful, Sound, Counted

LEMMA DeleteRangeFaithful ==
    ASSUME NEW e, Faithful(e), Roomy(e), NEW p \in Nat, NEW q \in Nat,
           p <= Len(e.text), q <= Len(e.text)
    PROVE  LET f == DeleteRange(e, p, q) IN
           /\ Faithful(f) /\ f.nb_logs <= e.nb_logs + 1 /\ (Counted(e) => Counted(f))
           /\ p <= Len(f.text) \/ q <= Len(f.text)
           /\ p <= q => p <= Len(f.text)
           /\ q <= p => q <= Len(f.text)
<1>0. Len(e.text) \in Nat
  BY FaithfulTypes
<1>1. CASE p < q
  <2>1. PICK n \in Nat : n = q - p
    BY <1>1
  <2>2. DeleteRange(e, p, q) = Delete(e, p, n) /\ p + n <= Len(e.text)
    BY <1>0, <1>1, <2>1 DEF DeleteRange
  <2>3. /\ Faithful(Delete(e, p, n)) /\ Delete(e, p, n).nb_logs <= e.nb_logs + 1
        /\ Counted(e) => Counted(Delete(e, p, n))
        /\ Len(Delete(e, p, n).text) = Len(e.text) - n
    BY <2>2, DeleteKeeps
  <2>. QED
    BY <1>0, <1>1, <2>1, <2>2, <2>3
<1>2. CASE ~(p < q)
  <2>1. PICK n \in Nat : n = p - q
    BY <1>2
  <2>2. DeleteRange(e, p, q) = Delete(e, q, n) /\ q + n <= Len(e.text)
    BY <1>0, <1>2, <2>1 DEF DeleteRange
  <2>3. /\ Faithful(Delete(e, q, n)) /\ Delete(e, q, n).nb_logs <= e.nb_logs + 1
        /\ Counted(e) => Counted(Delete(e, q, n))
        /\ Len(Delete(e, q, n).text) = Len(e.text) - n
    BY <2>2, DeleteKeeps
  <2>. QED
    BY <1>0, <1>2, <2>1, <2>2, <2>3
<1>. QED
  BY <1>1, <1>2

LEMMA DeleteSelectionFaithful ==
    ASSUME NEW e, Faithful(e), Roomy(e)
    PROVE  /\ Faithful(DeleteSelection(e))
           /\ DeleteSelection(e).nb_logs <= e.nb_logs + 1
           /\ Counted(e) => Counted(DeleteSelection(e))
<1>0. e.point \in Nat /\ e.mark \in Nat /\ e.point <= Len(e.text) /\ e.mark <= Len(e.text)
      /\ e.nb_logs \in Nat
  BY Zenon, FaithfulTypes DEF Faithful
<1>. DEFINE f == DeleteRange(e, e.mark, e.point)
<1>1. Faithful(f) /\ f.nb_logs <= e.nb_logs + 1 /\ (Counted(e) => Counted(f))
  BY <1>0, DeleteRangeFaithful
<1>2. DeleteSelection(e) = Deselect(f) \/ DeleteSelection(e) = Deselect(e)
  BY DEF DeleteSelection
<1>. HIDE DEF f
<1>3. /\ Faithful(Deselect(f)) /\ Deselect(f).nb_logs = f.nb_logs
      /\ Counted(f) => Counted(Deselect(f))
  BY <1>1, DeselectFaithful
<1>4. /\ Faithful(Deselect(e)) /\ Deselect(e).nb_logs = e.nb_logs
      /\ Counted(e) => Counted(Deselect(e))
  BY DeselectFaithful
<1>. QED
  BY <1>0, <1>1, <1>2, <1>3, <1>4

(* Inserting at the point and moving the point behind the new bytes, after *)
(* changes to the fields that only decide about coalescing.                *)
LEMMA InsertAtPoint ==
    ASSUME NEW e, Faithful(e), Roomy(e), NEW d \in Text,
           NEW g, g \in EditBuffer, g.text = e.text, g.log = e.log, g.readonly = e.readonly,
           g.log_current = e.log_current, g.nb_logs = e.nb_logs, g.corrupt = e.corrupt,
           g.point = e.point, g.mark <= Len(e.text)
    PROVE  LET h == [Insert(g, e.point, d) EXCEPT !.point = @ + Len(d)] IN
           Faithful(h) /\ (Counted(e) => Counted(h))
<1>1. Faithful(g) /\ Roomy(g) /\ (Counted(e) => Counted(g))
  BY DEF Faithful, Sound, Roomy, LogFull, Counted
<1>2. PICK o \in Nat : o = e.point /\ o <= Len(g.text)
  BY Zenon, FaithfulTypes DEF Faithful
<1>3. PICK f : f = Insert(g, o, d)
  OBVIOUS
<1>4. Faithful(f) /\ f.point + Len(d) <= Len(f.text) /\ (Counted(g) => Counted(f))
  BY Zenon, <1>1, <1>2, <1>3, InsertKeeps
<1>5. PICK k \in Nat : k = f.point + Len(d)
  <2>1. f.point \in Nat
    BY Zenon, <1>4, FaithfulTypes
  <2>2. Len(d) \in Nat
    BY LenProperties DEF Text
  <2>. QED
    BY <2>1, <2>2
<1>6. Faithful([f EXCEPT !.point = k]) /\ (Counted(f) => Counted([f EXCEPT !.point = k]))
  BY <1>4, <1>5, SetPoint DEF Counted
<1>7. [f EXCEPT !.point = @ + Len(d)] = [f EXCEPT !.point = k]
  BY <1>5
<1>. QED
  BY SMTT(30), Z3T(30), <1>1, <1>2, <1>3, <1>4, <1>6, <1>7

LEMMA InsertCharFaithful ==
    ASSUME NEW e, Faithful(e), Roomy(e), NEW c \in Byte
    PROVE  Faithful(InsertChar(e, c)) /\ (Counted(e) => Counted(InsertChar(e, c)))
<1>1. e \in EditBuffer /\ e.mark <= Len(e.text)
  BY Zenon, FaithfulTypes DEF Faithful
<1>. DEFINE breaks == c = Newline \/ (c # Space /\ e.last_log_char = Space)
            g == [e EXCEPT !.last_log = IF breaks THEN "FREE" ELSE @, !.last_log_char = c]
<1>2. /\ g \in EditBuffer /\ g.text = e.text /\ g.log = e.log /\ g.readonly = e.readonly
      /\ g.log_current = e.log_current /\ g.nb_logs = e.nb_logs /\ g.corrupt = e.corrupt
      /\ g.point = e.point /\ g.mark = e.mark
  BY Zenon, <1>1 DEF EditBuffer
<1>3. InsertChar(e, c) = [Insert(g, e.point, <<c>>) EXCEPT !.point = @ + 1]
  BY DEF InsertChar
<1>. HIDE DEF g
<1>4. <<c>> \in Text /\ Len(<<c>>) = 1
  BY DEF Text
<1>5. LET h == [Insert(g, e.point, <<c>>) EXCEPT !.point = @ + Len(<<c>>)] IN
      Faithful(h) /\ (Counted(e) => Counted(h))
  BY Zenon, <1>1, <1>2, <1>4, InsertAtPoint
<1>. QED
  BY <1>3, <1>4, <1>5

LEMMA YankFaithful ==
    ASSUME NEW e, Faithful(e), Roomy(e), NEW d \in Text
    PROVE  Faithful(Yank(e, d)) /\ (Counted(e) => Counted(Yank(e, d)))
<1>1. e \in EditBuffer /\ e.point \in Nat /\ e.point <= Len(e.text)
  BY Zenon, FaithfulTypes DEF Faithful
<1>. DEFINE g == [e EXCEPT !.mark = e.point,
                           !.last_log = IF d = <<>> THEN @ ELSE "FREE"]
<1>2. /\ g \in EditBuffer /\ g.text = e.text /\ g.log = e.log /\ g.readonly = e.readonly
      /\ g.log_current = e.log_current /\ g.nb_logs = e.nb_logs /\ g.corrupt = e.corrupt
      /\ g.point = e.point /\ g.mark = e.point
  BY Zenon, <1>1 DEF EditBuffer
<1>3. Yank(e, d) = [Insert(g, e.point, d) EXCEPT !.point = @ + Len(d)]
  BY DEF Yank
<1>. HIDE DEF g
<1>. QED
  BY <1>1, <1>2, <1>3, InsertAtPoint

-----------------------------------------------------------------------------
(* The inductive invariant.  UndoChain alone is not inductive: after a redo *)
(* it needs the mirrored records of UndoMirror, and RedoRestores needs that *)
(* undo and redo come in pairs, so that the log is never shorter than the   *)
(* undone history and its reversal.                                         *)
Paired == InChain => \E u \in Nat : Len(b.log) = b.log_current + 2 * u + 1
HistoryInv == TypeInv /\ Faithful(b) /\ UndoChain /\ UndoMirror /\ Paired

LEMMA RoomNotFull ==
    ASSUME MayEvict = FALSE, Faithful(b), Room
    PROVE  ~LogFull(b) /\ \A f : f.nb_logs <= b.nb_logs + 1 /\ f.nb_logs \in Nat => ~LogFull(f)
<1>1. b.nb_logs \in Nat
  BY Zenon, FaithfulTypes
<1>. QED
  BY <1>1, UndoLogAssumption DEF Room, LogFull

(* Every command other than undo and redo keeps the history. *)
Keeps(e) == Faithful(e) /\ (Counted(b) => Counted(e))

LEMMA EditStep ==
    ASSUME Undisturbed, MayEvict = FALSE \/ Counted(b), Faithful(b), Next, ~do_undo, ~do_redo
    PROVE  Keeps(b') /\ last_cmd' = "other"
<1>0. /\ Faithful(b) /\ b \in EditBuffer /\ ~b.readonly
      /\ b.point \in Nat /\ b.point <= Len(b.text) /\ b.mark \in Nat /\ b.mark <= Len(b.text)
      /\ b.text \in Text /\ Len(b.text) \in Nat
  BY Zenon, FaithfulTypes DEF Faithful
<1>1. Room => /\ Roomy(b) /\ Keeps(DeleteSelection(b)) /\ Roomy(DeleteSelection(b))
              /\ Keeps(Deselect(b)) /\ Roomy(Deselect(b))
              /\ Deselect(b).text = b.text
  <2>. SUFFICES ASSUME Room
                PROVE  /\ Roomy(b) /\ Keeps(DeleteSelection(b)) /\ Roomy(DeleteSelection(b))
                       /\ Keeps(Deselect(b)) /\ Roomy(Deselect(b))
                       /\ Deselect(b).text = b.text
    OBVIOUS
  <2>1. Roomy(b)
    BY Zenon, RoomNotFull DEF Roomy
  <2>2. /\ Faithful(DeleteSelection(b)) /\ DeleteSelection(b).nb_logs <= b.nb_logs + 1
        /\ Counted(b) => Counted(DeleteSelection(b))
    BY <1>0, <2>1, DeleteSelectionFaithful
  <2>3. DeleteSelection(b).nb_logs \in Nat
    BY Zenon, <2>2, FaithfulTypes
  <2>4. Roomy(DeleteSelection(b))
    BY Zenon, <2>2, <2>3, RoomNotFull DEF Roomy
  <2>5. /\ Faithful(Deselect(b)) /\ Deselect(b).text = b.text /\ Deselect(b).nb_logs = b.nb_logs
        /\ Counted(b) => Counted(Deselect(b))
    BY <1>0, DeselectFaithful
  <2>6. Roomy(Deselect(b))
    BY <2>1, <2>5 DEF Roomy, LogFull
  <2>. QED
    BY <2>1, <2>2, <2>4, <2>5, <2>6 DEF Keeps
<1>2. ASSUME NEW c \in Byte, NEW overwrite \in BOOLEAN, do_char(c, overwrite)
      PROVE  Keeps(b') /\ last_cmd' = "other"
  <2>1. ~overwrite /\ Room /\ last_cmd' = "other"
    BY <1>2 DEF do_char, Issue, Undisturbed
  <2>2. b' = InsertChar(DeleteSelection(b), c)
    BY <1>0, <1>2, <2>1 DEF do_char, text_write_char
  <2>. QED
    BY <1>1, <2>1, <2>2, InsertCharFaithful DEF Keeps
<1>3. CASE do_delete_char
  <2>1. Room /\ last_cmd' = "other"
    BY <1>3 DEF do_delete_char, Issue
  <2>2. Keeps(Delete(Deselect(b), b.point, 1))
    <3>1. CASE b.point + 1 <= Len(b.text)
      <4>1. PICK n \in Nat : n = 1
        OBVIOUS
      <4>2. b.point + n <= Len(Deselect(b).text)
        BY SMTT(30), Z3T(30), <4>1, <3>1, <1>1, <2>1
      <4>3. Keeps(Delete(Deselect(b), b.point, n))
        BY SMTT(30), Z3T(30), <4>2, <1>0, <1>1, <2>1, DeleteKeeps DEF Keeps
      <4>. QED
        BY <4>1, <4>3
    <3>2. CASE ~(b.point + 1 <= Len(b.text))
      <4>1. Delete(Deselect(b), b.point, 1) = Deselect(b)
        BY <3>2, <1>0, <1>1, <2>1 DEF Delete
      <4>. QED
        BY <4>1, <1>1, <2>1
    <3>. QED
      BY <3>1, <3>2
  <2>. QED
    BY <1>0, <1>1, <1>3, <2>1, <2>2 DEF do_delete_char
<1>4. CASE do_kill_region
  <2>1. Room /\ last_cmd' = "other"
    BY <1>4 DEF do_kill_region, Issue
  <2>. DEFINE f == DeleteRange(Deselect(b), b.mark, b.point)
  <2>2. PICK k \in Nat : k = IF b.mark < b.point THEN b.mark ELSE b.point
    BY <1>0
  <2>3. b' = [f EXCEPT !.point = k]
    BY SMTT(30), Z3T(30), <1>0, <1>4, <2>2 DEF do_kill_region
  <2>4. /\ Keeps(f)
        /\ b.mark <= b.point => b.mark <= Len(f.text)
        /\ b.point <= b.mark => b.point <= Len(f.text)
    BY <1>0, <1>1, <2>1, DeleteRangeFaithful DEF Keeps
  <2>. HIDE DEF f
  <2>5. k <= Len(f.text)
    BY <1>0, <2>2, <2>4
  <2>. QED
    BY <2>1, <2>3, <2>4, <2>5, SetPoint DEF Keeps, Counted
<1>5. ASSUME NEW d \in Strings(MaxYank), do_yank(d)
      PROVE  Keeps(b') /\ last_cmd' = "other"
  <2>1. Room /\ last_cmd' = "other" /\ b' = Yank(DeleteSelection(b), d)
    BY <1>0, <1>5 DEF do_yank, Issue
  <2>2. d \in Text
    BY StringsType, UndoLogAssumption
  <2>. QED
    BY SMTT(30), Z3T(30), <1>1, <2>1, <2>2, YankFaithful DEF Keeps
<1>6. ASSUME NEW p \in 0 .. Len(b.text), move_point(p)
      PROVE  Keeps(b') /\ last_cmd' = "other"
  <2>1. last_cmd' = "other" /\ b' = [b EXCEPT !.point = p] /\ p \in Nat /\ p <= Len(b.text)
    BY <1>0, <1>6 DEF move_point, Issue
  <2>. QED
    BY <1>0, <2>1, SetPoint DEF Keeps, Counted
<1>7. CASE do_set_mark
  <2>1. Clip(b.point, Len(b.text)) = b.point
    BY <1>0 DEF Clip
  <2>2. last_cmd' = "other" /\ b' = [b EXCEPT !.mark = b.point, !.point = b.point,
                                               !.region_style = TRUE]
    BY <1>7, <2>1 DEF do_set_mark, Issue
  <2>3. /\ b' \in EditBuffer /\ b'.text = b.text /\ b'.log = b.log /\ b'.readonly = b.readonly
        /\ b'.log_current = b.log_current /\ b'.nb_logs = b.nb_logs /\ b'.corrupt = b.corrupt
        /\ b'.point = b.point /\ b'.mark = b.point
    BY Zenon, <1>0, <2>2 DEF EditBuffer
  <2>. QED
    BY <1>0, <2>2, <2>3 DEF Faithful, Sound, Keeps, Counted
<1>8. CASE do_toggle_read_only
  BY <1>8 DEF do_toggle_read_only, Issue, Undisturbed
<1>9. ASSUME NEW arg \in BOOLEAN, do_not_modified(arg)
      PROVE  Keeps(b') /\ last_cmd' = "other"
  BY <1>0, <1>9, SetModified DEF do_not_modified, Issue, Keeps, Counted
<1>10. ASSUME NEW d \in Strings(MaxYank), shell_read_cb(d)
       PROVE  FALSE
  BY <1>10 DEF shell_read_cb, Undisturbed
<1>11. CASE do_save_buffer
  <2>1. last_cmd' = "other" /\ (b' = b \/ b' = [b EXCEPT !.modified = FALSE])
    BY <1>11 DEF do_save_buffer, Issue
  <2>. QED
    BY Zenon, <1>0, <2>1, SetModified DEF Keeps, Counted
<1>12. CASE save_buffer_failure
  BY <1>0, <1>12 DEF save_buffer_failure, Issue, Keeps, Counted
<1>. QED
  BY Zenon, <1>2, <1>3, <1>4, <1>5, <1>6, <1>7, <1>8, <1>9, <1>10, <1>11, <1>12 DEF Next

(* do_undo moves one record further and mirrors it. *)
LEMMA UndoStep ==
    ASSUME PlainSession, HistoryInv, do_undo
    PROVE  Faithful(b') /\ UndoChain' /\ UndoMirror' /\ Paired'
<1>0. /\ Faithful(b) /\ Sound(b) /\ b \in EditBuffer /\ b.log \in Seq(LogRecord)
      /\ b.log_current \in Nat /\ b.nb_logs \in Nat /\ Len(b.log) \in Nat
      /\ b.nb_logs >= Len(b.log) /\ b.log_current <= Len(b.log)
  BY Zenon, FaithfulTypes DEF HistoryInv, Faithful, Sound
<1>1. ~LogFull(b) /\ last_cmd' = "undo"
  BY Zenon, RoomNotFull DEF do_undo, Issue, HistoryInv, PlainSession
<1>2. /\ Current \in Nat /\ Current <= Len(b.log)
      /\ UndoPos \in Nat /\ UndoPos <= Len(b.log)
  BY CurrentType DEF HistoryInv
<1>3. Current # 0 => /\ InChain /\ Current = b.log_current
                     /\ b.text = b.log[b.log_current].before
  BY DEF Current, InChain, HistoryInv, UndoChain
<1>4. CASE b.nb_logs = 0
  <2>1. b' = b /\ b.log_current = 0
    BY <1>0, <1>4 DEF do_undo
  <2>. QED
    BY <1>0, <2>1 DEF UndoChain, UndoMirror, Paired, InChain
<1>5. CASE b.nb_logs # 0 /\ UndoPos = 0
  <2>1. b' = [Deselect(b) EXCEPT !.log_current = Current]
    BY <1>5 DEF do_undo
  <2>2. /\ b' \in EditBuffer /\ b'.text = b.text /\ b'.log = b.log /\ b'.readonly = b.readonly
        /\ b'.log_current = Current /\ b'.nb_logs = b.nb_logs /\ b'.corrupt = b.corrupt
        /\ b'.point = b.point /\ b'.mark = b.mark
    BY ZenonT(40), <1>0, <1>2, <2>1 DEF EditBuffer, Deselect
  <2>3. Faithful(b')
    BY Zenon, <1>0, <1>2, <2>2 DEF Faithful, Sound
  <2>4. CASE Current = 0
    BY SMTT(30), Z3T(30), <2>2, <2>3, <2>4 DEF UndoChain, UndoMirror, Paired, InChain
  <2>5. CASE Current # 0
    <3>1. b'.log_current = b.log_current /\ InChain
      BY SMTT(30), Z3T(30), <1>3, <2>2, <2>5
    <3>. QED
      BY <2>2, <2>3, <3>1 DEF HistoryInv, UndoChain, UndoMirror, Paired
  <2>. QED
    BY <2>4, <2>5
<1>6. CASE b.nb_logs # 0 /\ UndoPos # 0
  <2>1. PICK pos \in Nat, n \in Nat : pos = UndoPos /\ n = Len(b.log)
    BY <1>0, <1>2
  <2>2. pos # 0 /\ pos <= n /\ b' = Undo(b, pos)
    BY Zenon, <1>2, <1>6, <2>1 DEF do_undo
  <2>3. \/ Current = 0 /\ pos = n
        \/ Current # 0 /\ pos = b.log_current - 1 /\ pos # n
    BY <1>0, <1>2, <1>3, <2>1 DEF UndoPos
  <2>4. InSync(b, pos)
    <3>1. CASE Current = 0
      BY <2>1, <2>3, <3>1 DEF InSync, Follows
    <3>2. CASE Current # 0
      <4>1. pos + 1 = b.log_current /\ pos # Len(b.log)
        BY SMTT(30), Z3T(30), <1>0, <2>1, <2>3, <3>2
      <4>. QED
        BY <1>3, <3>2, <4>1 DEF InSync, Follows
    <3>. QED
      BY <3>1, <3>2
  <2>5. /\ Faithful(b') /\ b'.text = b.log[pos].before /\ b'.log_current = pos
        /\ \E q \in LogRecord : q.before = b.text /\ b'.log = Append(b.log, q)
    BY Zenon, <1>0, <1>1, <2>1, <2>2, <2>4, UndoFaithful
  <2>6. PICK q \in LogRecord : q.before = b.text /\ b'.log = Append(b.log, q)
    BY Zenon, <2>5
  <2>7. /\ Len(b'.log) = n + 1 /\ b'.log[n + 1] = q
        /\ \A i \in 1 .. n : b'.log[i] = b.log[i]
    BY SMTT(30), Z3T(30), <1>0, <2>1, <2>6, AppendProperties
  <2>8. UndoChain'
    BY <2>1, <2>2, <2>5, <2>7 DEF UndoChain
  <2>9. Paired'
    <3>1. CASE Current = 0
      <4>1. n + 1 = pos + 2 * 0 + 1
        BY <2>3, <3>1
      <4>2. \E v \in Nat : n + 1 = pos + 2 * v + 1
        BY <4>1
      <4>. QED
        BY <2>5, <2>7, <4>2 DEF Paired
    <3>2. CASE Current # 0
      <4>1. PICK u \in Nat : n = b.log_current + 2 * u + 1
        BY <1>3, <2>1, <3>2 DEF HistoryInv, Paired
      <4>2. n + 1 = pos + 2 * (u + 1) + 1
        BY SMTT(30), Z3T(30), <1>0, <2>3, <3>2, <4>1
      <4>3. \E v \in Nat : n + 1 = pos + 2 * v + 1
        <5>1. PICK v \in Nat : v = u + 1
          OBVIOUS
        <5>. QED
          BY ZenonT(40), <4>2, <5>1
      <4>. QED
        BY Zenon, <2>5, <2>7, <4>3 DEF Paired
    <3>. QED
      BY Zenon, <3>1, <3>2
  <2>10. ASSUME NEW i \in pos + 1 .. n + 1
         PROVE  b'.log[i].before = b'.log[n + 1 + pos + 1 - i].before
    <3>1. CASE Current = 0
      <4>1. i = n + 1 /\ n + 1 + pos + 1 - i = i
        BY SMTT(30), Z3T(30), <2>3, <3>1
      <4>. QED
        BY <4>1
    <3>2. CASE Current # 0
      <4>0. PICK c \in Nat : c = b.log_current /\ c = pos + 1 /\ c <= n /\ b.text = b.log[c].before
        BY SMTT(30), Z3T(30), <1>0, <1>3, <2>1, <2>3, <3>2
      <4>1. PICK j \in Int : j = n + 1 + pos + 1 - i
        BY SMTT(30), Z3T(30)
      <4>2. CASE i = n + 1
        <5>1. j = c /\ c \in 1 .. n
          BY SMTT(30), Z3T(30), <4>0, <4>1, <4>2
        <5>. QED
          BY Zenon, <4>0, <4>1, <4>2, <5>1, <2>6, <2>7
      <4>3. CASE i = c
        <5>1. j = n + 1 /\ c \in 1 .. n
          BY <4>0, <4>1, <4>3
        <5>. QED
          BY Zenon, <4>0, <4>1, <4>3, <5>1, <2>6, <2>7
      <4>4. CASE i # n + 1 /\ i # c
        <5>1. i \in c + 1 .. n /\ i \in 1 .. n /\ j \in 1 .. n /\ j = n + c + 1 - i
          BY SMTT(30), Z3T(30), <4>0, <4>1, <4>4
        <5>2. b.log[i].before = b.log[j].before
          BY <5>1, <4>0, <1>3, <2>1, <3>2 DEF HistoryInv, UndoMirror
        <5>. QED
          BY ZenonT(40), <4>1, <5>1, <5>2, <2>7
      <4>. QED
        BY Zenon, <4>2, <4>3, <4>4
    <3>. QED
      BY <3>1, <3>2
  <2>11. UndoMirror'
    BY Zenon, <2>5, <2>7, <2>10 DEF UndoMirror
  <2>. QED
    BY <2>5, <2>8, <2>9, <2>11
<1>. QED
  BY <1>4, <1>5, <1>6

(* do_redo pops one mirrored record and returns to the text behind the     *)
(* entry that was undone last.                                             *)
LEMMA RedoStep ==
    ASSUME PlainSession, HistoryInv, do_redo
    PROVE  /\ Faithful(b') /\ UndoChain' /\ UndoMirror' /\ Paired'
           /\ CanRedo => b'.text = After(b, b.log_current)
<1>0. /\ Faithful(b) /\ Sound(b) /\ b \in EditBuffer /\ b.log \in Seq(LogRecord)
      /\ b.log_current \in Nat /\ b.nb_logs \in Nat /\ Len(b.log) \in Nat
      /\ b.nb_logs >= Len(b.log) /\ b.log_current <= Len(b.log)
  BY ZenonT(40), FaithfulTypes DEF HistoryInv, Faithful, Sound
<1>2. Current \in Nat /\ Current <= Len(b.log)
  BY CurrentType DEF HistoryInv
<1>4. CASE ~CanRedo
  <2>1. Current = 0
    BY SMTT(30), Z3T(30), <1>0, <1>2, <1>4 DEF CanRedo
  <2>2. CASE b.nb_logs = 0
    <3>1. b' = b /\ b.log_current = 0
      BY SMTT(30), Z3T(30), <1>0, <2>2 DEF do_redo
    <3>. QED
      BY <1>0, <1>4, <3>1 DEF UndoChain, UndoMirror, Paired, InChain
  <2>3. CASE b.nb_logs # 0
    <3>1. b' = [Deselect(b) EXCEPT !.log_current = 0]
      BY <1>4, <2>1, <2>3 DEF do_redo
    <3>2. /\ b' \in EditBuffer /\ b'.text = b.text /\ b'.log = b.log /\ b'.readonly = b.readonly
          /\ b'.log_current = 0 /\ b'.nb_logs = b.nb_logs /\ b'.corrupt = b.corrupt
          /\ b'.point = b.point /\ b'.mark = b.mark
      BY Zenon, <1>0, <3>1 DEF EditBuffer, Deselect
    <3>3. Faithful(b')
      BY SMTT(30), Z3T(30), <1>0, <3>2 DEF Faithful, Sound
    <3>. QED
      BY <1>4, <3>2, <3>3 DEF UndoChain, UndoMirror, Paired, InChain
  <2>. QED
    BY <2>2, <2>3
<1>5. CASE CanRedo
  <2>1. PICK c \in Nat \ {0}, n \in Nat \ {0} : c = b.log_current /\ n = Len(b.log)
    BY <1>0, <1>5, EmptySeq DEF CanRedo, Current
  <2>2. InChain /\ Current = c
    BY <1>5, <2>1 DEF CanRedo, Current, InChain
  <2>3. b' = Redo(b, c)
    BY SMTT(30), Z3T(30), <1>0, <1>5, <2>1, <2>2 DEF do_redo
  <2>4. PICK u \in Nat : n = c + 2 * u + 1
    BY SMTT(30), Z3T(30), <2>1, <2>2 DEF HistoryInv, Paired
  <2>5. \A i \in c + 1 .. n : b.log[i].before = b.log[n + c + 1 - i].before
    BY <2>1, <2>2 DEF HistoryInv, UndoMirror
  <2>6. /\ Faithful(b') /\ b'.text = b.log[n].before /\ b'.log = SubSeq(b.log, 1, n - 1)
        /\ b'.log_current = IF c + 1 >= n THEN 0 ELSE c + 1
    BY <1>0, <2>1, <2>3, RedoFaithful, ZenonT(40)
  <2>7. Len(b'.log) = n - 1 /\ \A i \in 1 .. n - 1 : b'.log[i] = b.log[i]
    BY <1>0, <2>1, <2>6, PartType
  <2>8. b.log[n].before = b.log[c + 1].before
    <3>1. n \in c + 1 .. n /\ n + c + 1 - n = c + 1
      BY <2>4
    <3>. QED
      BY <2>5, <3>1
  <2>9. b'.text = After(b, b.log_current)
    <3>1. c # n
      BY <2>4
    <3>. QED
      BY SMTT(30), Z3T(30), <2>1, <2>6, <2>8, <3>1 DEF After
  <2>10. CASE c + 1 >= n
    BY Zenon, <2>6, <2>9, <2>10 DEF UndoChain, UndoMirror, Paired, InChain
  <2>11. CASE c + 1 < n
    <3>1. b'.log_current = c + 1 /\ c + 1 \in 1 .. n - 1
      BY SMTT(30), Z3T(30), <2>6, <2>11
    <3>2. UndoChain'
      BY SMTT(30), Z3T(30), <2>6, <2>7, <2>8, <3>1 DEF UndoChain
    <3>3. Paired'
      <4>1. u - 1 \in Nat /\ n - 1 = (c + 1) + 2 * (u - 1) + 1
        BY <2>4, <2>11
      <4>2. \E v \in Nat : n - 1 = (c + 1) + 2 * v + 1
        BY <4>1
      <4>. QED
        BY <2>7, <3>1, <4>2 DEF Paired
    <3>4. ASSUME NEW i \in (c + 1) + 1 .. n - 1
          PROVE  b'.log[i].before = b'.log[(n - 1) + (c + 1) + 1 - i].before
      <4>1. PICK j \in Int : j = n + c + 1 - i
        OBVIOUS
      <4>2. /\ i \in c + 1 .. n /\ i \in 1 .. n - 1 /\ j \in 1 .. n - 1
            /\ (n - 1) + (c + 1) + 1 - i = j
        BY <4>1
      <4>. QED
        BY <4>1, <4>2, <2>5, <2>7
    <3>5. UndoMirror'
      BY Zenon, <2>7, <3>1, <3>4 DEF UndoMirror
    <3>. QED
      BY Zenon, <2>6, <2>9, <3>2, <3>3, <3>5
  <2>. QED
    BY <2>10, <2>11
<1>. QED
  BY <1>4, <1>5

LEMMA HistoryInit ==
    Init => HistoryInv
<1>. SUFFICES ASSUME Init PROVE HistoryInv
  OBVIOUS
<1>1. TypeInv
  BY Zenon, TypeInit
<1>2. /\ b.log = <<>> /\ b.log_current = 0 /\ b.nb_logs = 0 /\ b.point = 0 /\ b.mark = 0
      /\ ~b.readonly /\ ~b.corrupt
  BY DEF Init
<1>3. Len(b.text) \in Nat /\ Len(b.log) = 0
  BY <1>1, <1>2, LenProperties DEF TypeInv, Sound, EditBuffer, Text
<1>4. Tells(b.log, b.text)
  BY <1>3 DEF Tells
<1>5. Faithful(b)
  BY <1>1, <1>2, <1>3, <1>4 DEF Faithful, TypeInv
<1>. QED
  BY <1>1, <1>2, <1>5 DEF HistoryInv, UndoChain, UndoMirror, Paired, InChain

LEMMA HistoryStep ==
    ASSUME PlainSession, HistoryInv, [Next]_vars
    PROVE  HistoryInv'
<1>1. TypeInv'
  BY TypeStep DEF HistoryInv
<1>2. CASE do_undo
  BY <1>1, <1>2, UndoStep DEF HistoryInv
<1>3. CASE do_redo
  BY Zenon, <1>1, <1>3, RedoStep DEF HistoryInv
<1>4. CASE Next /\ ~do_undo /\ ~do_redo
  <2>1. Faithful(b') /\ last_cmd' = "other"
    BY <1>4, EditStep DEF HistoryInv, PlainSession, Keeps
  <2>. QED
    BY <1>1, <2>1 DEF HistoryInv, UndoChain, UndoMirror, Paired, InChain
<1>5. CASE UNCHANGED vars
  <2>1. b' = b /\ last_cmd' = last_cmd
    BY <1>5 DEF vars
  <2>. QED
    BY <1>1, <2>1 DEF HistoryInv, UndoChain, UndoMirror, Paired, InChain
<1>. QED
  BY <1>2, <1>3, <1>4, <1>5

LEMMA FaithfulReplays ==
    ASSUME Faithful(b)
    PROVE  LogReplays /\ MarkersInText /\ LogParses
<1>1. ASSUME NEW i \in 1 .. Len(b.log)
      PROVE  LET r == b.log[i] IN
             /\ r.offset + (IF r.op = "DELETE" THEN 0 ELSE r.size) <= Len(After(b, i))
             /\ Reverted(After(b, i), r) = r.before
  <2>. DEFINE r == b.log[i]
  <2>1. Describes(r, After(b, i))
    BY DEF Faithful, Tells, Follows, After
  <2>2. r \in LogRecord
    <3>1. b.log \in Seq(LogRecord)
      BY Zenon, FaithfulTypes
    <3>. QED
      BY <3>1, ElementOfSeq
  <2>. HIDE DEF r
  <2>3. r.offset \in Nat /\ r.op \in {"INSERT", "DELETE"}
    BY SMTT(30), Z3T(30), <2>1, <2>2, DescribesFields
  <2>. QED
    BY <2>1, <2>3 DEF Describes, r
<1>2. LogReplays
  BY <1>1 DEF LogReplays
<1>. QED
  BY SMTT(30), Z3T(30), <1>2 DEF Faithful, MarkersInText, LogParses

LEMMA HistoryImplies ==
    HistoryInv => LogReplays /\ UndoChain /\ UndoMirror /\ MarkersInText /\ LogParses
  BY FaithfulReplays DEF HistoryInv

(* In a plain session undo is exact, whatever the limit on the log, which  *)
(* the session does not reach: every record of eb_addlog reverts its       *)
(* change (LogReplays), so that do_undo walks back through the texts the   *)
(* buffer has had (UndoChain), the records it adds mirror the ones it     *)
(* reverts (UndoMirror), the point and the mark stay in the text           *)
(* (MarkersInText) and the log always parses (LogParses).                  *)
THEOREM UndoExact ==
    PlainSession =>
      (Spec => [](LogReplays /\ UndoChain /\ UndoMirror /\ MarkersInText /\ LogParses))
<1>. SUFFICES ASSUME PlainSession
              PROVE  Spec => [](LogReplays /\ UndoChain /\ UndoMirror /\ MarkersInText /\ LogParses)
  OBVIOUS
<1>1. Init => HistoryInv
  BY HistoryInit
<1>2. HistoryInv /\ [Next]_vars => HistoryInv'
  BY HistoryStep
<1>3. HistoryInv => LogReplays /\ UndoChain /\ UndoMirror /\ MarkersInText /\ LogParses
  BY HistoryImplies
<1>. QED
  BY <1>1, <1>2, <1>3, PTL DEF Spec

(* In a plain session do_redo brings back exactly the text that followed   *)
(* the change undone last.                                                 *)
THEOREM RedoExact ==
    PlainSession => (Spec => RedoRestores)
<1>. SUFFICES ASSUME PlainSession PROVE Spec => RedoRestores
  OBVIOUS
<1>1. Init => HistoryInv
  BY HistoryInit
<1>2. HistoryInv /\ [Next]_vars => HistoryInv'
  BY HistoryStep
<1>3. HistoryInv /\ [Next]_vars =>
        [do_redo /\ CanRedo => b'.text = After(b, b.log_current)]_vars
  BY RedoStep
<1>. QED
  BY <1>1, <1>2, <1>3, PTL DEF Spec, RedoRestores

-----------------------------------------------------------------------------
(* do_undo on a full log: eb_addlog drops the oldest record, which is      *)
(* possibly the one being played.                                          *)
LEMMA EvictPlay ==
    ASSUME NEW g, Faithful(g), Counted(g), LogFull(g), NEW v, v = Evict(g),
           NEW r \in LogRecord, Describes(r, g.text)
    PROVE  UndoPlay(g, r, g.text) = UndoPlay(v, r, g.text)
<1>0. /\ g \in EditBuffer /\ ~g.readonly /\ g.text \in Text /\ g.text \in Seq(Byte)
      /\ Len(g.text) \in Nat
  BY ZenonT(40), FaithfulTypes
<1>1. /\ r.offset \in Nat /\ r.size \in Nat /\ r.size # 0 /\ r.data \in Text
      /\ r.op \in {"INSERT", "DELETE"}
      /\ r.op = "INSERT" => r.offset + r.size <= Len(g.text)
      /\ r.op = "DELETE" => r.offset <= Len(g.text)
  BY SMTT(30), Z3T(30), DescribesFields
<1>2. v.text = g.text /\ v.readonly = g.readonly
  BY <1>0, EvictKeeps
<1>3. CASE r.op = "INSERT"
  <2>1. Delete(g, r.offset, r.size) = Delete(v, r.offset, r.size)
    BY SMTT(30), Z3T(30), <1>0, <1>1, <1>3, EvictDelete
  <2>. QED
    BY SMTT(30), Z3T(30), <1>3, <2>1 DEF UndoPlay
<1>4. CASE r.op = "DELETE"
  <2>1. PICK o \in Nat, n \in Nat : o = r.offset /\ n = r.size
    BY <1>1
  <2>. DEFINE t == InsertBytes(g.text, o, r.data)
              h == [g EXCEPT !.text = t]
              c == IF g.log_current > 1 THEN g.log_current - 1 ELSE g.log_current
              l == Tail(g.log)
              k == g.nb_logs - 1
  <2>2. Clip(o, Len(g.text)) = o
    BY <1>0, <1>1, <1>4, <2>1 DEF Clip
  <2>3. MuteInsert(g, o, r.data) = h /\ MuteInsert(v, o, r.data) = [v EXCEPT !.text = t]
    BY <1>0, <1>2, <2>2 DEF MuteInsert
  <2>4. t \in Text
    BY Zenon, <1>0, <1>1, <1>4, <2>1, InsertType DEF Text
  <2>. HIDE DEF t
  <2>5. /\ h \in EditBuffer /\ h.log = g.log /\ h.nb_logs = g.nb_logs
        /\ h.log_current = g.log_current
    BY Zenon, <1>0, <2>4 DEF EditBuffer
  <2>6. Counted(h) /\ LogFull(h)
    BY <2>5 DEF Counted, LogFull
  <2>7. v = [g EXCEPT !.log = l, !.log_current = c, !.nb_logs = k]
    BY ZenonT(40), <1>0, EvictFields
  <2>8. Evict(h) = [h EXCEPT !.log = l, !.log_current = c, !.nb_logs = k]
    <3>. HIDE DEF h
    <3>. QED
      BY <2>5, <2>6, EvictFields
  <2>. HIDE DEF l, c, k
  <2>9. Evict(h) = [v EXCEPT !.text = t]
    BY Zenon, <1>0, <2>7, <2>8 DEF EditBuffer
  <2>. HIDE DEF h
  <2>10. AddLog(h, "INSERT", o, n, g.text) = AddLog([v EXCEPT !.text = t], "INSERT", o, n, g.text)
    BY SMTT(30), Z3T(30), <2>5, <2>6, <2>9, EvictFirst
  <2>. QED
    BY Zenon, <1>4, <2>1, <2>3, <2>10 DEF UndoPlay
<1>. QED
  BY <1>1, <1>3, <1>4

LEMMA UndoEvicts ==
    ASSUME NEW e, Faithful(e), Counted(e), LogFull(e), NEW pos \in Nat, pos # 0,
           pos <= Len(e.log), InSync(e, pos)
    PROVE  LET f == Undo(e, pos) IN
           /\ Faithful(f) /\ Counted(f) /\ f.text = e.log[pos].before
           /\ f.log_current = IF pos > 1 THEN pos - 1 ELSE pos
           /\ \E q \in LogRecord : f.log = Append(Tail(e.log), q)
<1>. SUFFICES ASSUME NEW f, f = Undo(e, pos)
              PROVE  /\ Faithful(f) /\ Counted(f) /\ f.text = e.log[pos].before
                     /\ f.log_current = IF pos > 1 THEN pos - 1 ELSE pos
                     /\ \E q \in LogRecord : f.log = Append(Tail(e.log), q)
  OBVIOUS
<1>0. e \in EditBuffer /\ e.log \in Seq(LogRecord) /\ Len(e.log) \in Nat /\ e.nb_logs \in Nat
  BY Zenon, FaithfulTypes
<1>. DEFINE r == e.log[pos]
            g == [Deselect(e) EXCEPT !.log_current = pos, !.last_log = "FREE"]
            p == UndoPlay(g, r, e.text)
<1>1. r \in LogRecord
  BY SMTT(30), Z3T(30), <1>0, ElementOfSeq
<1>2. Describes(r, e.text)
  BY <1>0 DEF InSync, Faithful, Tells
<1>3. f = [p EXCEPT !.modified = r.was_modified]
  BY DEF Undo
<1>. HIDE DEF r
<1>4. /\ g \in EditBuffer /\ g.text = e.text /\ g.log = e.log /\ g.readonly = e.readonly
      /\ g.log_current = pos /\ g.nb_logs = e.nb_logs /\ g.corrupt = e.corrupt
      /\ g.point = e.point /\ g.mark = e.mark /\ g.last_log = "FREE"
  BY ZenonT(40), <1>0 DEF EditBuffer, Deselect
<1>. HIDE DEF g
<1>5. Faithful(g) /\ Counted(g) /\ LogFull(g)
  BY <1>4 DEF Faithful, Sound, LogFull, Counted
<1>6. PICK v : v = Evict(g)
  OBVIOUS
<1>7. Faithful(v) /\ Counted(v)
  BY ZenonT(40), <1>5, <1>6, EvictFaithful
<1>8. /\ v.text = e.text /\ v.last_log = "FREE" /\ v.log = Tail(e.log) /\ ~LogFull(v)
      /\ v.nb_logs = e.nb_logs - 1 /\ v.log_current = IF pos > 1 THEN pos - 1 ELSE pos
  BY SMTT(30), Z3T(30), <1>4, <1>5, <1>6, EvictKeeps
<1>9. p = UndoPlay(v, r, v.text)
  BY ZenonT(40), <1>1, <1>2, <1>4, <1>5, <1>6, <1>8, EvictPlay
<1>. HIDE DEF p
<1>10. /\ Faithful(p) /\ p.text = r.before /\ p.log_current = v.log_current
       /\ p.nb_logs <= v.nb_logs + 1
       /\ v.nb_logs = Len(v.log) => p.nb_logs = Len(p.log)
       /\ \E q \in LogRecord : q.before = v.text /\ p.log = Append(v.log, q)
  <2>1. Describes(r, v.text)
    BY <1>2, <1>8
  <2>. QED
    BY <1>1, <1>7, <1>8, <1>9, <2>1, PlayFaithful
<1>11. /\ Faithful(f) /\ f.text = p.text /\ f.log = p.log /\ f.log_current = p.log_current
       /\ f.nb_logs = p.nb_logs
  <2>1. r.was_modified \in BOOLEAN
    BY Zenon, <1>1 DEF LogRecord
  <2>. QED
    BY <1>3, <1>10, <2>1, SetModified
<1>12. Counted(f)
  <2>1. p.nb_logs \in Nat
    BY Zenon, <1>10, FaithfulTypes
  <2>. QED
    BY SMTT(30), Z3T(30), <1>0, <1>7, <1>8, <1>10, <1>11, <2>1, UndoLogAssumption DEF Counted
<1>. QED
  BY Zenon, <1>8, <1>10, <1>11, <1>12 DEF r

-----------------------------------------------------------------------------
(* The invariant of full sessions.  UndoInSync needs that nb_logs counts   *)
(* the records: otherwise eviction drops records that undo still needs, or *)
(* reads one from an empty log.                                            *)
FullInv == TypeInv /\ Faithful(b) /\ Counted(b) /\ UndoInSync

LEMMA FullUndoStep ==
    ASSUME FullInv, do_undo
    PROVE  Faithful(b') /\ Counted(b') /\ UndoInSync'
<1>0. /\ Faithful(b) /\ Counted(b) /\ b \in EditBuffer /\ b.log \in Seq(LogRecord)
      /\ b.log_current \in Nat /\ b.nb_logs \in Nat /\ Len(b.log) \in Nat
      /\ b.nb_logs = Len(b.log) /\ b.log_current <= Len(b.log)
  BY Zenon, FaithfulTypes DEF FullInv, Faithful, Sound, Counted
<1>1. last_cmd' = "undo"
  BY DEF do_undo, Issue
<1>2. /\ Current \in Nat /\ Current <= Len(b.log)
      /\ UndoPos \in Nat /\ UndoPos <= Len(b.log)
  BY CurrentType DEF FullInv
<1>3. Current # 0 => InChain /\ Current = b.log_current /\ UndoPos = b.log_current - 1
  BY DEF Current, InChain, UndoPos
<1>4. ASSUME b'.log_current \in {0, 1} PROVE UndoInSync'
  BY <1>1, <1>4 DEF UndoInSync, InChain, UndoPos, Current
<1>5. CASE b.nb_logs = 0
  <2>1. b' = b /\ b.log_current = 0
    BY <1>0, <1>5 DEF do_undo
  <2>2. b'.log_current \in {0, 1}
    BY <2>1
  <2>. QED
    BY SMTT(30), Z3T(30), <1>0, <1>4, <2>1, <2>2
<1>6. CASE b.nb_logs # 0 /\ UndoPos = 0
  <2>1. b' = [Deselect(b) EXCEPT !.log_current = Current]
    BY <1>6 DEF do_undo
  <2>2. /\ b' \in EditBuffer /\ b'.text = b.text /\ b'.log = b.log /\ b'.readonly = b.readonly
        /\ b'.log_current = Current /\ b'.nb_logs = b.nb_logs /\ b'.corrupt = b.corrupt
        /\ b'.point = b.point /\ b'.mark = b.mark
    BY Zenon, <1>0, <1>2, <2>1 DEF EditBuffer, Deselect
  <2>3. Faithful(b') /\ Counted(b')
    BY Zenon, <1>0, <1>2, <2>2 DEF Faithful, Sound, Counted
  <2>4. b'.log_current \in {0, 1}
    BY SMTT(30), Z3T(30), <1>0, <1>2, <1>3, <1>6, <2>2
  <2>. QED
    BY <1>4, <2>3, <2>4
<1>7. CASE b.nb_logs # 0 /\ UndoPos # 0
  <2>1. PICK pos \in Nat, n \in Nat : pos = UndoPos /\ n = Len(b.log)
    BY <1>0, <1>2
  <2>2. pos # 0 /\ pos <= n /\ b' = Undo(b, pos)
    BY <1>2, <1>7, <2>1 DEF do_undo
  <2>3. InSync(b, pos)
    <3>1. CASE Current = 0
      BY SMTT(30), Z3T(30), <2>1, <3>1 DEF InSync, Follows, UndoPos
    <3>2. CASE Current # 0
      <4>1. pos + 1 = b.log_current /\ pos # Len(b.log)
        BY SMTT(30), Z3T(30), <1>0, <1>3, <2>1, <3>2
      <4>2. b.text = b.log[b.log_current].before
        BY Zenon, <1>3, <1>7, <3>2 DEF FullInv, UndoInSync
      <4>. QED
        BY SMTT(30), Z3T(30), <4>1, <4>2 DEF InSync, Follows
    <3>. QED
      BY <3>1, <3>2
  <2>4. CASE ~LogFull(b)
    <3>1. /\ Faithful(b') /\ b'.text = b.log[pos].before /\ b'.log_current = pos
          /\ b'.nb_logs <= b.nb_logs + 1
          /\ b.nb_logs = Len(b.log) => b'.nb_logs = Len(b'.log)
          /\ \E q \in LogRecord : q.before = b.text /\ b'.log = Append(b.log, q)
      BY SMTT(30), Z3T(30), <1>0, <2>1, <2>2, <2>3, <2>4, UndoFaithful
    <3>2. PICK q \in LogRecord : b'.log = Append(b.log, q)
      BY SMTT(30), Z3T(30), <3>1
    <3>3. b'.log[pos] = b.log[pos]
      BY SMTT(30), Z3T(30), <1>0, <2>1, <2>2, <3>2, AppendProperties
    <3>4. b'.nb_logs \in Nat
      BY Zenon, <3>1, FaithfulTypes
    <3>5. Counted(b')
      BY SMTT(30), Z3T(30), <1>0, <2>4, <3>1, <3>4, UndoLogAssumption DEF Counted, LogFull
    <3>. QED
      BY ZenonT(40), <3>1, <3>3, <3>5 DEF UndoInSync
  <2>5. CASE LogFull(b)
    <3>1. /\ Faithful(b') /\ Counted(b') /\ b'.text = b.log[pos].before
          /\ b'.log_current = IF pos > 1 THEN pos - 1 ELSE pos
          /\ \E q \in LogRecord : b'.log = Append(Tail(b.log), q)
      BY SMTT(30), Z3T(30), <1>0, <2>1, <2>2, <2>3, <2>5, UndoEvicts
    <3>2. CASE pos = 1
      <4>1. b'.log_current \in {0, 1}
        BY <3>1, <3>2
      <4>. QED
        BY SMTT(30), Z3T(30), <1>4, <3>1, <4>1
    <3>3. CASE pos # 1
      <4>1. PICK q \in LogRecord : b'.log = Append(Tail(b.log), q)
        BY SMTT(30), Z3T(30), <3>1
      <4>2. /\ Tail(b.log) \in Seq(LogRecord) /\ Len(Tail(b.log)) = n - 1
            /\ \A i \in 1 .. n - 1 : Tail(b.log)[i] = b.log[i + 1]
        BY <1>0, <2>1, <2>5, EvictFields
      <4>3. pos - 1 \in 1 .. n - 1 /\ b'.log_current = pos - 1
        BY SMTT(30), Z3T(30), <2>1, <2>2, <3>1, <3>3
      <4>4. b'.log[pos - 1] = Tail(b.log)[pos - 1]
        BY SMTT(30), Z3T(30), <4>1, <4>2, <4>3, AppendProperties
      <4>5. Tail(b.log)[pos - 1] = b.log[pos]
        <5>1. (pos - 1) + 1 = pos
          OBVIOUS
        <5>. QED
          BY <4>2, <4>3, <5>1
      <4>. QED
        BY ZenonT(40), <3>1, <4>3, <4>4, <4>5 DEF UndoInSync
    <3>. QED
      BY ZenonT(40), <3>2, <3>3
  <2>. QED
    BY <2>4, <2>5
<1>. QED
  BY <1>5, <1>6, <1>7

LEMMA FullInit ==
    Init => FullInv
<1>. SUFFICES ASSUME Init PROVE FullInv
  OBVIOUS
<1>1. TypeInv /\ Faithful(b)
  BY Zenon, HistoryInit DEF HistoryInv
<1>2. b.log = <<>> /\ b.log_current = 0 /\ b.nb_logs = 0
  BY DEF Init
<1>3. Counted(b)
  BY <1>2, UndoLogAssumption DEF Counted
<1>. QED
  BY <1>1, <1>2, <1>3 DEF FullInv, UndoInSync, InChain

LEMMA FullStep ==
    ASSUME FullSession, FullInv, [Next]_vars
    PROVE  FullInv'
<1>1. TypeInv'
  BY TypeStep DEF FullInv
<1>2. CASE do_undo
  BY <1>1, <1>2, FullUndoStep DEF FullInv
<1>3. ~do_redo
  BY DEF do_redo, Issue, FullSession
<1>4. CASE Next /\ ~do_undo
  <2>1. Keeps(b') /\ last_cmd' = "other"
    BY <1>3, <1>4, EditStep DEF FullInv, FullSession
  <2>2. Faithful(b') /\ Counted(b')
    BY SMTT(30), Z3T(30), <2>1 DEF FullInv, Keeps
  <2>. QED
    BY <1>1, <2>1, <2>2 DEF FullInv, UndoInSync, InChain
<1>5. CASE UNCHANGED vars
  <2>1. b' = b /\ last_cmd' = last_cmd
    BY <1>5 DEF vars
  <2>. QED
    BY <1>1, <2>1 DEF FullInv, UndoInSync, InChain, UndoPos, Current
<1>. QED
  BY <1>2, <1>4, <1>5

(* Sessions of any length without redo, which fill the log of any limit    *)
(* as often as they like: while eb_addlog evicts the oldest records, also  *)
(* in the middle of a chain of undos, the records that are left revert     *)
(* their changes one after the other (LogReplays), do_undo plays each on   *)
(* the text it was made for (UndoInSync), nb_logs counts them and stays    *)
(* below NB_LOGS_MAX, the markers stay in the text and the log parses.     *)
THEOREM UndoWhileEvicting ==
    FullSession =>
      (Spec => [](/\ LogReplays /\ UndoInSync /\ LogCounted /\ b.nb_logs < NB_LOGS_MAX
                  /\ MarkersInText /\ LogParses))
<1>. DEFINE Goal == /\ LogReplays /\ UndoInSync /\ LogCounted /\ b.nb_logs < NB_LOGS_MAX
                    /\ MarkersInText /\ LogParses
<1>. SUFFICES ASSUME FullSession PROVE Spec => []Goal
  OBVIOUS
<1>1. Init => FullInv
  BY FullInit
<1>2. FullInv /\ [Next]_vars => FullInv'
  BY FullStep
<1>3. FullInv => Goal
  BY FaithfulReplays DEF FullInv, Counted, LogCounted
<1>. QED
  BY <1>1, <1>2, <1>3, PTL DEF Spec

-----------------------------------------------------------------------------
(* The modified flag after undo and redo.  do_undo and do_redo restore     *)
(* was_modified together with the text it was recorded for.                *)
LEMMA MuteFields ==
    ASSUME NEW e, Sound(e), NEW o \in Nat, NEW n \in Nat, NEW d \in Text, NEW f,
           f = MuteInsert(e, o, d) \/ f = MuteDelete(e, o, n)
    PROVE  Sound(f) /\ f.modified = e.modified /\ f.log = e.log
<1>1. \A t : [e EXCEPT !.text = t].modified = e.modified /\ [e EXCEPT !.text = t].log = e.log
  BY DEF Sound, EditBuffer
<1>2. Sound(f)
  BY MuteSound
<1>3. f = e \/ \E t : f = [e EXCEPT !.text = t]
  BY SMTT(30), Z3T(30) DEF MuteInsert, MuteDelete
<1>. QED
  BY Zenon, <1>1, <1>2, <1>3

LEMMA UndoTracked ==
    ASSUME NEW e, Sound(e), NEW pos \in Nat, pos # 0, pos <= Len(e.log),
           Undo(e, pos).text = e.log[pos].before, NEW F, Tracked(F, e)
    PROVE  Tracked(F, Undo(e, pos))
<1>. DEFINE r == e.log[pos]
            f == [Deselect(e) EXCEPT !.log_current = pos, !.last_log = "FREE"]
            p == UndoPlay(f, r, e.text)
<1>1. /\ Sound(f) /\ f.text = e.text /\ f.modified = e.modified /\ f.log = e.log
      /\ e.text \in Text
  BY ZenonT(40) DEF Sound, EditBuffer, Deselect
<1>2. r \in LogRecord /\ (r.was_modified \/ F = {r.before})
  <2>1. e.log \in Seq(LogRecord) /\ Len(e.log) \in Nat
    BY SMTT(30), Z3T(30), LenProperties DEF Sound, EditBuffer
  <2>2. pos \in 1 .. Len(e.log)
    BY SMTT(30), Z3T(30), <2>1
  <2>. QED
    BY Zenon, <2>1, <2>2, ElementOfSeq DEF Tracked, LogTracked
<1>3. /\ r.offset \in Nat /\ r.size \in Nat /\ r.data \in Text /\ r.was_modified \in BOOLEAN
      /\ r.op \in LogOp
  BY <1>2 DEF LogRecord
<1>4. Undo(e, pos) = [p EXCEPT !.modified = r.was_modified]
  BY DEF Undo
<1>. HIDE DEF f, r
<1>5. LogTracked(F, f.log) /\ (f.modified \/ F = {e.text})
  BY <1>1 DEF Tracked
<1>6. ASSUME NEW a, Sound(a), LogTracked(F, a.log), NEW k, p = [a EXCEPT !.point = k]
      PROVE  /\ Undo(e, pos).modified = r.was_modified
             /\ LogTracked(F, Undo(e, pos).log)
  <2>. DEFINE u == [a EXCEPT !.point = k]
  <2>1. Undo(e, pos) = [u EXCEPT !.modified = r.was_modified]
    BY <1>4, <1>6
  <2>2. Undo(e, pos).modified = r.was_modified /\ Undo(e, pos).log = a.log
    BY <1>6, <2>1 DEF Sound, EditBuffer
  <2>. QED
    BY <1>6, <2>2
<1>7. ASSUME NEW g, Sound(g), g.modified = f.modified, g.log = f.log, NEW op \in LogOp,
             NEW k, p = [AddLog(g, op, r.offset, r.size, e.text) EXCEPT !.point = k]
      PROVE  /\ Undo(e, pos).modified = r.was_modified
             /\ LogTracked(F, Undo(e, pos).log)
  <2>. DEFINE a == AddLog(g, op, r.offset, r.size, e.text)
  <2>1. Sound(a) /\ LogTracked(F, a.log)
    BY Zenon, <1>1, <1>3, <1>5, <1>7, AddLogSound, AddLogTracked
  <2>2. p = [a EXCEPT !.point = k]
    BY SMTT(30), Z3T(30), <1>7
  <2>. HIDE DEF a, p
  <2>. QED
    BY <1>6, <2>1, <2>2
<1>8. /\ Undo(e, pos).modified = r.was_modified
      /\ LogTracked(F, Undo(e, pos).log)
  <2>1. CASE r.op = "WRITE"
    <3>. DEFINE h == MuteDelete(f, r.offset, r.size)
                g == MuteInsert(h, r.offset, r.data)
    <3>0. Sound(h) /\ h.modified = f.modified /\ h.log = f.log
      BY SMTT(30), Z3T(30), <1>1, <1>3, MuteFields
    <3>. HIDE DEF h
    <3>1. Sound(g) /\ g.modified = f.modified /\ g.log = f.log
      BY <1>3, <3>0, MuteFields
    <3>2. p = [AddLog(g, "WRITE", r.offset, r.size, e.text)
                 EXCEPT !.point = r.offset + r.size]
      BY <2>1 DEF UndoPlay, h
    <3>3. "WRITE" \in LogOp
      BY DEF LogOp
    <3>. HIDE DEF g, p
    <3>. QED
      BY Zenon, <1>7, <3>1, <3>2, <3>3
  <2>2. CASE r.op = "DELETE"
    <3>. DEFINE g == MuteInsert(f, r.offset, r.data)
    <3>1. Sound(g) /\ g.modified = f.modified /\ g.log = f.log
      BY <1>1, <1>3, MuteFields
    <3>2. p = [AddLog(g, "INSERT", r.offset, r.size, e.text)
                 EXCEPT !.point = r.offset + r.size]
      BY <2>2 DEF UndoPlay
    <3>3. "INSERT" \in LogOp
      BY DEF LogOp
    <3>. HIDE DEF g, p
    <3>. QED
      BY Zenon, <1>7, <3>1, <3>2, <3>3
  <2>3. CASE r.op = "INSERT"
    <3>. DEFINE a == Delete(f, r.offset, r.size)
    <3>1. Sound(a) /\ Traced(f, a)
      BY ZenonT(40), <1>1, <1>3, DeleteSound, DeleteTraced
    <3>2. Tracked(F, f)
      BY SMTT(30), Z3T(30), <1>1, <1>5 DEF Tracked
    <3>3. LogTracked(F, a.log)
      BY <3>1, <3>2 DEF Traced, Tracked
    <3>4. p = [a EXCEPT !.point = r.offset]
      BY <2>3 DEF UndoPlay
    <3>. HIDE DEF a, p
    <3>. QED
      BY <1>6, <3>1, <3>3, <3>4
  <2>. QED
    BY SMTT(30), Z3T(30), <1>3, <2>1, <2>2, <2>3 DEF LogOp
<1>. QED
  BY <1>2, <1>8 DEF Tracked, r

(* The record that do_undo plays was made for the current text. *)
LEMMA PosInSync ==
    ASSUME TypeInv, UndoInSync, UndoPos # 0
    PROVE  InSync(b, UndoPos)
<1>1. CASE Current = 0
  BY <1>1 DEF InSync, Follows, UndoPos
<1>2. CASE Current # 0
  <2>1. InChain /\ UndoPos = b.log_current - 1 /\ b.log_current \in Nat
        /\ b.log_current <= Len(b.log) /\ Len(b.log) \in Nat
    BY <1>2, LenProperties DEF Current, InChain, UndoPos, TypeInv, Sound, EditBuffer
  <2>2. b.text = b.log[b.log_current].before
    BY <2>1 DEF UndoInSync
  <2>3. UndoPos + 1 = b.log_current /\ UndoPos # Len(b.log)
    BY <2>1
  <2>. QED
    BY SMTT(30), Z3T(30), <2>2, <2>3 DEF InSync, Follows
<1>. QED
  BY <1>1, <1>2

(* Sessions that neither save nor clear the flag by hand. *)
Unsaved == Commands \cap {"save-buffer", "not-modified"} = {}

LEMMA TrackedUndo ==
    ASSUME TypeInv, Faithful(b), Roomy(b), UndoInSync, do_undo, Tracked(file, b)
    PROVE  Tracked(file', b')
<1>0. /\ Sound(b) /\ b \in EditBuffer /\ file' = file
      /\ UndoPos \in Nat /\ UndoPos <= Len(b.log)
  BY CurrentType DEF TypeInv, Sound, do_undo
<1>1. CASE b.nb_logs = 0
  BY Zenon, <1>0, <1>1 DEF do_undo
<1>2. CASE b.nb_logs # 0 /\ UndoPos = 0
  <2>1. b'.text = b.text /\ b'.modified = b.modified /\ b'.log = b.log
    BY SMTT(30), Z3T(30), <1>0, <1>2 DEF do_undo, Deselect, EditBuffer
  <2>. QED
    BY <1>0, <2>1 DEF Tracked
<1>3. CASE b.nb_logs # 0 /\ UndoPos # 0
  <2>1. PICK pos \in Nat : pos = UndoPos
    BY <1>0
  <2>2. b' = Undo(b, pos) /\ pos # 0 /\ pos <= Len(b.log) /\ InSync(b, pos)
    BY Zenon, <1>0, <1>3, <2>1, PosInSync DEF do_undo
  <2>3. Undo(b, pos).text = b.log[pos].before
    <3>1. CASE LogFull(b)
      BY SMTT(30), Z3T(30), <2>2, <3>1, UndoEvicts DEF Roomy
    <3>2. CASE ~LogFull(b)
      BY <2>2, <3>2, UndoFaithful
    <3>. QED
      BY Zenon, <3>1, <3>2
  <2>. QED
    BY SMTT(30), Z3T(30), <1>0, <2>2, <2>3, UndoTracked
<1>. QED
  BY <1>1, <1>2, <1>3

LEMMA TrackedRedo ==
    ASSUME TypeInv, Faithful(b), do_redo, Tracked(file, b)
    PROVE  Tracked(file', b')
<1>0. /\ b \in EditBuffer /\ file' = file /\ b.log \in Seq(LogRecord) /\ Len(b.log) \in Nat
      /\ Current \in Nat
  BY CurrentType, LenProperties DEF TypeInv, Sound, EditBuffer, do_redo
<1>1. CASE b.nb_logs = 0
  BY Zenon, <1>0, <1>1 DEF do_redo
<1>2. CASE b.nb_logs # 0 /\ ~CanRedo
  <2>1. b'.text = b.text /\ b'.modified = b.modified /\ b'.log = b.log
    BY Zenon, <1>0, <1>2 DEF do_redo, Deselect, EditBuffer
  <2>. QED
    BY <1>0, <2>1 DEF Tracked
<1>3. CASE b.nb_logs # 0 /\ CanRedo
  <2>1. b' = Redo(b, Current)
    BY SMTT(30), Z3T(30), <1>3 DEF do_redo
  <2>2. PICK n \in Nat \ {0} : n = Len(b.log)
    BY <1>0, <1>3, EmptySeq DEF CanRedo
  <2>3. /\ b'.text = b.log[n].before /\ b'.log = SubSeq(b.log, 1, n - 1)
        /\ b'.modified = b.log[n].was_modified
    BY ZenonT(40), <1>0, <2>1, <2>2, RedoFaithful
  <2>4. b.log[n].was_modified \/ file = {b.log[n].before}
    BY <2>2 DEF Tracked, LogTracked
  <2>5. /\ Len(SubSeq(b.log, 1, n - 1)) = n - 1
        /\ \A i \in 1 .. n - 1 : SubSeq(b.log, 1, n - 1)[i] = b.log[i]
    BY SMTT(30), Z3T(30), <1>0, <2>2, SubSeqProperties
  <2>6. LogTracked(file, b'.log)
    <3>1. \A i \in 1 .. n - 1 : i \in 1 .. n
      OBVIOUS
    <3>. QED
      BY SMTT(30), Z3T(30), <2>2, <2>3, <2>5, <3>1 DEF Tracked, LogTracked
  <2>. QED
    BY <1>0, <2>3, <2>4, <2>6 DEF Tracked
<1>. QED
  BY <1>1, <1>2, <1>3

LEMMA TrackedStep ==
    ASSUME Undisturbed, Unsaved, TypeInv, Faithful(b), UndoInSync, Room => Roomy(b),
           [Next]_vars, Tracked(file, b)
    PROVE  Tracked(file', b')
<1>1. CASE UNCHANGED vars
  BY <1>1 DEF vars
<1>2. CASE do_undo
  BY SMTT(30), Z3T(30), <1>2, TrackedUndo DEF do_undo
<1>3. CASE do_redo
  BY <1>3, TrackedRedo
<1>4. CASE Next /\ ~do_undo /\ ~do_redo
  <2>1. ~do_save_buffer /\ ~save_buffer_failure /\ ~ClearsOnPurpose
    BY ZenonT(40) DEF do_save_buffer, save_buffer_failure, ClearsOnPurpose, do_not_modified,
           shell_read_cb, Issue, Unsaved, Undisturbed
  <2>2. file' = file
    BY <1>4, <2>1
    DEF Next, do_char, do_delete_char, do_kill_region, do_yank, move_point, do_set_mark,
        do_toggle_read_only, do_not_modified, shell_read_cb
  <2>. QED
    BY <1>4, <2>1, <2>2, EditTraced DEF Traced
<1>. QED
  BY SMTT(30), Z3T(30), <1>1, <1>2, <1>3, <1>4

(* "Not modified" means "as in the file": in a plain or a full session     *)
(* that does not save in between, however many commands, undos, redos and  *)
(* evictions it is made of, the modified flag that do_undo and do_redo     *)
(* restore from a record is clear only when the text is back to the one    *)
(* of the file.                                                            *)
THEOREM UnmodifiedMeansUndone ==
    (PlainSession \/ FullSession) /\ Unsaved =>
        (Spec => []((~b.modified) => file = {b.text}))
<1>. DEFINE Goal == (~b.modified) => file = {b.text}
            Tr == Tracked(file, b)
<1>. SUFFICES ASSUME PlainSession \/ FullSession, Unsaved PROVE Spec => []Goal
  OBVIOUS
<1>1. Init => Tr
  <2>. SUFFICES ASSUME Init PROVE Tr
    BY SMTT(30), Z3T(30)
  <2>1. file = {b.text} /\ b.log = <<>>
    BY DEF Init
  <2>. QED
    BY <2>1 DEF Tracked, LogTracked
<1>2. Tr => Goal
  BY DEF Tracked
<1>3. CASE PlainSession
  <2>1. Init => HistoryInv
    BY HistoryInit
  <2>2. HistoryInv /\ [Next]_vars => HistoryInv'
    BY <1>3, HistoryStep
  <2>3. HistoryInv /\ [Next]_vars /\ Tr => Tr'
    <3>. SUFFICES ASSUME HistoryInv, [Next]_vars, Tr PROVE Tr'
      BY SMTT(30), Z3T(30)
    <3>1. TypeInv /\ Faithful(b) /\ UndoInSync
      BY DEF HistoryInv, UndoChain, UndoInSync
    <3>2. Room => Roomy(b)
      BY Zenon, <1>3, <3>1, RoomNotFull DEF PlainSession, Roomy
    <3>. QED
      BY <1>3, <3>1, <3>2, TrackedStep DEF PlainSession
  <2>. QED
    BY <1>1, <1>2, <2>1, <2>2, <2>3, PTL DEF Spec
<1>4. CASE FullSession
  <2>1. Init => FullInv
    BY FullInit
  <2>2. FullInv /\ [Next]_vars => FullInv'
    BY <1>4, FullStep
  <2>3. FullInv /\ [Next]_vars /\ Tr => Tr'
    BY <1>4, TrackedStep DEF FullInv, FullSession, Roomy
  <2>. QED
    BY <1>1, <1>2, <2>1, <2>2, <2>3, PTL DEF Spec
<1>. QED
  BY <1>3, <1>4
=============================================================================
