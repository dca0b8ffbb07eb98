---------------------------- MODULE TextOpsProofs ----------------------------
(***************************************************************************)
(* Facts about TextOps, for texts of any length: the type, the length and  *)
(* the elements of each result, and the inverses that undo relies on.      *)
(***************************************************************************)
EXTENDS TextOps, SequenceTheorems, TLAPS

(* A part of a sequence. *)
LEMMA PartType ==
    ASSUME NEW S, NEW t \in Seq(S), NEW k \in Int, NEW m \in Int,
           1 <= k, m <= Len(t), k <= m + 1
    PROVE  /\ SubSeq(t, k, m) \in Seq(S)
           /\ Len(SubSeq(t, k, m)) = m - k + 1
           /\ \A i \in 1 .. m - k + 1 : SubSeq(t, k, m)[i] = t[k + i - 1]
<1>1. Len(t) \in Nat
  BY LenProperties
<1>2. \A i \in k .. m : t[i] \in S
  BY <1>1, ElementOfSeq
<1>. QED
  BY <1>1, <1>2, SubSeqProperties

(* eb_insert: the bytes in front of o, the new ones, the rest. *)
LEMMA InsertType ==
    \A S : \A t, d \in Seq(S) : \A o \in Nat : o <= Len(t) =>
      /\ InsertBytes(t, o, d) \in Seq(S)
      /\ Len(InsertBytes(t, o, d)) = Len(t) + Len(d)
      /\ \A i \in 1 .. Len(t) + Len(d) :
           InsertBytes(t, o, d)[i] =
             IF i <= o THEN t[i] ELSE IF i <= o + Len(d) THEN d[i - o] ELSE t[i - Len(d)]
<1>. SUFFICES ASSUME NEW S, NEW t \in Seq(S), NEW d \in Seq(S), NEW o \in Nat,
                     o <= Len(t)
              PROVE  /\ InsertBytes(t, o, d) \in Seq(S)
                     /\ Len(InsertBytes(t, o, d)) = Len(t) + Len(d)
                     /\ \A i \in 1 .. Len(t) + Len(d) :
                          InsertBytes(t, o, d)[i] =
                            IF i <= o THEN t[i]
                            ELSE IF i <= o + Len(d) THEN d[i - o] ELSE t[i - Len(d)]
  BY ZenonT(40)
<1>0. PICK k \in Nat, m \in Nat : k = Len(d) /\ m = Len(t) + k
  BY LenProperties
<1>. DEFINE p == SubSeq(t, 1, o)
            q == SubSeq(t, o + 1, Len(t))
<1>1. Len(t) \in Nat
  BY LenProperties
<1>2. p \in Seq(S) /\ Len(p) = o /\ \A i \in 1 .. o : p[i] = t[i]
  BY <1>1, PartType
<1>3. /\ q \in Seq(S) /\ Len(q) = Len(t) - o
      /\ \A i \in 1 .. Len(t) - o : q[i] = t[o + i]
  BY <1>1, PartType
<1>. HIDE DEF p, q
<1>. DEFINE pd == p \o d
            r == pd \o q
<1>4. /\ pd \in Seq(S) /\ Len(pd) = o + k
      /\ \A i \in 1 .. o + k : pd[i] = IF i <= o THEN p[i] ELSE d[i - o]
  BY ZenonT(40), <1>0, <1>2, ConcatProperties
<1>. HIDE DEF pd
<1>5. /\ r \in Seq(S)
      /\ Len(r) = m
      /\ \A i \in 1 .. m : r[i] = IF i <= o + k THEN pd[i] ELSE q[i - (o + k)]
  <2>1. pd \in Seq(S) /\ q \in Seq(S) /\ Len(pd) + Len(q) = m
    <3>. HIDE DEF r
    <3>1. Len(pd) + Len(q) = m
      BY <1>0, <1>1, <1>3, <1>4
    <3>. QED
      BY <3>1, <1>3, <1>4
  <2>2. /\ r \in Seq(S) /\ Len(r) = Len(pd) + Len(q)
        /\ \A i \in 1 .. Len(pd) + Len(q) :
              r[i] = IF i <= Len(pd) THEN pd[i] ELSE q[i - Len(pd)]
    BY <2>1, ConcatProperties, Zenon
  <2>. HIDE DEF r
  <2>. QED
    BY SMTT(30), Z3T(30), <2>1, <2>2, <1>4
<1>6. InsertBytes(t, o, d) = r
  BY DEF InsertBytes, p, q, pd
<1>. HIDE DEF r
<1>7. ASSUME NEW i \in 1 .. m
      PROVE  r[i] = IF i <= o THEN t[i] ELSE IF i <= o + k THEN d[i - o] ELSE t[i - k]
  <2>1. CASE i <= o
    BY <2>1, <1>0, <1>1, <1>2, <1>4, <1>5
  <2>2. CASE o < i /\ i <= o + k
    BY <2>2, <1>0, <1>1, <1>4, <1>5
  <2>3. CASE o + k < i
    <3>1. i - (o + k) \in 1 .. Len(t) - o /\ o + (i - (o + k)) = i - k
      BY <2>3, <1>0, <1>1
    <3>2. q[i - (o + k)] = t[i - k]
      BY <3>1, <1>3
    <3>3. ~(i <= o) /\ ~(i <= o + k)
      BY <2>3
    <3>. QED
      BY ZenonT(40), <3>2, <3>3, <1>5
  <2>. QED
    BY <2>1, <2>2, <2>3, <1>1
<1>. QED
  BY <1>0, <1>5, <1>6, <1>7

LEMMA InsertLen ==
    \A S : \A t, d \in Seq(S) : \A o \in Nat : o <= Len(t) =>
      Len(InsertBytes(t, o, d)) = Len(t) + Len(d)
  BY InsertType

(* eb_delete: the bytes in front of o and those behind o + n. *)
LEMMA DeleteType ==
    \A S : \A t \in Seq(S) : \A o, n \in Nat : o + n <= Len(t) =>
      /\ DeleteBytes(t, o, n) \in Seq(S)
      /\ Len(DeleteBytes(t, o, n)) = Len(t) - n
      /\ \A i \in 1 .. Len(t) - n :
           DeleteBytes(t, o, n)[i] = IF i <= o THEN t[i] ELSE t[i + n]
<1>. SUFFICES ASSUME NEW S, NEW t \in Seq(S), NEW o \in Nat, NEW n \in Nat,
                     o + n <= Len(t)
              PROVE  /\ DeleteBytes(t, o, n) \in Seq(S)
                     /\ Len(DeleteBytes(t, o, n)) = Len(t) - n
                     /\ \A i \in 1 .. Len(t) - n :
                          DeleteBytes(t, o, n)[i] = IF i <= o THEN t[i] ELSE t[i + n]
  BY ZenonT(40)
<1>0. PICK m \in Nat : Len(t) = m + n
  <2>1. Len(t) - n \in Nat
    BY LenProperties
  <2>. QED
    BY <2>1
<1>. DEFINE p == SubSeq(t, 1, o)
            q == SubSeq(t, o + n + 1, Len(t))
<1>1. p \in Seq(S) /\ Len(p) = o /\ \A i \in 1 .. o : p[i] = t[i]
  BY <1>0, PartType
<1>2. PICK k \in Nat : k = m - o
  BY <1>0
<1>3. q \in Seq(S) /\ Len(q) = k /\ \A i \in 1 .. k : q[i] = t[o + n + i]
  BY <1>0, <1>2, PartType
<1>. HIDE DEF p, q
<1>. DEFINE r == p \o q
<1>4. /\ r \in Seq(S) /\ Len(r) = m
      /\ \A i \in 1 .. m : r[i] = IF i <= o THEN p[i] ELSE q[i - o]
  <2>1. p \in Seq(S) /\ q \in Seq(S) /\ Len(p) + Len(q) = m /\ Len(p) = o
    BY <1>0, <1>1, <1>2, <1>3
  <2>2. /\ r \in Seq(S) /\ Len(r) = Len(p) + Len(q)
        /\ \A i \in 1 .. Len(p) + Len(q) :
              r[i] = IF i <= Len(p) THEN p[i] ELSE q[i - Len(p)]
    BY <2>1, ConcatProperties, Zenon
  <2>. HIDE DEF r
  <2>. QED
    BY <2>1, <2>2
<1>5. DeleteBytes(t, o, n) = r
  BY DEF DeleteBytes, p, q
<1>. HIDE DEF r
<1>6. ASSUME NEW i \in 1 .. m
      PROVE  r[i] = IF i <= o THEN t[i] ELSE t[i + n]
  <2>1. CASE i <= o
    BY <2>1, <1>1, <1>4
  <2>2. CASE o < i
    <3>1. i - o \in 1 .. k /\ o + n + (i - o) = i + n
      BY <2>2, <1>0, <1>2
    <3>. QED
      BY <2>2, <3>1, <1>3, <1>4
  <2>. QED
    BY <2>1, <2>2
<1>8. Len(t) - n = m
  BY <1>0
<1>. QED
  BY <1>8, <1>4, <1>5, <1>6

(* Its parts, each on its own. *)
LEMMA DeleteLen ==
    \A S : \A t \in Seq(S) : \A o, n \in Nat : o + n <= Len(t) =>
      Len(DeleteBytes(t, o, n)) = Len(t) - n
  BY DeleteType

LEMMA DeleteAt ==
    \A S : \A t \in Seq(S) : \A o, n \in Nat : o + n <= Len(t) =>
      \A i \in 1 .. Len(t) - n :
        DeleteBytes(t, o, n)[i] = IF i <= o THEN t[i] ELSE t[i + n]
  BY DeleteType

(* eb_read. *)
LEMMA BytesType ==
    ASSUME NEW S, NEW t \in Seq(S), NEW o \in Nat, NEW n \in Nat, o + n <= Len(t)
    PROVE  /\ Bytes(t, o, n) \in Seq(S)
           /\ Len(Bytes(t, o, n)) = n
           /\ \A i \in 1 .. n : Bytes(t, o, n)[i] = t[o + i]
<1>1. Len(t) \in Nat
  BY LenProperties
<1>. QED
  BY <1>1, PartType DEF Bytes

-----------------------------------------------------------------------------
(* Reverting a LOGOP_INSERT record: eb_delete of what eb_insert inserted. *)
LEMMA DeleteInserted ==
    \A S : \A t, d \in Seq(S) : \A o \in Nat : o <= Len(t) =>
      DeleteBytes(InsertBytes(t, o, d), o, Len(d)) = t
<1>. SUFFICES ASSUME NEW S, NEW t \in Seq(S), NEW d \in Seq(S), NEW o \in Nat,
                     o <= Len(t)
              PROVE  DeleteBytes(InsertBytes(t, o, d), o, Len(d)) = t
  OBVIOUS
<1>. DEFINE u == InsertBytes(t, o, d)
            v == DeleteBytes(u, o, Len(d))
<1>1. Len(t) \in Nat /\ Len(d) \in Nat
  BY LenProperties
<1>2. u \in Seq(S) /\ Len(u) = Len(t) + Len(d)
  BY InsertType
<1>3. \A i \in 1 .. Len(t) + Len(d) :
        u[i] = IF i <= o THEN t[i] ELSE IF i <= o + Len(d) THEN d[i - o] ELSE t[i - Len(d)]
  BY InsertType
<1>. HIDE DEF u
<1>4. o + Len(d) <= Len(u) /\ Len(u) - Len(d) = Len(t)
  BY <1>1, <1>2
<1>5. /\ v \in Seq(S) /\ Len(v) = Len(u) - Len(d)
      /\ \A i \in 1 .. Len(u) - Len(d) : v[i] = IF i <= o THEN u[i] ELSE u[i + Len(d)]
  <2>1. v \in Seq(S)
    BY <1>1, <1>2, <1>4, DeleteType
  <2>2. Len(v) = Len(u) - Len(d)
    BY ZenonT(40), <1>1, <1>2, <1>4, DeleteLen
  <2>3. ASSUME NEW i \in 1 .. Len(u) - Len(d)
        PROVE  v[i] = IF i <= o THEN u[i] ELSE u[i + Len(d)]
    BY ZenonT(40), <1>1, <1>2, <1>4, <2>3, DeleteAt
  <2>. QED
    BY <2>1, <2>2, <2>3
<1>. HIDE DEF v
<1>6. ASSUME NEW i \in 1 .. Len(t) PROVE v[i] = t[i]
  <2>1. v[i] = IF i <= o THEN u[i] ELSE u[i + Len(d)]
    BY ZenonT(40), <1>4, <1>5
  <2>2. CASE i <= o
    BY <2>1, <2>2, <1>1, <1>3
  <2>3. CASE o < i
    <3>1. /\ i + Len(d) \in 1 .. Len(t) + Len(d) /\ i + Len(d) > o + Len(d)
          /\ (i + Len(d)) - Len(d) = i
      BY <2>3, <1>1
    <3>2. u[i + Len(d)] = t[i]
      BY <3>1, <1>1, <1>3
    <3>. QED
      BY <2>1, <2>3, <3>2
  <2>. QED
    BY <2>2, <2>3
<1>7. v = t
  BY <1>4, <1>5, <1>6, SeqEqual
<1>. QED
  BY <1>7 DEF v, u

(* Reverting a LOGOP_DELETE record: inserting the bytes eb_delete removed. *)
LEMMA InsertDeleted ==
    \A S : \A t \in Seq(S) : \A o, n \in Nat : o + n <= Len(t) =>
      InsertBytes(DeleteBytes(t, o, n), o, Bytes(t, o, n)) = t
<1>. SUFFICES ASSUME NEW S, NEW t \in Seq(S), NEW o \in Nat, NEW n \in Nat,
                     o + n <= Len(t)
              PROVE  InsertBytes(DeleteBytes(t, o, n), o, Bytes(t, o, n)) = t
  OBVIOUS
<1>. DEFINE u == DeleteBytes(t, o, n)
            d == Bytes(t, o, n)
            v == InsertBytes(u, o, d)
<1>1. Len(t) \in Nat
  BY LenProperties
<1>2. /\ u \in Seq(S) /\ Len(u) = Len(t) - n
      /\ \A i \in 1 .. Len(t) - n : u[i] = IF i <= o THEN t[i] ELSE t[i + n]
  BY DeleteType
<1>3. d \in Seq(S) /\ Len(d) = n /\ \A i \in 1 .. n : d[i] = t[o + i]
  BY BytesType
<1>. HIDE DEF u, d
<1>4. o <= Len(u) /\ Len(u) + Len(d) = Len(t)
  BY <1>1, <1>2, <1>3
<1>5. /\ v \in Seq(S) /\ Len(v) = Len(u) + Len(d)
      /\ \A i \in 1 .. Len(u) + Len(d) :
            v[i] = IF i <= o THEN u[i] ELSE IF i <= o + Len(d) THEN d[i - o] ELSE u[i - Len(d)]
  <2>0. u \in Seq(S) /\ d \in Seq(S)
    BY <1>2, <1>3
  <2>1. v \in Seq(S)
    BY <2>0, <1>4, InsertType
  <2>2. Len(v) = Len(u) + Len(d)
    BY <2>0, <1>4, InsertType
  <2>3. ASSUME NEW i \in 1 .. Len(u) + Len(d)
        PROVE  v[i] = IF i <= o THEN u[i]
                      ELSE IF i <= o + Len(d) THEN d[i - o] ELSE u[i - Len(d)]
    BY <2>0, <1>4, InsertType
  <2>. QED
    BY <2>1, <2>2, <2>3
<1>. HIDE DEF v
<1>6. ASSUME NEW i \in 1 .. Len(t) PROVE v[i] = t[i]
  <2>0. v[i] = IF i <= o THEN u[i] ELSE IF i <= o + n THEN d[i - o] ELSE u[i - n]
    BY <1>3, <1>4, <1>5
  <2>1. CASE i <= o
    <3>1. i \in 1 .. Len(t) - n
      BY <2>1, <1>1
    <3>. QED
      BY <2>0, <2>1, <3>1, <1>2
  <2>2. CASE o < i /\ i <= o + n
    <3>1. i - o \in 1 .. n /\ o + (i - o) = i
      BY <2>2
    <3>. QED
      BY <2>0, <2>2, <3>1, <1>3
  <2>3. CASE o + n < i
    <3>1. i - n \in 1 .. Len(t) - n /\ i - n > o /\ (i - n) + n = i
      BY <2>3, <1>1
    <3>2. u[i - n] = t[i]
      BY <3>1, <1>2
    <3>. QED
      BY <2>0, <2>3, <3>2
  <2>. QED
    BY <2>1, <2>2, <2>3
<1>7. v = t
  BY Zenon, <1>4, <1>5, <1>6, SeqEqual
<1>. QED
  BY <1>7 DEF v, u, d

(* Coalescing: a deletion that also covers an insertion at its end undoes  *)
(* both.                                                                   *)
LEMMA DeleteGrown ==
    \A S : \A t, d \in Seq(S) : \A o, n \in Nat : o + n <= Len(t) =>
      DeleteBytes(InsertBytes(t, o + n, d), o, n + Len(d)) = DeleteBytes(t, o, n)
<1>. SUFFICES ASSUME NEW S, NEW t \in Seq(S), NEW d \in Seq(S), NEW o \in Nat,
                     NEW n \in Nat, o + n <= Len(t)
              PROVE  DeleteBytes(InsertBytes(t, o + n, d), o, n + Len(d)) = DeleteBytes(t, o, n)
  OBVIOUS
<1>1. Len(t) \in Nat /\ Len(d) \in Nat
  BY LenProperties
<1>2. PICK m \in Nat, p \in Nat : m = n + Len(d) /\ p = o + n
  BY <1>1
<1>. DEFINE u == InsertBytes(t, p, d)
            v == DeleteBytes(u, o, m)
            w == DeleteBytes(t, o, n)
<1>3. /\ u \in Seq(S) /\ Len(u) = Len(t) + Len(d)
      /\ \A i \in 1 .. Len(t) + Len(d) :
            u[i] = IF i <= p THEN t[i] ELSE IF i <= p + Len(d) THEN d[i - p] ELSE t[i - Len(d)]
  <2>1. p <= Len(t)
    BY <1>2
  <2>. QED
    BY <2>1, InsertType
<1>4. /\ w \in Seq(S) /\ Len(w) = Len(t) - n
      /\ \A i \in 1 .. Len(t) - n : w[i] = IF i <= o THEN t[i] ELSE t[i + n]
  BY DeleteType
<1>. HIDE DEF u, w
<1>5. o + m <= Len(u) /\ Len(u) - m = Len(t) - n
  BY <1>1, <1>2, <1>3
<1>6. /\ v \in Seq(S) /\ Len(v) = Len(u) - m
      /\ \A i \in 1 .. Len(u) - m : v[i] = IF i <= o THEN u[i] ELSE u[i + m]
  <2>0. u \in Seq(S)
    BY <1>3
  <2>1. v \in Seq(S)
    BY <2>0, <1>5, DeleteType
  <2>2. Len(v) = Len(u) - m
    BY <2>0, <1>5, DeleteType
  <2>3. ASSUME NEW i \in 1 .. Len(u) - m
        PROVE  v[i] = IF i <= o THEN u[i] ELSE u[i + m]
    BY <2>0, <1>5, DeleteAt
  <2>. QED
    BY <2>1, <2>2, <2>3
<1>. HIDE DEF v
<1>7. ASSUME NEW i \in 1 .. Len(t) - n PROVE v[i] = w[i]
  <2>0. v[i] = IF i <= o THEN u[i] ELSE u[i + m]
    BY <1>5, <1>6
  <2>1. CASE i <= o
    <3>1. i \in 1 .. Len(t) + Len(d) /\ i <= p
      BY <2>1, <1>1, <1>2
    <3>. QED
      BY <2>0, <2>1, <3>1, <1>3, <1>4
  <2>2. CASE o < i
    <3>1. /\ i + m \in 1 .. Len(t) + Len(d) /\ ~(i + m <= p) /\ ~(i + m <= p + Len(d))
          /\ (i + m) - Len(d) = i + n
      BY <2>2, <1>1, <1>2
    <3>2. u[i + m] = t[i + n]
      BY SMTT(30), Z3T(30), <3>1, <1>3
    <3>. QED
      BY <2>0, <2>2, <3>2, <1>4
  <2>. QED
    BY <2>1, <2>2
<1>8. Len(v) = Len(w)
  BY <1>4, <1>5, <1>6
<1>9. v = w
  BY ZenonT(40), <1>4, <1>6, <1>7, <1>8, SeqEqual
<1>. QED
  BY <1>2, <1>9 DEF v, u, w
=============================================================================
