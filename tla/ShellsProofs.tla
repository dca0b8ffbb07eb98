---------------------------- MODULE ShellsProofs ----------------------------
(***************************************************************************)
(* Proofs about Shells: which handler belongs to which process, for any    *)
(* number of buffers, processes and descriptors.                           *)
(***************************************************************************)
EXTENDS Shells, WellFoundedInduction, TLAPS

-----------------------------------------------------------------------------
(* The handlers of a list, as a set, and that no pid has two.              *)
Registered(hs) == {hs[i] : i \in DOMAIN hs}
OnePerPid(hs) == \A i, j \in DOMAIN hs : hs[i].pid = hs[j].pid => i = j

(* The inductive invariant.  A terminal has a process if and only if it    *)
(* has its handler, and one left open by a failed fork has none; a handler *)
(* and the state of its buffer point to each other; a buffer with no       *)
(* process has no terminal; a freed buffer has no state.                   *)
Owned(s) ==
    /\ \A f \in Fd : s.read_cb[f] # 0 =>
          s.buf[s.read_cb[f]].state /\ s.buf[s.read_cb[f]].fd = f
    /\ \A f \in Fd : s.pty[f].pid # 0 <=> s.read_cb[f] # 0
    /\ \A h \in Registered(s.pid_handlers) :
          s.buf[h.opaque].state /\ s.buf[h.opaque].pid = h.pid
    /\ OnePerPid(s.pid_handlers)
    /\ \A a \in Addr :
          /\ s.buf[a].pid # 0 =>
                [pid |-> s.buf[a].pid, opaque |-> a] \in Registered(s.pid_handlers)
          /\ s.buf[a].fd # 0 => s.read_cb[s.buf[a].fd] = a
          /\ s.buf[a].pid = 0 => s.buf[a].fd = 0
          /\ s.buf[a].kind = "none" => ~s.buf[a].state
    /\ \A f \in s.leaked : s.pty[f].pid = 0

(* The process of a buffer, other than the one at a, has not been waited   *)
(* for: its pid is not given to another.                                   *)
LiveBut(s, a) ==
    \A c \in Addr \ {a} : s.buf[c].pid # 0 => s.proc[s.buf[c].pid] # "none"
Live(s) == \A c \in Addr : s.buf[c].pid # 0 => s.proc[s.buf[c].pid] # "none"

Good(s) == s.crossed \/ (Owned(s) /\ Live(s))

ShellsInv == TypeOK /\ ~broken /\ Good(q)

-----------------------------------------------------------------------------
(* The list of handlers.                                                   *)
Handler == [pid : Pid, opaque : Addr]

LEMMA MinIn ==
    ASSUME NEW S \in SUBSET Nat, S # {}
    PROVE  Min(S) \in S
<1>1. PICK x \in S : \A y \in S : ~(<<y, x>> \in OpToRel(<, Nat))
  BY NatLessThanWellFounded, WFMin
<1>2. \A y \in S : ~(y < x)
  BY Zenon, <1>1 DEF OpToRel
<1>3. \A y \in S : x <= y
  BY <1>2
<1> QED  BY Zenon, <1>3 DEF Min

(* set_pid_handler puts a new handler before the others.                   *)
LEMMA HandlerAdded ==
    ASSUME NEW hs \in Seq(Handler), NEW h \in Handler, OnePerPid(hs),
           \A g \in Registered(hs) : g.pid # h.pid
    PROVE  /\ <<h>> \o hs \in Seq(Handler)
           /\ Registered(<<h>> \o hs) = {h} \cup Registered(hs)
           /\ OnePerPid(<<h>> \o hs)
<1> DEFINE new == <<h>> \o hs
<1>1. new \in Seq(Handler) /\ Len(new) = Len(hs) + 1 /\ Len(hs) \in Nat
  OBVIOUS
<1>2. new[1] = h /\ \A i \in 1..Len(hs) : new[i + 1] = hs[i]
  OBVIOUS
<1> HIDE DEF new
<1>3. \A i \in DOMAIN new : i = 1 \/ (i - 1 \in DOMAIN hs /\ new[i] = hs[i - 1])
  BY <1>1, <1>2
<1>4. \A i \in DOMAIN hs : i + 1 \in DOMAIN new /\ new[i + 1] = hs[i]
  BY <1>1, <1>2
<1>5. 1 \in DOMAIN new
  BY <1>1
<1>6. Registered(new) = {h} \cup Registered(hs)
  BY <1>2, <1>3, <1>4, <1>5 DEF Registered
<1>7. OnePerPid(new)
  <2> SUFFICES ASSUME NEW i \in DOMAIN new, NEW j \in DOMAIN new,
                      new[i].pid = new[j].pid
               PROVE  i = j
    BY DEF OnePerPid
  <2>1. i \in Nat /\ j \in Nat
    BY <1>1
  <2>2. \A k \in DOMAIN hs : hs[k].pid # h.pid
    BY DEF Registered
  <2>3. CASE i # 1 /\ j # 1
    <3>1. i - 1 = j - 1
      BY <1>3, <2>3 DEF OnePerPid
    <3> QED  BY <2>1, <3>1
  <2> QED  BY <1>2, <1>3, <2>2, <2>3
<1> QED  BY <1>1, <1>6, <1>7 DEF new

(* set_pid_handler(pid, NULL) takes the handler of the pid out.            *)
LEMMA HandlerDropped ==
    ASSUME NEW hs \in Seq(Handler), NEW p \in 0..MaxPid, OnePerPid(hs)
    PROVE  /\ DropPidHandler(hs, p) \in Seq(Handler)
           /\ Registered(DropPidHandler(hs, p)) = {g \in Registered(hs) : g.pid # p}
           /\ OnePerPid(DropPidHandler(hs, p))
<1> DEFINE S == HandlersOf(hs, p)
           new == DropPidHandler(hs, p)
<1>1. CASE S = {}
  BY <1>1 DEF DropPidHandler, HandlersOf, Registered
<1>2. CASE S # {}
  <2> DEFINE k == Min(S)
  <2>1. S \subseteq Nat /\ S \subseteq DOMAIN hs
    BY DEF HandlersOf
  <2>2. k \in S
    BY <1>2, <2>1, MinIn
  <2>3. new = SubSeq(hs, 1, k - 1) \o SubSeq(hs, k + 1, Len(hs))
    BY Zenon, <1>2 DEF DropPidHandler
  <2>4. /\ k \in DOMAIN hs /\ hs[k].pid = p
    BY <2>2 DEF HandlersOf
  <2> HIDE DEF S, k, new
  <2>5. k \in 1..Len(hs) /\ Len(hs) \in Nat
    BY <2>4
  <2> DEFINE x == SubSeq(hs, 1, k - 1)
             y == SubSeq(hs, k + 1, Len(hs))
  <2>6. /\ x \in Seq(Handler) /\ Len(x) = k - 1
        /\ \A i \in 1..(k - 1) : x[i] = hs[i]
    <3>1. x \in Seq(Handler)
      BY <2>5
    <3> QED  BY <2>5, <3>1
  <2>7. y \in Seq(Handler)
    BY <2>5
  <2>8. Len(y) = Len(hs) - k /\ \A i \in 1..(Len(hs) - k) : y[i] = hs[i + k]
    BY SMTT(30), Z3T(30), <2>5
  <2> HIDE DEF x, y
  <2>9. /\ new \in Seq(Handler) /\ Len(new) = Len(x) + Len(y)
        /\ \A i \in 1..Len(x) : new[i] = x[i]
        /\ \A i \in 1..Len(y) : new[Len(x) + i] = y[i]
    <3>1. new = x \o y
      BY Zenon, <2>3 DEF x, y
    <3>2. ASSUME NEW u \in Seq(Handler), NEW v \in Seq(Handler)
          PROVE  /\ u \o v \in Seq(Handler) /\ Len(u \o v) = Len(u) + Len(v)
                 /\ \A i \in 1..Len(u) : (u \o v)[i] = u[i]
                 /\ \A i \in 1..Len(v) : (u \o v)[Len(u) + i] = v[i]
      OBVIOUS
    <3> QED  BY Zenon, <2>6, <2>7, <3>1, <3>2
  <2>10. Len(new) = Len(hs) - 1
    BY <2>5, <2>6, <2>8, <2>9
  <2>11. \A i \in DOMAIN new : \/ i < k /\ i \in DOMAIN hs /\ new[i] = hs[i]
                               \/ i >= k /\ i + 1 \in DOMAIN hs /\ new[i] = hs[i + 1]
    <3> TAKE i \in DOMAIN new
    <3>1. i \in 1..(Len(hs) - 1)
      BY <2>9, <2>10
    <3>2. CASE i < k
      <4>1. i \in 1..Len(x) /\ i \in 1..(k - 1) /\ i \in 1..Len(hs)
        BY <2>5, <2>6, <3>1, <3>2
      <4> QED  BY <2>6, <2>9, <3>2, <4>1
    <3>3. CASE i >= k
      <4>1. i - (k - 1) \in 1..(Len(hs) - k)
        BY <2>5, <3>1, <3>3
      <4>2. Len(x) + (i - (k - 1)) = i /\ (i - (k - 1)) + k = i + 1
        BY <2>5, <2>6, <3>1
      <4>3. new[i] = hs[i + 1]
        BY <2>8, <2>9, <4>1, <4>2
      <4> QED  BY <2>5, <3>1, <3>3, <4>3
    <3> QED  BY <2>5, <3>1, <3>2, <3>3
  <2>12. \A j \in DOMAIN hs : j # k => \E i \in DOMAIN new : new[i] = hs[j]
    <3> TAKE j \in DOMAIN hs
    <3>1. CASE j < k
      <4>1. j \in DOMAIN new /\ new[j] = hs[j]
        BY SMTT(30), Z3T(30), <2>5, <2>6, <2>9, <2>10, <3>1
      <4> QED  BY <4>1
    <3>2. CASE j > k
      <4>1. j - 1 \in DOMAIN new /\ j - 1 >= k /\ (j - 1) + 1 = j
        BY <2>5, <2>9, <2>10, <3>2
      <4>2. new[j - 1] = hs[j]
        BY <2>5, <2>11, <4>1
      <4> QED  BY <4>1, <4>2
    <3> QED  BY <2>5, <3>1, <3>2
  <2>13. \A j \in DOMAIN hs : hs[j].pid = p <=> j = k
    BY <2>4 DEF OnePerPid
  <2>14. Registered(new) = {g \in Registered(hs) : g.pid # p}
    <3>1. \A i \in DOMAIN new : \E j \in DOMAIN hs : j # k /\ new[i] = hs[j]
      BY <2>5, <2>9, <2>11
    <3> QED  BY <2>12, <2>13, <3>1 DEF Registered
  <2>15. OnePerPid(new)
    <3> SUFFICES ASSUME NEW i \in DOMAIN new, NEW j \in DOMAIN new,
                        new[i].pid = new[j].pid
                 PROVE  i = j
      BY DEF OnePerPid
    <3>1. i \in Nat /\ j \in Nat /\ k \in Nat
      BY <2>5, <2>9
    <3>2. CASE i < k /\ j < k
      BY <2>11, <3>1, <3>2 DEF OnePerPid
    <3>3. CASE i < k /\ j >= k
      <4>1. i = j + 1
        BY <2>11, <3>1, <3>3 DEF OnePerPid
      <4> QED  BY <3>1, <3>3, <4>1
    <3>4. CASE i >= k /\ j < k
      <4>1. i + 1 = j
        BY <2>11, <3>1, <3>4 DEF OnePerPid
      <4> QED  BY <3>1, <3>4, <4>1
    <3>5. CASE i >= k /\ j >= k
      <4>1. i + 1 = j + 1
        BY <2>11, <3>1, <3>5 DEF OnePerPid
      <4> QED  BY <3>1, <4>1
    <3> QED  BY <3>1, <3>2, <3>3, <3>4, <3>5
  <2> QED  BY <2>9, <2>14, <2>15 DEF new
<1> QED  BY <1>1, <1>2

-----------------------------------------------------------------------------
(* What the code does to a buffer and its handlers, and what stays true.   *)
LEMMA StateFields ==
    ASSUME NEW s \in State
    PROVE  /\ s.buf \in [Addr -> Buffer]
           /\ s.proc \in [Pid -> {"none", "running", "zombie"}]
           /\ s.pty \in [Fd -> [pid : 0..MaxPid, unread : 0..MaxUnread]]
           /\ s.leaked \in SUBSET Fd
           /\ s.read_cb \in [Fd -> Addr \cup {0}]
           /\ s.pid_handlers \in Seq(Handler)
           /\ s.crossed \in BOOLEAN
           /\ \A h \in Registered(s.pid_handlers) : h \in Handler
<1>1. s.pid_handlers \in Seq(Handler)
  BY DEF State, Handler
<1>2. \A h \in Registered(s.pid_handlers) : h \in Handler
  BY <1>1 DEF Registered
<1> QED  BY <1>1, <1>2 DEF State

(* Two buffers never have the same process.                                *)
LEMMA PidsDistinct ==
    ASSUME NEW s \in State, Owned(s), NEW a \in Addr, NEW c \in Addr,
           s.buf[a].pid # 0, s.buf[a].pid = s.buf[c].pid
    PROVE  a = c
<1> DEFINE h(x) == [pid |-> s.buf[x].pid, opaque |-> x]
<1>1. h(a) \in Registered(s.pid_handlers) /\ h(c) \in Registered(s.pid_handlers)
  BY DEF Owned
<1>2. PICK i \in DOMAIN s.pid_handlers, j \in DOMAIN s.pid_handlers :
         s.pid_handlers[i] = h(a) /\ s.pid_handlers[j] = h(c)
  BY <1>1 DEF Registered
<1>3. i = j
  BY <1>2 DEF Owned, OnePerPid
<1>4. h(a) = h(c)
  BY <1>2, <1>3
<1> QED  BY <1>4

(* Ownership is a matter of the buffers, the handlers and the terminals'   *)
(* processes only.                                                         *)
LEMMA OwnedAlike ==
    ASSUME NEW s, NEW t, Owned(s), t.buf = s.buf, t.read_cb = s.read_cb,
           t.pid_handlers = s.pid_handlers,
           \A g \in Fd : t.pty[g].pid = s.pty[g].pid,
           \A g \in t.leaked : t.pty[g].pid = 0
    PROVE  Owned(t)
<1>1. \A g \in Fd : t.pty[g].pid # 0 <=> t.read_cb[g] # 0
  <2>1. \A g \in Fd : s.pty[g].pid # 0 <=> s.read_cb[g] # 0
    BY Zenon DEF Owned
  <2> QED  BY Zenon, <2>1
<1>2. \A g \in Fd : t.read_cb[g] # 0 =>
         t.buf[t.read_cb[g]].state /\ t.buf[t.read_cb[g]].fd = g
  <2>1. \A g \in Fd : s.read_cb[g] # 0 =>
           s.buf[s.read_cb[g]].state /\ s.buf[s.read_cb[g]].fd = g
    BY Zenon DEF Owned
  <2> QED  BY Zenon, <2>1
<1>3. /\ \A h \in Registered(t.pid_handlers) :
            t.buf[h.opaque].state /\ t.buf[h.opaque].pid = h.pid
      /\ OnePerPid(t.pid_handlers)
  <2>1. /\ \A h \in Registered(s.pid_handlers) :
              s.buf[h.opaque].state /\ s.buf[h.opaque].pid = h.pid
        /\ OnePerPid(s.pid_handlers)
    BY Zenon DEF Owned
  <2> QED  BY Zenon, <2>1
<1>4. \A a \in Addr :
         /\ t.buf[a].pid # 0 =>
               [pid |-> t.buf[a].pid, opaque |-> a] \in Registered(t.pid_handlers)
         /\ t.buf[a].fd # 0 => t.read_cb[t.buf[a].fd] = a
         /\ t.buf[a].pid = 0 => t.buf[a].fd = 0
         /\ t.buf[a].kind = "none" => ~t.buf[a].state
  <2>1. \A a \in Addr :
           /\ s.buf[a].pid # 0 =>
                 [pid |-> s.buf[a].pid, opaque |-> a] \in Registered(s.pid_handlers)
           /\ s.buf[a].fd # 0 => s.read_cb[s.buf[a].fd] = a
           /\ s.buf[a].pid = 0 => s.buf[a].fd = 0
           /\ s.buf[a].kind = "none" => ~s.buf[a].state
    BY Zenon DEF Owned
  <2> QED  BY SMTT(30), Z3T(30), <2>1
<1> QED  BY Zenon, <1>1, <1>2, <1>3, <1>4 DEF Owned

(* The record of a buffer changes, but not its process.                    *)
Replaces(s, t, a, e) ==
    /\ e \in Buffer /\ e.pid = s.buf[a].pid /\ e.fd = s.buf[a].fd
    /\ s.buf[a].state => e.state
    /\ e.kind = "none" => ~e.state
    /\ t.buf = [s.buf EXCEPT ![a] = e]
    /\ t.read_cb = s.read_cb /\ t.pid_handlers = s.pid_handlers
    /\ t.leaked = s.leaked
    /\ \A f \in Fd : t.pty[f].pid = s.pty[f].pid

LEMMA BufferReplaced ==
    ASSUME NEW s \in State, NEW t \in State, NEW a \in Addr, NEW e,
           Owned(s), Replaces(s, t, a, e)
    PROVE  Owned(t) /\ (Live(s) /\ t.proc = s.proc => Live(t))
<1>1. \A c \in Addr : /\ t.buf[c].pid = s.buf[c].pid
                      /\ t.buf[c].fd = s.buf[c].fd
                      /\ s.buf[c].state => t.buf[c].state
                      /\ (s.buf[c].kind = "none" => ~s.buf[c].state)
                         => (t.buf[c].kind = "none" => ~t.buf[c].state)
  BY StateFields DEF Replaces
<1>2. /\ \A f \in Fd : s.read_cb[f] \in Addr \cup {0}
      /\ \A h \in Registered(s.pid_handlers) : h.opaque \in Addr
  BY StateFields DEF Handler
<1>3. /\ t.read_cb = s.read_cb /\ t.pid_handlers = s.pid_handlers
      /\ t.leaked = s.leaked /\ s.leaked \in SUBSET Fd
      /\ \A f \in Fd : t.pty[f].pid = s.pty[f].pid
  BY Zenon, StateFields DEF Replaces
<1>4. Owned(t)
  BY SMTT(30), Z3T(30), <1>1, <1>2, <1>3 DEF Owned
<1> QED  BY <1>1, <1>4 DEF Live

(* The terminal of a buffer is closed and its two handlers are dropped.    *)
Releases(s, t, a, e) ==
    /\ t.buf = [s.buf EXCEPT ![a] = e]
    /\ e.pid = 0 /\ e.fd = 0 /\ e.kind = s.buf[a].kind
    /\ e.state => s.buf[a].state
    /\ t.pid_handlers = DropPidHandler(s.pid_handlers, s.buf[a].pid)
    /\ t.leaked = s.leaked
    /\ \A f \in Fd : t.read_cb[f] = IF f = s.buf[a].fd THEN 0 ELSE s.read_cb[f]
    /\ \A f \in Fd : t.pty[f] = IF f = s.buf[a].fd THEN NoPty ELSE s.pty[f]
    /\ \A p \in Pid \ {s.buf[a].pid} : t.proc[p] = s.proc[p]

LEMMA ProcessReleased ==
    ASSUME NEW s \in State, NEW t \in State, NEW a \in Addr, NEW e \in Buffer,
           Owned(s), LiveBut(s, a), Releases(s, t, a, e)
    PROVE  Owned(t) /\ Live(t)
<1> USE DEF Releases
<1> DEFINE pid == s.buf[a].pid
           fd == s.buf[a].fd
<1>1. /\ \A c \in Addr \ {a} : t.buf[c] = s.buf[c]
      /\ t.buf[a] = e
  BY StateFields
<1>2. pid \in 0..MaxPid /\ \A c \in Addr : s.buf[c] \in Buffer
  BY StateFields DEF Buffer
<1>3. /\ Registered(t.pid_handlers) = {g \in Registered(s.pid_handlers) : g.pid # pid}
      /\ OnePerPid(t.pid_handlers)
  BY <1>2, StateFields, HandlerDropped DEF Owned
<1>4. \A f \in Fd : t.read_cb[f] # 0 =>
         t.buf[t.read_cb[f]].state /\ t.buf[t.read_cb[f]].fd = f
  <2> SUFFICES ASSUME NEW f \in Fd, t.read_cb[f] # 0
               PROVE  t.buf[t.read_cb[f]].state /\ t.buf[t.read_cb[f]].fd = f
    OBVIOUS
  <2>1. f # fd /\ t.read_cb[f] = s.read_cb[f]
    OBVIOUS
  <2>2. s.read_cb[f] \in Addr
    BY SMTT(30), Z3T(30), <2>1, StateFields
  <2>3. s.buf[s.read_cb[f]].state /\ s.buf[s.read_cb[f]].fd = f
    BY Zenon, <2>1 DEF Owned
  <2> QED  BY <1>1, <2>1, <2>2, <2>3
<1>5. \A f \in Fd : t.pty[f].pid # 0 <=> t.read_cb[f] # 0
  BY DEF Owned, NoPty
<1>6. \A h \in Registered(t.pid_handlers) :
         t.buf[h.opaque].state /\ t.buf[h.opaque].pid = h.pid
  <2> TAKE h \in Registered(t.pid_handlers)
  <2>1. h \in Registered(s.pid_handlers) /\ h.pid # pid
    BY Zenon, <1>3
  <2>2. h.opaque \in Addr /\ s.buf[h.opaque].state /\ s.buf[h.opaque].pid = h.pid
    BY SMTT(30), Z3T(30), <2>1, StateFields DEF Owned, Handler
  <2> QED  BY <1>1, <2>1, <2>2
<1>7. ASSUME NEW c \in Addr
      PROVE  /\ t.buf[c].pid # 0 =>
                   [pid |-> t.buf[c].pid, opaque |-> c] \in Registered(t.pid_handlers)
             /\ t.buf[c].fd # 0 => t.read_cb[t.buf[c].fd] = c
             /\ t.buf[c].pid = 0 => t.buf[c].fd = 0
             /\ t.buf[c].kind = "none" => ~t.buf[c].state
  <2>1. CASE c = a
    <3>1. t.buf[c] = e
      BY <1>1, <2>1
    <3>2. s.buf[a].kind = "none" => ~s.buf[a].state
      BY Zenon DEF Owned
    <3>3. /\ e.pid = 0 /\ e.fd = 0 /\ e.kind = s.buf[a].kind
          /\ e.state => s.buf[a].state
      BY Zenon
    <3> QED  BY Zenon, <3>1, <3>2, <3>3
  <2>2. CASE c # a
    <3>1. t.buf[c] = s.buf[c] /\ s.buf[c] \in Buffer
      BY Zenon, <1>1, <1>2, <2>2
    <3>2. s.buf[c].pid # 0 =>
             [pid |-> s.buf[c].pid, opaque |-> c] \in Registered(t.pid_handlers)
      <4>1. s.buf[c].pid # 0 => s.buf[c].pid # pid
        BY <2>2, PidsDistinct
      <4> QED  BY <1>3, <4>1 DEF Owned
    <3>3. s.buf[c].fd # 0 => t.read_cb[s.buf[c].fd] = c
      <4>1. s.buf[c].fd # 0 => s.buf[c].fd # fd /\ s.read_cb[s.buf[c].fd] = c
        <5>1. s.buf[c].fd # 0 => s.read_cb[s.buf[c].fd] = c
          BY Zenon DEF Owned
        <5>2. fd # 0 => s.read_cb[fd] = a
          BY Zenon DEF Owned
        <5> QED  BY <2>2, <5>1, <5>2
      <4>2. s.buf[c].fd # 0 => s.buf[c].fd \in Fd
        BY <3>1, ShellsAssumption DEF Buffer, Fd
      <4> QED  BY <4>1, <4>2
    <3> QED  BY <3>1, <3>2, <3>3 DEF Owned
  <2> QED  BY <2>1, <2>2
<1>8. Owned(t)
  <2>1. \A f \in t.leaked : t.pty[f].pid = 0
    BY StateFields DEF Owned, NoPty
  <2> QED  BY Zenon, <1>3, <1>4, <1>5, <1>6, <1>7, <2>1 DEF Owned
<1>9. Live(t)
  <2> SUFFICES ASSUME NEW c \in Addr, t.buf[c].pid # 0
               PROVE  t.proc[t.buf[c].pid] # "none"
    BY DEF Live
  <2>1. c # a /\ t.buf[c] = s.buf[c] /\ s.buf[c] \in Buffer
    BY <1>1, <1>2
  <2>2. s.buf[c].pid # pid /\ s.buf[c].pid \in Pid
    <3>1. s.buf[c].pid \in 0..MaxPid /\ s.buf[c].pid # 0
      BY <2>1 DEF Buffer
    <3>2. s.buf[c].pid # pid
      BY <2>1, <3>1, PidsDistinct
    <3> QED  BY <3>1, <3>2, ShellsAssumption DEF Pid
  <2> QED  BY <2>1, <2>2 DEF LiveBut
<1> QED  BY <1>8, <1>9

(* A process is started in a buffer that has none.                         *)
LEMMA ProcessStarted ==
    ASSUME NEW s \in State, NEW t \in State, NEW a \in Addr, NEW e \in Buffer,
           Owned(s), Live(s), s.buf[a].pid = 0, s.buf[a].kind # "none",
           NEW p \in FreePids(s), NEW f \in FreeFds(s),
           t.buf = [s.buf EXCEPT ![a] = e],
           e.state, e.pid = p, e.fd = f, e.kind = s.buf[a].kind,
           t.proc = [s.proc EXCEPT ![p] = "running"],
           t.pty = [s.pty EXCEPT ![f] = [pid |-> p, unread |-> 0]],
           t.leaked = s.leaked,
           t.read_cb = [s.read_cb EXCEPT ![f] = a],
           t.pid_handlers = <<[pid |-> p, opaque |-> a]>> \o s.pid_handlers
    PROVE  Owned(t) /\ Live(t)
<1> DEFINE h == [pid |-> p, opaque |-> a]
<1> USE ShellsAssumption
<1>1. /\ \A c \in Addr \ {a} : t.buf[c] = s.buf[c]
      /\ t.buf[a] = e
  BY StateFields
<1>2. /\ p \in Pid /\ p # 0 /\ s.proc[p] = "none"
      /\ f \in Fd /\ f # 0 /\ s.pty[f].pid = 0 /\ h \in Handler
  BY SMTT(30), Z3T(30) DEF FreePids, FreeFds, Pid, Fd, Handler
<1>3. s.buf[a].fd = 0
  BY Zenon DEF Owned
<1>4. s.read_cb[f] = 0
  BY <1>2 DEF Owned
<1>5. \A g \in Registered(s.pid_handlers) : g \in Handler /\ g.pid # p /\ g.opaque # a
  <2> TAKE g \in Registered(s.pid_handlers)
  <2>1. g \in Handler
    BY StateFields
  <2>2. g.pid \in Pid /\ g.opaque \in Addr /\ g.pid # 0
    BY SMTT(30), Z3T(30), <2>1 DEF Handler, Pid
  <2>3. s.buf[g.opaque].pid = g.pid
    BY DEF Owned
  <2>4. s.proc[g.pid] # "none"
    BY <2>2, <2>3 DEF Live
  <2> QED  BY <1>2, <2>1, <2>2, <2>3, <2>4
<1>6. /\ Registered(t.pid_handlers) = {h} \cup Registered(s.pid_handlers)
      /\ OnePerPid(t.pid_handlers)
  <2> DEFINE hs == s.pid_handlers
  <2>1. /\ hs \in Seq(Handler) /\ h \in Handler /\ OnePerPid(hs)
        /\ t.pid_handlers = <<h>> \o hs
    BY SMTT(30), Z3T(30), <1>2, StateFields DEF Owned
  <2>2. \A g \in Registered(hs) : g.pid # h.pid
    BY <1>5
  <2> HIDE DEF hs, h
  <2> QED  BY SMTT(30), Z3T(30), <2>1, <2>2, HandlerAdded DEF hs
<1>7. \A g \in Fd \ {f} : t.read_cb[g] = s.read_cb[g] /\ t.pty[g] = s.pty[g]
  BY StateFields
<1>8. t.read_cb[f] = a /\ t.pty[f].pid = p
  BY SMTT(30), Z3T(30), <1>2, StateFields
<1>9. ASSUME NEW g \in Fd
      PROVE  /\ t.read_cb[g] # 0 =>
                   t.buf[t.read_cb[g]].state /\ t.buf[t.read_cb[g]].fd = g
             /\ t.pty[g].pid # 0 <=> t.read_cb[g] # 0
  <2>1. CASE g = f
    <3>1. t.read_cb[g] = a /\ t.pty[g].pid = p /\ a # 0
      BY Zenon, <1>8, <2>1
    <3> QED  BY <1>1, <1>2, <2>1, <3>1
  <2>2. CASE g # f
    <3>1. s.read_cb[g] # 0 => /\ s.read_cb[g] \in Addr
                              /\ s.buf[s.read_cb[g]].state
                              /\ s.buf[s.read_cb[g]].fd = g
      BY SMTT(30), Z3T(30), StateFields DEF Owned
    <3>2. g # 0
      BY SMTT(30), Z3T(30) DEF Fd
    <3>3. s.pty[g].pid # 0 <=> s.read_cb[g] # 0
      BY SMTT(30), Z3T(30) DEF Owned
    <3>4. s.read_cb[g] # a
      BY SMTT(30), Z3T(30), <1>3, <3>1, <3>2
    <3>5. t.read_cb[g] = s.read_cb[g] /\ t.pty[g].pid = s.pty[g].pid
      BY SMTT(30), Z3T(30), <1>7, <2>2
    <3>6. s.read_cb[g] # 0 => t.buf[s.read_cb[g]] = s.buf[s.read_cb[g]]
      BY SMTT(30), Z3T(30), <1>1, <3>1, <3>4
    <3> QED  BY SMTT(30), Z3T(30), <3>1, <3>3, <3>5, <3>6
  <2> QED  BY SMTT(30), Z3T(30), <2>1, <2>2
<1>10. \A g \in Registered(t.pid_handlers) :
          t.buf[g.opaque].state /\ t.buf[g.opaque].pid = g.pid
  <2> TAKE g \in Registered(t.pid_handlers)
  <2>1. CASE g = h
    BY SMTT(30), Z3T(30), <1>1, <2>1
  <2>2. CASE g \in Registered(s.pid_handlers)
    <3>1. g.opaque \in Addr \ {a}
      BY Zenon, <1>5, <2>2 DEF Handler
    <3>2. s.buf[g.opaque].state /\ s.buf[g.opaque].pid = g.pid
      BY Zenon, <2>2 DEF Owned
    <3> QED  BY <1>1, <3>1, <3>2
  <2> QED  BY <1>6, <2>1, <2>2
<1>11. ASSUME NEW c \in Addr
       PROVE  /\ t.buf[c].pid # 0 =>
                    [pid |-> t.buf[c].pid, opaque |-> c] \in Registered(t.pid_handlers)
              /\ t.buf[c].fd # 0 => t.read_cb[t.buf[c].fd] = c
              /\ t.buf[c].pid = 0 => t.buf[c].fd = 0
              /\ t.buf[c].kind = "none" => ~t.buf[c].state
  <2>1. CASE c = a
    BY SMTT(30), Z3T(30), <1>1, <1>2, <1>6, <1>8, <2>1
  <2>2. CASE c # a
    <3>1. t.buf[c] = s.buf[c] /\ s.buf[c] \in Buffer
      BY SMTT(30), Z3T(30), <1>1, <2>2, StateFields
    <3>2. s.buf[c].pid # 0 =>
             [pid |-> s.buf[c].pid, opaque |-> c] \in Registered(t.pid_handlers)
      BY SMTT(30), Z3T(30), <1>6 DEF Owned
    <3>3. s.buf[c].fd # 0 => t.read_cb[s.buf[c].fd] = c
      <4>1. s.buf[c].fd # 0 => s.read_cb[s.buf[c].fd] = c
        BY Zenon DEF Owned
      <4>2. s.buf[c].fd # 0 => s.buf[c].fd \in Fd
        BY SMTT(30), Z3T(30), <3>1 DEF Buffer, Fd
      <4>3. s.buf[c].fd # 0 => s.buf[c].fd # f
        BY <1>4, <4>1
      <4> QED  BY <1>7, <4>1, <4>2, <4>3
    <3> QED  BY SMTT(30), Z3T(30), <3>1, <3>2, <3>3 DEF Owned
  <2> QED  BY SMTT(30), Z3T(30), <2>1, <2>2
<1>12. Owned(t)
  <2>1. \A g \in t.leaked : t.pty[g].pid = 0
    <3>1. f \notin s.leaked /\ s.leaked \in SUBSET Fd
      BY StateFields DEF FreeFds
    <3> QED  BY <1>7, <3>1 DEF Owned
  <2> QED  BY Zenon, <1>6, <1>9, <1>10, <1>11, <2>1 DEF Owned
<1>13. Live(t)
  <2> SUFFICES ASSUME NEW c \in Addr, t.buf[c].pid # 0
               PROVE  t.proc[t.buf[c].pid] # "none"
    BY SMTT(30), Z3T(30) DEF Live
  <2>1. t.proc[p] = "running" /\ \A g \in Pid \ {p} : t.proc[g] = s.proc[g]
    BY SMTT(30), Z3T(30), <1>2, StateFields
  <2>2. CASE c = a
    BY SMTT(30), Z3T(30), <1>1, <2>1, <2>2
  <2>3. CASE c # a
    <3>1. t.buf[c] = s.buf[c] /\ s.buf[c] \in Buffer
      BY <1>1, <2>3, StateFields
    <3>2. s.buf[c].pid \in Pid
      BY <3>1 DEF Buffer, Pid
    <3>3. s.proc[s.buf[c].pid] # "none"
      BY <3>1 DEF Live
    <3> QED  BY SMTT(30), Z3T(30), <2>1, <3>1, <3>2, <3>3
  <2> QED  BY SMTT(30), Z3T(30), <2>2, <2>3
<1> QED  BY <1>12, <1>13

-----------------------------------------------------------------------------
(* The operations of shell.c.                                              *)

(* A terminal is left open by a fork that fails.                           *)
LEMMA RunFails ==
    ASSUME NEW s \in State
    PROVE  /\ run_process_fails(s) \in State
           /\ run_process_fails(s).buf = s.buf
           /\ run_process_fails(s).crossed = s.crossed
           /\ Owned(s) => Owned(run_process_fails(s))
           /\ Live(s) => Live(run_process_fails(s))
<1>1. CASE FreeFds(s) = {}
  BY Zenon, <1>1 DEF run_process_fails
<1>2. CASE FreeFds(s) # {}
  <2> DEFINE f == Min(FreeFds(s))
             t == run_process_fails(s)
             left == s.leaked \cup {f}
  <2>1. f \in FreeFds(s)
    <3>1. FreeFds(s) \in SUBSET Nat
      BY DEF FreeFds, Fd
    <3> QED  BY <1>2, <3>1, MinIn
  <2>2. t = [s EXCEPT !.leaked = left]
    BY Zenon, <1>2 DEF run_process_fails
  <2> HIDE DEF f, t
  <2>3. f \in Fd /\ s.pty[f].pid = 0
    BY Zenon, <2>1 DEF FreeFds
  <2>4. left \in SUBSET Fd
    BY Zenon, <2>3, StateFields
  <2> HIDE DEF left
  <2>5. t = [buf |-> s.buf, proc |-> s.proc, pty |-> s.pty,
             read_cb |-> s.read_cb, pid_handlers |-> s.pid_handlers,
             crossed |-> s.crossed, leaked |-> left]
    BY ZenonT(60), <2>2 DEF State
  <2>6. t \in State
    BY Zenon, <2>4, <2>5, StateFields DEF State, Handler
  <2>7. /\ t.buf = s.buf /\ t.crossed = s.crossed /\ t.pty = s.pty
        /\ t.read_cb = s.read_cb /\ t.pid_handlers = s.pid_handlers
        /\ t.proc = s.proc /\ t.leaked = left
    BY Zenon, <2>5
  <2>8. ASSUME Owned(s)
        PROVE  Owned(t)
    <3>1. \A g \in t.leaked : t.pty[g].pid = 0
      BY <2>3, <2>7, <2>8 DEF Owned, left
    <3>2. \A g \in Fd : t.pty[g].pid = s.pty[g].pid
      BY Zenon, <2>7
    <3> QED  BY Zenon, <2>7, <2>8, <3>1, <3>2, OwnedAlike
  <2>9. Live(s) => Live(t)
    BY Zenon, <2>7 DEF Live
  <2> QED  BY Zenon, <2>6, <2>7, <2>8, <2>9 DEF t
<1> QED  BY <1>1, <1>2

LEMMA NewShell ==
    ASSUME NEW s \in State, NEW a \in Addr, s.buf[a].kind # "none"
    PROVE  /\ new_shell_buffer(s, a) \in State
           /\ new_shell_buffer(s, a).buf[a].kind = s.buf[a].kind
           /\ s.crossed => new_shell_buffer(s, a).crossed
           /\ Good(s) => Good(new_shell_buffer(s, a))
<1> USE ShellsAssumption
<1> DEFINE t == new_shell_buffer(s, a)
           z == s.crossed \/ s.buf[a].pid # 0
           e0 == [s.buf[a] EXCEPT !.state = TRUE, !.pid = 0, !.fd = 0]
           over == [s EXCEPT !.crossed = z, !.buf[a] = e0]
<1>1. s.buf[a] \in Buffer /\ 0 \in 0..MaxPid /\ 0 \in 0..MaxFd
  BY SMTT(30), Z3T(30), StateFields
<1>2. /\ e0 \in Buffer /\ e0.kind = s.buf[a].kind /\ e0.state
      /\ e0.pid = 0 /\ e0.fd = 0
  <2>1. e0 = [s.buf[a] EXCEPT !.state = TRUE, !.pid = 0, !.fd = 0]
    OBVIOUS
  <2> HIDE DEF e0
  <2>2. e0 = [kind |-> s.buf[a].kind, state |-> TRUE, pid |-> 0, fd |-> 0,
              empty |-> s.buf[a].empty, windows |-> s.buf[a].windows]
    BY Zenon, <1>1, <2>1 DEF Buffer
  <2>3. e0 \in Buffer
    BY <1>1, <2>2 DEF Buffer
  <2> QED  BY <2>2, <2>3
<1> HIDE DEF e0, z
<1>3. over = [buf |-> [s.buf EXCEPT ![a] = e0], proc |-> s.proc, pty |-> s.pty,
              read_cb |-> s.read_cb, pid_handlers |-> s.pid_handlers,
              crossed |-> z, leaked |-> s.leaked]
  <2>1. over = [s EXCEPT !.crossed = z, !.buf[a] = e0]
    OBVIOUS
  <2> HIDE DEF over
  <2> QED  BY ZenonT(60), <2>1 DEF State
<1>4. z \in BOOLEAN /\ [s.buf EXCEPT ![a] = e0] \in [Addr -> Buffer]
  BY Zenon, <1>2, StateFields DEF z
<1>5. over \in State
  <2> HIDE DEF over
  <2> QED  BY <1>3, <1>4, StateFields DEF State, Handler
<1>6. over.buf[a] = e0
  BY <1>2, <1>3, StateFields
<1>7. CASE ~CanRun(s)
  <2>1. t = run_process_fails(over)
    BY <1>7 DEF new_shell_buffer, over, e0, z
  <2>2. ASSUME Good(s), ~z
        PROVE  Owned(over) /\ Live(over)
    <3>1. Owned(s) /\ Live(s) /\ s.buf[a].pid = 0
      BY <2>2 DEF Good, z
    <3>2. s.buf[a].fd = 0
      BY Zenon, <3>1 DEF Owned
    <3>3. Replaces(s, over, a, e0)
      <4> HIDE DEF over
      <4> QED  BY <1>2, <1>3, <3>1, <3>2 DEF Replaces
    <3>4. over.proc = s.proc
      BY <1>3
    <3> HIDE DEF over
    <3> QED  BY Zenon, <1>5, <3>1, <3>3, <3>4, BufferReplaced
  <2>3. over.crossed = z
    BY <1>3
  <2> HIDE DEF over
  <2>4. /\ t \in State /\ t.buf = over.buf /\ t.crossed = z
        /\ Owned(over) /\ Live(over) => Owned(t) /\ Live(t)
    BY Zenon, <1>5, <2>1, <2>3, RunFails
  <2> HIDE DEF t
  <2>5. t.buf[a].kind = s.buf[a].kind /\ (Good(s) => Good(t))
    BY Zenon, <1>2, <1>6, <2>2, <2>4 DEF Good, z
  <2> QED  BY Zenon, <2>4, <2>5 DEF t, z
<1>8. CASE CanRun(s)
  <2> DEFINE p == Min(FreePids(s))
             f == Min(FreeFds(s))
             e1 == [e0 EXCEPT !.pid = p, !.fd = f]
  <2>1. p \in FreePids(s) /\ f \in FreeFds(s)
    <3>1. FreePids(s) \in SUBSET Nat /\ FreeFds(s) \in SUBSET Nat
      BY DEF FreePids, FreeFds, Pid, Fd
    <3> QED  BY <1>8, <3>1, MinIn DEF CanRun
  <2>2. /\ t = [over EXCEPT !.buf[a] = [over.buf[a] EXCEPT !.pid = p, !.fd = f],
                          !.proc[p] = "running",
                          !.pty[f] = [pid |-> p, unread |-> 0],
                          !.read_cb[f] = a,
                          !.pid_handlers = <<[pid |-> p, opaque |-> a]>> \o @]
    BY <1>8 DEF new_shell_buffer, over, e0, z
  <2> HIDE DEF p, f
  <2>3. p \in Pid /\ f \in Fd /\ p \in 0..MaxPid /\ f \in 0..MaxFd
    BY <2>1 DEF FreePids, FreeFds, Pid, Fd
  <2>4. /\ e1 \in Buffer /\ e1.kind = s.buf[a].kind /\ e1.state
        /\ e1.pid = p /\ e1.fd = f
    <3>0. e1 = [e0 EXCEPT !.pid = p, !.fd = f]
      OBVIOUS
    <3> HIDE DEF e1
    <3>1. e1 = [kind |-> e0.kind, state |-> e0.state, pid |-> p, fd |-> f,
                empty |-> e0.empty, windows |-> e0.windows]
      BY Zenon, <1>2, <3>0 DEF Buffer
    <3>2. e1 \in Buffer
      BY <1>2, <2>3, <3>1 DEF Buffer
    <3> QED  BY <1>2, <3>1, <3>2
  <2>5. [over.buf[a] EXCEPT !.pid = p, !.fd = f] = e1
    BY Zenon, <1>6
  <2> HIDE DEF e1, over
  <2> DEFINE hs == <<[pid |-> p, opaque |-> a]>> \o s.pid_handlers
             x == [pid |-> p, unread |-> 0]
  <2>6. t = [buf |-> [over.buf EXCEPT ![a] = e1],
             proc |-> [over.proc EXCEPT ![p] = "running"],
             pty |-> [over.pty EXCEPT ![f] = x],
             read_cb |-> [over.read_cb EXCEPT ![f] = a],
             pid_handlers |-> <<[pid |-> p, opaque |-> a]>> \o over.pid_handlers,
             crossed |-> over.crossed, leaked |-> over.leaked]
    BY ZenonT(60), <1>5, <2>2, <2>5 DEF State
  <2>7. [over.buf EXCEPT ![a] = e1] = [s.buf EXCEPT ![a] = e1]
    BY SMTT(30), Z3T(30), <1>3, StateFields
  <2>8. t = [buf |-> [s.buf EXCEPT ![a] = e1],
             proc |-> [s.proc EXCEPT ![p] = "running"],
             pty |-> [s.pty EXCEPT ![f] = x],
             read_cb |-> [s.read_cb EXCEPT ![f] = a],
             pid_handlers |-> hs, crossed |-> z, leaked |-> s.leaked]
    BY Zenon, <1>3, <2>6, <2>7
  <2>9. t \in State
    <3>1. /\ [s.buf EXCEPT ![a] = e1] \in [Addr -> Buffer]
          /\ [s.proc EXCEPT ![p] = "running"] \in [Pid -> {"none", "running", "zombie"}]
          /\ [s.read_cb EXCEPT ![f] = a] \in [Fd -> Addr \cup {0}]
      BY Zenon, <2>4, StateFields
    <3>2. x \in [pid : 0..MaxPid, unread : 0..MaxUnread]
      BY <2>3
    <3>3. [s.pty EXCEPT ![f] = x] \in [Fd -> [pid : 0..MaxPid, unread : 0..MaxUnread]]
      <4> DEFINE T == [pid : 0..MaxPid, unread : 0..MaxUnread]
      <4>1. x \in T /\ s.pty \in [Fd -> T]
        BY <3>2, StateFields
      <4> HIDE DEF x, T
      <4>2. [s.pty EXCEPT ![f] = x] \in [Fd -> T]
        BY Zenon, <4>1
      <4> QED  BY Zenon, <4>2 DEF T
    <3>4. hs \in Seq(Handler)
      <4>1. [pid |-> p, opaque |-> a] \in Handler
        BY ZenonT(40), <2>3 DEF Handler
      <4> QED  BY <4>1, StateFields
    <3> HIDE DEF hs, x, t
    <3> QED  BY <1>4, <2>8, <3>1, <3>3, <3>4 DEF State, Handler
  <2>10. ASSUME Good(s), ~z
         PROVE  Owned(t) /\ Live(t)
    <3>1. Owned(s) /\ Live(s) /\ s.buf[a].pid = 0
      BY <2>10 DEF Good, z
    <3> QED  BY <2>1, <2>4, <2>8, <2>9, <3>1, ProcessStarted
  <2>11. t.buf[a].kind = s.buf[a].kind
    BY SMTT(30), Z3T(30), <2>4, <2>8, StateFields
  <2>12. t.crossed = z
    BY <2>8
  <2> QED  BY Zenon, <2>9, <2>10, <2>11, <2>12 DEF Good, z
<1> QED  BY <1>7, <1>8

(* The handlers of the process of a buffer go, and the terminal.           *)
LEMMA DropTyped ==
    ASSUME NEW hs \in Seq(Handler), NEW p
    PROVE  DropPidHandler(hs, p) \in Seq(Handler)
<1> DEFINE S == HandlersOf(hs, p)
           k == Min(S)
<1>1. CASE S = {}
  BY <1>1 DEF DropPidHandler
<1>2. CASE S # {}
  <2>1. S \subseteq Nat /\ S \subseteq DOMAIN hs
    BY DEF HandlersOf
  <2>2. k \in S
    BY <1>2, <2>1, MinIn
  <2>3. DropPidHandler(hs, p) = SubSeq(hs, 1, k - 1) \o SubSeq(hs, k + 1, Len(hs))
    BY Zenon, <1>2 DEF DropPidHandler
  <2> HIDE DEF S, k
  <2>4. k \in 1..Len(hs) /\ Len(hs) \in Nat
    BY <2>1, <2>2
  <2>5. SubSeq(hs, 1, k - 1) \in Seq(Handler)
    BY <2>4
  <2>6. SubSeq(hs, k + 1, Len(hs)) \in Seq(Handler)
    BY <2>4
  <2>7. \A u, v \in Seq(Handler) : u \o v \in Seq(Handler)
    OBVIOUS
  <2> QED  BY Zenon, <2>3, <2>5, <2>6, <2>7
<1> QED  BY <1>1, <1>2

Closing(s, a, e) ==
    [CloseFd(s, s.buf[a].fd) EXCEPT
        !.pid_handlers = DropPidHandler(@, s.buf[a].pid), !.buf[a] = e]

Shuts(s, a, e, pr, t) ==
    /\ e \in Buffer /\ pr \in [Pid -> {"none", "running", "zombie"}]
    /\ e.pid = 0 /\ e.fd = 0 /\ e.kind = s.buf[a].kind
    /\ \/ t = Closing(s, a, e) /\ pr = s.proc
       \/ t = [Closing(s, a, e) EXCEPT !.proc = pr]
    /\ \A p \in Pid \ {s.buf[a].pid} : pr[p] = s.proc[p]

Shut(s, a, e, pr, t) ==
    /\ t \in State /\ t.crossed = s.crossed
    /\ t.buf[a] = e /\ t.proc = pr
    /\ Owned(s) /\ LiveBut(s, a) /\ (e.state => s.buf[a].state)
       => Owned(t) /\ Live(t)

LEMMA Released ==
    ASSUME NEW s \in State, NEW a \in Addr, NEW e, NEW pr, NEW t,
           Shuts(s, a, e, pr, t)
    PROVE  Shut(s, a, e, pr, t)
<1> USE ShellsAssumption
<1> DEFINE x == CloseFd(s, s.buf[a].fd)
           rd == [f \in Fd |-> IF f = s.buf[a].fd THEN 0 ELSE s.read_cb[f]]
           pt == [f \in Fd |-> IF f = s.buf[a].fd THEN NoPty ELSE s.pty[f]]
           hs == DropPidHandler(s.pid_handlers, s.buf[a].pid)
           bf == [s.buf EXCEPT ![a] = e]
           y == Closing(s, a, e)
<1>0. e \in Buffer /\ pr \in [Pid -> {"none", "running", "zombie"}]
  BY DEF Shuts
<1>1. /\ bf \in [Addr -> Buffer] /\ bf[a] = e
      /\ rd \in [Fd -> Addr \cup {0}]
      /\ hs \in Seq(Handler)
  BY <1>0, StateFields, DropTyped
<1>2. pt \in [Fd -> [pid : 0..MaxPid, unread : 0..MaxUnread]]
  <2>1. NoPty \in [pid : 0..MaxPid, unread : 0..MaxUnread]
    BY DEF NoPty
  <2> QED  BY <2>1, StateFields
<1>3. x = [s EXCEPT !.read_cb = rd, !.pty = pt]
  BY Zenon DEF CloseFd
<1> HIDE DEF rd, pt, x
<1>4. x = [buf |-> s.buf, proc |-> s.proc, pty |-> pt, read_cb |-> rd,
           pid_handlers |-> s.pid_handlers, crossed |-> s.crossed,
           leaked |-> s.leaked]
  BY ZenonT(60), <1>3 DEF State
<1>5. x \in State
  BY <1>1, <1>2, <1>4, StateFields DEF State, Handler
<1>6. y = [x EXCEPT !.pid_handlers = DropPidHandler(x.pid_handlers, s.buf[a].pid),
                    !.buf[a] = e]
  BY Zenon DEF Closing, x
<1> HIDE DEF y
<1>7. y = [buf |-> [x.buf EXCEPT ![a] = e], proc |-> x.proc, pty |-> x.pty,
           read_cb |-> x.read_cb,
           pid_handlers |-> DropPidHandler(x.pid_handlers, s.buf[a].pid),
           crossed |-> x.crossed, leaked |-> x.leaked]
  BY ZenonT(60), <1>5, <1>6 DEF State
<1>8. y = [buf |-> bf, proc |-> s.proc, pty |-> pt, read_cb |-> rd,
           pid_handlers |-> hs, crossed |-> s.crossed, leaked |-> s.leaked]
  BY SMTT(30), Z3T(30), <1>4, <1>7
<1> HIDE DEF bf, hs
<1>9. y \in State
  BY <1>1, <1>2, <1>8, StateFields DEF State, Handler
<1>10. t = [buf |-> bf, proc |-> pr, pty |-> pt, read_cb |-> rd,
            pid_handlers |-> hs, crossed |-> s.crossed, leaked |-> s.leaked]
  <2>1. (t = y /\ pr = s.proc) \/ t = [y EXCEPT !.proc = pr]
    BY Zenon DEF y, Shuts
  <2>2. CASE t = [y EXCEPT !.proc = pr]
    <3>1. t = [buf |-> y.buf, proc |-> pr, pty |-> y.pty, read_cb |-> y.read_cb,
               pid_handlers |-> y.pid_handlers, crossed |-> y.crossed,
               leaked |-> y.leaked]
      BY ZenonT(60), <1>9, <2>2 DEF State
    <3> QED  BY <1>8, <3>1
  <2> QED  BY <1>8, <2>1, <2>2
<1>11. t \in State
  BY Zenon, <1>0, <1>1, <1>2, <1>10, StateFields DEF State, Handler
<1>12. /\ t.buf = [s.buf EXCEPT ![a] = e] /\ t.proc = pr /\ t.buf[a] = e
       /\ t.pid_handlers = DropPidHandler(s.pid_handlers, s.buf[a].pid)
       /\ t.crossed = s.crossed /\ t.leaked = s.leaked
  BY <1>1, <1>10 DEF bf, hs
<1>13. /\ \A f \in Fd : t.read_cb[f] = IF f = s.buf[a].fd THEN 0 ELSE s.read_cb[f]
       /\ \A f \in Fd : t.pty[f] = IF f = s.buf[a].fd THEN NoPty ELSE s.pty[f]
  BY <1>10 DEF rd, pt
<1>14. ASSUME Owned(s), LiveBut(s, a), e.state => s.buf[a].state
       PROVE  Owned(t) /\ Live(t)
  <2>1. \A p \in Pid \ {s.buf[a].pid} : t.proc[p] = s.proc[p]
    BY <1>12 DEF Shuts
  <2>2. e.pid = 0 /\ e.fd = 0 /\ e.kind = s.buf[a].kind
    BY Zenon DEF Shuts
  <2>3. Releases(s, t, a, e)
    BY <1>12, <1>13, <1>14, <2>1, <2>2 DEF Releases
  <2> QED  BY Zenon, <1>0, <1>11, <1>14, <2>3, ProcessReleased
<1> QED  BY <1>11, <1>12, <1>14 DEF Shut

LEMMA ClosedBuffers ==
    ASSUME NEW s \in State, NEW a \in Addr, NEW fd
    PROVE  CloseFd(s, fd).buf[a] = s.buf[a]
BY DEF CloseFd, State

(* shell_mode_free.                                                        *)
LEMMA ModeFreed ==
    ASSUME NEW s \in State, NEW a \in Addr, NEW t \in shell_mode_free(s, a)
    PROVE  /\ t \in State /\ t.crossed = s.crossed
           /\ ~t.buf[a].state /\ t.buf[a].pid = 0 /\ t.buf[a].fd = 0
           /\ Owned(s) /\ LiveBut(s, a) => Owned(t) /\ Live(t)
<1> USE ShellsAssumption
<1> DEFINE e == [s.buf[a] EXCEPT !.state = FALSE, !.pid = 0, !.fd = 0]
           pid == s.buf[a].pid
           freed == Closing(s, a, e)
<1>1. s.buf[a] \in Buffer /\ pid \in 0..MaxPid
  BY StateFields DEF Buffer
<1>2. /\ e \in Buffer /\ e.kind = s.buf[a].kind /\ ~e.state
      /\ e.pid = 0 /\ e.fd = 0
  <2>1. e = [s.buf[a] EXCEPT !.state = FALSE, !.pid = 0, !.fd = 0]
    OBVIOUS
  <2> HIDE DEF e
  <2>2. e = [kind |-> s.buf[a].kind, state |-> FALSE, pid |-> 0, fd |-> 0,
             empty |-> s.buf[a].empty, windows |-> s.buf[a].windows]
    BY Zenon, <1>1, <2>1 DEF Buffer
  <2>3. e \in Buffer
    BY <1>1, <2>2 DEF Buffer
  <2> QED  BY <2>2, <2>3
<1>3. freed = [CloseFd(s, s.buf[a].fd) EXCEPT
                  !.pid_handlers = DropPidHandler(@, pid),
                  !.buf[a] = [@ EXCEPT !.state = FALSE, !.pid = 0, !.fd = 0]]
  BY Zenon, ClosedBuffers DEF Closing
<1> HIDE DEF e, freed
<1>4. \E pr \in [Pid -> {"none", "running", "zombie"}] :
         /\ (t = freed /\ pr = s.proc) \/ t = [freed EXCEPT !.proc = pr]
         /\ \A p \in Pid \ {pid} : pr[p] = s.proc[p]
  <2>1. CASE pid = 0
    <3>1. t = freed
      BY Zenon, <1>3, <2>1 DEF shell_mode_free
    <3> QED  BY <3>1, StateFields
  <2>2. CASE pid # 0
    <3>1. PICK left \in {"none", s.proc[pid]} : t = [freed EXCEPT !.proc[pid] = left]
      BY Zenon, <1>3, <2>2 DEF shell_mode_free
    <3> DEFINE pr == [s.proc EXCEPT ![pid] = left]
    <3>2. freed \in State /\ freed.proc = s.proc
      <4>1. s.proc \in [Pid -> {"none", "running", "zombie"}]
        BY StateFields
      <4>2. Shuts(s, a, e, s.proc, freed)
        BY Zenon, <1>2, <4>1 DEF freed, Shuts
      <4>3. Shut(s, a, e, s.proc, freed)
        BY Zenon, <4>2, Released
      <4> QED  BY <4>3 DEF Shut
    <3>3. t = [freed EXCEPT !.proc = pr]
      BY Zenon, <3>1, <3>2
    <3>4. pid \in Pid
      BY <1>1, <2>2 DEF Pid
    <3>5. pr \in [Pid -> {"none", "running", "zombie"}]
      BY <3>4, StateFields
    <3>6. \A p \in Pid \ {pid} : pr[p] = s.proc[p]
      BY StateFields
    <3> HIDE DEF pr
    <3> QED  BY Zenon, <3>3, <3>5, <3>6
  <2> QED  BY <2>1, <2>2
<1>5. PICK pr \in [Pid -> {"none", "running", "zombie"}] :
         /\ (t = freed /\ pr = s.proc) \/ t = [freed EXCEPT !.proc = pr]
         /\ \A p \in Pid \ {pid} : pr[p] = s.proc[p]
  BY <1>4
<1>6. Shuts(s, a, e, pr, t)
  BY Zenon, <1>2, <1>5 DEF freed, Shuts
<1>7. /\ t \in State /\ t.crossed = s.crossed /\ t.buf[a] = e
      /\ Owned(s) /\ LiveBut(s, a) /\ (e.state => s.buf[a].state)
         => Owned(t) /\ Live(t)
  <2>1. Shut(s, a, e, pr, t)
    BY Zenon, <1>6, Released
  <2> QED  BY <2>1 DEF Shut
<1> QED  BY <1>2, <1>7

(* eb_free.                                                                *)
LEMMA Stateless ==
    ASSUME NEW s \in State, NEW a \in Addr, Owned(s), ~s.buf[a].state
    PROVE  s.buf[a].pid = 0 /\ s.buf[a].fd = 0
<1> DEFINE h == [pid |-> s.buf[a].pid, opaque |-> a]
<1>1. s.buf[a].pid # 0 => h \in Registered(s.pid_handlers)
  BY DEF Owned
<1>2. h \in Registered(s.pid_handlers) => s.buf[h.opaque].state
  BY DEF Owned
<1>3. s.buf[a].pid = 0
  BY <1>1, <1>2
<1> QED  BY Zenon, <1>3 DEF Owned

LEMMA BufferFreed ==
    ASSUME NEW s \in State, NEW a \in Addr, NEW t \in eb_free(s, a)
    PROVE  /\ t \in State /\ t.crossed = s.crossed
           /\ Owned(s) /\ Live(s) => Owned(t) /\ Live(t)
<1> USE ShellsAssumption
<1>1. PICK r \in IF s.buf[a].state THEN shell_mode_free(s, a) ELSE {s} :
         t = [r EXCEPT !.buf[a] = NoBuf]
  BY Zenon DEF eb_free
<1>2. /\ r \in State /\ r.crossed = s.crossed
      /\ Owned(s) /\ Live(s) =>
            /\ Owned(r) /\ Live(r) /\ ~r.buf[a].state
            /\ r.buf[a].pid = 0 /\ r.buf[a].fd = 0
  <2>1. CASE s.buf[a].state
    <3>1. r \in shell_mode_free(s, a)
      BY <1>1, <2>1
    <3>2. Live(s) => LiveBut(s, a)
      BY DEF Live, LiveBut
    <3> QED  BY Zenon, <3>1, <3>2, ModeFreed
  <2>2. CASE ~s.buf[a].state
    <3>1. r = s
      BY <1>1, <2>2
    <3>2. Owned(s) => s.buf[a].pid = 0 /\ s.buf[a].fd = 0
      BY Zenon, <2>2, Stateless
    <3> QED  BY <2>2, <3>1, <3>2
  <2> QED  BY <2>1, <2>2
<1>3. t = [buf |-> [r.buf EXCEPT ![a] = NoBuf], proc |-> r.proc, pty |-> r.pty,
           read_cb |-> r.read_cb, pid_handlers |-> r.pid_handlers,
           crossed |-> r.crossed, leaked |-> r.leaked]
  <2>1. r \in State /\ t = [r EXCEPT !.buf[a] = NoBuf]
    BY Zenon, <1>1, <1>2
  <2> QED  BY ZenonT(60), <2>1 DEF State
<1>4. /\ NoBuf \in Buffer /\ NoBuf.pid = 0 /\ NoBuf.fd = 0
      /\ ~NoBuf.state
  BY SMTT(30), Z3T(30) DEF NoBuf, Buffer
<1>5. [r.buf EXCEPT ![a] = NoBuf] \in [Addr -> Buffer]
  BY SMTT(30), Z3T(30), <1>2, <1>4, StateFields
<1>6. t \in State
  BY <1>2, <1>3, <1>5, StateFields DEF State, Handler
<1>7. ASSUME Owned(s), Live(s)
      PROVE  Owned(t) /\ Live(t)
  <2>1. /\ Owned(r) /\ Live(r) /\ ~r.buf[a].state
        /\ r.buf[a].pid = 0 /\ r.buf[a].fd = 0
    BY Zenon, <1>2, <1>7
  <2>2. Replaces(r, t, a, NoBuf) /\ t.proc = r.proc
    BY <1>3, <1>4, <2>1 DEF Replaces
  <2> QED  BY Zenon, <1>2, <1>6, <2>1, <2>2, BufferReplaced
<1> QED  BY <1>2, <1>3, <1>6, <1>7

(* edit_set_mode and shell_pid_cb.                                         *)
LEMMA ModeSet ==
    ASSUME NEW s \in State, NEW a \in Addr, s.buf[a].kind # "none", Good(s)
    PROVE  /\ edit_set_mode(s, a) \in State /\ Good(edit_set_mode(s, a))
           /\ edit_set_mode(s, a).buf[a].kind # "none"
<1>1. edit_set_mode(s, a) \in {s, new_shell_buffer(s, a)}
  BY DEF edit_set_mode
<1> QED  BY <1>1, NewShell

LEMMA FreedGood ==
    ASSUME NEW s \in State, NEW a \in Addr, Good(s),
           NEW t \in shell_mode_free(s, a)
    PROVE  t \in State /\ Good(t)
<1>1. Live(s) => LiveBut(s, a)
  BY DEF Live, LiveBut
<1>2. /\ t \in State /\ t.crossed = s.crossed
      /\ Owned(s) /\ LiveBut(s, a) => Owned(t) /\ Live(t)
  BY Zenon, ModeFreed
<1> QED  BY <1>1, <1>2 DEF Good

LEMMA ProcessEnded ==
    ASSUME NEW s \in State, NEW a \in Addr, Owned(s), LiveBut(s, a),
           s.buf[a].state, s.buf[a].kind # "none",
           NEW t \in shell_pid_cb(s, a)
    PROVE  t \in State /\ Good(t)
<1> USE ShellsAssumption
<1> DEFINE b == s.buf[a]
           e == [b EXCEPT !.pid = 0, !.fd = 0]
           dropped == Closing(s, a, e)
           shown == IF b.kind # "filter" \/ b.windows = 0 THEN {dropped}
                    ELSE IF b.windows = 1 THEN {edit_set_mode(dropped, a)}
                    ELSE {edit_set_mode(u, a) : u \in {edit_set_mode(dropped, a)}}
<1>1. b \in Buffer
  BY SMTT(30), Z3T(30), StateFields
<1>2. /\ e \in Buffer /\ e.kind = b.kind /\ e.state
      /\ e.pid = 0 /\ e.fd = 0
  <2>1. e = [b EXCEPT !.pid = 0, !.fd = 0]
    OBVIOUS
  <2> HIDE DEF e
  <2>2. e = [kind |-> b.kind, state |-> b.state, pid |-> 0, fd |-> 0,
             empty |-> b.empty, windows |-> b.windows]
    BY Zenon, <1>1, <2>1 DEF Buffer
  <2>3. e \in Buffer
    BY <1>1, <2>2 DEF Buffer
  <2> QED  BY <2>2, <2>3
<1>3. dropped = [CloseFd(s, b.fd) EXCEPT
                    !.pid_handlers = DropPidHandler(@, b.pid),
                    !.buf[a] = [@ EXCEPT !.pid = 0, !.fd = 0]]
  BY ZenonT(60), ClosedBuffers DEF Closing
<1>4. t \in IF b.kind = "shell" THEN shown
           ELSE UNION {shell_mode_free(u, a) : u \in shown}
  BY Zenon, <1>3 DEF shell_pid_cb
<1>5. Shuts(s, a, e, s.proc, dropped)
  <2>1. s.proc \in [Pid -> {"none", "running", "zombie"}]
    BY StateFields
  <2> HIDE DEF e
  <2> QED  BY Zenon, <1>2, <2>1 DEF Shuts
<1> HIDE DEF e, dropped
<1>6. Shut(s, a, e, s.proc, dropped)
  BY Zenon, <1>5, Released
<1>7. dropped \in State /\ Good(dropped) /\ dropped.buf[a].kind # "none"
  BY <1>2, <1>6 DEF Shut, Good
<1>8. \A u \in shown : u \in State /\ Good(u)
  <2>1. /\ edit_set_mode(dropped, a) \in State
        /\ Good(edit_set_mode(dropped, a))
        /\ edit_set_mode(dropped, a).buf[a].kind # "none"
    BY Zenon, <1>7, ModeSet
  <2> DEFINE v == edit_set_mode(dropped, a)
  <2> HIDE DEF v
  <2>2. edit_set_mode(v, a) \in State /\ Good(edit_set_mode(v, a))
    BY Zenon, <2>1, ModeSet DEF v
  <2>3. shown \subseteq {dropped, v, edit_set_mode(v, a)}
    BY Zenon DEF v
  <2> HIDE DEF shown
  <2> QED  BY Zenon, <1>7, <2>1, <2>2, <2>3 DEF v
<1> HIDE DEF shown
<1>9. CASE b.kind = "shell"
  BY <1>4, <1>8, <1>9
<1>10. CASE b.kind # "shell"
  <2>1. PICK u \in shown : t \in shell_mode_free(u, a)
    BY Zenon, <1>4, <1>10
  <2> QED  BY Zenon, <1>8, <2>1, FreedGood
<1> QED  BY <1>9, <1>10

-----------------------------------------------------------------------------
(* The commands.                                                           *)
LEMMA BufferCreated ==
    ASSUME NEW s \in State, NEW a \in Addr, Good(s), s.buf[a].kind = "none",
           NEW kind \in {"shell", "filter", "command"}
    PROVE  /\ Created(s, a, kind) \in State /\ Good(Created(s, a, kind))
           /\ Created(s, a, kind).buf[a].kind = kind
<1> USE ShellsAssumption
<1> DEFINE e == [NoBuf EXCEPT !.kind = kind, !.windows = 1,
                              !.empty = (kind = "filter")]
           t == Created(s, a, kind)
<1>1. /\ e \in Buffer /\ e.kind = kind /\ e.pid = 0 /\ e.fd = 0 /\ ~e.state
  <2>1. e = [NoBuf EXCEPT !.kind = kind, !.windows = 1, !.empty = (kind = "filter")]
    OBVIOUS
  <2> HIDE DEF e
  <2>2. e = [kind |-> kind, state |-> FALSE, pid |-> 0, fd |-> 0,
             empty |-> (kind = "filter"), windows |-> 1]
    BY Zenon, <2>1 DEF NoBuf
  <2>3. e \in Buffer
    BY <2>2 DEF Buffer
  <2> QED  BY <2>2, <2>3
<1>2. t = [s EXCEPT !.buf[a] = e]
  BY Zenon DEF Created
<1> HIDE DEF e, t
<1>3. t = [buf |-> [s.buf EXCEPT ![a] = e], proc |-> s.proc, pty |-> s.pty,
           read_cb |-> s.read_cb, pid_handlers |-> s.pid_handlers,
           crossed |-> s.crossed, leaked |-> s.leaked]
  BY ZenonT(60), <1>2 DEF State
<1>4. [s.buf EXCEPT ![a] = e] \in [Addr -> Buffer]
  BY Zenon, <1>1, StateFields
<1>5. t \in State
  BY Zenon, <1>3, <1>4, StateFields DEF State, Handler
<1>6. t.buf[a] = e
  BY <1>3, StateFields
<1>7. ASSUME Owned(s), Live(s)
      PROVE  Owned(t) /\ Live(t)
  <2>1. ~s.buf[a].state
    BY Zenon, <1>7 DEF Owned
  <2>2. s.buf[a].pid = 0 /\ s.buf[a].fd = 0
    BY Zenon, <1>7, <2>1, Stateless
  <2>3. Replaces(s, t, a, e) /\ t.proc = s.proc
    BY SMTT(30), Z3T(30), <1>1, <1>3, <2>1, <2>2 DEF Replaces
  <2> QED  BY Zenon, <1>5, <1>7, <2>3, BufferReplaced
<1>8. Good(t)
  BY <1>3, <1>7 DEF Good
<1> QED  BY <1>1, <1>5, <1>6, <1>8 DEF t

LEMMA Started ==
    ASSUME NEW s \in State, Good(s), NEW a \in FreeAddrs(s),
           NEW kind \in {"shell", "filter", "command"}
    PROVE  /\ StartIn(s, a, kind) \in State /\ Good(StartIn(s, a, kind))
           /\ new_shell_buffer(Created(s, a, kind), a) \in State
           /\ Good(new_shell_buffer(Created(s, a, kind), a))
<1> DEFINE u == Created(s, a, kind)
<1>1. a \in Addr /\ s.buf[a].kind = "none"
  BY DEF FreeAddrs
<1>2. u \in State /\ Good(u) /\ u.buf[a].kind = kind
  BY Zenon, <1>1, BufferCreated
<1>3. u.buf[a].kind # "none"
  BY <1>2
<1> HIDE DEF u
<1>4. new_shell_buffer(u, a) \in State /\ Good(new_shell_buffer(u, a))
  BY Zenon, <1>1, <1>2, <1>3, NewShell
<1>5. StartIn(s, a, kind) \in {run_process_fails(s), new_shell_buffer(u, a)}
  BY DEF StartIn, u
<1>6. run_process_fails(s) \in State /\ Good(run_process_fails(s))
  BY Zenon, RunFails DEF Good
<1> QED  BY Zenon, <1>4, <1>5, <1>6 DEF u

(* A buffer changes its kind or its windows, not its process.              *)
Changes(s, a, c, t) ==
    /\ t = [s EXCEPT !.buf[a] = c]
    /\ c \in Buffer /\ c.kind # "none"
    /\ s.buf[a].state => c.state
    /\ c.pid = s.buf[a].pid /\ c.fd = s.buf[a].fd

LEMMA BufferChanged ==
    ASSUME NEW s \in State, NEW a \in Addr, Good(s), NEW c, NEW t,
           Changes(s, a, c, t)
    PROVE  t \in State /\ Good(t) /\ t.buf[a] = c
<1>1. t = [buf |-> [s.buf EXCEPT ![a] = c], proc |-> s.proc, pty |-> s.pty,
           read_cb |-> s.read_cb, pid_handlers |-> s.pid_handlers,
           crossed |-> s.crossed, leaked |-> s.leaked]
  BY DEF State, Changes
<1>2. [s.buf EXCEPT ![a] = c] \in [Addr -> Buffer]
  BY StateFields DEF Changes
<1>3. t \in State
  BY Zenon, <1>1, <1>2, StateFields DEF State, Handler
<1>4. t.buf[a] = c
  BY Zenon, <1>1, StateFields
<1>5. Replaces(s, t, a, c) /\ t.proc = s.proc
  <2>1. /\ t.buf = [s.buf EXCEPT ![a] = c] /\ t.read_cb = s.read_cb
        /\ t.pid_handlers = s.pid_handlers /\ t.proc = s.proc /\ t.pty = s.pty
        /\ t.leaked = s.leaked
    BY <1>1
  <2>2. /\ c \in Buffer /\ c.kind # "none" /\ (s.buf[a].state => c.state)
        /\ c.pid = s.buf[a].pid /\ c.fd = s.buf[a].fd
    BY DEF Changes
  <2> QED  BY <2>1, <2>2 DEF Replaces
<1>6. Owned(s) /\ Live(s) => Owned(t) /\ Live(t)
  BY Zenon, <1>3, <1>5, BufferReplaced
<1> QED  BY <1>1, <1>3, <1>4, <1>6 DEF Good

LEMMA KindChanged ==
    ASSUME NEW s \in State, NEW a \in Addr, Good(s)
    PROVE  /\ [s EXCEPT !.buf[a].kind = "shell"] \in State
           /\ Good([s EXCEPT !.buf[a].kind = "shell"])
           /\ [s EXCEPT !.buf[a].kind = "shell"].buf[a].kind # "none"
<1> DEFINE c == [s.buf[a] EXCEPT !.kind = "shell"]
           t == [s EXCEPT !.buf[a] = c]
<1>1. s.buf[a] \in Buffer
  BY StateFields
<1>2. /\ c \in Buffer /\ c.kind = "shell" /\ (s.buf[a].state => c.state)
      /\ c.pid = s.buf[a].pid /\ c.fd = s.buf[a].fd
  <2>1. c = [s.buf[a] EXCEPT !.kind = "shell"]
    OBVIOUS
  <2> HIDE DEF c
  <2>2. c = [kind |-> "shell", state |-> s.buf[a].state, pid |-> s.buf[a].pid,
             fd |-> s.buf[a].fd, empty |-> s.buf[a].empty,
             windows |-> s.buf[a].windows]
    BY SMTT(30), Z3T(30), <1>1, <2>1 DEF Buffer
  <2>3. c \in Buffer
    BY <1>1, <2>2 DEF Buffer
  <2> QED  BY <2>2, <2>3
<1>3. [s EXCEPT !.buf[a].kind = "shell"] = t
  BY Zenon
<1> HIDE DEF c
<1>4. t = [s EXCEPT !.buf[a] = c] /\ c.kind # "none"
  BY <1>2
<1> HIDE DEF t
<1>5. t \in State /\ Good(t) /\ t.buf[a] = c
  <2>1. Changes(s, a, c, t)
    BY Zenon, <1>2, <1>4 DEF Changes
  <2> QED  BY <2>1, BufferChanged
<1> QED  BY <1>3, <1>4, <1>5

LEMMA WindowsChanged ==
    ASSUME NEW s \in State, NEW a \in Addr, Good(s), s.buf[a].kind # "none",
           NEW n \in 0..2
    PROVE  /\ [s EXCEPT !.buf[a].windows = n] \in State
           /\ Good([s EXCEPT !.buf[a].windows = n])
<1> DEFINE c == [s.buf[a] EXCEPT !.windows = n]
           t == [s EXCEPT !.buf[a] = c]
<1>1. s.buf[a] \in Buffer
  BY StateFields
<1>2. /\ c \in Buffer /\ c.kind # "none" /\ (s.buf[a].state => c.state)
      /\ c.pid = s.buf[a].pid /\ c.fd = s.buf[a].fd
  <2>1. c = [s.buf[a] EXCEPT !.windows = n]
    OBVIOUS
  <2> HIDE DEF c
  <2>2. c = [kind |-> s.buf[a].kind, state |-> s.buf[a].state,
             pid |-> s.buf[a].pid, fd |-> s.buf[a].fd,
             empty |-> s.buf[a].empty, windows |-> n]
    BY <1>1, <2>1 DEF Buffer
  <2>3. c \in Buffer
    BY <1>1, <2>2 DEF Buffer
  <2> QED  BY <2>2, <2>3
<1>3. [s EXCEPT !.buf[a].windows = n] = t
  BY Zenon
<1> HIDE DEF c
<1>4. t = [s EXCEPT !.buf[a] = c]
  OBVIOUS
<1> HIDE DEF t
<1>5. t \in State /\ Good(t)
  <2>1. Changes(s, a, c, t)
    BY Zenon, <1>2, <1>4 DEF Changes
  <2> QED  BY Zenon, <2>1, BufferChanged
<1> QED  BY Zenon, <1>3, <1>5

(* A process starts, ends or is waited for; no buffer changes.             *)
Becomes(s, p, x, t) ==
    /\ p \in Pid /\ x \in {"none", "running", "zombie"}
    /\ t = [s EXCEPT !.proc[p] = x]
Became(s, p, x, t) ==
    /\ t \in State /\ t.buf = s.buf /\ t.crossed = s.crossed
    /\ t.pid_handlers = s.pid_handlers
    /\ t.proc = [s.proc EXCEPT ![p] = x]
    /\ Owned(s) => Owned(t)
    /\ x # "none" /\ Good(s) => Good(t)

LEMMA ProcessChanged ==
    ASSUME NEW s \in State, NEW p, NEW x, NEW t, Becomes(s, p, x, t)
    PROVE  Became(s, p, x, t)
<1>1. p \in Pid /\ x \in {"none", "running", "zombie"}
  BY DEF Becomes
<1>2. t = [buf |-> s.buf, proc |-> [s.proc EXCEPT ![p] = x], pty |-> s.pty,
           read_cb |-> s.read_cb, pid_handlers |-> s.pid_handlers,
           crossed |-> s.crossed, leaked |-> s.leaked]
  BY ZenonT(60) DEF State, Becomes
<1>3. t \in State
  <2>1. [s.proc EXCEPT ![p] = x] \in [Pid -> {"none", "running", "zombie"}]
    BY <1>1, StateFields
  <2> QED  BY <1>2, <2>1, StateFields DEF State, Handler
<1>4. /\ t.buf = s.buf /\ t.crossed = s.crossed /\ t.pty = s.pty
      /\ t.read_cb = s.read_cb /\ t.pid_handlers = s.pid_handlers
      /\ t.proc = [s.proc EXCEPT ![p] = x] /\ t.leaked = s.leaked
  BY Zenon, <1>2
<1>5. ASSUME Owned(s)
      PROVE  Owned(t)
  <2>1. /\ t.buf = s.buf /\ t.read_cb = s.read_cb
        /\ t.pid_handlers = s.pid_handlers
        /\ \A g \in Fd : t.pty[g].pid = s.pty[g].pid
    BY Zenon, <1>4
  <2>2. \A g \in t.leaked : t.pty[g].pid = 0
    <3>1. \A g \in s.leaked : s.pty[g].pid = 0
      BY Zenon, <1>5 DEF Owned
    <3> QED  BY Zenon, <1>4, <3>1
  <2> QED  BY Zenon, <1>5, <2>1, <2>2, OwnedAlike
<1>6. ASSUME x # "none", Live(s)
      PROVE  Live(t)
  <2>1. ASSUME NEW c \in Addr, s.buf[c].pid # 0
        PROVE  t.proc[s.buf[c].pid] # "none"
    <3>1. s.buf[c].pid \in Pid
      BY <2>1, ShellsAssumption, StateFields DEF Buffer, Pid
    <3>2. s.proc[s.buf[c].pid] # "none"
      BY <1>6, <2>1 DEF Live
    <3> QED  BY <1>4, <1>6, <3>1, <3>2, StateFields
  <2>2. t.buf = s.buf
    BY <1>4
  <2> QED  BY SMTT(30), Z3T(30), <2>1, <2>2 DEF Live
<1> QED  BY <1>3, <1>4, <1>5, <1>6 DEF Good, Became

-----------------------------------------------------------------------------
(* The commands keep the invariant.                                        *)
LEMMA ShellCommands ==
    ASSUME q \in State, Good(q), NEW t,
           \/ t \in do_shell_new \/ t \in do_shell \/ t \in do_shell_command
           \/ t \in do_find_file
    PROVE  t \in State /\ Good(t)
<1>1. CASE t \in do_shell_new
  <2>1. PICK a \in FreeAddrs(q) : t = StartIn(q, a, "shell")
    BY <1>1 DEF do_shell_new
  <2>2. "shell" \in {"shell", "filter", "command"}
    OBVIOUS
  <2> QED  BY Zenon, <2>1, <2>2, Started
<1>2. CASE t \in do_shell
  <2>1. PICK a \in Addr :
           t = new_shell_buffer([q EXCEPT !.buf[a].kind = "shell"], a)
    BY Zenon, <1>2 DEF do_shell
  <2> DEFINE u == [q EXCEPT !.buf[a].kind = "shell"]
  <2>2. u \in State /\ Good(u) /\ u.buf[a].kind # "none"
    BY KindChanged
  <2>3. t = new_shell_buffer(u, a)
    BY <2>1
  <2> HIDE DEF u
  <2> QED  BY Zenon, <2>2, <2>3, NewShell
<1>3. CASE t \in do_shell_command
  <2> DEFINE old == {a \in Addr : q.buf[a].kind = "command"}
             left == IF old = {} THEN {q} ELSE UNION {eb_free(q, a) : a \in old}
  <2>1. PICK s \in left : \E a \in FreeAddrs(s) : t = StartIn(s, a, "command")
    BY Zenon, <1>3 DEF do_shell_command
  <2>2. s \in State /\ Good(s)
    <3>1. CASE s = q
      BY <3>1
    <3>2. CASE s # q
      <4>1. PICK c \in Addr : s \in eb_free(q, c)
        BY Zenon, <3>2
      <4>2. /\ s \in State /\ s.crossed = q.crossed
            /\ Owned(q) /\ Live(q) => Owned(s) /\ Live(s)
        BY Zenon, <4>1, BufferFreed
      <4> QED  BY <4>2 DEF Good
    <3> QED  BY <3>1, <3>2
  <2>3. "command" \in {"shell", "filter", "command"}
    OBVIOUS
  <2> QED  BY Zenon, <2>1, <2>2, <2>3, Started
<1>4. CASE t \in do_find_file
  <2>1. PICK a \in FreeAddrs(q) : t = new_shell_buffer(Created(q, a, "filter"), a)
    BY <1>4 DEF do_find_file
  <2>2. "filter" \in {"shell", "filter", "command"}
    OBVIOUS
  <2> QED  BY Zenon, <2>1, <2>2, Started
<1> QED  BY <1>1, <1>2, <1>3, <1>4

LEMMA OtherCommands ==
    ASSUME q \in State, Good(q), NEW t,
           \/ t \in do_set_mode \/ t \in do_split_window \/ t \in do_kill_buffer
           \/ t \in latex_fork
    PROVE  t \in State /\ Good(t)
<1>1. CASE t \in do_set_mode
  <2>1. PICK a \in Addr : q.buf[a].kind = "filter" /\ t = edit_set_mode(q, a)
    BY Zenon, <1>1 DEF do_set_mode, Filters
  <2>2. q.buf[a].kind # "none"
    BY <2>1
  <2> QED  BY Zenon, <2>1, <2>2, ModeSet
<1>2. CASE t \in do_split_window
  <2>1. PICK a \in Addr, n \in 0..2 :
           q.buf[a].kind = "filter" /\ t = [q EXCEPT !.buf[a].windows = n]
    <3>1. PICK a \in Filters, n \in 0..2 : t = [q EXCEPT !.buf[a].windows = n]
      BY <1>2 DEF do_split_window
    <3> QED  BY Zenon, <3>1 DEF Filters
  <2>2. q.buf[a].kind # "none"
    BY <2>1
  <2>3. /\ [q EXCEPT !.buf[a].windows = n] \in State
        /\ Good([q EXCEPT !.buf[a].windows = n])
    BY Zenon, <2>2, WindowsChanged
  <2> QED  BY Zenon, <2>1, <2>3
<1>3. CASE t \in do_kill_buffer
  <2>1. PICK c \in Addr : t \in eb_free(q, c)
    BY Zenon, <1>3 DEF do_kill_buffer
  <2>2. /\ t \in State /\ t.crossed = q.crossed
        /\ Owned(q) /\ Live(q) => Owned(t) /\ Live(t)
    BY Zenon, <2>1, BufferFreed
  <2> QED  BY <2>2 DEF Good
<1>4. CASE t \in latex_fork
  <2>1. PICK p \in FreePids(q) : t = [q EXCEPT !.proc[p] = "running"]
    <3>1. FreePids(q) \in SUBSET Nat
      BY DEF FreePids, Pid
    <3>2. PICK p \in {Min(FreePids(q))} :
             FreePids(q) # {} /\ t = [q EXCEPT !.proc[p] = "running"]
      BY <1>4 DEF latex_fork
    <3> QED  BY Zenon, <3>1, <3>2, MinIn
  <2> DEFINE x == "running"
  <2>2. p \in Pid /\ x \in {"none", "running", "zombie"} /\ x # "none"
    BY <2>1 DEF FreePids
  <2>3. Becomes(q, p, x, t)
    BY <2>1, <2>2 DEF Becomes
  <2> HIDE DEF x
  <2>4. Became(q, p, x, t)
    BY Zenon, <2>3, ProcessChanged
  <2> QED  BY Zenon, <2>2, <2>4 DEF Became
<1> QED  BY <1>1, <1>2, <1>3, <1>4

(* The terminals.                                                          *)
Fills(s, f, n, t) ==
    f \in Fd /\ n \in 0..MaxUnread /\ t = [s EXCEPT !.pty[f].unread = n]

LEMMA Filled ==
    ASSUME NEW s \in State, NEW f, NEW n, NEW t, Good(s), Fills(s, f, n, t)
    PROVE  t \in State /\ Good(t) /\ t.buf = s.buf
<1> DEFINE x == [s.pty[f] EXCEPT !.unread = n]
<1>1. f \in Fd /\ n \in 0..MaxUnread
  BY DEF Fills
<1>2. t = [s EXCEPT !.pty[f] = x]
  BY Zenon DEF Fills
<1>3. x \in [pid : 0..MaxPid, unread : 0..MaxUnread] /\ x.pid = s.pty[f].pid
  <2>1. s.pty[f] \in [pid : 0..MaxPid, unread : 0..MaxUnread]
    BY <1>1, StateFields
  <2>2. x = [s.pty[f] EXCEPT !.unread = n]
    OBVIOUS
  <2> HIDE DEF x
  <2>3. x = [pid |-> s.pty[f].pid, unread |-> n]
    BY <2>1, <2>2
  <2> QED  BY <1>1, <2>1, <2>3
<1> HIDE DEF x
<1>4. t = [buf |-> s.buf, proc |-> s.proc, pty |-> [s.pty EXCEPT ![f] = x],
           read_cb |-> s.read_cb, pid_handlers |-> s.pid_handlers,
           crossed |-> s.crossed, leaked |-> s.leaked]
  BY ZenonT(60), <1>2 DEF State
<1>5. [s.pty EXCEPT ![f] = x] \in [Fd -> [pid : 0..MaxPid, unread : 0..MaxUnread]]
  BY Zenon, <1>1, <1>3, StateFields
<1>6. t \in State
  BY Zenon, <1>4, <1>5, StateFields DEF State, Handler
<1>7. /\ t.buf = s.buf /\ t.read_cb = s.read_cb /\ t.proc = s.proc
      /\ t.pid_handlers = s.pid_handlers /\ t.crossed = s.crossed
      /\ t.leaked = s.leaked /\ s.leaked \in SUBSET Fd
  BY Zenon, <1>4, StateFields
<1>8. \A g \in Fd : t.pty[g].pid = s.pty[g].pid
  BY <1>1, <1>3, <1>4, StateFields
<1>9. ASSUME Owned(s)
      PROVE  Owned(t)
  <2>1. \A g \in t.leaked : t.pty[g].pid = 0
    <3>1. \A g \in s.leaked : s.pty[g].pid = 0
      BY Zenon, <1>9 DEF Owned
    <3> QED  BY <1>7, <1>8, <3>1
  <2> QED  BY Zenon, <1>7, <1>8, <1>9, <2>1, OwnedAlike
<1>10. Live(s) => Live(t)
  BY <1>7 DEF Live
<1> QED  BY <1>6, <1>7, <1>9, <1>10 DEF Good

(* What shell_read_cb puts into the buffer.                                *)
LEMMA TextRead ==
    ASSUME NEW s \in State, NEW a \in Addr, Good(s), s.buf[a].kind # "none"
    PROVE  /\ [s EXCEPT !.buf[a].empty = FALSE] \in State
           /\ Good([s EXCEPT !.buf[a].empty = FALSE])
<1> DEFINE c == [s.buf[a] EXCEPT !.empty = FALSE]
           t == [s EXCEPT !.buf[a] = c]
<1>1. s.buf[a] \in Buffer
  BY SMTT(30), Z3T(30), StateFields
<1>2. /\ c \in Buffer /\ c.kind # "none" /\ (s.buf[a].state => c.state)
      /\ c.pid = s.buf[a].pid /\ c.fd = s.buf[a].fd
  <2>1. c = [s.buf[a] EXCEPT !.empty = FALSE]
    OBVIOUS
  <2> HIDE DEF c
  <2>2. c = [kind |-> s.buf[a].kind, state |-> s.buf[a].state,
             pid |-> s.buf[a].pid, fd |-> s.buf[a].fd,
             empty |-> FALSE, windows |-> s.buf[a].windows]
    BY Zenon, <1>1, <2>1 DEF Buffer
  <2>3. c \in Buffer
    BY <1>1, <2>2 DEF Buffer
  <2> QED  BY <2>2, <2>3
<1>3. [s EXCEPT !.buf[a].empty = FALSE] = t
  BY Zenon
<1> HIDE DEF c
<1>4. t = [s EXCEPT !.buf[a] = c]
  OBVIOUS
<1> HIDE DEF t
<1>5. Changes(s, a, c, t)
  BY Zenon, <1>2, <1>4 DEF Changes
<1>6. t \in State /\ Good(t)
  BY <1>5, BufferChanged
<1> QED  BY Zenon, <1>3, <1>6

LEMMA OutputTaken ==
    ASSUME TypeOK, Good(q), ~q.crossed, shell_read_cb
    PROVE  q' \in State /\ Good(q') /\ broken' = broken
<1>1. q \in State /\ Owned(q) /\ Live(q)
  BY DEF TypeOK, Good
<1>2. PICK f \in Fd :
         LET a == q.read_cb[f]
             own == q.buf[a].fd
             unread == IF own = 0 THEN 0 ELSE q.pty[own].unread
         IN /\ Calling(f) /\ a # 0
            /\ Called(f)
            /\ IF ~q.buf[a].state
               THEN broken' = TRUE /\ UNCHANGED q
               ELSE /\ q' \in IF unread = 0 THEN {q}
                              ELSE {[q EXCEPT !.pty[own].unread = left,
                                              !.buf[a].empty = FALSE] :
                                       left \in 0..(unread - 1)}
                    /\ UNCHANGED broken
  BY ZenonT(40) DEF shell_read_cb
<1> DEFINE a == q.read_cb[f]
           unread == q.pty[f].unread
<1>3. a \in Addr /\ q.buf[a].state /\ q.buf[a].fd = f
  <2>1. a # 0 /\ a \in Addr \cup {0}
    BY Zenon, <1>1, <1>2, StateFields
  <2> QED  BY <1>1, <2>1 DEF Owned
<1>4. q.buf[a].kind # "none"
  BY Zenon, <1>1, <1>3 DEF Owned
<1>5. f # 0 /\ unread \in 0..MaxUnread
  <2>1. q.pty[f] \in [pid : 0..MaxPid, unread : 0..MaxUnread]
    BY SMTT(30), Z3T(30), <1>1, StateFields
  <2> QED  BY <2>1, ShellsAssumption DEF Fd
<1>6. /\ broken' = broken
      /\ \/ q' = q
         \/ \E left \in 0..(unread - 1) :
               q' = [q EXCEPT !.pty[f].unread = left, !.buf[a].empty = FALSE]
  <2> DEFINE own == q.buf[a].fd
             R(o) == q' \in IF (IF o = 0 THEN 0 ELSE q.pty[o].unread) = 0 THEN {q}
                            ELSE {[q EXCEPT !.pty[o].unread = left,
                                            !.buf[a].empty = FALSE] :
                                     left \in 0..((IF o = 0 THEN 0
                                                  ELSE q.pty[o].unread) - 1)}
  <2>1. R(own) /\ broken' = broken
    BY Zenon, <1>2, <1>3
  <2> HIDE DEF R
  <2>2. R(f)
    BY <1>3, <2>1
  <2>3. (IF f = 0 THEN 0 ELSE q.pty[f].unread) = unread
    BY <1>5
  <2>4. CASE unread = 0
    BY Zenon, <2>1, <2>2, <2>3, <2>4 DEF R
  <2>5. CASE unread # 0
    <3>1. q' \in {[q EXCEPT !.pty[f].unread = left, !.buf[a].empty = FALSE] :
                     left \in 0..(unread - 1)}
      BY Zenon, <2>2, <2>3, <2>5 DEF R
    <3> QED  BY Zenon, <2>1, <3>1
  <2> QED  BY <2>4, <2>5
<1>7. CASE q' = q
  BY <1>1, <1>6, <1>7
<1>8. CASE \E left \in 0..(unread - 1) :
               q' = [q EXCEPT !.pty[f].unread = left, !.buf[a].empty = FALSE]
  <2>1. PICK left \in 0..(unread - 1) :
               q' = [q EXCEPT !.pty[f].unread = left, !.buf[a].empty = FALSE]
    BY <1>8
  <2> DEFINE u == [q EXCEPT !.pty[f].unread = left]
  <2>2. Fills(q, f, left, u)
    <3>1. left \in 0..MaxUnread
      BY <1>5, <2>1, ShellsAssumption
    <3> QED  BY <3>1 DEF Fills
  <2>3. q' = [u EXCEPT !.buf[a].empty = FALSE]
    BY <2>1
  <2> HIDE DEF u
  <2>4. u \in State /\ Good(u) /\ u.buf = q.buf
    BY Zenon, <1>1, <2>2, Filled
  <2>5. u.buf[a].kind # "none"
    BY <1>4, <2>4
  <2>6. /\ [u EXCEPT !.buf[a].empty = FALSE] \in State
        /\ Good([u EXCEPT !.buf[a].empty = FALSE])
    BY <1>3, <2>4, <2>5, TextRead
  <2> QED  BY ZenonT(40), ZenonT(40), <1>6, <2>3, <2>6
<1> QED  BY Zenon, <1>6, <1>7, <1>8

(* A child that waitpid reports.                                           *)
LEMMA ChildWaited ==
    ASSUME TypeOK, Good(q), ~q.crossed, url_block_wait
    PROVE  q' \in State /\ Good(q')
<1>1. q \in State /\ Owned(q) /\ Live(q) /\ q.pid_handlers \in Seq(Handler)
  BY StateFields DEF TypeOK, Good
<1>2. PICK p \in Zombies :
         q' \in IF HandlersOf(q.pid_handlers, p) = {} THEN {[q EXCEPT !.proc[p] = "none"]}
               ELSE shell_pid_cb([q EXCEPT !.proc[p] = "none"],
                       q.pid_handlers[Min(HandlersOf(q.pid_handlers, p))].opaque)
  BY Zenon DEF url_block_wait
<1> DEFINE is == HandlersOf(q.pid_handlers, p)
           reaped == [q EXCEPT !.proc[p] = "none"]
           x == "none"
<1>3. p \in Pid
  BY DEF Zombies
<1>4. Becomes(q, p, x, reaped)
  BY <1>3 DEF Becomes
<1>5. q' \in IF is = {} THEN {reaped}
            ELSE shell_pid_cb(reaped, q.pid_handlers[Min(is)].opaque)
  BY <1>2
<1> HIDE DEF reaped, x
<1>6. Became(q, p, x, reaped)
  BY Zenon, <1>1, <1>4, ProcessChanged
<1>7. /\ reaped \in State /\ Owned(reaped) /\ reaped.buf = q.buf
      /\ reaped.proc = [q.proc EXCEPT ![p] = x]
  BY Zenon, <1>1, <1>6 DEF Became
<1>8. \A c \in Addr : q.buf[c].pid # 0 /\ q.buf[c].pid # p =>
                       reaped.proc[q.buf[c].pid] # "none"
  <2> SUFFICES ASSUME NEW c \in Addr, q.buf[c].pid # 0, q.buf[c].pid # p
               PROVE  reaped.proc[q.buf[c].pid] # "none"
    OBVIOUS
  <2>1. q.buf[c].pid \in Pid
    BY <1>1, ShellsAssumption, StateFields DEF Buffer, Pid
  <2>2. q.proc[q.buf[c].pid] # "none"
    BY <1>1 DEF Live
  <2> QED  BY <1>1, <1>7, <2>1, <2>2, StateFields
<1>9. CASE is = {}
  <2>1. q' = reaped
    BY <1>5, <1>9
  <2>2. \A c \in Addr : q.buf[c].pid # 0 => q.buf[c].pid # p
    <3> SUFFICES ASSUME NEW c \in Addr, q.buf[c].pid # 0, q.buf[c].pid = p
                 PROVE  FALSE
      BY Zenon
    <3>1. [pid |-> q.buf[c].pid, opaque |-> c] \in Registered(q.pid_handlers)
      BY <1>1 DEF Owned
    <3>2. PICK i \in DOMAIN q.pid_handlers :
             q.pid_handlers[i] = [pid |-> q.buf[c].pid, opaque |-> c]
      BY <3>1 DEF Registered
    <3>3. i \in is
      BY <3>2 DEF HandlersOf
    <3> QED  BY <1>9, <3>3
  <2>3. Live(reaped)
    BY <1>7, <1>8, <2>2 DEF Live
  <2> QED  BY <1>7, <2>1, <2>3 DEF Good
<1>10. CASE is # {}
  <2> DEFINE i == Min(is)
             a == q.pid_handlers[i].opaque
  <2>1. i \in is
    <3>1. is \in SUBSET Nat
      BY <1>1 DEF HandlersOf
    <3> QED  BY <1>10, <3>1, MinIn
  <2> HIDE DEF i
  <2>2. i \in DOMAIN q.pid_handlers /\ q.pid_handlers[i].pid = p
    BY <2>1 DEF HandlersOf
  <2>3. q.pid_handlers[i] \in Registered(q.pid_handlers)
    BY <2>2 DEF Registered
  <2>4. a \in Addr
    <3>1. q.pid_handlers[i] \in Handler
      BY SMTT(30), Z3T(30), <1>1, <2>3, StateFields
    <3> QED  BY <3>1 DEF Handler
  <2>5. q.buf[a].state /\ q.buf[a].pid = p
    BY <1>1, <2>2, <2>3 DEF Owned
  <2>6. q.buf[a].kind # "none"
    BY Zenon, <1>1, <2>4, <2>5 DEF Owned
  <2>7. p # 0
    BY <1>3 DEF Pid
  <2>8. ASSUME NEW c \in Addr, c # a
        PROVE  q.buf[c].pid # p
    <3> HIDE DEF a
    <3> QED  BY Zenon, <1>1, <2>4, <2>5, <2>7, <2>8, PidsDistinct
  <2>9. LiveBut(reaped, a)
    BY SMTT(30), Z3T(30), <1>7, <1>8, <2>8 DEF LiveBut
  <2>10. reaped.buf[a].state /\ reaped.buf[a].kind # "none"
    BY <1>7, <2>5, <2>6
  <2>11. q' \in shell_pid_cb(reaped, a)
    BY Zenon, <1>5, <1>10 DEF i
  <2> HIDE DEF a
  <2> QED  BY Zenon, <1>7, <2>4, <2>9, <2>10, <2>11, ProcessEnded
<1> QED  BY <1>9, <1>10

-----------------------------------------------------------------------------
(* The invariant.                                                          *)
LEMMA InitInv == Init => ShellsInv
<1> SUFFICES ASSUME Init
             PROVE  ShellsInv
  BY Zenon
<1> USE ShellsAssumption DEF Init
<1>1. NoBuf \in Buffer /\ NoBuf.pid = 0 /\ NoBuf.fd = 0 /\ ~NoBuf.state
  BY DEF NoBuf, Buffer
<1>2. NoPty \in [pid : 0..MaxPid, unread : 0..MaxUnread] /\ NoPty.pid = 0
  BY DEF NoPty
<1>3. /\ q.buf = [a \in Addr |-> NoBuf] /\ q.pid_handlers = <<>>
      /\ q.read_cb = [f \in Fd |-> 0] /\ q.pty = [f \in Fd |-> NoPty]
      /\ q.leaked = {}
  BY Zenon
<1>4. q \in State
  BY SMTT(30), Z3T(30), <1>1, <1>2 DEF State
<1>5. loop \in [pc : {"select", "fds", "wait"}, rfds : SUBSET (0..MaxFd)]
  OBVIOUS
<1>6. Registered(q.pid_handlers) = {} /\ OnePerPid(q.pid_handlers)
  BY SMTT(30), Z3T(30), <1>3 DEF Registered, OnePerPid
<1>7. Owned(q)
  BY Zenon, <1>1, <1>2, <1>3, <1>6 DEF Owned
<1>8. Live(q)
  BY <1>1, <1>3 DEF Live
<1> QED  BY Zenon, <1>4, <1>5, <1>7, <1>8 DEF ShellsInv, TypeOK, Good

LEMMA NextInv == ShellsInv /\ [Next]_vars => ShellsInv'
<1> SUFFICES ASSUME ShellsInv, [Next]_vars
             PROVE  ShellsInv'
  OBVIOUS
<1> USE ShellsAssumption
<1>1. q \in State /\ Good(q) /\ TypeOK /\ ~broken
  BY DEF ShellsInv, TypeOK
<1>2. loop \in [pc : {"select", "fds", "wait"}, rfds : SUBSET (0..MaxFd)]
  BY ZenonT(40), <1>1 DEF TypeOK
<1>3. ASSUME q' \in State, Good(q'), broken' = broken,
             loop' \in [pc : {"select", "fds", "wait"}, rfds : SUBSET (0..MaxFd)]
      PROVE  ShellsInv'
  BY <1>1, <1>3 DEF ShellsInv, TypeOK, Good, Owned, Live
<1>4. ASSUME NEW f, Called(f)
      PROVE  loop' \in [pc : {"select", "fds", "wait"}, rfds : SUBSET (0..MaxFd)]
  <2>1. loop' = [pc |-> loop.pc, rfds |-> loop.rfds \ {f}]
    BY <1>2, <1>4 DEF Called
  <2> QED  BY <1>2, <2>1
<1>5. CASE UNCHANGED vars
  BY <1>1, <1>2, <1>3, <1>5 DEF vars
<1>6. CASE url_block_select
  <2>1. loop' \in [pc : {"select", "fds", "wait"}, rfds : SUBSET (0..MaxFd)]
    BY <1>6 DEF url_block_select, Fd
  <2> QED  BY <1>1, <1>3, <1>6, <2>1 DEF url_block_select
<1>7. CASE url_block_skip
  BY <1>1, <1>3, <1>4, <1>7 DEF url_block_skip
<1>8. CASE shell_read_cb
  <2>1. ~q.crossed
    BY <1>8 DEF shell_read_cb, Calling, Followed
  <2>2. q' \in State /\ Good(q') /\ broken' = broken
    BY <1>1, <1>8, <2>1, OutputTaken
  <2>3. PICK f \in Fd : Called(f)
    BY Zenon, <1>8 DEF shell_read_cb
  <2> QED  BY ZenonT(40), <1>3, <1>4, <2>2, <2>3
<1>9. CASE url_block_fds_done
  <2>1. loop' = [pc |-> "wait", rfds |-> loop.rfds]
    BY <1>2, <1>9 DEF url_block_fds_done
  <2>2. loop' \in [pc : {"select", "fds", "wait"}, rfds : SUBSET (0..MaxFd)]
    BY <1>2, <2>1
  <2> QED  BY <1>1, <1>3, <1>9, <2>2 DEF url_block_fds_done
<1>10. CASE url_block_wait
  <2>1. ~q.crossed /\ loop' = loop /\ broken' = broken
    BY <1>10 DEF url_block_wait, Followed
  <2>2. q' \in State /\ Good(q')
    BY <1>1, <1>10, <2>1, ChildWaited
  <2> QED  BY <1>2, <1>3, <2>1, <2>2
<1>11. CASE url_block_end
  <2>1. loop' = [pc |-> "select", rfds |-> loop.rfds]
    BY <1>2, <1>11 DEF url_block_end
  <2>2. loop' \in [pc : {"select", "fds", "wait"}, rfds : SUBSET (0..MaxFd)]
    BY <1>2, <2>1
  <2> QED  BY <1>1, <1>3, <1>11, <2>2 DEF url_block_end
<1>12. ASSUME NEW results, Key(results),
              \A t \in results : t \in State /\ Good(t)
       PROVE  ShellsInv'
  <2>1. q' \in results /\ Called(0) /\ broken' = broken
    BY <1>12 DEF Key
  <2>2. loop' \in [pc : {"select", "fds", "wait"}, rfds : SUBSET (0..MaxFd)]
    BY <1>4, <2>1
  <2> QED  BY <1>3, <1>12, <2>1, <2>2
<1>13. /\ \A t \in do_shell_new : t \in State /\ Good(t)
       /\ \A t \in do_shell : t \in State /\ Good(t)
       /\ \A t \in do_shell_command : t \in State /\ Good(t)
       /\ \A t \in do_find_file : t \in State /\ Good(t)
  BY Zenon, <1>1, ShellCommands
<1>14. /\ \A t \in do_set_mode : t \in State /\ Good(t)
       /\ \A t \in do_split_window : t \in State /\ Good(t)
       /\ \A t \in do_kill_buffer : t \in State /\ Good(t)
       /\ \A t \in latex_fork : t \in State /\ Good(t)
  BY Zenon, <1>1, OtherCommands
<1>15. CASE \/ key_do_shell_new \/ key_do_shell \/ key_do_shell_command
            \/ key_do_find_file
  BY Zenon, <1>12, <1>13, <1>15
     DEF key_do_shell_new, key_do_shell, key_do_shell_command, key_do_find_file
<1>16. CASE \/ key_do_set_mode \/ key_do_split_window \/ key_do_kill_buffer
            \/ key_latex_fork
  BY Zenon, <1>12, <1>14, <1>16
     DEF key_do_set_mode, key_do_split_window, key_do_kill_buffer, key_latex_fork
<1>17. CASE key_other
  <2>1. \A t \in {q} : t \in State /\ Good(t)
    BY <1>1
  <2> QED  BY Zenon, <1>12, <1>17, <2>1 DEF key_other
<1>18. CASE process_write
  <2>1. PICK f \in Fd : /\ q.pty[f].unread < MaxUnread
                        /\ q' = [q EXCEPT !.pty[f].unread = @ + 1]
    BY Zenon, <1>18 DEF process_write
  <2> DEFINE n == q.pty[f].unread + 1
  <2>2. n \in 0..MaxUnread
    BY <1>1, <2>1, StateFields
  <2>3. Fills(q, f, n, q')
    BY <2>1, <2>2 DEF Fills
  <2> HIDE DEF n
  <2>4. q' \in State /\ Good(q')
    BY Zenon, <1>1, <2>3, Filled
  <2> QED  BY <1>2, <1>3, <1>18, <2>4 DEF process_write
<1>19. CASE process_exit
  <2> DEFINE x == "zombie"
  <2>1. PICK p \in Pid : Becomes(q, p, x, q')
    <3>1. PICK p \in Pid : q' = [q EXCEPT !.proc[p] = "zombie"]
      BY Zenon, <1>19 DEF process_exit
    <3>2. Becomes(q, p, x, q')
      BY Zenon, <3>1 DEF Becomes
    <3> QED  BY Zenon, <3>2
  <2>2. x # "none"
    OBVIOUS
  <2> HIDE DEF x
  <2>3. Became(q, p, x, q')
    BY Zenon, <1>1, <2>1, ProcessChanged
  <2>4. q' \in State /\ Good(q')
    BY Zenon, <1>1, <2>2, <2>3 DEF Became
  <2> QED  BY <1>2, <1>3, <1>19, <2>4 DEF process_exit
<1> QED
  BY Zenon, <1>5, <1>6, <1>7, <1>8, <1>9, <1>10, <1>11, <1>15, <1>16, <1>17,
     <1>18, <1>19 DEF Next, url_block

LEMMA InvHolds == Spec => []ShellsInv
<1> QED  BY InitInv, NextInv, PTL DEF Spec

(* In every session, with any number of buffers, processes and terminals,  *)
(* a handler that shell.c registered belongs to the process its ShellState *)
(* is running, and none is called for a freed one; a terminal left open by *)
(* a failed fork has no process and no handler.                            *)
THEOREM HandlersStayOwned == Spec => []HandlersOwned
<1>1. ShellsInv => HandlersOwned
  <2> SUFFICES ASSUME ShellsInv, ~q.crossed
               PROVE  HandlersOwned
    BY DEF HandlersOwned
  <2>1. TypeOK /\ ~broken /\ Owned(q)
    BY Zenon DEF ShellsInv, Good
  <2>2. \A i \in DOMAIN q.pid_handlers :
           /\ q.buf[q.pid_handlers[i].opaque].state
           /\ q.buf[q.pid_handlers[i].opaque].pid = q.pid_handlers[i].pid
    BY SMTT(30), Z3T(30), <2>1 DEF Owned, Registered
  <2>3. \A a \in Addr : q.buf[a].pid # 0 => \E i \in DOMAIN q.pid_handlers :
           q.pid_handlers[i] = [pid |-> q.buf[a].pid, opaque |-> a]
    BY SMTT(30), Z3T(30), <2>1 DEF Owned, Registered
  <2>4. /\ \A f \in Fd : q.read_cb[f] # 0 =>
               q.buf[q.read_cb[f]].state /\ q.buf[q.read_cb[f]].fd = f
        /\ \A f \in Fd : q.pty[f].pid # 0 => q.read_cb[f] # 0
    BY Zenon, <2>1 DEF Owned
  <2>5. \A f \in q.leaked : q.pty[f].pid = 0 /\ q.read_cb[f] = 0
    <3>1. q.leaked \in SUBSET Fd
      BY Zenon, <2>1, StateFields DEF TypeOK
    <3> QED  BY Zenon, <2>1, <3>1 DEF Owned
  <2> QED  BY ZenonT(40), <2>1, <2>2, <2>3, <2>4, <2>5 DEF HandlersOwned
<1> QED  BY <1>1, InvHolds, PTL
=============================================================================
