--------------------------- MODULE WindowsProofs ---------------------------
(***************************************************************************)
(* Buffers, windows and prompts, for any number of them: nothing dangles   *)
(* and no prompt is lost.                                                  *)
(***************************************************************************)
EXTENDS Windows, FiniteSetTheorems, TLAPS

-----------------------------------------------------------------------------
(* The shape of the QEmacsState, also between two steps of a command.      *)
BufMap == UNION {[S -> EditBuffer] : S \in SUBSET (1 .. MaxBuffer)}
WinMap == UNION {[S -> EditState] : S \in SUBSET (1 .. MaxWindow)}
State == [buf : BufMap, win : WinMap, active : Addr, broken : BOOLEAN]

LEMMA Addresses ==
    /\ MaxBuffer \in Nat /\ MaxWindow \in Nat
    /\ 1 .. MaxBuffer \subseteq Addr /\ 1 .. MaxWindow \subseteq Addr
    /\ NULL \in Addr /\ NULL \notin 1 .. MaxBuffer /\ NULL \notin 1 .. MaxWindow
  BY WindowsAssumption DEF Addr, NULL

LEMMA Maps ==
    /\ \A f \in BufMap : DOMAIN f \subseteq 1 .. MaxBuffer /\ f \in [DOMAIN f -> EditBuffer]
    /\ \A f \in WinMap : DOMAIN f \subseteq 1 .. MaxWindow /\ f \in [DOMAIN f -> EditState]
  <1>1. ASSUME NEW f \in BufMap
        PROVE  DOMAIN f \subseteq 1 .. MaxBuffer /\ f \in [DOMAIN f -> EditBuffer]
    <2>1. PICK S \in SUBSET (1 .. MaxBuffer) : f \in [S -> EditBuffer]
      BY Zenon DEF BufMap
    <2> QED BY <2>1
  <1>2. ASSUME NEW f \in WinMap
        PROVE  DOMAIN f \subseteq 1 .. MaxWindow /\ f \in [DOMAIN f -> EditState]
    <2>1. PICK S \in SUBSET (1 .. MaxWindow) : f \in [S -> EditState]
      BY Zenon DEF WinMap
    <2> QED BY <2>1
  <1> QED BY <1>1, <1>2

LEMMA StateParts ==
    ASSUME NEW p \in State
    PROVE  /\ p.buf \in BufMap /\ Buffers(p) \subseteq 1 .. MaxBuffer
           /\ p.buf \in [Buffers(p) -> EditBuffer]
           /\ \A b \in Buffers(p) : p.buf[b] \in EditBuffer /\ b \in Addr /\ b # NULL
           /\ p.win \in WinMap /\ Windows(p) \subseteq 1 .. MaxWindow
           /\ p.win \in [Windows(p) -> EditState]
           /\ \A w \in Windows(p) : p.win[w] \in EditState /\ w \in Addr /\ w # NULL
           /\ p.active \in Addr /\ p.broken \in BOOLEAN
  <1>1. p.buf \in BufMap /\ p.win \in WinMap /\ p.active \in Addr /\ p.broken \in BOOLEAN
    BY DEF State
  <1>2. Buffers(p) \subseteq 1 .. MaxBuffer /\ p.buf \in [Buffers(p) -> EditBuffer]
    BY <1>1, Maps DEF Buffers
  <1>3. Windows(p) \subseteq 1 .. MaxWindow /\ p.win \in [Windows(p) -> EditState]
    BY <1>1, Maps DEF Windows
  <1> QED BY <1>1, <1>2, <1>3, Addresses

(* The fields of a QEmacsState, set one by one. *)
BufSet(p, r, f) ==
    r \in State /\ r.buf = f /\ r.win = p.win /\ r.active = p.active /\ r.broken = p.broken
WinSet(p, r, f) ==
    r \in State /\ r.win = f /\ r.buf = p.buf /\ r.active = p.active /\ r.broken = p.broken
ActiveSet(p, r, f) ==
    r \in State /\ r.active = f /\ r.buf = p.buf /\ r.win = p.win /\ r.broken = p.broken
BrokenSet(p, r, f) ==
    r \in State /\ r.broken = f /\ r.buf = p.buf /\ r.win = p.win /\ r.active = p.active

LEMMA SetBuf ==
    ASSUME NEW p \in State, NEW f \in BufMap, NEW r, r = [p EXCEPT !.buf = f]
    PROVE  BufSet(p, r, f)
  <1>1. r = [buf |-> f, win |-> p.win, active |-> p.active, broken |-> p.broken]
    BY Zenon DEF State
  <1>2. p.win \in WinMap /\ p.active \in Addr /\ p.broken \in BOOLEAN
    BY DEF State
  <1> QED BY <1>1, <1>2 DEF State, BufSet

LEMMA SetWin ==
    ASSUME NEW p \in State, NEW f \in WinMap, NEW r, r = [p EXCEPT !.win = f]
    PROVE  WinSet(p, r, f)
  <1>1. r = [buf |-> p.buf, win |-> f, active |-> p.active, broken |-> p.broken]
    BY Zenon DEF State
  <1>2. p.buf \in BufMap /\ p.active \in Addr /\ p.broken \in BOOLEAN
    BY DEF State
  <1> QED BY <1>1, <1>2 DEF State, WinSet

LEMMA SetActive ==
    ASSUME NEW p \in State, NEW f \in Addr, NEW r, r = [p EXCEPT !.active = f]
    PROVE  ActiveSet(p, r, f)
  <1>1. r = [buf |-> p.buf, win |-> p.win, active |-> f, broken |-> p.broken]
    BY Zenon DEF State
  <1>2. p.buf \in BufMap /\ p.win \in WinMap /\ p.broken \in BOOLEAN
    BY DEF State
  <1> QED BY <1>1, <1>2 DEF State, ActiveSet

LEMMA SetBroken ==
    ASSUME NEW p \in State, NEW r, r = Broken(p)
    PROVE  BrokenSet(p, r, TRUE)
  <1>1. r = [buf |-> p.buf, win |-> p.win, active |-> p.active, broken |-> TRUE]
    BY Zenon DEF State, Broken
  <1>2. p.buf \in BufMap /\ p.win \in WinMap /\ p.active \in Addr
    BY DEF State
  <1> QED BY <1>1, <1>2 DEF State, BrokenSet

(* eb_new and edit_new take an address that is free. *)
LEMMA MinIn ==
    ASSUME NEW S \in SUBSET Nat, S # {}
    PROVE  Min(S) \in S
  <1>1. PICK x \in S : \A y \in S : ~(<<y, x>> \in OpToRel(<, Nat))
    BY NatLessThanWellFounded, WFMin
  <1>2. \A y \in S : ~(y < x)
    BY Zenon, <1>1 DEF OpToRel
  <1>3. \A y \in S : x <= y
    BY <1>2
  <1> QED BY Zenon, <1>3 DEF Min

SpareBuffer(p) == (1 .. MaxBuffer) \ Buffers(p) # {}
SpareWindow(p) == (1 .. MaxWindow) \ Windows(p) # {}

LEMMA FreshAddresses ==
    ASSUME NEW p
    PROVE  /\ SpareBuffer(p) => FreshBuffer(p) \in (1 .. MaxBuffer) \ Buffers(p)
           /\ SpareWindow(p) => FreshWindow(p) \in (1 .. MaxWindow) \ Windows(p)
  <1>1. \A n \in Nat : \A S : (1 .. n) \ S \in SUBSET Nat
    OBVIOUS
  <1> QED BY <1>1, MinIn, Addresses DEF SpareBuffer, SpareWindow, FreshBuffer, FreshWindow

-----------------------------------------------------------------------------
(* A buffer x that is y after the buffers D and the windows W have gone:   *)
(* a callback that is not stale holds none of them.                        *)
Later(x, y, D, W) ==
    /\ y \in EditBuffer
    /\ y.kind = x.kind /\ y.cb = x.cb /\ y.modified = x.modified /\ y.transient = x.transient
    /\ ~y.stale => /\ ~x.stale /\ y.opaque = x.opaque
                   /\ x.cb = "confirm" => x.opaque \notin D
                   /\ x.cb \in Prompts => x.opaque \notin W
    /\ x.cb = "none" => y = x

Frees(f, g, D, W) ==
    /\ g \in BufMap /\ DOMAIN g = DOMAIN f \ D
    /\ \A c \in DOMAIN g : Later(f[c], g[c], D, W)

LEMMA LaterTwice ==
    ASSUME NEW x, NEW y, NEW z, NEW D, NEW W, NEW E, NEW V,
           Later(x, y, D, W), Later(y, z, E, V)
    PROVE  Later(x, z, D \cup E, W \cup V)
  <1>1. /\ z \in EditBuffer /\ z.kind = x.kind /\ z.cb = x.cb /\ z.modified = x.modified
        /\ z.transient = x.transient
    BY Zenon DEF Later
  <1>2. x.cb = "none" => z = x
    BY Zenon DEF Later
  <1>3. ASSUME ~z.stale
        PROVE  /\ ~x.stale /\ z.opaque = x.opaque
               /\ x.cb = "confirm" => x.opaque \notin D \cup E
               /\ x.cb \in Prompts => x.opaque \notin W \cup V
    <2>1. /\ ~y.stale /\ z.opaque = y.opaque /\ y.cb = x.cb
          /\ y.cb = "confirm" => y.opaque \notin E
          /\ y.cb \in Prompts => y.opaque \notin V
      BY Zenon, <1>3 DEF Later
    <2>2. /\ ~x.stale /\ y.opaque = x.opaque
          /\ x.cb = "confirm" => x.opaque \notin D
          /\ x.cb \in Prompts => x.opaque \notin W
      BY Zenon, <2>1 DEF Later
    <2> QED BY Zenon, <2>1, <2>2
  <1> QED BY Zenon, <1>1, <1>2, <1>3 DEF Later

LEMMA FreesTwice ==
    ASSUME NEW f, NEW g, NEW h, NEW D, NEW W, NEW E, NEW V,
           Frees(f, g, D, W), Frees(g, h, E, V)
    PROVE  Frees(f, h, D \cup E, W \cup V)
  <1>1. h \in BufMap /\ DOMAIN h = DOMAIN f \ (D \cup E)
    BY DEF Frees
  <1>2. ASSUME NEW c \in DOMAIN h PROVE Later(f[c], h[c], D \cup E, W \cup V)
    <2>1. Later(f[c], g[c], D, W) /\ Later(g[c], h[c], E, V)
      BY DEF Frees
    <2> QED BY Zenon, <2>1, LaterTwice
  <1> QED BY Zenon, <1>1, <1>2 DEF Frees

LEMMA FreesNothing ==
    ASSUME NEW f \in BufMap
    PROVE  Frees(f, f, {}, {})
  <1>1. \A c \in DOMAIN f : f[c] \in EditBuffer
    BY Maps
  <1>2. \A c \in DOMAIN f : Later(f[c], f[c], {}, {})
    BY Zenon, <1>1 DEF Later
  <1> QED BY Zenon, <1>2 DEF Frees

(* Fields of a buffer, set. *)
LEMMA StaleBuffer ==
    ASSUME NEW x \in EditBuffer, NEW y, y = [x EXCEPT !.opaque = NULL, !.stale = TRUE]
    PROVE  /\ y \in EditBuffer /\ y.kind = x.kind /\ y.cb = x.cb /\ y.modified = x.modified
           /\ y.transient = x.transient /\ y.stale = TRUE
  <1>1. y = [kind |-> x.kind, transient |-> x.transient, modified |-> x.modified,
             cb |-> x.cb, opaque |-> NULL, stale |-> TRUE]
    BY Zenon DEF EditBuffer
  <1>2. /\ x.kind \in {"file", "scratch", "help", "minibuf"} /\ x.transient \in BOOLEAN
        /\ x.modified \in BOOLEAN /\ x.cb \in Prompts \cup {"confirm", "none"}
    BY DEF EditBuffer
  <1> QED BY Zenon, <1>1, <1>2, Addresses DEF EditBuffer

(* The callbacks of kind cbs, as gone is of buffers D or of windows W. *)
Holders(cbs, gone, D, W) ==
    \/ cbs = {"confirm"} /\ D = gone /\ W = {}
    \/ cbs = Prompts /\ D = {} /\ W = gone

LEMMA FreedBuffer ==
    ASSUME NEW x \in EditBuffer, NEW y, NEW gone, NEW cbs, NEW D, NEW W,
           Holders(cbs, gone, D, W),
           y = IF x.cb \in cbs /\ x.opaque \in gone
               THEN [x EXCEPT !.opaque = NULL, !.stale = TRUE] ELSE x
    PROVE  Later(x, y, D, W)
  <1>1. CASE x.cb \in cbs /\ x.opaque \in gone
    <2>1. /\ y \in EditBuffer /\ y.kind = x.kind /\ y.cb = x.cb /\ y.modified = x.modified
          /\ y.transient = x.transient /\ y.stale = TRUE
      BY <1>1, StaleBuffer
    <2>2. x.cb # "none"
      BY <1>1 DEF Prompts, Holders
    <2> QED BY ZenonT(40), <2>1, <2>2 DEF Later
  <1>2. CASE ~(x.cb \in cbs /\ x.opaque \in gone)
    <2>1. y = x
      BY Zenon, <1>2
    <2>2. (x.cb = "confirm" => x.opaque \notin D) /\ (x.cb \in Prompts => x.opaque \notin W)
      BY Zenon, <1>2 DEF Holders
    <2> QED BY Zenon, <2>1, <2>2 DEF Later
  <1> QED BY <1>1, <1>2

(* What the assignments of Freed leave of each buffer. *)
AllLater(p, r, D, W) ==
    Buffers(r) = Buffers(p) /\ \A c \in Buffers(p) : Later(p.buf[c], r.buf[c], D, W)

LEMMA FreedFacts ==
    ASSUME NEW p \in State, NEW cbs, NEW gone, NEW D, NEW W, Holders(cbs, gone, D, W),
           NEW r, r = Freed(p, cbs, gone)
    PROVE  BufSet(p, r, r.buf) /\ AllLater(p, r, D, W)
  <1> DEFINE F(c) == IF p.buf[c].cb \in cbs /\ p.buf[c].opaque \in gone
                     THEN [p.buf[c] EXCEPT !.opaque = NULL, !.stale = TRUE] ELSE p.buf[c]
             g == [c \in Buffers(p) |-> F(c)]
  <1>1. r = [p EXCEPT !.buf = g]
    BY Zenon DEF Freed
  <1>2. \A c \in Buffers(p) : p.buf[c] \in EditBuffer
    BY Zenon, StateParts
  <1>3. ASSUME NEW c \in Buffers(p) PROVE Later(p.buf[c], F(c), D, W)
    BY Zenon, <1>2, FreedBuffer
  <1>4. \A c \in Buffers(p) : g[c] = F(c)
    OBVIOUS
  <1>5. ASSUME NEW c \in Buffers(p) PROVE F(c) \in EditBuffer
    <2>1. Later(p.buf[c], F(c), D, W)
      BY ZenonT(40), <1>3
    <2> HIDE DEF F
    <2> QED BY Zenon, <2>1 DEF Later
  <1>6. g \in [Buffers(p) -> EditBuffer]
    BY <1>5
  <1> HIDE DEF g, F
  <1>7. g \in BufMap /\ DOMAIN g = Buffers(p)
    BY <1>6, StateParts DEF BufMap
  <1>8. BufSet(p, r, g)
    BY Zenon, <1>1, <1>7, SetBuf
  <1>9. r.buf = g /\ Buffers(r) = Buffers(p)
    BY Zenon, <1>7, <1>8 DEF BufSet, Buffers
  <1>10. \A c \in Buffers(p) : Later(p.buf[c], r.buf[c], D, W)
    BY Zenon, <1>3, <1>4, <1>9
  <1> QED BY Zenon, <1>8, <1>9, <1>10 DEF AllLater

(* eb_free, of buffers D at once: the callbacks that hold them dangle. *)
LEMMA DropFacts ==
    ASSUME NEW p \in State, NEW D, NEW n, n \in State, NEW r,
           n.buf = Restrict(p.buf, Buffers(p) \ D), r = Freed(n, {"confirm"}, D)
    PROVE  BufSet(n, r, r.buf) /\ Frees(p.buf, r.buf, D, {})
  <1>1. Buffers(n) = Buffers(p) \ D /\ \A c \in Buffers(n) : n.buf[c] = p.buf[c]
    BY DEF Restrict, Buffers
  <1> DEFINE k == {"confirm"}
             e == {}
  <1>2. Holders(k, D, D, e) /\ r = Freed(n, k, D)
    BY DEF Holders
  <1> HIDE DEF k, e
  <1>3. BufSet(n, r, r.buf) /\ AllLater(n, r, D, e)
    BY Zenon, <1>2, FreedFacts
  <1>4. Buffers(r) = Buffers(n) /\ \A c \in Buffers(r) : Later(p.buf[c], r.buf[c], D, {})
    BY Zenon, <1>1, <1>3 DEF AllLater, e
  <1>5. r.buf \in BufMap
    BY Zenon, <1>3, StateParts DEF BufSet
  <1>6. Frees(p.buf, r.buf, D, {})
    BY Zenon, <1>1, <1>3, <1>4, <1>5 DEF Frees, Buffers
  <1> QED BY Zenon, <1>3, <1>6

LEMMA Dropped ==
    ASSUME NEW p \in State, NEW D
    PROVE  Restrict(p.buf, Buffers(p) \ D) \in BufMap
  <1>1. Restrict(p.buf, Buffers(p) \ D) \in [Buffers(p) \ D -> EditBuffer]
    BY StateParts DEF Restrict
  <1>2. Buffers(p) \ D \in SUBSET (1 .. MaxBuffer)
    BY StateParts
  <1> QED BY Zenon, <1>1, <1>2 DEF BufMap

(* The buffers D go, and nothing else changes. *)
Unloads(p, r, D) ==
    /\ r \in State /\ r.win = p.win /\ r.active = p.active /\ r.broken = p.broken
    /\ Frees(p.buf, r.buf, D, {})

LEMMA FreeFacts ==
    ASSUME NEW p \in State, NEW b \in Buffers(p)
    PROVE  Unloads(p, eb_free(p, b), {b})
  <1> DEFINE n == [p EXCEPT !.buf = Restrict(p.buf, Buffers(p) \ {b})]
             r == eb_free(p, b)
  <1>1. r = Freed(n, {"confirm"}, {b})
    BY Zenon DEF eb_free
  <1>2. Restrict(p.buf, Buffers(p) \ {b}) \in BufMap
    BY Zenon, Dropped
  <1>3. BufSet(p, n, Restrict(p.buf, Buffers(p) \ {b}))
    BY Zenon, <1>2, SetBuf
  <1> HIDE DEF n, r
  <1>4. n \in State /\ n.buf = Restrict(p.buf, Buffers(p) \ {b})
    BY Zenon, <1>3 DEF BufSet
  <1>5. BufSet(n, r, r.buf) /\ Frees(p.buf, r.buf, {b}, {})
    BY Zenon, <1>1, <1>4, DropFacts
  <1>6. Unloads(p, r, {b})
    BY Zenon, <1>3, <1>5 DEF Unloads, BufSet
  <1> QED BY Zenon, <1>6 DEF r

-----------------------------------------------------------------------------
(* A window that shows another buffer. *)
LEMMA WindowShows ==
    ASSUME NEW x \in EditState, NEW b \in Addr, NEW y, y = [x EXCEPT !.b = b]
    PROVE  y \in EditState /\ y.b = b /\ y.kind = x.kind /\ y.target = x.target
  <1>1. y = [b |-> b, kind |-> x.kind, target |-> x.target]
    BY Zenon DEF EditState
  <1>2. x.kind \in {"normal", "popup", "minibuf"} /\ x.target \in Addr
    BY DEF EditState
  <1> QED BY <1>1, <1>2 DEF EditState

Aims(x, y, t) == y \in EditState /\ y.b = x.b /\ y.kind = x.kind /\ y.target = t

LEMMA WindowAims ==
    ASSUME NEW x \in EditState, NEW t \in Addr, NEW y, y = [x EXCEPT !.target = t]
    PROVE  Aims(x, y, t)
  <1>1. y = [b |-> x.b, kind |-> x.kind, target |-> t]
    BY Zenon DEF EditState
  <1>2. x.kind \in {"normal", "popup", "minibuf"} /\ x.b \in Addr
    BY DEF EditState
  <1>3. y.b = x.b /\ y.kind = x.kind /\ y.target = t
    BY Zenon, <1>1
  <1>4. \A b \in Addr, k \in {"normal", "popup", "minibuf"} :
          [b |-> b, kind |-> k, target |-> t] \in EditState
    BY Zenon DEF EditState
  <1>5. y \in EditState
    BY Zenon, <1>1, <1>2, <1>4
  <1> QED BY Zenon, <1>3, <1>5 DEF Aims

(* The window w shows b, the others what they showed. *)
Shows(f, g, w, b) ==
    /\ DOMAIN g = DOMAIN f
    /\ \A v \in DOMAIN f : /\ g[v].b = IF v = w THEN b ELSE f[v].b
                           /\ g[v].kind = f[v].kind /\ g[v].target = f[v].target

LEMMA WindowSwitched ==
    ASSUME NEW p \in State, NEW w \in Windows(p), NEW b \in Addr, NEW r,
           r = [p EXCEPT !.win[w].b = b]
    PROVE  WinSet(p, r, r.win) /\ Shows(p.win, r.win, w, b)
  <1> DEFINE x == p.win[w]
             y == [x EXCEPT !.b = b]
             g == [p.win EXCEPT ![w] = y]
  <1>1. x \in EditState /\ p.win \in [Windows(p) -> EditState]
        /\ Windows(p) \in SUBSET (1 .. MaxWindow)
    BY StateParts
  <1>2. r = [p EXCEPT !.win = g]
    BY Zenon DEF State
  <1> HIDE DEF x
  <1>3. y \in EditState /\ y.b = b /\ y.kind = x.kind /\ y.target = x.target
    BY <1>1, WindowShows
  <1> HIDE DEF y
  <1>4. g \in [Windows(p) -> EditState]
    BY <1>1, <1>3
  <1>5. \A v \in Windows(p) : g[v] = IF v = w THEN y ELSE p.win[v]
    BY <1>1
  <1> HIDE DEF g
  <1>6. g \in WinMap
    BY Zenon, <1>1, <1>4 DEF WinMap
  <1>7. WinSet(p, r, g)
    BY Zenon, <1>2, <1>6, SetWin
  <1>8. DOMAIN g = DOMAIN p.win
    BY <1>1, <1>4
  <1>9. Shows(p.win, g, w, b)
    <2>1. ASSUME NEW v \in DOMAIN p.win
          PROVE  /\ g[v].b = IF v = w THEN b ELSE p.win[v].b
                 /\ g[v].kind = p.win[v].kind /\ g[v].target = p.win[v].target
      <3>1. g[v] = IF v = w THEN y ELSE p.win[v]
        BY Zenon, <1>5 DEF Windows
      <3> QED BY <1>3, <3>1 DEF x
    <2> QED BY Zenon, <1>8, <2>1 DEF Shows
  <1> QED BY Zenon, <1>7, <1>9 DEF WinSet

(* switch_to_buffer: the buffer that was shown goes when it is transient   *)
(* and no other window shows it.                                           *)
Left(p, w, b) ==
    LET b0 == p.win[w].b
    IN  IF b # b0 /\ p.buf[b0].transient /\ \A v \in Windows(p) \ {w} : p.win[v].b # b0
        THEN {b0} ELSE {}

LEMMA SwitchFacts ==
    ASSUME NEW p \in State, NEW w \in Windows(p), p.win[w].b \in Buffers(p),
           NEW b \in Addr, NEW r, r = switch_to_buffer(p, w, b)
    PROVE  /\ r \in State /\ r.active = p.active /\ r.broken = p.broken
           /\ Shows(p.win, r.win, w, b)
           /\ Frees(p.buf, r.buf, Left(p, w, b), {})
  <1> DEFINE b0 == p.win[w].b
             n == [p EXCEPT !.win[w].b = b]
  <1>1. r = IF b = b0 \/ b0 = NULL THEN n
            ELSE IF p.buf[b0].transient /\ Showing(n, b0) = {} THEN eb_free(n, b0) ELSE n
    BY Zenon DEF switch_to_buffer
  <1>2. WinSet(p, n, n.win) /\ Shows(p.win, n.win, w, b)
    BY Zenon, WindowSwitched
  <1> HIDE DEF n
  <1>3. b0 # NULL /\ p.buf \in BufMap /\ b0 \in Buffers(n)
    BY <1>2, StateParts DEF Buffers, WinSet
  <1>4. b # b0 => (Showing(n, b0) = {} <=> \A v \in Windows(p) \ {w} : p.win[v].b # b0)
    <2>1. Windows(n) = Windows(p)
          /\ \A v \in Windows(p) : n.win[v].b = IF v = w THEN b ELSE p.win[v].b
      BY Zenon, <1>2 DEF Shows, Windows
    <2> QED BY <2>1 DEF Showing
  <1> HIDE DEF b0
  <1>5. CASE Left(p, w, b) = {b0}
    <2>1. r = eb_free(n, b0)
      BY <1>1, <1>3, <1>4, <1>5 DEF Left, b0
    <2>2. Unloads(n, r, {b0})
      BY Zenon, <1>2, <1>3, <2>1, FreeFacts DEF WinSet
    <2> QED BY Zenon, <1>2, <1>5, <2>2 DEF Unloads, WinSet
  <1>6. CASE Left(p, w, b) = {}
    <2>1. r = n
      BY <1>1, <1>3, <1>4, <1>6 DEF Left, b0
    <2> QED BY Zenon, <1>2, <1>3, <1>6, <2>1, FreesNothing DEF WinSet
  <1> QED BY Zenon, <1>5, <1>6 DEF Left, b0

-----------------------------------------------------------------------------
(* The windows W are closed: no other window has one of them as target. *)
Closes(f, g, W) ==
    /\ DOMAIN g = DOMAIN f \ W
    /\ \A v \in DOMAIN g : /\ g[v].b = f[v].b /\ g[v].kind = f[v].kind
                           /\ g[v].target = IF f[v].target \in W THEN NULL ELSE f[v].target

LEMMA WindowsClosed ==
    ASSUME NEW f \in WinMap, NEW W, NEW g,
           g = [v \in DOMAIN f \ W |->
                  [f[v] EXCEPT !.target = IF f[v].target \in W THEN NULL ELSE f[v].target]]
    PROVE  g \in WinMap /\ Closes(f, g, W)
  <1> DEFINE T(v) == IF f[v].target \in W THEN NULL ELSE f[v].target
             G(v) == [f[v] EXCEPT !.target = T(v)]
  <1>1. DOMAIN f \subseteq 1 .. MaxWindow /\ \A v \in DOMAIN f : f[v] \in EditState
    BY Maps
  <1>2. g = [v \in DOMAIN f \ W |-> G(v)]
    OBVIOUS
  <1>3. \A v \in DOMAIN f : T(v) \in Addr
    BY <1>1, Addresses DEF EditState
  <1> HIDE DEF T
  <1>4. ASSUME NEW v \in DOMAIN f
        PROVE  Aims(f[v], G(v), T(v))
    BY Zenon, <1>1, <1>3, WindowAims
  <1> HIDE DEF G
  <1>5. DOMAIN g = DOMAIN f \ W /\ \A v \in DOMAIN f \ W : g[v] = G(v)
    BY Zenon, <1>2
  <1>6. g \in [DOMAIN f \ W -> EditState]
    BY <1>2, <1>4 DEF Aims
  <1>7. g \in WinMap
    BY ZenonT(40), <1>1, <1>6 DEF WinMap
  <1>8. Closes(f, g, W)
    BY Zenon, <1>4, <1>5 DEF Closes, T, Aims
  <1> QED BY Zenon, <1>7, <1>8

(* edit_detach *)
Detaches(p, r, w, first) ==
    /\ r \in State /\ r.buf = p.buf /\ r.broken = p.broken /\ Closes(p.win, r.win, {w})
    /\ r.active = IF p.active # w THEN p.active
                  ELSE IF p.win[w].target # NULL THEN p.win[w].target ELSE first

LEMMA DetachFacts ==
    ASSUME NEW p \in State, NEW w \in Windows(p), NEW first \in Addr, NEW r,
           r = edit_detach(p, w, first)
    PROVE  Detaches(p, r, w, first)
  <1> DEFINE a == IF p.active # w THEN p.active
                  ELSE IF p.win[w].target # NULL THEN p.win[w].target ELSE first
             g == [v \in Windows(p) \ {w} |->
                     [p.win[v] EXCEPT !.target = IF p.win[v].target = w THEN NULL
                                                 ELSE p.win[v].target]]
             h == [v \in DOMAIN p.win \ {w} |->
                     [p.win[v] EXCEPT !.target = IF p.win[v].target \in {w} THEN NULL
                                                 ELSE p.win[v].target]]
             n == [p EXCEPT !.win = g]
  <1>1. r = [p EXCEPT !.win = g, !.active = a]
    BY Zenon DEF edit_detach
  <1>2. \A x : x = w <=> x \in {w}
    OBVIOUS
  <1>3. g = h
    BY Zenon, <1>2 DEF Windows
  <1>4. p.win \in WinMap /\ p.win[w] \in EditState /\ p.active \in Addr
    BY StateParts
  <1>5. h \in WinMap /\ Closes(p.win, h, {w})
    BY Zenon, <1>4, WindowsClosed
  <1> HIDE DEF g, h
  <1>6. g \in WinMap /\ Closes(p.win, g, {w})
    BY Zenon, <1>3, <1>5
  <1>7. a \in Addr
    BY <1>4 DEF EditState
  <1> HIDE DEF a
  <1>8. WinSet(p, n, g)
    BY Zenon, <1>6, SetWin
  <1>9. r = [n EXCEPT !.active = a]
    BY Zenon, <1>1 DEF State
  <1> HIDE DEF n
  <1>10. ActiveSet(n, r, a)
    BY Zenon, <1>7, <1>8, <1>9, SetActive DEF WinSet
  <1>11. r \in State /\ r.buf = p.buf /\ r.broken = p.broken /\ r.win = g /\ r.active = a
    BY Zenon, <1>8, <1>10 DEF WinSet, ActiveSet
  <1> QED BY Zenon, <1>6, <1>11 DEF a, Detaches

(* edit_close, in a state in which the window can be closed. *)
Closable(p, w, first) ==
    /\ p \in State /\ w \in Windows(p) /\ p.active \in Windows(p)
    /\ p.win[w].b \in Buffers(p) /\ p.win[w].target \in (Windows(p) \cup {NULL}) \ {w}
    /\ first \in Windows(p) \ {w}
ClosesWindow(p, r, w, D) ==
    /\ r \in State /\ r.broken = p.broken /\ r.active \in Windows(r)
    /\ Frees(p.buf, r.buf, D, {w}) /\ Closes(p.win, r.win, {w})

LEMMA FreedFrees ==
    ASSUME NEW p \in State, NEW W, NEW r, r = Freed(p, Prompts, W)
    PROVE  BufSet(p, r, r.buf) /\ Frees(p.buf, r.buf, {}, W)
  <1> DEFINE k == Prompts
             e == {}
  <1>1. Holders(k, W, e, W) /\ r = Freed(p, k, W)
    BY Zenon DEF Holders
  <1> HIDE DEF k, e
  <1>2. BufSet(p, r, r.buf) /\ AllLater(p, r, e, W)
    BY Zenon, <1>1, FreedFacts
  <1>3. r.buf \in BufMap
    BY Zenon, <1>2, StateParts DEF BufSet
  <1>4. DOMAIN r.buf = DOMAIN p.buf \ {}
    BY <1>2 DEF AllLater, Buffers
  <1>5. \A c \in DOMAIN r.buf : Later(p.buf[c], r.buf[c], {}, W)
    BY Zenon, <1>2 DEF AllLater, Buffers, e
  <1> QED BY Zenon, <1>2, <1>3, <1>4, <1>5 DEF Frees

LEMMA CloseFacts ==
    ASSUME NEW p, NEW w, NEW first, Closable(p, w, first)
    PROVE  ClosesWindow(p, edit_close(p, w, first), w, Left(p, w, NULL))
  <1> DEFINE n == switch_to_buffer(p, w, NULL)
             m == edit_detach(n, w, first)
             r == edit_close(p, w, first)
             D == Left(p, w, NULL)
             W == {w}
  <1>1. /\ p \in State /\ w \in Windows(p) /\ p.win[w].b \in Buffers(p)
        /\ p.active \in Windows(p) /\ first \in Windows(p) \ {w} /\ first \in Addr
        /\ p.win[w].target \in (Windows(p) \cup {NULL}) \ {w} /\ NULL \in Addr
    BY StateParts, Addresses DEF Closable
  <1>2. r = Freed(m, Prompts, W)
    BY Zenon DEF edit_close
  <1> HIDE DEF r, m
  <1>3. /\ n \in State /\ n.active = p.active /\ n.broken = p.broken
        /\ Shows(p.win, n.win, w, NULL) /\ Frees(p.buf, n.buf, D, {})
    BY Zenon, <1>1, SwitchFacts
  <1> HIDE DEF n, D
  <1>4. w \in Windows(n) /\ n.win[w].target = p.win[w].target
    BY Zenon, <1>1, <1>3 DEF Shows, Windows
  <1>5. /\ m \in State /\ m.buf = n.buf /\ m.broken = n.broken /\ Closes(n.win, m.win, {w})
        /\ m.active = IF n.active # w THEN n.active
                      ELSE IF n.win[w].target # NULL THEN n.win[w].target ELSE first
    <2>1. Detaches(n, m, w, first)
      BY Zenon, <1>1, <1>3, <1>4, DetachFacts DEF m
    <2> QED BY Zenon, <2>1 DEF Detaches
  <1>6. BufSet(m, r, r.buf) /\ Frees(m.buf, r.buf, {}, W)
    BY Zenon, <1>2, <1>5, FreedFrees
  <1>7. Frees(p.buf, r.buf, D \cup {}, {} \cup W)
    BY Zenon, <1>3, <1>5, <1>6, FreesTwice
  <1>8. D \cup {} = D /\ {} \cup W = W
    OBVIOUS
  <1>9. Frees(p.buf, r.buf, D, {w})
    BY Zenon, <1>7, <1>8
  <1>10. r.win = m.win /\ r \in State /\ r.broken = p.broken /\ r.active = m.active
    BY Zenon, <1>3, <1>5, <1>6 DEF BufSet
  <1>11. Closes(p.win, r.win, {w})
    <2>1. DOMAIN n.win = DOMAIN p.win /\ DOMAIN r.win = DOMAIN n.win \ {w}
      BY Zenon, <1>3, <1>5, <1>10 DEF Shows, Closes
    <2>2. ASSUME NEW v \in DOMAIN r.win
          PROVE  /\ r.win[v].b = p.win[v].b /\ r.win[v].kind = p.win[v].kind
                 /\ r.win[v].target = IF p.win[v].target \in {w} THEN NULL ELSE p.win[v].target
      <3>1. v \in DOMAIN p.win /\ v # w
        BY <2>1
      <3>2. n.win[v].b = p.win[v].b /\ n.win[v].kind = p.win[v].kind
            /\ n.win[v].target = p.win[v].target
        BY Zenon, <1>3, <3>1 DEF Shows
      <3> QED BY Zenon, <1>5, <1>10, <3>2 DEF Closes
    <2> QED BY Zenon, <2>1, <2>2 DEF Closes
  <1>12. r.active \in Windows(r)
    <2>1. Windows(r) = Windows(p) \ {w}
      BY Zenon, <1>11 DEF Closes, Windows
    <2> QED BY <1>1, <1>3, <1>4, <1>5, <1>10, <2>1
  <1>13. ClosesWindow(p, r, w, D)
    BY Zenon, <1>9, <1>10, <1>11, <1>12 DEF ClosesWindow
  <1> QED BY Zenon, <1>13 DEF r, D

(* The loop of do_delete_other_windows. *)
Dead(p, W) ==
    {b \in Buffers(p) : p.buf[b].transient /\ Showing(p, b) # {} /\ Showing(p, b) \subseteq W}
ClosesAll(p, r, D, W) ==
    /\ r \in State /\ r.broken = p.broken /\ r.active = p.active
    /\ Frees(p.buf, r.buf, D, W) /\ Closes(p.win, r.win, W)

LEMMA CloseAllFacts ==
    ASSUME NEW p \in State, NEW W
    PROVE  ClosesAll(p, CloseAll(p, W), Dead(p, W), W)
  <1> DEFINE D == Dead(p, W)
             f == Restrict(p.buf, Buffers(p) \ D)
             g == [v \in Windows(p) \ W |->
                     [p.win[v] EXCEPT !.target = IF p.win[v].target \in W THEN NULL
                                                 ELSE p.win[v].target]]
             k == [p EXCEPT !.buf = f]
             n == [p EXCEPT !.buf = f, !.win = g]
             m == Freed(n, {"confirm"}, D)
             r == CloseAll(p, W)
  <1>1. r = Freed(m, Prompts, W)
    BY Zenon DEF CloseAll, Dead
  <1> HIDE DEF r, D
  <1>2. f \in BufMap
    BY Zenon, Dropped
  <1>3. g = [v \in DOMAIN p.win \ W |->
               [p.win[v] EXCEPT !.target = IF p.win[v].target \in W THEN NULL
                                           ELSE p.win[v].target]]
    BY Zenon DEF Windows
  <1>4. p.win \in WinMap
    BY Zenon, StateParts
  <1> HIDE DEF f, g
  <1>5. g \in WinMap /\ Closes(p.win, g, W)
    BY Zenon, <1>3, <1>4, WindowsClosed
  <1>6. BufSet(p, k, f)
    BY Zenon, <1>2, SetBuf
  <1>7. n = [k EXCEPT !.win = g]
    BY Zenon DEF State
  <1> HIDE DEF k, n
  <1>8. WinSet(k, n, g)
    BY Zenon, <1>5, <1>6, <1>7, SetWin DEF BufSet
  <1>9. /\ n \in State /\ n.buf = Restrict(p.buf, Buffers(p) \ D) /\ n.win = g
        /\ n.active = p.active /\ n.broken = p.broken
    BY Zenon, <1>6, <1>8 DEF BufSet, WinSet, f
  <1>10. BufSet(n, m, m.buf) /\ Frees(p.buf, m.buf, D, {})
    BY Zenon, <1>9, DropFacts
  <1> HIDE DEF m
  <1>11. BufSet(m, r, r.buf) /\ Frees(m.buf, r.buf, {}, W)
    BY Zenon, <1>1, <1>10, FreedFrees DEF BufSet
  <1>12. Frees(p.buf, r.buf, D \cup {}, {} \cup W)
    BY Zenon, <1>10, <1>11, FreesTwice
  <1>13. D \cup {} = D /\ {} \cup W = W
    OBVIOUS
  <1>14. Frees(p.buf, r.buf, D, W)
    BY Zenon, <1>12, <1>13
  <1>15. ClosesAll(p, r, D, W)
    BY Zenon, <1>5, <1>9, <1>10, <1>11, <1>14 DEF ClosesAll, BufSet
  <1> QED BY Zenon, <1>15 DEF r, D

-----------------------------------------------------------------------------
(* What every command keeps.  A minibuffer window shows a minibuffer, and  *)
(* a minibuffer is shown by one window; a callback that is not stale holds *)
(* what it needs: the buffer it asks about, or the window it runs in.      *)
WindowOK(p, w) ==
    /\ p.win[w].b \in Buffers(p)
    /\ p.win[w].target \in (Windows(p) \cup {NULL}) \ {w}
    /\ p.win[w].kind = "minibuf" <=> p.buf[p.win[w].b].kind = "minibuf"
Holds(p, b) ==
    LET o == p.buf[b].opaque
    IN  IF p.buf[b].cb = "confirm" THEN o \in Buffers(p) /\ p.buf[o].kind = "file"
        ELSE o \in Windows(p) /\ p.win[o].kind # "minibuf"
PromptOK(p, b) ==
    /\ p.buf[b].cb # "none"
    /\ \E w \in Windows(p) : Showing(p, b) = {w}
    /\ ~p.buf[b].stale => Holds(p, b)
WellFormed(p) ==
    /\ p \in State /\ p.active \in Windows(p) /\ Of(p, "normal") # {}
    /\ \A w \in Windows(p) : WindowOK(p, w)
    /\ \A b \in Buffers(p) : p.buf[b].kind = "minibuf" => PromptOK(p, b)

(* The buffers D and the windows W go; a window may show another buffer,   *)
(* if neither is of a prompt.                                              *)
Kept(x, y, D, W) ==
    /\ y.kind = x.kind /\ y.cb = x.cb
    /\ ~y.stale => /\ ~x.stale /\ y.opaque = x.opaque
                   /\ x.cb = "confirm" => x.opaque \notin D
                   /\ x.cb \in Prompts => x.opaque \notin W
WindowKept(p, r, v, W) ==
    /\ r.win[v].kind = p.win[v].kind
    /\ r.win[v].target \in ({p.win[v].target} \ W) \cup {NULL}
    /\ r.win[v].b \in Buffers(r)
    /\ r.win[v].b # p.win[v].b => /\ p.win[v].kind # "minibuf"
                                 /\ p.buf[r.win[v].b].kind # "minibuf"
Shrinks(p, r, D, W) ==
    /\ r \in State /\ r.active \in Windows(r) /\ Of(r, "normal") # {}
    /\ Buffers(r) = Buffers(p) \ D /\ \A c \in Buffers(r) : Kept(p.buf[c], r.buf[c], D, W)
    /\ Windows(r) = Windows(p) \ W /\ \A v \in Windows(r) : WindowKept(p, r, v, W)
    /\ \A w \in Windows(p) \cap W : p.win[w].kind = "minibuf" => p.win[w].b \in D

LEMMA ShrinksWell ==
    ASSUME NEW p, NEW r, NEW D, NEW W, WellFormed(p), Shrinks(p, r, D, W)
    PROVE  WellFormed(r)
  <1>1. r \in State /\ r.active \in Windows(r) /\ Of(r, "normal") # {}
    BY Zenon DEF Shrinks
  <1>2. Buffers(r) = Buffers(p) \ D /\ Windows(r) = Windows(p) \ W
    BY Zenon DEF Shrinks
  <1>3. ASSUME NEW v \in Windows(r) PROVE WindowOK(r, v)
    <2>1. WindowKept(p, r, v, W) /\ v \in Windows(p) /\ WindowOK(p, v)
      BY SMTT(30), Z3T(30), <1>2 DEF Shrinks, WellFormed
    <2>2. r.win[v].b \in Buffers(r) /\ r.win[v].b \in Buffers(p)
      BY <1>2, <2>1 DEF WindowKept
    <2>3. r.win[v].target \in (Windows(r) \cup {NULL}) \ {v}
      <3>1. p.win[v].target \in (Windows(p) \cup {NULL}) \ {v}
            /\ r.win[v].target \in ({p.win[v].target} \ W) \cup {NULL}
        BY Zenon, <2>1 DEF WindowKept, WindowOK
      <3>2. v # NULL
        BY Zenon, <2>1, StateParts DEF WellFormed
      <3> QED BY <1>2, <3>1, <3>2
    <2>4. r.buf[r.win[v].b].kind = p.buf[r.win[v].b].kind
      BY Zenon, <2>2 DEF Shrinks, Kept
    <2>5. r.win[v].kind = "minibuf" <=> r.buf[r.win[v].b].kind = "minibuf"
      BY Zenon, <2>1, <2>4 DEF WindowKept, WindowOK
    <2> QED BY Zenon, <2>2, <2>3, <2>5 DEF WindowOK
  <1>4. ASSUME NEW b \in Buffers(r), r.buf[b].kind = "minibuf" PROVE PromptOK(r, b)
    <2>1. b \in Buffers(p) /\ b \notin D /\ Kept(p.buf[b], r.buf[b], D, W)
      BY <1>2 DEF Shrinks
    <2>2. PromptOK(p, b) /\ p.buf[b].kind = "minibuf"
      BY Zenon, <1>4, <2>1 DEF WellFormed, Kept
    <2>3. r.buf[b].cb # "none"
      BY Zenon, <2>1, <2>2 DEF PromptOK, Kept
    <2>4. PICK w \in Windows(p) : Showing(p, b) = {w}
      BY Zenon, <2>2 DEF PromptOK
    <2>5. p.win[w].b = b /\ \A v \in Windows(p) : p.win[v].b = b => v = w
      BY <2>4 DEF Showing
    <2>6. p.win[w].kind = "minibuf"
      BY Zenon, <2>2, <2>5 DEF WellFormed, WindowOK
    <2>7. w \in Windows(r)
      BY <1>2, <2>1, <2>5, <2>6 DEF Shrinks
    <2>8. r.win[w].b = b
      BY Zenon, <2>5, <2>6, <2>7 DEF Shrinks, WindowKept
    <2>9. \A v \in Windows(r) : r.win[v].b = b => v = w
      <3>1. ASSUME NEW v \in Windows(r), r.win[v].b = b PROVE v = w
        <4>1. v \in Windows(p) /\ WindowKept(p, r, v, W)
          BY <1>2 DEF Shrinks
        <4>2. p.win[v].b = b
          BY Zenon, <2>2, <3>1, <4>1 DEF WindowKept
        <4> QED BY Zenon, <2>5, <4>1, <4>2
      <3> QED BY Zenon, <3>1
    <2>10. Showing(r, b) = {w}
      BY <2>7, <2>8, <2>9 DEF Showing
    <2>11. ASSUME ~r.buf[b].stale PROVE Holds(r, b)
      <3> DEFINE o == p.buf[b].opaque
      <3>1. /\ ~p.buf[b].stale /\ r.buf[b].opaque = o /\ r.buf[b].cb = p.buf[b].cb
            /\ p.buf[b].cb = "confirm" => o \notin D
            /\ p.buf[b].cb \in Prompts => o \notin W
        BY Zenon, <2>1, <2>11 DEF Kept
      <3>2. Holds(p, b)
        BY Zenon, <2>2, <3>1 DEF PromptOK
      <3>3. p.buf[b].cb \in Prompts \cup {"confirm"}
        <4>1. p.buf[b] \in EditBuffer
          BY Zenon, <2>1, StateParts DEF WellFormed
        <4>2. p.buf[b].cb \in Prompts \cup {"confirm", "none"}
          BY Zenon, <4>1 DEF EditBuffer
        <4> QED BY <2>2, <4>2 DEF PromptOK
      <3>4. CASE p.buf[b].cb = "confirm"
        <4>1. o \in Buffers(r) /\ p.buf[o].kind = "file"
          BY <1>2, <3>1, <3>2, <3>4 DEF Holds
        <4>2. r.buf[o].kind = "file"
          BY Zenon, <4>1 DEF Shrinks, Kept
        <4> QED BY Zenon, <3>1, <3>4, <4>1, <4>2 DEF Holds
      <3>5. CASE p.buf[b].cb # "confirm"
        <4>1. o \in Windows(r) /\ p.win[o].kind # "minibuf"
          BY <1>2, <3>1, <3>2, <3>3, <3>5 DEF Holds
        <4>2. r.win[o].kind # "minibuf"
          BY Zenon, <4>1 DEF Shrinks, WindowKept
        <4> QED BY Zenon, <3>1, <3>5, <4>1, <4>2 DEF Holds
      <3> QED BY Zenon, <3>4, <3>5
    <2> QED BY Zenon, <2>3, <2>7, <2>10, <2>11 DEF PromptOK
  <1> QED BY Zenon, <1>1, <1>3, <1>4 DEF WellFormed

(* Windows W are closed and with them goes what only they showed. *)
Gone(p, r, D, W) ==
    /\ r \in State /\ r.active \in Windows(r)
    /\ Frees(p.buf, r.buf, D, W) /\ Closes(p.win, r.win, W)
Apart(p, D, W) ==
    /\ Of(p, "normal") \ W # {}
    /\ \A w \in Windows(p) \cap W : p.win[w].kind = "minibuf" => p.win[w].b \in D
    /\ \A v \in Windows(p) \ W : p.win[v].b \notin D

LEMMA LaterKept ==
    ASSUME NEW x, NEW y, NEW D, NEW W, Later(x, y, D, W)
    PROVE  Kept(x, y, D, W)
  BY Zenon DEF Later, Kept

LEMMA GoneWell ==
    ASSUME NEW p, NEW r, NEW D, NEW W, WellFormed(p), Gone(p, r, D, W), Apart(p, D, W)
    PROVE  WellFormed(r)
  <1>1. Buffers(r) = Buffers(p) \ D /\ \A c \in Buffers(r) : Kept(p.buf[c], r.buf[c], D, W)
    BY Zenon, LaterKept DEF Gone, Frees, Buffers
  <1>2. Windows(r) = Windows(p) \ W
    BY Zenon DEF Gone, Closes, Windows
  <1>3. ASSUME NEW v \in Windows(r) PROVE WindowKept(p, r, v, W)
    <2>1. v \in Windows(p) \ W /\ p.win[v].b \in Buffers(p)
      BY <1>2 DEF WellFormed, WindowOK
    <2>2. /\ r.win[v].b = p.win[v].b /\ r.win[v].kind = p.win[v].kind
          /\ r.win[v].target = IF p.win[v].target \in W THEN NULL ELSE p.win[v].target
      BY Zenon DEF Gone, Closes, Windows
    <2>3. r.win[v].b \in Buffers(r)
      BY <1>1, <2>1, <2>2 DEF Apart
    <2>4. r.win[v].target \in ({p.win[v].target} \ W) \cup {NULL}
      BY <2>2
    <2> QED BY Zenon, <2>2, <2>3, <2>4 DEF WindowKept
  <1>4. Of(r, "normal") # {}
    <2>1. PICK w \in Of(p, "normal") \ W : TRUE
      BY Zenon DEF Apart
    <2>2. w \in Windows(r) /\ p.win[w].kind = "normal"
      BY <1>2, <2>1 DEF Of
    <2>3. w \in Of(r, "normal")
      BY Zenon, <1>3, <2>2 DEF Of, WindowKept
    <2> QED BY <2>3
  <1>5. Shrinks(p, r, D, W)
    BY Zenon, <1>1, <1>2, <1>3, <1>4 DEF Shrinks, Gone, Apart
  <1> QED BY Zenon, <1>5, ShrinksWell

(* Fields of a buffer, set: mb->cb and the flags. *)
Put(p, r, b, y) ==
    /\ r \in State /\ r.win = p.win /\ r.active = p.active /\ r.broken = p.broken
    /\ Buffers(r) = Buffers(p)
    /\ \A c \in Buffers(p) : r.buf[c] = IF c = b THEN y ELSE p.buf[c]

LEMMA PutFacts ==
    ASSUME NEW p \in State, NEW b \in Buffers(p), NEW y \in EditBuffer, NEW r,
           r = [p EXCEPT !.buf[b] = y]
    PROVE  Put(p, r, b, y)
  <1> DEFINE g == [p.buf EXCEPT ![b] = y]
  <1>1. p.buf \in [Buffers(p) -> EditBuffer] /\ Buffers(p) \in SUBSET (1 .. MaxBuffer)
    BY StateParts
  <1>2. r = [p EXCEPT !.buf = g]
    BY Zenon DEF State
  <1>3. g \in [Buffers(p) -> EditBuffer]
    BY <1>1
  <1>4. \A c \in Buffers(p) : g[c] = IF c = b THEN y ELSE p.buf[c]
    BY <1>1
  <1>5. DOMAIN g = Buffers(p)
    BY <1>1
  <1> HIDE DEF g
  <1>6. g \in BufMap
    BY Zenon, <1>1, <1>3 DEF BufMap
  <1>7. BufSet(p, r, g)
    BY Zenon, <1>2, <1>6, SetBuf
  <1> QED BY Zenon, <1>4, <1>5, <1>7 DEF BufSet, Put, Buffers

(* The flags of x are set to those of y. *)
Flags(x, y, t, m) ==
    /\ y \in EditBuffer /\ y.kind = x.kind /\ y.cb = x.cb /\ y.opaque = x.opaque
    /\ y.stale = x.stale /\ y.transient = t /\ y.modified = m

LEMMA FlagFacts ==
    ASSUME NEW x \in EditBuffer, NEW t \in BOOLEAN
    PROVE  /\ Flags(x, [x EXCEPT !.transient = t], t, x.modified)
           /\ Flags(x, [x EXCEPT !.modified = t], x.transient, t)
  <1>1. /\ x.kind \in {"file", "scratch", "help", "minibuf"} /\ x.transient \in BOOLEAN
        /\ x.modified \in BOOLEAN /\ x.cb \in Prompts \cup {"confirm", "none"}
        /\ x.opaque \in Addr /\ x.stale \in BOOLEAN
    BY Zenon DEF EditBuffer
  <1>2. ASSUME NEW y, y = [x EXCEPT !.transient = t]
        PROVE  Flags(x, y, t, x.modified)
    <2>1. y = [kind |-> x.kind, transient |-> t, modified |-> x.modified,
               cb |-> x.cb, opaque |-> x.opaque, stale |-> x.stale]
      BY Zenon, <1>2 DEF EditBuffer
    <2> QED BY Zenon, <1>1, <2>1 DEF EditBuffer, Flags
  <1>3. ASSUME NEW y, y = [x EXCEPT !.modified = t]
        PROVE  Flags(x, y, x.transient, t)
    <2>1. y = [kind |-> x.kind, transient |-> x.transient, modified |-> t,
               cb |-> x.cb, opaque |-> x.opaque, stale |-> x.stale]
      BY Zenon, <1>3 DEF EditBuffer
    <2> QED BY Zenon, <1>1, <2>1 DEF EditBuffer, Flags
  <1> QED BY Zenon, <1>2, <1>3

LEMMA MarkFacts ==
    ASSUME NEW p \in State, NEW b \in Buffers(p), NEW t \in BOOLEAN, NEW r,
           r = [p EXCEPT !.buf[b].transient = t]
    PROVE  Put(p, r, b, r.buf[b]) /\ Flags(p.buf[b], r.buf[b], t, p.buf[b].modified)
  <1> DEFINE x == p.buf[b]
             y == [x EXCEPT !.transient = t]
  <1>1. r = [p EXCEPT !.buf[b] = y]
    BY Zenon DEF State
  <1>2. x \in EditBuffer
    BY Zenon, StateParts
  <1> HIDE DEF x
  <1>3. Flags(x, y, t, x.modified)
    BY Zenon, <1>2, FlagFacts
  <1> HIDE DEF y
  <1>4. Put(p, r, b, y)
    BY Zenon, <1>1, <1>3, PutFacts DEF Flags
  <1>5. r.buf[b] = y
    BY Zenon, <1>4 DEF Put
  <1> QED BY Zenon, <1>3, <1>4, <1>5 DEF x

LEMMA ModifyFacts ==
    ASSUME NEW p \in State, NEW b \in Buffers(p), NEW t \in BOOLEAN, NEW r,
           r = [p EXCEPT !.buf[b].modified = t]
    PROVE  Put(p, r, b, r.buf[b]) /\ Flags(p.buf[b], r.buf[b], p.buf[b].transient, t)
  <1> DEFINE x == p.buf[b]
             y == [x EXCEPT !.modified = t]
  <1>1. r = [p EXCEPT !.buf[b] = y]
    BY Zenon DEF State
  <1>2. x \in EditBuffer
    BY Zenon, StateParts
  <1> HIDE DEF x
  <1>3. Flags(x, y, x.transient, t)
    BY Zenon, <1>2, FlagFacts
  <1> HIDE DEF y
  <1>4. Put(p, r, b, y)
    BY Zenon, <1>1, <1>3, PutFacts DEF Flags
  <1>5. r.buf[b] = y
    BY Zenon, <1>4 DEF Put
  <1> QED BY Zenon, <1>3, <1>4, <1>5 DEF x

LEMMA MarkWell ==
    ASSUME NEW p, WellFormed(p), NEW b, NEW t, NEW m, NEW r,
           Put(p, r, b, r.buf[b]), Flags(p.buf[b], r.buf[b], t, m)
    PROVE  WellFormed(r)
  <1> DEFINE e == {}
  <1>1. \A c \in Buffers(r) : Kept(p.buf[c], r.buf[c], e, e)
    BY DEF Put, Flags, Kept
  <1>2. Buffers(r) = Buffers(p) \ e /\ Windows(r) = Windows(p) \ e
    BY DEF Put, Windows
  <1>3. \A v \in Windows(r) : WindowKept(p, r, v, e)
    <2>1. ASSUME NEW v \in Windows(r) PROVE WindowKept(p, r, v, e)
      <3>1. r.win[v] = p.win[v] /\ v \in Windows(p) /\ p.win[v].b \in Buffers(r)
        BY Zenon DEF Put, WellFormed, WindowOK, Windows
      <3>2. r.win[v].target \in ({p.win[v].target} \ e) \cup {NULL}
        BY <3>1
      <3> QED BY Zenon, <3>1, <3>2 DEF WindowKept
    <2> QED BY Zenon, <2>1
  <1>4. r \in State /\ r.active \in Windows(r) /\ Of(r, "normal") # {}
    BY Zenon DEF Put, WellFormed, Of, Windows
  <1>5. Windows(p) \cap e = {}
    OBVIOUS
  <1> HIDE DEF e
  <1>6. Shrinks(p, r, e, e)
    BY Zenon, <1>1, <1>2, <1>3, <1>4, <1>5 DEF Shrinks
  <1> QED BY Zenon, <1>6, ShrinksWell

(* Another window becomes active; the access to freed memory is recorded. *)
LEMMA ActiveWell ==
    ASSUME NEW p, WellFormed(p), NEW w \in Windows(p), NEW r,
           ActiveSet(p, r, w) \/ BrokenSet(p, r, TRUE)
    PROVE  WellFormed(r)
  <1>1. /\ r \in State /\ r.active \in Windows(r) /\ Buffers(r) = Buffers(p)
        /\ Windows(r) = Windows(p) /\ r.buf = p.buf /\ r.win = p.win
    BY Zenon DEF ActiveSet, BrokenSet, Windows, Buffers, WellFormed
  <1>2. Of(r, "normal") # {}
    BY Zenon, <1>1 DEF Of, WellFormed
  <1>3. \A v \in Windows(r) : WindowOK(r, v)
    BY ZenonT(40), <1>1 DEF WindowOK, WellFormed
  <1>4. ASSUME NEW b \in Buffers(r), r.buf[b].kind = "minibuf" PROVE PromptOK(r, b)
    <2>1. PromptOK(p, b)
      BY Zenon, <1>1, <1>4 DEF WellFormed
    <2> QED BY Zenon, <1>1, <2>1 DEF PromptOK, Holds, Showing
  <1> QED BY Zenon, <1>1, <1>2, <1>3, <1>4 DEF WellFormed

(* switch_to_buffer to a buffer that is alive. *)
LEMMA SwitchWell ==
    ASSUME NEW p, WellFormed(p), NEW w \in Windows(p), p.win[w].kind # "minibuf",
           NEW b \in Buffers(p), p.buf[b].kind # "minibuf"
    PROVE  WellFormed(switch_to_buffer(p, w, b))
  <1> DEFINE r == switch_to_buffer(p, w, b)
             D == Left(p, w, b)
             e == {}
  <1>1. p \in State /\ p.win[w].b \in Buffers(p) /\ b \in Addr
    BY Zenon, StateParts DEF WellFormed, WindowOK
  <1>2. /\ r \in State /\ r.active = p.active /\ Shows(p.win, r.win, w, b)
        /\ Frees(p.buf, r.buf, D, e)
    BY Zenon, <1>1, SwitchFacts
  <1> HIDE DEF r
  <1>3. Windows(r) = Windows(p) /\ Windows(p) = Windows(p) \ e
    BY SMTT(30), Z3T(30), <1>2 DEF Shows, Windows
  <1>4. b \notin D /\ \A v \in Windows(p) \ {w} : p.win[v].b \notin D
    BY DEF Left
  <1>5. Windows(p) \cap e = {}
    OBVIOUS
  <1> HIDE DEF D, e
  <1>6. Buffers(r) = Buffers(p) \ D /\ \A c \in Buffers(r) : Kept(p.buf[c], r.buf[c], D, e)
    BY Zenon, <1>2, LaterKept DEF Frees, Buffers
  <1>7. ASSUME NEW v \in Windows(p) PROVE WindowKept(p, r, v, e)
    <2>1. /\ r.win[v].b = IF v = w THEN b ELSE p.win[v].b
          /\ r.win[v].kind = p.win[v].kind /\ r.win[v].target = p.win[v].target
      BY Zenon, <1>2 DEF Shows, Windows
    <2>2. p.win[v].b \in Buffers(p)
      BY Zenon DEF WellFormed, WindowOK
    <2>3. r.win[v].b \in Buffers(r)
      BY <1>4, <1>6, <2>1, <2>2
    <2>4. r.win[v].target \in ({p.win[v].target} \ e) \cup {NULL}
      BY <2>1 DEF e
    <2> QED BY Zenon, <2>1, <2>3, <2>4 DEF WindowKept
  <1>8. Of(r, "normal") # {}
    <2>1. Of(r, "normal") = Of(p, "normal")
      BY <1>3, <1>7 DEF Of, WindowKept
    <2> QED BY Zenon, <2>1 DEF WellFormed
  <1>9. r.active \in Windows(r)
    BY Zenon, <1>2, <1>3 DEF WellFormed
  <1>10. Shrinks(p, r, D, e)
    BY Zenon, <1>2, <1>3, <1>5, <1>6, <1>7, <1>8, <1>9 DEF Shrinks
  <1>11. WellFormed(r)
    BY Zenon, <1>10, ShrinksWell
  <1> QED BY Zenon, <1>11 DEF r

-----------------------------------------------------------------------------
(* eb_new and edit_new. *)
Creates(p, r, m, y) ==
    /\ r \in State /\ r.win = p.win /\ r.active = p.active /\ r.broken = p.broken
    /\ m \notin Buffers(p) /\ Buffers(r) = Buffers(p) \cup {m} /\ r.buf[m] = y
    /\ \A c \in Buffers(p) : r.buf[c] = p.buf[c]
Adds(p, r, w, y) ==
    /\ r \in State /\ r.buf = p.buf /\ r.broken = p.broken
    /\ w \notin Windows(p) /\ Windows(r) = Windows(p) \cup {w} /\ r.win[w] = y
    /\ \A v \in Windows(p) : r.win[v] = p.win[v]
Attaches(p, r, w, y) == Adds(p, r, w, y) /\ r.active = p.active

LEMMA NewFacts ==
    ASSUME NEW p \in State, SpareBuffer(p), NEW kind \in {"file", "scratch", "help", "minibuf"}
    PROVE  Creates(p, eb_new(p, kind), FreshBuffer(p), Buffer(kind))
  <1> DEFINE m == FreshBuffer(p)
             y == Buffer(kind)
             g == Added(p.buf, m, y)
             r == eb_new(p, kind)
  <1>1. r = [p EXCEPT !.buf = g]
    BY Zenon DEF eb_new
  <1>2. m \in (1 .. MaxBuffer) \ Buffers(p)
    BY Zenon, FreshAddresses
  <1>3. y \in EditBuffer
    BY Addresses DEF Buffer, EditBuffer
  <1>4. p.buf \in [Buffers(p) -> EditBuffer] /\ Buffers(p) \subseteq 1 .. MaxBuffer
    BY Zenon, StateParts
  <1> HIDE DEF m, y, r
  <1>5. g = [c \in Buffers(p) \cup {m} |-> IF c = m THEN y ELSE p.buf[c]]
    BY Zenon DEF Buffers, Added
  <1> HIDE DEF g
  <1>6. g \in [Buffers(p) \cup {m} -> EditBuffer]
    BY <1>3, <1>4, <1>5
  <1>7. Buffers(p) \cup {m} \in SUBSET (1 .. MaxBuffer)
    BY <1>2, <1>4
  <1>8. g \in BufMap
    BY Zenon, <1>6, <1>7 DEF BufMap
  <1>9. BufSet(p, r, g)
    BY Zenon, <1>1, <1>8, SetBuf
  <1>10. /\ DOMAIN g = Buffers(p) \cup {m} /\ g[m] = y
         /\ \A c \in Buffers(p) : g[c] = p.buf[c]
    BY <1>2, <1>5
  <1>11. Creates(p, r, m, y)
    BY Zenon, <1>2, <1>9, <1>10 DEF Creates, BufSet, Buffers
  <1> QED BY Zenon, <1>11 DEF r, m, y

LEMMA EditNewFacts ==
    ASSUME NEW p \in State, SpareWindow(p), NEW b \in Addr, NEW target \in Addr,
           NEW kind \in {"normal", "popup", "minibuf"}
    PROVE  Attaches(p, edit_new(p, b, kind, target), FreshWindow(p),
                    [b |-> b, kind |-> kind, target |-> target])
  <1> DEFINE w == FreshWindow(p)
             y == [b |-> b, kind |-> kind, target |-> target]
             g == Added(p.win, w, y)
             r == edit_new(p, b, kind, target)
  <1>1. r = [p EXCEPT !.win = g]
    BY Zenon DEF edit_new
  <1>2. w \in (1 .. MaxWindow) \ Windows(p)
    BY Zenon, FreshAddresses
  <1>3. y \in EditState
    BY DEF EditState
  <1>4. p.win \in [Windows(p) -> EditState] /\ Windows(p) \subseteq 1 .. MaxWindow
    BY Zenon, StateParts
  <1> HIDE DEF w, y, r
  <1>5. g = [c \in Windows(p) \cup {w} |-> IF c = w THEN y ELSE p.win[c]]
    BY Zenon DEF Windows, Added
  <1> HIDE DEF g
  <1>6. g \in [Windows(p) \cup {w} -> EditState]
    BY <1>3, <1>4, <1>5
  <1>7. Windows(p) \cup {w} \in SUBSET (1 .. MaxWindow)
    BY <1>2, <1>4
  <1>8. g \in WinMap
    BY Zenon, <1>6, <1>7 DEF WinMap
  <1>9. WinSet(p, r, g)
    BY Zenon, <1>1, <1>8, SetWin
  <1>10. /\ DOMAIN g = Windows(p) \cup {w} /\ g[w] = y
         /\ \A c \in Windows(p) : g[c] = p.win[c]
    BY <1>2, <1>5
  <1>11. /\ r \in State /\ r.buf = p.buf /\ r.broken = p.broken /\ r.active = p.active
         /\ r.win = g /\ Windows(r) = DOMAIN g /\ w \notin Windows(p)
    BY Zenon, <1>2, <1>9 DEF WinSet, Windows
  <1>12. \A v \in Windows(p) : r.win[v] = p.win[v]
    BY Zenon, <1>10, <1>11
  <1>13. Windows(r) = Windows(p) \cup {w} /\ r.win[w] = y
    BY Zenon, <1>10, <1>11
  <1>14. Attaches(p, r, w, y)
    BY Zenon, <1>11, <1>12, <1>13 DEF Attaches, Adds
  <1> QED BY Zenon, <1>14 DEF r, w, y

(* Nothing changes but what is added; a new prompt has a new minibuffer. *)
Grows(p, r) ==
    /\ r \in State /\ r.active \in Windows(r)
    /\ Buffers(p) \subseteq Buffers(r) /\ \A c \in Buffers(p) : r.buf[c] = p.buf[c]
    /\ Windows(p) \subseteq Windows(r) /\ \A v \in Windows(p) : r.win[v] = p.win[v]
    /\ \A v \in Windows(r) \ Windows(p) :
          WindowOK(r, v) /\ (r.win[v].kind = "minibuf" => r.win[v].b \notin Buffers(p))
    /\ \A b \in Buffers(r) \ Buffers(p) : r.buf[b].kind = "minibuf" => PromptOK(r, b)

LEMMA GrowsWell ==
    ASSUME NEW p, NEW r, WellFormed(p), Grows(p, r)
    PROVE  WellFormed(r)
  <1>1. /\ Buffers(p) \subseteq Buffers(r) /\ \A c \in Buffers(p) : r.buf[c] = p.buf[c]
        /\ Windows(p) \subseteq Windows(r) /\ \A v \in Windows(p) : r.win[v] = p.win[v]
    BY Zenon DEF Grows
  <1>2. ASSUME NEW v \in Windows(r) PROVE WindowOK(r, v)
    <2>1. CASE v \in Windows(p)
      <3>1. WindowOK(p, v) /\ r.win[v] = p.win[v]
        BY Zenon, <1>1, <2>1 DEF WellFormed
      <3>2. p.win[v].b \in Buffers(p) /\ p.win[v].target \in (Windows(p) \cup {NULL}) \ {v}
        BY Zenon, <3>1 DEF WindowOK
      <3>3. r.win[v].target \in (Windows(r) \cup {NULL}) \ {v} /\ r.win[v].b \in Buffers(r)
        BY <1>1, <3>1, <3>2
      <3> QED BY Zenon, <1>1, <3>1, <3>2, <3>3 DEF WindowOK
    <2>2. CASE v \notin Windows(p)
      BY <2>2 DEF Grows
    <2> QED BY Zenon, <2>1, <2>2
  <1>3. ASSUME NEW b \in Buffers(r), r.buf[b].kind = "minibuf" PROVE PromptOK(r, b)
    <2>1. CASE b \in Buffers(p)
      <3>1. PromptOK(p, b) /\ r.buf[b] = p.buf[b]
        BY Zenon, <1>1, <1>3, <2>1 DEF WellFormed
      <3>2. PICK w \in Windows(p) : Showing(p, b) = {w}
        BY Zenon, <3>1 DEF PromptOK
      <3>3. ASSUME NEW v \in Windows(r) \ Windows(p), r.win[v].b = b PROVE FALSE
        <4>1. WindowOK(r, v) /\ (r.win[v].kind = "minibuf" => r.win[v].b \notin Buffers(p))
          BY Zenon DEF Grows
        <4>2. r.win[v].kind = "minibuf" <=> r.buf[r.win[v].b].kind = "minibuf"
          BY Zenon, <4>1 DEF WindowOK
        <4> QED BY SMTT(30), Z3T(30), <1>3, <2>1, <3>3, <4>1, <4>2
      <3>4. Showing(r, b) = {w}
        <4>1. \A v \in Windows(r) : r.win[v].b = b => v \in Windows(p) /\ p.win[v].b = b
          BY <1>1, <3>3
        <4>2. p.win[w].b = b /\ \A v \in Windows(p) : p.win[v].b = b => v = w
          BY <3>2 DEF Showing
        <4>3. w \in Windows(r) /\ r.win[w].b = b
          BY <1>1, <4>2
        <4>4. \A v \in Windows(r) : r.win[v].b = b => v = w
          BY <4>1, <4>2
        <4> QED BY <4>3, <4>4 DEF Showing
      <3>5. ~r.buf[b].stale => Holds(r, b)
        <4>1. ~r.buf[b].stale => Holds(p, b)
          BY Zenon, <3>1 DEF PromptOK
        <4>2. Holds(p, b) => Holds(r, b)
          BY <1>1, <3>1 DEF Holds
        <4> QED BY Zenon, <4>1, <4>2
      <3>6. w \in Windows(r)
        BY <1>1
      <3> QED BY Zenon, <3>1, <3>4, <3>5, <3>6 DEF PromptOK
    <2>2. CASE b \notin Buffers(p)
      BY <1>3, <2>2 DEF Grows
    <2> QED BY Zenon, <2>1, <2>2
  <1>4. Of(r, "normal") # {}
    <2>1. Of(p, "normal") \subseteq Of(r, "normal")
      BY <1>1 DEF Of
    <2> QED BY <2>1 DEF WellFormed
  <1> QED BY Zenon, <1>2, <1>3, <1>4 DEF WellFormed, Grows

(* A buffer that is no minibuffer. *)
LEMMA CreateWell ==
    ASSUME NEW p, WellFormed(p), SpareBuffer(p), NEW kind \in {"file", "scratch", "help"}
    PROVE  WellFormed(eb_new(p, kind))
  <1> DEFINE m == FreshBuffer(p)
             y == Buffer(kind)
             r == eb_new(p, kind)
  <1>1. kind \in {"file", "scratch", "help", "minibuf"} /\ kind # "minibuf"
    OBVIOUS
  <1>2. Creates(p, r, m, y)
    BY Zenon, <1>1, NewFacts DEF WellFormed
  <1>3. y.kind = kind
    BY DEF Buffer
  <1> HIDE DEF m, y, r
  <1>4. Windows(r) = Windows(p) /\ Buffers(p) \subseteq Buffers(r)
        /\ Buffers(r) \ Buffers(p) = {m}
    BY <1>2 DEF Creates, Windows
  <1>5. Windows(r) \ Windows(p) = {}
    BY <1>4
  <1>6. r.buf[m].kind # "minibuf"
    BY Zenon, <1>1, <1>2, <1>3 DEF Creates
  <1>7. \A b \in Buffers(r) \ Buffers(p) : r.buf[b].kind # "minibuf"
    BY <1>4, <1>6
  <1>8. r \in State /\ r.active \in Windows(r) /\ \A v \in Windows(p) : r.win[v] = p.win[v]
    BY Zenon, <1>2, <1>4 DEF Creates, WellFormed
  <1>9. \A c \in Buffers(p) : r.buf[c] = p.buf[c]
    BY Zenon, <1>2 DEF Creates
  <1>10. Windows(p) \subseteq Windows(r) /\ \A v \in Windows(r) \ Windows(p) : FALSE
    BY <1>4
  <1>11. Grows(p, r)
    BY Zenon, <1>4, <1>7, <1>8, <1>9, <1>10 DEF Grows
  <1>12. WellFormed(r)
    BY Zenon, <1>11, GrowsWell
  <1> QED BY Zenon, <1>12 DEF r

(* A window that is no prompt. *)
LEMMA OpenWell ==
    ASSUME NEW p, WellFormed(p), NEW w, NEW y, NEW r, Adds(p, r, w, y),
           y.b \in Buffers(p), p.buf[y.b].kind # "minibuf", y.kind # "minibuf",
           y.target \in Windows(p) \cup {NULL}, r.active \in Windows(p) \cup {w}
    PROVE  WellFormed(r)
  <1>1. /\ r \in State /\ r.buf = p.buf /\ Buffers(r) = Buffers(p)
        /\ w \notin Windows(p) /\ Windows(r) = Windows(p) \cup {w} /\ r.win[w] = y
        /\ \A v \in Windows(p) : r.win[v] = p.win[v]
    BY Zenon DEF Adds, Buffers
  <1>2. w # NULL
    <2>1. w \in Windows(r)
      BY <1>1
    <2> QED BY Zenon, <1>1, <2>1, StateParts
  <1>3. WindowOK(r, w)
    <2>1. r.win[w].target \in (Windows(r) \cup {NULL}) \ {w}
      BY <1>1, <1>2
    <2> QED BY Zenon, <1>1, <2>1 DEF WindowOK
  <1>4. /\ Buffers(p) \subseteq Buffers(r) /\ Buffers(r) \ Buffers(p) = {}
        /\ Windows(p) \subseteq Windows(r) /\ Windows(r) \ Windows(p) = {w}
        /\ r.active \in Windows(r)
    BY <1>1
  <1>5. \A b \in Buffers(r) \ Buffers(p) : FALSE
    BY <1>4
  <1>6. \A v \in Windows(r) \ Windows(p) : WindowOK(r, v) /\ r.win[v].kind # "minibuf"
    BY <1>1, <1>3, <1>4
  <1>7. \A c \in Buffers(p) : r.buf[c] = p.buf[c]
    BY Zenon, <1>1
  <1>8. Grows(p, r)
    BY Zenon, <1>1, <1>4, <1>5, <1>6, <1>7 DEF Grows
  <1> QED BY Zenon, <1>8, GrowsWell

(* minibuffer_edit outside of a minibuffer. *)
Opens(p, r, w, cb, o) ==
    LET m == FreshBuffer(p)
        n == FreshWindow(p)
    IN  /\ r \in State /\ r.broken = p.broken /\ r.active = n
        /\ m \notin Buffers(p) /\ Buffers(r) = Buffers(p) \cup {m}
        /\ r.buf[m] = [Buffer("minibuf") EXCEPT !.cb = cb, !.opaque = o]
        /\ \A c \in Buffers(p) : r.buf[c] = p.buf[c]
        /\ n \notin Windows(p) /\ Windows(r) = Windows(p) \cup {n}
        /\ r.win[n] = [b |-> m, kind |-> "minibuf", target |-> w]
        /\ \A v \in Windows(p) : r.win[v] = p.win[v]

Callbacks == Prompts \cup {"confirm"}
MinibufRecord(cb, o) == [kind |-> "minibuf", transient |-> FALSE, modified |-> FALSE,
                         cb |-> cb, opaque |-> o, stale |-> FALSE]
Waits(y, cb, o) ==
    /\ y \in EditBuffer /\ y.kind = "minibuf" /\ y.cb = cb /\ y.opaque = o
    /\ ~y.stale /\ ~y.modified /\ ~y.transient

LEMMA RecordWaits ==
    ASSUME NEW cb \in Callbacks, NEW o \in Addr
    PROVE  Waits(MinibufRecord(cb, o), cb, o)
  <1>1. MinibufRecord(cb, o) \in EditBuffer
    BY DEF MinibufRecord, EditBuffer, Callbacks
  <1>2. LET y == MinibufRecord(cb, o)
        IN  y.kind = "minibuf" /\ y.cb = cb /\ y.opaque = o
            /\ ~y.stale /\ ~y.modified /\ ~y.transient
    BY DEF MinibufRecord
  <1> QED BY Zenon, <1>1, <1>2 DEF Waits

LEMMA MinibufFields ==
    ASSUME NEW cb \in Callbacks, NEW o \in Addr, NEW y,
           y = [Buffer("minibuf") EXCEPT !.cb = cb, !.opaque = o]
    PROVE  Waits(y, cb, o)
  <1>1. y = MinibufRecord(cb, o)
    BY Zenon DEF Buffer, MinibufRecord
  <1>2. Waits(MinibufRecord(cb, o), cb, o)
    BY Zenon, RecordWaits
  <1> QED BY Zenon, <1>1, <1>2

LEMMA OpenFacts ==
    ASSUME NEW p \in State, SpareBuffer(p), SpareWindow(p), NEW w \in Windows(p),
           p.win[w].kind # "minibuf", NEW cb \in Callbacks, NEW o \in Addr
    PROVE  Opens(p, minibuffer_edit(p, w, cb, o), w, cb, o)
  <1> DEFINE m == FreshBuffer(p)
             n == FreshWindow(p)
             k == "minibuf"
             x == Buffer(k)
             y == [x EXCEPT !.cb = cb, !.opaque = o]
             z == [b |-> m, kind |-> k, target |-> w]
             p1 == eb_new(p, k)
             p2 == [p1 EXCEPT !.buf[m].cb = cb, !.buf[m].opaque = o]
             p3 == edit_new(p2, m, k, w)
             r == minibuffer_edit(p, w, cb, o)
  <1>1. r = [p3 EXCEPT !.active = n]
    BY Zenon DEF minibuffer_edit
  <1> HIDE DEF r, p3
  <1>2. k \in {"file", "scratch", "help", "minibuf"} /\ k \in {"normal", "popup", "minibuf"}
    OBVIOUS
  <1>5. y \in EditBuffer
    <2>1. y = [Buffer("minibuf") EXCEPT !.cb = cb, !.opaque = o]
      BY Zenon
    <2> HIDE DEF y
    <2>2. Waits(y, cb, o)
      BY Zenon, <2>1, MinibufFields
    <2> QED BY Zenon, <2>2 DEF Waits
  <1> HIDE DEF k
  <1>6. Creates(p, p1, m, x)
    BY Zenon, <1>2, NewFacts
  <1>7. m \in Buffers(p1) /\ p1.buf[m] = x /\ p1 \in State
    BY <1>6 DEF Creates
  <1> HIDE DEF p1, m, x
  <1>8. p2 = [p1 EXCEPT !.buf[m] = y]
    BY Zenon, <1>7 DEF State
  <1> HIDE DEF p2, y
  <1>9. Put(p1, p2, m, y)
    BY Zenon, <1>5, <1>7, <1>8, PutFacts
  <1>10. p2 \in State /\ Windows(p2) = Windows(p)
    BY Zenon, <1>6, <1>9 DEF Put, Creates, Windows
  <1>11. FreshWindow(p2) = n /\ SpareWindow(p2)
    BY Zenon, <1>10 DEF FreshWindow, SpareWindow
  <1>12. m \in Addr /\ w \in Addr /\ n \in Addr
    <2>1. w \in Addr
      BY Zenon, StateParts
    <2>2. m \in Addr
      BY Zenon, <1>7, StateParts
    <2>3. n \in 1 .. MaxWindow
      BY FreshAddresses
    <2> QED BY <2>1, <2>2, <2>3, Addresses
  <1>13. Adds(p2, p3, n, z) /\ p3.active = p2.active
    <2>1. Attaches(p2, p3, n, z)
      BY Zenon, <1>2, <1>10, <1>11, <1>12, EditNewFacts DEF p3
    <2> QED BY Zenon, <2>1 DEF Attaches
  <1> HIDE DEF z, n
  <1>14. ActiveSet(p3, r, n)
    BY Zenon, <1>1, <1>12, <1>13, SetActive DEF Adds
  <1>15. /\ r \in State /\ r.broken = p.broken /\ r.active = n /\ r.buf = p2.buf
         /\ r.win = p3.win
    BY Zenon, <1>6, <1>9, <1>13, <1>14 DEF ActiveSet, Adds, Put, Creates
  <1>16. /\ m \notin Buffers(p) /\ Buffers(r) = Buffers(p) \cup {m} /\ r.buf[m] = y
         /\ \A c \in Buffers(p) : r.buf[c] = p.buf[c]
    <2>1. /\ m \notin Buffers(p) /\ Buffers(p1) = Buffers(p) \cup {m}
          /\ \A c \in Buffers(p) : p1.buf[c] = p.buf[c]
      BY Zenon, <1>6 DEF Creates
    <2>2. /\ Buffers(r) = Buffers(p1)
          /\ \A c \in Buffers(p1) : r.buf[c] = IF c = m THEN y ELSE p1.buf[c]
      BY Zenon, <1>9, <1>15 DEF Put, Buffers
    <2> QED BY <2>1, <2>2
  <1>17. /\ n \notin Windows(p) /\ Windows(r) = Windows(p) \cup {n} /\ r.win[n] = z
         /\ \A v \in Windows(p) : r.win[v] = p.win[v]
    <2>1. p2.win = p.win
      BY Zenon, <1>6, <1>9 DEF Put, Creates
    <2> QED BY Zenon, <1>10, <1>13, <1>15, <2>1 DEF Adds, Windows
  <1>18. y = [Buffer("minibuf") EXCEPT !.cb = cb, !.opaque = o]
         /\ z = [b |-> m, kind |-> "minibuf", target |-> w]
    BY Zenon DEF y, z, x, k
  <1>19. Opens(p, r, w, cb, o)
    BY Zenon, <1>15, <1>16, <1>17, <1>18 DEF Opens, m, n
  <1> QED BY Zenon, <1>19 DEF r

(* What a callback needs is alive when the prompt is opened. *)
Serves(p, cb, o) ==
    IF cb = "confirm" THEN o \in Buffers(p) /\ p.buf[o].kind = "file"
    ELSE o \in Windows(p) /\ p.win[o].kind # "minibuf"

LEMMA PromptWell ==
    ASSUME NEW p, WellFormed(p), NEW w \in Windows(p), NEW cb \in Callbacks, NEW o \in Addr,
           Serves(p, cb, o), NEW r, Opens(p, r, w, cb, o)
    PROVE  WellFormed(r)
  <1> DEFINE m == FreshBuffer(p)
             n == FreshWindow(p)
             y == [Buffer("minibuf") EXCEPT !.cb = cb, !.opaque = o]
             z == [b |-> m, kind |-> "minibuf", target |-> w]
  <1>1. Waits(y, cb, o)
    BY Zenon, MinibufFields
  <1>2. z.b = m /\ z.kind = "minibuf" /\ z.target = w
    OBVIOUS
  <1> HIDE DEF y, z
  <1>3. /\ r \in State /\ r.active = n
        /\ m \notin Buffers(p) /\ Buffers(r) = Buffers(p) \cup {m} /\ r.buf[m] = y
        /\ \A c \in Buffers(p) : r.buf[c] = p.buf[c]
        /\ n \notin Windows(p) /\ Windows(r) = Windows(p) \cup {n} /\ r.win[n] = z
        /\ \A v \in Windows(p) : r.win[v] = p.win[v]
    BY Zenon DEF Opens, y, z
  <1> HIDE DEF m, n
  <1>4. /\ m \in Buffers(r) /\ n \in Windows(r) /\ Buffers(p) \subseteq Buffers(r)
        /\ Windows(p) \subseteq Windows(r) /\ Buffers(r) \ Buffers(p) = {m}
        /\ Windows(r) \ Windows(p) = {n} /\ w \in Windows(r) /\ w # n
    BY <1>3
  <1>5. WindowOK(r, n)
    <2>1. r.win[n].target \in (Windows(r) \cup {NULL}) \ {n}
      BY <1>2, <1>3, <1>4
    <2> QED BY Zenon, <1>1, <1>2, <1>3, <1>4, <2>1 DEF WindowOK, Waits
  <1>6. PromptOK(r, m)
    <2>1. \A v \in Windows(p) : r.win[v].b # m
      <3>1. ASSUME NEW v \in Windows(p) PROVE r.win[v].b # m
        <4>1. p.win[v].b \in Buffers(p)
          BY Zenon DEF WellFormed, WindowOK
        <4>2. m \notin Buffers(p) /\ r.win[v] = p.win[v]
          BY Zenon, <1>3
        <4> QED BY Zenon, <4>1, <4>2
      <3> QED BY Zenon, <3>1
    <2>2. r.win[n].b = m /\ \A v \in Windows(r) : r.win[v].b = m => v = n
      BY <1>2, <1>3, <2>1
    <2>3. Showing(r, m) = {n}
      BY <1>4, <2>2 DEF Showing
    <2>4. r.buf[m].cb # "none" /\ r.buf[m].cb = cb /\ r.buf[m].opaque = o
      BY <1>1, <1>3 DEF Waits, Callbacks, Prompts
    <2>5. Holds(r, m)
      BY SMTT(30), Z3T(30), <1>3, <1>4, <2>4 DEF Holds, Serves
    <2> QED BY Zenon, <1>4, <2>3, <2>4, <2>5 DEF PromptOK
  <1>7. \A v \in Windows(r) \ Windows(p) :
           WindowOK(r, v) /\ (r.win[v].kind = "minibuf" => r.win[v].b \notin Buffers(p))
    BY <1>2, <1>3, <1>4, <1>5
  <1>8. \A b \in Buffers(r) \ Buffers(p) : PromptOK(r, b)
    BY <1>4, <1>6
  <1>9. r.active \in Windows(r)
    BY Zenon, <1>3, <1>4
  <1>10. Grows(p, r)
    BY Zenon, <1>3, <1>4, <1>7, <1>8, <1>9 DEF Grows
  <1> QED BY Zenon, <1>10, GrowsWell

(* minibuffer_edit *)
LEMMA AskWell ==
    ASSUME NEW p, WellFormed(p), SpareBuffer(p), SpareWindow(p), NEW w \in Windows(p),
           NEW cb \in Callbacks, NEW o \in Addr,
           p.win[w].kind # "minibuf" => Serves(p, cb, o)
    PROVE  WellFormed(minibuffer_edit(p, w, cb, o))
  <1>1. CASE p.win[w].kind = "minibuf"
    BY Zenon, <1>1 DEF minibuffer_edit
  <1>2. CASE p.win[w].kind # "minibuf"
    <2>1. Opens(p, minibuffer_edit(p, w, cb, o), w, cb, o)
      BY Zenon, <1>2, OpenFacts DEF WellFormed
    <2> QED BY Zenon, <1>2, <2>1, PromptWell
  <1> QED BY Zenon, <1>1, <1>2

-----------------------------------------------------------------------------
(* qe_kill_buffer: the windows that show b show another buffer. *)
Moves(f, g, b, new) ==
    /\ g \in WinMap /\ DOMAIN g = DOMAIN f
    /\ \A v \in DOMAIN f : /\ g[v].b = IF f[v].b = b THEN new ELSE f[v].b
                           /\ g[v].kind = f[v].kind /\ g[v].target = f[v].target

LEMMA MoveFacts ==
    ASSUME NEW f \in WinMap, NEW b, NEW new \in Addr, NEW g,
           g = [w \in DOMAIN f |-> IF f[w].b = b THEN [f[w] EXCEPT !.b = new] ELSE f[w]]
    PROVE  Moves(f, g, b, new)
  <1> DEFINE G(w) == IF f[w].b = b THEN [f[w] EXCEPT !.b = new] ELSE f[w]
  <1>1. DOMAIN f \in SUBSET (1 .. MaxWindow) /\ \A v \in DOMAIN f : f[v] \in EditState
    BY Maps
  <1>2. DOMAIN g = DOMAIN f /\ \A v \in DOMAIN f : g[v] = G(v)
    BY Zenon
  <1>3. g = [w \in DOMAIN f |-> G(w)]
    BY Zenon
  <1>4. ASSUME NEW v \in DOMAIN f
        PROVE  /\ G(v) \in EditState /\ G(v).b = IF f[v].b = b THEN new ELSE f[v].b
               /\ G(v).kind = f[v].kind /\ G(v).target = f[v].target
    <2>1. f[v] \in EditState
      BY Zenon, <1>1
    <2>2. CASE f[v].b = b
      <3> DEFINE x == f[v]
                 y == [x EXCEPT !.b = new]
      <3>1. G(v) = y
        BY Zenon, <2>2
      <3> HIDE DEF G, x
      <3>2. y \in EditState /\ y.b = new /\ y.kind = x.kind /\ y.target = x.target
        BY <2>1, WindowShows DEF x
      <3> HIDE DEF y
      <3> QED BY Zenon, <2>2, <3>1, <3>2 DEF x
    <2>3. CASE f[v].b # b
      <3>1. G(v) = f[v]
        BY Zenon, <2>3
      <3> HIDE DEF G
      <3> QED BY Zenon, <2>1, <2>3, <3>1
    <2> QED BY Zenon, <2>2, <2>3
  <1> HIDE DEF G
  <1>5. g \in [DOMAIN f -> EditState]
    BY <1>3, <1>4
  <1>6. g \in WinMap
    BY Zenon, <1>1, <1>5 DEF WinMap
  <1> QED BY Zenon, <1>2, <1>4, <1>6 DEF Moves

Kills(p, r, b, new) ==
    /\ r \in State /\ r.active = p.active
    /\ Frees(p.buf, r.buf, {b}, {}) /\ Moves(p.win, r.win, b, new)

LEMMA KillsWell ==
    ASSUME NEW p, WellFormed(p), NEW b \in Buffers(p), p.buf[b].kind # "minibuf",
           NEW new, NEW r, Kills(p, r, b, new),
           Showing(p, b) # {} => new \in Buffers(p) \ {b} /\ p.buf[new].kind # "minibuf"
    PROVE  WellFormed(r)
  <1> DEFINE e == {}
             D == {b}
  <1>1. r \in State /\ r.active = p.active /\ Frees(p.buf, r.buf, D, e)
        /\ Moves(p.win, r.win, b, new)
    BY Zenon DEF Kills
  <1>2. Windows(r) = Windows(p) /\ Windows(p) = Windows(p) \ e
    BY <1>1 DEF Moves, Windows
  <1>3. Windows(p) \cap e = {}
    OBVIOUS
  <1>4. DOMAIN r.buf = Buffers(p) \ {b}
    BY Zenon, <1>1 DEF Frees, Buffers
  <1> HIDE DEF e, D
  <1>5. Buffers(r) = Buffers(p) \ D /\ \A c \in Buffers(r) : Kept(p.buf[c], r.buf[c], D, e)
    BY Zenon, <1>1, LaterKept DEF Frees, Buffers
  <1>6. ASSUME NEW v \in Windows(p) PROVE WindowKept(p, r, v, e)
    <2>1. /\ r.win[v].b = IF p.win[v].b = b THEN new ELSE p.win[v].b
          /\ r.win[v].kind = p.win[v].kind /\ r.win[v].target = p.win[v].target
      BY Zenon, <1>1 DEF Moves, Windows
    <2>2. p.win[v].b \in Buffers(p)
          /\ (p.win[v].kind = "minibuf" <=> p.buf[p.win[v].b].kind = "minibuf")
      BY Zenon DEF WellFormed, WindowOK
    <2>3. p.win[v].b = b => new \in Buffers(p) \ {b} /\ p.buf[new].kind # "minibuf"
      BY DEF Showing
    <2>4. r.win[v].b \in Buffers(r)
      BY Zenon, <1>4, <2>1, <2>2, <2>3 DEF Buffers
    <2>5. r.win[v].target \in ({p.win[v].target} \ e) \cup {NULL}
      BY SMTT(30), Z3T(30), <2>1 DEF e
    <2>6. r.win[v].b # p.win[v].b => /\ p.win[v].kind # "minibuf"
                                    /\ p.buf[r.win[v].b].kind # "minibuf"
      BY <2>1, <2>2, <2>3
    <2> QED BY Zenon, <2>1, <2>4, <2>5, <2>6 DEF WindowKept
  <1>7. Of(r, "normal") # {}
    <2>1. PICK w \in Of(p, "normal") : TRUE
      BY Zenon DEF WellFormed
    <2>2. w \in Windows(p) /\ p.win[w].kind = "normal"
      BY DEF Of
    <2>3. w \in Of(r, "normal")
      BY Zenon, <1>2, <1>6, <2>2 DEF Of, WindowKept
    <2> QED BY <2>3
  <1>8. r.active \in Windows(r)
    BY Zenon, <1>1, <1>2 DEF WellFormed
  <1>9. Shrinks(p, r, D, e)
    BY Zenon, <1>1, <1>2, <1>3, <1>5, <1>6, <1>7, <1>8 DEF Shrinks
  <1> QED BY Zenon, <1>9, ShrinksWell

(* What qe_kill_buffer of a buffer that is alive does, whatever it shows   *)
(* instead.                                                                *)
KillOutcome(p, r, b) ==
    /\ WellFormed(r) /\ r.active = p.active /\ Windows(r) = Windows(p) /\ b \notin Buffers(r)
    /\ \A v \in Windows(p) : r.win[v].kind = p.win[v].kind /\ r.win[v].target = p.win[v].target
    /\ \A c \in Buffers(p) \ {b} : c \in Buffers(r) /\ Later(p.buf[c], r.buf[c], {b}, {})
    /\ \A c \in Buffers(r) \ Buffers(p) : Later(Buffer("scratch"), r.buf[c], {b}, {})
    /\ ~(p.buf[b].transient /\ Showing(p, b) # {}) => r.broken = p.broken
Killable(p, b, b1) ==
    /\ b \in Buffers(p) /\ p.buf[b].kind # "minibuf"
    /\ Named(p) \ {b} = {} => SpareBuffer(p)
    /\ Named(p) \ {b} # {} => b1 \in Named(p) \ {b}

LEMMA KillOf ==
    ASSUME NEW p, WellFormed(p), NEW b \in Buffers(p), p.buf[b].kind # "minibuf",
           NEW n, n = p \/ Creates(p, n, FreshBuffer(p), Buffer("scratch")), WellFormed(n),
           NEW new, NEW r, Kills(n, r, b, new),
           Showing(p, b) # {} => new \in Buffers(n) \ {b} /\ n.buf[new].kind # "minibuf",
           ~(p.buf[b].transient /\ Showing(p, b) # {}) => r.broken = p.broken
    PROVE  KillOutcome(p, r, b)
  <1>1. /\ n.win = p.win /\ n.active = p.active /\ Buffers(p) \subseteq Buffers(n)
        /\ \A c \in Buffers(p) : n.buf[c] = p.buf[c]
        /\ \A c \in Buffers(n) \ Buffers(p) : n.buf[c] = Buffer("scratch")
    <2>1. CASE n = p
      BY <2>1
    <2>2. CASE Creates(p, n, FreshBuffer(p), Buffer("scratch"))
      BY <2>2 DEF Creates
    <2> QED BY Zenon, <2>1, <2>2
  <1>2. Windows(n) = Windows(p) /\ Showing(n, b) = Showing(p, b) /\ b \in Buffers(n)
        /\ n.buf[b].kind # "minibuf"
    BY <1>1 DEF Windows, Showing
  <1>3. WellFormed(r)
    BY Zenon, <1>2, KillsWell
  <1>4. r.active = p.active /\ Windows(r) = Windows(p)
    BY Zenon, <1>1 DEF Kills, Moves, Windows
  <1>5. \A v \in Windows(p) : r.win[v].kind = p.win[v].kind /\ r.win[v].target = p.win[v].target
    BY Zenon, <1>1 DEF Kills, Moves, Windows
  <1>6. /\ Buffers(r) = Buffers(n) \ {b}
        /\ \A c \in Buffers(r) : Later(n.buf[c], r.buf[c], {b}, {})
    BY Zenon DEF Kills, Frees, Buffers
  <1>7. \A c \in Buffers(p) \ {b} : c \in Buffers(r) /\ Later(p.buf[c], r.buf[c], {b}, {})
    <2>1. ASSUME NEW c \in Buffers(p) \ {b}
          PROVE  c \in Buffers(r) /\ Later(p.buf[c], r.buf[c], {b}, {})
      <3>1. c \in Buffers(r) /\ n.buf[c] = p.buf[c]
        BY <1>1, <1>6
      <3>2. Later(n.buf[c], r.buf[c], {b}, {})
        BY Zenon, <1>6, <3>1
      <3> QED BY Zenon, <3>1, <3>2
    <2> QED BY Zenon, <2>1
  <1>8. \A c \in Buffers(r) \ Buffers(p) : Later(Buffer("scratch"), r.buf[c], {b}, {})
    <2>1. ASSUME NEW c \in Buffers(r) \ Buffers(p)
          PROVE  Later(Buffer("scratch"), r.buf[c], {b}, {})
      <3>1. n.buf[c] = Buffer("scratch")
        BY <1>1, <1>6
      <3>2. Later(n.buf[c], r.buf[c], {b}, {})
        BY Zenon, <1>6, <2>1
      <3> QED BY Zenon, <3>1, <3>2
    <2> QED BY Zenon, <2>1
  <1>9. b \notin Buffers(r)
    BY <1>6
  <1> QED BY Zenon, <1>3, <1>4, <1>5, <1>7, <1>8, <1>9 DEF KillOutcome

LEMMA KillFacts ==
    ASSUME NEW p, WellFormed(p), NEW b, NEW b1, Killable(p, b, b1)
    PROVE  KillOutcome(p, qe_kill_buffer(p, b, b1), b)
  <1> DEFINE others == Named(p) \ {b}
             k == "scratch"
             p1 == IF others = {} THEN eb_new(p, k) ELSE p
             new == IF others = {} THEN FreshBuffer(p) ELSE b1
             g == [w \in Windows(p) |->
                     IF p.win[w].b = b THEN [p.win[w] EXCEPT !.b = new] ELSE p.win[w]]
             p2 == [p1 EXCEPT !.win = g]
             f == eb_free(p2, b)
             r == qe_kill_buffer(p, b, b1)
  <1>1. p \in State /\ b \in Buffers(p) /\ p.buf[b].kind # "minibuf"
    BY Zenon DEF WellFormed, Killable
  <1>2. r = IF Showing(p, b) = {} THEN eb_free(p, b)
            ELSE IF p.buf[b].transient THEN Broken(f) ELSE f
    BY Zenon, <1>1 DEF qe_kill_buffer
  <1> HIDE DEF r, f
  <1>3. CASE Showing(p, b) = {}
    <2>1. Unloads(p, r, {b})
      BY Zenon, <1>1, <1>2, <1>3, FreeFacts
    <2>2. Moves(p.win, r.win, b, NULL)
      <3>1. r.win = p.win /\ p.win \in WinMap
        BY Zenon, <1>1, <2>1, StateParts DEF Unloads
      <3>2. \A v \in DOMAIN p.win : p.win[v].b # b
        BY <1>3 DEF Showing, Windows
      <3> QED BY Zenon, <3>1, <3>2 DEF Moves
    <2>3. Kills(p, r, b, NULL) /\ r.broken = p.broken
      BY Zenon, <2>1, <2>2 DEF Kills, Unloads
    <2>4. KillOutcome(p, r, b)
      BY Zenon, <1>1, <1>3, <2>3, KillOf
    <2> QED BY Zenon, <2>4 DEF r
  <1>4. CASE Showing(p, b) # {}
    <2>1. /\ p1 = p \/ Creates(p, p1, FreshBuffer(p), Buffer("scratch"))
          /\ WellFormed(p1) /\ p1.win = p.win /\ p1.active = p.active /\ p1.broken = p.broken
          /\ new \in Buffers(p1) \ {b} /\ p1.buf[new].kind # "minibuf"
          /\ b \in Buffers(p1)
      <3>1. CASE others = {}
        <4>1. /\ k \in {"file", "scratch", "help", "minibuf"}
              /\ k \in {"file", "scratch", "help"} /\ Buffer(k).kind # "minibuf"
          BY DEF Buffer
        <4>2. SpareBuffer(p) /\ p1 = eb_new(p, k) /\ new = FreshBuffer(p)
          BY Zenon, <3>1 DEF Killable
        <4> HIDE DEF p1, new, others, k
        <4>3. Creates(p, p1, new, Buffer(k)) /\ WellFormed(p1)
          BY Zenon, <1>1, <4>1, <4>2, NewFacts, CreateWell
        <4>4. /\ p1.win = p.win /\ p1.active = p.active /\ p1.broken = p.broken
              /\ p1.buf[new].kind # "minibuf"
          BY Zenon, <4>1, <4>3 DEF Creates
        <4>5. new \in Buffers(p1) \ {b} /\ b \in Buffers(p1)
          BY <1>1, <4>3 DEF Creates
        <4> QED BY Zenon, <4>2, <4>3, <4>4, <4>5 DEF k
      <3>2. CASE others # {}
        <4>1. p1 = p /\ new = b1 /\ b1 \in Named(p) \ {b}
          BY Zenon, <3>2 DEF Killable
        <4>2. b1 \in Buffers(p) \ {b} /\ p.buf[b1].kind # "minibuf"
          BY <4>1 DEF Named
        <4> QED BY Zenon, <1>1, <4>1, <4>2
      <3> QED BY Zenon, <3>1, <3>2
    <2> HIDE DEF p1, new
    <2>2. new \in Addr /\ p.win \in WinMap /\ p1 \in State
      BY Zenon, <1>1, <2>1, StateParts DEF WellFormed
    <2>3. g = [w \in DOMAIN p.win |->
                 IF p.win[w].b = b THEN [p.win[w] EXCEPT !.b = new] ELSE p.win[w]]
      BY Zenon DEF Windows
    <2> HIDE DEF g
    <2>4. Moves(p.win, g, b, new)
      BY Zenon, <2>2, <2>3, MoveFacts
    <2>5. g \in WinMap
      BY Zenon, <2>4 DEF Moves
    <2>6. WinSet(p1, p2, g)
      BY Zenon, <2>2, <2>5, SetWin
    <2> HIDE DEF p2
    <2>7. p2 \in State /\ b \in Buffers(p2)
      BY Zenon, <2>1, <2>6 DEF WinSet, Buffers
    <2>8. Unloads(p2, f, {b})
      BY Zenon, <2>7, FreeFacts DEF f
    <2>9. Kills(p1, f, b, new) /\ f.broken = p.broken /\ f \in State
      BY Zenon, <2>1, <2>4, <2>6, <2>8 DEF Kills, Unloads, WinSet
    <2>10. Kills(p1, r, b, new) /\ (~p.buf[b].transient => r.broken = p.broken)
      <3>1. CASE p.buf[b].transient
        <4>1. r = Broken(f)
          BY Zenon, <1>2, <1>4, <3>1
        <4>2. BrokenSet(f, r, TRUE)
          BY Zenon, <2>9, <4>1, SetBroken
        <4> QED BY Zenon, <2>9, <3>1, <4>2 DEF BrokenSet, Kills
      <3>2. CASE ~p.buf[b].transient
        <4>1. r = f
          BY Zenon, <1>2, <1>4, <3>2
        <4> QED BY Zenon, <2>9, <4>1
      <3> QED BY Zenon, <3>1, <3>2
    <2>11. KillOutcome(p, r, b)
      BY Zenon, <1>1, <1>4, <2>1, <2>10, KillOf
    <2> QED BY Zenon, <2>11 DEF r
  <1> QED BY Zenon, <1>3, <1>4

-----------------------------------------------------------------------------
(* do_minibuffer_exit: the window of the prompt and its minibuffer go, and *)
(* leave room for others.                                                  *)
Ended(p, c) ==
    /\ WellFormed(c) /\ c.broken = p.broken
    /\ Gone(p, c, {p.win[p.active].b}, {p.active})
    /\ SpareBuffer(c) /\ SpareWindow(c)

LEMMA AnsweredBuffer ==
    ASSUME NEW x \in EditBuffer, NEW y, y = [x EXCEPT !.transient = TRUE, !.cb = "none"]
    PROVE  y \in EditBuffer /\ y.transient
  <1>1. y = [kind |-> x.kind, transient |-> TRUE, modified |-> x.modified,
             cb |-> "none", opaque |-> x.opaque, stale |-> x.stale]
    BY Zenon DEF EditBuffer
  <1>2. /\ x.kind \in {"file", "scratch", "help", "minibuf"}
        /\ x.modified \in BOOLEAN /\ x.opaque \in Addr /\ x.stale \in BOOLEAN
    BY DEF EditBuffer
  <1>3. "none" \in Prompts \cup {"confirm", "none"}
    OBVIOUS
  <1> QED BY Zenon, <1>1, <1>2, <1>3 DEF EditBuffer

LEMMA EndFacts ==
    ASSUME NEW p, WellFormed(p), p.win[p.active].kind = "minibuf",
           NEW first \in Windows(p) \ {p.active}, NEW n,
           n = [p EXCEPT !.buf[p.win[p.active].b].transient = TRUE,
                         !.buf[p.win[p.active].b].cb = "none"]
    PROVE  Ended(p, edit_close(n, p.active, first))
  <1> DEFINE w == p.active
             m == p.win[w].b
             x == p.buf[m]
             y == [x EXCEPT !.transient = TRUE, !.cb = "none"]
             c == edit_close(n, w, first)
  <1>1. p \in State /\ w \in Windows(p) /\ WindowOK(p, w)
    BY Zenon DEF WellFormed
  <1>2. m \in Buffers(p) /\ x.kind = "minibuf"
        /\ p.win[w].target \in (Windows(p) \cup {NULL}) \ {w}
    BY Zenon, <1>1 DEF WindowOK
  <1>3. n = [p EXCEPT !.buf[m] = y]
    BY Zenon, <1>1 DEF State
  <1>4. x \in EditBuffer /\ m # NULL
    BY Zenon, <1>1, <1>2, StateParts
  <1> HIDE DEF x
  <1>5. y \in EditBuffer /\ y.transient
    BY Zenon, <1>4, AnsweredBuffer
  <1> HIDE DEF y
  <1>6. Put(p, n, m, y)
    BY ZenonT(40), <1>1, <1>2, <1>3, <1>5, PutFacts
  <1>7. \A v \in Windows(p) \ {w} : p.win[v].b # m
    <2>1. PromptOK(p, m)
      BY Zenon, <1>2 DEF WellFormed, x
    <2>2. PICK v \in Windows(p) : Showing(p, m) = {v}
      BY Zenon, <2>1 DEF PromptOK
    <2>3. w \in Showing(p, m)
      BY Zenon, <1>1 DEF Showing
    <2> QED BY <2>2, <2>3 DEF Showing
  <1>8. n.win = p.win /\ Windows(n) = Windows(p) /\ Buffers(n) = Buffers(p)
        /\ n.active = w /\ n.broken = p.broken /\ n.buf[m] = y /\ n \in State
    BY Zenon, <1>2, <1>6 DEF Put, Windows
  <1>9. Closable(n, w, first)
    BY Zenon, <1>1, <1>2, <1>8 DEF Closable
  <1>10. Left(n, w, NULL) = {m}
    BY Zenon, <1>4, <1>5, <1>7, <1>8 DEF Left
  <1> HIDE DEF m, w
  <1>11. ClosesWindow(n, c, w, {m})
    <2>1. ClosesWindow(n, c, w, Left(n, w, NULL))
      BY Zenon, <1>9, CloseFacts
    <2> QED BY Zenon, <1>10, <2>1
  <1> HIDE DEF c
  <1>12. Frees(p.buf, c.buf, {m}, {w})
    <2>1. Frees(n.buf, c.buf, {m}, {w})
      BY Zenon, <1>11 DEF ClosesWindow
    <2>2. c.buf \in BufMap /\ DOMAIN c.buf = DOMAIN p.buf \ {m}
      BY Zenon, <1>8, <2>1 DEF Frees, Buffers
    <2>3. ASSUME NEW d \in DOMAIN c.buf PROVE Later(p.buf[d], c.buf[d], {m}, {w})
      <3>1. d \in Buffers(p) /\ d # m
        BY <2>2 DEF Buffers
      <3>2. n.buf[d] = p.buf[d]
        BY Zenon, <1>6, <3>1 DEF Put
      <3> QED BY Zenon, <2>1, <3>2 DEF Frees
    <2> QED BY Zenon, <2>2, <2>3 DEF Frees
  <1>13. Gone(p, c, {m}, {w}) /\ c.broken = p.broken
    BY ZenonT(40), <1>8, <1>11, <1>12 DEF Gone, ClosesWindow
  <1>14. Apart(p, {m}, {w})
    <2>1. w \notin Of(p, "normal")
      BY DEF Of, w
    <2>2. Of(p, "normal") \ {w} # {}
      BY <2>1 DEF WellFormed
    <2>3. p.win[w].b = m
      BY Zenon DEF m
    <2> QED BY Zenon, <1>7, <2>2, <2>3 DEF Apart
  <1>15. WellFormed(c)
    BY Zenon, <1>13, <1>14, GoneWell
  <1>16. SpareBuffer(c)
    <2>1. m \in 1 .. MaxBuffer /\ m \notin Buffers(c)
      BY Zenon, <1>1, <1>2, <1>12, StateParts DEF Frees, Buffers
    <2> QED BY Zenon, <2>1 DEF SpareBuffer
  <1>17. SpareWindow(c)
    <2>1. w \in 1 .. MaxWindow /\ w \notin Windows(c)
      <3>1. w \in 1 .. MaxWindow
        BY Zenon, <1>1, StateParts
      <3>2. DOMAIN c.win = DOMAIN p.win \ {w}
        BY Zenon, <1>13 DEF Gone, Closes
      <3> QED BY Zenon, <3>1, <3>2 DEF Windows
    <2> QED BY Zenon, <2>1 DEF SpareWindow
  <1>18. Ended(p, c)
    BY Zenon, <1>13, <1>15, <1>16, <1>17 DEF Ended, m, w
  <1> QED BY Zenon, <1>18 DEF c, w

-----------------------------------------------------------------------------
(* A window that is no prompt is closed. *)
LEMMA CloseWell ==
    ASSUME NEW p, WellFormed(p), NEW w \in Windows(p), p.win[w].kind # "minibuf",
           Of(p, "normal") \ {w} # {}, NEW first \in Windows(p) \ {w}
    PROVE  /\ WellFormed(edit_close(p, w, first))
           /\ ClosesWindow(p, edit_close(p, w, first), w, Left(p, w, NULL))
  <1> DEFINE r == edit_close(p, w, first)
             D == Left(p, w, NULL)
             W == {w}
  <1>1. Closable(p, w, first)
    BY Zenon DEF Closable, WellFormed, WindowOK
  <1>2. ClosesWindow(p, r, w, D)
    BY Zenon, <1>1, CloseFacts
  <1> HIDE DEF r
  <1>3. Gone(p, r, D, W)
    BY Zenon, <1>2 DEF Gone, ClosesWindow
  <1>4. \A v \in Windows(p) \ W : p.win[v].b \notin D
    BY DEF Left
  <1>5. \A v \in Windows(p) \cap W : p.win[v].kind # "minibuf"
    OBVIOUS
  <1> HIDE DEF D
  <1>6. Apart(p, D, W)
    BY Zenon, <1>4, <1>5 DEF Apart
  <1>7. WellFormed(r)
    BY Zenon, <1>3, <1>6, GoneWell
  <1> QED BY Zenon, <1>2, <1>7 DEF r, D

(* qe_find_target_window leaves a popup for its target. *)
PopupLeft(p, w) ==
    [p EXCEPT !.active = IF p.active = w THEN p.win[w].target ELSE p.active,
              !.buf[p.win[w].b].transient = TRUE]
PopupMarked(p, w) == [p EXCEPT !.buf[p.win[w].b].transient = TRUE]
Leaves(p, w, k, n) ==
    /\ Put(p, k, p.win[w].b, k.buf[p.win[w].b])
    /\ Flags(p.buf[p.win[w].b], k.buf[p.win[w].b], TRUE, p.buf[p.win[w].b].modified)
    /\ WellFormed(k) /\ n.buf = k.buf /\ n.win = k.win /\ n.broken = k.broken
    /\ WellFormed(n) /\ n.active \in Windows(n) \ {w}
    /\ LeavePopup(p, w) = edit_close(n, w, n.active)

LEMMA LeaveFacts ==
    ASSUME NEW p, WellFormed(p), NEW w \in Windows(p), p.win[w].kind = "popup",
           p.win[w].target # NULL, NEW n, n = PopupLeft(p, w), NEW k, k = PopupMarked(p, w)
    PROVE  Leaves(p, w, k, n)
  <1> DEFINE b == p.win[w].b
             t == TRUE
             a == IF p.active = w THEN p.win[w].target ELSE p.active
  <1>1. p \in State /\ b \in Buffers(p) /\ t \in BOOLEAN
    BY Zenon DEF WellFormed, WindowOK
  <1>2. LeavePopup(p, w) = edit_close(n, w, n.active)
    BY Zenon DEF LeavePopup, PopupLeft
  <1>3. n = [k EXCEPT !.active = a]
    BY Zenon, <1>1 DEF PopupLeft, PopupMarked, State
  <1>4. a \in Windows(p) \ {w}
    BY DEF WellFormed, WindowOK
  <1> HIDE DEF b, t, a
  <1>5. Put(p, k, b, k.buf[b]) /\ Flags(p.buf[b], k.buf[b], t, p.buf[b].modified)
    BY Zenon, <1>1, MarkFacts DEF b, t, PopupMarked
  <1>6. WellFormed(k)
    BY Zenon, <1>5, MarkWell
  <1>7. Windows(k) = Windows(p) /\ k \in State
    BY Zenon, <1>5 DEF Put, Windows
  <1>8. a \in Windows(k) /\ a # w
    BY <1>4, <1>7
  <1>9. a \in Addr
    BY Zenon, <1>7, <1>8, StateParts
  <1>10. ActiveSet(k, n, a)
    BY Zenon, <1>3, <1>7, <1>9, SetActive
  <1>11. WellFormed(n)
    BY Zenon, <1>6, <1>8, <1>10, ActiveWell
  <1>12. n.active \in Windows(n) \ {w} /\ n.buf = k.buf /\ n.win = k.win /\ n.broken = k.broken
    BY <1>8, <1>10 DEF ActiveSet, Windows
  <1> QED BY Zenon, <1>2, <1>5, <1>6, <1>11, <1>12 DEF b, t, Leaves

(* The buffers of r are buffers of p, of the same kind. *)
Fewer(p, r) ==
    Buffers(r) \subseteq Buffers(p) /\ \A c \in Buffers(r) : r.buf[c].kind = p.buf[c].kind

LEMMA FreesFewer ==
    ASSUME NEW p, NEW r, NEW D, NEW W, Frees(p.buf, r.buf, D, W)
    PROVE  Fewer(p, r)
  <1>1. Buffers(r) = Buffers(p) \ D /\ \A c \in Buffers(r) : r.buf[c].kind = p.buf[c].kind
    BY Zenon DEF Frees, Later, Buffers
  <1> QED BY <1>1 DEF Fewer

LeftFor(p, r, w) ==
    /\ WellFormed(r) /\ Fewer(p, r) /\ Windows(r) = Windows(p) \ {w}
    /\ LET n == PopupLeft(p, w)
       IN  WellFormed(n) /\ ClosesWindow(n, r, w, Left(n, w, NULL))

LEMMA LeaveWell ==
    ASSUME NEW p, WellFormed(p), NEW w \in Windows(p), p.win[w].kind = "popup",
           p.win[w].target # NULL
    PROVE  LeftFor(p, LeavePopup(p, w), w)
  <1> DEFINE n == PopupLeft(p, w)
             k == PopupMarked(p, w)
             r == LeavePopup(p, w)
             D == Left(n, w, NULL)
  <1> HIDE DEF n, k, r, D
  <1>1. Leaves(p, w, k, n)
    BY Zenon, LeaveFacts DEF n, k
  <1>2. /\ WellFormed(n) /\ r = edit_close(n, w, n.active) /\ n.active \in Windows(n) \ {w}
        /\ n.win = p.win /\ Windows(n) = Windows(p)
    BY Zenon, <1>1 DEF Leaves, Put, Windows, r
  <1>3. n.win[w].kind # "minibuf" /\ Of(n, "normal") \ {w} # {}
    <2>1. w \notin Of(n, "normal") /\ n.win[w].kind # "minibuf"
      BY <1>2 DEF Of
    <2> QED BY SMTT(30), Z3T(30), <1>2, <2>1 DEF WellFormed
  <1>4. WellFormed(r) /\ ClosesWindow(n, r, w, D)
    BY Zenon, <1>2, <1>3, CloseWell DEF D
  <1>5. Windows(r) = Windows(p) \ {w}
    BY Zenon, <1>2, <1>4 DEF ClosesWindow, Closes, Windows
  <1>6. Fewer(n, r)
    BY Zenon, <1>4, FreesFewer DEF ClosesWindow
  <1>7. Buffers(n) = Buffers(p) /\ \A c \in Buffers(p) : n.buf[c].kind = p.buf[c].kind
    <2>1. Buffers(n) = Buffers(p) /\ n.buf = k.buf
      BY Zenon, <1>1 DEF Leaves, Put, Buffers
    <2>2. ASSUME NEW c \in Buffers(p) PROVE n.buf[c].kind = p.buf[c].kind
      <3>1. CASE c = p.win[w].b
        BY Zenon, <1>1, <2>1, <3>1 DEF Leaves, Flags
      <3>2. CASE c # p.win[w].b
        BY Zenon, <1>1, <2>1, <3>2 DEF Leaves, Put
      <3> QED BY Zenon, <3>1, <3>2
    <2> QED BY Zenon, <2>1, <2>2
  <1>8. Fewer(p, r)
    BY <1>6, <1>7 DEF Fewer
  <1> QED BY Zenon, <1>2, <1>4, <1>5, <1>8 DEF LeftFor, n, r, D

(* qe_load_file in a window that can show the file. *)
LoadMarked(p, w, alternate) ==
    IF alternate /\ ~p.buf[p.win[w].b].modified
    THEN [p EXCEPT !.buf[p.win[w].b].transient = TRUE] ELSE p
LoadMarks(p, w, n) ==
    /\ WellFormed(n) /\ n.win = p.win /\ n.broken = p.broken /\ Buffers(n) = Buffers(p)
    /\ \/ n = p
       \/ /\ ~p.buf[p.win[w].b].modified /\ Put(p, n, p.win[w].b, n.buf[p.win[w].b])
          /\ Flags(p.buf[p.win[w].b], n.buf[p.win[w].b], TRUE, p.buf[p.win[w].b].modified)

LEMMA LoadMarkFacts ==
    ASSUME NEW p, WellFormed(p), NEW w \in Windows(p), NEW alternate
    PROVE  LoadMarks(p, w, LoadMarked(p, w, alternate))
  <1> DEFINE n == LoadMarked(p, w, alternate)
             b == p.win[w].b
             t == TRUE
  <1> HIDE DEF n
  <1>1. p \in State /\ b \in Buffers(p) /\ t \in BOOLEAN
    BY Zenon DEF WellFormed, WindowOK
  <1>2. CASE n = p
    BY Zenon, <1>2 DEF LoadMarks, n
  <1>3. CASE ~p.buf[b].modified /\ n = [p EXCEPT !.buf[b].transient = t]
    <2> HIDE DEF b, t
    <2>1. Put(p, n, b, n.buf[b]) /\ Flags(p.buf[b], n.buf[b], t, p.buf[b].modified)
      BY Zenon, <1>1, <1>3, MarkFacts
    <2>2. WellFormed(n)
      BY Zenon, <2>1, MarkWell
    <2>3. n.win = p.win /\ n.broken = p.broken /\ Buffers(n) = Buffers(p)
      BY Zenon, <2>1 DEF Put
    <2>4. LoadMarks(p, w, n)
      BY Zenon, <1>3, <2>1, <2>2, <2>3 DEF b, t, LoadMarks
    <2> QED BY Zenon, <2>4 DEF n
  <1> QED BY Zenon, <1>2, <1>3 DEF LoadMarked, n

LEMMA LoadWell ==
    ASSUME NEW p, WellFormed(p), NEW w \in Windows(p), SpareBuffer(p), NEW b, NEW ok,
           NEW alternate, b \in Buffers(p) => p.buf[b].kind # "minibuf"
    PROVE  WellFormed(Load(p, w, b, ok, alternate))
  <1> DEFINE n == LoadMarked(p, w, alternate)
             k == "file"
             f == eb_new(n, k)
             m == FreshBuffer(n)
             r == Load(p, w, b, ok, alternate)
  <1>1. r = IF p.win[w].kind \in {"popup", "minibuf"} THEN p
            ELSE IF b \in Buffers(p) THEN switch_to_buffer(p, w, b)
            ELSE IF ~ok THEN n ELSE switch_to_buffer(f, w, m)
    BY Zenon DEF Load, LoadMarked
  <1>2. WellFormed(n) /\ n.win = p.win /\ Buffers(n) = Buffers(p)
    <2>1. LoadMarks(p, w, n)
      BY LoadMarkFacts
    <2> QED BY Zenon, <2>1 DEF LoadMarks
  <1> HIDE DEF r, n
  <1>3. CASE r = p
    BY Zenon, <1>3 DEF r
  <1>4. CASE r = n
    BY Zenon, <1>2, <1>4 DEF r
  <1>5. CASE p.win[w].kind # "minibuf" /\ b \in Buffers(p) /\ r = switch_to_buffer(p, w, b)
    BY Zenon, <1>5, SwitchWell DEF r
  <1>6. CASE p.win[w].kind # "minibuf" /\ r = switch_to_buffer(f, w, m)
    <2>1. k \in {"file", "scratch", "help", "minibuf"} /\ k \in {"file", "scratch", "help"}
          /\ Buffer(k).kind # "minibuf"
      BY DEF Buffer
    <2> HIDE DEF k, f, m
    <2>2. SpareBuffer(n) /\ n \in State
      BY Zenon, <1>2 DEF SpareBuffer, WellFormed
    <2>3. WellFormed(f) /\ Creates(n, f, m, Buffer(k))
      BY Zenon, <1>2, <2>1, <2>2, NewFacts, CreateWell DEF f, m
    <2>4. m \in Buffers(f) /\ f.buf[m].kind # "minibuf"
      BY SMTT(30), Z3T(30), <2>1, <2>3 DEF Creates
    <2>5. w \in Windows(f) /\ f.win[w].kind # "minibuf"
      BY Zenon, <1>2, <1>6, <2>3 DEF Creates, Windows
    <2> QED BY Zenon, <1>6, <2>3, <2>4, <2>5, SwitchWell DEF r
  <1>7. p.win[w].kind \notin {"popup", "minibuf"} => p.win[w].kind # "minibuf"
    OBVIOUS
  <1> QED BY Zenon, <1>1, <1>3, <1>4, <1>5, <1>6, <1>7

LEMMA LoadFileWell ==
    ASSUME NEW p, WellFormed(p), NEW w \in Windows(p), SpareBuffer(p), NEW b, NEW ok,
           NEW alternate, b \in Buffers(p) => p.buf[b].kind # "minibuf"
    PROVE  WellFormed(qe_load_file(p, w, b, ok, alternate))
  <1> DEFINE t == p.win[w].target
             l == LeavePopup(p, w)
  <1>1. CASE p.win[w].kind # "popup"
    BY Zenon, <1>1, LoadWell DEF qe_load_file
  <1>2. CASE p.win[w].kind = "popup" /\ t = NULL
    <2>1. qe_load_file(p, w, b, ok, alternate) = Broken(p)
      BY Zenon, <1>2 DEF qe_load_file
    <2>2. BrokenSet(p, Broken(p), TRUE)
      BY Zenon, SetBroken DEF WellFormed
    <2> QED BY Zenon, <2>1, <2>2, ActiveWell
  <1>3. CASE p.win[w].kind = "popup" /\ t # NULL
    <2>1. qe_load_file(p, w, b, ok, alternate) = Load(l, t, b, ok, alternate)
      BY Zenon, <1>3 DEF qe_load_file
    <2>2. LeftFor(p, l, w)
      BY Zenon, <1>3, LeaveWell
    <2> HIDE DEF l
    <2>3. WellFormed(l) /\ Fewer(p, l) /\ Windows(l) = Windows(p) \ {w}
      BY Zenon, <2>2 DEF LeftFor
    <2>4. t \in Windows(l)
      BY Zenon, <1>3, <2>3 DEF WellFormed, WindowOK
    <2>5. SpareBuffer(l) /\ (b \in Buffers(l) => l.buf[b].kind # "minibuf")
      BY <2>3 DEF SpareBuffer, Fewer
    <2> HIDE DEF t
    <2>6. WellFormed(Load(l, t, b, ok, alternate))
      BY Zenon, <2>3, <2>4, <2>5, LoadWell
    <2> QED BY Zenon, <2>1, <2>6
  <1> QED BY Zenon, <1>1, <1>2, <1>3

-----------------------------------------------------------------------------
(* Commands.  The bounds of the model leave room. *)
LEMMA NotAll ==
    ASSUME NEW A, NEW S, S \subseteq A, NEW n \in Nat, Cardinality(A) = n, Cardinality(S) + 1 <= n
    PROVE  A \ S # {}
  <1> SUFFICES ASSUME A \ S = {} PROVE FALSE
    OBVIOUS
  <1>1. S = A
    OBVIOUS
  <1>2. n + 1 <= n
    BY Zenon, <1>1
  <1> QED BY <1>2

LEMMA RoomFacts ==
    ASSUME NEW p \in State
    PROVE  /\ Cardinality(Buffers(p)) + 1 <= MaxBuffer => SpareBuffer(p)
           /\ Cardinality(Windows(p)) + 1 <= MaxWindow => SpareWindow(p)
  <1>1. \A n \in Nat : Cardinality(1 .. n) = n
    <2>1. ASSUME NEW n \in Nat PROVE Cardinality(1 .. n) = n
      <3>1. Cardinality(1 .. n) = IF 1 > n THEN 0 ELSE n - 1 + 1
        BY FS_Interval
      <3> QED BY <3>1
    <2> QED BY <2>1
  <1>2. Buffers(p) \subseteq 1 .. MaxBuffer /\ Windows(p) \subseteq 1 .. MaxWindow
    BY Zenon, StateParts
  <1>3. MaxBuffer \in Nat /\ MaxWindow \in Nat
    BY Zenon, Addresses
  <1> DEFINE A == 1 .. MaxBuffer
             E == 1 .. MaxWindow
  <1>4. Cardinality(A) = MaxBuffer /\ Cardinality(E) = MaxWindow
    BY Zenon, <1>1, <1>3
  <1>5. /\ A \ Buffers(p) # {} => SpareBuffer(p)
        /\ E \ Windows(p) # {} => SpareWindow(p)
    BY Zenon DEF SpareBuffer, SpareWindow
  <1> HIDE DEF A, E
  <1>6. ASSUME Cardinality(Buffers(p)) + 1 <= MaxBuffer PROVE A \ Buffers(p) # {}
    <2>1. Buffers(p) \subseteq A /\ Cardinality(A) = MaxBuffer /\ MaxBuffer \in Nat
      BY Zenon, <1>2, <1>3, <1>4 DEF A
    <2> QED BY Zenon, <1>6, <2>1, NotAll
  <1>7. ASSUME Cardinality(Windows(p)) + 1 <= MaxWindow PROVE E \ Windows(p) # {}
    <2>1. Windows(p) \subseteq E /\ Cardinality(E) = MaxWindow /\ MaxWindow \in Nat
      BY SMTT(30), Z3T(30), <1>2, <1>3, <1>4 DEF E
    <2> QED BY <1>7, <2>1, NotAll
  <1> QED BY Zenon, <1>5, <1>6, <1>7

(* What the callback of an answered prompt needs is alive. *)
LEMMA ServedAfter ==
    ASSUME NEW p, WellFormed(p), p.win[p.active].kind = "minibuf", NEW m,
           m = p.win[p.active].b, ~p.buf[m].stale, NEW c, Ended(p, c)
    PROVE  Serves(c, p.buf[m].cb, p.buf[m].opaque)
  <1> DEFINE o == p.buf[m].opaque
             w == p.active
  <1>1. m \in Buffers(p) /\ p.buf[m].kind = "minibuf" /\ w \in Windows(p)
    BY Zenon DEF WellFormed, WindowOK
  <1>2. Holds(p, m)
    BY Zenon, <1>1 DEF WellFormed, PromptOK
  <1>3. Frees(p.buf, c.buf, {m}, {w}) /\ Closes(p.win, c.win, {w})
    BY Zenon DEF Ended, Gone
  <1>4. CASE p.buf[m].cb = "confirm"
    <2>1. o \in Buffers(p) /\ p.buf[o].kind = "file"
      BY Zenon, <1>2, <1>4 DEF Holds
    <2>2. o # m
      BY ZenonT(40), <1>1, <2>1
    <2>3. o \in DOMAIN c.buf
      BY <1>3, <2>1, <2>2 DEF Frees, Buffers
    <2>4. c.buf[o].kind = p.buf[o].kind
      BY Zenon, <1>3, <2>3 DEF Frees, Later
    <2> QED BY Zenon, <1>4, <2>1, <2>3, <2>4 DEF Serves, Buffers
  <1>5. CASE p.buf[m].cb # "confirm"
    <2>1. o \in Windows(p) /\ p.win[o].kind # "minibuf"
      BY Zenon, <1>2, <1>5 DEF Holds
    <2>2. o # w
      BY ZenonT(40), <2>1
    <2>3. o \in DOMAIN c.win
      BY <1>3, <2>1, <2>2 DEF Closes, Windows
    <2>4. c.win[o].kind = p.win[o].kind
      BY Zenon, <1>3, <2>3 DEF Closes
    <2> QED BY Zenon, <1>5, <2>1, <2>3, <2>4 DEF Serves, Windows
  <1> QED BY Zenon, <1>4, <1>5

(* The prompt is answered: q.win[s].b with c as the state after it. *)
Mini == q.win[s].b
Answered(cb, c) ==
    /\ WellFormed(q) /\ q.win[s].kind = "minibuf" /\ ~q.broken
    /\ Mini \in Buffers(q) /\ q.buf[Mini].cb = cb /\ ~q.buf[Mini].stale
    /\ Ended(q, c) /\ Serves(c, cb, opaque) /\ opaque \in Addr

LEMMA ClosedFacts ==
    ASSUME WellFormed(q), q.win[s].kind = "minibuf", NEW first \in First
    PROVE  Ended(q, Closed(first))
  <1> DEFINE n == [q EXCEPT !.buf[q.win[q.active].b].transient = TRUE,
                            !.buf[q.win[q.active].b].cb = "none"]
  <1>1. first \in Windows(q) \ {q.active} /\ q.win[q.active].kind = "minibuf"
    BY Zenon DEF First, s
  <1>2. Closed(first) = edit_close(n, q.active, first)
    BY Zenon DEF Closed, s
  <1> HIDE DEF n
  <1>3. Ended(q, edit_close(n, q.active, first))
    BY Zenon, <1>1, EndFacts DEF n
  <1> QED BY Zenon, <1>2, <1>3

LEMMA AnswerFacts ==
    ASSUME WellFormed(q), NEW cb, Pending(cb), ~q.buf[Mini].stale, NEW first \in First
    PROVE  Answered(cb, Closed(first))
  <1> DEFINE c == Closed(first)
  <1>1. q.win[s].kind = "minibuf" /\ ~q.broken /\ q.buf[Mini].cb = cb
    BY Zenon DEF Pending, Mini
  <1>2. Ended(q, c)
    BY Zenon, <1>1, ClosedFacts
  <1> HIDE DEF c
  <1>3. Mini = q.win[q.active].b /\ q.win[q.active].kind = "minibuf" /\ opaque = q.buf[Mini].opaque
    BY Zenon, <1>1 DEF Mini, s, opaque
  <1>4. Serves(c, q.buf[Mini].cb, q.buf[Mini].opaque)
    BY Zenon, <1>2, <1>3, ServedAfter
  <1>5. Mini \in Buffers(q)
    BY Zenon, <1>3 DEF WellFormed, WindowOK
  <1>6. q.buf[Mini] \in EditBuffer
    BY Zenon, <1>5, StateParts DEF WellFormed
  <1>7. opaque \in Addr
    BY Zenon, <1>3, <1>6 DEF EditBuffer
  <1>8. Answered(cb, c)
    BY Zenon, <1>1, <1>2, <1>3, <1>4, <1>5, <1>7 DEF Answered
  <1> QED BY Zenon, <1>8 DEF c

LEMMA SwitchToWell ==
    ASSUME NEW p, WellFormed(p), SpareBuffer(p), NEW w \in Windows(p), NEW b,
           b # NULL => b \in Buffers(p) /\ p.buf[b].kind # "minibuf"
    PROVE  WellFormed(do_switch_to_buffer(p, w, b))
  <1> DEFINE k == "scratch"
             f == eb_new(p, k)
             m == FreshBuffer(p)
  <1>1. CASE p.win[w].kind = "minibuf"
    BY Zenon, <1>1 DEF do_switch_to_buffer
  <1>2. CASE p.win[w].kind # "minibuf" /\ b # NULL
    BY Zenon, <1>2, SwitchWell DEF do_switch_to_buffer
  <1>3. CASE p.win[w].kind # "minibuf" /\ b = NULL
    <2>1. k \in {"file", "scratch", "help", "minibuf"} /\ k \in {"file", "scratch", "help"}
          /\ Buffer(k).kind # "minibuf"
      BY DEF Buffer
    <2>2. do_switch_to_buffer(p, w, b) = switch_to_buffer(f, w, m)
      BY Zenon, <1>3 DEF do_switch_to_buffer
    <2> HIDE DEF k, f, m
    <2>3. WellFormed(f) /\ Creates(p, f, m, Buffer(k))
      BY Zenon, <2>1, NewFacts, CreateWell DEF f, m, WellFormed
    <2>4. m \in Buffers(f) /\ f.buf[m].kind # "minibuf"
      BY <2>1, <2>3 DEF Creates
    <2>5. w \in Windows(f) /\ f.win[w].kind # "minibuf"
      BY Zenon, <1>3, <2>3 DEF Creates, Windows
    <2> QED BY ZenonT(40), <2>2, <2>3, <2>4, <2>5, SwitchWell
  <1> QED BY Zenon, <1>1, <1>2, <1>3

LEMMA BrokenWell ==
    ASSUME NEW p, WellFormed(p)
    PROVE  WellFormed(Broken(p))
  <1>1. BrokenSet(p, Broken(p), TRUE)
    BY Zenon, SetBroken DEF WellFormed
  <1>2. p.active \in Windows(p)
    BY Zenon DEF WellFormed
  <1> QED BY Zenon, <1>1, <1>2, ActiveWell

(* Buffers with a name are not touched by the end of a prompt. *)
LEMMA EndedNamed ==
    ASSUME NEW p, WellFormed(p), p.win[p.active].kind = "minibuf", NEW c, Ended(p, c)
    PROVE  /\ \A b \in Buffers(p) : p.buf[b].kind # "minibuf" =>
                 b \in Buffers(c) /\ Later(p.buf[b], c.buf[b], {p.win[p.active].b}, {p.active})
           /\ Fewer(p, c) /\ Named(c) = Named(p)
  <1> DEFINE m == p.win[p.active].b
  <1>1. p.buf[m].kind = "minibuf"
    BY Zenon DEF WellFormed, WindowOK
  <1>2. Frees(p.buf, c.buf, {m}, {p.active})
    BY Zenon DEF Ended, Gone
  <1> HIDE DEF m
  <1>3. Fewer(p, c)
    BY Zenon, <1>2, FreesFewer
  <1>4. ASSUME NEW b \in Buffers(p), p.buf[b].kind # "minibuf"
        PROVE  b \in Buffers(c) /\ Later(p.buf[b], c.buf[b], {m}, {p.active})
    <2>1. b # m
      BY Zenon, <1>1, <1>4
    <2>2. b \in Buffers(c)
      BY SMTT(30), Z3T(30), <1>2, <2>1 DEF Frees, Buffers
    <2> QED BY Zenon, <1>2, <2>2 DEF Frees, Buffers
  <1>5. Named(c) = Named(p)
    <2>1. \A b \in Named(p) : b \in Buffers(p) /\ p.buf[b].kind # "minibuf"
      BY DEF Named
    <2>2. \A b \in Named(p) : b \in Buffers(c)
      BY Zenon, <1>4, <2>1
    <2> QED BY SMTT(30), Z3T(30), <1>3, <2>2 DEF Named, Fewer
  <1> QED BY Zenon, <1>3, <1>4, <1>5 DEF m

(* The callbacks: stale, or with the state c after the end of the prompt. *)
Fails == q.buf[Mini].stale /\ q' = Broken(q)
SwitchResult(c, b) ==
    /\ Answered("switch-to-buffer", c) /\ opaque \in Windows(c)
    /\ q' = do_switch_to_buffer(c, opaque, b)
    /\ b # NULL => b \in Buffers(c) /\ c.buf[b].kind # "minibuf"

LEMMA SwitchAnswered ==
    ASSUME WellFormed(q), answer_switch
    PROVE  Fails \/ \E c, b : SwitchResult(c, b)
  <1> DEFINE k == "switch-to-buffer"
  <1>1. PICK b \in Named(q) \cup {NULL} :
           Answer(k, LAMBDA p : do_switch_to_buffer(p, opaque, b))
    BY Zenon DEF answer_switch
  <1>2. PICK first \in First :
           q' = IF q.buf[q.win[s].b].stale THEN Broken(q)
                ELSE do_switch_to_buffer(Closed(first), opaque, b)
    BY SMTT(30), Z3T(30), <1>1 DEF Answer
  <1>3. Pending(k)
    BY <1>1 DEF Answer
  <1>4. CASE q.buf[Mini].stale
    BY Zenon, <1>2, <1>4 DEF Mini, Fails
  <1>5. CASE ~q.buf[Mini].stale
    <2> DEFINE c == Closed(first)
    <2>1. Answered(k, c)
      BY Zenon, <1>3, <1>5, AnswerFacts
    <2>2. q' = do_switch_to_buffer(c, opaque, b)
      BY Zenon, <1>2, <1>5 DEF Mini
    <2>3. k # "confirm"
      OBVIOUS
    <2> HIDE DEF c, k
    <2>4. opaque \in Windows(c)
      BY Zenon, <2>1, <2>3 DEF Answered, Serves
    <2>5. Named(c) = Named(q)
      BY Zenon, <2>1, EndedNamed DEF Answered, s
    <2>6. b # NULL => b \in Buffers(c) /\ c.buf[b].kind # "minibuf"
      BY <2>5 DEF Named
    <2>7. SwitchResult(c, b)
      BY Zenon, <2>1, <2>2, <2>4, <2>6 DEF SwitchResult, k
    <2> QED BY Zenon, <2>7
  <1> QED BY Zenon, <1>4, <1>5

LEMMA DoKillWell ==
    ASSUME NEW p, WellFormed(p), SpareBuffer(p), SpareWindow(p), NEW w \in Windows(p),
           NEW b, NEW b1, Killable(p, b, b1)
    PROVE  WellFormed(do_kill_buffer(p, w, b, b1))
  <1> DEFINE k == "confirm"
  <1>1. b \in Buffers(p) /\ b \in Addr
    BY Zenon, StateParts DEF Killable, WellFormed
  <1>2. CASE p.buf[b].modified /\ p.buf[b].kind = "file"
    <2>1. do_kill_buffer(p, w, b, b1) = minibuffer_edit(p, w, k, b)
      BY Zenon, <1>2 DEF do_kill_buffer
    <2>2. k \in Callbacks /\ Serves(p, k, b)
      BY <1>1, <1>2 DEF Callbacks, Serves
    <2> HIDE DEF k
    <2>3. WellFormed(minibuffer_edit(p, w, k, b))
      BY Zenon, <1>1, <2>2, AskWell
    <2> QED BY Zenon, <2>1, <2>3
  <1>3. CASE ~(p.buf[b].modified /\ p.buf[b].kind = "file")
    <2>1. do_kill_buffer(p, w, b, b1) = qe_kill_buffer(p, b, b1)
      BY Zenon, <1>3 DEF do_kill_buffer
    <2>2. KillOutcome(p, qe_kill_buffer(p, b, b1), b)
      BY Zenon, KillFacts
    <2> QED BY Zenon, <2>1, <2>2 DEF KillOutcome
  <1> QED BY Zenon, <1>2, <1>3

(* The buffer that takes the place of the killed one. *)
LEMMA KillableAfter ==
    ASSUME NEW c, NEW b, NEW b1, SpareBuffer(c), b \in Buffers(c), c.buf[b].kind # "minibuf",
           b1 \in (Named(c) \ {b}) \cup {NULL}, b1 = NULL => Named(c) \subseteq {b}
    PROVE  Killable(c, b, b1)
  <1>1. Named(c) \ {b} # {} => b1 \in Named(c) \ {b}
    OBVIOUS
  <1> QED BY Zenon, <1>1 DEF Killable

KillResult(c, b, b1) ==
    /\ Answered("kill-buffer", c) /\ opaque \in Windows(c) /\ b \in Named(c)
    /\ q' = do_kill_buffer(c, opaque, b, b1) /\ Killable(c, b, b1)

LEMMA KillAnswered ==
    ASSUME WellFormed(q), answer_kill
    PROVE  Fails \/ \E c, b, b1 : KillResult(c, b, b1)
  <1> DEFINE k == "kill-buffer"
  <1>1. PICK b \in Named(q) : \E b1 \in (Named(q) \ {b}) \cup {NULL} :
           /\ b1 = NULL => Named(q) = {b}
           /\ Answer(k, LAMBDA p : do_kill_buffer(p, opaque, b, b1))
    BY Zenon DEF answer_kill
  <1>2. PICK b1 \in (Named(q) \ {b}) \cup {NULL} :
           /\ b1 = NULL => Named(q) = {b}
           /\ Answer(k, LAMBDA p : do_kill_buffer(p, opaque, b, b1))
    BY Zenon, <1>1
  <1>3. PICK first \in First :
           q' = IF q.buf[q.win[s].b].stale THEN Broken(q)
                ELSE do_kill_buffer(Closed(first), opaque, b, b1)
    BY Zenon, <1>2 DEF Answer
  <1>4. Pending(k)
    BY <1>2 DEF Answer
  <1>5. CASE q.buf[Mini].stale
    BY Zenon, <1>3, <1>5 DEF Mini, Fails
  <1>6. CASE ~q.buf[Mini].stale
    <2> DEFINE c == Closed(first)
    <2>1. Answered(k, c)
      BY Zenon, <1>4, <1>6, AnswerFacts
    <2>2. q' = do_kill_buffer(c, opaque, b, b1)
      BY Zenon, <1>3, <1>6 DEF Mini
    <2>3. k # "confirm"
      OBVIOUS
    <2> HIDE DEF c, k
    <2>4. SpareBuffer(c) /\ opaque \in Windows(c)
      BY Zenon, <2>1, <2>3 DEF Answered, Ended, Serves
    <2>5. Named(c) = Named(q)
      BY Zenon, <2>1, EndedNamed DEF Answered, s
    <2>6. b \in Buffers(c) /\ c.buf[b].kind # "minibuf"
      BY <2>5 DEF Named
    <2>7. b1 \in (Named(c) \ {b}) \cup {NULL} /\ (b1 = NULL => Named(c) \subseteq {b})
      BY <1>2, <2>5
    <2>8. Killable(c, b, b1)
      BY Zenon, <2>4, <2>6, <2>7, KillableAfter
    <2>9. b \in Named(c)
      BY Zenon, <2>5
    <2>10. KillResult(c, b, b1)
      BY Zenon, <2>1, <2>2, <2>4, <2>8, <2>9 DEF KillResult, k
    <2> QED BY Zenon, <2>10
  <1> QED BY Zenon, <1>5, <1>6

ConfirmResult(yes, c, b1) ==
    /\ Answered("confirm", c) /\ Killable(c, opaque, b1) /\ c.buf[opaque].kind = "file"
    /\ q' = IF yes THEN qe_kill_buffer(c, opaque, b1) ELSE c

LEMMA ConfirmAnswered ==
    ASSUME WellFormed(q), NEW yes, kill_buffer_confirm_cb(yes)
    PROVE  Fails \/ \E c, b1 : ConfirmResult(yes, c, b1)
  <1> DEFINE k == "confirm"
  <1>1. PICK b1 \in (Named(q) \ {opaque}) \cup {NULL} :
           /\ b1 = NULL => Named(q) \subseteq {opaque}
           /\ Answer(k, LAMBDA p : IF yes THEN qe_kill_buffer(p, opaque, b1) ELSE p)
    BY Zenon DEF kill_buffer_confirm_cb
  <1>2. PICK first \in First :
           q' = IF q.buf[q.win[s].b].stale THEN Broken(q)
                ELSE IF yes THEN qe_kill_buffer(Closed(first), opaque, b1) ELSE Closed(first)
    BY SMTT(30), Z3T(30), <1>1 DEF Answer
  <1>3. Pending(k)
    BY <1>1 DEF Answer
  <1>4. CASE q.buf[Mini].stale
    BY Zenon, <1>2, <1>4 DEF Mini, Fails
  <1>5. CASE ~q.buf[Mini].stale
    <2> DEFINE c == Closed(first)
    <2>1. Answered(k, c)
      BY Zenon, <1>3, <1>5, AnswerFacts
    <2>2. q' = IF yes THEN qe_kill_buffer(c, opaque, b1) ELSE c
      BY Zenon, <1>2, <1>5 DEF Mini
    <2>3. Serves(c, k, opaque) /\ WellFormed(c) /\ SpareBuffer(c)
      BY Zenon, <2>1 DEF Answered, Ended
    <2> HIDE DEF c
    <2>4. /\ opaque \in Buffers(c) /\ c.buf[opaque].kind # "minibuf"
          /\ c.buf[opaque].kind = "file"
      BY <2>3 DEF Serves
    <2> HIDE DEF k
    <2>5. Named(c) = Named(q)
      BY Zenon, <2>1, EndedNamed DEF Answered, s
    <2>6. Killable(c, opaque, b1)
      BY Zenon, <1>1, <2>3, <2>4, <2>5, KillableAfter
    <2>7. ConfirmResult(yes, c, b1)
      BY Zenon, <2>1, <2>2, <2>4, <2>6 DEF ConfirmResult, k
    <2> QED BY Zenon, <2>7
  <1> QED BY Zenon, <1>4, <1>5

FindResult(name, c, b, ok) ==
    /\ Answered(name, c) /\ opaque \in Windows(c)
    /\ q' = qe_load_file(c, opaque, b, ok, name = "find-alternate-file")
    /\ b \in Buffers(c) => c.buf[b].kind # "minibuf"

LEMMA FindAnswered ==
    ASSUME WellFormed(q), NEW name \in {"find-file", "find-alternate-file"}, answer_find(name)
    PROVE  Fails \/ \E c, b, ok : FindResult(name, c, b, ok)
  <1>1. PICK b \in {c \in Buffers(q) : q.buf[c].kind = "file"} \cup {NULL}, ok \in BOOLEAN :
           Answer(name, LAMBDA p :
                      qe_load_file(p, opaque, b, ok, name = "find-alternate-file"))
    BY Zenon DEF answer_find
  <1>2. PICK first \in First :
           q' = IF q.buf[q.win[s].b].stale THEN Broken(q)
                ELSE qe_load_file(Closed(first), opaque, b, ok, name = "find-alternate-file")
    BY Zenon, <1>1 DEF Answer
  <1>3. Pending(name) /\ name # "confirm"
    BY <1>1 DEF Answer
  <1>4. CASE q.buf[Mini].stale
    BY Zenon, <1>2, <1>4 DEF Mini, Fails
  <1>5. CASE ~q.buf[Mini].stale
    <2> DEFINE c == Closed(first)
               alternate == name = "find-alternate-file"
    <2>1. Answered(name, c)
      BY Zenon, <1>3, <1>5, AnswerFacts
    <2>2. q' = qe_load_file(c, opaque, b, ok, alternate)
      BY Zenon, <1>2, <1>5 DEF Mini
    <2> HIDE DEF c, alternate
    <2>3. WellFormed(c) /\ opaque \in Windows(c)
      BY Zenon, <1>3, <2>1 DEF Answered, Ended, Serves
    <2>4. Fewer(q, c) /\ NULL \notin Buffers(c)
      BY Zenon, <2>1, <2>3, EndedNamed, StateParts DEF Answered, s, WellFormed
    <2>5. b \in Buffers(c) => c.buf[b].kind # "minibuf"
      BY <2>4 DEF Fewer
    <2>6. FindResult(name, c, b, ok)
      BY ZenonT(40), <2>1, <2>2, <2>3, <2>5 DEF FindResult, alternate
    <2> QED BY Zenon, <2>6
  <1> QED BY Zenon, <1>4, <1>5

LEMMA AnsweredWell ==
    ASSUME WellFormed(q),
           \/ Fails
           \/ \E c, b : SwitchResult(c, b)
           \/ \E c, b, b1 : KillResult(c, b, b1)
           \/ \E yes, c, b1 : ConfirmResult(yes, c, b1)
           \/ \E name, c, b, ok : FindResult(name, c, b, ok)
    PROVE  WellFormed(q')
  <1>1. ASSUME Fails PROVE WellFormed(q')
    BY Zenon, <1>1, BrokenWell DEF Fails
  <1>2. ASSUME NEW cb, NEW c, Answered(cb, c)
        PROVE  WellFormed(c) /\ SpareBuffer(c) /\ SpareWindow(c)
    BY Zenon, <1>2 DEF Answered, Ended
  <1>3. ASSUME NEW c, NEW b, SwitchResult(c, b) PROVE WellFormed(q')
    BY Zenon, <1>2, <1>3, SwitchToWell DEF SwitchResult
  <1>4. ASSUME NEW c, NEW b, NEW b1, KillResult(c, b, b1) PROVE WellFormed(q')
    BY Zenon, <1>2, <1>4, DoKillWell DEF KillResult
  <1>5. ASSUME NEW yes, NEW c, NEW b1, ConfirmResult(yes, c, b1) PROVE WellFormed(q')
    <2>1. WellFormed(c)
      BY Zenon, <1>2, <1>5 DEF ConfirmResult
    <2>2. KillOutcome(c, qe_kill_buffer(c, opaque, b1), opaque)
      BY Zenon, <1>5, <2>1, KillFacts DEF ConfirmResult
    <2> QED BY Zenon, <1>5, <2>1, <2>2 DEF ConfirmResult, KillOutcome
  <1>6. ASSUME NEW name, NEW c, NEW b, NEW ok, FindResult(name, c, b, ok) PROVE WellFormed(q')
    <2> DEFINE alternate == name = "find-alternate-file"
    <2>1. /\ WellFormed(c) /\ SpareBuffer(c) /\ opaque \in Windows(c)
          /\ q' = qe_load_file(c, opaque, b, ok, alternate)
          /\ b \in Buffers(c) => c.buf[b].kind # "minibuf"
      BY Zenon, <1>2, <1>6 DEF FindResult
    <2> HIDE DEF alternate
    <2> QED BY Zenon, <2>1, LoadFileWell
  <1> QED BY Zenon, <1>1, <1>3, <1>4, <1>5, <1>6

LEMMA ExecWell ==
    ASSUME WellFormed(q), NEW name \in Prompts, exec_command(name)
    PROVE  WellFormed(q') /\ (q' = q \/ Opens(q, q', s, name, s))
  <1>1. q' = minibuffer_edit(q, s, name, s) /\ Room(1, 1)
    BY Zenon DEF exec_command
  <1>2. q \in State /\ s \in Windows(q) /\ s \in Addr
    BY Zenon, StateParts DEF WellFormed, s
  <1>3. SpareBuffer(q) /\ SpareWindow(q)
    BY SMTT(30), Z3T(30), <1>1, <1>2, RoomFacts DEF Room
  <1>4. name \in Callbacks /\ name # "confirm"
    BY DEF Callbacks, Prompts
  <1>5. q.win[s].kind # "minibuf" => Serves(q, name, s)
    BY Zenon, <1>2, <1>4 DEF Serves
  <1>6. WellFormed(minibuffer_edit(q, s, name, s))
    BY Zenon, <1>2, <1>3, <1>4, <1>5, AskWell
  <1>7. CASE q.win[s].kind = "minibuf"
    BY Zenon, <1>1, <1>6, <1>7 DEF minibuffer_edit
  <1>8. CASE q.win[s].kind # "minibuf"
    BY ZenonT(40), <1>1, <1>2, <1>3, <1>4, <1>6, <1>8, OpenFacts
  <1> QED BY Zenon, <1>7, <1>8

LEMMA AbortWell ==
    ASSUME WellFormed(q), minibuffer_abort
    PROVE  Ended(q, q') /\ q.win[s].kind = "minibuf"
  <1>1. PICK first \in First : q' = Closed(first)
    BY Zenon DEF minibuffer_abort
  <1>2. Ended(q, Closed(first))
    BY Zenon, ClosedFacts DEF minibuffer_abort
  <1> QED BY Zenon, <1>1, <1>2 DEF minibuffer_abort

(* edit_new, and the window that becomes active. *)
Placeable(p, b, kind, target, a) ==
    /\ p \in State /\ SpareWindow(p) /\ b \in Addr /\ target \in Addr
    /\ kind \in {"normal", "popup", "minibuf"} /\ a \in Windows(p) \cup {FreshWindow(p)}
Places(p, r, b, kind, target, a) ==
    /\ Adds(p, r, FreshWindow(p), [b |-> b, kind |-> kind, target |-> target])
    /\ r.active = a

LEMMA AttachFacts ==
    ASSUME NEW p, NEW b, NEW kind, NEW target, NEW a, Placeable(p, b, kind, target, a),
           NEW r, r = [edit_new(p, b, kind, target) EXCEPT !.active = a]
    PROVE  Places(p, r, b, kind, target, a)
  <1> DEFINE w == FreshWindow(p)
             y == [b |-> b, kind |-> kind, target |-> target]
             n == edit_new(p, b, kind, target)
  <1>1. Attaches(p, n, w, y)
    BY Zenon, EditNewFacts DEF Placeable
  <1>2. w \in Addr
    BY Zenon, FreshAddresses, Addresses DEF Placeable
  <1>3. \A v \in Windows(p) : v \in Addr
    BY Zenon, StateParts DEF Placeable
  <1>4. a \in Addr
    BY <1>2, <1>3 DEF Placeable
  <1> HIDE DEF n, y, w
  <1>5. ActiveSet(n, r, a)
    BY Zenon, <1>1, <1>4, SetActive DEF Attaches, Adds, n
  <1>6. Adds(p, r, w, y) /\ r.active = a
    BY Zenon, <1>1, <1>5 DEF ActiveSet, Attaches, Adds, Windows
  <1> QED BY Zenon, <1>6 DEF w, y, Places

LEMMA SplitWell ==
    ASSUME WellFormed(q), NEW focus, do_split_window(focus)
    PROVE  /\ WellFormed(q')
           /\ Adds(q, q', FreshWindow(q), [b |-> q.win[s].b, kind |-> "normal", target |-> NULL])
  <1> DEFINE b == q.win[s].b
             n == FreshWindow(q)
             k == "normal"
             y == [b |-> b, kind |-> k, target |-> NULL]
             a == IF focus THEN n ELSE q.active
  <1>1. q \in State /\ s \in Windows(q) /\ WindowOK(q, s) /\ q.win[s].kind = "normal"
        /\ q.active \in Windows(q)
    BY Zenon DEF WellFormed, s, do_split_window
  <1>2. b \in Buffers(q) /\ q.buf[b].kind # "minibuf"
    BY <1>1 DEF WindowOK
  <1>3. b \in Addr /\ NULL \in Addr
    BY ZenonT(40), <1>1, <1>2, StateParts, Addresses
  <1>4. SpareWindow(q)
    BY <1>1, RoomFacts DEF Room, do_split_window
  <1>5. q' = [edit_new(q, b, k, NULL) EXCEPT !.active = a]
    <2> DEFINE e == edit_new(q, b, k, NULL)
    <2>1. q' = [e EXCEPT !.active = IF focus THEN n ELSE e.active]
      BY Zenon DEF do_split_window
    <2>2. k \in {"normal", "popup", "minibuf"}
      OBVIOUS
    <2> HIDE DEF b, k
    <2>3. Attaches(q, e, n, y)
      BY Zenon, <1>1, <1>3, <1>4, <2>2, EditNewFacts
    <2>4. e.active = q.active
      BY Zenon, <2>3 DEF Attaches
    <2> QED BY Zenon, <2>1, <2>4
  <1>6. a \in Windows(q) \cup {n} /\ k \in {"normal", "popup", "minibuf"} /\ k # "minibuf"
    BY <1>1
  <1>7. y.b = b /\ y.kind = k /\ y.target = NULL /\ NULL \in Windows(q) \cup {NULL}
    OBVIOUS
  <1> HIDE DEF b, n, k, a
  <1>8. Adds(q, q', n, y) /\ q'.active = a
    <2>1. Placeable(q, b, k, NULL, a)
      BY ZenonT(40), <1>1, <1>3, <1>4, <1>6 DEF Placeable, n
    <2>2. Places(q, q', b, k, NULL, a)
      BY Zenon, <1>5, <2>1, AttachFacts
    <2> QED BY Zenon, <2>2 DEF Places, n
  <1> HIDE DEF y
  <1>9. WellFormed(q')
    BY ZenonT(40), <1>2, <1>6, <1>7, <1>8, OpenWell
  <1> QED BY Zenon, <1>8, <1>9 DEF y, n, b, k

LEMMA DeleteWell ==
    ASSUME WellFormed(q), do_delete_window
    PROVE  WellFormed(q') /\ ClosesWindow(q, q', s, Left(q, s, NULL))
  <1>1. PICK e1 \in Windows(q), first \in First : q' = edit_close([q EXCEPT !.active = e1], s, first)
    BY Zenon DEF do_delete_window
  <1> DEFINE n == [q EXCEPT !.active = e1]
  <1>2. q \in State /\ s \in Windows(q) /\ e1 \in Addr /\ q.win[s].kind # "minibuf"
    BY Zenon, StateParts DEF WellFormed, s, do_delete_window
  <1>3. ActiveSet(q, n, e1)
    BY Zenon, <1>2, SetActive
  <1> HIDE DEF n
  <1>4. WellFormed(n)
    BY Zenon, <1>3, ActiveWell
  <1>5. n.win = q.win /\ Windows(n) = Windows(q) /\ Of(n, "normal") = Of(q, "normal")
    BY Zenon, <1>3 DEF ActiveSet, Windows, Of
  <1>6. Of(q, "normal") \ {s} # {}
    <2>1. Cardinality(Of(q, "normal")) > 1
      BY Zenon DEF do_delete_window
    <2>2. Cardinality({s}) = 1 /\ Cardinality({}) = 0
      BY Zenon, FS_Singleton, FS_EmptySet
    <2>3. Of(q, "normal") \ {s} = {} => Of(q, "normal") = {s} \/ Of(q, "normal") = {}
      OBVIOUS
    <2> QED BY SMTT(30), Z3T(30), <2>1, <2>2, <2>3
  <1>7. first \in Windows(n) \ {s} /\ s \in Windows(n) /\ n.win[s].kind # "minibuf"
        /\ Of(n, "normal") \ {s} # {}
    BY Zenon, <1>2, <1>5, <1>6 DEF First
  <1>8. WellFormed(q') /\ ClosesWindow(n, q', s, Left(n, s, NULL))
    BY Zenon, <1>1, <1>4, <1>7, CloseWell DEF n
  <1>9. Left(n, s, NULL) = Left(q, s, NULL)
    BY Zenon, <1>3 DEF ActiveSet, Left, Windows
  <1>10. ClosesWindow(q, q', s, Left(q, s, NULL))
    BY Zenon, <1>3, <1>8, <1>9 DEF ActiveSet, ClosesWindow
  <1> QED BY Zenon, <1>8, <1>10

Others == Windows(q) \ ({s} \cup Of(q, "minibuf"))

LEMMA DeleteOthersWell ==
    ASSUME WellFormed(q), do_delete_other_windows
    PROVE  WellFormed(q') /\ ClosesAll(q, q', Dead(q, Others), Others)
  <1> DEFINE W == Others
             D == Dead(q, W)
  <1>1. q' = CloseAll(q, W) /\ q.win[s].kind = "normal"
    BY Zenon DEF do_delete_other_windows, Others
  <1>2. q \in State /\ s \in Windows(q) /\ q.active = s
    BY Zenon DEF WellFormed, s
  <1>3. s \notin W /\ s \in Of(q, "normal") /\ \A w \in W : q.win[w].kind # "minibuf"
    BY <1>1, <1>2 DEF Of, Others
  <1> HIDE DEF W
  <1>4. ClosesAll(q, q', D, W)
    BY Zenon, <1>1, <1>2, CloseAllFacts
  <1>5. Windows(q') = Windows(q) \ W
    BY Zenon, <1>4 DEF ClosesAll, Closes, Windows
  <1>6. q'.active \in Windows(q')
    BY SMTT(30), Z3T(30), <1>2, <1>3, <1>4, <1>5 DEF ClosesAll
  <1>7. \A v \in Windows(q) \ W : q.win[v].b \notin D
    BY DEF Dead, Showing
  <1>8. Of(q, "normal") \ W # {} /\ \A w \in Windows(q) \cap W : q.win[w].kind # "minibuf"
    BY <1>3
  <1> HIDE DEF D
  <1>9. Gone(q, q', D, W) /\ Apart(q, D, W)
    BY Zenon, <1>4, <1>6, <1>7, <1>8 DEF Gone, Apart, ClosesAll
  <1>10. WellFormed(q')
    BY Zenon, <1>9, GoneWell
  <1> QED BY Zenon, <1>4, <1>10 DEF D, W

LEMMA OtherWell ==
    ASSUME WellFormed(q), NEW w \in Windows(q), do_other_window(w)
    PROVE  WellFormed(q') /\ ActiveSet(q, q', w)
  <1>1. q \in State /\ w \in Addr /\ q' = [q EXCEPT !.active = w]
    BY Zenon, StateParts DEF WellFormed, do_other_window
  <1>2. ActiveSet(q, q', w)
    BY Zenon, <1>1, SetActive
  <1> QED BY Zenon, <1>2, ActiveWell

(* show_popup: p has the help buffer b, new or not. *)
Helped(p, b) ==
    /\ WellFormed(p) /\ b \in Buffers(p) /\ p.buf[b].kind = "help" /\ p.win = q.win
    /\ p.active = q.active /\ p.broken = q.broken
    /\ p = q \/ Creates(q, p, b, Buffer("help"))

LEMMA PopupFacts ==
    ASSUME WellFormed(q), show_popup
    PROVE  \E p, b : /\ Helped(p, b)
                     /\ Adds(p, q', FreshWindow(q), [b |-> b, kind |-> "popup", target |-> s])
                     /\ q'.active = FreshWindow(q)
  <1> DEFINE help == {b \in Buffers(q) : q.buf[b].kind = "help"}
             k == "help"
             o == "popup"
             b == IF help = {} THEN FreshBuffer(q) ELSE Min(help)
             p == IF help = {} THEN eb_new(q, k) ELSE q
             n == FreshWindow(q)
  <1>1. q' = [edit_new(p, b, o, s) EXCEPT !.active = n] /\ Room(1, 1)
    BY Zenon DEF show_popup
  <1>2. q \in State /\ s \in Windows(q) /\ s \in Addr
    BY Zenon, StateParts DEF WellFormed, s
  <1>3. SpareBuffer(q) /\ SpareWindow(q)
    BY Zenon, <1>1, <1>2, RoomFacts DEF Room
  <1>4. Helped(p, b)
    <2>1. CASE help = {}
      <3>1. /\ k \in {"file", "scratch", "help", "minibuf"}
            /\ k \in {"file", "scratch", "help"} /\ Buffer(k).kind = "help"
        BY DEF Buffer
      <3>2. p = eb_new(q, k) /\ b = FreshBuffer(q)
        BY Zenon, <2>1
      <3> HIDE DEF help, p, b, k
      <3>3. WellFormed(p) /\ Creates(q, p, b, Buffer(k))
        BY ZenonT(40), <1>2, <1>3, <3>1, <3>2, NewFacts, CreateWell
      <3>4. b \in Buffers(p) /\ p.buf[b].kind = "help"
        BY <3>1, <3>3 DEF Creates
      <3> QED BY Zenon, <3>3, <3>4 DEF Helped, Creates, k
    <2>2. CASE help # {}
      <3>1. p = q /\ b = Min(help)
        BY Zenon, <2>2
      <3>2. help \in SUBSET Nat
        <4>1. Buffers(q) \subseteq 1 .. MaxBuffer
          BY Zenon, <1>2, StateParts
        <4> QED BY <4>1
      <3>3. Min(help) \in help
        BY Zenon, <2>2, <3>2, MinIn
      <3>4. b \in Buffers(q) /\ q.buf[b].kind = "help"
        BY Zenon, <3>1, <3>3
      <3> HIDE DEF p, b
      <3> QED BY Zenon, <3>1, <3>4 DEF Helped
    <2> QED BY Zenon, <2>1, <2>2
  <1>5. o \in {"normal", "popup", "minibuf"}
    OBVIOUS
  <1> HIDE DEF help, p, b, o
  <1>6. p \in State /\ b \in Addr /\ Windows(p) = Windows(q)
    BY Zenon, <1>4, StateParts DEF Helped, WellFormed, Windows
  <1>7. SpareWindow(p) /\ FreshWindow(p) = n
    BY Zenon, <1>3, <1>6 DEF SpareWindow, FreshWindow
  <1>8. n \in Windows(p) \cup {FreshWindow(p)}
    BY <1>7
  <1>9. Adds(p, q', FreshWindow(p), [b |-> b, kind |-> o, target |-> s]) /\ q'.active = n
    <2>1. Placeable(p, b, o, s, n)
      BY Zenon, <1>2, <1>5, <1>6, <1>7, <1>8 DEF Placeable
    <2>2. Places(p, q', b, o, s, n)
      BY Zenon, <1>1, <2>1, AttachFacts
    <2> QED BY Zenon, <2>2 DEF Places
  <1> QED BY Zenon, <1>4, <1>7, <1>9 DEF o

LEMMA PopupWell ==
    ASSUME WellFormed(q), show_popup
    PROVE  WellFormed(q')
  <1>1. PICK p, b : /\ Helped(p, b)
                    /\ Adds(p, q', FreshWindow(q), [b |-> b, kind |-> "popup", target |-> s])
                    /\ q'.active = FreshWindow(q)
    BY Zenon, PopupFacts
  <1> DEFINE y == [b |-> b, kind |-> "popup", target |-> s]
             n == FreshWindow(q)
  <1>2. y.b = b /\ y.kind # "minibuf" /\ y.target = s
    OBVIOUS
  <1>3. WellFormed(p) /\ b \in Buffers(p) /\ p.buf[b].kind # "minibuf" /\ Windows(p) = Windows(q)
    BY SMTT(30), Z3T(30), <1>1 DEF Helped, Windows
  <1>4. s \in Windows(q) \cup {NULL} /\ q'.active \in Windows(q) \cup {n}
    BY <1>1 DEF WellFormed, s
  <1>5. Adds(p, q', n, y)
    BY Zenon, <1>1
  <1> HIDE DEF y, n
  <1> QED BY Zenon, <1>2, <1>3, <1>4, <1>5, OpenWell

(* do_popup_exit marks the help buffer and closes the window. *)
Exits(n) ==
    LET b == q.win[s].b
        t == q.buf[b].transient \/ q.buf[b].kind = "help"
    IN  /\ WellFormed(n) /\ Put(q, n, b, n.buf[b]) /\ Flags(q.buf[b], n.buf[b], t, q.buf[b].modified)
        /\ \E first \in First : q' = edit_close(n, s, first)
        /\ WellFormed(q') /\ ClosesWindow(n, q', s, Left(n, s, NULL))

LEMMA ExitFacts ==
    ASSUME WellFormed(q), do_popup_exit
    PROVE  \E n : Exits(n)
  <1> DEFINE b == q.win[s].b
             t == q.buf[b].transient \/ q.buf[b].kind = "help"
             n == [q EXCEPT !.buf[b].transient = t]
  <1>1. PICK first \in First : q' = edit_close(n, s, first)
    BY ZenonT(40) DEF do_popup_exit
  <1>2. q \in State /\ s \in Windows(q) /\ b \in Buffers(q) /\ q.win[s].kind = "popup"
        /\ t \in BOOLEAN
    BY DEF WellFormed, s, do_popup_exit, WindowOK
  <1> HIDE DEF b, t
  <1>3. Put(q, n, b, n.buf[b]) /\ Flags(q.buf[b], n.buf[b], t, q.buf[b].modified)
    BY Zenon, <1>2, MarkFacts
  <1> HIDE DEF n
  <1>4. WellFormed(n)
    BY Zenon, <1>3, MarkWell
  <1>5. n.win = q.win /\ Windows(n) = Windows(q)
    BY Zenon, <1>3 DEF Put, Windows
  <1>6. s \notin Of(n, "normal") /\ n.win[s].kind # "minibuf" /\ s \in Windows(n)
    BY Zenon, <1>2, <1>5 DEF Of
  <1>7. Of(n, "normal") \ {s} # {} /\ first \in Windows(n) \ {s}
    BY Zenon, <1>4, <1>5, <1>6 DEF WellFormed, First
  <1>8. WellFormed(q') /\ ClosesWindow(n, q', s, Left(n, s, NULL))
    BY Zenon, <1>1, <1>4, <1>6, <1>7, CloseWell
  <1>9. Exits(n)
    BY Zenon, <1>1, <1>3, <1>4, <1>8 DEF Exits, b, t
  <1> QED BY Zenon, <1>9

LEMMA ModifyWell ==
    ASSUME WellFormed(q), NEW modified \in BOOLEAN, Modify(modified)
    PROVE  /\ WellFormed(q') /\ Put(q, q', q.win[s].b, q'.buf[q.win[s].b])
           /\ Flags(q.buf[q.win[s].b], q'.buf[q.win[s].b], q.buf[q.win[s].b].transient, modified)
  <1> DEFINE b == q.win[s].b
  <1>1. q \in State /\ b \in Buffers(q) /\ q' = [q EXCEPT !.buf[b].modified = modified]
    BY Zenon DEF WellFormed, WindowOK, s, Modify
  <1> HIDE DEF b
  <1>2. /\ Put(q, q', b, q'.buf[b])
        /\ Flags(q.buf[b], q'.buf[b], q.buf[b].transient, modified)
    BY Zenon, <1>1, ModifyFacts
  <1>3. WellFormed(q')
    BY Zenon, <1>2, MarkWell
  <1> QED BY Zenon, <1>2, <1>3 DEF b

-----------------------------------------------------------------------------
(* The invariant, of every command. *)
Inv == WellFormed(q) /\ irregular \in BOOLEAN

LEMMA InitInv == Init => Inv
  <1> SUFFICES ASSUME Init PROVE Inv
    OBVIOUS
  <1> DEFINE y == Buffer("file")
             z == [b |-> 1, kind |-> "normal", target |-> NULL]
             f == [b \in {1} |-> y]
             g == [w \in {1} |-> z]
  <1>1. q = [buf |-> f, win |-> g, active |-> 1, broken |-> FALSE] /\ irregular = FALSE
    BY Zenon DEF Init
  <1>2. 1 \in 1 .. MaxBuffer /\ 1 \in 1 .. MaxWindow
    BY WindowsAssumption
  <1>3. 1 \in Addr /\ NULL \in Addr
    BY SMTT(30), Z3T(30), <1>2, Addresses
  <1>4. y \in EditBuffer /\ y.kind # "minibuf"
    BY <1>3 DEF Buffer, EditBuffer
  <1>5. z \in EditState /\ z.b = 1 /\ z.kind = "normal" /\ z.target = NULL
    BY <1>3 DEF EditState
  <1> HIDE DEF y, z
  <1>6. f \in [{1} -> EditBuffer] /\ g \in [{1} -> EditState]
        /\ DOMAIN f = {1} /\ DOMAIN g = {1} /\ f[1] = y /\ g[1] = z
    BY SMTT(30), Z3T(30), <1>4, <1>5
  <1> HIDE DEF f, g
  <1>7. f \in BufMap /\ g \in WinMap
    BY <1>2, <1>6 DEF BufMap, WinMap
  <1>8. q \in State
    BY Zenon, <1>1, <1>3, <1>7 DEF State
  <1>9. q.buf = f /\ q.win = g /\ q.active = 1
    BY Zenon, <1>1
  <1>10. Buffers(q) = {1} /\ Windows(q) = {1}
    BY Zenon, <1>6, <1>9 DEF Buffers, Windows
  <1>11. WindowOK(q, 1)
    BY SMTT(30), Z3T(30), <1>4, <1>5, <1>6, <1>9, <1>10 DEF WindowOK, NULL
  <1>12. 1 \in Of(q, "normal")
    BY Zenon, <1>5, <1>6, <1>9, <1>10 DEF Of
  <1>13. \A b \in Buffers(q) : q.buf[b].kind # "minibuf"
    BY Zenon, <1>4, <1>6, <1>9, <1>10
  <1>14. WellFormed(q)
    BY SMTT(30), Z3T(30), <1>8, <1>9, <1>10, <1>11, <1>12, <1>13 DEF WellFormed
  <1> QED BY ZenonT(40), <1>1, <1>14 DEF Inv

LEMMA NextTracks == Next => Track \/ parse_arguments
  BY DEF Next, exec_command, minibuffer_abort, answer_switch, answer_kill,
         kill_buffer_confirm_cb, answer_find, Answer, do_split_window, do_delete_window,
         do_delete_other_windows, do_other_window, show_popup, do_popup_exit, Modify

LEMMA NextInv == Inv /\ [Next]_vars => Inv'
  <1> SUFFICES ASSUME Inv, [Next]_vars PROVE Inv'
    OBVIOUS
  <1>1. CASE Next
    <2>1. WellFormed(q)
      BY Zenon DEF Inv
    <2>2. irregular' \in BOOLEAN
      <3>1. CASE Track
        BY SMTT(30), Z3T(30), <3>1 DEF Track
      <3>2. CASE parse_arguments
        BY Zenon, <3>2 DEF parse_arguments
      <3> QED  BY Zenon, <1>1, <3>1, <3>2, NextTracks
    <2>3. ASSUME NEW name \in Prompts, exec_command(name) PROVE WellFormed(q')
      BY Zenon, <2>1, <2>3, ExecWell
    <2>4. ASSUME minibuffer_abort PROVE WellFormed(q')
      BY Zenon, <2>1, <2>4, AbortWell DEF Ended
    <2>5. ASSUME answer_switch PROVE WellFormed(q')
      BY Zenon, <2>1, <2>5, SwitchAnswered, AnsweredWell
    <2>6. ASSUME answer_kill PROVE WellFormed(q')
      BY Zenon, <2>1, <2>6, KillAnswered, AnsweredWell
    <2>7. ASSUME NEW yes \in BOOLEAN, kill_buffer_confirm_cb(yes) PROVE WellFormed(q')
      BY Zenon, <2>1, <2>7, ConfirmAnswered, AnsweredWell
    <2>8. ASSUME NEW name \in {"find-file", "find-alternate-file"}, answer_find(name)
          PROVE  WellFormed(q')
      BY Zenon, <2>1, <2>8, FindAnswered, AnsweredWell
    <2>9. ASSUME NEW focus \in BOOLEAN, do_split_window(focus) PROVE WellFormed(q')
      BY Zenon, <2>1, <2>9, SplitWell
    <2>10. ASSUME do_delete_window PROVE WellFormed(q')
      BY Zenon, <2>1, <2>10, DeleteWell
    <2>11. ASSUME do_delete_other_windows PROVE WellFormed(q')
      BY Zenon, <2>1, <2>11, DeleteOthersWell
    <2>12. ASSUME NEW w \in Windows(q), do_other_window(w) PROVE WellFormed(q')
      BY Zenon, <2>1, <2>12, OtherWell
    <2>13. ASSUME show_popup PROVE WellFormed(q')
      BY Zenon, <2>1, <2>13, PopupWell
    <2>14. ASSUME do_popup_exit PROVE WellFormed(q')
      BY Zenon, <2>1, <2>14, ExitFacts DEF Exits
    <2>15. ASSUME NEW modified \in BOOLEAN, Modify(modified) PROVE WellFormed(q')
      BY Zenon, <2>1, <2>15, ModifyWell
    <2>16. ASSUME parse_arguments PROVE WellFormed(q')
      BY Zenon, <2>1, <2>16, BrokenWell DEF parse_arguments
    <2>17. WellFormed(q')
      BY ZenonT(40), <1>1, <2>3, <2>4, <2>5, <2>6, <2>7, <2>8, <2>9, <2>10, <2>11, <2>12,
         <2>13, <2>14, <2>15, <2>16 DEF Next
    <2>18. WellFormed(q)'
      BY Zenon, <2>17
    <2> QED BY Zenon, <2>2, <2>18 DEF Inv
  <1>2. CASE UNCHANGED vars
    <2>1. q' = q /\ irregular' = irregular
      BY <1>2 DEF vars
    <2>2. WellFormed(q)'
      BY Zenon, <2>1 DEF Inv
    <2> QED BY Zenon, <2>1, <2>2 DEF Inv
  <1> QED BY Zenon, <1>1, <1>2

LEMMA Invariance == Spec => []Inv
  BY InitInv, NextInv, PTL DEF Spec

(* No window shows a freed buffer or aims at a closed window, the active   *)
(* window exists and one to edit in is left, after any sequence of         *)
(* commands, for any number of buffers and windows.                        *)
THEOREM NothingEverDangles == Spec => []NothingDangles
  <1>1. Inv => NothingDangles
    <2> SUFFICES ASSUME Inv PROVE NothingDangles
      OBVIOUS
    <2>1. TypeOK
      BY Zenon, StateParts DEF Inv, WellFormed, TypeOK
    <2>2. \A w \in Windows(q) : q.win[w].b \in Buffers(q)
                                /\ q.win[w].target \in Windows(q) \cup {NULL}
      BY DEF Inv, WellFormed, WindowOK
    <2>3. Of(q, "normal") # {}
      BY Zenon DEF Inv, WellFormed
    <2> QED BY Zenon, <2>1, <2>2, <2>3 DEF NothingDangles
  <1> QED BY <1>1, Invariance, PTL

(* An open minibuffer has a callback and exactly one window, until         *)
(* do_minibuffer_exit has called the callback: no command closes the       *)
(* window of a prompt, kills its buffer or opens it twice.                 *)
THEOREM PromptsStayOpen == Spec => []PromptsAnswerable
  <1>1. Inv => PromptsAnswerable
    <2> SUFFICES ASSUME Inv PROVE PromptsAnswerable
      OBVIOUS
    <2>1. ASSUME NEW b \in Buffers(q), q.buf[b].kind = "minibuf"
          PROVE  q.buf[b].cb # "none" /\ Cardinality(Showing(q, b)) = 1
      <3>1. PromptOK(q, b)
        BY Zenon, <2>1 DEF Inv, WellFormed
      <3>2. PICK w \in Windows(q) : Showing(q, b) = {w}
        BY Zenon, <3>1 DEF PromptOK
      <3> QED BY Zenon, <3>1, <3>2, FS_Singleton DEF PromptOK
    <2>2. \A w \in Of(q, "minibuf") : q.win[w].b \in Buffers(q)
                                      /\ q.buf[q.win[w].b].kind = "minibuf"
      BY Zenon DEF Inv, WellFormed, WindowOK, Of
    <2> QED BY SMTT(30), Z3T(30), <2>1, <2>2 DEF PromptsAnswerable
  <1> QED BY <1>1, Invariance, PTL
=============================================================================
