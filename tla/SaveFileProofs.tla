--------------------------- MODULE SaveFileProofs ---------------------------
(***************************************************************************)
(* Proofs about SaveFile: what is on the disk at every moment of a save,   *)
(* for any files, blocks, permissions and buffer sizes.                    *)
(***************************************************************************)
EXTENDS SaveFile, TLAPS

-----------------------------------------------------------------------------
(* The inductive invariant.  The last complete version of a file is under  *)
(* its name, until a save has begun to replace it; then it is the backup.  *)
Intact ==
    \A n \in Files \ (aux.inplace \cup aux.clobbered) : last[n].there =>
        IF n \in aux.unfinished
        THEN backup[n].there /\ backup[n].data = last[n].data
        ELSE file[n].there /\ file[n].data = last[n].data

(* A file that no save has begun to replace has its permissions.           *)
ModesIntact ==
    \A n \in Files \ aux.unfinished :
        last[n].there => file[n].there /\ file[n].mode = last[n].mode

(* A missing file has no data, and is not the mapped one.                  *)
MissingEmpty ==
    \A n \in Files : ~file[n].there => file[n].data = <<>> /\ ~file[n].mapped

(* The buffer's own cells hold blocks.                                     *)
BlockCell == {c \in Cell : c.own => c.v \in Block}
OwnCells == b.text \in Seq(BlockCell)

(* What is known of a running save from its locals.  A file that is opened *)
(* has been renamed before, unless it is overwritten in place; the mapped  *)
(* file is only written when some file was overwritten in place.           *)
Running ==
    /\ alive
    /\ save.end <= Len(b.text)
    /\ save.whole => /\ b.modified /\ save.name = b.filename
                     /\ save.end = Len(b.text)
                     /\ save.pc # "write" => save.start = 0
    /\ save.pc = "rename" => save.whole
    /\ save.pc = "open" => \/ save.name \in aux.inplace \cup aux.unfinished
                           \/ ~file[save.name].there
    /\ save.pc = "write" => /\ save.name \in aux.unfinished
                            /\ file[save.name].there
                            /\ save.whole \/ save.name \in aux.regions
    /\ save.pc # "rename" /\ file[save.name].mapped => aux.bare

(* The permissions that finish will give to the file are the ones it had.  *)
ModeCarried ==
    save.name \notin aux.retried /\ last[save.name].there =>
        IF save.whole THEN save.st_mode = Permissions(last[save.name].mode)
        ELSE file[save.name].there /\ file[save.name].mode = last[save.name].mode

(* No step of a save changes the text of the buffer.                       *)
Steady == ~aux.bare \/ \A i \in DOMAIN b.text : b.text[i].own

(* What a whole save has written so far is the beginning of the text.      *)
Written ==
    save.pc = "write" /\ save.whole /\ Steady =>
        /\ Len(file[save.name].data) = save.start
        /\ \A i \in 1..save.start : file[save.name].data[i] = Fetch(b.text[i])

(* UnmodifiedOnDisk holds in the middle of a save too.                     *)
OnDisk ==
    /\ alive /\ ~b.modified
    /\ ~aux.retitled /\ b.filename \notin aux.regions
    /\ Steady
    => file[b.filename].data = Text

MapIntact == alive /\ ~aux.bare => Readable

SaveInv ==
    /\ TypeOK
    /\ Intact
    /\ ModesIntact
    /\ MissingEmpty
    /\ OwnCells
    /\ save.pc # "idle" => Running /\ ModeCarried /\ Written
    /\ OnDisk
    /\ MapIntact

-----------------------------------------------------------------------------
(* Modes are numbers, and masking them twice changes nothing.              *)
LEMMA ModeFacts ==
    /\ Mode0644 \in Nat
    /\ \A m \in Nat : /\ Permissions(m) \in Nat
                     /\ Permissions(Permissions(m)) = Permissions(m)
BY DEF Mode0644, Permissions

(* A text stays a text when a cell is put in or taken out.                 *)
LEMMA InsertType ==
    ASSUME NEW S, NEW s \in Seq(S), NEW o \in 0..Len(s), NEW e \in S
    PROVE  InsertBytes(s, o, <<e>>) \in Seq(S)
<1>1. SubSeq(s, 1, o) \in Seq(S)
  OBVIOUS
<1>2. SubSeq(s, o + 1, Len(s)) \in Seq(S)
  OBVIOUS
<1> QED  BY <1>1, <1>2 DEF InsertBytes

LEMMA DeleteType ==
    ASSUME NEW S, NEW s \in Seq(S), NEW o \in 0..(Len(s) - 1)
    PROVE  DeleteBytes(s, o, 1) \in Seq(S)
<1>1. SubSeq(s, 1, o) \in Seq(S)
  OBVIOUS
<1>2. SubSeq(s, o + 1 + 1, Len(s)) \in Seq(S)
  OBVIOUS
<1> QED  BY <1>1, <1>2 DEF DeleteBytes

LEMMA EditStep == SaveInv /\ Edit => SaveInv'
<1> SUFFICES ASSUME SaveInv, Edit
             PROVE  SaveInv'
  BY SMTT(30), Z3T(30)
<1> USE SaveFileAssumption, ModeFacts
<1> DEFINE S == {c \in BlockCell : aux.bare \/ Backed(c)}
<1>0. UNCHANGED <<file, backup, save, alive, backup_inhibited, last, aux>>
      /\ alive /\ save.pc = "idle"
  BY DEF Edit, Editing
<1>1. b.text \in Seq(S) /\ \A v \in Block : Own(v) \in S
  <2>1. b.text \in Seq(BlockCell) /\ \A i \in DOMAIN b.text : b.text[i] \in S
    BY <1>0 DEF SaveInv, OwnCells, MapIntact, Readable
  <2>2. \A v \in Block : Own(v) \in S
    BY SMTT(30), Z3T(30) DEF BlockCell, Own, Cell, Backed
  <2> QED  BY <2>1, <2>2
<1>2. PICK t \in Seq(S) : b' = [b EXCEPT !.text = t, !.modified = TRUE]
  <2> HIDE DEF S
  <2> QED  BY <1>1, InsertType, DeleteType DEF Edit
<1>3. b' = [text |-> t, map |-> b.map, filename |-> b.filename, modified |-> TRUE]
  BY Zenon, <1>2 DEF SaveInv, TypeOK, Buffer
<1>4. t \in Seq(BlockCell) /\ t \in Seq(Cell)
  BY DEF BlockCell
<1>5. b' \in Buffer
  BY <1>3, <1>4 DEF SaveInv, TypeOK, Buffer
<1>6. TypeOK'
  BY <1>0, <1>5 DEF SaveInv, TypeOK
<1>7. Intact' /\ ModesIntact' /\ MissingEmpty'
  BY <1>0 DEF SaveInv, Intact, ModesIntact, MissingEmpty
<1>8. OwnCells'
  BY <1>3, <1>4 DEF OwnCells
<1>9. OnDisk'
  BY <1>3 DEF OnDisk
<1>10. MapIntact'
  BY <1>0, <1>3 DEF MapIntact, Readable, Backed
<1> QED  BY <1>0, <1>6, <1>7, <1>8, <1>9, <1>10 DEF SaveInv

-----------------------------------------------------------------------------
(* The commands that start a save.  What Begin records.                    *)
LEMMA BeginFields ==
    ASSUME TypeOK, NEW n \in Files, NEW bare \in BOOLEAN, Begin(n, bare)
    PROVE  /\ aux' \in Aux
           /\ aux'.unfinished = aux.unfinished
           /\ aux'.retried = aux.retried \cup (aux.unfinished \cap {n})
           /\ aux'.clobbered = aux.clobbered
           /\ aux'.inplace = IF bare THEN aux.inplace \cup {n} ELSE aux.inplace
           /\ aux'.regions = aux.regions
           /\ aux'.bare = (aux.bare \/ bare)
           /\ aux'.retitled = aux.retitled
<1> DEFINE r == aux.retried \cup (aux.unfinished \cap {n})
           p == IF bare THEN aux.inplace \cup {n} ELSE aux.inplace
<1>1. aux \in Aux
  BY DEF TypeOK
<1>2. aux' = [aux EXCEPT !.retried = r, !.inplace = p, !.bare = @ \/ bare,
                         !.unset = FALSE, !.commands = @ + 1]
  BY DEF Begin
<1>3. r \in SUBSET Files /\ p \in SUBSET Files
  BY <1>1 DEF Aux
<1> HIDE DEF r, p
<1>4. aux' = [unfinished |-> aux.unfinished, retried |-> r,
              clobbered |-> aux.clobbered, inplace |-> p,
              regions |-> aux.regions, bare |-> aux.bare \/ bare,
              retitled |-> aux.retitled, unset |-> FALSE,
              commands |-> aux.commands + 1]
  BY Zenon, <1>1, <1>2 DEF Aux
<1>5. aux' \in Aux
  BY <1>1, <1>3, <1>4 DEF Aux
<1> QED  BY <1>4, <1>5 DEF r, p

(* The parts of the invariant that a command which only records what it    *)
(* begins cannot disturb.                                                  *)
LEMMA BeginKeeps ==
    ASSUME SaveInv, NEW n \in Files, NEW bare \in BOOLEAN, Begin(n, bare),
           UNCHANGED <<file, backup, alive, last>>,
           b'.text = b.text, b'.map = b.map
    PROVE  Intact' /\ ModesIntact' /\ MissingEmpty' /\ OwnCells' /\ MapIntact'
<1>1. TypeOK
  BY DEF SaveInv
<1>2. Intact'
  BY Zenon, <1>1, BeginFields DEF SaveInv, Intact
<1>3. ModesIntact' /\ MissingEmpty'
  BY Zenon, <1>1, BeginFields DEF SaveInv, ModesIntact, MissingEmpty
<1>4. OwnCells'
  BY DEF SaveInv, OwnCells
<1>5. MapIntact'
  BY Zenon, <1>1, BeginFields DEF SaveInv, MapIntact, Readable, Backed
<1> QED  BY <1>2, <1>3, <1>4, <1>5

(* eb_save_buffer, for a buffer that has just got the name n.              *)
LEMMA SaveBegins ==
    ASSUME SaveInv, Editing, NEW n \in Files, eb_save_buffer(n),
           UNCHANGED <<file, backup, alive, backup_inhibited, last>>,
           b' \in Buffer, b'.text = b.text, b'.map = b.map,
           b'.filename = n, b'.modified
    PROVE  SaveInv'
<1> USE SaveFileAssumption, ModeFacts
<1>1. TypeOK /\ alive /\ backup_inhibited \in BOOLEAN
  BY DEF SaveInv, TypeOK, Editing
<1>2. Begin(n, backup_inhibited)
  BY DEF eb_save_buffer
<1>3. aux' \in Aux
  BY Zenon, <1>1, <1>2, BeginFields
<1>4. save' = [pc |-> IF backup_inhibited THEN "open" ELSE "rename", name |-> n,
               st_mode |-> StMode(n), start |-> 0, end |-> Len(b.text),
               whole |-> TRUE]
  BY DEF eb_save_buffer
<1>5. StMode(n) \in Nat /\ Len(b.text) \in Nat
  <2>1. file[n].mode \in Nat /\ b.text \in Seq(Cell)
    BY <1>1 DEF TypeOK, Entry, Buffer
  <2>2. StMode(n) \in Nat
    BY Zenon, <2>1, ModeFacts DEF StMode
  <2> QED  BY <2>1, <2>2
<1>6. TypeOK'
  BY <1>1, <1>3, <1>4, <1>5 DEF TypeOK
<1>7. Intact' /\ ModesIntact' /\ MissingEmpty' /\ OwnCells' /\ MapIntact'
  BY <1>1, <1>2, BeginKeeps
<1>8. Running'
  <2>1. /\ backup_inhibited => n \in aux'.inplace /\ aux'.bare
        /\ save'.pc = IF backup_inhibited THEN "open" ELSE "rename"
        /\ save'.name = n /\ save'.start = 0 /\ save'.end = Len(b.text)
        /\ save'.whole
    BY Zenon, <1>1, <1>2, <1>4, BeginFields
  <2> QED  BY <1>1, <1>5, <2>1 DEF Running
<1>9. ModeCarried'
  <2>1. n \notin aux'.retried => n \notin aux.unfinished
    BY Zenon, <1>1, <1>2, BeginFields
  <2>2. save'.name = n /\ save'.whole /\ save'.st_mode = StMode(n)
    BY <1>4
  <2> QED  BY <2>1, <2>2 DEF SaveInv, ModesIntact, ModeCarried, StMode
<1>10. Written' /\ OnDisk'
  BY <1>4 DEF Written, OnDisk
<1> QED  BY <1>6, <1>7, <1>8, <1>9, <1>10 DEF SaveInv

LEMMA SaveBufferStep == SaveInv /\ do_save_buffer => SaveInv'
<1> SUFFICES ASSUME SaveInv, do_save_buffer
             PROVE  SaveInv'
  OBVIOUS
<1>1. b \in Buffer /\ b.filename \in Files
  BY DEF SaveInv, TypeOK, Buffer
<1> QED  BY <1>1, SaveBegins DEF do_save_buffer

LEMMA WriteFileStep == SaveInv /\ do_write_file => SaveInv'
<1> SUFFICES ASSUME SaveInv, do_write_file
             PROVE  SaveInv'
  OBVIOUS
<1>1. PICK n \in Files : /\ b' = [b EXCEPT !.filename = n, !.modified = TRUE]
                         /\ eb_save_buffer(n)
  BY DEF do_write_file
<1>2. b' = [text |-> b.text, map |-> b.map, filename |-> n, modified |-> TRUE]
  BY Zenon, <1>1 DEF SaveInv, TypeOK, Buffer
<1>3. b' \in Buffer
  BY <1>2 DEF SaveInv, TypeOK, Buffer
<1> QED  BY <1>1, <1>2, <1>3, SaveBegins DEF do_write_file

LEMMA WriteRegionStep == SaveInv /\ do_write_region => SaveInv'
<1> SUFFICES ASSUME SaveInv, do_write_region
             PROVE  SaveInv'
  OBVIOUS
<1> USE SaveFileAssumption, ModeFacts
<1>1. PICK n \in Files, from \in 0..Len(b.text), to \in 0..Len(b.text) :
         /\ from <= to
         /\ save' = [pc |-> "open", name |-> n, st_mode |-> Mode0644,
                     start |-> from, end |-> to, whole |-> FALSE]
         /\ Begin(n, TRUE)
  <2>1. PICK n \in Files, mark \in 0..Len(b.text), offset \in 0..Len(b.text) :
           /\ save' = [pc |-> "open", name |-> n, st_mode |-> Mode0644,
                       start |-> Region(mark, offset)[1],
                       end |-> Region(mark, offset)[2], whole |-> FALSE]
           /\ Begin(n, TRUE)
    BY Zenon DEF do_write_region
  <2>2. Len(b.text) \in Nat
    BY DEF SaveInv, TypeOK, Buffer
  <2> DEFINE from == Region(mark, offset)[1]
             to == Region(mark, offset)[2]
  <2>3. from \in 0..Len(b.text) /\ to \in 0..Len(b.text) /\ from <= to
    BY <2>2 DEF Region
  <2> HIDE DEF from, to
  <2>4. save' = [pc |-> "open", name |-> n, st_mode |-> Mode0644,
                 start |-> from, end |-> to, whole |-> FALSE]
    BY <2>1 DEF from, to
  <2> QED  BY Zenon, <2>1, <2>3, <2>4
<1>2. /\ UNCHANGED <<file, backup, b, alive, backup_inhibited, last>>
      /\ TypeOK /\ alive /\ save.pc = "idle"
  BY DEF do_write_region, Editing, SaveInv
<1>3. aux' \in Aux
  BY Zenon, <1>1, <1>2, BeginFields
<1>4. TypeOK' /\ Len(b.text) \in Nat
  BY <1>1, <1>2, <1>3 DEF TypeOK, Buffer
<1>5. Intact' /\ ModesIntact' /\ MissingEmpty' /\ OwnCells' /\ MapIntact'
  BY Zenon, <1>1, <1>2, BeginKeeps
<1>6. Running'
  <2>1. n \in aux'.inplace /\ aux'.bare
    BY Zenon, <1>1, <1>2, BeginFields
  <2> QED  BY <1>1, <1>2, <1>4, <2>1 DEF Running
<1>7. ModeCarried'
  BY Zenon, <1>1, <1>2, BeginFields DEF SaveInv, ModesIntact, ModeCarried
<1>8. Written'
  BY <1>1 DEF Written
<1>9. OnDisk'
  BY Zenon, <1>1, <1>2, BeginFields DEF SaveInv, OnDisk, Steady, Text, Fetch
<1> QED  BY <1>4, <1>5, <1>6, <1>7, <1>8, <1>9 DEF SaveInv

-----------------------------------------------------------------------------
(* The steps of a save.  No save is running in Idle.                       *)
LEMMA IdleFields ==
    /\ Idle \in [pc : {"idle", "rename", "open", "write"}, name : Files,
                 st_mode : Nat, start : Nat, end : Nat, whole : BOOLEAN]
    /\ Idle.start <= Idle.end /\ Idle.pc = "idle"
BY SaveFileAssumption, ModeFacts DEF Idle

(* What SetData does to the file and, when it is the mapped one, to the    *)
(* buffer.                                                                 *)
LEMMA SetDataFields ==
    ASSUME TypeOK, NEW n \in Files, NEW d \in Seq(Block), SetData(n, d)
    PROVE  /\ file' \in [Files -> Entry]
           /\ \A m \in Files \ {n} : file'[m] = file[m]
           /\ file'[n].there /\ file'[n].data = d
           /\ file[n].there => /\ file'[n].mode = file[n].mode
                               /\ file'[n].mapped = file[n].mapped
           /\ ~file[n].there => ~file'[n].mapped
           /\ b' \in Buffer /\ b'.text = b.text
           /\ b'.filename = b.filename /\ b'.modified = b.modified
           /\ ~file[n].mapped => b' = b
<1> DEFINE e == IF file[n].there THEN [file[n] EXCEPT !.data = d]
                ELSE Regular(d, Mode0644)
<1>1. file[n] \in Entry /\ b \in Buffer /\ file \in [Files -> Entry]
  BY DEF TypeOK
<1>2. e \in Entry /\ e.there /\ e.data = d
  BY Zenon, <1>1, ModeFacts DEF Entry, Regular
<1>3. file[n].there => e.mode = file[n].mode /\ e.mapped = file[n].mapped
  BY <1>1 DEF Entry
<1>4. ~file[n].there => ~e.mapped
  BY DEF Regular
<1>5. file' = [file EXCEPT ![n] = e]
  BY DEF SetData
<1> HIDE DEF e
<1>6. file' \in [Files -> Entry] /\ file'[n] = e
      /\ \A m \in Files \ {n} : file'[m] = file[m]
  BY <1>1, <1>2, <1>5
<1>7. /\ b' \in Buffer /\ b'.text = b.text
      /\ b'.filename = b.filename /\ b'.modified = b.modified
  <2>1. [b EXCEPT !.map = d] \in Buffer
    BY Zenon, <1>1 DEF Buffer
  <2> QED  BY <1>1, <2>1 DEF SetData, Buffer
<1>8. ~file[n].mapped => b' = b
  BY DEF SetData
<1> QED  BY <1>2, <1>3, <1>4, <1>6, <1>7, <1>8

(* In a steady save the text reads the same after SetData.                 *)
LEMMA SetDataText ==
    ASSUME SaveInv, save.pc \in {"open", "write"}, NEW d \in Seq(Block),
           SetData(save.name, d), Steady
    PROVE  \A i \in DOMAIN b.text : Fetch(b.text[i])' = Fetch(b.text[i])
<1>1. TypeOK /\ save.name \in Files
  BY DEF SaveInv, TypeOK
<1>2. b'.text = b.text
  BY <1>1, SetDataFields
<1>3. CASE file[save.name].mapped
  <2>1. \A i \in DOMAIN b.text : b.text[i].own
    BY <1>3 DEF SaveInv, Running, Steady
  <2> QED  BY <1>2, <2>1 DEF Fetch
<1>4. CASE ~file[save.name].mapped
  <2>1. b' = b
    BY <1>1, <1>4, SetDataFields
  <2> QED  BY <2>1 DEF Fetch
<1> QED  BY <1>3, <1>4

(* The mapped file is not written while the map must stay readable.        *)
LEMMA SetDataMap ==
    ASSUME SaveInv, save.pc \in {"open", "write"}, NEW d \in Seq(Block),
           SetData(save.name, d), aux'.bare = aux.bare, alive' = alive
    PROVE  MapIntact' /\ OwnCells'
<1>1. TypeOK /\ save.name \in Files
  BY DEF SaveInv, TypeOK
<1>2. ~aux.bare => b' = b
  BY <1>1, SetDataFields DEF SaveInv, Running
<1>3. b'.text = b.text
  BY <1>1, SetDataFields
<1>4. MapIntact'
  BY <1>2 DEF SaveInv, MapIntact, Readable, Backed
<1>5. OwnCells'
  BY <1>3 DEF SaveInv, OwnCells
<1> QED  BY <1>4, <1>5

LEMMA RenameStep == SaveInv /\ rename => SaveInv'
<1> SUFFICES ASSUME SaveInv, rename
             PROVE  SaveInv'
  OBVIOUS
<1> USE SaveFileAssumption, ModeFacts
<1> DEFINE n == save.name
<1>1. /\ TypeOK /\ n \in Files /\ save.pc = "rename" /\ Running /\ ModeCarried
      /\ save.whole /\ b.modified /\ aux \in Aux
      /\ UNCHANGED <<b, alive, backup_inhibited, last>>
  BY DEF SaveInv, TypeOK, Running, rename
<1>2. /\ save' \in [pc : {"idle", "rename", "open", "write"}, name : Files,
                    st_mode : Nat, start : Nat, end : Nat, whole : BOOLEAN]
      /\ save'.pc = "open" /\ save'.name = n /\ save'.st_mode = save.st_mode
      /\ save'.start = save.start /\ save'.end = save.end
      /\ save'.whole = save.whole
  BY Zenon, <1>1 DEF TypeOK, rename
<1>3. OwnCells' /\ OnDisk' /\ Written'
  BY <1>1, <1>2 DEF SaveInv, OwnCells, OnDisk, Written
<1>4. CASE /\ file[n].there
           /\ backup' = [backup EXCEPT ![n] = file[n]]
           /\ file' = [file EXCEPT ![n] = NoFile]
           /\ aux' = [aux EXCEPT !.clobbered = @ \cup (aux.unfinished \cap {n}),
                                 !.unfinished = @ \cup {n}]
  <2>1. /\ aux'.unfinished = aux.unfinished \cup {n}
        /\ aux'.clobbered = aux.clobbered \cup (aux.unfinished \cap {n})
        /\ aux'.inplace = aux.inplace /\ aux'.bare = aux.bare
        /\ aux'.retried = aux.retried
    BY <1>1, <1>4 DEF Aux
  <2>2. aux' \in Aux
    <3>1. aux' = [unfinished |-> aux.unfinished \cup {n}, retried |-> aux.retried,
                  clobbered |-> aux.clobbered \cup (aux.unfinished \cap {n}),
                  inplace |-> aux.inplace, regions |-> aux.regions,
                  bare |-> aux.bare, retitled |-> aux.retitled,
                  unset |-> aux.unset, commands |-> aux.commands]
      BY Zenon, <1>1, <1>4 DEF Aux
    <3> QED  BY <1>1, <3>1 DEF Aux
  <2>3. NoFile \in Entry /\ ~NoFile.there /\ NoFile.data = <<>> /\ ~NoFile.mapped
    BY DEF NoFile, Entry
  <2>4. TypeOK'
    BY <1>1, <1>2, <1>4, <2>2, <2>3 DEF TypeOK
  <2>5. Intact'
    BY <1>1, <1>4, <2>1 DEF SaveInv, TypeOK, Intact
  <2>6. ModesIntact' /\ MissingEmpty'
    BY <1>1, <1>4, <2>1, <2>3 DEF SaveInv, TypeOK, ModesIntact, MissingEmpty
  <2>7. Running'
    BY <1>1, <1>2, <1>4, <2>1, <2>3 DEF TypeOK, Running
  <2>8. ModeCarried' /\ MapIntact'
    BY <1>1, <1>2, <2>1 DEF SaveInv, ModeCarried, MapIntact, Readable, Backed
  <2> QED  BY <1>3, <2>4, <2>5, <2>6, <2>7, <2>8 DEF SaveInv
<1>5. CASE /\ aux' = IF file[n].there
                     THEN [aux EXCEPT !.inplace = @ \cup {n}, !.bare = TRUE]
                     ELSE aux
           /\ UNCHANGED <<file, backup>>
  <2>1. /\ aux'.unfinished = aux.unfinished /\ aux'.clobbered = aux.clobbered
        /\ aux'.retried = aux.retried
        /\ aux.inplace \subseteq aux'.inplace /\ (aux.bare => aux'.bare)
        /\ file[n].there => n \in aux'.inplace /\ aux'.bare
    BY <1>1, <1>5 DEF Aux
  <2>2. aux' \in Aux
    <3>1. CASE file[n].there
      <4>1. aux' = [unfinished |-> aux.unfinished, retried |-> aux.retried,
                    clobbered |-> aux.clobbered,
                    inplace |-> aux.inplace \cup {n}, regions |-> aux.regions,
                    bare |-> TRUE, retitled |-> aux.retitled,
                    unset |-> aux.unset, commands |-> aux.commands]
        BY Zenon, <1>1, <1>5, <3>1 DEF Aux
      <4> QED  BY <1>1, <4>1 DEF Aux
    <3> QED  BY <1>1, <1>5, <3>1
  <2>3. TypeOK'
    BY <1>1, <1>2, <1>5, <2>2 DEF TypeOK
  <2>4. Intact'
    BY <1>1, <1>5, <2>1 DEF SaveInv, Intact
  <2>5. ModesIntact' /\ MissingEmpty'
    BY <1>1, <1>5, <2>1 DEF SaveInv, ModesIntact, MissingEmpty
  <2>6. Running'
    BY <1>1, <1>2, <1>5, <2>1 DEF SaveInv, Running, MissingEmpty
  <2>7. ModeCarried' /\ MapIntact'
    BY <1>1, <1>2, <2>1 DEF SaveInv, ModeCarried, MapIntact, Readable, Backed
  <2> QED  BY <1>3, <2>3, <2>4, <2>5, <2>6, <2>7 DEF SaveInv
<1> QED  BY <1>4, <1>5 DEF rename

(* A save that gives up leaves everything as it is.                        *)
LEMMA GivesUp ==
    ASSUME SaveInv, save' = Idle,
           UNCHANGED <<file, backup, b, alive, backup_inhibited, last, aux>>
    PROVE  SaveInv'
<1>1. TypeOK'
  BY IdleFields DEF SaveInv, TypeOK
<1>2. Intact' /\ ModesIntact' /\ MissingEmpty' /\ OwnCells'
  BY DEF SaveInv, Intact, ModesIntact, MissingEmpty, OwnCells
<1>3. OnDisk'
  BY DEF SaveInv, OnDisk, Steady, Text, Fetch
<1>4. MapIntact'
  BY DEF SaveInv, MapIntact, Readable, Backed
<1> QED  BY IdleFields, <1>1, <1>2, <1>3, <1>4 DEF SaveInv

LEMMA WriteErrorStep == SaveInv /\ write_error => SaveInv'
BY GivesUp DEF write_error

LEMMA OpenStep == SaveInv /\ open => SaveInv'
<1> SUFFICES ASSUME SaveInv, open,
                    save' = [save EXCEPT !.pc = "write"],
                    SetData(save.name, <<>>),
                    aux' = [aux EXCEPT
                        !.unfinished = @ \cup {save.name},
                        !.regions = IF save.whole THEN @ ELSE @ \cup {save.name}]
             PROVE  SaveInv'
  BY GivesUp DEF open
<1> DEFINE n == save.name
<1>1. /\ TypeOK /\ n \in Files /\ save.pc = "open" /\ Running /\ ModeCarried
      /\ aux \in Aux /\ <<>> \in Seq(Block)
      /\ UNCHANGED <<backup, alive, backup_inhibited, last>>
  BY DEF SaveInv, TypeOK, open
<1>2. /\ save' \in [pc : {"idle", "rename", "open", "write"}, name : Files,
                    st_mode : Nat, start : Nat, end : Nat, whole : BOOLEAN]
      /\ save'.pc = "write" /\ save'.name = n /\ save'.st_mode = save.st_mode
      /\ save'.start = save.start /\ save'.end = save.end
      /\ save'.whole = save.whole
  BY <1>1 DEF TypeOK
<1>3. /\ file' \in [Files -> Entry]
      /\ \A m \in Files \ {n} : file'[m] = file[m]
      /\ file'[n].there /\ file'[n].data = <<>>
      /\ file[n].there => file'[n].mode = file[n].mode
      /\ file'[n].mapped => file[n].mapped
      /\ b' \in Buffer /\ b'.text = b.text
      /\ b'.filename = b.filename /\ b'.modified = b.modified
  BY Zenon, <1>1, SetDataFields
<1>4. /\ aux'.unfinished = aux.unfinished \cup {n}
      /\ aux'.regions = IF save.whole THEN aux.regions ELSE aux.regions \cup {n}
      /\ aux'.clobbered = aux.clobbered /\ aux'.inplace = aux.inplace
      /\ aux'.bare = aux.bare /\ aux'.retried = aux.retried
      /\ aux'.retitled = aux.retitled
  BY <1>1 DEF Aux
<1>5. aux' \in Aux
  <2> DEFINE r == IF save.whole THEN aux.regions ELSE aux.regions \cup {n}
  <2>1. r \in SUBSET Files
    BY <1>1 DEF Aux
  <2>2. aux' = [unfinished |-> aux.unfinished \cup {n}, retried |-> aux.retried,
                clobbered |-> aux.clobbered, inplace |-> aux.inplace,
                regions |-> r, bare |-> aux.bare, retitled |-> aux.retitled,
                unset |-> aux.unset, commands |-> aux.commands]
    BY Zenon, <1>1 DEF Aux
  <2> HIDE DEF r
  <2> QED  BY <1>1, <2>1, <2>2 DEF Aux
<1>6. TypeOK'
  BY <1>1, <1>2, <1>3, <1>5 DEF TypeOK
<1>7. Intact'
  BY <1>1, <1>3, <1>4 DEF SaveInv, Running, Intact
<1>8. ModesIntact' /\ MissingEmpty'
  BY <1>1, <1>3, <1>4 DEF SaveInv, ModesIntact, MissingEmpty
<1>9. Running' /\ ModeCarried'
  BY <1>1, <1>2, <1>3, <1>4 DEF Running, ModeCarried
<1>10. Written'
  BY <1>1, <1>2, <1>3 DEF Running, Written
<1>11. OnDisk'
  <2> SUFFICES ASSUME /\ alive /\ ~b.modified
                      /\ ~aux.retitled /\ b.filename \notin aux'.regions
                      /\ Steady
               PROVE  file'[b.filename].data = Text'
    BY <1>1, <1>3, <1>4 DEF OnDisk, Steady
  <2>1. b.filename # n /\ b.filename \in Files
    BY <1>1, <1>4 DEF Running, TypeOK, Buffer
  <2>2. file[b.filename].data = Text
    BY <1>4 DEF SaveInv, OnDisk
  <2>3. Text' = Text
    BY Zenon, <1>1, <1>3, SetDataText DEF Text
  <2> QED  BY <1>3, <2>1, <2>2, <2>3
<1>12. MapIntact' /\ OwnCells'
  BY Zenon, <1>1, <1>4, SetDataMap
<1> QED  BY <1>6, <1>7, <1>8, <1>9, <1>10, <1>11, <1>12 DEF SaveInv

(* The bytes that eb_read gives.                                           *)
LEMMA BytesRead ==
    ASSUME NEW S, NEW s \in Seq(S), NEW o \in Nat, NEW n \in Nat, o + n <= Len(s)
    PROVE  /\ Bytes(s, o, n) \in Seq(S) /\ Len(Bytes(s, o, n)) = n
           /\ \A i \in 1..n : Bytes(s, o, n)[i] = s[o + i]
<1>1. Bytes(s, o, n) \in Seq(S)
  BY DEF Bytes
<1>2. Len(Bytes(s, o, n)) = n
  BY DEF Bytes
<1>3. \A i \in 1..n : Bytes(s, o, n)[i] = s[o + i]
  BY DEF Bytes
<1> QED  BY <1>1, <1>2, <1>3

(* The blocks that write takes are those of the text from save.start on.   *)
LEMMA PieceOfText ==
    ASSUME SaveInv, save.pc = "write", save.start < save.end
    PROVE  /\ WriteLen \in 1..(save.end - save.start)
           /\ Piece \in Seq(BlockCell) /\ Len(Piece) = WriteLen
           /\ \A i \in 1..WriteLen : Piece[i] = b.text[save.start + i]
<1>1. /\ save.start \in Nat /\ save.end \in Nat /\ b.text \in Seq(BlockCell)
      /\ save.end <= Len(b.text) /\ Len(b.text) \in Nat
  BY DEF SaveInv, TypeOK, Running, OwnCells
<1>2. WriteLen \in 1..(save.end - save.start)
  BY <1>1, SaveFileAssumption DEF WriteLen
<1>3. \A x, y, z, n \in Nat :
         y <= z /\ n \in 1..(y - x) => n \in Nat /\ x + n <= z
  OBVIOUS
<1>4. WriteLen \in Nat /\ save.start + WriteLen <= Len(b.text)
  <2>1. WriteLen \in Nat
    BY <1>1, <1>2
  <2> QED  BY <1>1, <1>2, <1>3, <2>1
<1> DEFINE o == save.start
           n == WriteLen
           s == b.text
<1>5. Piece = Bytes(s, o, n) /\ s \in Seq(BlockCell) /\ o \in Nat /\ n \in Nat
      /\ o + n <= Len(s)
  BY <1>1, <1>4 DEF Piece
<1> HIDE DEF o, n, s
<1>6. /\ Piece \in Seq(BlockCell) /\ Len(Piece) = n
      /\ \A i \in 1..n : Piece[i] = s[o + i]
  BY <1>5, BytesRead
<1> QED  BY <1>2, <1>6 DEF o, n, s

LEMMA WriteStep == SaveInv /\ write => SaveInv'
<1> SUFFICES ASSUME SaveInv, write
             PROVE  SaveInv'
  OBVIOUS
<1> DEFINE n == save.name
           out(len) == [i \in 1..len |-> Fetch(Piece[i])]
<1>1. PICK len \in 1..WriteLen : /\ SetData(n, file[n].data \o out(len))
                                 /\ save' = [save EXCEPT !.start = @ + len]
  BY Zenon DEF write
<1>2. /\ TypeOK /\ n \in Files /\ save.pc = "write" /\ Running /\ ModeCarried
      /\ Written /\ save.start < save.end /\ PieceReadable /\ b \in Buffer
      /\ save.start \in Nat /\ save.end \in Nat /\ file[n].data \in Seq(Block)
      /\ UNCHANGED <<backup, alive, backup_inhibited, last, aux>>
  BY DEF SaveInv, TypeOK, Entry, write
<1>3. /\ len \in Nat /\ save.start + len <= save.end /\ len <= Len(Piece)
      /\ \A i \in 1..len : Piece[i] = b.text[save.start + i]
      /\ \A i \in 1..len : Piece[i] \in BlockCell /\ Backed(Piece[i])
  BY <1>1, <1>2, PieceOfText DEF PieceReadable
<1>4. out(len) \in Seq(Block) /\ Len(out(len)) = len
  BY SMTT(30), Z3T(30), <1>2, <1>3 DEF Fetch, Backed, BlockCell, Buffer
<1> DEFINE d == file[n].data \o out(len)
<1>5. /\ d \in Seq(Block) /\ Len(d) = Len(file[n].data) + len
      /\ \A i \in 1..Len(file[n].data) : d[i] = file[n].data[i]
      /\ \A i \in 1..len : d[Len(file[n].data) + i] = Fetch(Piece[i])
  BY <1>2, <1>3, <1>4
<1> HIDE DEF d, out
<1>6. SetData(n, d)
  BY <1>1 DEF d
<1>7. /\ save' \in [pc : {"idle", "rename", "open", "write"}, name : Files,
                    st_mode : Nat, start : Nat, end : Nat, whole : BOOLEAN]
      /\ save'.pc = "write" /\ save'.name = n /\ save'.st_mode = save.st_mode
      /\ save'.start = save.start + len /\ save'.end = save.end
      /\ save'.whole = save.whole
  <2> DEFINE x == save.start + len
  <2>1. x \in Nat /\ save' = [save EXCEPT !.start = x]
    BY <1>1, <1>2, <1>3
  <2> HIDE DEF x
  <2>2. /\ save' \in [pc : {"idle", "rename", "open", "write"}, name : Files,
                      st_mode : Nat, start : Nat, end : Nat, whole : BOOLEAN]
        /\ save'.pc = save.pc /\ save'.name = n /\ save'.st_mode = save.st_mode
        /\ save'.start = x /\ save'.end = save.end
        /\ save'.whole = save.whole
    BY <1>2, <2>1 DEF TypeOK
  <2> QED  BY <1>2, <2>2 DEF x
<1>8. /\ file' \in [Files -> Entry]
      /\ \A m \in Files \ {n} : file'[m] = file[m]
      /\ file'[n].there /\ file'[n].data = d
      /\ file'[n].mode = file[n].mode
      /\ file'[n].mapped = file[n].mapped
      /\ b' \in Buffer /\ b'.text = b.text
      /\ b'.filename = b.filename /\ b'.modified = b.modified
  BY Zenon, <1>2, <1>5, <1>6, SetDataFields DEF Running
<1>9. TypeOK'
  BY <1>2, <1>3, <1>7, <1>8 DEF TypeOK
<1>10. Intact'
  BY <1>2, <1>8 DEF SaveInv, Running, Intact
<1>11. ModesIntact' /\ MissingEmpty'
  BY <1>2, <1>8 DEF SaveInv, Running, ModesIntact, MissingEmpty
<1>12. Running' /\ ModeCarried'
  BY <1>2, <1>7, <1>8 DEF Running, ModeCarried
<1>13. Written'
  <2> SUFFICES ASSUME save.whole, Steady
               PROVE  /\ Len(d) = save.start + len
                      /\ \A i \in 1..(save.start + len) : d[i] = Fetch(b.text[i])'
    BY <1>2, <1>7, <1>8 DEF Written, Steady
  <2>1. /\ Len(file[n].data) = save.start
        /\ \A i \in 1..save.start : file[n].data[i] = Fetch(b.text[i])
    BY <1>2 DEF Written
  <2>2. \A i \in DOMAIN b.text : Fetch(b.text[i])' = Fetch(b.text[i])
    BY <1>2, <1>5, <1>6, SetDataText
  <2>3. \A i \in 1..(save.start + len) : d[i] = Fetch(b.text[i])
    <3> TAKE i \in 1..(save.start + len)
    <3>1. CASE i <= save.start
      BY <1>2, <1>5, <2>1, <3>1
    <3>2. CASE i > save.start
      <4>1. i - save.start \in 1..len /\ save.start + (i - save.start) = i
        BY <1>2, <1>3, <3>2
      <4> QED  BY <1>3, <1>5, <2>1, <4>1
    <3> QED  BY <1>2, <1>3, <3>1, <3>2
  <2>4. 1..(save.start + len) \subseteq DOMAIN b.text
    BY <1>2, <1>3 DEF Buffer, Running
  <2>5. Len(d) = save.start + len
    BY <1>5, <2>1
  <2> QED  BY <2>2, <2>3, <2>4, <2>5
<1>14. OnDisk'
  <2> SUFFICES ASSUME /\ alive /\ ~b.modified
                      /\ ~aux.retitled /\ b.filename \notin aux.regions
                      /\ Steady
               PROVE  file'[b.filename].data = Text'
    BY <1>2, <1>8 DEF OnDisk, Steady
  <2>1. b.filename # n /\ b.filename \in Files
    BY <1>2 DEF Running, TypeOK, Buffer
  <2>2. file[b.filename].data = Text
    BY DEF SaveInv, OnDisk
  <2>3. Text' = Text
    BY <1>2, <1>5, <1>6, <1>8, SetDataText DEF Text
  <2> QED  BY <1>8, <2>1, <2>2, <2>3
<1>15. MapIntact' /\ OwnCells'
  BY <1>2, <1>5, <1>6, SetDataMap
<1> QED  BY <1>9, <1>10, <1>11, <1>12, <1>13, <1>14, <1>15 DEF SaveInv

LEMMA FinishStep == SaveInv /\ finish => SaveInv'
<1> SUFFICES ASSUME SaveInv, finish
             PROVE  SaveInv'
  OBVIOUS
<1> DEFINE n == save.name
<1>0. PICK chmod \in BOOLEAN :
        LET saved == [file EXCEPT ![n].mode = IF save.whole /\ chmod THEN save.st_mode
                                              ELSE @]
        IN  /\ file' = saved
            /\ last' = [last EXCEPT ![n] = Regular(saved[n].data, saved[n].mode)]
            /\ aux' = [aux EXCEPT
                 !.unfinished = @ \ {n},
                 !.inplace = @ \ {n}, !.clobbered = @ \ {n},
                 !.regions = IF save.whole THEN @ \ {n} ELSE @,
                 !.retitled = @ /\ ~save.whole,
                 !.unset = save.whole /\ saved[n].mode # save.st_mode]
  BY Zenon DEF finish
<1> DEFINE m == IF save.whole /\ chmod THEN save.st_mode ELSE file[n].mode
           e == [file[n] EXCEPT !.mode = m]
           u == save.whole /\ e.mode # save.st_mode
<1>1. /\ TypeOK /\ n \in Files /\ save.pc = "write" /\ Running /\ ModeCarried
      /\ Written /\ save.start = save.end /\ b \in Buffer /\ aux \in Aux
      /\ file[n] \in Entry /\ save.st_mode \in Nat /\ save.whole \in BOOLEAN
      /\ UNCHANGED <<backup, alive, backup_inhibited>> /\ save' = Idle
  BY DEF SaveInv, TypeOK, finish
<1>2. m \in Nat
  BY <1>1 DEF Entry
<1>3. /\ e \in Entry /\ e.mode = m /\ e.data = file[n].data
      /\ e.there = file[n].there /\ e.mapped = file[n].mapped
  <2> HIDE DEF m
  <2> QED  BY <1>1, <1>2 DEF Entry
<1>4. file' = [file EXCEPT ![n] = e]
  BY <1>0
<1> HIDE DEF e
<1>5. /\ file' \in [Files -> Entry] /\ file'[n] = e
      /\ \A k \in Files \ {n} : file'[k] = file[k]
  BY <1>1, <1>3, <1>4 DEF TypeOK
<1>6. last' = [last EXCEPT ![n] = Regular(e.data, e.mode)]
  BY Zenon, <1>0, <1>5
<1>7. /\ last' \in [Files -> Entry] /\ last'[n].there
      /\ last'[n].data = e.data /\ last'[n].mode = e.mode
      /\ \A k \in Files \ {n} : last'[k] = last[k]
  <2>1. /\ Regular(e.data, e.mode) \in Entry /\ Regular(e.data, e.mode).there
        /\ Regular(e.data, e.mode).data = e.data
        /\ Regular(e.data, e.mode).mode = e.mode
    BY <1>3 DEF Regular, Entry
  <2> QED  BY <1>1, <1>6, <2>1 DEF TypeOK
<1>8. /\ b' \in Buffer /\ b'.text = b.text /\ b'.map = b.map
      /\ b'.filename = b.filename /\ b'.modified = (b.modified /\ ~save.whole)
  <2>1. b' = IF save.whole THEN [b EXCEPT !.modified = FALSE] ELSE b
    BY DEF finish
  <2> QED  BY Zenon, <1>1, <2>1 DEF Buffer
<1> DEFINE r == IF save.whole THEN aux.regions \ {n} ELSE aux.regions
<1>9. aux' = [unfinished |-> aux.unfinished \ {n}, retried |-> aux.retried,
              clobbered |-> aux.clobbered \ {n}, inplace |-> aux.inplace \ {n},
              regions |-> r, bare |-> aux.bare,
              retitled |-> aux.retitled /\ ~save.whole, unset |-> u,
              commands |-> aux.commands]
  BY Zenon, <1>0, <1>1, <1>5 DEF Aux
<1> HIDE DEF u
<1>10. aux' \in Aux
  <2>1. r \in SUBSET Files
    BY <1>1 DEF Aux
  <2> HIDE DEF r
  <2>2. u \in BOOLEAN
    BY <1>1 DEF u
  <2> QED  BY <1>1, <1>9, <2>1, <2>2 DEF Aux
<1>11. TypeOK'
  BY Zenon, <1>1, <1>5, <1>7, <1>8, <1>10, IdleFields DEF TypeOK
<1>12. Intact'
  BY SMTT(30), Z3T(30), <1>1, <1>3, <1>5, <1>7, <1>9 DEF SaveInv, Intact, Running
<1>13. ModesIntact' /\ MissingEmpty'
  BY SMTT(30), Z3T(30), <1>1, <1>3, <1>5, <1>7, <1>9 DEF SaveInv, ModesIntact, MissingEmpty, Running
<1>14. OwnCells' /\ MapIntact'
  BY <1>1, <1>8, <1>9 DEF SaveInv, OwnCells, MapIntact, Readable, Backed
<1>15. OnDisk'
  <2>1. Text' = Text /\ (Steady' <=> Steady)
    BY <1>8, <1>9 DEF Text, Fetch, Steady
  <2>2. CASE save.whole
    <3> SUFFICES ASSUME Steady
                 PROVE  file'[b.filename].data = Text
      BY <1>8, <2>1 DEF OnDisk
    <3>1. /\ Len(file[n].data) = Len(b.text) /\ b.filename = n
          /\ \A i \in 1..Len(b.text) : file[n].data[i] = Fetch(b.text[i])
      BY <1>1, <2>2 DEF Written, Running
    <3>2. file[n].data \in Seq(Block) /\ b.text \in Seq(Cell)
      BY <1>1 DEF Entry, Buffer
    <3>3. file[n].data = Text
      <4> DEFINE d == file[n].data
      <4>1. /\ d \in Seq(Block) /\ DOMAIN b.text = 1..Len(b.text)
            /\ Len(d) = Len(b.text)
        BY <3>1, <3>2
      <4>2. d = [i \in DOMAIN b.text |-> d[i]]
        <5> HIDE DEF d
        <5> QED  BY <4>1
      <4>3. Text = [i \in DOMAIN b.text |-> d[i]]
        BY <3>1, <4>1 DEF Text
      <4> QED  BY <4>2, <4>3
    <3> QED  BY <1>3, <1>5, <3>1, <3>3
  <2>3. CASE ~save.whole
    <3>1. file'[b.filename].data = file[b.filename].data
      BY <1>1, <1>3, <1>5 DEF Buffer
    <3> QED  BY Zenon, <1>1, <1>8, <1>9, <2>1, <2>3, <3>1 DEF SaveInv, OnDisk
  <2> QED  BY SMTT(30), Z3T(30), <2>2, <2>3
<1> QED  BY <1>1, <1>11, <1>12, <1>13, <1>14, <1>15, IdleFields DEF SaveInv

-----------------------------------------------------------------------------
LEMMA SetVisitedStep == SaveInv /\ do_set_visited_file_name => SaveInv'
<1> SUFFICES ASSUME SaveInv, do_set_visited_file_name
             PROVE  SaveInv'
  OBVIOUS
<1> DEFINE old == b.filename
           Moved(n, dir) == [dir EXCEPT ![n] = dir[old], ![old] = NoFile]
           Moves(n, set) == (set \ {old, n}) \cup
                            (IF old \in set THEN {n} ELSE {})
<1>1. /\ TypeOK /\ save.pc = "idle" /\ alive /\ b \in Buffer /\ aux \in Aux
      /\ old \in Files /\ UNCHANGED <<backup, save, alive, backup_inhibited>>
  BY SMTT(30), Z3T(30) DEF SaveInv, TypeOK, Buffer, do_set_visited_file_name, Editing
<1>2. PICK n \in Files \ {old} :
         /\ b' = [b EXCEPT !.filename = n]
         /\ \/ UNCHANGED <<file, last>>
               /\ aux' = [aux EXCEPT !.retitled = TRUE, !.commands = @ + 1]
            \/ /\ file' = Moved(n, file)
               /\ last' = Moved(n, last)
               /\ aux' = [aux EXCEPT
                    !.unfinished = Moves(n, @),
                    !.retried = Moves(n, @ \cup (aux.unfinished \cap {old})),
                    !.clobbered = Moves(n, @ \cup (aux.unfinished \cap {old})),
                    !.inplace = Moves(n, @), !.regions = Moves(n, @),
                    !.commands = @ + 1]
  BY DEF do_set_visited_file_name
<1>3. /\ b' \in Buffer /\ b'.text = b.text /\ b'.map = b.map
      /\ b'.filename = n /\ b'.modified = b.modified
  BY <1>1, <1>2 DEF Buffer
<1>4. OwnCells'
  BY <1>3 DEF SaveInv, OwnCells
<1>5. CASE /\ UNCHANGED <<file, last>>
           /\ aux' = [aux EXCEPT !.retitled = TRUE, !.commands = @ + 1]
  <2>1. aux' = [unfinished |-> aux.unfinished, retried |-> aux.retried,
                clobbered |-> aux.clobbered, inplace |-> aux.inplace,
                regions |-> aux.regions, bare |-> aux.bare, retitled |-> TRUE,
                unset |-> aux.unset, commands |-> aux.commands + 1]
    BY Zenon, <1>1, <1>5 DEF Aux
  <2>2. aux' \in Aux
    BY <1>1, <2>1 DEF Aux
  <2>3. TypeOK'
    BY <1>1, <1>3, <1>5, <2>2 DEF TypeOK
  <2>4. Intact' /\ ModesIntact' /\ MissingEmpty' /\ OnDisk'
    BY Zenon, <1>1, <1>5, <2>1 DEF SaveInv, Intact, ModesIntact, MissingEmpty, OnDisk
  <2>5. MapIntact'
    BY <1>1, <1>3, <2>1 DEF SaveInv, MapIntact, Readable, Backed
  <2> QED  BY <1>1, <1>4, <2>3, <2>4, <2>5 DEF SaveInv
<1>6. CASE /\ file' = Moved(n, file)
           /\ last' = Moved(n, last)
           /\ aux' = [aux EXCEPT
                    !.unfinished = Moves(n, @),
                    !.retried = Moves(n, @ \cup (aux.unfinished \cap {old})),
                    !.clobbered = Moves(n, @ \cup (aux.unfinished \cap {old})),
                    !.inplace = Moves(n, @), !.regions = Moves(n, @),
                    !.commands = @ + 1]
  <2>1. NoFile \in Entry /\ ~NoFile.there /\ NoFile.data = <<>> /\ ~NoFile.mapped
    BY ModeFacts DEF NoFile, Entry
  <2>2. /\ file' \in [Files -> Entry] /\ file'[n] = file[old]
        /\ file'[old] = NoFile
        /\ \A m \in Files \ {n, old} : file'[m] = file[m]
    BY <1>1, <1>6, <2>1 DEF TypeOK
  <2>3. /\ last' \in [Files -> Entry] /\ last'[n] = last[old]
        /\ last'[old] = NoFile
        /\ \A m \in Files \ {n, old} : last'[m] = last[m]
    BY <1>1, <1>6, <2>1 DEF TypeOK
  <2>4. \A set \in SUBSET Files : Moves(n, set) \in SUBSET Files
    OBVIOUS
  <2>5. \A set : /\ n \in Moves(n, set) <=> old \in set
                 /\ \A m \in Files \ {n, old} : m \in Moves(n, set) <=> m \in set
    OBVIOUS
  <2> HIDE DEF Moves
  <2> DEFINE tried == aux.retried \cup (aux.unfinished \cap {old})
             lost == aux.clobbered \cup (aux.unfinished \cap {old})
  <2>6. aux' = [unfinished |-> Moves(n, aux.unfinished),
                retried |-> Moves(n, tried), clobbered |-> Moves(n, lost),
                inplace |-> Moves(n, aux.inplace),
                regions |-> Moves(n, aux.regions), bare |-> aux.bare,
                retitled |-> aux.retitled, unset |-> aux.unset,
              commands |-> aux.commands + 1]
    BY Zenon, <1>1, <1>6 DEF Aux
  <2>7. aux' \in Aux
    <3> HIDE DEF tried, lost
    <3>1. /\ Moves(n, aux.unfinished) \in SUBSET Files
          /\ Moves(n, tried) \in SUBSET Files /\ Moves(n, lost) \in SUBSET Files
          /\ Moves(n, aux.inplace) \in SUBSET Files
          /\ Moves(n, aux.regions) \in SUBSET Files
      BY <1>1, <2>4 DEF Aux, tried, lost
    <3>2. /\ aux.bare \in BOOLEAN /\ aux.retitled \in BOOLEAN
          /\ aux.unset \in BOOLEAN /\ aux.commands + 1 \in Nat
      BY <1>1 DEF Aux
    <3>3. \A u, r, c, p, g \in SUBSET Files, x, y, z \in BOOLEAN, k \in Nat :
             [unfinished |-> u, retried |-> r, clobbered |-> c, inplace |-> p,
              regions |-> g, bare |-> x, retitled |-> y, unset |-> z,
              commands |-> k] \in Aux
      BY DEF Aux
    <3> QED  BY Zenon, <2>6, <3>1, <3>2, <3>3
  <2>8. TypeOK'
    BY Zenon, <1>1, <1>3, <2>2, <2>3, <2>7 DEF TypeOK
  <2>9. Intact'
    <3>1. /\ n \notin aux'.inplace \cup aux'.clobbered =>
                 /\ old \notin aux.inplace \cup aux.clobbered
                 /\ old \notin aux.unfinished /\ n \notin aux'.unfinished
          /\ \A m \in Files \ {n, old} :
                 /\ m \in aux'.inplace <=> m \in aux.inplace
                 /\ m \in aux'.clobbered <=> m \in aux.clobbered
                 /\ m \in aux'.unfinished <=> m \in aux.unfinished
      BY <1>1, <2>5, <2>6
    <3> QED  BY SMTT(30), Z3T(30), <1>1, <2>1, <2>2, <2>3, <3>1 DEF SaveInv, Intact
  <2>10. ModesIntact'
    <3>1. /\ n \notin aux'.unfinished => old \notin aux.unfinished
          /\ \A m \in Files \ {n, old} :
                 m \in aux'.unfinished <=> m \in aux.unfinished
      BY <1>1, <2>5, <2>6
    <3> QED  BY <1>1, <2>1, <2>2, <2>3, <3>1 DEF SaveInv, ModesIntact
  <2>11. MissingEmpty'
    BY <1>1, <2>1, <2>2 DEF SaveInv, MissingEmpty
  <2>12. OnDisk'
    <3>1. n \notin aux'.regions => old \notin aux.regions
      BY <2>5, <2>6
    <3>2. Text' = Text /\ (Steady' <=> Steady)
      BY <1>3, <2>6 DEF Text, Fetch, Steady
    <3>3. file'[b'.filename].data = file[old].data
      BY <1>3, <2>2
    <3>4. b'.modified = b.modified /\ aux'.retitled = aux.retitled
      BY Zenon, <1>3, <2>6
    <3> QED  BY <1>1, <1>3, <3>1, <3>2, <3>3, <3>4 DEF SaveInv, OnDisk
  <2>13. MapIntact'
    BY <1>1, <1>3, <2>6 DEF SaveInv, MapIntact, Readable, Backed
  <2> QED  BY <1>1, <1>4, <2>8, <2>9, <2>10, <2>11, <2>12, <2>13 DEF SaveInv
<1> QED  BY <1>2, <1>5, <1>6

-----------------------------------------------------------------------------
(* Death and restart.  Remap only says which file is the mapped one.       *)
LEMMA RemapFields ==
    ASSUME NEW dir \in [Files -> Entry], NEW n \in Files, NEW mmap \in BOOLEAN
    PROVE  /\ Remap(dir, n, mmap) \in [Files -> Entry]
           /\ \A m \in Files :
                 /\ Remap(dir, n, mmap)[m].there = dir[m].there
                 /\ Remap(dir, n, mmap)[m].data = dir[m].data
                 /\ Remap(dir, n, mmap)[m].mode = dir[m].mode
                 /\ Remap(dir, n, mmap)[m].mapped = (mmap /\ m = n)
<1>1. \A e \in Entry, x \in BOOLEAN :
         LET c == [e EXCEPT !.mapped = x]
         IN /\ c \in Entry /\ c.there = e.there /\ c.data = e.data
            /\ c.mode = e.mode /\ c.mapped = x
  BY Zenon DEF Entry
<1> DEFINE e(m) == [dir[m] EXCEPT !.mapped = mmap /\ m = n]
<1>2. ASSUME NEW m \in Files
      PROVE  /\ e(m) \in Entry /\ e(m).there = dir[m].there
             /\ e(m).data = dir[m].data /\ e(m).mode = dir[m].mode
             /\ e(m).mapped = (mmap /\ m = n)
  <2>1. dir[m] \in Entry /\ (mmap /\ m = n) \in BOOLEAN
    OBVIOUS
  <2> QED  BY Zenon, <1>1, <2>1
<1>3. Remap(dir, n, mmap) = [m \in Files |-> e(m)]
  BY DEF Remap
<1> HIDE DEF e
<1> QED  BY <1>2, <1>3

(* A buffer that has just been loaded reads as its file.                   *)
Loaded ==
    \A n \in Files, e \in Entry, mmap \in BOOLEAN :
        b = raw_buffer_load(n, e, mmap) =>
            /\ b \in Buffer /\ b.filename = n
            /\ OwnCells /\ Readable /\ Text = e.data

LEMMA LoadFields == Loaded
<1> SUFFICES ASSUME NEW n \in Files, NEW e \in Entry, NEW mmap \in BOOLEAN,
                    b = raw_buffer_load(n, e, mmap)
             PROVE  /\ b \in Buffer /\ b.filename = n
                    /\ OwnCells /\ Readable /\ Text = e.data
  BY DEF Loaded
<1>1. e.data \in Seq(Block)
  BY DEF Entry
<1> DEFINE cell(i) == IF mmap THEN [own |-> FALSE, v |-> i] ELSE Own(e.data[i])
           t == [i \in DOMAIN e.data |-> cell(i)]
           m == IF mmap THEN e.data ELSE <<>>
<1>2. b = [text |-> t, map |-> m, filename |-> n, modified |-> FALSE]
  BY DEF raw_buffer_load
<1>3. m \in Seq(Block) /\ (mmap => m = e.data)
  BY SMTT(30), Z3T(30), <1>1
<1>4. ASSUME NEW i \in DOMAIN e.data
      PROVE  /\ cell(i) \in BlockCell
             /\ mmap => ~cell(i).own /\ cell(i).v = i
             /\ ~mmap => cell(i).own /\ cell(i).v = e.data[i]
  <2> DEFINE d == e.data
  <2> HIDE DEF d
  <2>1. i \in Nat /\ e.data[i] \in Block /\ e.data[i] \in Nat
    <3>1. d \in Seq(Block) /\ i \in DOMAIN d
      BY <1>1 DEF d
    <3>2. i \in Nat /\ d[i] \in Block
      BY <3>1
    <3> QED  BY Zenon, <3>2, SaveFileAssumption DEF d
  <2>2. CASE mmap
    BY <2>1, <2>2 DEF BlockCell, Cell
  <2>3. CASE ~mmap
    BY <2>1, <2>3 DEF BlockCell, Cell, Own
  <2> QED  BY <2>2, <2>3
<1> HIDE DEF cell
<1>5. t \in Seq(BlockCell)
  <2>1. Len(e.data) \in Nat /\ DOMAIN e.data = 1..Len(e.data)
    BY <1>1
  <2>2. t \in [1..Len(e.data) -> BlockCell]
    BY <1>4, <2>1
  <2> QED  BY <2>1, <2>2
<1>6. DOMAIN t = DOMAIN e.data /\ \A i \in DOMAIN e.data : t[i] = cell(i)
  OBVIOUS
<1> HIDE DEF t, m
<1>7. b \in Buffer
  <2>1. t \in Seq(Cell)
    BY <1>5 DEF BlockCell
  <2> QED  BY <1>2, <1>3, <2>1 DEF Buffer
<1>8. b.text = t /\ b.map = m /\ b.filename = n
  BY <1>2
<1>9. OwnCells
  BY <1>5, <1>8 DEF OwnCells
<1>10. Readable
  BY <1>3, <1>4, <1>6, <1>8 DEF Readable, Backed
<1>11. Text = e.data
  <2>1. \A i \in DOMAIN e.data : Fetch(b.text[i]) = e.data[i]
    BY <1>3, <1>4, <1>6, <1>8 DEF Fetch
  <2>2. Text = [i \in DOMAIN e.data |-> e.data[i]]
    BY <1>6, <1>8, <2>1 DEF Text
  <2> QED  BY <1>1, <2>2
<1> QED  BY <1>7, <1>8, <1>9, <1>10, <1>11

LEMMA LoadFieldsNext == Loaded'
BY LoadFields, PTL

LEMMA DieStep == SaveInv /\ Die => SaveInv'
<1> SUFFICES ASSUME SaveInv, Die
             PROVE  SaveInv'
  OBVIOUS
<1>1. /\ TypeOK /\ b \in Buffer /\ b.filename \in Files /\ aux \in Aux
      /\ file \in [Files -> Entry] /\ backup \in [Files -> Entry]
      /\ UNCHANGED <<backup_inhibited, last>> /\ ~alive' /\ save' = Idle
      /\ alive' \in BOOLEAN
  BY Zenon DEF SaveInv, TypeOK, Buffer, Die
<1>2. /\ file' = Remap(file, b.filename, FALSE)
      /\ backup' = Remap(backup, b.filename, FALSE)
  BY DEF Die
<1>3. /\ file' \in [Files -> Entry] /\ backup' \in [Files -> Entry]
      /\ \A m \in Files :
            /\ file'[m].there = file[m].there /\ file'[m].data = file[m].data
            /\ file'[m].mode = file[m].mode /\ ~file'[m].mapped
            /\ backup'[m].there = backup[m].there
            /\ backup'[m].data = backup[m].data
  <2> DEFINE no == FALSE
  <2>1. /\ no \in BOOLEAN /\ file' = Remap(file, b.filename, no)
        /\ backup' = Remap(backup, b.filename, no)
    BY <1>2
  <2> HIDE DEF no
  <2>2. /\ file' \in [Files -> Entry]
        /\ \A m \in Files :
              /\ file'[m].there = file[m].there /\ file'[m].data = file[m].data
              /\ file'[m].mode = file[m].mode
              /\ file'[m].mapped = (no /\ m = b.filename)
    BY <1>1, <2>1, RemapFields
  <2>3. /\ backup' \in [Files -> Entry]
        /\ \A m \in Files : /\ backup'[m].there = backup[m].there
                              /\ backup'[m].data = backup[m].data
    BY <1>1, <2>1, RemapFields
  <2> QED  BY Zenon, <2>2, <2>3 DEF no
<1>4. b' \in Buffer /\ b'.text = <<>>
  BY <1>1 DEF Die, Buffer
<1>5. aux' = [unfinished |-> aux.unfinished, retried |-> aux.retried,
              clobbered |-> aux.clobbered, inplace |-> aux.inplace,
              regions |-> aux.regions, bare |-> FALSE, retitled |-> FALSE,
              unset |-> FALSE, commands |-> aux.commands]
  BY Zenon, <1>1 DEF Die, Aux
<1>6. aux' \in Aux
  BY <1>1, <1>5 DEF Aux
<1>7. TypeOK'
  BY Zenon, <1>1, <1>3, <1>4, <1>6, IdleFields DEF TypeOK
<1>8. Intact'
  BY SMTT(30), Z3T(30), <1>1, <1>3, <1>5 DEF SaveInv, Intact
<1>9. ModesIntact' /\ MissingEmpty'
  BY <1>1, <1>3, <1>5 DEF SaveInv, ModesIntact, MissingEmpty
<1>10. OwnCells' /\ OnDisk' /\ MapIntact'
  BY <1>1, <1>4 DEF OwnCells, OnDisk, MapIntact
<1> QED  BY <1>1, <1>7, <1>8, <1>9, <1>10, IdleFields DEF SaveInv

LEMMA RestartStep == SaveInv /\ Restart => SaveInv'
<1> SUFFICES ASSUME SaveInv, Restart
             PROVE  SaveInv'
  OBVIOUS
<1>1. PICK n \in Files, mmap \in BOOLEAN :
         /\ mmap => file[n].data # <<>>
         /\ b' = raw_buffer_load(n, file[n], mmap)
         /\ file' = Remap(file, n, mmap)
         /\ aux' = [aux EXCEPT !.regions = @ \ {n}, !.commands = @ + 1]
  BY DEF Restart
<1>2. /\ TypeOK /\ aux \in Aux /\ file \in [Files -> Entry] /\ file[n] \in Entry
      /\ UNCHANGED <<backup, save, backup_inhibited, last>>
      /\ alive' /\ alive' \in BOOLEAN /\ save.pc = "idle"
  BY DEF SaveInv, TypeOK, Running, Restart
<1>3. /\ b' \in Buffer /\ b'.filename = n
      /\ OwnCells' /\ Readable' /\ Text' = file[n].data
  BY <1>1, <1>2, LoadFieldsNext DEF Loaded
<1>4. /\ file' \in [Files -> Entry]
      /\ \A m \in Files :
            /\ file'[m].there = file[m].there /\ file'[m].data = file[m].data
            /\ file'[m].mode = file[m].mode /\ file'[m].mapped = (mmap /\ m = n)
  BY <1>1, <1>2, RemapFields
<1>5. aux' = [unfinished |-> aux.unfinished, retried |-> aux.retried,
              clobbered |-> aux.clobbered, inplace |-> aux.inplace,
              regions |-> aux.regions \ {n}, bare |-> aux.bare,
              retitled |-> aux.retitled, unset |-> aux.unset,
              commands |-> aux.commands + 1]
  BY Zenon, <1>1, <1>2 DEF Aux
<1>6. aux' \in Aux
  BY <1>2, <1>5 DEF Aux
<1>7. TypeOK'
  BY Zenon, <1>2, <1>3, <1>4, <1>6 DEF TypeOK
<1>8. Intact'
  BY SMTT(30), Z3T(30), <1>2, <1>4, <1>5 DEF SaveInv, Intact
<1>9. ModesIntact'
  BY <1>2, <1>4, <1>5 DEF SaveInv, ModesIntact
<1>10. MissingEmpty'
  <2> SUFFICES ASSUME NEW m \in Files, ~file'[m].there
               PROVE  file'[m].data = <<>> /\ ~file'[m].mapped
    BY DEF MissingEmpty
  <2>1. file[m].data = <<>>
    BY <1>4 DEF SaveInv, MissingEmpty
  <2> QED  BY ZenonT(40), <1>1, <1>4, <2>1
<1>11. OnDisk' /\ MapIntact'
  BY SMTT(30), Z3T(30), <1>3, <1>4 DEF OnDisk, MapIntact
<1> QED  BY ZenonT(40), <1>2, <1>3, <1>7, <1>8, <1>9, <1>10, <1>11 DEF SaveInv

-----------------------------------------------------------------------------
LEMMA SaveInit == Init => SaveInv
<1> SUFFICES ASSUME Init
             PROVE  SaveInv
  BY SMTT(30), Z3T(30)
<1> DEFINE n == CHOOSE m \in Files : TRUE
           v0 == CHOOSE v \in Block : TRUE
           disk(d, x) == [m \in Files |-> IF d[m] = 0 THEN NoFile
                                          ELSE Regular([i \in 1..d[m] |-> v0], x)]
<1>1. PICK mmap \in BOOLEAN, d \in [Files -> {0, 2}], x0 \in Modes :
         /\ mmap => disk(d, x0)[n].there
         /\ last = disk(d, x0)
         /\ file = Remap(disk(d, x0), n, mmap)
         /\ b = raw_buffer_load(n, disk(d, x0)[n], mmap)
  BY DEF Init
<1>2. n \in Files /\ v0 \in Block /\ x0 \in Nat
  BY SaveFileAssumption
<1>3. NoFile \in Entry /\ NoFile.data = <<>> /\ ~NoFile.there
  BY ModeFacts DEF NoFile, Entry
<1> HIDE DEF n, v0
<1>4. ASSUME NEW k \in Nat
      PROVE  /\ Regular([i \in 1..k |-> v0], x0) \in Entry
             /\ Regular([i \in 1..k |-> v0], x0).there
  <2>1. [i \in 1..k |-> v0] \in Seq(Block)
    BY SMTT(30), Z3T(30), <1>2
  <2> QED  BY <1>2, <2>1 DEF Regular, Entry
<1> DEFINE dir == disk(d, x0)
<1>5. ASSUME NEW m \in Files
      PROVE  dir[m] \in Entry /\ (~dir[m].there => dir[m].data = <<>>)
  <2>1. d[m] \in Nat
    OBVIOUS
  <2>2. CASE d[m] = 0
    BY <1>3, <2>2
  <2>3. CASE d[m] # 0
    BY <1>4, <2>1, <2>3
  <2> QED  BY <2>2, <2>3
<1>6. dir = [m \in Files |-> dir[m]]
  OBVIOUS
<1> HIDE DEF dir
<1>7. /\ file \in [Files -> Entry]
      /\ \A m \in Files :
            /\ file[m].there = dir[m].there /\ file[m].data = dir[m].data
            /\ file[m].mode = dir[m].mode /\ file[m].mapped = (mmap /\ m = n)
  <2>1. dir \in [Files -> Entry] /\ file = Remap(dir, n, mmap)
    BY <1>1, <1>5, <1>6 DEF dir
  <2> QED  BY SMTT(30), Z3T(30), <1>2, <2>1, RemapFields
<1>8. /\ b \in Buffer /\ b.filename = n
      /\ OwnCells /\ Readable /\ Text = dir[n].data
  <2>1. dir[n] \in Entry /\ b = raw_buffer_load(n, dir[n], mmap)
    BY Zenon, <1>1, <1>2, <1>5 DEF dir
  <2> QED  BY Zenon, <1>2, <2>1, LoadFields DEF Loaded
<1>9. /\ last = dir /\ last \in [Files -> Entry] /\ (mmap => dir[n].there)
  BY Zenon, <1>1, <1>5, <1>6 DEF dir
<1>10. /\ backup = [m \in Files |-> NoFile] /\ save = Idle /\ alive = TRUE
      /\ backup_inhibited \in BOOLEAN
      /\ aux = [unfinished |-> {}, retried |-> {}, clobbered |-> {},
                inplace |-> {}, regions |-> {}, bare |-> FALSE,
                retitled |-> FALSE, unset |-> FALSE, commands |-> 0]
  BY DEF Init
<1>11. aux \in Aux
  BY Zenon, <1>10 DEF Aux
<1>12. TypeOK
  BY Zenon, <1>3, <1>7, <1>8, <1>9, <1>10, <1>11, IdleFields DEF TypeOK
<1>13. Intact /\ ModesIntact
  BY <1>7, <1>9, <1>10 DEF Intact, ModesIntact
<1>14. MissingEmpty
  BY Zenon, <1>5, <1>7, <1>9 DEF MissingEmpty
<1>15. OnDisk /\ MapIntact
  BY <1>2, <1>7, <1>8 DEF OnDisk, MapIntact
<1> QED  BY <1>8, <1>10, <1>12, <1>13, <1>14, <1>15, IdleFields DEF SaveInv

LEMMA SaveNext == SaveInv /\ [Next]_vars => SaveInv'
<1> SUFFICES ASSUME SaveInv, [Next]_vars
             PROVE  SaveInv'
  OBVIOUS
<1>1. CASE UNCHANGED vars
  <2>1. UNCHANGED <<file, backup, b, save, alive, backup_inhibited, last, aux>>
    BY <1>1 DEF vars
  <2>2. TypeOK'
    BY <2>1 DEF SaveInv, TypeOK
  <2>3. Intact' /\ ModesIntact' /\ MissingEmpty' /\ OwnCells'
    BY Zenon, <2>1 DEF SaveInv, Intact, ModesIntact, MissingEmpty, OwnCells
  <2>4. save.pc # "idle" => Running' /\ ModeCarried'
    BY SMTT(30), Z3T(30), <2>1 DEF SaveInv, Running, ModeCarried
  <2>5. save.pc # "idle" => Written'
    BY <2>1 DEF SaveInv, Written, Steady, Fetch
  <2>6. OnDisk'
    BY <2>1 DEF SaveInv, OnDisk, Steady, Text, Fetch
  <2>7. MapIntact'
    BY <2>1 DEF SaveInv, MapIntact, Readable, Backed
  <2> QED  BY <2>1, <2>2, <2>3, <2>4, <2>5, <2>6, <2>7 DEF SaveInv
<1>2. CASE SaveStep
  BY <1>2, RenameStep, OpenStep, WriteStep, WriteErrorStep, FinishStep
     DEF SaveStep
<1>3. CASE Crash \/ BusError
  BY <1>3, DieStep DEF Crash, BusError
<1> QED  BY <1>1, <1>2, <1>3, EditStep, SaveBufferStep, WriteFileStep,
            WriteRegionStep, SetVisitedStep, RestartStep DEF Next

-----------------------------------------------------------------------------
LEMMA SaveInductive == Spec => []SaveInv
<1> QED  BY SaveInit, SaveNext, PTL DEF Spec

(* The last complete version of a file is on the disk at every moment,     *)
(* under its name or as its backup, wherever eb_save_buffer is cut off by  *)
(* a crash, a failed rename, open or write; except where Recoverable says. *)
THEOREM LastVersionKept == Spec => []Recoverable
<1>1. SaveInv => Recoverable
  BY DEF SaveInv, Intact, Recoverable
<1> QED  BY <1>1, SaveInductive, PTL

(* A buffer the user sees as unmodified is what its file holds: the flag   *)
(* is cleared by finish only, once raw_buffer_save wrote all of the text.  *)
THEOREM UnmodifiedMeansSaved == Spec => []UnmodifiedOnDisk
<1>1. SaveInv => UnmodifiedOnDisk
  BY DEF SaveInv, OnDisk, Steady, UnmodifiedOnDisk
<1> QED  BY <1>1, SaveInductive, PTL

(* The state is well typed, and the text of a mapped file is readable as   *)
(* long as each file that raw_buffer_save replaced was first renamed.      *)
THEOREM MapStaysReadable == Spec => []MappedReadable
<1>1. SaveInv => MappedReadable
  BY DEF SaveInv, MapIntact, MappedReadable
<1> QED  BY <1>1, SaveInductive, PTL

(* eb_save_buffer gives a file back the permission bits it had, unless its *)
(* chmod fails or an earlier save of the file was cut off.                 *)
THEOREM PermissionsKept == Spec => ModeKept
<1>1. SaveInv /\ [Next]_vars =>
         [\A n \in Files \ aux.retried :
             /\ last[n].there /\ last'[n].there /\ save.pc = "write" /\ save.name = n
             /\ ~aux'.unset
             => Permissions(last'[n].mode) = Permissions(last[n].mode)]_vars
  <2> SUFFICES ASSUME SaveInv, Next, NEW n \in Files \ aux.retried,
                      last[n].there, save.pc = "write", save.name = n, ~aux'.unset
               PROVE  Permissions(last'[n].mode) = Permissions(last[n].mode)
    OBVIOUS
  <2>1. CASE finish
    <3>1. /\ ModeCarried /\ last \in [Files -> Entry] /\ file \in [Files -> Entry]
          /\ file[n] \in Entry /\ last[n].mode \in Nat /\ aux \in Aux
      BY DEF SaveInv, TypeOK, Entry
    <3>2. PICK saved :
            /\ file' = saved
            /\ last' = [last EXCEPT ![n] = Regular(saved[n].data, saved[n].mode)]
            /\ aux'.unset = (save.whole /\ saved[n].mode # save.st_mode)
            /\ ~save.whole => saved[n].mode = file[n].mode
      <4>1. PICK chmod \in BOOLEAN :
            LET s == [file EXCEPT ![n].mode = IF save.whole /\ chmod THEN save.st_mode
                                              ELSE @]
            IN  /\ file' = s
                /\ last' = [last EXCEPT ![n] = Regular(s[n].data, s[n].mode)]
                /\ aux' = [aux EXCEPT
                     !.unfinished = @ \ {n},
                     !.inplace = @ \ {n}, !.clobbered = @ \ {n},
                     !.regions = IF save.whole THEN @ \ {n} ELSE @,
                     !.retitled = @ /\ ~save.whole,
                     !.unset = save.whole /\ s[n].mode # save.st_mode]
        BY Zenon, <2>1 DEF finish
      <4> DEFINE s == [file EXCEPT ![n].mode = IF save.whole /\ chmod THEN save.st_mode
                                               ELSE @]
      <4>2. ~save.whole => s[n].mode = file[n].mode
        BY <3>1 DEF Entry
      <4> HIDE DEF s
      <4>3. aux'.unset = (save.whole /\ s[n].mode # save.st_mode)
        BY Zenon, <3>1, <4>1 DEF Aux, s
      <4> WITNESS s
      <4> QED  BY Zenon, <4>1, <4>2, <4>3 DEF s
    <3>3. Permissions(saved[n].mode) = Permissions(last[n].mode)
      BY <3>1, <3>2, ModeFacts DEF ModeCarried
    <3>4. last'[n].mode = saved[n].mode
      BY <3>1, <3>2 DEF Regular
    <3> QED  BY <3>3, <3>4
  <2>2. CASE ~finish
    <3>1. last' = last
      BY <2>2 DEF Next, SaveStep, Edit, do_save_buffer, do_write_file,
          do_write_region, do_set_visited_file_name, Editing, rename, open,
          write, write_error, Crash, BusError, Die, Restart
    <3> QED  BY Zenon, <3>1
  <2> QED  BY <2>1, <2>2
<1> QED  BY <1>1, SaveInductive, PTL DEF Spec, ModeKept
=============================================================================
