------------------------------ MODULE SaveFile ------------------------------
(***************************************************************************)
(* Saving one buffer: eb_save_buffer and raw_buffer_save of buffer.c, one  *)
(* step for each system call that changes the disk, so that the editor may *)
(* be killed between any two of them and started again.                    *)
(*                                                                         *)
(* A text is a sequence of blocks.  A block of the buffer is its own, or,  *)
(* in a page of a mapped file, an offset into b.map, the mapped file.  The *)
(* file that is mapped has mapped = TRUE: it shares its blocks with b.map  *)
(* under whatever name it is renamed to.                                   *)
(***************************************************************************)
EXTENDS TextOps

CONSTANTS
    Files,        \* file names; name~ is the backup name of each
    Block,        \* contents of a block
    Modes,        \* modes a file may have when the editor is started
    IOBUF_SIZE,   \* blocks given to one write()
    MaxSize,      \* bound on the blocks of the text
    MaxCommands   \* bound on file commands and restarts

ASSUME SaveFileAssumption ==
    /\ Files # {}
    /\ Block \subseteq Nat /\ Block # {}
    /\ Modes \subseteq Nat /\ Modes # {}
    /\ IOBUF_SIZE \in Nat \ {0}
    /\ MaxSize \in Nat /\ MaxCommands \in Nat

VARIABLES
    file,       \* name -> the file of this name
    backup,     \* name -> the file called name~
    b,          \* the buffer
    save,       \* the locals of a running eb_save_buffer or eb_write_buffer
    alive,      \* the editor is running
    backup_inhibited,
    last,       \* auxiliary: name -> its last complete version
    aux         \* auxiliary: what has happened to which file

vars == <<file, backup, b, save, alive, backup_inhibited, last, aux>>

-----------------------------------------------------------------------------
(* A directory entry: there is a file, its blocks, its mode (st_mode        *)
(* without the file type), and whether it is the one the buffer maps.       *)
Entry == [there : BOOLEAN, data : Seq(Block), mode : Nat, mapped : BOOLEAN]

(* The mode of a new file, and the permission bits of a mode: mode & 0777. *)
Mode0644 == 6 * 64 + 4 * 8 + 4
Permissions(mode) == mode % 512

NoFile == [there |-> FALSE, data |-> <<>>, mode |-> Mode0644, mapped |-> FALSE]
Regular(d, m) == [there |-> TRUE, data |-> d, mode |-> m, mapped |-> FALSE]

(* A cell of the buffer: its own block v, or the v-th block of the map.    *)
Cell == [own : BOOLEAN, v : Nat]
Own(v) == [own |-> TRUE, v |-> v]

Idle == [pc |-> "idle", name |-> CHOOSE n \in Files : TRUE,
         st_mode |-> Mode0644, start |-> 0, end |-> 0, whole |-> FALSE]

(* unfinished: names a save has begun to replace and not completed;        *)
(* retried: names written again after that; clobbered: names whose partial *)
(* file was then made the backup; inplace: names being overwritten with no *)
(* backup; regions: names last opened by write-region; bare: some file was *)
(* overwritten with no backup since the buffer was loaded; retitled: the   *)
(* buffer was given another file name since it was saved; unset: the       *)
(* chmod of the save just completed failed and left another mode.          *)
Aux == [unfinished : SUBSET Files, retried : SUBSET Files,
        clobbered : SUBSET Files, inplace : SUBSET Files,
        regions : SUBSET Files,
        bare : BOOLEAN, retitled : BOOLEAN, unset : BOOLEAN, commands : Nat]

Buffer == [text : Seq(Cell), map : Seq(Block), filename : Files,
           modified : BOOLEAN]

TypeOK ==
    /\ file \in [Files -> Entry]
    /\ backup \in [Files -> Entry]
    /\ b \in Buffer
    /\ save \in [pc : {"idle", "rename", "open", "write"}, name : Files,
                 st_mode : Nat, start : Nat, end : Nat, whole : BOOLEAN]
    /\ save.start <= save.end
    /\ alive \in BOOLEAN
    /\ backup_inhibited \in BOOLEAN
    /\ last \in [Files -> Entry]
    /\ aux \in Aux

-----------------------------------------------------------------------------
(* Reading a mapped cell that the file no longer backs is a bus error.     *)
Backed(c) == c.own \/ c.v \in DOMAIN b.map
Fetch(c) == IF c.own THEN c.v ELSE b.map[c.v]
Text == [i \in DOMAIN b.text |-> Fetch(b.text[i])]
Readable == \A i \in DOMAIN b.text : Backed(b.text[i])

(* raw_buffer_load: a file is mapped or read; a missing one leaves the     *)
(* buffer empty.                                                           *)
raw_buffer_load(n, e, mmap) ==
    [text |-> [i \in DOMAIN e.data |-> IF mmap THEN [own |-> FALSE, v |-> i]
                                               ELSE Own(e.data[i])],
     map |-> IF mmap THEN e.data ELSE <<>>,
     filename |-> n, modified |-> FALSE]

(* The entries once the buffer maps the file called n, or nothing.         *)
Remap(dir, n, mmap) ==
    [m \in Files |-> [dir[m] EXCEPT !.mapped = mmap /\ m = n]]

Init ==
    /\ \E mmap \in BOOLEAN, d \in [Files -> {0, 2}], mode \in Modes :
          LET n == CHOOSE m \in Files : TRUE
              on_disk == [m \in Files |->
                  IF d[m] = 0 THEN NoFile
                  ELSE Regular([i \in 1..d[m] |-> CHOOSE v \in Block : TRUE], mode)]
          IN /\ mmap => on_disk[n].there
             /\ last = on_disk
             /\ file = Remap(on_disk, n, mmap)
             /\ b = raw_buffer_load(n, on_disk[n], mmap)
    /\ backup = [n \in Files |-> NoFile]
    /\ save = Idle
    /\ alive = TRUE
    /\ backup_inhibited \in BOOLEAN
    /\ aux = [unfinished |-> {}, retried |-> {}, clobbered |-> {},
              inplace |-> {}, regions |-> {}, bare |-> FALSE, retitled |-> FALSE,
              unset |-> FALSE, commands |-> 0]

Editing == alive /\ save.pc = "idle"

-----------------------------------------------------------------------------
(* eb_insert and eb_delete: a changed page of a mapped file is copied.     *)
Edit ==
    /\ Editing
    /\ \/ \E offset \in 0..Len(b.text), v \in Block :
             /\ Len(b.text) < MaxSize
             /\ b' = [b EXCEPT !.text = InsertBytes(@, offset, <<Own(v)>>),
                               !.modified = TRUE]
       \/ \E offset \in 0..(Len(b.text) - 1) :
             b' = [b EXCEPT !.text = DeleteBytes(@, offset, 1), !.modified = TRUE]
    /\ UNCHANGED <<file, backup, save, alive, backup_inhibited, last, aux>>

(* Auxiliary: a command starts to write file n, with no backup if bare.    *)
Begin(n, bare) ==
    /\ aux.commands < MaxCommands
    /\ aux' = [aux EXCEPT !.retried = @ \cup (aux.unfinished \cap {n}),
                          !.inplace = IF bare THEN @ \cup {n} ELSE @,
                          !.bare = @ \/ bare, !.unset = FALSE,
                          !.commands = @ + 1]


(* Mutant: the permissions of the old file are not asked for.              *)
StModeNew(n) == Mode0644

(* eb_save_buffer as far as stat: the permissions of the old file are kept *)
(* for later, its set-user-ID, set-group-ID and sticky bits are not.       *)
StMode(n) == IF file[n].there THEN Permissions(file[n].mode) ELSE Mode0644

eb_save_buffer(n) ==
    /\ save' = [pc |-> IF backup_inhibited THEN "open" ELSE "rename", name |-> n,
                st_mode |-> StMode(n), start |-> 0, end |-> Len(b.text),
                whole |-> TRUE]
    /\ Begin(n, backup_inhibited)

do_save_buffer ==
    /\ Editing
    /\ b.modified
    /\ eb_save_buffer(b.filename)
    /\ UNCHANGED <<file, backup, b, alive, backup_inhibited, last>>

(* do_write_file: the buffer gets the name, then it is saved, changed or   *)
(* not.                                                                    *)
do_write_file ==
    /\ Editing
    /\ \E n \in Files :
          /\ b' = [b EXCEPT !.filename = n, !.modified = TRUE]
          /\ eb_save_buffer(n)
    /\ UNCHANGED <<file, backup, alive, backup_inhibited, last>>

(* do_write_region: the region between mark and point, in order, goes      *)
(* straight to eb_write_buffer, without backup, permissions or flag.       *)
Region(mark, offset) == IF offset < mark THEN <<offset, mark>> ELSE <<mark, offset>>

do_write_region ==
    /\ Editing
    /\ \E n \in Files, mark, offset \in 0..Len(b.text) :
          /\ save' = [pc |-> "open", name |-> n, st_mode |-> Mode0644,
                      start |-> Region(mark, offset)[1],
                      end |-> Region(mark, offset)[2], whole |-> FALSE]
          /\ Begin(n, TRUE)
    /\ UNCHANGED <<file, backup, b, alive, backup_inhibited, last>>

(* do_set_visited_file_name: the file may be renamed along with the        *)
(* buffer; a failure is reported and the buffer renamed all the same.      *)
do_set_visited_file_name ==
    /\ Editing
    /\ aux.commands < MaxCommands
    /\ \E n \in Files \ {b.filename} :
          /\ b' = [b EXCEPT !.filename = n]
          /\ \/ UNCHANGED <<file, last>>
                /\ aux' = [aux EXCEPT !.retitled = TRUE, !.commands = @ + 1]
             \/ LET old == b.filename
                    Moved(dir) == [dir EXCEPT ![n] = dir[old], ![old] = NoFile]
                    Moves(set) == (set \ {old, n}) \cup
                                  (IF old \in set THEN {n} ELSE {})
                IN /\ file[old].there
                   /\ file' = Moved(file)
                   /\ last' = Moved(last)
                   /\ aux' = [aux EXCEPT
                        !.unfinished = Moves(@),
                        !.retried = Moves(@ \cup (aux.unfinished \cap {old})),
                        !.clobbered = Moves(@ \cup (aux.unfinished \cap {old})),
                        !.inplace = Moves(@), !.regions = Moves(@),
                        !.commands = @ + 1]
    /\ UNCHANGED <<backup, save, alive, backup_inhibited>>

-----------------------------------------------------------------------------
(* Mutants: the old file is removed; it is copied to the backup.           *)
rename_unlinks ==
    /\ alive /\ save.pc = "rename"
    /\ save' = [save EXCEPT !.pc = "open"]
    /\ file' = [file EXCEPT ![save.name] = NoFile]
    /\ UNCHANGED <<backup, b, alive, backup_inhibited, last, aux>>

rename_copies ==
    /\ alive /\ save.pc = "rename"
    /\ save' = [save EXCEPT !.pc = "open"]
    /\ backup' = [backup EXCEPT ![save.name] = [file[save.name] EXCEPT
                                                  !.mapped = FALSE]]
    /\ UNCHANGED <<file, b, alive, backup_inhibited, last, aux>>

(* The steps of eb_save_buffer.  rename: the old file becomes the backup,  *)
(* replacing the previous one; the error code is not looked at.            *)
rename ==
    /\ alive /\ save.pc = "rename"
    /\ save' = [save EXCEPT !.pc = "open"]
    /\ LET n == save.name
       IN \/ /\ file[n].there
             /\ backup' = [backup EXCEPT ![n] = file[n]]
             /\ file' = [file EXCEPT ![n] = NoFile]
             /\ aux' = [aux EXCEPT
                  !.clobbered = @ \cup (aux.unfinished \cap {n}),
                  !.unfinished = @ \cup {n}]
          \/ /\ aux' = IF file[n].there
                       THEN [aux EXCEPT !.inplace = @ \cup {n}, !.bare = TRUE]
                       ELSE aux
             /\ UNCHANGED <<file, backup>>
    /\ UNCHANGED <<b, alive, backup_inhibited, last>>

(* The contents of file n become d; a mapped file changes under the buffer. *)
SetData(n, d) ==
    /\ file' = [file EXCEPT ![n] = IF @.there THEN [@ EXCEPT !.data = d]
                                   ELSE Regular(d, Mode0644)]
    /\ b' = IF file[n].mapped THEN [b EXCEPT !.map = d] ELSE b

(* raw_buffer_save opens with O_TRUNC: a file still there is emptied.      *)
open ==
    /\ alive /\ save.pc = "open"
    /\ \/ /\ save' = [save EXCEPT !.pc = "write"]
          /\ SetData(save.name, <<>>)
          /\ aux' = [aux EXCEPT
               !.unfinished = @ \cup {save.name},
               !.regions = IF save.whole THEN @ ELSE @ \cup {save.name}]
       \/ /\ save' = Idle
          /\ UNCHANGED <<file, b, aux>>
    /\ UNCHANGED <<backup, alive, backup_inhibited, last>>

(* One turn of its loop: read up to IOBUF_SIZE blocks, write them, all or  *)
(* some; or fail and give up; or die on a page that is gone.               *)
WriteLen == IF save.end - save.start > IOBUF_SIZE THEN IOBUF_SIZE
                                                  ELSE save.end - save.start
Piece == Bytes(b.text, save.start, WriteLen)
PieceReadable == \A i \in DOMAIN Piece : Backed(Piece[i])

(* Mutants: a short write is taken for a full one; an error starts over.   *)
write_short ==
    /\ alive /\ save.pc = "write" /\ save.start < save.end
    /\ PieceReadable
    /\ \E len \in 1..WriteLen :
          SetData(save.name,
                  file[save.name].data \o [i \in 1..len |-> Fetch(Piece[i])])
    /\ save' = [save EXCEPT !.start = @ + WriteLen]
    /\ UNCHANGED <<backup, alive, backup_inhibited, last, aux>>

write_error_again ==
    /\ alive /\ save.pc = "write" /\ save.start < save.end
    /\ PieceReadable
    /\ save' = [save EXCEPT !.pc = "open"]
    /\ UNCHANGED <<file, backup, b, alive, backup_inhibited, last, aux>>

write ==
    /\ alive /\ save.pc = "write" /\ save.start < save.end
    /\ PieceReadable
    /\ \E len \in 1..WriteLen :
          /\ SetData(save.name,
                     file[save.name].data \o [i \in 1..len |-> Fetch(Piece[i])])
          /\ save' = [save EXCEPT !.start = @ + len]
    /\ UNCHANGED <<backup, alive, backup_inhibited, last, aux>>

write_error ==
    /\ alive /\ save.pc = "write" /\ save.start < save.end
    /\ PieceReadable
    /\ save' = Idle
    /\ UNCHANGED <<file, backup, b, alive, backup_inhibited, last, aux>>

(* After the loop: close, and for a whole buffer chmod, which may fail     *)
(* unnoticed, and the flag.                                                *)
finish ==
    /\ alive /\ save.pc = "write" /\ save.start = save.end
    /\ \E chmod \in BOOLEAN :
       LET n == save.name
           saved == [file EXCEPT ![n].mode = IF save.whole /\ chmod THEN save.st_mode
                                             ELSE @]
       IN /\ file' = saved
          /\ last' = [last EXCEPT ![n] = Regular(saved[n].data, saved[n].mode)]
          /\ b' = IF save.whole THEN [b EXCEPT !.modified = FALSE] ELSE b
          /\ aux' = [aux EXCEPT
               !.unfinished = @ \ {n},
               !.inplace = @ \ {n}, !.clobbered = @ \ {n},
               !.regions = IF save.whole THEN @ \ {n} ELSE @,
               !.retitled = @ /\ ~save.whole,
               !.unset = save.whole /\ saved[n].mode # save.st_mode]
    /\ save' = Idle
    /\ UNCHANGED <<backup, alive, backup_inhibited>>

(* eb_save_buffer and eb_write_buffer go on until they return.             *)
SaveStep == rename \/ open \/ write \/ write_error \/ finish

-----------------------------------------------------------------------------
(* The editor is killed, at any moment; or it dies reading its own text.   *)
Die ==
    /\ alive' = FALSE
    /\ b' = [text |-> <<>>, map |-> <<>>, filename |-> b.filename,
             modified |-> FALSE]
    /\ file' = Remap(file, b.filename, FALSE)
    /\ backup' = Remap(backup, b.filename, FALSE)
    /\ save' = Idle
    /\ aux' = [aux EXCEPT !.bare = FALSE, !.retitled = FALSE, !.unset = FALSE]
    /\ UNCHANGED <<backup_inhibited, last>>

Crash == alive /\ Die

BusError ==
    /\ alive /\ save.pc = "write" /\ save.start < save.end
    /\ ~PieceReadable
    /\ Die

(* It is started again on some file.                                       *)
Restart ==
    /\ ~alive
    /\ aux.commands < MaxCommands
    /\ alive' = TRUE
    /\ \E n \in Files, mmap \in BOOLEAN :
          /\ mmap => file[n].data # <<>>
          /\ b' = raw_buffer_load(n, file[n], mmap)
          /\ file' = Remap(file, n, mmap)
          /\ aux' = [aux EXCEPT !.regions = @ \ {n}, !.commands = @ + 1]
    /\ UNCHANGED <<backup, save, backup_inhibited, last>>

Next ==
    \/ Edit
    \/ do_save_buffer \/ do_write_file \/ do_write_region
    \/ do_set_visited_file_name
    \/ SaveStep
    \/ Crash \/ BusError \/ Restart

Spec == Init /\ [][Next]_vars /\ WF_vars(SaveStep \/ BusError)

-----------------------------------------------------------------------------
(* Once a file was complete, that version or a newer complete one is on    *)
(* the disk at every moment, under its name or as backup, wherever the     *)
(* editor is killed.  Exempt are files overwritten in place, because       *)
(* backups are inhibited, the rename failed or a region was written, and   *)
(* files saved again after an unfinished save: eb_save_buffer then renames *)
(* the partial file over the good backup.                                  *)
Recoverable ==
    \A n \in Files \ (aux.inplace \cup aux.clobbered) :
        last[n].there => \/ file[n].there /\ file[n].data = last[n].data
                         \/ backup[n].there /\ backup[n].data = last[n].data

(* While the user sees the buffer as unmodified, its file holds its text,  *)
(* after short writes, failures and retries: the flag is only cleared by a *)
(* save that wrote everything.  Exempt is a buffer whose name was changed  *)
(* without saving, a file overwritten by write-region, and a mapped file   *)
(* overwritten under the buffer.                                           *)
UnmodifiedOnDisk ==
    /\ alive /\ save.pc = "idle" /\ ~b.modified
    /\ ~aux.retitled /\ b.filename \notin aux.regions
    /\ ~aux.bare \/ \A i \in DOMAIN b.text : b.text[i].own
    => file[b.filename].data = Text

(* The text of a mapped file stays readable while every file that is       *)
(* replaced is first renamed to its backup: the map then follows the old   *)
(* file.                                                                   *)
MappedReadable == TypeOK /\ (alive /\ ~aux.bare => Readable)

(* Saving keeps the permission bits of the file, unless the chmod at its   *)
(* end fails, or the file is saved again after an unfinished save, which   *)
(* left the permissions of a new file behind.  Bits beyond the permissions *)
(* are dropped by eb_save_buffer.                                          *)
ModeKept ==
    [][\A n \in Files \ aux.retried :
          /\ last[n].there /\ last'[n].there /\ save.pc = "write" /\ save.name = n
          /\ ~aux'.unset
          => Permissions(last'[n].mode) = Permissions(last[n].mode)]_vars

(* A save that was started ends, with or without success, unless the       *)
(* editor dies: each write takes at least a block.                         *)
SaveEnds == (alive /\ save.pc # "idle") ~> (save.pc = "idle" \/ ~alive)
=============================================================================
