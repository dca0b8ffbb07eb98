# A verification of qemacs in TLA+

qemacs is a single-threaded text editor in C. This directory holds TLA+ models
of its core, TLC configurations that check them on small instances, and TLAPS
proofs about the undo log, saving, windows and prompts, processes, the kill ring
and leaving the editor for every value of the constants.

## The system

One event loop (`unix.c`) waits for keys, mouse events, process output and
process exits, and calls one callback at a time. Nothing runs in parallel: what
interleaves are whole callbacks, between which state is kept in global
structures and in pending callbacks. Other processes, other programs that own
the selection, and the end of the editor itself come in at any time.

| Part | State | Operations | What makes it hard |
|---|---|---|---|
| Buffer contents (`buffer.c`) | page table, page cache, counts cached per page | insert, delete, write, read, map a file | bytes shifted between pages, stale caches, read-only mapped pages |
| Undo log (`buffer.c`) | log buffer, `log_current`, `nb_logs`, `last_log` | `eb_addlog`, `do_undo`, `do_redo` | undo logs itself, records are coalesced and evicted, saving and process output come in between |
| Files (`buffer.c`, `qe.c`) | file, backup, mapped pages, flags | save, write-file, write-region, rename | every system call can fail, the editor can be killed between any two |
| Windows and buffers (`qe.c`) | lists of windows and buffers, targets, `BF_TRANSIENT` | split, delete, select, popup, switch, kill, load | freeing what something else still points to |
| Prompts (`qe.c`) | minibuffers with `cb` and `opaque` | `exec_command`, `minibuffer_edit`, `do_minibuffer_exit` | a command resumes after any number of others |
| Quit and key grabs (`qe.c`, `modes/shell.c`) | `QuitState`, `key_ctx` | questions per buffer, confirmation | mouse, output and process exit between two questions |
| Processes (`unix.c`, `modes/shell.c`) | handlers, `ShellState`, terminals | start, read, exit, kill, restart | handlers keep addresses that are freed and used again |
| Kill ring (`qe.c`) | `yank_buffers`, `yank_current`, `last_cmd_func` | kill, copy, yank, yank-pop | the mouse and the X11 selection change the ring between commands |
| Keys and macros (`qe.c`) | `QEKeyContext`, macro buffer | dispatch, prefix argument, record, replay | keys are recorded before it is known what they do |
| Search (`search.c`) | `ISearchState`, `QueryReplaceState` | incremental search, query-replace, deleting lines | offsets kept between keys while output moves the text |
| Character sets (`charset.c`) | decoding tables | step, count, locate | truncated sequences, mixed line ends, page borders |

The remaining parts, with the reason why they are absent, are the components of
`PROJECT.json` with status `not_modelled`; the hazards there name the line where
each one bites.

## Modules

- `TextOps`: insertion, deletion and overwriting on byte sequences.
- `TextBuffer`: what the primitives of `buffer.c` promise, one byte sequence.
- `PageTable`: the pages behind it. `pages` is `page_table`, `cur_page` and
  `cur_offset` the cache of `find_page`, `ins` the locals of a running
  `eb_insert_lowlevel`, one step for each turn of its `retry` loop.
  It implements `TextBuffer` (`ImplementsTextBuffer`).
- `Charset`: the functions of `charset.c` for the one byte family and utf8, and
  `eb_nextc` / `eb_prevc`. A byte is known by its role only.
- `UndoLog`: one buffer with its log, the point and mark, and the file. One
  action per command. The record field `before` is auxiliary: the text in front
  of the change. After the log has become unreadable (`corrupt`) a session is
  not followed further.
- `SaveFile`: `eb_save_buffer` and `raw_buffer_save`, one step for each system
  call that changes the disk. `file` and `backup` are the disk, `b` the buffer
  with its own and its mapped blocks, `save` the locals of the running save.
  `Crash` is possible at every step; `last` and `aux` are auxiliary.
- `Windows`: buffers, windows and prompts as records at reusable addresses.
  `broken` marks an access to freed memory or through NULL; behaviour after it
  is not followed. List order is abstracted: any window or buffer that
  qualifies is taken.
- `Quit`: leaving the editor, with the auxiliary sets `refused`, `failed`, `late`.
- `Shells`: the turn of `url_block` (`select`, handlers in the order of the
  descriptors, `waitpid`) and the handlers of `modes/shell.c`, with numbers of
  processes, descriptors and addresses used again.
- `KillRing`: the ring as in `qe.c`, with the mouse and the X11 selection. It
  implements `KillHistory`, the list of texts in the order in which yank and
  yank-pop bring them up (`ImplementsKillHistory`).
- `Keys`: `qe_key_process`, one step per key, and the recording and replay of
  the last keyboard macro. `seen` is auxiliary: what was run when recorded and
  when replayed.
- `Search`: incremental search, query-replace key by key (`query_replace_run`
  is one turn of its loop), and the commands that delete lines. `aux` is
  auxiliary: what was shown before each step, and whether the text has moved.
- `MCUndoLog`, `MCUndoSessions`, `MCPageTable`, `MCNumbers`: instances for TLC.
  `MCUndoSessions` runs four kinds of session with `UndoLog`; `MCNumbers` adds
  to the numbers cached in pages what `Charset` does to all short texts, checked
  once, for the empty buffer.
- `TextOpsProofs`, `UndoLogProofs`, `SaveFileProofs`, `WindowsProofs` with
  `PromptProofs` on top of it, `QuitProofs`, `ShellsProofs`, `KillRingProofs`:
  the proofs about the module of that name, and about prompts of `Windows`.

Definitions named after mutants (`Mutant:` comments) are variants with a
plausible bug; with each of them the property it belongs to is violated.

## Runs

| Run | Checks | Bounds |
|---|---|---|
| `undo` | the log parses and replays; undo and redo walk exactly through the history, also while records are evicted; markers stay in the text; the modified flag is not lost | texts of 2 bytes; `NB_LOGS_MAX` 6 for plain and full sessions, 3 for saving and mixed ones |
| `pages` | page sizes, mapped pages, cache, exact edits, refinement of `TextBuffer`, insertion ends | pages of 2 bytes, texts of 5 |
| `numbers` | cached line, column and character numbers; stepping back and counting | pages of 3 bytes, texts of 4; all texts of 5 bytes of 6 kinds, and of 4 bytes with overlong sequences |
| `windows` | no dangling pointer, a window is left, prompts stay answerable, no unasked kill | 3 buffers, 3 windows |
| `quit` | no buffer is passed over; exits are accounted for; questions end | 3 buffers |
| `save_file` | a complete version survives a kill at any step; unmodified means on disk; mapped text stays readable; permission bits; saves end | 2 files, mode 04755 and 0644, texts of 2 blocks, 3 file commands |
| `shells` | handlers belong to the process they act for, none is called for freed state or a terminal left open; exits are noticed and output read | 2 buffers, 2 processes, 2 terminals |
| `kill_ring` | yank-pop deletes what was yanked; a kill is kept; refinement of `KillHistory` | ring of 3, texts of 2 bytes, 3 in all |
| `keys` | a macro replays what was recorded, undisturbed; every key is handled | 6 keys typed, of 8 |
| `search` | the question is about the first match; DEL and C-g take back; repeats advance; replacing all is exact and ends; the right lines are deleted | texts of 4 characters for the line commands, 3 for replacing, 2 for incremental search; patterns of 2, 2 search steps, 2 events |
| `redo_overwrite` | violated: redo of an overwritten character | |
| `alternate_file` | violated: a failed find-alternate-file makes the buffer disappear unasked later | |

Pages of two or three bytes make every insertion split, shift and fill pages;
a log with `NB_LOGS_MAX` 3 evicts within a few commands, one with 6 holds
three changes and their undos, or evicts while a chain of undos is under way;
four characters are two lines of two, so that a region can begin inside a line
and have matches in both; three windows hold a
window, a popup and a prompt at once, or two windows and a prompt; three file
commands are a failed save, its retry and one more; two processes are enough
for every number to be taken over by the other; a ring of three turns, fills
and overflows; six keys, the definition being open, record one
key, end the macro and run it four times (`C-u C-x e`); two search steps fill
the table of steps. Larger instances passed once, outside the
runs: the invariants of `SaveFile` with 4 commands (8.7 million states) and of
`Shells` with 3 processes (1.0 million), `KillRing` with texts of 4 in all (0.48
million), `Search` with incremental searches in texts of 3 characters (0.53
million), `Keys` with the minus sign added (3.4 million), and mixed undo sessions
with all the commands of the full ones and not-modified (3.6 million). With four buffers and four
windows TLC found no violation up to depth 14, without finishing.

`windows`, `alternate_file`, `quit`, `save_file`, `shells`, `keys` switch off the deadlock check:
a broken state, a left editor, an exhausted budget of commands or keys, and a
session that is not followed further have no successor.

### What the passing runs leave out

The command sets of the undo sessions are chosen; outside them the code does
not satisfy the properties. TLC finds counterexamples for:

- `UndoInSync` when process output may come between two undos;
- `LogCounted` as soon as redo is used (`do_redo` does not decrease `nb_logs`);
- `UndoInSync` and `LogParses` when redo is combined with eviction;
- `UndoChain`, `MarkersInText` and `FlagKept` when a buffer may be made
  read-only between undos;
- `FlagKept` when a save comes between undos (noted in `TODO.md:337`);
- `LogReplays` when overwritten characters are undone.

Likewise:

- `PosExact` is stated for one byte characters and line ends; `charset.c` itself
  notes that characters split between pages are miscounted. `LineFound` speaks
  of column 0: `eb_goto_pos` adds up the columns of earlier lines
  (`buffer.c:1696`).
- `PromptsFresh` assumes that prompts and popups are ended before another window
  becomes active, that no user buffer is transient, and that `parse_arguments`
  does not go on with a window its command has closed (`irregular`). Without
  this, a prompt can be answered after its window or buffer was freed; and a
  command that closes its own window (minibuffer-exit and -abort, popup-exit,
  delete-window) is followed by an access to it when a prefix argument repeats
  it or when it took 100 ms (`qe.c:5314`, `qe.c:5338`). Names typed at prompts
  are those of file and scratch buffers, never of a minibuffer or popup.
- `KillAskedInWindow` exempts transient buffers and files shown in popups.
- `QuitScan` and `ExitAccounted` exempt buffers whose save failed (the error is
  ignored by `quit_key`) and buffers that the mouse or a process changed during
  the questions. Such changes can be lost without a confirmation.
- `Recoverable` exempts files overwritten in place (backups inhibited, the rename
  failed, or a region written), and files saved again after an unfinished save:
  the retry renames the short file over the good backup. `ModeKept` exempts the
  latter too, and saves whose `chmod` failed, which nobody notices; it speaks of
  the nine permission bits, since `eb_save_buffer` masks the mode with 0777 and
  so drops the set-user-ID bit of the instance. `MappedReadable` stops where a file was overwritten without being
  renamed first (`bare`). `UnmodifiedOnDisk` exempts a changed file name,
  `write-region`, and a mapped file overwritten under the buffer.
- The properties of `Shells` exempt sessions in which a file is loaded again over
  its running process (`crossed`). `fork` fails when no process number is left,
  and `get_pty` when no descriptor is. After a failed `fork`, `run_process`
  returns with the terminal open and nobody closes it (`leaked`): such a
  descriptor has no handler and is never used again. Output beyond 3 MB, at
  which `shell_read_cb` chooses mode and coding again, is not reached, and a
  `write` that returns 0 does not occur in `SaveFile`.
- `YankedRegion` exempts the mouse between yank and yank-pop, `KillKeepsText` the
  middle button, and `ImplementsKillHistory` a yank-pop while another program
  owns the selection, which inserts that selection again (`qe.c:2237`). Commands
  repeated by a prefix argument are left out: all repetitions see the
  `last_cmd_func` of the command before, so `C-u C-w` adds three empty entries
  in front of the killed text. `do_kill_buffer` is about entries made by kills,
  which have `BF_SYSTEM`; an entry copied from another program's selection has
  not, and the ring keeps pointing to it when it is killed.
- `ReplayExact` and `KeyHandled` exempt definitions broken off by `C-x (` or
  `C-x e`, which leave these keys in the macro; `ReplayExact` also a process that
  ends a search being recorded. The keys of the instance are below 2^16, the
  width of a recorded key, and do not include the minus sign of an argument.
- `StepsTakenBack` exempts steps from a search that had failed or that pending
  input had aborted, and changes of the text or the flags since; `AskedFirst`
  exempts output in front of the end of the match asked about, and after `C-l` or `?` says only that the
  question is about a match. `LinesDeleted` says nothing of
  delete-non-matching-lines in a region, where the code also deletes what is
  behind the region (`search.c:1427`), or without any match. In a region that
  begins inside a line delete-matching-lines can stop early: deleting that line
  moves the next match in front of `min_offset` (`search.c:1372`), which stays
  what it was. Then the property says only that no other line is deleted.
- `ReplaceStringExact` is about the text from the point to the end of the
  buffer, as the table of commands has it (`search.c:1637`). The description of
  query-replace (`search.c:1283-1286`, `qe-manual.md:55-58`) says that a
  highlighted region restricts the replacement; the code does not look at the
  region, and says so itself (`search.c:1201`, `TODO.md:325`).
- The search string is below `SEARCH_LENGTH`, and a step of `ISearchState` is a
  record instead of a number with `FOUND_TAG` and its like packed into it.
- `CharacterSteps` leaves out DOS texts with overlong ends of line (`0xC0 0x8A`,
  `0xC0 0x8D`), which `eb_nextc` and `eb_prevc` take apart differently. What
  `buf` holds behind the bytes read is any of `Junk`.

## Fairness

The editor has one thread, and code that does not wait goes on. So `PageTable`
has weak fairness of `eb_insert_lowlevel`, `Search` of `query_replace_run`,
`SaveFile` of the steps of a save (or the bus error that ends it), `Keys` of the
handling of a key, and `Shells` of each step of `url_block`, of the handlers it
calls and of the return from a key's handler. Nothing is assumed of the user,
of other processes, or of crashes. The other modules state safety only.

## Proofs

Every theorem holds for all values of the constants that satisfy the named
assumption of the module: texts, logs, rings, lists of buffers and windows of
any size. The bounds of the modules (`MaxSize`, `MaxCommands`, ...) are arbitrary
numbers in the proofs.

### Undo log (`UndoLogProofs`)

- `TypeCorrect`: the buffer is well typed and `log_current` is at most the
  length of the log, for all commands. `TypeOK` alone is not inductive: undo
  reads the record at `log_current`, so `TypeInv` adds the bound.
- `UndoExact`, `RedoExact`: in a `PlainSession` (no overwriting, output or
  read-only toggling, and the log does not fill) `LogReplays`, `UndoChain`,
  `UndoMirror`, `MarkersInText` and `LogParses` are invariant and redo restores
  the text that followed the change undone last. `HistoryInv` adds to these that
  every record describes a change of its `before` text (`Tells`), and that in a
  chain the log is `log_current` records followed by an odd number (`Paired`):
  without it the last record need not be the mirror of the one that redo steps
  over. The auxiliary field `before` lets all this be said without recursion
  over the log.
- `UndoWhileEvicting`: in a `FullSession` (the same without redo, but filling
  the log as often as it likes) `LogReplays`, `UndoInSync`, `LogCounted`,
  `MarkersInText` and `LogParses` are invariant, and `nb_logs` stays below
  `NB_LOGS_MAX`. `FullInv` needs the count (`Counted`): an `nb_logs` that is too
  large evicts from an empty log. The argument is that evicting inside
  `eb_addlog` equals evicting first and then editing a log with room
  (`EvictFirst`), so that the lemmas about plain sessions apply to the rest.
- `ChangesAreMarked`: without undo and redo, but with every other command of the
  model (failing saves, output, read-only mode and full logs included), no step
  loses track of unsaved changes (`LosesTrack`).
- `UnmodifiedMeansUndone`: with undo and redo, in plain and full sessions that do
  not save, the modified flag is clear only when the text is the one of the
  file. The invariant (`Tracked`) also says it of every record: one with
  `was_modified` clear stands for the text of the file.

The two last are the content of `FlagKept` in the sessions of the run `undo`
other than the mixed ones; `UndoExact` and `UndoWhileEvicting` that of `LogSound`
and `UndoInOrder` in the plain and the full ones.

### Saving (`SaveFileProofs`)

`LastVersionKept`, `UnmodifiedMeansSaved`, `MapStaysReadable`, `PermissionsKept`:
`Recoverable`, `UnmodifiedOnDisk`, `MappedReadable` and `ModeKept` for any files,
blocks, permissions and number of saves, with every system call failing and the
editor killed between any two. None is inductive. `SaveInv` says where the last
version is at each moment (`Intact`: under its name, or as the backup once the
save has begun), what the locals of the running save imply (`Running`: whatever
is opened has been renamed or is overwritten in place), that what has been
written is the beginning of the text (`Written`), and that the mode to be given
back has the old permission bits (`ModeCarried`, with `ModeFacts` on masking).

### Windows and prompts (`WindowsProofs`, `PromptProofs`)

- `NothingEverDangles`, `PromptsStayOpen`: `NothingDangles` and
  `PromptsAnswerable` for any number of buffers and windows. The invariant
  `WellFormed` ties the two together: only windows of prompts show minibuffers,
  each minibuffer has one window, and a callback that is not stale holds a
  window or buffer of the kind it was given. It is shown for each function of
  `qe.c` that takes windows and buffers away, adds some, or opens and ends a
  prompt, by what it does to the two lists (`Frees`, `ClosesAll`, `Grows`,
  `Opens`, `Kills`, ...), and then for each command.
- `KillIsAsked`: `KillAskedInWindow`. `Survive` follows a modified buffer through
  the functions a command is made of.
- `PromptsStayFresh`: `PromptsFresh`, with `FreshInv`: until a session becomes
  irregular nothing is stale or broken, popups have a target that is not a prompt, and no
  callback waits outside of prompts (`Calm`).

### Leaving the editor (`QuitProofs`)

`NoBufferPassedOver`, `NothingLostUnasked`, `QuestionsEnd`: `QuitScan`,
`ExitAccounted` and `QuitProgress` for any number of buffers. `ExitAccounted` is
not inductive: that the editor may leave at the end of the list follows from
`QuitScan` only because a refusal is remembered in `is->modified` (`Asking`).

### Processes (`ShellsProofs`)

`HandlersStayOwned`: `HandlersOwned` for any number of buffers, processes,
terminals and addresses. The converse directions are needed (`Owned`): a
terminal has a process exactly if it has its handler, a terminal left open has
neither, no number has two handlers, a
buffer without a process has no terminal; and the number of a process that a
buffer holds has not been waited for (`Live`), so that it is not given out again.

### Kill ring (`KillRingProofs`)

- `YankPopDeletesYanked`, `RingTyped`: `YankedRegion` and `TypeOK`. `TypeOK`
  bounds the fields of the window but does not say that it is a record of these
  fields, which the insertions and deletions rely on (`WindowRecord`). The core
  is that a yank leaves mark and point around what it inserted (`YankedFacts`),
  and that the place yank-pop goes to is one of the ring (`LastPlace`).
- `KilledTextKept`: the action property `KillKeepsText`, from the same invariant.
- `RingIsHistory`: the refinement `ImplementsKillHistory` for any
  `NB_YANK_BUFFERS`. Each action is one step of `KillHistory` or none (`Steps`)
  once the ring is read backwards from the current place (`Hist`).

`TextOpsProofs` has the types and lengths of the sequence operators, and that
deletion and insertion undo each other.

### Only model-checked

- Liveness (`InsertEnds`, `SaveEnds`, `ExitNoticed`, `OutputRead`, `KeyHandled`,
  `ReplaceEnds`): out of the prover's reach.
- `PageTable` and its refinement of `TextBuffer`, and the numbers cached in
  pages: contents and positions are folds over the pages, and what a fold
  computes for every input needs an induction over data.
- `ReplayExact`: that a replay sees what the recording saw is a statement about
  the state after each recorded key, again a fold over the keys.
- `Search`, `Charset` and `MCNumbers`: their properties are about matching,
  replacing and decoding functions that are recursive over the text.
- Mixed undo sessions, in which output and saves come between undos.

`PlainSession` and `FullSession` are not a convenience: the list above shows what
fails outside them.

## Findings

Two runs end in a violation, each quoted with its line in `PROJECT.json`:
`redo_overwrite` (`buffer.c:1290`) and `alternate_file` (`qe.c:7914`).

## Not modelled

- Display, screens and input devices: pixels and I/O.
- Syntax colouring and the other modes: scanners of one line, and viewers on
  top of the operations modelled here.
- Escape sequences of the terminal: a table of effects on the screen.
- Timers (set only by `modes/video.c`, which is built only with
  `CONFIG_FFMPEG`) and bottom halves, which no code registers.
- Completion, histories and the editing of answers in prompts.
- Regular expressions, case folding and hexadecimal strings in searches; the
  commands that list, copy or count matching lines.
- utf16, utf32 and multi-byte character sets; conversion of buffers.
- Named macros, and the state of buffers that are killed while the kill ring or
  a macro still points to them: they are freed, and what follows is undefined.
- The order in which a file system writes back: the code never flushes, so after
  a crash of the machine, not of the editor, nothing is guaranteed.
- Scripts, utilities and the vendored libraries: sequential functions on text
  and generated tables.
