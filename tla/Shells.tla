------------------------------- MODULE Shells -------------------------------
(***************************************************************************)
(* Processes run in buffers: the event loop of unix.c (url_block) calling  *)
(* the handlers that modes/shell.c registers, one callback at a time,      *)
(* while the processes write, exit, and the user starts and kills them.    *)
(*                                                                         *)
(* A buffer and its ShellState live at an address that is used again.      *)
(* Handlers keep the address only.                                         *)
(***************************************************************************)
EXTENDS Integers, Sequences, FiniteSetsExt

CONSTANTS
    Addr,       \* addresses of buffers with a process
    MaxPid,     \* process numbers, used again
    MaxFd,      \* file descriptors for terminals
    MaxUnread   \* bound on the output a terminal holds

ASSUME ShellsAssumption ==
    /\ 0 \notin Addr
    /\ MaxPid \in Nat /\ MaxFd \in Nat \ {0} /\ MaxUnread \in Nat \ {0}

VARIABLES
    q,          \* the editor's records and the processes, see TypeOK
    loop,       \* where url_block stands
    broken      \* auxiliary: a handler used a freed ShellState

vars == <<q, loop, broken>>

Pid == 1..MaxPid
Fd == 1..MaxFd
NoPty == [pid |-> 0, unread |-> 0]
NoBuf == [kind |-> "none", state |-> FALSE, pid |-> 0, fd |-> 0,
          empty |-> TRUE, windows |-> 0]

(* buf: address -> buffer with its ShellState, pid and fd 0 for -1;        *)
(* proc: the processes; pty: terminals with the process that writes to     *)
(* each and what was not read yet; leaked: terminals open for no process,  *)
(* see run_process_fails; read_cb, pid_handlers: the handlers; crossed is  *)
(* auxiliary: a process was started over a running one.                    *)
Buffer == [kind : {"none", "shell", "filter", "command"}, state : BOOLEAN,
           pid : 0..MaxPid, fd : 0..MaxFd, empty : BOOLEAN, windows : 0..2]
State == [buf : [Addr -> Buffer],
          proc : [Pid -> {"none", "running", "zombie"}],
          pty : [Fd -> [pid : 0..MaxPid, unread : 0..MaxUnread]],
          leaked : SUBSET Fd,
          read_cb : [Fd -> Addr \cup {0}],
          pid_handlers : Seq([pid : Pid, opaque : Addr]),
          crossed : BOOLEAN]

TypeOK ==
    /\ q \in State
    /\ loop \in [pc : {"select", "fds", "wait"}, rfds : SUBSET (0..MaxFd)]
    /\ broken \in BOOLEAN

Init ==
    /\ q = [buf |-> [a \in Addr |-> NoBuf],
            proc |-> [p \in Pid |-> "none"],
            pty |-> [f \in Fd |-> NoPty], leaked |-> {},
            read_cb |-> [f \in Fd |-> 0],
            pid_handlers |-> <<>>, crossed |-> FALSE]
    /\ loop = [pc |-> "select", rfds |-> {}]
    /\ broken = FALSE

-----------------------------------------------------------------------------
(* set_pid_handler(pid, NULL): the first handler of the pid goes.          *)
HandlersOf(handlers, p) == {i \in DOMAIN handlers : handlers[i].pid = p}

DropPidHandler(handlers, p) ==
    LET i == Min(HandlersOf(handlers, p))
    IN IF HandlersOf(handlers, p) = {} THEN handlers
       ELSE SubSeq(handlers, 1, i - 1) \o SubSeq(handlers, i + 1, Len(handlers))

(* set_read_handler(fd, NULL) and close, unless fd is 0.                   *)
CloseFd(s, fd) ==
    [s EXCEPT !.read_cb = [f \in Fd |-> IF f = fd THEN 0 ELSE @[f]],
              !.pty = [f \in Fd |-> IF f = fd THEN NoPty ELSE @[f]]]

FreePids(s) == {p \in Pid : s.proc[p] = "none"}
FreeFds(s) == {f \in Fd : s.pty[f].pid = 0 /\ f \notin s.leaked}

(* run_process gets a terminal, then forks.  It fails without a terminal,  *)
(* or without a process; then the terminal it got stays open for ever.     *)
CanRun(s) == FreePids(s) # {} /\ FreeFds(s) # {}
run_process_fails(s) ==
    IF FreeFds(s) = {} THEN s
    ELSE [s EXCEPT !.leaked = @ \cup {Min(FreeFds(s))}]

(* new_shell_buffer on the buffer at a: run_process and the handlers.  The *)
(* ShellState the buffer has already is used again as it is.               *)
new_shell_buffer(s, a) ==
    LET p == Min(FreePids(s))
        f == Min(FreeFds(s))
        over == [s EXCEPT !.crossed = @ \/ s.buf[a].pid # 0,
                          !.buf[a] = [@ EXCEPT !.state = TRUE, !.pid = 0, !.fd = 0]]
    IN IF ~CanRun(s) THEN run_process_fails(over)
       ELSE [over EXCEPT !.buf[a] = [@ EXCEPT !.pid = p, !.fd = f],
                         !.proc[p] = "running",
                         !.pty[f] = [pid |-> p, unread |-> 0],
                         !.read_cb[f] = a,
                         !.pid_handlers = <<[pid |-> p, opaque |-> a]>> \o @]

(* Mutant: the process is killed, its handler stays.                       *)
shell_mode_free_forgets(s, a) ==
    LET pid == s.buf[a].pid
        freed == [CloseFd(s, s.buf[a].fd) EXCEPT
                     !.buf[a] = [@ EXCEPT !.state = FALSE, !.pid = 0, !.fd = 0]]
    IN {IF pid = 0 THEN freed ELSE [freed EXCEPT !.proc[pid] = "none"]}

(* shell_mode_free: the process is killed and waited for, unless it        *)
(* resists five signals; then the handlers go.  The set of the outcomes.   *)
shell_mode_free(s, a) ==
    LET pid == s.buf[a].pid
        freed == [CloseFd(s, s.buf[a].fd) EXCEPT
                     !.pid_handlers = DropPidHandler(@, pid),
                     !.buf[a] = [@ EXCEPT !.state = FALSE, !.pid = 0, !.fd = 0]]
    IN IF pid = 0 THEN {freed}
       ELSE {[freed EXCEPT !.proc[pid] = left] :
                left \in {"none", s.proc[pid]} \ {"zombie"}}

(* eb_free, through qe_kill_buffer.                                        *)
eb_free(s, a) ==
    {[t EXCEPT !.buf[a] = NoBuf] :
        t \in IF s.buf[a].state THEN shell_mode_free(s, a) ELSE {s}}

-----------------------------------------------------------------------------
(* edit_set_mode on the buffer of a compressed file: while nothing was     *)
(* read into it the file is loaded, by another process.                    *)
edit_set_mode(s, a) == IF s.buf[a].empty THEN new_shell_buffer(s, a) ELSE s

(* shell_pid_cb, unless the ShellState is no longer listed: drop the       *)
(* handlers, set the mode in each window of an expanded file, and free the *)
(* ShellState of a process that took no input.                             *)
shell_pid_cb(s, a) ==
    LET b == s.buf[a]
        dropped == [CloseFd(s, b.fd) EXCEPT
                       !.pid_handlers = DropPidHandler(@, b.pid),
                       !.buf[a] = [@ EXCEPT !.pid = 0, !.fd = 0]]
        shown == IF b.kind # "filter" \/ b.windows = 0 THEN {dropped}
                 ELSE IF b.windows = 1 THEN {edit_set_mode(dropped, a)}
                 ELSE {edit_set_mode(t, a) : t \in {edit_set_mode(dropped, a)}}
    IN IF ~b.state THEN {s}
       ELSE IF b.kind = "shell" THEN shown
       ELSE UNION {shell_mode_free(t, a) : t \in shown}

-----------------------------------------------------------------------------
(* Commands, run by the read handler of the keyboard.                      *)
FreeAddrs(s) == {a \in Addr : s.buf[a].kind = "none"}
Created(s, a, kind) ==
    [s EXCEPT !.buf[a] = [NoBuf EXCEPT !.kind = kind, !.windows = 1,
                                      !.empty = (kind = "filter")]]

(* A buffer that could not get its process is freed again.                 *)
StartIn(s, a, kind) ==
    IF CanRun(s) THEN new_shell_buffer(Created(s, a, kind), a)
    ELSE run_process_fails(s)

do_shell_new == {StartIn(q, a, "shell") : a \in FreeAddrs(q)}

(* do_shell with a shell buffer at hand: only a finished one is restarted. *)
do_shell ==
    {new_shell_buffer([q EXCEPT !.buf[a].kind = "shell"], a) :
        a \in {c \in Addr : /\ q.buf[c].kind \in {"shell", "command"}
                            /\ ~(q.buf[c].state /\ q.buf[c].pid # 0)}}

(* do_shell_command and do_compile kill the buffer of the previous one.    *)
do_shell_command ==
    LET old == {a \in Addr : q.buf[a].kind = "command"}
        left == IF old = {} THEN {q} ELSE UNION {eb_free(q, a) : a \in old}
    IN UNION {{StartIn(s, a, "command") : a \in FreeAddrs(s)} : s \in left}

(* compress_buffer_load runs the process in the buffer of the file.        *)
do_find_file == {new_shell_buffer(Created(q, a, "filter"), a) : a \in FreeAddrs(q)}

Filters == {a \in Addr : q.buf[a].kind = "filter"}
do_set_mode == {edit_set_mode(q, a) : a \in Filters}
do_split_window ==
    {[q EXCEPT !.buf[a].windows = n] : a \in Filters, n \in 0..2}

do_kill_buffer ==
    UNION {eb_free(q, a) : a \in {c \in Addr : q.buf[c].kind # "none"}}

(* Starting a process without a handler, as latex-mode.c does.             *)
latex_fork == {[q EXCEPT !.proc[p] = "running"] :
                  p \in IF FreePids(q) = {} THEN {} ELSE {Min(FreePids(q))}}

-----------------------------------------------------------------------------
(* A session is followed until a process is started over a running one:    *)
(* from then on two processes have the same ShellState.                    *)
Followed == ~broken /\ ~q.crossed

(* url_block.  select: the handlers that have something to read, or whose  *)
(* process is gone; 0 is the keyboard.                                     *)
Readable(f) == \/ q.pty[f].unread > 0
               \/ q.pty[f].pid # 0 /\ q.proc[q.pty[f].pid] # "running"

url_block_select ==
    /\ loop.pc = "select" /\ Followed
    /\ \E key \in {{}, {0}} :
          loop' = [pc |-> "fds",
                   rfds |-> key \cup {f \in Fd : q.read_cb[f] # 0 /\ Readable(f)}]
    /\ UNCHANGED <<q, broken>>

(* The handlers are called in the order of the descriptors.                *)
Calling(f) == loop.pc = "fds" /\ Followed /\ f \in loop.rfds /\ f = Min(loop.rfds)

(* Mutant: one handler for each select.                                    *)
CalledAlone(f) == loop' = [loop EXCEPT !.rfds = {}]

Called(f) == loop' = [loop EXCEPT !.rfds = @ \ {f}]

Key(results) == Calling(0) /\ q' \in results /\ Called(0) /\ UNCHANGED broken

key_do_shell_new == Key(do_shell_new)
key_do_shell == Key(do_shell)
key_do_shell_command == Key(do_shell_command)
key_do_find_file == Key(do_find_file)
key_do_set_mode == Key(do_set_mode)
key_do_split_window == Key(do_split_window)
key_do_kill_buffer == Key(do_kill_buffer)
key_latex_fork == Key(latex_fork)
key_other == Key({q})

(* A handler that was taken away since select is not called.               *)
url_block_skip ==
    \E f \in Fd : Calling(f) /\ q.read_cb[f] = 0 /\ Called(f) /\ UNCHANGED <<q, broken>>

(* shell_read_cb reads from the terminal of its ShellState, never waiting. *)
shell_read_cb ==
    \E f \in Fd :
       LET a == q.read_cb[f]
           own == q.buf[a].fd
           unread == IF own = 0 THEN 0 ELSE q.pty[own].unread
       IN /\ Calling(f) /\ a # 0
          /\ Called(f)
          /\ IF ~q.buf[a].state
             THEN broken' = TRUE /\ UNCHANGED q
             ELSE /\ q' \in IF unread = 0 THEN {q}
                            ELSE {[q EXCEPT !.pty[own].unread = left,
                                            !.buf[a].empty = FALSE] :
                                     left \in 0..(unread - 1)}
                  /\ UNCHANGED broken

url_block_fds_done ==
    /\ loop.pc = "fds" /\ loop.rfds = {} /\ Followed
    /\ loop' = [loop EXCEPT !.pc = "wait"]
    /\ UNCHANGED <<q, broken>>

(* Terminated children: waitpid, while there is any handler at all, and    *)
(* the first handler of the pid.                                           *)
Zombies == {p \in Pid : q.proc[p] = "zombie"}

url_block_wait ==
    /\ loop.pc = "wait" /\ Followed
    /\ q.pid_handlers # <<>>
    /\ \E p \in Zombies : \E reaped \in {[q EXCEPT !.proc[p] = "none"]} :
          LET is == HandlersOf(q.pid_handlers, p)
          IN q' \in IF is = {} THEN {reaped}
                    ELSE shell_pid_cb(reaped, q.pid_handlers[Min(is)].opaque)
    /\ UNCHANGED <<loop, broken>>

(* Mutant: the loop may leave before waitpid has nothing more to tell.     *)
url_block_end_early ==
    /\ loop.pc = "wait" /\ Followed
    /\ loop' = [loop EXCEPT !.pc = "select"]
    /\ UNCHANGED <<q, broken>>

url_block_end ==
    /\ loop.pc = "wait" /\ Followed
    /\ q.pid_handlers = <<>> \/ Zombies = {}
    /\ loop' = [loop EXCEPT !.pc = "select"]
    /\ UNCHANGED <<q, broken>>

url_block ==
    \/ url_block_select \/ url_block_skip \/ shell_read_cb
    \/ url_block_fds_done \/ url_block_wait \/ url_block_end
    \/ key_do_shell_new \/ key_do_shell \/ key_do_shell_command
    \/ key_do_find_file \/ key_do_set_mode \/ key_do_split_window
    \/ key_do_kill_buffer \/ key_latex_fork \/ key_other

-----------------------------------------------------------------------------
(* The processes write and exit when they like.                            *)
process_write ==
    /\ Followed
    /\ \E f \in Fd : /\ q.pty[f].pid # 0 /\ q.proc[q.pty[f].pid] = "running"
                     /\ q.pty[f].unread < MaxUnread
                     /\ q' = [q EXCEPT !.pty[f].unread = @ + 1]
    /\ UNCHANGED <<loop, broken>>

process_exit ==
    /\ Followed
    /\ \E p \in Pid : q.proc[p] = "running" /\ q' = [q EXCEPT !.proc[p] = "zombie"]
    /\ UNCHANGED <<loop, broken>>

Next == url_block \/ process_write \/ process_exit

(* The loop goes on, whatever the handler of a key does.                   *)
Fairness ==
    /\ WF_vars(url_block_select)
    /\ WF_vars(key_other)
    /\ WF_vars(url_block_skip)
    /\ WF_vars(shell_read_cb)
    /\ WF_vars(url_block_fds_done)
    /\ WF_vars(url_block_wait)
    /\ WF_vars(url_block_end)

Spec == Init /\ [][Next]_vars /\ Fairness

-----------------------------------------------------------------------------
(* A registered handler belongs to the process its ShellState is running:  *)
(* whatever callbacks kill, restart and free within one turn of the loop,  *)
(* no handler is left with the address of another or of a freed state, and *)
(* no terminal of a process is left without its handler; none has been     *)
(* called for a freed state.  The only terminals open without a handler    *)
(* are those run_process leaves behind when it cannot fork: no process     *)
(* writes to one and no buffer reads it.  Exempt are sessions in which the *)
(* file of a buffer was loaded again over a running process.               *)
HandlersOwned ==
    q.crossed \/
    /\ TypeOK /\ ~broken
    /\ \A f \in Fd : q.read_cb[f] # 0 =>
          q.buf[q.read_cb[f]].state /\ q.buf[q.read_cb[f]].fd = f
    /\ \A i \in DOMAIN q.pid_handlers :
          LET h == q.pid_handlers[i]
          IN q.buf[h.opaque].state /\ q.buf[h.opaque].pid = h.pid
    /\ \A f \in Fd : q.pty[f].pid # 0 => q.read_cb[f] # 0
    /\ \A f \in q.leaked : q.pty[f].pid = 0 /\ q.read_cb[f] = 0
    /\ \A a \in Addr : q.buf[a].pid # 0 => \E i \in DOMAIN q.pid_handlers :
          q.pid_handlers[i] = [pid |-> q.buf[a].pid, opaque |-> a]

(* A process that ends while a handler waits for it is noticed: url_block  *)
(* comes to waitpid at least every MAX_DELAY.                              *)
ExitNoticed ==
    \A p \in Pid :
        (q.proc[p] = "zombie" /\ HandlersOf(q.pid_handlers, p) # {})
        ~> (q.proc[p] # "zombie" \/ HandlersOf(q.pid_handlers, p) = {} \/ ~Followed)

(* Output that waits in the terminal of a buffer is read, or the terminal  *)
(* closed: no descriptor keeps the loop from the ones behind it.           *)
OutputRead ==
    \A f \in Fd : (q.pty[f].unread = MaxUnread)
                  ~> (q.pty[f].unread < MaxUnread \/ ~Followed)
=============================================================================
