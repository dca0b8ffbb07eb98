-------------------------------- MODULE Keys --------------------------------
(***************************************************************************)
(* Key dispatch and keyboard macros (qe.c): qe_key_process with its key    *)
(* context, prefix arguments, the key grab and the key a grabber gives     *)
(* back, and the recording and replaying of the last keyboard macro.       *)
(*                                                                         *)
(* Replaying is recursive: do_call_last_kbd_macro calls qe_key_process for *)
(* every recorded key.  `left' is its repeat count: how many runs are to   *)
(* follow the one under way, which macro_key_index # -1 tells.  A macro    *)
(* that runs itself never returns: pc is "nested" from then on and the     *)
(* session is not followed.                                                *)
(*                                                                         *)
(* Commands are known by their name, their argument and by whether they    *)
(* continue the last command, as successive kills do.  The last macro is   *)
(* recorded and replayed with executing_macro = 0.                         *)
(***************************************************************************)
EXTENDS Integers, Sequences, SequencesExt

CONSTANTS
    Keys,           \* the keys the user types
    MaxTyped        \* bound: keys typed in a session

(* Codes of the keys that have a role of their own. *)
CtrlK == 11
CtrlS == 19
CtrlU == 21
CtrlX == 24
ParenL == 40
ParenR == 41
Minus == 45
Digit2 == 50
LetterE == 101

ASSUME KeysAssumption == Keys \subseteq Nat /\ MaxTyped \in Nat

VARIABLES
    c,              \* key_ctx without the grab
    grab,           \* an incremental search has grabbed the keys
    qs,             \* qe_state: the macro and last_cmd_func
    left,           \* runs of the macro still to come
    pc, key,        \* qe_key_process: where it is, the key it is called for
    typed,          \* bound: number of keys typed
    seen            \* auxiliary: what was recorded, what is replayed

vars == <<c, grab, qs, left, pc, key, typed, seen>>

(* util.h: KEY_IS_CONTROL; the keys modelled are not KEY_IS_SPECIAL. *)
Control(k) == k < 32 \/ k = 127

(* qe_key_init *)
qe_key_init == [has_arg |-> FALSE, numeric |-> FALSE, negative |-> FALSE,
                argval |-> 1, keys |-> <<>>]

(* The bindings of qeconfig.h and search.c that are modelled. *)
Binding ==
    <<CtrlX, ParenL>> :> "start-kbd-macro" @@ <<CtrlX, ParenR>> :> "end-kbd-macro"
    @@ <<CtrlX, LetterE>> :> "call-last-kbd-macro" @@ <<CtrlK>> :> "kill-line"
    @@ <<CtrlS>> :> "isearch-forward"

(* macro_add_key: macro_keys is an array of unsigned short. *)
macro_add_key(q, k) == [q EXCEPT !.macro_keys = Append(@, k % 2^16)]

(* Mutant: the keys a search receives are not recorded. *)
EnteredUngrabbed(q, k) ==
    IF q.defining_macro /\ ~grab THEN macro_add_key(q, k) ELSE q

(* qe_key_process up to `again'. *)
Entered(q, k) == IF q.defining_macro THEN macro_add_key(q, k) ELSE q

Running == qs.macro_key_index # -1

-----------------------------------------------------------------------------
(* Auxiliary: a command is noted in `recorded' while a macro is defined    *)
(* and in `replayed' while one is run.                                     *)
Note(cmd, arg) ==
    LET e == [cmd |-> cmd, key |-> key, arg |-> arg, again |-> qs.last_cmd_func = cmd]
    IN  [seen EXCEPT !.recorded = IF qs.defining_macro THEN Append(@, e) ELSE @,
                     !.replayed = IF Running THEN Append(@, e) ELSE @]

(* exec_command: the argument, and how often a command that does not take  *)
(* it is run.                                                              *)
Argval == IF c.negative THEN -c.argval ELSE IF c.has_arg THEN c.argval ELSE 1
RepCount == IF c.has_arg /\ Argval >= 0 THEN Argval ELSE 1

(* The end of a command: the context is reset, qe_key_process returns. *)
Done(cmd) ==
    /\ c' = qe_key_init
    /\ pc' = "return"
    /\ qs' = [qs EXCEPT !.last_cmd_func = cmd]

(* isearch_key for a key that extends or repeats the search. *)
isearch_key ==
    /\ grab /\ (~Control(key) \/ key = CtrlS)
    /\ seen' = Note("isearch", 1)
    /\ pc' = "return"
    /\ qs' = IF key = CtrlS THEN [qs EXCEPT !.last_cmd_func = "isearch"] ELSE qs
    /\ UNCHANGED <<c, key, left>>

(* Any other key ends the search and is given back: unget_key. *)
Ungrabbed == ~grab \/ (Control(key) /\ key # CtrlS)
KeysNow == Append(c.keys, key)

(* A prefix of a binding: wait for the next key. *)
prefix_key ==
    /\ Ungrabbed /\ KeysNow = <<CtrlX>>
    /\ c' = [c EXCEPT !.keys = KeysNow]
    /\ pc' = "return"
    /\ UNCHANGED <<qs, key, left, seen>>

(* do_prefix_argument, and whether it takes the key. *)
TakesArgument ==
    \/ KeysNow = <<CtrlU>>
    \/ c.has_arg /\ KeysNow = <<Digit2>>
    \/ c.has_arg /\ KeysNow = <<Minus>> /\ ~c.numeric

do_prefix_argument ==
    /\ Ungrabbed /\ TakesArgument
    /\ c' = CASE key = CtrlU -> [c EXCEPT !.has_arg = TRUE,
                                    !.argval = IF c.numeric THEN @ ELSE @ * 4]
              [] key = Digit2 -> [c EXCEPT !.numeric = TRUE,
                                    !.argval = IF c.numeric THEN @ * 10 + 2 ELSE 2]
              [] key = Minus -> [c EXCEPT !.negative = ~@]
    /\ pc' = "return"
    /\ UNCHANGED <<qs, key, left, seen>>

(* do_char, the default binding. *)
do_char ==
    /\ Ungrabbed /\ Len(KeysNow) = 1 /\ ~Control(key) /\ ~TakesArgument
    /\ seen' = Note("char", Argval)
    /\ Done("char")
    /\ UNCHANGED <<key, left>>

(* "No command on" *)
no_command ==
    /\ Ungrabbed /\ Len(KeysNow) = 2 /\ KeysNow \notin DOMAIN Binding
    /\ c' = qe_key_init
    /\ pc' = "return"
    /\ UNCHANGED <<qs, key, left, seen>>

Runs(cmd) == Ungrabbed /\ KeysNow \in DOMAIN Binding /\ Binding[KeysNow] = cmd

-----------------------------------------------------------------------------
do_kill_line ==
    /\ Runs("kill-line")
    /\ seen' = Note("kill-line", Argval)
    /\ Done("kill-line")
    /\ UNCHANGED <<key, left>>

(* do_isearch: the following keys go to isearch_key. *)
do_isearch ==
    /\ Runs("isearch-forward")
    /\ seen' = Note("isearch-forward", Argval)
    /\ Done("isearch-forward")
    /\ UNCHANGED <<key, left>>

(* do_start_kbd_macro n times: each call starts a definition or, as an     *)
(* error, ends the one that is going on.                                   *)
Started(q, n) ==
    [q EXCEPT !.defining_macro = (n % 2 = 1) # @,
              !.macro_keys = IF n > 1 \/ (n = 1 /\ ~q.defining_macro) THEN <<>> ELSE @,
              !.last_cmd_func = "start-kbd-macro"]

do_start_kbd_macro ==
    LET q == Started(qs, RepCount)
        fresh == q.defining_macro /\ RepCount > 0
        aborted == ~q.defining_macro /\ RepCount > 0
    IN  /\ Runs("start-kbd-macro")
        /\ qs' = q
        /\ seen' = [Note("start-kbd-macro", RepCount) EXCEPT
                       !.recorded = IF fresh THEN <<>> ELSE @,
                       !.irregular = IF fresh /\ ~Running THEN FALSE ELSE @ \/ aborted,
                       !.ungrabbed = IF fresh THEN FALSE ELSE @]
        /\ c' = qe_key_init
        /\ pc' = "return"
        /\ UNCHANGED <<key, left>>

do_end_kbd_macro ==
    /\ Runs("end-kbd-macro")
    /\ seen' = Note("end-kbd-macro", RepCount)
    /\ qs' = [qs EXCEPT !.defining_macro = IF RepCount > 0 /\ ~Running THEN FALSE ELSE @,
                        !.last_cmd_func = "end-kbd-macro"]
    /\ c' = qe_key_init
    /\ pc' = "return"
    /\ UNCHANGED <<key, left>>

(* do_call_last_kbd_macro n times, up to the call of qe_key_process for    *)
(* the first key.  While a macro is defined the first call ends that.      *)
RunMacro(q, n) ==
    LET refused == n > 0 /\ q.defining_macro
        m == IF refused THEN n - 1 ELSE n
        p == IF refused THEN [q EXCEPT !.defining_macro = FALSE] ELSE q
    IN  IF m > 0 /\ p.macro_keys # <<>>
        THEN /\ qs' = [p EXCEPT !.macro_key_index = 0]
             /\ key' = p.macro_keys[1]
             /\ left' = m - 1
             /\ pc' = "key"
        ELSE /\ qs' = [p EXCEPT !.macro_key_index = -1]
             /\ left' = 0
             /\ pc' = "return"
             /\ UNCHANGED key

(* last_cmd_func is set when the command returns, so the first replayed    *)
(* command still finds the command in front of the call.                   *)
do_call_last_kbd_macro ==
    /\ Runs("call-last-kbd-macro") /\ ~Running
    /\ RunMacro(IF qs.macro_keys = <<>> \/ RepCount = 0 \/ qs.defining_macro
                THEN [qs EXCEPT !.last_cmd_func = "call-last-kbd-macro"] ELSE qs,
                RepCount)
    /\ seen' = [Note("call-last-kbd-macro", RepCount) EXCEPT
                   !.replayed = <<>>,
                   !.irregular = @ \/ (qs.defining_macro /\ RepCount > 0)]
    /\ c' = qe_key_init

call_nested ==
    /\ Runs("call-last-kbd-macro") /\ Running
    /\ pc' = "nested"
    /\ UNCHANGED <<c, qs, key, left, seen>>

-----------------------------------------------------------------------------
(* One call of qe_key_process from `again' on. *)
qe_key_process ==
    /\ pc = "key"
    /\ \/ isearch_key /\ UNCHANGED grab
       \/ do_isearch /\ grab' = TRUE
       \/ /\ \/ prefix_key \/ do_prefix_argument \/ do_char \/ no_command \/ do_kill_line
             \/ do_start_kbd_macro \/ do_end_kbd_macro
             \/ do_call_last_kbd_macro \/ call_nested
          /\ grab' = FALSE
    /\ UNCHANGED typed

LastKey == qs.macro_key_index + 1 >= Len(qs.macro_keys)

(* qe_key_process returns to the loop of do_call_last_kbd_macro. *)
next_macro_key ==
    /\ pc = "return" /\ Running /\ ~LastKey
    /\ key' = qs.macro_keys[qs.macro_key_index + 2]
    /\ qs' = Entered([qs EXCEPT !.macro_key_index = @ + 1], key')
    /\ pc' = "key"
    /\ UNCHANGED <<c, grab, left, typed, seen>>

(* Mutant: the runs that are left are not counted down. *)
macro_done_uncounted ==
    /\ pc = "return" /\ Running /\ LastKey
    /\ RunMacro(qs, left + 1)
    /\ seen' = [seen EXCEPT !.replayed = <<>>]
    /\ c' = qe_key_init
    /\ UNCHANGED <<grab, typed>>

(* The loop ends; the command is repeated or returns. *)
macro_done ==
    /\ pc = "return" /\ Running /\ LastKey
    /\ RunMacro(qs, left)
    /\ seen' = [seen EXCEPT !.replayed = <<>>]
    /\ c' = IF left = 0 THEN qe_key_init ELSE c
    /\ UNCHANGED <<grab, typed>>

wait_key ==
    /\ pc = "return" /\ ~Running
    /\ pc' = "idle" /\ key' = 0
    /\ UNCHANGED <<c, grab, qs, left, typed, seen>>

(* The event loop has a key.  Bound: arguments stay below 10. *)
type_key(k) ==
    /\ pc = "idle" /\ typed < MaxTyped
    /\ c.has_arg => k # CtrlU /\ (k = Digit2 => ~c.numeric)
    /\ key' = k
    /\ qs' = Entered(qs, k)
    /\ pc' = "key"
    /\ typed' = typed + 1
    /\ UNCHANGED <<c, grab, left, seen>>

(* shell_pid_cb: a process exits, whoever holds the grab loses it. *)
shell_pid_cb ==
    /\ pc = "idle" /\ grab
    /\ grab' = FALSE
    /\ seen' = [seen EXCEPT !.ungrabbed = TRUE]
    /\ UNCHANGED <<c, qs, key, left, pc, typed>>

(* The session is followed from the first C-x ( on. *)
Init ==
    /\ c = qe_key_init
    /\ grab = FALSE
    /\ qs = [defining_macro |-> TRUE, macro_keys |-> <<>>, macro_key_index |-> -1,
             last_cmd_func |-> "start-kbd-macro"]
    /\ left = 0 /\ pc = "idle" /\ key = 0 /\ typed = 0
    /\ seen = [recorded |-> <<>>, replayed |-> <<>>, irregular |-> FALSE, ungrabbed |-> FALSE]

Next ==
    \/ qe_key_process \/ next_macro_key \/ macro_done \/ wait_key
    \/ \E k \in Keys : type_key(k)
    \/ shell_pid_cb

(* One thread: a key that is being processed is processed to its end. *)
Fairness == WF_vars(qe_key_process) /\ WF_vars(next_macro_key)
            /\ WF_vars(macro_done) /\ WF_vars(wait_key)
Spec == Init /\ [][Next]_vars /\ Fairness

-----------------------------------------------------------------------------
(* The types; a key sequence under way is a proper prefix of a binding,    *)
(* and no macro is left running between two keys.                          *)
Entry == [cmd : {"kill-line", "isearch-forward", "start-kbd-macro", "end-kbd-macro",
                 "call-last-kbd-macro", "char", "isearch"},
          key : Nat, arg : Int, again : BOOLEAN]
TypeOK ==
    /\ c \in [has_arg : BOOLEAN, numeric : BOOLEAN, negative : BOOLEAN, argval : Nat,
              keys : {<<>>, <<CtrlX>>}]
    /\ grab \in BOOLEAN /\ key \in Nat /\ typed \in 0 .. MaxTyped /\ left \in Nat
    /\ pc \in {"idle", "key", "return", "nested"}
    /\ qs.defining_macro \in BOOLEAN /\ qs.macro_keys \in Seq(0 .. 2^16 - 1)
    /\ qs.macro_key_index \in {-1} \cup Nat
    /\ pc = "idle" => ~Running
    /\ seen.recorded \in Seq(Entry) /\ seen.replayed \in Seq(Entry)

(* The same command, and for all but the first of a macro with the same    *)
(* view of the command in front of it.                                     *)
SameEntry(i) ==
    LET r == seen.recorded[i]
        p == seen.replayed[i]
    IN  r.cmd = p.cmd /\ r.key = p.key /\ r.arg = p.arg /\ (i > 1 => r.again = p.again)

(* Running the last macro runs the recorded commands, all of them and in   *)
(* their order, with their arguments: prefix keys, arguments, searches and *)
(* keys given back are seen as when they were typed.  Meanwhile its keys   *)
(* stay as they are, no definition begins, and it does not run itself.     *)
(* Exempt are macros whose definition was broken off by C-x ( or C-x e,    *)
(* and for the commands recordings in which a process took the grab away.  *)
ReplayExact ==
    /\ TypeOK
    /\ ~seen.irregular =>
        /\ pc # "nested"
        /\ Running => ~qs.defining_macro /\ qs.macro_key_index < Len(qs.macro_keys)
    /\ Running /\ ~seen.irregular /\ ~seen.ungrabbed =>
        /\ Len(seen.replayed) <= Len(seen.recorded)
        /\ \A i \in 1 .. Len(seen.replayed) : SameEntry(i)
        /\ pc = "return" /\ LastKey => Len(seen.replayed) = Len(seen.recorded)

(* Every key is dealt with: a macro, repeated or not, comes to its end.    *)
KeyHandled == pc = "key" ~> pc = "idle" \/ seen.irregular
=============================================================================
