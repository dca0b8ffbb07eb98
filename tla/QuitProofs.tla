----------------------------- MODULE QuitProofs -----------------------------
(***************************************************************************)
(* Leaving the editor with any number of buffers: the properties of Quit   *)
(* proved by one inductive invariant.                                      *)
(***************************************************************************)
EXTENDS Quit, TLAPS

(* While the user is asked, the scan is still in the state "ASK", and an   *)
(* answer that refused a buffer is remembered in is->modified: without it  *)
(* nothing would stop the editor from leaving at the end of the list.      *)
Asking ==
    grab = "quit" => /\ is.state = "ASK"
                     /\ refused # {} => is.modified

IInv == TypeOK /\ QuitScan /\ ExitAccounted /\ Asking

-----------------------------------------------------------------------------
(* What is left to ask about lies at or behind b. *)
LEMMA CandidatesFacts ==
    ASSUME NEW m, NEW b
    PROVE  /\ Candidates(m, b) \subseteq visiting \cap m
           /\ \A c \in visiting \cap m : c >= b => c \in Candidates(m, b)
           /\ \A c \in Candidates(m, b) : c >= b
  BY DEF Candidates

(* The invariant holds of a new session. *)
LEMMA InitIInv == Init => IInv
  <1> SUFFICES ASSUME Init PROVE IInv
    OBVIOUS
  <1>1. is \in QuitState
    BY QuitAssumption DEF Init, QuitState, NULL
  <1>2. TypeOK
    BY ZenonT(40), <1>1 DEF Init, TypeOK
  <1>3. QuitScan /\ ExitAccounted /\ Asking
    BY DEF Init, QuitScan, ExitAccounted, Asking
  <1> QED BY <1>2, <1>3 DEF IInv

(* What the end of quit_examine_buffers leaves behind. *)
LEMMA FinishFacts ==
    ASSUME TypeOK, Running, NEW unsaved \in BOOLEAN, Finish(unsaved)
    PROVE  /\ grab' = "none"
           /\ active' \in {"window", "confirm", "other"} /\ confirm' \in BOOLEAN
           /\ active' = "confirm" => confirm'
           /\ exited' \in {"no", "quit"}
           /\ exited' = "quit" => ~unsaved
  <1>1. CASE unsaved /\ active = "window"
    BY <1>1 DEF TypeOK, Running, Finish
  <1>2. CASE unsaved /\ active # "window"
    BY <1>2 DEF TypeOK, Running, Finish
  <1>3. CASE ~unsaved
    BY <1>3 DEF TypeOK, Running, Finish
  <1> QED BY <1>1, <1>2, <1>3

(* What a caller of quit_examine_buffers sees to: what lies before buffer  *)
(* b is accounted for, and refusals are noted, or will be in "NOSAVE".     *)
Prepared(st, mod, b, m, f) ==
    /\ visiting' = visiting /\ shell' = shell
    /\ refused' \subseteq Buffer /\ late' \subseteq Buffer
    /\ \A c \in visiting \cap m : c < b => c \in refused' \cup f \cup late'
    /\ st # "NOSAVE" => (refused' # {} => mod)
    /\ st = "NOSAVE" => (refused' # {} => mod \/ Candidates(m, b) # {})

(* A call of quit_examine_buffers then re-establishes the invariant. *)
LEMMA Examine ==
    ASSUME TypeOK, Running,
           NEW st \in {"ASK", "NOSAVE", "SAVE"}, NEW mod \in BOOLEAN, NEW b \in 1 .. N + 1,
           NEW m \in SUBSET Buffer, NEW f \in SUBSET Buffer,
           quit_examine_buffers(st, mod, b, m, f), Prepared(st, mod, b, m, f)
    PROVE  IInv'
  <1> DEFINE rest == Candidates(m, b)
  <1> USE DEF Prepared
  <1>0. /\ N \in Nat /\ visiting \subseteq Buffer /\ exited = "no"
        /\ active \in {"window", "confirm", "other"} /\ confirm \in BOOLEAN
        /\ active = "confirm" => confirm
        /\ shell \in 0 .. N
        /\ rest \subseteq Buffer
    BY QuitAssumption DEF TypeOK, Running, Candidates
  <1>1. CASE /\ st = "ASK"
             /\ \E c \in rest : /\ \A d \in rest : c <= d
                                /\ is' = [state |-> st, modified |-> mod, b |-> c]
             /\ modified' = m /\ failed' = f /\ grab' = "quit"
             /\ UNCHANGED <<active, confirm, exited>>
    <2>1. PICK c \in rest : /\ \A d \in rest : c <= d
                            /\ is' = [state |-> st, modified |-> mod, b |-> c]
      BY <1>1
    <2>2. c \in Buffer /\ c \in visiting /\ c \in m /\ c >= b
      BY <1>0, CandidatesFacts
    <2>3. TypeOK'
      BY <1>0, <1>1, <2>1, <2>2 DEF TypeOK, QuitState, Buffer, NULL
    <2>4. \A d \in visiting \cap m : d < c => d \in refused' \cup f \cup late'
      <3> SUFFICES ASSUME NEW d \in visiting \cap m, d < c
                   PROVE  d \in refused' \cup f \cup late'
        OBVIOUS
      <3>1. d \in Nat /\ c \in Nat /\ b \in Nat
        BY <1>0, <2>2 DEF Buffer
      <3>2. ~(d >= b)
        BY <3>1, <2>1, CandidatesFacts
      <3> QED BY <3>1, <3>2
    <2>5. QuitScan'
      BY <1>1, <2>1, <2>2, <2>4 DEF QuitScan
    <2>6. ExitAccounted' /\ Asking'
      BY <1>0, <1>1, <2>1 DEF ExitAccounted, Asking
    <2> QED BY <2>3, <2>5, <2>6 DEF IInv
  <1>2. CASE /\ st = "ASK" /\ rest = {}
             /\ is' = [state |-> st, modified |-> mod, b |-> NULL]
             /\ modified' = m /\ failed' = f
             /\ Finish(mod)
    <2>1. TypeOK'
      <3>1. is' \in QuitState
        BY <1>0, <1>2 DEF QuitState, NULL
      <3>2. Finish(mod)
        BY <1>2
      <3>3. /\ grab' = "none"
            /\ active' \in {"window", "confirm", "other"} /\ confirm' \in BOOLEAN
            /\ active' = "confirm" => confirm'
            /\ exited' \in {"no", "quit"}
        BY <3>2, FinishFacts
      <3>4. modified' \subseteq Buffer /\ failed' \subseteq Buffer
        BY <1>0, <1>2
      <3> QED BY <1>0, <3>1, <3>3, <3>4 DEF TypeOK
    <2>2. QuitScan' /\ Asking'
      BY <1>2 DEF QuitScan, Asking, Finish
    <2>3. \A c \in visiting \cap m : c < b
      BY <1>0, <1>2, CandidatesFacts DEF Buffer
    <2>4. ExitAccounted'
      BY <1>0, <1>2, <2>3 DEF ExitAccounted, Finish
    <2> QED BY <2>1, <2>2, <2>4 DEF IInv
  <1>3. CASE /\ st = "NOSAVE"
             /\ is' = [state |-> st, modified |-> mod \/ rest # {}, b |-> NULL]
             /\ modified' = m /\ failed' = f
             /\ Finish(mod \/ rest # {})
    <2>1. TypeOK'
      <3>1. is' \in QuitState
        BY <1>0, <1>3 DEF QuitState, NULL
      <3>2. Finish(mod \/ rest # {})
        BY <1>3
      <3>3. /\ grab' = "none"
            /\ active' \in {"window", "confirm", "other"} /\ confirm' \in BOOLEAN
            /\ active' = "confirm" => confirm'
            /\ exited' \in {"no", "quit"}
        BY ZenonT(40), <3>2, FinishFacts
      <3>4. modified' \subseteq Buffer /\ failed' \subseteq Buffer
        BY <1>0, <1>3
      <3> QED BY <1>0, <3>1, <3>3, <3>4 DEF TypeOK
    <2>2. QuitScan' /\ Asking'
      BY <1>3 DEF QuitScan, Asking, Finish
    <2>3. rest = {} => \A c \in visiting \cap m : c < b
      BY <1>0, CandidatesFacts DEF Buffer
    <2>4. ExitAccounted'
      BY <1>0, <1>3, <2>3 DEF ExitAccounted, Finish
    <2> QED BY <2>1, <2>2, <2>4 DEF IInv
  <1>4. CASE /\ st = "SAVE"
             /\ is' = [state |-> st, modified |-> mod, b |-> NULL]
             /\ \E fails \in SUBSET rest :
                   modified' = m \ (rest \ fails) /\ failed' = f \cup fails
             /\ Finish(mod)
    <2>1. PICK fails \in SUBSET rest : modified' = m \ (rest \ fails) /\ failed' = f \cup fails
      BY <1>4
    <2>2. TypeOK'
      <3>1. is' \in QuitState
        BY <1>0, <1>4 DEF QuitState, NULL
      <3>2. Finish(mod)
        BY <1>4
      <3>3. /\ grab' = "none"
            /\ active' \in {"window", "confirm", "other"} /\ confirm' \in BOOLEAN
            /\ active' = "confirm" => confirm'
            /\ exited' \in {"no", "quit"}
        BY <3>2, FinishFacts
      <3>4. modified' \subseteq Buffer /\ failed' \subseteq Buffer
        BY <1>0, <1>4, <2>1
      <3> QED BY <1>0, <3>1, <3>3, <3>4 DEF TypeOK
    <2>3. QuitScan' /\ Asking'
      BY <1>4 DEF QuitScan, Asking, Finish
    <2>4. \A c \in visiting \cap m : c < b \/ c \in rest
      BY <1>0, CandidatesFacts DEF Buffer
    <2>5. ExitAccounted'
      BY <1>0, <1>4, <2>1, <2>4 DEF ExitAccounted, Finish
    <2> QED BY <2>2, <2>3, <2>5 DEF IInv
  <1> QED BY <1>1, <1>2, <1>3, <1>4 DEF quit_examine_buffers

(* Steps that leave the scan alone: they may only change buffers that are  *)
(* noted in late, and only take the grab away.                             *)
LEMMA Aside ==
    ASSUME IInv, TypeOK', exited' \in {"no", "confirmed", "forced"},
           UNCHANGED <<visiting, is, refused, failed>>,
           late \subseteq late',
           \/ modified' = modified
           \/ grab' # "quit"
           \/ \E b \in late' : modified' \in {modified \cup {b}, modified \ {b}},
           grab' = "quit" => grab = "quit"
    PROVE  IInv'
  <1>1. QuitScan'
    <2>1. CASE grab' # "quit"
      BY <2>1 DEF QuitScan
    <2>2. CASE grab' = "quit"
      BY <2>2 DEF IInv, QuitScan
    <2> QED BY <2>1, <2>2
  <1>2. ExitAccounted' /\ Asking'
    BY DEF IInv, ExitAccounted, Asking
  <1> QED BY <1>1, <1>2 DEF IInv

(* An answer to a question re-establishes the invariant. *)
LEMMA AnswerIInv ==
    ASSUME IInv, Running, grab = "quit",
           NEW key \in Keys \ {"C-g", "other"}, NEW ok \in BOOLEAN, Answer(key, ok)
    PROVE  IInv'
  <1> DEFINE mod == is.modified \/ key \in {"n", "q"}
             saves == key \in {"y", "!", "."}
             m == IF saves /\ ok THEN modified \ {is.b} ELSE modified
             f == IF saves /\ ~ok THEN failed \cup {is.b} ELSE failed
  <1>1. /\ TypeOK /\ N \in Nat
        /\ is.b \in Buffer /\ is.b \in visiting /\ is.b \in modified \cup late
        /\ is.state = "ASK" /\ is.modified \in BOOLEAN
        /\ refused # {} => is.modified
        /\ \A c \in visiting \cap modified : c < is.b => c \in refused \cup failed \cup late
    <2>1. is \in QuitState /\ is.b # NULL
      BY DEF IInv, TypeOK
    <2>2. is.b \in Buffer /\ is.modified \in BOOLEAN
      BY <2>1, QuitAssumption DEF QuitState, Buffer, NULL
    <2> QED BY <2>2, QuitAssumption DEF IInv, QuitScan, Asking
  <1>2. /\ refused' = refused \cup Declined(key)
        /\ quit_examine_buffers(StateAfter(key), mod, is.b + 1, m, f)
        /\ visiting' = visiting /\ shell' = shell /\ late' = late
    BY DEF Answer, AnswerWith
  <1>3. m \subseteq Buffer /\ f \subseteq Buffer /\ late' \subseteq Buffer /\ refused' \subseteq Buffer
    <2>1. Declined(key) \subseteq Buffer
      BY <1>1 DEF Declined, Candidates, TypeOK
    <2> QED BY <1>1, <1>2, <2>1 DEF TypeOK
  <1>4. mod \in BOOLEAN /\ is.b + 1 \in 1 .. N + 1
    BY <1>1 DEF Buffer
  <1>5. /\ StateAfter(key) \in {"ASK", "NOSAVE", "SAVE"}
        /\ StateAfter(key) = "NOSAVE" <=> key \in {"q", "."}
    BY <1>1 DEF StateAfter, Keys
  <1>6. \A c \in visiting \cap m : c < is.b + 1 => c \in refused' \cup f \cup late'
    <2> SUFFICES ASSUME NEW c \in visiting \cap m, c < is.b + 1
                 PROVE  c \in refused' \cup f \cup late'
      OBVIOUS
    <2>1. c \in modified /\ c \in Nat /\ is.b \in Nat
      BY <1>1, <1>3 DEF Buffer
    <2>2. CASE c < is.b
      BY <1>1, <1>2, <2>1, <2>2
    <2>3. CASE c = is.b
      <3>1. CASE saves
        BY <2>3, <3>1
      <3>2. CASE key = "n"
        BY <1>2, <2>3, <3>2 DEF Declined
      <3>3. CASE key = "q"
        BY <1>2, <2>1, <2>3, <3>3 DEF Declined, Candidates
      <3> QED BY <3>1, <3>2, <3>3 DEF Keys
    <2> QED BY <2>1, <2>2, <2>3
  <1>7. StateAfter(key) # "NOSAVE" => (refused' # {} => mod)
    BY <1>1, <1>2, <1>5 DEF Declined, Keys
  <1>8. StateAfter(key) = "NOSAVE" => (refused' # {} => mod \/ Candidates(m, is.b + 1) # {})
    <2>1. CASE key = "q"
      BY <2>1
    <2>2. CASE key = "."
      <3>1. \A c \in Candidates(modified, is.b + 1) : c \in Candidates(m, is.b + 1)
        BY <1>1 DEF Candidates, Buffer
      <3>2. Declined(key) = Candidates(modified, is.b + 1)
        BY <2>2 DEF Declined
      <3> QED BY <1>1, <1>2, <3>1, <3>2
    <2> QED BY <1>5, <2>1, <2>2
  <1>9. Prepared(StateAfter(key), mod, is.b + 1, m, f)
    BY <1>2, <1>3, <1>6, <1>7, <1>8 DEF Prepared
  <1>10. m \in SUBSET Buffer /\ f \in SUBSET Buffer
    BY <1>3
  <1> HIDE DEF mod, m, f
  <1> QED BY <1>1, <1>2, <1>4, <1>5, <1>9, <1>10, Examine

-----------------------------------------------------------------------------
(* Every callback of the event loop preserves the invariant. *)
LEMMA NextIInv == IInv /\ [Next]_vars => IInv'
  <1> SUFFICES ASSUME IInv, [Next]_vars PROVE IInv'
    OBVIOUS
  <1>0. TypeOK /\ N \in Nat
    BY QuitAssumption DEF IInv
  <1>1. CASE do_exit_qemacs
    <2>1. Running /\ quit_examine_buffers("ASK", FALSE, 1, modified, {})
      BY ZenonT(40), <1>1 DEF do_exit_qemacs
    <2>2. 1 \in 1 .. N + 1 /\ modified \in SUBSET Buffer /\ {} \in SUBSET Buffer
      BY <1>0 DEF TypeOK
    <2>3. Prepared("ASK", FALSE, 1, modified, {})
      BY <1>0, <1>1 DEF do_exit_qemacs, Prepared, TypeOK, Buffer
    <2> QED BY ZenonT(40), <1>0, <2>1, <2>2, <2>3, Examine
  <1>2. CASE exit_forced
    <2>1. TypeOK'
      BY <1>0, <1>2 DEF exit_forced, TypeOK
    <2> QED BY <1>2, <2>1, Aside DEF exit_forced
  <1>3. ASSUME NEW key \in Keys, NEW ok \in BOOLEAN, quit_key(key, ok)
        PROVE  IInv'
    <2>1. CASE key \in Keys \ {"C-g", "other"}
      BY <1>3, <2>1, AnswerIInv DEF quit_key
    <2>2. CASE key = "C-g"
      <3>1. TypeOK'
        BY <1>0, <1>3, <2>2 DEF quit_key, TypeOK
      <3>2. exited' = "no"
        BY <1>3, <2>2 DEF quit_key, Running
      <3> QED BY <1>3, <2>2, <3>1, <3>2, Aside DEF quit_key
    <2>3. CASE key = "other"
      BY <1>3, <2>3 DEF quit_key, vars, IInv, TypeOK, QuitScan, ExitAccounted, Asking
    <2> QED BY <1>3, <2>1, <2>2, <2>3
  <1>4. ASSUME NEW yes \in BOOLEAN, quit_confirm_cb(yes)
        PROVE  IInv'
    <2>1. TypeOK'
      BY <1>0, <1>4 DEF quit_confirm_cb, TypeOK
    <2>2. exited' \in {"no", "confirmed"}
      BY <1>4 DEF quit_confirm_cb
    <2> QED BY <1>4, <2>1, <2>2, Aside DEF quit_confirm_cb
  <1>5. ASSUME NEW b \in Buffer, Command(b)
        PROVE  IInv'
    <2>1. TypeOK'
      BY <1>0, <1>5 DEF Command, TypeOK
    <2>2. exited' = "no" /\ grab' # "quit"
      BY <1>5 DEF Command, Running
    <2> QED BY <1>5, <2>1, <2>2, Aside DEF Command
  <1>6. ASSUME NEW b \in Buffer, qe_mouse_event(b)
        PROVE  IInv'
    <2>1. TypeOK'
      BY <1>0, <1>6 DEF qe_mouse_event, TypeOK
    <2>2. exited' = "no"
      BY <1>6 DEF qe_mouse_event, Running
    <2> QED BY <1>6, <2>1, <2>2, Aside DEF qe_mouse_event
  <1>7. ASSUME NEW g \in {grab, "shell", "none"}, shell_read_cb(g)
        PROVE  IInv'
    <2>1. shell \in Buffer
      BY <1>0, <1>7 DEF shell_read_cb, TypeOK, Buffer
    <2>2. TypeOK'
      BY <1>0, <1>7, <2>1 DEF shell_read_cb, Output, TypeOK
    <2>3. exited' = "no"
      BY <1>7 DEF shell_read_cb, Running
    <2> QED BY <1>7, <2>2, <2>3, Aside DEF shell_read_cb, Output
  <1>8. CASE shell_key
    <2>1. TypeOK'
      BY <1>0, <1>8 DEF shell_key, TypeOK
    <2>2. exited' = "no"
      BY <1>8 DEF shell_key, Running
    <2> QED BY <1>8, <2>1, <2>2, Aside DEF shell_key
  <1>9. CASE shell_pid_cb
    <2>1. shell \in Buffer
      BY <1>0, <1>9 DEF shell_pid_cb, TypeOK, Buffer
    <2>2. TypeOK'
      BY <1>0, <1>9, <2>1 DEF shell_pid_cb, Output, TypeOK
    <2>3. exited' = "no"
      BY <1>9 DEF shell_pid_cb, Running
    <2>4. grab' # "quit" /\ late \subseteq late'
      BY <1>9 DEF shell_pid_cb, Output
    <2>5. UNCHANGED <<visiting, is, refused, failed>>
      BY <1>9 DEF shell_pid_cb
    <2> QED BY <2>2, <2>3, <2>4, <2>5, Aside
  <1>10. CASE UNCHANGED vars
    BY <1>10 DEF vars, IInv, TypeOK, QuitScan, ExitAccounted, Asking
  <1> QED BY <1>1, <1>2, <1>3, <1>4, <1>5, <1>6, <1>7, <1>8, <1>9, <1>10 DEF Next

LEMMA Invariance == Spec => []IInv
  BY InitIInv, NextIInv, PTL DEF Spec

(* With any number of buffers, quit_examine_buffers passes over no buffer: *)
(* each modified one before the one asked about was refused, failed to     *)
(* save, or was changed behind the questions.                              *)
THEOREM NoBufferPassedOver == Spec => []QuitScan
  <1>1. IInv => QuitScan
    BY DEF IInv
  <1> QED BY <1>1, Invariance, PTL

(* With any number of buffers, url_exit is reached from                    *)
(* quit_examine_buffers without a confirmation only when every file is     *)
(* saved, up to saves that failed and changes behind the questions.        *)
THEOREM NothingLostUnasked == Spec => []ExitAccounted
  <1>1. IInv => ExitAccounted
    BY DEF IInv
  <1> QED BY <1>1, Invariance, PTL

(* With any number of buffers, an answer in quit_key ends the questions or *)
(* moves on in the list.                                                   *)
THEOREM QuestionsEnd == Spec => QuitProgress
  <1> DEFINE Progress == \A key \in Keys \ {"other"}, ok \in BOOLEAN :
                             quit_key(key, ok) => grab' # "quit" \/ is'.b > is.b
  <1>1. IInv => Progress
    <2> SUFFICES ASSUME IInv, NEW key \in Keys \ {"other"}, NEW ok \in BOOLEAN, quit_key(key, ok),
                        grab' = "quit"
                 PROVE  is'.b > is.b
      OBVIOUS
    <2>1. key \in Keys \ {"C-g", "other"} /\ Answer(key, ok) /\ grab = "quit"
      BY DEF quit_key
    <2>2. PICK st, mod, m, f : quit_examine_buffers(st, mod, is.b + 1, m, f)
      BY ZenonT(40), <2>1 DEF Answer, AnswerWith
    <2>3. PICK c \in Candidates(m, is.b + 1) : is' = [state |-> st, modified |-> mod, b |-> c]
      BY <2>2 DEF quit_examine_buffers, Finish
    <2>4. is.b \in Nat /\ c \in Nat
      BY <2>3, QuitAssumption DEF IInv, TypeOK, QuitState, Candidates, Buffer
    <2> QED BY <2>3, <2>4, CandidatesFacts
  <1> QED BY <1>1, Invariance, PTL DEF QuitProgress
=============================================================================
