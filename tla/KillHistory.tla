---------------------------- MODULE KillHistory ----------------------------
(***************************************************************************)
(* What the kill ring promises: the entries in the order in which yank     *)
(* and then yank-pop bring them up.  A kill puts its text in front, and    *)
(* costs at most the entry furthest back; yank-pop turns the ring by one   *)
(* entry.                                                                  *)
(***************************************************************************)
EXTENDS Integers, Sequences

CONSTANTS Size,    \* NB_YANK_BUFFERS
          Text,    \* the texts that can be killed
          None     \* a place without an entry

VARIABLE entries

Init == entries = [i \in 1..Size |-> None]

(* An entry put in front takes the place of the one furthest back, unless  *)
(* the place in front is free.                                             *)
Pushed(e, t) ==
    <<t>> \o (IF e[1] = None THEN Tail(e) ELSE SubSeq(e, 1, Size - 1))

Push(e) == entries'[1] \in Text /\ entries' = Pushed(e, entries'[1])

(* A kill after a kill extends the entry in front, at one of its ends.     *)
Extend(e) ==
    LET new == entries'[1]
        n == Len(e[1])
    IN /\ e[1] # None /\ new \in Text
       /\ Tail(entries') = Tail(e)
       /\ Len(new) >= n
       /\ e[1] \in {SubSeq(new, 1, n), SubSeq(new, Len(new) - n + 1, Len(new))}

(* Turning passes over free places only, and ends at an entry unless no    *)
(* entry is left in front of the first.                                    *)
Turned(e, n) == SubSeq(e, n + 1, Size) \o SubSeq(e, 1, n)
Turn(e) ==
    \E n \in 1..Size : /\ entries' = Turned(e, n)
                       /\ \A i \in 2..n : e[i] = None

(* Entries are buffers, and the user may kill one.                         *)
Remove(e) == \E i \in 1..Size : entries' = [e EXCEPT ![i] = None]

(* A text selected with the mouse is copied by the next command, before    *)
(* the command does its own work.                                          *)
Next == \E e \in {entries} \cup {Pushed(entries, t) : t \in Text} :
           \/ entries' = e
           \/ Push(e) \/ Extend(e) \/ Turn(e) \/ Remove(e)

Spec == Init /\ [][Next]_entries
=============================================================================
