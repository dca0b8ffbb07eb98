------------------------------ MODULE TextBuffer ------------------------------
(***************************************************************************)
(* What the primitives of buffer.c promise their callers: a buffer is one  *)
(* sequence of bytes, and the only changes are to insert, delete or        *)
(* overwrite bytes at an offset, or to load a file into an empty buffer.   *)
(* An insertion is asked for first and then done, piece by piece when it   *)
(* comes from another buffer; nothing else happens in between.             *)
(***************************************************************************)
EXTENDS TextOps

CONSTANTS
    Byte,       \* the bytes of a text
    File        \* contents of a file that can be loaded

VARIABLES
    text,
    pending     \* the insertion under way: bytes still to insert, and where

None == [at |-> 0, data |-> <<>>]
vars == <<text, pending>>

AskInsert ==
    /\ pending = None
    /\ pending'.data \in Seq(Byte) /\ pending'.at \in 0 .. Len(text)
    /\ UNCHANGED text

(* The next n bytes go in. *)
DoInsert ==
    \E n \in 1 .. Len(pending.data) :
        /\ text' = InsertBytes(text, pending.at, Bytes(pending.data, 0, n))
        /\ pending' = IF n = Len(pending.data) THEN None
                      ELSE [at |-> pending.at + n,
                            data |-> Bytes(pending.data, n, Len(pending.data) - n)]

Delete ==
    /\ pending = None
    /\ \E o, n \in 0 .. Len(text) : o + n <= Len(text) /\ text' = DeleteBytes(text, o, n)
    /\ UNCHANGED pending

(* Overwriting may run past the end: the rest is inserted there. *)
Write ==
    /\ pending = None
    /\ \E o \in 0 .. Len(text) :
        /\ Len(text') = Len(text) /\ text' \in Seq(Byte)
        /\ Bytes(text', 0, o) = Bytes(text, 0, o)
        /\ \/ UNCHANGED pending
           \/ pending'.at = Len(text) /\ pending'.data \in Seq(Byte)

Load == pending = None /\ text = <<>> /\ text' = File /\ UNCHANGED pending

Init == text = <<>> /\ pending = None
Next == AskInsert \/ DoInsert \/ Delete \/ Write \/ Load
Spec == Init /\ [][Next]_vars
=============================================================================
