------------------------------- MODULE TextOps -------------------------------
(***************************************************************************)
(* What the primitives of buffer.c do to the contents of a buffer, seen as *)
(* one sequence of bytes.  Offsets count from 0, as in the code.           *)
(***************************************************************************)
EXTENDS Integers, Sequences

(* eb_write, eb_delete and eb_insert clip a request to the buffer. *)
Clip(n, limit) == IF n > limit THEN limit ELSE n

(* eb_insert: the bytes d, at offset o. *)
InsertBytes(t, o, d) == SubSeq(t, 1, o) \o d \o SubSeq(t, o + 1, Len(t))

(* eb_delete: n bytes from offset o. *)
DeleteBytes(t, o, n) == SubSeq(t, 1, o) \o SubSeq(t, o + n + 1, Len(t))

(* eb_read: n bytes from offset o. *)
Bytes(t, o, n) == SubSeq(t, o + 1, o + n)

(* eb_write within the buffer: the bytes d over those at offset o. *)
WriteBytes(t, o, d) == InsertBytes(DeleteBytes(t, o, Len(d)), o, d)
=============================================================================
