----------------------------- MODULE MCPageTable -----------------------------
(* Instances of PageTable for TLC. *)
EXTENDS PageTable

NoFile == <<>>
File3 == <<"a", "nl", "a">>
=============================================================================
