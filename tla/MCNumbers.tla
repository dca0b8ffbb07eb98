------------------------------ MODULE MCNumbers ------------------------------
(***************************************************************************)
(* What a character is and where it stands: texts kept in pages, with the  *)
(* numbers cached for them, and, as functions of the bytes alone, the      *)
(* steps from character to character in every short text.                  *)
(***************************************************************************)
EXTENDS MCPageTable

CONSTANTS LetterBytes, MaxLetters

(* Every text of up to MaxLetters bytes, one less with overlong sequences. *)
Texts(B, k) == UNION {[1 .. n -> B] : n \in 0 .. k}
Letters == Texts(LetterBytes, MaxLetters)
             \cup Texts(LetterBytes \cup {"L0", "TN", "TR"}, MaxLetters - 1)

(* eb_prevc goes back to where eb_nextc came from, over every character:   *)
(* truncated, stray and overlong sequences, and carriage returns and line  *)
(* feeds in any order, included, whatever the uninitialised part of buf    *)
(* holds.  Only overlong ends of line of a DOS text are left out.          *)
(* do_left undoes do_right.                                                *)
StepBack(t, cs, eol) ==
    NoOverlongEol(t, cs, eol) =>
        \A o \in Boundaries(t, cs, eol) \ {Len(t)}, j \in Junk, k \in Junk :
            eb_prev(t, eb_next(t, o, cs, eol, j), cs, eol, k) = o

(* On correctly encoded text, the number of characters that get_chars_func *)
(* counts up to a character is the number of eb_nextc steps that lead      *)
(* there: eb_goto_char and the cursor keys agree on what a character is.   *)
CountsAgree(t, cs, eol) ==
    Correct(t, cs, eol) =>
        \A o \in Boundaries(t, cs, eol) :
            get_chars_func(SubSeq(t, 1, o), cs, eol)
              = Cardinality({p \in Boundaries(t, cs, eol) : p < o})

StepsAgree ==
    \A t \in Letters, cs \in Charsets, eol \in EolTypes :
        StepBack(t, cs, eol) /\ CountsAgree(t, cs, eol)

(* eb_nextc, eb_prevc and get_chars_func agree on what a character is, in  *)
(* every text that an empty buffer may be filled with: a step back returns *)
(* to where a step forward came from, unless a DOS text has overlong ends  *)
(* of line, and on correctly encoded text the count that eb_goto_char uses *)
(* is the number of steps.                                                 *)
CharacterSteps == total_size = 0 => StepsAgree
=============================================================================
