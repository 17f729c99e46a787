----------------------------- MODULE MCConsole ------------------------------
(* A screen of 2 rows of 4 columns and a buffer of 3 characters and a NUL. *)
EXTENDS Console

MCLetters == {">", "o", "q"}
MCPrompt == <<">", Blank>>

(* every directive, one kprintf does not know, and the control characters *)
MCReplies ==
  { <<[verb |-> "u", arg |-> 7]>>,
    <<Text(<<"o", TAB, "o", CR>>), [verb |-> "d", arg |-> -32], Text(<<NL>>)>>,
    <<[verb |-> "x", arg |-> 31], [verb |-> "c", arg |-> "o"], [verb |-> "%", arg |-> 0],
      [verb |-> "q", arg |-> 0]>> }

(* backspace, tab, Enter, Ctrl, a letter, space, the modifiers, cursor up *)
MCKeys == {14, 15, 28, 29, 30, 57, LSHIFT, RSHIFT, CAPS_LOCK, 72}
(* the ends of the range, and where the number of digits or the sign changes *)
MCNumbers == {-32, -31, -10, -1, 0, 9, 10, 31}
=============================================================================
