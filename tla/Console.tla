------------------------------ MODULE Console -------------------------------
(***************************************************************************)
(* The console: the PS/2 keyboard handler (drivers/keyboard.c), the line   *)
(* editor and command loop of the shell (kernel/shell.c) and the terminal  *)
(* they echo on.  One action is one keyboard interrupt; the gate keeps     *)
(* interrupts off, so the handler and the command it runs are one step.    *)
(* What a command prints is any of Replies; what file commands and run do  *)
(* is the business of AshFS, Boot and Syscall.                             *)
(***************************************************************************)
EXTENDS Terminal

CONSTANTS
  SHELL_BUFFER_SIZE,
  Prompt,       \* the characters of "AshOS> "
  Replies,      \* the formats and arguments of what commands print
  Keys,         \* scancodes of the keys that are pressed
  Numbers       \* int32_t values printed with %d, %u and %x

ASSUME ConsoleAssumption ==
  /\ SHELL_BUFFER_SIZE \in Nat \ {0, 1}
  /\ Prompt \in Seq(Chars) /\ Len(Prompt) > 0
  /\ \A n \in 1 .. Len(Prompt) : Prompt[n] \notin {NL, CR, BS, TAB}
  /\ Len(Prompt) + SHELL_BUFFER_SIZE - 1 < VGA_WIDTH * VGA_HEIGHT
  /\ Keys \subseteq 0 .. 127

(* Numbers are shorter than the screen without its last row. *)
ASSUME NumbersAssumption ==
  \A n \in Numbers :
    /\ n \in -(INT_MAX + 1) .. INT_MAX
    /\ \A verb \in {"d", "u", "x"} :
         Len(Formatted([verb |-> verb, arg |-> n])) <= VGA_WIDTH * (VGA_HEIGHT - 1)

ASSUME RepliesAssumption ==
  \A reply \in Replies :
    /\ Len(reply) \in Nat /\ DOMAIN reply = 1 .. Len(reply)
    /\ \A n \in 1 .. Len(reply) : WellFormed(reply[n])

VARIABLES
  shift_held, caps_lock,
  buffer, buffer_pos,
  term,
  held,         \* history: the shift keys that are physically down
  tabbed        \* history: a tab was typed in the current line

vars == <<shift_held, caps_lock, buffer, buffer_pos, term, held, tabbed>>

NUL == "NUL"
LSHIFT == 42
RSHIFT == 54
CAPS_LOCK == 58
Shifts == {LSHIFT, RSHIFT}
Released(s) == s + 128

(* The two scancode tables.  All keys with two characters are taken for    *)
(* one: the model tells only the tables apart.                             *)
scancode_table(s) ==
  CASE s = 14 -> BS [] s = 15 -> TAB [] s = 28 -> NL [] s = 55 -> "*" [] s = 57 -> Blank
    [] s \in {0, 1, 29, 42, 54, 56} -> NUL
    [] OTHER -> "a"

scancode_table_shifted(s) ==
  IF scancode_table(s) = "a" THEN "A" ELSE scancode_table(s)

(* The C string in the buffer. *)
CString ==
  LET end == CHOOSE n \in DOMAIN buffer :
               buffer[n] = NUL /\ \A m \in 0 .. n - 1 : buffer[m] # NUL
  IN  [n \in 1 .. end |-> buffer[n - 1]]

shell_prompt(t) == kprintf(t, <<Text(Prompt)>>)

Init ==
  /\ shift_held = FALSE /\ caps_lock = FALSE
  /\ buffer = [n \in 0 .. SHELL_BUFFER_SIZE - 1 |-> NUL] /\ buffer_pos = 0
  /\ term = shell_prompt(terminal_putchar(terminal_initialize, NL))
  /\ held = {} /\ tabbed = FALSE

-----------------------------------------------------------------------------
(* An empty line only prompts again. *)
EmptyLine ==
  /\ buffer_pos = 0
  /\ term' = shell_prompt(terminal_putchar(term, NL))
  /\ UNCHANGED <<buffer, buffer_pos>>

ClearLine == buffer_pos' = 0 /\ buffer' = [buffer EXCEPT ![0] = NUL]

(* A command prints its reply, or the line itself (echo, an unknown        *)
(* command); clear starts the screen afresh.  What the replies of the      *)
(* other commands say is not modelled: any of Replies may come.            *)
Printed(t) ==
  {kprintf(t, reply) : reply \in Replies \cup {<<[verb |-> "s", arg |-> CString]>>}}
    \cup {terminal_initialize}

Command ==
  /\ buffer_pos # 0
  /\ \E t \in Printed(terminal_putchar(term, NL)) :
       term' = shell_prompt(terminal_putchar(t, NL))
  /\ ClearLine

shell_execute == (EmptyLine \/ Command) /\ tabbed' = FALSE

Erase ==
  /\ IF buffer_pos > 0
     THEN /\ buffer_pos' = buffer_pos - 1
          /\ buffer' = [buffer EXCEPT ![buffer_pos - 1] = NUL]
          /\ term' = terminal_putchar(term, BS)
     ELSE UNCHANGED <<buffer, buffer_pos, term>>
  /\ UNCHANGED tabbed

AppendCharMutant(c) ==
  IF buffer_pos > SHELL_BUFFER_SIZE - 1
  THEN UNCHANGED <<buffer, buffer_pos, term, tabbed>>
  ELSE /\ buffer_pos' = buffer_pos + 1
       /\ buffer' = [buffer EXCEPT ![buffer_pos] = c, ![buffer_pos + 1] = NUL]
       /\ term' = terminal_putchar(term, c)
       /\ tabbed' = (tabbed \/ c = TAB)

(* A full buffer ignores the character. *)
AppendChar(c) ==
  IF buffer_pos >= SHELL_BUFFER_SIZE - 1
  THEN UNCHANGED <<buffer, buffer_pos, term, tabbed>>
  ELSE /\ buffer_pos' = buffer_pos + 1
       /\ buffer' = [buffer EXCEPT ![buffer_pos] = c, ![buffer_pos + 1] = NUL]
       /\ term' = terminal_putchar(term, c)
       /\ tabbed' = (tabbed \/ c = TAB)

shell_process_char(c) ==
  \/ c = NL /\ shell_execute
  \/ c = BS /\ Erase
  \/ c \notin {NL, BS} /\ AppendChar(c)

NoCharacter == UNCHANGED <<buffer, buffer_pos, term, tabbed>>

ShiftKeyMutant(s) ==
  /\ s \in Shifts \cup {Released(k) : k \in Shifts}
  /\ shift_held' = IF s = Released(RSHIFT) THEN shift_held ELSE s \in Shifts
  /\ UNCHANGED caps_lock /\ NoCharacter

ShiftKey(s) ==
  /\ s \in Shifts \cup {Released(k) : k \in Shifts}
  /\ shift_held' = (s \in Shifts)
  /\ UNCHANGED caps_lock /\ NoCharacter

CapsLock(s) ==
  /\ s = CAPS_LOCK
  /\ caps_lock' = ~caps_lock
  /\ UNCHANGED shift_held /\ NoCharacter

(* The release of another key, or a key past the end of the tables. *)
Ignored(s) ==
  /\ s \notin {Released(k) : k \in Shifts}
  /\ s >= 128 \/ s > CAPS_LOCK
  /\ UNCHANGED <<shift_held, caps_lock>> /\ NoCharacter

(* caps lock chooses the table for every key, digits too *)
Character(s) ==
  /\ s \notin Shifts /\ s < CAPS_LOCK
  /\ LET c == IF shift_held # caps_lock THEN scancode_table_shifted(s)
              ELSE scancode_table(s)
     IN  \/ c = NUL /\ NoCharacter
         \/ c # NUL /\ shell_process_char(c)
  /\ UNCHANGED <<shift_held, caps_lock>>

keyboard_handler(s) == ShiftKey(s) \/ CapsLock(s) \/ Ignored(s) \/ Character(s)

(* The keyboard sends the code of a key that goes down, or repeats while   *)
(* down, and the release code when a shift key that is down goes up.       *)
Press(s) == keyboard_handler(s) /\ held' = held \cup ({s} \cap Shifts)

Release(s) == keyboard_handler(Released(s)) /\ held' = held \ {s}

Next ==
  \/ \E s \in Keys : Press(s)
  \/ \E s \in held \cup (Keys \ Shifts) : Release(s)

Spec == Init /\ [][Next]_vars

-----------------------------------------------------------------------------
(* buffer_pos stays inside the buffer, row and column on the screen.       *)
TypeOK ==
  /\ shift_held \in BOOLEAN /\ caps_lock \in BOOLEAN /\ tabbed \in BOOLEAN
  /\ held \subseteq Shifts
  /\ buffer_pos \in 0 .. SHELL_BUFFER_SIZE - 1
  /\ buffer \in [0 .. SHELL_BUFFER_SIZE - 1 -> Chars \cup {NUL}]
  /\ term \in Terminals

(* What you see is what Enter runs: in a line without tabs the screen      *)
(* shows the prompt and then exactly the C string the command parser will  *)
(* read, ending at the hardware cursor (which newline and return do not    *)
(* move, although they move row and column).  It has to survive wrapping,  *)
(* scrolling in the middle of a line, erasing over the start of a row, a   *)
(* full buffer (terminal_putchar and shell_process_char keep separate      *)
(* positions) and what earlier, longer lines left in the buffer.           *)
ShownIsExecuted ==
  ~tabbed =>
    LET shown == Prompt \o CString
        start == Position(term) - Len(shown)
    IN  /\ start >= 0
        /\ \A n \in 1 .. Len(shown) : term.cell[start + n - 1] = shown[n]
        /\ term.cursor = Position(term)

(* No shift is stuck: with both shift keys up, letters are not shifted,    *)
(* whatever the order in which the two keys were pressed and released.     *)
NoStuckShift == held = {} => ~shift_held

(* A number kprintf prints, wherever the cursor is and however the text    *)
(* wraps or scrolls, reads back from the screen as the number: %d as the   *)
(* int32_t (the smallest one, whose negation overflows, included), %u and  *)
(* %x as the uint32_t.                                                     *)
NumbersReadBack ==
  \A n \in Numbers, verb \in {"d", "u", "x"} :
    LET item  == [verb |-> verb, arg |-> n]
        t     == kprintf(term, <<item>>)
        size  == Len(Formatted(item))
        shown == [k \in 1 .. size |-> t.cell[Position(t) - size + k - 1]]
    IN  ReadBack(verb, shown) = IF verb = "d" THEN n ELSE Unsigned(n)
=============================================================================
