------------------------------ MODULE Terminal ------------------------------
(***************************************************************************)
(* The VGA text terminal of kernel/kernel.c and the number formatting of   *)
(* kprintf.c, as operators on a terminal record: row and column of the     *)
(* next character, the cells of the screen, and the position the hardware  *)
(* cursor was last told.  Colours are left out.                            *)
(***************************************************************************)
EXTENDS Integers, Sequences

CONSTANTS
  VGA_WIDTH, VGA_HEIGHT,
  TAB_STOP,     \* columns between two tab stops
  INT_MAX,      \* 2^31 - 1, the largest int32_t
  Letters       \* what texts are made of besides the characters below

ASSUME TerminalAssumption ==
  /\ VGA_WIDTH \in Nat \ {0} /\ VGA_HEIGHT \in Nat \ {0}
  /\ TAB_STOP \in Nat \ {0} /\ INT_MAX \in Nat

NL == "nl"
CR == "cr"
BS == "bs"
TAB == "tab"
Blank == " "

digits == <<"0", "1", "2", "3", "4", "5", "6", "7", "8", "9", "a", "b", "c", "d", "e", "f">>

Chars ==
  {NL, CR, BS, TAB, Blank, "A", "*", "-", "x", "%"} \cup {digits[k] : k \in 1 .. 16} \cup Letters

Cells == 0 .. VGA_WIDTH * VGA_HEIGHT - 1

Terminals ==
  [row : 0 .. VGA_HEIGHT - 1, column : 0 .. VGA_WIDTH - 1,
   cell : [Cells -> Chars], cursor : Cells]

Position(t) == t.row * VGA_WIDTH + t.column

terminal_update_cursor(t) == [t EXCEPT !.cursor = Position(t)]

terminal_initialize ==
  [row |-> 0, column |-> 0, cell |-> [p \in Cells |-> Blank], cursor |-> 0]

(* every row moves up by one, the last one is cleared *)
terminal_scroll(t) ==
  [t EXCEPT !.cell = [p \in Cells |->
     IF p + VGA_WIDTH \in Cells THEN t.cell[p + VGA_WIDTH] ELSE Blank]]

(* the start of the next row; the last row scrolls *)
NextRow(t) ==
  IF t.row + 1 = VGA_HEIGHT THEN [terminal_scroll(t) EXCEPT !.column = 0]
  ELSE [t EXCEPT !.row = @ + 1, !.column = 0]

terminal_putentryat(t, c) == [t EXCEPT !.cell[Position(t)] = c]

StepBackMutant(t) ==
  IF t.column > 0 THEN [t EXCEPT !.column = @ - 1] ELSE t

(* one cell back, over the start of a row too *)
StepBack(t) ==
  IF t.column > 0 THEN [t EXCEPT !.column = @ - 1]
  ELSE IF t.row > 0 THEN [t EXCEPT !.row = @ - 1, !.column = VGA_WIDTH - 1]
  ELSE t

NextTab(t) ==
  LET column == ((t.column + TAB_STOP) \div TAB_STOP) * TAB_STOP
  IN  IF column >= VGA_WIDTH THEN NextRow(t) ELSE [t EXCEPT !.column = column]

PutVisible(t, c) ==
  LET put == terminal_putentryat(t, c)
  IN  terminal_update_cursor(
        IF t.column + 1 = VGA_WIDTH THEN NextRow(put)
        ELSE [put EXCEPT !.column = @ + 1])

(* Newline, return and tab do not tell the hardware cursor. *)
terminal_putchar(t, c) ==
  CASE c = NL  -> NextRow(t)
    [] c = CR  -> [t EXCEPT !.column = 0]
    [] c = TAB -> NextTab(t)
    [] c = BS  -> terminal_update_cursor(terminal_putentryat(StepBack(t), Blank))
    [] OTHER   -> PutVisible(t, c)

(* terminal_write, terminal_writestring, puts *)
Write(t, text) ==
  LET after[n \in 0 .. Len(text)] ==
        IF n = 0 THEN t ELSE terminal_putchar(after[n - 1], text[n])
  IN  after[Len(text)]

-----------------------------------------------------------------------------
(* kprintf *)

(* print_uint: the digits come out backwards and are turned round *)
print_uint(n, base) ==
  LET rest[m \in 0 .. n] ==
        IF m = 0 THEN <<>> ELSE Append(rest[m \div base], digits[(m % base) + 1])
  IN  IF n = 0 THEN <<digits[1]>> ELSE rest[n]

(* the conversion of an int32_t to uint32_t *)
Unsigned(n) == n % (2 * (INT_MAX + 1))

print_intMutant(n) ==
  IF n < 0 THEN <<"-">> \o print_uint((-n) % (INT_MAX + 1), 10) ELSE print_uint(n, 10)

(* print_int: the magnitude is printed as an unsigned number, which also   *)
(* holds that of the smallest int32_t                                      *)
print_int(n) ==
  IF n < 0 THEN <<"-">> \o print_uint(Unsigned(-n), 10) ELSE print_uint(n, 10)

(* A format is a sequence of runs of ordinary characters, verb "text", and *)
(* of directives with their arguments.                                     *)
Formatted(item) ==
  CASE item.verb \in {"text", "s"} -> item.arg
    [] item.verb = "d" -> print_int(item.arg)
    [] item.verb = "u" -> print_uint(Unsigned(item.arg), 10)
    [] item.verb = "x" -> <<"0", "x">> \o print_uint(Unsigned(item.arg), 16)
    [] item.verb = "c" -> <<item.arg>>
    [] item.verb = "%" -> <<"%">>
    [] OTHER -> <<"%", item.verb>>

kprintf(t, fmt) ==
  LET after[n \in 0 .. Len(fmt)] ==
        IF n = 0 THEN t ELSE Write(after[n - 1], Formatted(fmt[n]))
  IN  after[Len(fmt)]

Text(characters) == [verb |-> "text", arg |-> characters]

(* the arguments that the directives of kprintf expect *)
WellFormed(item) ==
  CASE item.verb \in {"text", "s"} -> item.arg \in Seq(Chars)
    [] item.verb \in {"d", "u", "x"} -> item.arg \in Int
    [] item.verb = "c" -> item.arg \in Chars
    [] OTHER -> item.verb \in Chars

(* what a reader makes of a printed number *)
DigitValue(c) == (CHOOSE k \in 1 .. 16 : digits[k] = c) - 1

Magnitude(text, base) ==
  LET value[n \in 0 .. Len(text)] ==
        IF n = 0 THEN 0 ELSE base * value[n - 1] + DigitValue(text[n])
  IN  value[Len(text)]

(* %d with its sign, %x without its prefix *)
ReadBack(verb, text) ==
  CASE verb = "x" -> Magnitude(Tail(Tail(text)), 16)
    [] verb = "d" /\ text[1] = "-" -> -Magnitude(Tail(text), 10)
    [] OTHER -> Magnitude(text, 10)
=============================================================================
