--------------------------- MODULE ConsoleProofs ---------------------------
(***************************************************************************)
(* Proofs about the console, for any size of screen and buffer, any prompt *)
(* and any replies of the commands.                                        *)
(***************************************************************************)
EXTENDS Console, SequenceTheorems, WellFoundedInduction, TLAPS

-----------------------------------------------------------------------------
(* Induction and iteration *)

(* a set of naturals that has an element has a least one *)
LEMMA LeastElement ==
  ASSUME NEW T \in SUBSET Nat, T # {}
  PROVE  \E x \in T : \A y \in T : x <= y
<1>. DEFINE Less == {ss \in Nat \X Nat : ss[1] < ss[2]}
<1>a. IsWellFoundedOn(Less, Nat)
  BY NatLessThanWellFounded DEF OpToRel
<1>b. \A x, y \in Nat : y < x => <<y, x>> \in Less
  OBVIOUS
<1>. HIDE DEF Less
<1>1. PICK x \in T : \A y \in T : ~(<<y, x>> \in Less)
  BY Zenon, <1>a, WFMin
<1>2. \A y \in T : ~(y < x)
  BY Zenon, <1>b, <1>1
<1>3. \A y \in T : x <= y
  BY <1>2
<1>4. QED
  BY <1>3

(* induction: a set with 0 that is closed under successor is Nat *)
LEMMA SetInduction ==
  ASSUME NEW T \in SUBSET Nat, 0 \in T, \A n \in T : n + 1 \in T
  PROVE  T = Nat
<1>. SUFFICES ASSUME Nat \ T # {} PROVE FALSE
  BY Zenon
<1>1. PICK x \in Nat \ T : \A y \in Nat \ T : x <= y
  BY Zenon, LeastElement
<1>2. x # 0 /\ x - 1 \in Nat /\ ~(x <= x - 1)
  BY <1>1
<1>3. x - 1 \in T
  BY <1>1, <1>2
<1>4. (x - 1) + 1 \in T
  BY <1>3
<1>5. QED
  BY <1>1, <1>4

(* q lists the results of applying g to a and the first, second... of s *)
Folds(q, S, C, g, a, s, n) ==
  q \in [0 .. n -> S] /\ q[0] = a /\ \A k \in 1 .. n : q[k] = g[<<q[k - 1], s[k]>>]

(* folding a sequence is defined *)
LEMMA FoldExists ==
  ASSUME NEW S, NEW C, NEW g \in [S \X C -> S], NEW a \in S, NEW N \in Nat, NEW s,
         \A k \in 1 .. N : s[k] \in C
  PROVE  \E q : Folds(q, S, C, g, a, s, N)
<1>. DEFINE T == {n \in Nat : n <= N => \E q : Folds(q, S, C, g, a, s, n)}
<1>1. 0 \in T
  <2>1. Folds([k \in 0 .. 0 |-> a], S, C, g, a, s, 0)
    BY DEF Folds
  <2>2. QED
    BY <2>1
<1>2. ASSUME NEW n \in T PROVE n + 1 \in T
  <2>. SUFFICES ASSUME n + 1 <= N PROVE \E q : Folds(q, S, C, g, a, s, n + 1)
    OBVIOUS
  <2>0. n \in Nat /\ n <= N /\ s[n + 1] \in C
    OBVIOUS
  <2>1. PICK q : Folds(q, S, C, g, a, s, n)
    BY <2>0
  <2>. DEFINE r == [k \in 0 .. n + 1 |-> IF k = n + 1 THEN g[<<q[n], s[n + 1]>>] ELSE q[k]]
  <2>2. n \in Nat /\ q \in [0 .. n -> S] /\ q[n] \in S /\ g[<<q[n], s[n + 1]>>] \in S
    BY <2>0, <2>1 DEF Folds
  <2>3. r \in [0 .. n + 1 -> S]
    BY <2>2
  <2>4. r[0] = a
    BY <2>1, <2>2 DEF Folds
  <2>5. ASSUME NEW k \in 1 .. n + 1 PROVE r[k] = g[<<r[k - 1], s[k]>>]
    <3>1. r[k - 1] = q[k - 1]
      BY <2>2
    <3>2. CASE k = n + 1
      <4>1. r[n + 1] = g[<<q[n], s[n + 1]>>] /\ (n + 1) - 1 = n
        BY <2>2
      <4>2. QED
        BY <3>1, <3>2, <4>1
    <3>3. CASE k \in 1 .. n
      <4>1. r[k] = q[k]
        BY <2>2, <3>3
      <4>2. QED
        BY <2>1, <3>1, <3>3, <4>1 DEF Folds
    <3>4. QED
      BY <2>2, <3>2, <3>3
  <2>. HIDE DEF r
  <2>6. Folds(r, S, C, g, a, s, n + 1)
    BY <2>3, <2>4, <2>5 DEF Folds
  <2>7. QED
    BY <2>6
<1>. HIDE DEF T
<1>3. T = Nat
  BY Zenon, <1>1, <1>2, SetInduction DEF T
<1>4. QED
  BY <1>3 DEF T

-----------------------------------------------------------------------------
(* The terminal *)

Visible(c) == c \in Chars /\ c \notin {NL, CR, BS, TAB}

(* rows of W cells, the p-th place of row r *)
LEMMA PlaceOnScreen ==
  ASSUME NEW W \in Nat, NEW H \in Nat, NEW r \in Nat, NEW p \in Nat, r < H, p < W
  PROVE  /\ r * W \in Nat /\ r * W + p < W * H
         /\ (r + 1) * W = r * W + W
         /\ r + 1 = H => r * W + W = W * H
         /\ r + 1 < H => r * W + W < W * H
<1>1. PICK d \in Nat : H = r + 1 + d
  BY ONLY r \in Nat, H \in Nat, r < H
<1>2. W * H = r * W + W + d * W
  BY <1>1
<1>3. d * W \in Nat /\ r * W \in Nat
  BY <1>1
<1>4. r + 1 < H => d * W >= W
  <2>1. SUFFICES ASSUME r + 1 < H PROVE d * W >= W
    OBVIOUS
  <2>2. PICK e \in Nat : d = e + 1
    <3>1. d - 1 \in Nat /\ d = (d - 1) + 1
      BY <1>1, <2>1
    <3>2. QED
      BY <3>1
  <2>3. d * W = e * W + W /\ e * W \in Nat
    BY <2>2
  <2>4. QED
    BY <2>3
<1>5. (r + 1) * W = r * W + W
  OBVIOUS
<1>6. r + 1 = H => d = 0
  BY <1>1
<1>7. W > 0
  OBVIOUS
<1>8. QED
  BY <1>2, <1>3, <1>4, <1>5, <1>6, <1>7

(* where the next character goes is on the screen *)
LEMMA PositionFacts ==
  ASSUME NEW t \in Terminals
  PROVE  /\ Position(t) \in Nat /\ Position(t) \in Cells
         /\ VGA_WIDTH * VGA_HEIGHT \in Nat
         /\ t.row \in Nat /\ t.column \in Nat
         /\ t.row < VGA_HEIGHT /\ t.column < VGA_WIDTH
<1>1. /\ t.row \in Nat /\ t.column \in Nat /\ t.row < VGA_HEIGHT /\ t.column < VGA_WIDTH
      /\ VGA_WIDTH \in Nat /\ VGA_HEIGHT \in Nat
  BY TerminalAssumption DEF Terminals
<1>2. t.row * VGA_WIDTH \in Nat /\ t.row * VGA_WIDTH + t.column < VGA_WIDTH * VGA_HEIGHT
  BY <1>1, PlaceOnScreen
<1>3. VGA_WIDTH * VGA_HEIGHT \in Nat
  BY <1>1
<1>4. QED
  BY <1>1, <1>2, <1>3 DEF Position, Cells

LEMMA ScrollFacts ==
  ASSUME NEW t \in Terminals
  PROVE  /\ terminal_scroll(t) \in Terminals
         /\ terminal_scroll(t).row = t.row /\ terminal_scroll(t).column = t.column
         /\ terminal_scroll(t).cursor = t.cursor
         /\ \A p \in Cells : p + VGA_WIDTH \in Cells =>
              terminal_scroll(t).cell[p] = t.cell[p + VGA_WIDTH]
<1>. DEFINE c == [p \in Cells |-> IF p + VGA_WIDTH \in Cells THEN t.cell[p + VGA_WIDTH] ELSE Blank]
<1>1. Blank \in Chars
  BY DEF Blank, Chars
<1>2. c \in [Cells -> Chars]
  BY <1>1 DEF Terminals
<1>3. terminal_scroll(t) = [t EXCEPT !.cell = c]
  BY DEF terminal_scroll
<1>4. \A p \in Cells : p + VGA_WIDTH \in Cells => c[p] = t.cell[p + VGA_WIDTH]
  OBVIOUS
<1>. HIDE DEF c
<1>5. QED
  BY <1>2, <1>3, <1>4 DEF Terminals

(* a newline goes to the start of a row; cells only move if it scrolls *)
LEMMA NextRowFacts ==
  ASSUME NEW t \in Terminals
  PROVE  /\ NextRow(t) \in Terminals /\ NextRow(t).column = 0
         /\ NextRow(t).row = IF t.row + 1 = VGA_HEIGHT THEN t.row ELSE t.row + 1
         /\ t.row + 1 # VGA_HEIGHT => NextRow(t).cell = t.cell
         /\ t.row + 1 = VGA_HEIGHT => NextRow(t).cell = terminal_scroll(t).cell
<1>1. 0 \in 0 .. VGA_WIDTH - 1
  BY TerminalAssumption
<1>2. CASE t.row + 1 = VGA_HEIGHT
  <2>1. NextRow(t) = [terminal_scroll(t) EXCEPT !.column = 0]
    BY <1>2 DEF NextRow
  <2>2. QED
    BY <1>1, <1>2, <2>1, ScrollFacts DEF Terminals
<1>3. CASE t.row + 1 # VGA_HEIGHT
  <2>1. NextRow(t) = [t EXCEPT !.row = @ + 1, !.column = 0]
    BY <1>3 DEF NextRow
  <2>2. t.row + 1 \in 0 .. VGA_HEIGHT - 1
    BY <1>3, TerminalAssumption DEF Terminals
  <2>3. QED
    BY Zenon, <1>1, <1>3, <2>1, <2>2 DEF Terminals
<1>4. QED
  BY <1>2, <1>3

LEMMA PutEntryFacts ==
  ASSUME NEW t \in Terminals, NEW c \in Chars
  PROVE  /\ terminal_putentryat(t, c) \in Terminals
         /\ terminal_putentryat(t, c).row = t.row /\ terminal_putentryat(t, c).column = t.column
         /\ terminal_putentryat(t, c).cell = [t.cell EXCEPT ![Position(t)] = c]
<1>1. terminal_putentryat(t, c) = [t EXCEPT !.cell = [t.cell EXCEPT ![Position(t)] = c]]
  BY DEF terminal_putentryat, Terminals
<1>2. [t.cell EXCEPT ![Position(t)] = c] \in [Cells -> Chars]
  BY Zenon DEF Terminals
<1>3. QED
  BY <1>1, <1>2 DEF Terminals

LEMMA UpdateCursorFacts ==
  ASSUME NEW t \in Terminals
  PROVE  /\ terminal_update_cursor(t) \in Terminals
         /\ terminal_update_cursor(t).row = t.row /\ terminal_update_cursor(t).column = t.column
         /\ terminal_update_cursor(t).cell = t.cell
         /\ terminal_update_cursor(t).cursor = Position(t)
         /\ Position(terminal_update_cursor(t)) = Position(t)
<1>1. terminal_update_cursor(t) = [t EXCEPT !.cursor = Position(t)]
  BY DEF terminal_update_cursor
<1>2. Position(t) \in Cells
  BY PositionFacts
<1>3. /\ terminal_update_cursor(t) \in Terminals
      /\ terminal_update_cursor(t).row = t.row /\ terminal_update_cursor(t).column = t.column
      /\ terminal_update_cursor(t).cell = t.cell
      /\ terminal_update_cursor(t).cursor = Position(t)
  BY <1>1, <1>2 DEF Terminals
<1>4. QED
  BY <1>3 DEF Position

(* a backspace goes back by one cell, except at the first of the screen *)
LEMMA StepBackFacts ==
  ASSUME NEW t \in Terminals
  PROVE  /\ StepBack(t) \in Terminals /\ StepBack(t).cell = t.cell
         /\ Position(t) > 0 => Position(StepBack(t)) = Position(t) - 1
<1>0. /\ t.row \in Nat /\ t.column \in Nat /\ t.row < VGA_HEIGHT /\ t.column < VGA_WIDTH
      /\ VGA_WIDTH \in Nat /\ VGA_HEIGHT \in Nat
  BY TerminalAssumption DEF Terminals
<1>1. CASE t.column > 0
  <2>1. StepBack(t) = [t EXCEPT !.column = @ - 1] /\ t.column - 1 \in 0 .. VGA_WIDTH - 1
    BY <1>0, <1>1 DEF StepBack
  <2>2. /\ StepBack(t) \in Terminals /\ StepBack(t).cell = t.cell
        /\ StepBack(t).row = t.row /\ StepBack(t).column = t.column - 1
    BY <2>1 DEF Terminals
  <2>3. PICK a \in Nat : a = t.row * VGA_WIDTH
    BY <1>0
  <2>4. QED
    BY <1>0, <2>2, <2>3 DEF Position
<1>2. CASE ~(t.column > 0) /\ t.row > 0
  <2>1. /\ StepBack(t) = [t EXCEPT !.row = @ - 1, !.column = VGA_WIDTH - 1]
        /\ t.row - 1 \in 0 .. VGA_HEIGHT - 1 /\ VGA_WIDTH - 1 \in 0 .. VGA_WIDTH - 1
    BY <1>0, <1>2 DEF StepBack
  <2>2. /\ StepBack(t) \in Terminals /\ StepBack(t).cell = t.cell
        /\ StepBack(t).row = t.row - 1 /\ StepBack(t).column = VGA_WIDTH - 1
    BY Zenon, <2>1 DEF Terminals
  <2>3. PICK r \in Nat : r = t.row - 1
    BY <1>0, <1>2
  <2>4. t.row = r + 1 /\ t.column = 0 /\ (r + 1) * VGA_WIDTH = r * VGA_WIDTH + VGA_WIDTH
    BY <1>0, <1>2, <2>3
  <2>5. PICK a \in Nat : a = r * VGA_WIDTH
    BY <1>0
  <2>6. QED
    BY <1>0, <2>2, <2>3, <2>4, <2>5 DEF Position
<1>3. CASE ~(t.column > 0) /\ ~(t.row > 0)
  <2>1. StepBack(t) = t /\ t.row = 0 /\ t.column = 0
    BY <1>0, <1>3 DEF StepBack
  <2>2. Position(t) = 0
    BY <1>0, <2>1 DEF Position
  <2>3. QED
    BY <2>1, <2>2
<1>4. QED
  BY <1>1, <1>2, <1>3

(* what a visible character does: with start a place on the screen before  *)
(* it that would not scroll away, everything from there on stays, one row  *)
(* up if the screen scrolls, and the character comes after it              *)
Advanced(t, u, start, c, up) ==
  /\ up \in {0, VGA_WIDTH} /\ start - up \in Nat
  /\ Position(u) = Position(t) + 1 - up /\ u.cursor = Position(u)
  /\ \A p \in start .. Position(t) - 1 : u.cell[p - up] = t.cell[p]
  /\ u.cell[Position(t) - up] = c

LEMMA PutVisibleType ==
  ASSUME NEW t \in Terminals, NEW c \in Chars
  PROVE  PutVisible(t, c) \in Terminals
<1>. DEFINE put == terminal_putentryat(t, c)
            u == IF t.column + 1 = VGA_WIDTH THEN NextRow(put) ELSE [put EXCEPT !.column = @ + 1]
<1>1. put \in Terminals /\ put.column = t.column
  BY Zenon, PutEntryFacts
<1>2. u \in Terminals
  <2>. HIDE DEF put
  <2>1. CASE t.column + 1 = VGA_WIDTH
    BY <1>1, <2>1, NextRowFacts
  <2>2. CASE t.column + 1 # VGA_WIDTH
    <3>1. put.column + 1 \in 0 .. VGA_WIDTH - 1
      BY <1>1, <2>2, TerminalAssumption DEF Terminals
    <3>2. QED
      BY <1>1, <2>2, <3>1 DEF Terminals
  <2>3. QED
    BY <2>1, <2>2
<1>3. PutVisible(t, c) = terminal_update_cursor(u)
  BY DEF PutVisible
<1>. HIDE DEF u
<1>4. QED
  BY <1>2, <1>3, UpdateCursorFacts

LEMMA PutVisibleAdvances ==
  ASSUME NEW t \in Terminals, NEW c \in Chars, NEW start \in Nat, start <= Position(t),
         Position(t) + 1 = VGA_WIDTH * VGA_HEIGHT => start >= VGA_WIDTH
  PROVE  \E up : Advanced(t, PutVisible(t, c), start, c, up)
<1>. DEFINE put == terminal_putentryat(t, c)
            u == IF t.column + 1 = VGA_WIDTH THEN NextRow(put) ELSE [put EXCEPT !.column = @ + 1]
<1>0. /\ t.row \in Nat /\ t.column \in Nat /\ t.row < VGA_HEIGHT /\ t.column < VGA_WIDTH
      /\ VGA_WIDTH \in Nat /\ VGA_HEIGHT \in Nat
      /\ Position(t) \in Nat /\ Position(t) \in Cells
      /\ VGA_WIDTH * VGA_HEIGHT \in Nat
  BY PositionFacts, TerminalAssumption
<1>1. /\ put \in Terminals /\ put.column = t.column /\ put.row = t.row
      /\ put.cell = [t.cell EXCEPT ![Position(t)] = c]
  BY PutEntryFacts
<1>2. PutVisible(t, c) = terminal_update_cursor(u)
  BY DEF PutVisible
<1>3. /\ put.cell \in [Cells -> Chars] /\ put.cell[Position(t)] = c
      /\ \A p \in Cells \ {Position(t)} : put.cell[p] = t.cell[p]
  BY <1>0, <1>1 DEF Terminals
<1>. HIDE DEF put
<1>. SUFFICES \E up : /\ u \in Terminals
                      /\ up \in {0, VGA_WIDTH} /\ start - up \in Nat
                      /\ Position(u) = Position(t) + 1 - up
                      /\ \A p \in start .. Position(t) - 1 : u.cell[p - up] = t.cell[p]
                      /\ u.cell[Position(t) - up] = c
  <2>. HIDE DEF u
  <2>1. PICK up : /\ u \in Terminals
                  /\ up \in {0, VGA_WIDTH} /\ start - up \in Nat
                  /\ Position(u) = Position(t) + 1 - up
                  /\ \A p \in start .. Position(t) - 1 : u.cell[p - up] = t.cell[p]
                  /\ u.cell[Position(t) - up] = c
    OBVIOUS
  <2>2. Advanced(t, PutVisible(t, c), start, c, up)
    BY <1>2, <2>1, UpdateCursorFacts DEF Advanced
  <2>3. QED
    BY <2>2
<1>4. PICK a \in Nat : a = t.row * VGA_WIDTH
  BY <1>0
<1>5. /\ (t.row + 1) * VGA_WIDTH = a + VGA_WIDTH
      /\ t.row + 1 = VGA_HEIGHT => a + VGA_WIDTH = VGA_WIDTH * VGA_HEIGHT
      /\ Position(t) = a + t.column
  BY <1>0, <1>4, PlaceOnScreen DEF Position
<1>6. \A p \in start .. Position(t) - 1 : p \in Cells \ {Position(t)}
  BY <1>0 DEF Cells
<1>7. CASE t.column + 1 # VGA_WIDTH
  <2>1. u = [put EXCEPT !.column = @ + 1] /\ put.column + 1 \in 0 .. VGA_WIDTH - 1
    BY <1>0, <1>1, <1>7
  <2>2. u \in Terminals /\ u.row = t.row /\ u.column = t.column + 1 /\ u.cell = put.cell
    BY <1>1, <2>1 DEF Terminals
  <2>3. Position(u) = Position(t) + 1 - 0
    BY <1>0, <1>4, <1>5, <2>2 DEF Position
  <2>4. \A p \in start .. Position(t) - 1 : u.cell[p - 0] = t.cell[p]
    BY <1>0, <1>3, <1>6, <2>2
  <2>5. u.cell[Position(t) - 0] = c
    BY <1>0, <1>3, <2>2
  <2>6. QED
    BY <2>2, <2>3, <2>4, <2>5
<1>8. CASE t.column + 1 = VGA_WIDTH /\ t.row + 1 # VGA_HEIGHT
  <2>1. /\ u \in Terminals /\ u.row = t.row + 1 /\ u.column = 0 /\ u.cell = put.cell
    BY <1>1, <1>8, NextRowFacts
  <2>2. Position(u) = Position(t) + 1 - 0
    BY <1>0, <1>4, <1>5, <1>8, <2>1 DEF Position
  <2>3. \A p \in start .. Position(t) - 1 : u.cell[p - 0] = t.cell[p]
    BY <1>0, <1>3, <1>6, <2>1
  <2>4. u.cell[Position(t) - 0] = c
    BY <1>0, <1>3, <2>1
  <2>5. QED
    BY <2>1, <2>2, <2>3, <2>4
<1>9. CASE t.column + 1 = VGA_WIDTH /\ t.row + 1 = VGA_HEIGHT
  <2>1. /\ u \in Terminals /\ u.row = t.row /\ u.column = 0
        /\ u.cell = terminal_scroll(put).cell
    BY <1>1, <1>9, NextRowFacts
  <2>2. Position(t) + 1 = VGA_WIDTH * VGA_HEIGHT /\ start >= VGA_WIDTH
    <3>1. PICK n \in Nat : n = VGA_WIDTH * VGA_HEIGHT
      BY <1>0
    <3>2. Position(t) + 1 = n
      BY <1>0, <1>4, <1>5, <1>9, <3>1
    <3>3. QED
      BY <3>1, <3>2
  <2>3. Position(u) = Position(t) + 1 - VGA_WIDTH
    BY <1>0, <1>4, <1>5, <1>9, <2>1 DEF Position
  <2>4. \A p \in start .. Position(t) : u.cell[p - VGA_WIDTH] = put.cell[p]
    <3>1. TAKE p \in start .. Position(t)
    <3>2. p - VGA_WIDTH \in Cells /\ (p - VGA_WIDTH) + VGA_WIDTH = p /\ p \in Cells
      BY <1>0, <2>2 DEF Cells
    <3>3. PICK q \in Cells : q = p - VGA_WIDTH /\ q + VGA_WIDTH = p
      BY Zenon, <3>2
    <3>4. put \in Terminals
      BY Zenon, <1>1
    <3>5. q + VGA_WIDTH \in Cells
      BY Zenon, <3>2, <3>3
    <3>6. terminal_scroll(put).cell[q] = put.cell[q + VGA_WIDTH]
      BY Zenon, <3>4, <3>5, ScrollFacts
    <3>7. QED
      BY Zenon, <2>1, <3>3, <3>6
  <2>5. \A p \in start .. Position(t) - 1 : u.cell[p - VGA_WIDTH] = t.cell[p]
    BY <1>0, <1>3, <1>6, <2>4
  <2>6. u.cell[Position(t) - VGA_WIDTH] = c
    BY <1>0, <1>3, <2>4
  <2>7. start - VGA_WIDTH \in Nat
    BY <1>0, <2>2
  <2>8. QED
    BY <2>1, <2>3, <2>5, <2>6, <2>7
<1>10. QED
  BY <1>7, <1>8, <1>9

(* every character, control characters too, leaves a terminal *)
LEMMA PutcharType ==
  ASSUME NEW t \in Terminals, NEW c \in Chars
  PROVE  terminal_putchar(t, c) \in Terminals
<1>0. Blank \in Chars /\ 0 \in 0 .. VGA_WIDTH - 1
  <2>1. Blank \in Chars
    BY DEF Chars
  <2>2. 0 \in 0 .. VGA_WIDTH - 1
    BY TerminalAssumption
  <2>3. QED
    BY <2>1, <2>2
<1>1. NextRow(t) \in Terminals
  BY NextRowFacts
<1>2. [t EXCEPT !.column = 0] \in Terminals
  BY <1>0 DEF Terminals
<1>3. NextTab(t) \in Terminals
  <2>. DEFINE q == (t.column + TAB_STOP) \div TAB_STOP
              column == q * TAB_STOP
  <2>1. TAB_STOP \in Nat /\ TAB_STOP > 0 /\ t.column + TAB_STOP \in Nat
    BY TerminalAssumption DEF Terminals
  <2>2. q \in Nat
    BY <2>1
  <2>3. column \in Nat
    <3>. HIDE DEF q
    <3>1. QED
      BY <2>1, <2>2
  <2>4. NextTab(t) = IF column >= VGA_WIDTH THEN NextRow(t) ELSE [t EXCEPT !.column = column]
    BY DEF NextTab
  <2>. HIDE DEF column
  <2>5. CASE column >= VGA_WIDTH
    BY <1>1, <2>4, <2>5
  <2>6. CASE ~(column >= VGA_WIDTH)
    <3>1. column \in 0 .. VGA_WIDTH - 1
      BY <2>3, <2>6, TerminalAssumption
    <3>2. QED
      BY <2>4, <2>6, <3>1 DEF Terminals
  <2>7. QED
    BY <2>5, <2>6
<1>4. terminal_update_cursor(terminal_putentryat(StepBack(t), Blank)) \in Terminals
  <2>1. StepBack(t) \in Terminals
    BY StepBackFacts
  <2>2. terminal_putentryat(StepBack(t), Blank) \in Terminals
    BY Zenon, <1>0, <2>1, PutEntryFacts
  <2>3. QED
    BY <2>2, UpdateCursorFacts
<1>5. PutVisible(t, c) \in Terminals
  BY PutVisibleType
<1>6. QED
  BY <1>1, <1>2, <1>3, <1>4, <1>5 DEF terminal_putchar

LEMMA PutcharVisible ==
  ASSUME NEW t, NEW c, Visible(c)
  PROVE  terminal_putchar(t, c) = PutVisible(t, c)
BY DEF Visible, terminal_putchar

LEMMA InitializeType == terminal_initialize \in Terminals
<1>1. Blank \in Chars
  BY DEF Chars
<1>0. 0 \in 0 .. VGA_WIDTH - 1 /\ 0 \in 0 .. VGA_HEIGHT - 1
  BY TerminalAssumption
<1>2. VGA_WIDTH * VGA_HEIGHT \in Nat \ {0}
  <2>1. 0 * VGA_WIDTH + 0 < VGA_WIDTH * VGA_HEIGHT /\ VGA_WIDTH * VGA_HEIGHT \in Nat
    BY TerminalAssumption, PlaceOnScreen
  <2>2. QED
    BY <2>1, TerminalAssumption
<1>3. 0 \in Cells
  BY <1>2 DEF Cells
<1>4. QED
  BY <1>0, <1>1, <1>3 DEF Terminals, terminal_initialize

-----------------------------------------------------------------------------
(* Texts *)

(* Write is the terminal after the last of its characters *)
LEMMA WriteSteps ==
  ASSUME NEW t \in Terminals, NEW text \in Seq(Chars)
  PROVE  \E q \in [0 .. Len(text) -> Terminals] :
           /\ q[0] = t /\ Write(t, text) = q[Len(text)]
           /\ \A k \in 1 .. Len(text) : q[k] = terminal_putchar(q[k - 1], text[k])
<1>. DEFINE N == Len(text)
            g == [x \in Terminals \X Chars |-> terminal_putchar(x[1], x[2])]
            Body(q) == [n \in 0 .. N |-> IF n = 0 THEN t ELSE terminal_putchar(q[n - 1], text[n])]
            after == CHOOSE q : q = Body(q)
<1>0. N \in Nat /\ \A k \in 1 .. N : text[k] \in Chars
  OBVIOUS
<1>1. g \in [Terminals \X Chars -> Terminals]
  BY PutcharType
<1>2. \A u \in Terminals, c \in Chars : g[<<u, c>>] = terminal_putchar(u, c)
  OBVIOUS
<1>. HIDE DEF N, g
<1>3. PICK r : Folds(r, Terminals, Chars, g, t, text, N)
  BY Zenon, <1>0, <1>1, FoldExists
<1>4. r = Body(r)
  <2>1. ASSUME NEW k \in 0 .. N PROVE r[k] = Body(r)[k]
    <3>1. CASE k = 0
      BY <1>3, <3>1 DEF Folds
    <3>2. CASE k # 0
      <4>1. k \in 1 .. N /\ k - 1 \in 0 .. N
        BY <1>0, <3>2
      <4>2. r[k - 1] \in Terminals /\ r[k] = g[<<r[k - 1], text[k]>>]
        BY <1>3, <4>1 DEF Folds
      <4>3. r[k] = terminal_putchar(r[k - 1], text[k])
        BY <1>0, <1>2, <4>1, <4>2
      <4>4. QED
        BY <3>2, <4>3
    <3>3. QED
      BY <3>1, <3>2
  <2>2. QED
    BY <1>3, <2>1 DEF Folds
<1>. HIDE DEF Body
<1>5. after = Body(after)
  BY <1>4
<1>6. Write(t, text) = after[N]
  BY DEF Write, Body, N
<1>. HIDE DEF after
<1>7. DOMAIN after = 0 .. N /\ after = [n \in 0 .. N |-> after[n]]
  BY <1>5 DEF Body
<1>8. after[0] = t
  BY <1>0, <1>5 DEF Body
<1>9. ASSUME NEW k \in 1 .. N PROVE after[k] = terminal_putchar(after[k - 1], text[k])
  <2>1. k \in 0 .. N /\ k # 0
    BY <1>0
  <2>2. after[k] = Body(after)[k]
    BY <1>5
  <2>3. QED
    BY <2>1, <2>2 DEF Body
<1>. DEFINE T == {n \in Nat : n <= N => after[n] \in Terminals}
<1>10. 0 \in T
  BY <1>8
<1>11. ASSUME NEW n \in T PROVE n + 1 \in T
  <2>. SUFFICES ASSUME n + 1 <= N PROVE after[n + 1] \in Terminals
    OBVIOUS
  <2>1. n \in Nat /\ n + 1 \in 1 .. N /\ (n + 1) - 1 = n /\ after[n] \in Terminals
    BY <1>0
  <2>2. after[n + 1] = terminal_putchar(after[n], text[n + 1]) /\ text[n + 1] \in Chars
    BY <1>0, <1>9, <2>1
  <2>3. QED
    BY <2>1, <2>2, PutcharType
<1>12. T = Nat
  <2>. HIDE DEF T
  <2>1. QED
    BY Zenon, <1>10, <1>11, SetInduction DEF T
<1>13. \A n \in 0 .. N : after[n] \in Terminals
  BY <1>0, <1>12
<1>14. after \in [0 .. N -> Terminals]
  BY <1>7, <1>13
<1>15. QED
  BY <1>6, <1>8, <1>9, <1>14 DEF N

LEMMA WriteType ==
  ASSUME NEW t \in Terminals, NEW text \in Seq(Chars)
  PROVE  Write(t, text) \in Terminals
BY WriteSteps

(* kprintf is the terminal after the last item of its format *)
LEMMA KprintfSteps ==
  ASSUME NEW t \in Terminals, NEW fmt, Len(fmt) \in Nat,
         \A k \in 1 .. Len(fmt) : Formatted(fmt[k]) \in Seq(Chars)
  PROVE  \E q \in [0 .. Len(fmt) -> Terminals] :
           /\ q[0] = t /\ kprintf(t, fmt) = q[Len(fmt)]
           /\ \A k \in 1 .. Len(fmt) : q[k] = Write(q[k - 1], Formatted(fmt[k]))
<1>. DEFINE N == Len(fmt)
            C == Seq(Chars)
            s == [k \in 1 .. N |-> Formatted(fmt[k])]
            g == [x \in Terminals \X C |-> Write(x[1], x[2])]
            Body(q) == [n \in 0 .. N |-> IF n = 0 THEN t ELSE Write(q[n - 1], Formatted(fmt[n]))]
            after == CHOOSE q : q = Body(q)
<1>0. N \in Nat /\ \A k \in 1 .. N : s[k] \in C /\ s[k] = Formatted(fmt[k])
  OBVIOUS
<1>1. \A u \in Terminals, text \in C : Write(u, text) \in Terminals
  BY WriteType
<1>. HIDE DEF N, s, C
<1>2. /\ g \in [Terminals \X C -> Terminals]
      /\ \A u \in Terminals, text \in C : g[<<u, text>>] = Write(u, text)
  BY <1>1
<1>. HIDE DEF g
<1>3. PICK r : Folds(r, Terminals, C, g, t, s, N)
  BY Zenon, <1>0, <1>2, FoldExists
<1>4. r = Body(r)
  <2>1. ASSUME NEW k \in 0 .. N PROVE r[k] = Body(r)[k]
    <3>1. CASE k = 0
      BY <1>3, <3>1 DEF Folds
    <3>2. CASE k # 0
      <4>1. k \in 1 .. N /\ k - 1 \in 0 .. N
        BY <1>0, <3>2
      <4>2. r[k - 1] \in Terminals /\ r[k] = g[<<r[k - 1], s[k]>>]
        BY <1>3, <4>1 DEF Folds
      <4>3. r[k] = Write(r[k - 1], Formatted(fmt[k]))
        BY <1>0, <1>2, <4>1, <4>2
      <4>4. QED
        BY <3>2, <4>3
    <3>3. QED
      BY <3>1, <3>2
  <2>2. QED
    BY <1>3, <2>1 DEF Folds
<1>. HIDE DEF Body
<1>5. after = Body(after)
  BY <1>4
<1>6. kprintf(t, fmt) = after[N]
  BY DEF kprintf, Body, N
<1>. HIDE DEF after
<1>7. DOMAIN after = 0 .. N /\ after = [n \in 0 .. N |-> after[n]]
  BY <1>5 DEF Body
<1>8. after[0] = t
  BY <1>0, <1>5 DEF Body
<1>9. ASSUME NEW k \in 1 .. N PROVE after[k] = Write(after[k - 1], Formatted(fmt[k]))
  <2>1. k \in 0 .. N /\ k # 0
    BY <1>0
  <2>2. after[k] = Body(after)[k]
    BY <1>5
  <2>3. QED
    BY <2>1, <2>2 DEF Body
<1>. DEFINE T == {n \in Nat : n <= N => after[n] \in Terminals}
<1>10. 0 \in T
  BY <1>8
<1>11. ASSUME NEW n \in T PROVE n + 1 \in T
  <2>. SUFFICES ASSUME n + 1 <= N PROVE after[n + 1] \in Terminals
    OBVIOUS
  <2>1. n \in Nat /\ n + 1 \in 1 .. N /\ (n + 1) - 1 = n /\ after[n] \in Terminals
    BY <1>0
  <2>2. after[n + 1] = Write(after[n], Formatted(fmt[n + 1])) /\ Formatted(fmt[n + 1]) \in C
    BY <1>0, <1>9, <2>1
  <2>3. QED
    BY <1>1, <2>1, <2>2
<1>12. T = Nat
  <2>. HIDE DEF T
  <2>1. QED
    BY Zenon, <1>10, <1>11, SetInduction DEF T
<1>13. \A n \in 0 .. N : after[n] \in Terminals
  BY <1>0, <1>12
<1>14. after \in [0 .. N -> Terminals]
  BY <1>7, <1>13
<1>15. QED
  BY <1>6, <1>8, <1>9, <1>14 DEF N

LEMMA KprintfType ==
  ASSUME NEW t \in Terminals, NEW fmt, Len(fmt) \in Nat,
         \A k \in 1 .. Len(fmt) : Formatted(fmt[k]) \in Seq(Chars)
  PROVE  kprintf(t, fmt) \in Terminals
BY KprintfSteps

(* a format of one item *)
LEMMA KprintfOne ==
  ASSUME NEW t \in Terminals, NEW item, Formatted(item) \in Seq(Chars)
  PROVE  kprintf(t, <<item>>) = Write(t, Formatted(item))
<1>1. PICK fmt : fmt = <<item>>
  BY Zenon
<1>2. Len(fmt) = 1 /\ fmt[1] = item
  BY <1>1
<1>3. PICK q \in [0 .. Len(fmt) -> Terminals] :
        /\ q[0] = t /\ kprintf(t, fmt) = q[Len(fmt)]
        /\ \A k \in 1 .. Len(fmt) : q[k] = Write(q[k - 1], Formatted(fmt[k]))
  <2>1. \A k \in 1 .. Len(fmt) : Formatted(fmt[k]) \in Seq(Chars)
    BY <1>2
  <2>2. QED
    BY <1>2, <2>1, KprintfSteps
<1>4. q[1] = Write(q[0], Formatted(item))
  <2>1. 1 \in 1 .. Len(fmt) /\ 1 - 1 = 0
    BY <1>2
  <2>2. QED
    BY <1>2, <1>3, <2>1
<1>5. QED
  BY <1>1, <1>2, <1>3, <1>4

(* A line of up to n characters that starts at start never scrolls off the *)
(* screen: it starts a row and is shorter than the screen, or is shorter   *)
(* than the screen without a row.                                          *)
Room(start, n) ==
  \/ n < VGA_WIDTH * VGA_HEIGHT /\ \E r \in Nat : start = r * VGA_WIDTH
  \/ n <= VGA_WIDTH * (VGA_HEIGHT - 1)

(* the n characters of f before the next one, from start on *)
Shows(t, start, f, n) ==
  /\ Position(t) = start + n
  /\ \A k \in 1 .. n : t.cell[start + k - 1] = f[k]

(* one more visible character on a line that has room for it *)
LEMMA ShowOneMore ==
  ASSUME NEW t \in Terminals, NEW start \in Nat, NEW f, NEW n \in Nat, NEW max \in Nat,
         n < max, Room(start, max), Shows(t, start, f, n),
         NEW c \in Chars, Visible(c),
         NEW g, \A k \in 1 .. n : g[k] = f[k], g[n + 1] = c
  PROVE  LET u == terminal_putchar(t, c)
         IN  /\ u \in Terminals /\ u.cursor = Position(u)
             /\ \E first \in Nat : Room(first, max) /\ Shows(u, first, g, n + 1)
<1>. DEFINE u == terminal_putchar(t, c)
            W == VGA_WIDTH
            WH == VGA_WIDTH * VGA_HEIGHT
<1>0. W \in Nat /\ W > 0 /\ WH \in Nat /\ W * (VGA_HEIGHT - 1) = WH - W /\ VGA_HEIGHT \in Nat
  <2>1. VGA_WIDTH \in Nat /\ VGA_WIDTH > 0 /\ VGA_HEIGHT \in Nat
    BY TerminalAssumption
  <2>2. QED
    BY <2>1
<1>. HIDE DEF W, WH
<1>1. u = PutVisible(t, c) /\ u \in Terminals
  BY PutcharVisible, PutVisibleType
<1>2. Position(t) = start + n /\ Position(t) \in Nat /\ start <= Position(t)
  BY PositionFacts DEF Shows
<1>3. Position(t) + 1 = WH => start >= W
  <2>. SUFFICES ASSUME start + n + 1 = WH PROVE start >= W
    BY <1>2
  <2>1. CASE max < WH /\ \E r \in Nat : start = r * W
    <3>1. PICK r \in Nat : start = r * W
      BY <2>1
    <3>2. r # 0
      BY <1>0, <2>1, <3>1
    <3>3. PICK e \in Nat : r = e + 1
      <4>1. r - 1 \in Nat /\ r = (r - 1) + 1
        BY <3>2
      <4>2. QED
        BY <4>1
    <3>4. r * W = e * W + W /\ e * W \in Nat
      BY <1>0, <3>3
    <3>5. QED
      BY <1>0, <3>1, <3>4
  <2>2. CASE max <= WH - W
    BY <1>0, <2>2
  <2>3. QED
    BY <1>0, <2>1, <2>2 DEF Room, W, WH
<1>4. PICK up : Advanced(t, u, start, c, up)
  BY <1>1, <1>2, <1>3, PutVisibleAdvances DEF W, WH
<1>5. PICK first \in Nat : first = start - up
  BY <1>4 DEF Advanced
<1>6. up \in Nat /\ start = first + up
  BY <1>0, <1>4, <1>5 DEF Advanced, W
<1>7. Position(u) = first + (n + 1) /\ u.cursor = Position(u)
  BY <1>2, <1>4, <1>6 DEF Advanced
<1>8. \A k \in 1 .. n + 1 : u.cell[first + k - 1] = g[k]
  <2>1. ASSUME NEW k \in 1 .. n PROVE u.cell[first + k - 1] = g[k]
    <3>1. PICK p \in start .. Position(t) - 1 : p = start + k - 1
      BY <1>2
    <3>2. u.cell[p - up] = t.cell[p]
      BY <1>4, <3>1 DEF Advanced
    <3>3. p - up = first + k - 1
      BY <1>6, <3>1
    <3>4. t.cell[start + k - 1] = f[k]
      BY DEF Shows
    <3>5. QED
      BY <3>1, <3>2, <3>3, <3>4
  <2>2. u.cell[first + (n + 1) - 1] = g[n + 1]
    <3>1. Position(t) - up = first + (n + 1) - 1
      BY <1>2, <1>6
    <3>2. u.cell[Position(t) - up] = c
      BY <1>4 DEF Advanced
    <3>3. QED
      BY <3>1, <3>2
  <2>3. QED
    BY <2>1, <2>2
<1>9. Room(first, max)
  <2>1. CASE max < WH /\ \E r \in Nat : start = r * W
    <3>1. PICK r \in Nat : start = r * W
      BY <2>1
    <3>2. CASE up = 0
      BY <1>6, <2>1, <3>1, <3>2 DEF Room, W, WH
    <3>3. CASE up = W
      <4>1. r # 0
        BY <1>0, <1>6, <3>1, <3>3
      <4>2. PICK e \in Nat : r = e + 1
        <5>1. r - 1 \in Nat /\ r = (r - 1) + 1
          BY <4>1
        <5>2. QED
          BY <5>1
      <4>3. r * W = e * W + W /\ e * W \in Nat
        BY <1>0, <4>2
      <4>4. first = e * W
        BY <1>0, <1>6, <3>1, <3>3, <4>3
      <4>5. QED
        BY <2>1, <4>4 DEF Room, W, WH
    <3>4. QED
      BY <1>4, <3>2, <3>3 DEF Advanced, W
  <2>2. CASE max <= VGA_WIDTH * (VGA_HEIGHT - 1)
    BY <2>2 DEF Room
  <2>3. QED
    BY <2>1, <2>2 DEF Room, W, WH
<1>10. QED
  BY <1>1, <1>7, <1>8, <1>9 DEF Shows

(* a text of visible characters is on the screen when it is written *)
LEMMA WriteShows ==
  ASSUME NEW t \in Terminals, NEW text \in Seq(Chars), Len(text) > 0,
         \A k \in 1 .. Len(text) : Visible(text[k]),
         NEW max \in Nat, Len(text) <= max, Room(Position(t), max)
  PROVE  LET u == Write(t, text)
         IN  /\ u \in Terminals /\ u.cursor = Position(u)
             /\ \E first \in Nat : Room(first, max) /\ Shows(u, first, text, Len(text))
<1>. DEFINE N == Len(text)
<1>0. N \in Nat /\ N # 0 /\ \A k \in 1 .. N : text[k] \in Chars /\ Visible(text[k])
  OBVIOUS
<1>1. PICK q \in [0 .. N -> Terminals] :
        /\ q[0] = t /\ Write(t, text) = q[N]
        /\ \A k \in 1 .. N : q[k] = terminal_putchar(q[k - 1], text[k])
  BY WriteSteps
<1>. HIDE DEF N
<1>. DEFINE P(n) == /\ n # 0 => q[n].cursor = Position(q[n])
                    /\ \E first \in Nat : Room(first, max) /\ Shows(q[n], first, text, n)
            T == {n \in Nat : n <= N => P(n)}
<1>2. 0 \in T
  <2>1. Shows(t, Position(t), text, 0) /\ Position(t) \in Nat
    BY PositionFacts DEF Shows
  <2>2. QED
    BY <1>1, <2>1
<1>3. ASSUME NEW n \in T PROVE n + 1 \in T
  <2>. SUFFICES ASSUME n + 1 <= N PROVE P(n + 1)
    OBVIOUS
  <2>1. n \in Nat /\ n + 1 \in 1 .. N /\ (n + 1) - 1 = n /\ n < max
    BY <1>0 DEF N
  <2>2. PICK first \in Nat : Room(first, max) /\ Shows(q[n], first, text, n)
    BY <1>0, <2>1
  <2>3. q[n] \in Terminals /\ q[n + 1] = terminal_putchar(q[n], text[n + 1])
    BY <1>0, <1>1, <2>1
  <2>4. /\ q[n + 1].cursor = Position(q[n + 1])
        /\ \E x \in Nat : Room(x, max) /\ Shows(q[n + 1], x, text, n + 1)
    <3>1. text[n + 1] \in Chars /\ Visible(text[n + 1])
      BY <1>0, <2>1
    <3>2. QED
      BY <2>1, <2>2, <2>3, <3>1, ShowOneMore
  <2>5. QED
    BY <2>4
<1>4. T = Nat
  <2>. HIDE DEF T
  <2>1. QED
    BY Zenon, <1>2, <1>3, SetInduction DEF T
<1>5. P(N)
  BY <1>0, <1>4
<1>. HIDE DEF P
<1>6. q[N] \in Terminals
  BY <1>0, <1>1
<1>7. QED
  BY <1>0, <1>1, <1>5, <1>6 DEF P, N

(* a backspace takes the last character of the line off *)
LEMMA ShowOneLess ==
  ASSUME NEW t \in Terminals, NEW start \in Nat, NEW f, NEW n \in Nat,
         Shows(t, start, f, n + 1)
  PROVE  LET u == terminal_putchar(t, BS)
         IN  u \in Terminals /\ u.cursor = Position(u) /\ Shows(u, start, f, n)
<1>. DEFINE s == StepBack(t)
            v == terminal_putentryat(s, Blank)
            u == terminal_update_cursor(v)
<1>0. Blank \in Chars
  BY DEF Chars
<1>1. terminal_putchar(t, BS) = u
  BY DEF terminal_putchar, NL, CR, TAB, BS
<1>2. Position(t) = start + (n + 1) /\ Position(t) > 0
  BY DEF Shows
<1>3. s \in Terminals /\ s.cell = t.cell /\ Position(s) = start + n
  BY <1>2, StepBackFacts
<1>. HIDE DEF s
<1>4. /\ v \in Terminals /\ v.row = s.row /\ v.column = s.column
      /\ v.cell = [s.cell EXCEPT ![Position(s)] = Blank]
  BY <1>0, <1>3, PutEntryFacts
<1>. HIDE DEF v
<1>5. /\ u \in Terminals /\ u.cell = v.cell /\ u.cursor = Position(v)
      /\ Position(u) = Position(v)
  BY <1>4, UpdateCursorFacts
<1>. HIDE DEF u
<1>6. Position(v) = Position(s)
  BY <1>4 DEF Position
<1>7. Position(s) \in Cells
  BY <1>3, PositionFacts
<1>8. ASSUME NEW k \in 1 .. n PROVE u.cell[start + k - 1] = f[k]
  <2>1. start + k - 1 \in Cells \ {Position(s)}
    BY <1>3, <1>7, TerminalAssumption DEF Cells
  <2>2. u.cell[start + k - 1] = s.cell[start + k - 1]
    BY <1>3, <1>4, <1>5, <2>1 DEF Terminals
  <2>3. t.cell[start + k - 1] = f[k]
    BY DEF Shows
  <2>4. QED
    BY <1>3, <2>2, <2>3
<1>9. QED
  BY <1>1, <1>3, <1>5, <1>6, <1>8 DEF Shows

-----------------------------------------------------------------------------
(* Numbers *)

DigitChars == {digits[k] : k \in 1 .. 16}

LEMMA DigitsDiffer ==
  /\ \A j, k \in 1 .. 16 : digits[j] = digits[k] => j = k
  /\ \A k \in 1 .. 16 : digits[k] # "-" /\ digits[k] \notin {NL, CR, BS, TAB}
<1>1. \A k \in 1 .. 16 :
        \/ k = 1 \/ k = 2 \/ k = 3 \/ k = 4 \/ k = 5 \/ k = 6 \/ k = 7 \/ k = 8
        \/ k = 9 \/ k = 10 \/ k = 11 \/ k = 12 \/ k = 13 \/ k = 14 \/ k = 15 \/ k = 16
  OBVIOUS
<1>2. /\ digits[1] = "0" /\ digits[2] = "1" /\ digits[3] = "2" /\ digits[4] = "3"
      /\ digits[5] = "4" /\ digits[6] = "5" /\ digits[7] = "6" /\ digits[8] = "7"
      /\ digits[9] = "8" /\ digits[10] = "9" /\ digits[11] = "a" /\ digits[12] = "b"
      /\ digits[13] = "c" /\ digits[14] = "d" /\ digits[15] = "e" /\ digits[16] = "f"
  BY DEF digits
<1>3. \A k \in 1 .. 16 : digits[k] # "-" /\ digits[k] \notin {NL, CR, BS, TAB}
  BY <1>1, <1>2 DEF NL, CR, BS, TAB
<1>4. \A j, k \in 1 .. 16 : digits[j] = digits[k] => j = k
  BY <1>1, <1>2
<1>5. QED
  BY <1>3, <1>4

(* reading a digit gives back what it was printed for *)
LEMMA DigitReadsBack ==
  ASSUME NEW d \in 0 .. 15
  PROVE  digits[d + 1] \in DigitChars /\ DigitValue(digits[d + 1]) = d
<1>1. d + 1 \in 1 .. 16
  OBVIOUS
<1>2. (CHOOSE k \in 1 .. 16 : digits[k] = digits[d + 1]) = d + 1
  BY <1>1, DigitsDiffer
<1>3. digits[d + 1] \in DigitChars
  BY <1>1 DEF DigitChars
<1>4. DigitValue(digits[d + 1]) = (d + 1) - 1
  BY Zenon, <1>2 DEF DigitValue
<1>5. QED
  BY <1>3, <1>4

LEMMA DivisionFacts ==
  ASSUME NEW base \in {10, 16}, NEW m \in Nat
  PROVE  /\ m \div base \in Nat /\ m % base \in 0 .. 15
         /\ m = base * (m \div base) + (m % base)
         /\ m > 0 => m \div base < m
<1>1. CASE base = 10
  <2>1. m \div 10 \in Nat /\ m % 10 \in 0 .. 9 /\ m = 10 * (m \div 10) + (m % 10)
    OBVIOUS
  <2>2. m > 0 => m \div 10 < m
    BY <2>1
  <2>3. QED
    BY <1>1, <2>1, <2>2
<1>2. CASE base = 16
  <2>1. m \div 16 \in Nat /\ m % 16 \in 0 .. 15 /\ m = 16 * (m \div 16) + (m % 16)
    OBVIOUS
  <2>2. m > 0 => m \div 16 < m
    BY <2>1
  <2>3. QED
    BY <1>2, <2>1, <2>2
<1>3. QED
  BY <1>1, <1>2

(* the last digit of a number *)
LEMMA LastDigit ==
  ASSUME NEW base \in {10, 16}, NEW m \in Nat
  PROVE  /\ digits[(m % base) + 1] \in DigitChars
         /\ DigitValue(digits[(m % base) + 1]) = m % base
<1>1. PICK d \in 0 .. 15 : d = m % base
  BY DivisionFacts
<1>2. QED
  BY <1>1, DigitReadsBack

LEMMA DigitValueType ==
  ASSUME NEW c \in DigitChars
  PROVE  DigitValue(c) \in Nat /\ c \in Chars /\ Visible(c) /\ c # "-"
<1>1. PICK k \in 1 .. 16 : c = digits[k]
  BY DEF DigitChars
<1>2. PICK d \in 0 .. 15 : k = d + 1
  <2>1. k - 1 \in 0 .. 15 /\ k = (k - 1) + 1
    OBVIOUS
  <2>2. QED
    BY <2>1
<1>3. DigitValue(c) \in Nat
  BY <1>1, <1>2, DigitReadsBack
<1>4. c \in Chars
  BY <1>1 DEF Chars
<1>5. QED
  BY <1>1, <1>3, <1>4, DigitsDiffer DEF Visible

(* r has the digits of the numbers up to n *)
Printing(r, base, n) ==
  /\ r \in [0 .. n -> Seq(DigitChars)]
  /\ \A m \in 0 .. n :
       r[m] = IF m = 0 THEN <<>> ELSE Append(r[m \div base], digits[(m % base) + 1])

LEMMA PrintingExists ==
  ASSUME NEW base \in {10, 16}, NEW N \in Nat
  PROVE  \E r : Printing(r, base, N)
<1>. DEFINE T == {n \in Nat : \E r : Printing(r, base, n)}
<1>1. 0 \in T
  <2>1. [m \in 0 .. 0 |-> <<>>] \in [0 .. 0 -> Seq(DigitChars)]
    OBVIOUS
  <2>2. Printing([m \in 0 .. 0 |-> <<>>], base, 0)
    BY <2>1 DEF Printing
  <2>3. QED
    BY <2>2
<1>2. ASSUME NEW n \in T PROVE n + 1 \in T
  <2>1. PICK r : Printing(r, base, n)
    OBVIOUS
  <2>2. n \in Nat /\ r \in [0 .. n -> Seq(DigitChars)]
    BY <2>1 DEF Printing
  <2>3. PICK d : d = Append(r[(n + 1) \div base], digits[((n + 1) % base) + 1])
    BY Zenon
  <2>4. \A m \in 1 .. n + 1 : m \div base \in 0 .. n /\ m \div base < m
    BY <2>2, DivisionFacts
  <2>5. d \in Seq(DigitChars)
    <3>1. digits[((n + 1) % base) + 1] \in DigitChars
      <4>1. n + 1 \in Nat
        BY <2>2
      <4>2. QED
        BY Zenon, <4>1, LastDigit
    <3>2. r[(n + 1) \div base] \in Seq(DigitChars)
      BY <2>2, <2>4
    <3>3. QED
      BY <2>3, <3>1, <3>2
  <2>. DEFINE s == [m \in 0 .. n + 1 |-> IF m = n + 1 THEN d ELSE r[m]]
  <2>6. s \in [0 .. n + 1 -> Seq(DigitChars)]
    BY <2>2, <2>5
  <2>7. \A m \in 0 .. n : s[m] = r[m]
    BY <2>2
  <2>8. s[n + 1] = d
    BY <2>2
  <2>. HIDE DEF s
  <2>9. ASSUME NEW m \in 0 .. n + 1
        PROVE  s[m] = IF m = 0 THEN <<>> ELSE Append(s[m \div base], digits[(m % base) + 1])
    <3>1. CASE m = n + 1
      <4>1. (n + 1) \div base \in 0 .. n /\ n + 1 # 0
        BY <2>2, <2>4
      <4>2. s[(n + 1) \div base] = r[(n + 1) \div base]
        BY <2>7, <4>1
      <4>3. QED
        BY Zenon, <2>3, <2>8, <3>1, <4>1, <4>2
    <3>2. CASE m = 0
      <4>1. 0 \in 0 .. n
        BY <2>2
      <4>2. r[0] = <<>>
        BY Zenon, <2>1, <4>1 DEF Printing
      <4>3. s[0] = <<>>
        BY Zenon, <2>7, <4>1, <4>2
      <4>4. QED
        BY Zenon, <3>2, <4>3
    <3>3. CASE m \in 1 .. n
      <4>1. m \div base \in 0 .. n /\ m # 0 /\ m \in 0 .. n
        BY <2>2, <2>4, <3>3
      <4>2. s[m \div base] = r[m \div base] /\ s[m] = r[m]
        BY <2>7, <4>1
      <4>3. r[m] = Append(r[m \div base], digits[(m % base) + 1])
        BY Zenon, <2>1, <4>1 DEF Printing
      <4>4. QED
        BY <4>1, <4>2, <4>3
    <3>4. QED
      BY <2>2, <3>1, <3>2, <3>3
  <2>10. Printing(s, base, n + 1)
    BY Zenon, <2>6, <2>9 DEF Printing
  <2>11. QED
    BY <2>2, <2>10
<1>. HIDE DEF T
<1>3. T = Nat
  BY Zenon, <1>1, <1>2, SetInduction DEF T
<1>4. QED
  BY <1>3 DEF T

LEMMA PrintUintSteps ==
  ASSUME NEW base \in {10, 16}, NEW n \in Nat
  PROVE  \E r : /\ Printing(r, base, n)
                /\ print_uint(n, base) = IF n = 0 THEN <<digits[1]>> ELSE r[n]
<1>. DEFINE Body(r) == [m \in 0 .. n |-> IF m = 0 THEN <<>>
                          ELSE Append(r[m \div base], digits[(m % base) + 1])]
            rest == CHOOSE r : r = Body(r)
<1>1. PICK r : Printing(r, base, n)
  BY PrintingExists
<1>2. r = Body(r)
  BY Zenon, <1>1 DEF Printing
<1>. HIDE DEF Body
<1>3. rest = Body(rest)
  BY <1>2
<1>4. print_uint(n, base) = IF n = 0 THEN <<digits[1]>> ELSE rest[n]
  BY DEF print_uint, Body
<1>. HIDE DEF rest
<1>5. /\ DOMAIN rest = 0 .. n /\ rest = [m \in 0 .. n |-> rest[m]]
      /\ \A m \in 0 .. n :
           rest[m] = IF m = 0 THEN <<>> ELSE Append(rest[m \div base], digits[(m % base) + 1])
  BY Zenon, <1>3 DEF Body
<1>6. \A m \in 0 .. n : rest[m] \in Seq(DigitChars)
  <2>. DEFINE T == {m \in Nat : m \in 0 .. n /\ rest[m] \notin Seq(DigitChars)}
  <2>. SUFFICES ASSUME T # {} PROVE FALSE
    OBVIOUS
  <2>1. PICK m \in T : \A x \in T : m <= x
    <3>. HIDE DEF T
    <3>1. T \in SUBSET Nat
      BY DEF T
    <3>2. QED
      BY <3>1, LeastElement
  <2>2. m \in 0 .. n /\ m \in Nat /\ rest[m] \notin Seq(DigitChars)
    OBVIOUS
  <2>3. m # 0
    BY <1>5, <2>2
  <2>4. /\ m \div base \in Nat /\ m \div base < m
        /\ digits[(m % base) + 1] \in DigitChars
    BY <2>2, <2>3, DivisionFacts, LastDigit
  <2>5. rest[m \div base] \in Seq(DigitChars)
    <3>1. m \div base \notin T
      BY <2>1, <2>2, <2>4
    <3>2. QED
      BY <2>2, <2>4, <3>1
  <2>6. rest[m] \in Seq(DigitChars)
    <3>1. rest[m] = Append(rest[m \div base], digits[(m % base) + 1])
      BY Zenon, <1>5, <2>2, <2>3
    <3>2. QED
      BY <2>4, <2>5, <3>1
  <2>7. QED
    BY <2>2, <2>6
<1>7. rest \in [0 .. n -> Seq(DigitChars)]
  BY <1>5, <1>6
<1>8. Printing(rest, base, n)
  BY Zenon, <1>5, <1>7 DEF Printing
<1>9. QED
  BY <1>4, <1>8

(* print_uint prints at least one digit *)
LEMMA PrintUintType ==
  ASSUME NEW base \in {10, 16}, NEW n \in Nat
  PROVE  print_uint(n, base) \in Seq(DigitChars) /\ Len(print_uint(n, base)) > 0
<1>1. PICK r : /\ Printing(r, base, n)
               /\ print_uint(n, base) = IF n = 0 THEN <<digits[1]>> ELSE r[n]
  BY PrintUintSteps
<1>2. CASE n = 0
  <2>1. digits[1] \in DigitChars
    BY DEF DigitChars
  <2>2. QED
    BY <1>1, <1>2, <2>1
<1>3. CASE n # 0
  <2>1. /\ print_uint(n, base) = r[n] /\ r[n] \in Seq(DigitChars)
        /\ r[n] = Append(r[n \div base], digits[(n % base) + 1])
    BY <1>1, <1>3 DEF Printing
  <2>2. n \div base \in 0 .. n /\ digits[(n % base) + 1] \in DigitChars
    BY <1>3, DivisionFacts, LastDigit
  <2>3. r[n \div base] \in Seq(DigitChars)
    BY <1>1, <2>2 DEF Printing
  <2>4. QED
    BY <2>1, <2>2, <2>3
<1>4. QED
  BY <1>2, <1>3

(* the value of a number grows digit by digit *)
Reading(v, text, base) ==
  /\ v \in [0 .. Len(text) -> Nat] /\ v[0] = 0
  /\ \A k \in 1 .. Len(text) : v[k] = base * v[k - 1] + DigitValue(text[k])

LEMMA MagnitudeSteps ==
  ASSUME NEW base \in {10, 16}, NEW text \in Seq(DigitChars)
  PROVE  \E v : Reading(v, text, base) /\ Magnitude(text, base) = v[Len(text)]
<1>. DEFINE N == Len(text)
            g == [x \in Nat \X DigitChars |-> base * x[1] + DigitValue(x[2])]
            Body(v) == [n \in 0 .. N |-> IF n = 0 THEN 0
                          ELSE base * v[n - 1] + DigitValue(text[n])]
            value == CHOOSE v : v = Body(v)
<1>0. N \in Nat /\ \A k \in 1 .. N : text[k] \in DigitChars
  OBVIOUS
<1>1. ASSUME NEW a \in Nat, NEW c \in DigitChars PROVE base * a + DigitValue(c) \in Nat
  <2>1. PICK d \in Nat : d = DigitValue(c)
    BY DigitValueType
  <2>2. base * a \in Nat
    OBVIOUS
  <2>3. QED
    BY <2>1, <2>2
<1>2. /\ g \in [Nat \X DigitChars -> Nat]
      /\ \A a \in Nat, c \in DigitChars : g[<<a, c>>] = base * a + DigitValue(c)
  BY Zenon, <1>1
<1>. HIDE DEF N, g
<1>3. PICK r : Folds(r, Nat, DigitChars, g, 0, text, N)
  BY Zenon, <1>0, <1>2, FoldExists
<1>4. r = Body(r)
  <2>1. ASSUME NEW k \in 0 .. N PROVE r[k] = Body(r)[k]
    <3>1. CASE k = 0
      BY <1>3, <3>1 DEF Folds
    <3>2. CASE k # 0
      <4>1. k \in 1 .. N /\ k - 1 \in 0 .. N
        BY <1>0, <3>2
      <4>2. r[k - 1] \in Nat /\ r[k] = g[<<r[k - 1], text[k]>>]
        BY <1>3, <4>1 DEF Folds
      <4>3. r[k] = base * r[k - 1] + DigitValue(text[k])
        BY <1>0, <1>2, <4>1, <4>2
      <4>4. QED
        BY <3>2, <4>3
    <3>3. QED
      BY <3>1, <3>2
  <2>2. QED
    BY <1>3, <2>1 DEF Folds
<1>. HIDE DEF Body
<1>5. value = Body(value)
  BY <1>4
<1>6. Magnitude(text, base) = value[N]
  BY DEF Magnitude, Body, N
<1>. HIDE DEF value
<1>7. DOMAIN value = 0 .. N /\ value = [n \in 0 .. N |-> value[n]]
  BY <1>5 DEF Body
<1>8. value[0] = 0
  BY <1>0, <1>5 DEF Body
<1>9. ASSUME NEW k \in 1 .. N PROVE value[k] = base * value[k - 1] + DigitValue(text[k])
  <2>1. k \in 0 .. N /\ k # 0
    BY <1>0
  <2>2. value[k] = Body(value)[k]
    BY <1>5
  <2>3. QED
    BY <2>1, <2>2 DEF Body
<1>. DEFINE T == {n \in Nat : n <= N => value[n] \in Nat}
<1>10. 0 \in T
  BY <1>8
<1>11. ASSUME NEW n \in T PROVE n + 1 \in T
  <2>. SUFFICES ASSUME n + 1 <= N PROVE value[n + 1] \in Nat
    OBVIOUS
  <2>1. n \in Nat /\ n + 1 \in 1 .. N /\ (n + 1) - 1 = n /\ value[n] \in Nat
    BY <1>0
  <2>2. value[n + 1] = base * value[n] + DigitValue(text[n + 1]) /\ text[n + 1] \in DigitChars
    BY <1>0, <1>9, <2>1
  <2>3. QED
    BY Zenon, <1>1, <2>1, <2>2
<1>12. T = Nat
  <2>. HIDE DEF T
  <2>1. QED
    BY Zenon, <1>10, <1>11, SetInduction DEF T
<1>13. \A n \in 0 .. N : value[n] \in Nat
  BY <1>0, <1>12
<1>14. value \in [0 .. N -> Nat]
  BY <1>7, <1>13
<1>15. QED
  BY <1>6, <1>8, <1>9, <1>14 DEF N, Reading

LEMMA MagnitudeAppend ==
  ASSUME NEW base \in {10, 16}, NEW s \in Seq(DigitChars), NEW c \in DigitChars
  PROVE  Magnitude(Append(s, c), base) = base * Magnitude(s, base) + DigitValue(c)
<1>1. PICK text \in Seq(DigitChars) : text = Append(s, c)
  <2>1. Append(s, c) \in Seq(DigitChars)
    OBVIOUS
  <2>2. QED
    BY Zenon, <2>1
<1>2. PICK N \in Nat : N = Len(s)
  OBVIOUS
<1>3. Len(text) = N + 1 /\ text[N + 1] = c /\ \A k \in 1 .. N : text[k] = s[k]
  BY <1>1, <1>2
<1>4. PICK v : Reading(v, s, base) /\ Magnitude(s, base) = v[N]
  BY <1>2, MagnitudeSteps
<1>5. PICK w : Reading(w, text, base) /\ Magnitude(text, base) = w[N + 1]
  BY <1>3, MagnitudeSteps
<1>. DEFINE T == {n \in Nat : n <= N => w[n] = v[n]}
<1>6. 0 \in T
  BY <1>4, <1>5 DEF Reading
<1>7. ASSUME NEW n \in T PROVE n + 1 \in T
  <2>. SUFFICES ASSUME n + 1 <= N PROVE w[n + 1] = v[n + 1]
    OBVIOUS
  <2>1. n \in Nat /\ n + 1 \in 1 .. N /\ n + 1 \in 1 .. N + 1 /\ (n + 1) - 1 = n /\ w[n] = v[n]
    OBVIOUS
  <2>2. v[n + 1] = base * v[n] + DigitValue(s[n + 1])
    BY <1>2, <1>4, <2>1 DEF Reading
  <2>3. w[n + 1] = base * w[n] + DigitValue(text[n + 1])
    BY Zenon, <1>3, <1>5, <2>1 DEF Reading
  <2>4. text[n + 1] = s[n + 1]
    BY <1>3, <2>1
  <2>5. QED
    BY <2>1, <2>2, <2>3, <2>4
<1>8. T = Nat
  <2>. HIDE DEF T
  <2>1. QED
    BY Zenon, <1>6, <1>7, SetInduction DEF T
<1>9. w[N] = v[N]
  BY <1>8
<1>10. w[N + 1] = base * w[N] + DigitValue(c)
  <2>1. N + 1 \in 1 .. N + 1 /\ (N + 1) - 1 = N
    OBVIOUS
  <2>2. QED
    BY <1>3, <1>5, <2>1 DEF Reading
<1>11. QED
  BY <1>1, <1>4, <1>5, <1>9, <1>10

(* a printed unsigned number reads back, whatever its size *)
LEMMA PrintUintReadsBack ==
  ASSUME NEW base \in {10, 16}, NEW n \in Nat
  PROVE  Magnitude(print_uint(n, base), base) = n
<1>1. PICK r : /\ Printing(r, base, n)
               /\ print_uint(n, base) = IF n = 0 THEN <<digits[1]>> ELSE r[n]
  BY PrintUintSteps
<1>2. Magnitude(<<>>, base) = 0
  <2>1. PICK e \in Seq(DigitChars) : e = <<>>
    <3>1. <<>> \in Seq(DigitChars)
      OBVIOUS
    <3>2. QED
      BY Zenon, <3>1
  <2>2. PICK v : Reading(v, e, base) /\ Magnitude(e, base) = v[Len(e)]
    BY MagnitudeSteps
  <2>3. Len(e) = 0
    BY <2>1
  <2>4. QED
    BY <2>1, <2>2, <2>3 DEF Reading
<1>3. \A m \in 0 .. n : Magnitude(r[m], base) = m
  <2>. DEFINE T == {m \in Nat : m \in 0 .. n /\ Magnitude(r[m], base) # m}
  <2>. SUFFICES ASSUME T # {} PROVE FALSE
    OBVIOUS
  <2>1. PICK m \in T : \A x \in T : m <= x
    <3>. HIDE DEF T
    <3>1. T \in SUBSET Nat
      BY DEF T
    <3>2. QED
      BY <3>1, LeastElement
  <2>2. m \in 0 .. n /\ m \in Nat /\ Magnitude(r[m], base) # m
    OBVIOUS
  <2>3. m # 0
    BY <1>1, <1>2, <2>2 DEF Printing
  <2>4. PICK d \in Nat : d = m \div base
    BY <2>2, DivisionFacts
  <2>5. d < m /\ d \in 0 .. n /\ m = base * d + (m % base)
    BY <2>2, <2>3, <2>4, DivisionFacts
  <2>6. Magnitude(r[d], base) = d
    BY <2>1, <2>2, <2>5
  <2>7. r[m] = Append(r[d], digits[(m % base) + 1]) /\ r[d] \in Seq(DigitChars)
    BY Zenon, <1>1, <2>2, <2>3, <2>4, <2>5 DEF Printing
  <2>8. Magnitude(r[m], base) = base * d + (m % base)
    <3>1. PICK c \in DigitChars : c = digits[(m % base) + 1] /\ DigitValue(c) = m % base
      BY Zenon, <2>2, LastDigit
    <3>2. Magnitude(Append(r[d], c), base) = base * Magnitude(r[d], base) + DigitValue(c)
      BY Zenon, <2>7, MagnitudeAppend
    <3>3. QED
      BY Zenon, <2>6, <2>7, <3>1, <3>2
  <2>9. QED
    BY <2>2, <2>5, <2>8
<1>4. CASE n # 0
  BY <1>1, <1>3, <1>4
<1>5. CASE n = 0
  <2>1. digits[0 + 1] \in DigitChars /\ DigitValue(digits[0 + 1]) = 0
    BY DigitReadsBack
  <2>2. PICK c \in DigitChars : c = digits[1] /\ DigitValue(c) = 0
    BY <2>1
  <2>3. <<c>> = Append(<<>>, c) /\ <<>> \in Seq(DigitChars)
    OBVIOUS
  <2>4. Magnitude(Append(<<>>, c), base) = base * 0 + 0
    <3>1. Magnitude(Append(<<>>, c), base) = base * Magnitude(<<>>, base) + DigitValue(c)
      BY Zenon, <2>3, MagnitudeAppend
    <3>2. QED
      BY Zenon, <1>2, <2>2, <3>1
  <2>5. base * 0 + 0 = 0
    OBVIOUS
  <2>6. QED
    BY <1>1, <1>5, <2>2, <2>3, <2>4, <2>5
<1>6. QED
  BY <1>4, <1>5

LEMMA UnsignedType ==
  ASSUME NEW n \in Int
  PROVE  /\ Unsigned(n) \in Nat
         /\ n \in 0 .. INT_MAX + 1 => Unsigned(n) = n
<1>1. PICK w \in Nat \ {0} : w = 2 * (INT_MAX + 1)
  BY TerminalAssumption
<1>2. n % w \in Nat
  OBVIOUS
<1>3. n \in 0 .. INT_MAX + 1 => 0 <= n /\ n < w
  BY <1>1, TerminalAssumption
<1>4. 0 <= n /\ n < w => n % w = n
  OBVIOUS
<1>5. QED
  BY <1>1, <1>2, <1>3, <1>4 DEF Unsigned

(* digits, with or without a sign *)
LEMMA PrintIntType ==
  ASSUME NEW n \in Int
  PROVE  /\ print_int(n) \in Seq(Chars) /\ Len(print_int(n)) > 0
         /\ \A k \in 1 .. Len(print_int(n)) : Visible(print_int(n)[k])
<1>0. "-" \in Chars /\ Visible("-")
  BY DEF Chars, Visible, NL, CR, BS, TAB
<1>1. CASE n < 0
  <2>0. -n \in Int
    OBVIOUS
  <2>1. PICK s \in Seq(DigitChars) : s = print_uint(Unsigned(-n), 10) /\ Len(s) > 0
    <3>1. PICK m \in Nat : m = Unsigned(-n)
      BY Zenon, <2>0, UnsignedType
    <3>2. QED
      BY <3>1, PrintUintType
  <2>2. print_int(n) = <<"-">> \o s
    BY <1>1, <2>1 DEF print_int
  <2>3. PICK x : x = <<"-">> \o s
    BY Zenon
  <2>4. Len(x) = Len(s) + 1 /\ x[1] = "-" /\ \A k \in 2 .. Len(x) : x[k] = s[k - 1]
    BY <2>3
  <2>5. \A k \in 1 .. Len(x) : x[k] \in Chars /\ Visible(x[k])
    <3>1. \A k \in 2 .. Len(x) : x[k] \in DigitChars
      BY <2>4
    <3>2. QED
      BY <1>0, <2>4, <3>1, DigitValueType
  <2>6. x \in Seq(Chars)
    <3>1. x \in Seq(DigitChars \cup {"-"})
      BY <2>3
    <3>2. DigitChars \cup {"-"} \subseteq Chars
      BY <1>0, DigitValueType
    <3>3. QED
      BY <3>1, <3>2
  <2>7. QED
    BY <2>1, <2>2, <2>3, <2>4, <2>5, <2>6
<1>2. CASE ~(n < 0)
  <2>1. PICK s \in Seq(DigitChars) : s = print_uint(n, 10) /\ Len(s) > 0
    BY <1>2, PrintUintType
  <2>2. print_int(n) = s
    BY <1>2, <2>1 DEF print_int
  <2>3. \A k \in 1 .. Len(s) : Visible(s[k])
    BY DigitValueType
  <2>4. DigitChars \subseteq Chars
    BY DigitValueType
  <2>5. QED
    BY <2>1, <2>2, <2>3, <2>4
<1>3. QED
  BY <1>1, <1>2

LEMMA PrintUnsignedType ==
  ASSUME NEW n \in Int, NEW base \in {10, 16}
  PROVE  LET s == print_uint(Unsigned(n), base)
         IN  s \in Seq(Chars) /\ Len(s) > 0 /\ \A k \in 1 .. Len(s) : Visible(s[k])
<1>1. PICK s \in Seq(DigitChars) : s = print_uint(Unsigned(n), base) /\ Len(s) > 0
  BY Zenon, UnsignedType, PrintUintType
<1>2. \A k \in 1 .. Len(s) : Visible(s[k])
  BY DigitValueType
<1>3. DigitChars \subseteq Chars
  BY DigitValueType
<1>4. QED
  BY <1>1, <1>2, <1>3

(* every directive gives a text *)
LEMMA FormattedType ==
  ASSUME NEW item, WellFormed(item)
  PROVE  Formatted(item) \in Seq(Chars)
<1>1. CASE item.verb \in {"text", "s"}
  BY <1>1 DEF WellFormed, Formatted
<1>2. CASE item.verb = "d"
  <2>1. item.arg \in Int /\ Formatted(item) = print_int(item.arg)
    BY <1>2 DEF WellFormed, Formatted
  <2>2. QED
    BY Zenon, <2>1, PrintIntType
<1>3. CASE item.verb = "u"
  <2>1. item.arg \in Int /\ Formatted(item) = print_uint(Unsigned(item.arg), 10)
    BY <1>3 DEF WellFormed, Formatted
  <2>2. QED
    BY Zenon, <2>1, PrintUnsignedType
<1>4. CASE item.verb = "x"
  <2>1. item.arg \in Int /\ Formatted(item) = <<"0", "x">> \o print_uint(Unsigned(item.arg), 16)
    BY <1>4 DEF WellFormed, Formatted
  <2>2. print_uint(Unsigned(item.arg), 16) \in Seq(Chars)
    BY Zenon, <2>1, PrintUnsignedType
  <2>3. "0" \in Chars /\ "x" \in Chars
    <3>1. digits[1] = "0"
      BY DEF digits
    <3>2. QED
      BY <3>1 DEF Chars
  <2>4. <<"0", "x">> \in Seq(Chars)
    BY <2>3
  <2>5. QED
    BY <2>1, <2>2, <2>4
<1>5. CASE item.verb = "c"
  <2>1. item.arg \in Chars /\ Formatted(item) = <<item.arg>>
    BY <1>5 DEF WellFormed, Formatted
  <2>2. QED
    BY <2>1
<1>6. CASE item.verb \notin {"text", "s", "d", "u", "x", "c"}
  <2>1. item.verb \in Chars /\ "%" \in Chars
    BY <1>6 DEF WellFormed, Chars
  <2>2. Formatted(item) = <<"%">> \/ Formatted(item) = <<"%", item.verb>>
    BY <1>6 DEF Formatted
  <2>3. <<"%">> \in Seq(Chars) /\ <<"%", item.verb>> \in Seq(Chars)
    BY <2>1
  <2>4. QED
    BY Zenon, <2>2, <2>3
<1>7. QED
  BY <1>1, <1>2, <1>3, <1>4, <1>5, <1>6

(* what %d, %u and %x print reads back *)
LEMMA FormattedReadsBack ==
  ASSUME NEW n \in -(INT_MAX + 1) .. INT_MAX, NEW verb \in {"d", "u", "x"}
  PROVE  ReadBack(verb, Formatted([verb |-> verb, arg |-> n]))
           = IF verb = "d" THEN n ELSE Unsigned(n)
<1>. DEFINE item == [verb |-> verb, arg |-> n]
<1>0. n \in Int /\ INT_MAX \in Nat
  BY TerminalAssumption
<1>1. PICK m \in Nat : m = Unsigned(n)
  BY Zenon, <1>0, UnsignedType
<1>2. CASE verb = "u"
  <2>1. Formatted(item) = print_uint(m, 10)
    BY <1>1, <1>2 DEF Formatted
  <2>2. ReadBack(verb, Formatted(item)) = Magnitude(Formatted(item), 10)
    BY <1>2 DEF ReadBack
  <2>3. Magnitude(print_uint(m, 10), 10) = m
    BY PrintUintReadsBack
  <2>4. QED
    BY Zenon, <1>1, <1>2, <2>1, <2>2, <2>3
<1>3. CASE verb = "x"
  <2>1. PICK s \in Seq(DigitChars) : s = print_uint(m, 16) /\ Magnitude(s, 16) = m
    BY Zenon, PrintUintType, PrintUintReadsBack
  <2>2. Formatted(item) = <<"0", "x">> \o s
    BY <1>1, <1>3, <2>1 DEF Formatted
  <2>3. Tail(Tail(<<"0", "x">> \o s)) = s
    OBVIOUS
  <2>4. ReadBack(verb, Formatted(item)) = Magnitude(Tail(Tail(Formatted(item))), 16)
    BY <1>3 DEF ReadBack
  <2>5. QED
    BY Zenon, <1>1, <1>3, <2>1, <2>2, <2>3, <2>4
<1>4. CASE verb = "d"
  <2>1. Formatted(item) = print_int(n)
    BY <1>4 DEF Formatted
  <2>2. CASE n < 0
    <3>1. Unsigned(-n) = -n /\ -n \in Nat
      BY <1>0, <2>2, UnsignedType
    <3>2. PICK s \in Seq(DigitChars) : s = print_uint(-n, 10) /\ Magnitude(s, 10) = -n
      BY <3>1, PrintUintType, PrintUintReadsBack
    <3>3. print_int(n) = <<"-">> \o s
      BY <2>2, <3>1, <3>2 DEF print_int
    <3>4. (<<"-">> \o s)[1] = "-" /\ Tail(<<"-">> \o s) = s
      OBVIOUS
    <3>5. ReadBack("d", <<"-">> \o s) = -Magnitude(s, 10)
      BY <3>4 DEF ReadBack
    <3>6. ReadBack("d", print_int(n)) = -(-n)
      BY Zenon, <3>2, <3>3, <3>5
    <3>7. -(-n) = n
      BY <1>0
    <3>8. QED
      BY Zenon, <1>4, <2>1, <3>6, <3>7
  <2>3. CASE ~(n < 0)
    <3>1. n \in Nat /\ print_int(n) = print_uint(n, 10)
      BY <1>0, <2>3 DEF print_int
    <3>2. PICK s \in Seq(DigitChars) : s = print_uint(n, 10) /\ Len(s) > 0 /\ Magnitude(s, 10) = n
      BY Zenon, <3>1, PrintUintType, PrintUintReadsBack
    <3>3. s[1] \in DigitChars
      BY <3>2
    <3>4. s[1] # "-"
      BY <3>3, DigitValueType
    <3>5. ReadBack("d", s) = Magnitude(s, 10)
      BY <3>4 DEF ReadBack
    <3>6. QED
      BY Zenon, <1>4, <2>1, <3>1, <3>2, <3>5
  <2>4. QED
    BY <2>2, <2>3
<1>5. QED
  BY <1>2, <1>3, <1>4

-----------------------------------------------------------------------------
(* The console *)

LineMax == Len(Prompt) + SHELL_BUFFER_SIZE - 1

(* the prompt and the first n characters of a buffer *)
Line(b, n) ==
  [k \in 1 .. Len(Prompt) + n |-> IF k <= Len(Prompt) THEN Prompt[k] ELSE b[k - Len(Prompt) - 1]]

(* the string in the buffer ends at buffer_pos, whatever is behind it *)
StringEnds ==
  /\ buffer[buffer_pos] = NUL
  /\ \A m \in 0 .. buffer_pos - 1 : buffer[m] \in Chars /\ buffer[m] # NUL

(* The line is on the screen, and where it cannot scroll off before the    *)
(* buffer is full: this is what ShownIsExecuted needs to survive a scroll. *)
LineShown ==
  /\ term.cursor = Position(term)
  /\ \E start \in Nat :
       /\ Room(start, LineMax)
       /\ Shows(term, start, Line(buffer, buffer_pos), Len(Prompt) + buffer_pos)

ConsoleInv ==
  /\ TypeOK /\ StringEnds
  /\ ~tabbed => LineShown
  /\ NoStuckShift

LEMMA PromptFacts ==
  /\ Prompt \in Seq(Chars) /\ Len(Prompt) \in Nat /\ Len(Prompt) > 0
  /\ \A k \in 1 .. Len(Prompt) : Visible(Prompt[k])
  /\ LineMax \in Nat /\ LineMax < VGA_WIDTH * VGA_HEIGHT
  /\ Len(Prompt) < LineMax
  /\ SHELL_BUFFER_SIZE \in Nat /\ SHELL_BUFFER_SIZE > 1
<1>1. /\ Prompt \in Seq(Chars) /\ Len(Prompt) \in Nat /\ Len(Prompt) > 0
      /\ SHELL_BUFFER_SIZE \in Nat /\ SHELL_BUFFER_SIZE > 1
  BY ConsoleAssumption
<1>2. \A k \in 1 .. Len(Prompt) : Prompt[k] \in Chars
  BY <1>1
<1>3. \A k \in 1 .. Len(Prompt) : Visible(Prompt[k])
  BY <1>2, ConsoleAssumption DEF Visible
<1>4. LineMax \in Nat /\ Len(Prompt) < LineMax
  BY <1>1 DEF LineMax
<1>5. LineMax < VGA_WIDTH * VGA_HEIGHT
  BY ConsoleAssumption DEF LineMax
<1>6. QED
  BY <1>1, <1>3, <1>4, <1>5

(* a new line with the prompt *)
LEMMA Prompted ==
  ASSUME NEW t \in Terminals
  PROVE  LET u == shell_prompt(terminal_putchar(t, NL))
         IN  /\ u \in Terminals /\ u.cursor = Position(u)
             /\ \E first \in Nat :
                  Room(first, LineMax) /\ Shows(u, first, Prompt, Len(Prompt))
<1>1. PICK v : v = terminal_putchar(t, NL)
  OBVIOUS
<1>2. v = NextRow(t)
  BY <1>1 DEF terminal_putchar, NL, CR, TAB, BS
<1>3. v \in Terminals /\ v.column = 0
  BY <1>2, NextRowFacts
<1>4. Room(Position(v), LineMax)
  <2>1. v.row \in Nat /\ VGA_WIDTH \in Nat
    BY <1>3, PositionFacts, TerminalAssumption
  <2>2. PICK r \in Nat : r = v.row
    BY <2>1
  <2>3. r * VGA_WIDTH \in Nat
    BY <2>1
  <2>4. Position(v) = r * VGA_WIDTH
    BY <1>3, <2>2, <2>3 DEF Position
  <2>5. QED
    BY <2>4, PromptFacts DEF Room
<1>5. Formatted(Text(Prompt)) = Prompt
  BY DEF Formatted, Text
<1>6. shell_prompt(v) = Write(v, Prompt)
  BY <1>3, <1>5, PromptFacts, KprintfOne DEF shell_prompt
<1>7. Len(Prompt) <= LineMax
  BY PromptFacts
<1>8. QED
  BY <1>1, <1>3, <1>4, <1>6, <1>7, PromptFacts, WriteShows

LEMMA ShowsSame ==
  ASSUME NEW t, NEW start, NEW f, NEW n, Shows(t, start, f, n),
         NEW g, \A k \in 1 .. n : g[k] = f[k]
  PROVE  Shows(t, start, g, n)
BY DEF Shows

(* the line after an empty one or a command *)
LEMMA NewLine ==
  ASSUME NEW t \in Terminals, term' = shell_prompt(terminal_putchar(t, NL)),
         buffer_pos' = 0
  PROVE  term' \in Terminals /\ LineShown'
<1>1. PICK u : u = shell_prompt(terminal_putchar(t, NL))
  OBVIOUS
<1>2. u \in Terminals /\ u.cursor = Position(u)
  BY <1>1, Prompted
<1>3. PICK first \in Nat : Room(first, LineMax) /\ Shows(u, first, Prompt, Len(Prompt))
  BY <1>1, Prompted
<1>4. PICK b : b = buffer'
  OBVIOUS
<1>5. \A k \in 1 .. Len(Prompt) : Line(b, 0)[k] = Prompt[k]
  BY PromptFacts DEF Line
<1>6. Shows(u, first, Line(b, 0), Len(Prompt) + 0)
  <2>1. Len(Prompt) + 0 = Len(Prompt)
    BY PromptFacts
  <2>2. QED
    BY <1>3, <1>5, <2>1, ShowsSame
<1>7. term' = u
  BY <1>1
<1>8. LineShown'
  BY <1>2, <1>3, <1>4, <1>6, <1>7 DEF LineShown
<1>9. QED
  BY <1>2, <1>7, <1>8

LEMMA InitConsoleInv == Init => ConsoleInv
<1>. SUFFICES ASSUME Init PROVE ConsoleInv
  OBVIOUS
<1>1. PICK u : u = shell_prompt(terminal_putchar(terminal_initialize, NL))
  OBVIOUS
<1>2. u \in Terminals /\ u.cursor = Position(u)
  BY <1>1, InitializeType, Prompted
<1>3. PICK first \in Nat : Room(first, LineMax) /\ Shows(u, first, Prompt, Len(Prompt))
  BY <1>1, InitializeType, Prompted
<1>4. \A k \in 1 .. Len(Prompt) : Line(buffer, 0)[k] = Prompt[k]
  BY PromptFacts DEF Line
<1>5. Shows(u, first, Line(buffer, 0), Len(Prompt) + 0)
  <2>1. Len(Prompt) + 0 = Len(Prompt)
    BY PromptFacts
  <2>2. QED
    BY <1>3, <1>4, <2>1, ShowsSame
<1>6. term = u /\ buffer_pos = 0
  BY <1>1 DEF Init
<1>7. LineShown
  BY <1>2, <1>3, <1>5, <1>6 DEF LineShown
<1>8. buffer_pos \in 0 .. SHELL_BUFFER_SIZE - 1
  BY <1>6, PromptFacts
<1>9. buffer \in [0 .. SHELL_BUFFER_SIZE - 1 -> Chars \cup {NUL}]
  BY DEF Init
<1>10. TypeOK
  BY Zenon, <1>2, <1>6, <1>8, <1>9 DEF TypeOK, Init
<1>11. StringEnds
  BY <1>6, <1>8 DEF StringEnds, Init
<1>12. QED
  BY <1>7, <1>10, <1>11 DEF ConsoleInv, NoStuckShift, Init

(* the C string is what was typed *)
LEMMA CStringIs ==
  ASSUME TypeOK, StringEnds
  PROVE  CString = [k \in 1 .. buffer_pos |-> buffer[k - 1]]
<1>. DEFINE End(n) == buffer[n] = NUL /\ \A m \in 0 .. n - 1 : buffer[m] # NUL
<1>1. buffer_pos \in Nat /\ buffer_pos \in DOMAIN buffer /\ DOMAIN buffer \subseteq Nat
  BY PromptFacts DEF TypeOK
<1>2. End(buffer_pos)
  BY DEF StringEnds
<1>3. ASSUME NEW n \in DOMAIN buffer, End(n) PROVE n = buffer_pos
  <2>1. n \in Nat
    BY <1>1
  <2>2. ~(n < buffer_pos)
    BY <1>1, <1>3, <2>1 DEF StringEnds
  <2>3. ~(buffer_pos < n)
    BY <1>1, <1>2, <1>3, <2>1
  <2>4. QED
    BY <1>1, <2>1, <2>2, <2>3
<1>. HIDE DEF End
<1>4. (CHOOSE n \in DOMAIN buffer : End(n)) = buffer_pos
  BY <1>1, <1>2, <1>3
<1>5. QED
  BY Zenon, <1>4 DEF CString, End

-----------------------------------------------------------------------------
(* Every key preserves the invariant. *)

(* what the tables give *)
LEMMA ScancodeChars ==
  ASSUME NEW s
  PROVE  /\ scancode_table(s) \in {BS, TAB, NL, "*", Blank, NUL, "a"}
         /\ scancode_table_shifted(s) \in {BS, TAB, NL, "*", Blank, NUL, "a", "A"}
BY DEF scancode_table, scancode_table_shifted

LEMMA TypedChars ==
  ASSUME NEW c \in {BS, TAB, NL, "*", Blank, NUL, "a", "A"}, c \notin {NL, BS, NUL}
  PROVE  c \in Chars /\ c # NUL /\ (c # TAB => Visible(c))
<1>1. c \in {TAB, "*", Blank, "a", "A"}
  OBVIOUS
<1>2. "a" \in Chars
  <2>1. digits[11] = "a"
    BY DEF digits
  <2>2. QED
    BY <2>1 DEF Chars
<1>3. c \in Chars
  BY <1>1, <1>2 DEF Chars
<1>4. c # TAB => c \notin {NL, CR, BS, TAB}
  BY Zenon, <1>1 DEF NL, CR, BS, TAB, Blank
<1>5. QED
  BY <1>3, <1>4 DEF Visible

(* what a command prints *)
LEMMA PrintedType ==
  ASSUME TypeOK, StringEnds, NEW t \in Terminals, NEW u \in Printed(t)
  PROVE  u \in Terminals
<1>1. CASE u = terminal_initialize
  BY <1>1, InitializeType
<1>2. CASE \E reply \in Replies : u = kprintf(t, reply)
  <2>1. PICK reply \in Replies : u = kprintf(t, reply)
    BY <1>2
  <2>2. Len(reply) \in Nat /\ \A k \in 1 .. Len(reply) : WellFormed(reply[k])
    BY RepliesAssumption
  <2>3. \A k \in 1 .. Len(reply) : Formatted(reply[k]) \in Seq(Chars)
    BY <2>2, FormattedType
  <2>4. QED
    BY <2>1, <2>2, <2>3, KprintfType
<1>3. CASE u = kprintf(t, <<[verb |-> "s", arg |-> CString]>>)
  <2>1. CString \in Seq(Chars)
    <3>1. buffer_pos \in Nat
      BY PromptFacts DEF TypeOK
    <3>2. \A k \in 1 .. buffer_pos : buffer[k - 1] \in Chars
      BY <3>1 DEF StringEnds
    <3>3. QED
      BY <3>1, <3>2, CStringIs
  <2>2. PICK item : item = [verb |-> "s", arg |-> CString]
    BY Zenon
  <2>3. Formatted(item) = CString
    BY <2>2 DEF Formatted
  <2>4. kprintf(t, <<item>>) = Write(t, CString)
    BY <2>1, <2>3, KprintfOne
  <2>5. QED
    BY <1>3, <2>1, <2>2, <2>4, WriteType
<1>4. QED
  BY <1>1, <1>2, <1>3 DEF Printed

(* the variables of the line editor *)
EditorInv ==
  /\ tabbed \in BOOLEAN
  /\ buffer_pos \in 0 .. SHELL_BUFFER_SIZE - 1
  /\ buffer \in [0 .. SHELL_BUFFER_SIZE - 1 -> Chars \cup {NUL}]
  /\ term \in Terminals
  /\ StringEnds /\ (~tabbed => LineShown)

LEMMA ExecuteKeeps ==
  ASSUME ConsoleInv, shell_execute
  PROVE  EditorInv'
<1>0. TypeOK /\ StringEnds /\ term \in Terminals /\ tabbed' = FALSE
  BY DEF ConsoleInv, TypeOK, shell_execute
<1>1. NL \in Chars
  BY DEF Chars
<1>2. PICK v \in Terminals : v = terminal_putchar(term, NL)
  BY <1>0, <1>1, PutcharType
<1>3. CASE EmptyLine
  <2>1. buffer_pos' = 0 /\ buffer' = buffer /\ buffer_pos = 0
    BY <1>3 DEF EmptyLine
  <2>2. term' \in Terminals /\ LineShown'
    BY <1>0, <1>3, <2>1, NewLine DEF EmptyLine
  <2>3. StringEnds'
    BY <1>0, <2>1 DEF StringEnds
  <2>4. QED
    BY Zenon, <1>0, <2>1, <2>2, <2>3 DEF EditorInv, TypeOK
<1>4. CASE Command
  <2>1. buffer_pos' = 0 /\ buffer' = [buffer EXCEPT ![0] = NUL]
    BY <1>4 DEF Command, ClearLine
  <2>2. PICK t \in Printed(v) : term' = shell_prompt(terminal_putchar(t, NL))
    BY <1>2, <1>4 DEF Command
  <2>3. t \in Terminals
    BY <1>0, <1>2, PrintedType
  <2>4. term' \in Terminals /\ LineShown'
    BY <2>1, <2>2, <2>3, NewLine
  <2>5. 0 \in 0 .. SHELL_BUFFER_SIZE - 1
    BY PromptFacts
  <2>6. buffer' \in [0 .. SHELL_BUFFER_SIZE - 1 -> Chars \cup {NUL}] /\ buffer'[0] = NUL
    BY <1>0, <2>1, <2>5 DEF TypeOK
  <2>7. StringEnds'
    BY <2>1, <2>6 DEF StringEnds
  <2>8. QED
    BY Zenon, <1>0, <2>1, <2>4, <2>5, <2>6, <2>7 DEF EditorInv
<1>5. QED
  BY <1>3, <1>4 DEF shell_execute

LEMMA EraseKeeps ==
  ASSUME ConsoleInv, Erase
  PROVE  EditorInv'
<1>0. /\ TypeOK /\ StringEnds /\ term \in Terminals /\ tabbed' = tabbed /\ tabbed \in BOOLEAN
      /\ buffer_pos \in 0 .. SHELL_BUFFER_SIZE - 1
      /\ buffer \in [0 .. SHELL_BUFFER_SIZE - 1 -> Chars \cup {NUL}]
  BY DEF ConsoleInv, TypeOK, Erase
<1>1. CASE ~(buffer_pos > 0)
  <2>1. UNCHANGED <<buffer, buffer_pos, term>>
    BY <1>1 DEF Erase
  <2>2. StringEnds' /\ (LineShown => LineShown')
    BY <1>0, <2>1 DEF StringEnds, LineShown
  <2>3. QED
    BY <1>0, <2>1, <2>2 DEF EditorInv, ConsoleInv
<1>2. CASE buffer_pos > 0
  <2>0. /\ buffer_pos' = buffer_pos - 1
        /\ buffer' = [buffer EXCEPT ![buffer_pos - 1] = NUL]
        /\ term' = terminal_putchar(term, BS)
    BY <1>2 DEF Erase
  <2>1. PICK p \in Nat : buffer_pos = p + 1 /\ p \in 0 .. SHELL_BUFFER_SIZE - 1
    <3>1. buffer_pos - 1 \in Nat /\ buffer_pos = (buffer_pos - 1) + 1
          /\ buffer_pos - 1 \in 0 .. SHELL_BUFFER_SIZE - 1
      BY <1>0, <1>2, PromptFacts
    <3>2. QED
      BY <3>1
  <2>2. buffer_pos' = p /\ buffer' = [buffer EXCEPT ![p] = NUL] /\ p + 1 - 1 = p
    BY <2>0, <2>1
  <2>3. /\ buffer' \in [0 .. SHELL_BUFFER_SIZE - 1 -> Chars \cup {NUL}] /\ buffer'[p] = NUL
        /\ \A m \in 0 .. p - 1 : m \in 0 .. SHELL_BUFFER_SIZE - 1 /\ buffer'[m] = buffer[m]
    BY <1>0, <2>1, <2>2, PromptFacts
  <2>4. StringEnds'
    <3>1. \A m \in 0 .. p - 1 : m \in 0 .. buffer_pos - 1
      BY <2>1
    <3>2. \A m \in 0 .. p - 1 : buffer'[m] \in Chars /\ buffer'[m] # NUL
      BY <1>0, <2>3, <3>1 DEF StringEnds
    <3>3. QED
      BY <2>2, <2>3, <3>2 DEF StringEnds
  <2>5. term' \in Terminals
    <3>1. BS \in Chars
      BY DEF Chars
    <3>2. QED
      BY <1>0, <2>0, <3>1, PutcharType
  <2>6. ASSUME LineShown PROVE LineShown'
    <3>1. PICK start \in Nat :
            /\ Room(start, LineMax)
            /\ Shows(term, start, Line(buffer, buffer_pos), Len(Prompt) + buffer_pos)
      BY <2>6 DEF LineShown
    <3>2. PICK n \in Nat : n = Len(Prompt) + p
      BY PromptFacts
    <3>3. Len(Prompt) + buffer_pos = n + 1
      BY <2>1, <3>2, PromptFacts
    <3>4. PICK u : u = term'
      OBVIOUS
    <3>5. u.cursor = Position(u) /\ Shows(u, start, Line(buffer, buffer_pos), n)
      BY <1>0, <2>0, <3>1, <3>3, <3>4, ShowOneLess
    <3>6. PICK b : b = buffer'
      OBVIOUS
    <3>7. \A k \in 1 .. n : Line(b, p)[k] = Line(buffer, buffer_pos)[k]
      <4>1. TAKE k \in 1 .. n
      <4>2. k \in 1 .. Len(Prompt) + p /\ k \in 1 .. Len(Prompt) + buffer_pos
        BY <2>1, <3>2, <3>3
      <4>3. CASE k <= Len(Prompt)
        BY <4>2, <4>3 DEF Line
      <4>4. CASE ~(k <= Len(Prompt))
        <5>1. k - Len(Prompt) - 1 \in 0 .. p - 1
          BY <3>2, <4>4, PromptFacts
        <5>2. b[k - Len(Prompt) - 1] = buffer[k - Len(Prompt) - 1]
          BY <2>3, <3>6, <5>1
        <5>3. QED
          BY <4>2, <4>4, <5>2 DEF Line
      <4>5. QED
        BY <4>3, <4>4
    <3>8. Shows(u, start, Line(b, p), Len(Prompt) + p)
      BY <3>2, <3>5, <3>7, ShowsSame
    <3>9. QED
      BY <2>2, <3>1, <3>4, <3>5, <3>6, <3>8 DEF LineShown
  <2>7. QED
    BY <1>0, <2>1, <2>2, <2>3, <2>4, <2>5, <2>6 DEF EditorInv, ConsoleInv
<1>3. QED
  BY <1>1, <1>2

LEMMA AppendKeeps ==
  ASSUME ConsoleInv, NEW c \in Chars, c # NUL, c # TAB => Visible(c), AppendChar(c)
  PROVE  EditorInv'
<1>0. /\ TypeOK /\ StringEnds /\ term \in Terminals /\ tabbed \in BOOLEAN
      /\ buffer_pos \in 0 .. SHELL_BUFFER_SIZE - 1
      /\ buffer \in [0 .. SHELL_BUFFER_SIZE - 1 -> Chars \cup {NUL}]
  BY DEF ConsoleInv, TypeOK
<1>1. CASE buffer_pos >= SHELL_BUFFER_SIZE - 1
  <2>1. UNCHANGED <<buffer, buffer_pos, term, tabbed>>
    BY <1>1 DEF AppendChar
  <2>2. StringEnds' /\ (LineShown => LineShown')
    BY <1>0, <2>1 DEF StringEnds, LineShown
  <2>3. QED
    BY <1>0, <2>1, <2>2 DEF EditorInv, ConsoleInv
<1>2. CASE ~(buffer_pos >= SHELL_BUFFER_SIZE - 1)
  <2>0. /\ buffer_pos' = buffer_pos + 1
        /\ buffer' = [buffer EXCEPT ![buffer_pos] = c, ![buffer_pos + 1] = NUL]
        /\ term' = terminal_putchar(term, c)
        /\ tabbed' = (tabbed \/ c = TAB)
    BY <1>2 DEF AppendChar
  <2>1. PICK p \in Nat : p = buffer_pos
    BY <1>0, PromptFacts
  <2>2. p \in 0 .. SHELL_BUFFER_SIZE - 1 /\ p + 1 \in 0 .. SHELL_BUFFER_SIZE - 1 /\ p # p + 1
    BY <1>0, <1>2, <2>1, PromptFacts
  <2>3. buffer' = [buffer EXCEPT ![p] = c, ![p + 1] = NUL]
    BY <2>0, <2>1
  <2>4. /\ buffer' \in [0 .. SHELL_BUFFER_SIZE - 1 -> Chars \cup {NUL}]
        /\ buffer'[p + 1] = NUL /\ buffer'[p] = c
        /\ \A m \in 0 .. p - 1 : m \in 0 .. SHELL_BUFFER_SIZE - 1 /\ buffer'[m] = buffer[m]
    <3>1. PICK b : b = [buffer EXCEPT ![p] = c]
      BY Zenon
    <3>2. b \in [0 .. SHELL_BUFFER_SIZE - 1 -> Chars \cup {NUL}] /\ b[p] = c
      BY <1>0, <2>2, <3>1
    <3>3. buffer' = [b EXCEPT ![p + 1] = NUL]
      BY <2>3, <3>1
    <3>4. \A m \in 0 .. p - 1 : m \in 0 .. SHELL_BUFFER_SIZE - 1 /\ m # p /\ m # p + 1
      BY <2>2, PromptFacts
    <3>5. \A m \in 0 .. SHELL_BUFFER_SIZE - 1 : m # p /\ m # p + 1 => buffer'[m] = buffer[m]
      BY <1>0, <3>1, <3>2, <3>3
    <3>6. /\ buffer' \in [0 .. SHELL_BUFFER_SIZE - 1 -> Chars \cup {NUL}]
          /\ buffer'[p + 1] = NUL /\ buffer'[p] = c
      BY <2>2, <3>2, <3>3
    <3>7. QED
      BY <3>4, <3>5, <3>6
  <2>5. StringEnds'
    <3>1. \A m \in 0 .. p - 1 : buffer'[m] \in Chars /\ buffer'[m] # NUL
      BY <1>0, <2>1, <2>4 DEF StringEnds
    <3>2. \A m \in 0 .. (p + 1) - 1 : buffer'[m] \in Chars /\ buffer'[m] # NUL
      BY <2>4, <3>1
    <3>3. QED
      BY <2>0, <2>1, <2>4, <3>2 DEF StringEnds
  <2>6. term' \in Terminals
    BY <1>0, <2>0, PutcharType
  <2>7. ASSUME LineShown, c # TAB PROVE LineShown'
    <3>1. PICK start \in Nat :
            /\ Room(start, LineMax)
            /\ Shows(term, start, Line(buffer, buffer_pos), Len(Prompt) + buffer_pos)
      BY <2>7 DEF LineShown
    <3>2. PICK n \in Nat : n = Len(Prompt) + p
      BY PromptFacts
    <3>3. /\ n < LineMax /\ LineMax \in Nat /\ Len(Prompt) + (p + 1) = n + 1
      BY <2>2, <3>2, PromptFacts DEF LineMax
    <3>4. PICK b : b = buffer'
      OBVIOUS
    <3>5. \A k \in 1 .. n : Line(b, p + 1)[k] = Line(buffer, p)[k]
      <4>1. TAKE k \in 1 .. n
      <4>2. k \in 1 .. Len(Prompt) + p /\ k \in 1 .. Len(Prompt) + (p + 1)
        BY <3>2, <3>3
      <4>3. CASE k <= Len(Prompt)
        BY <4>2, <4>3 DEF Line
      <4>4. CASE ~(k <= Len(Prompt))
        <5>1. k - Len(Prompt) - 1 \in 0 .. p - 1
          BY <3>2, <4>4, PromptFacts
        <5>2. b[k - Len(Prompt) - 1] = buffer[k - Len(Prompt) - 1]
          BY <2>4, <3>4, <5>1
        <5>3. QED
          BY <4>2, <4>4, <5>2 DEF Line
      <4>5. QED
        BY <4>3, <4>4
    <3>6. Line(b, p + 1)[n + 1] = c
      <4>1. n + 1 \in 1 .. Len(Prompt) + (p + 1) /\ ~(n + 1 <= Len(Prompt))
            /\ (n + 1) - Len(Prompt) - 1 = p
        BY <3>2, PromptFacts
      <4>2. QED
        BY <2>4, <3>4, <4>1 DEF Line
    <3>7. PICK u : u = term'
      OBVIOUS
    <3>8. Shows(term, start, Line(buffer, p), n)
      BY <2>1, <3>1, <3>2
    <3>9. Visible(c)
      BY <2>7
    <3>10. /\ u.cursor = Position(u)
           /\ \E first \in Nat : Room(first, LineMax) /\ Shows(u, first, Line(b, p + 1), n + 1)
      <4>1. PICK f, g : f = Line(buffer, p) /\ g = Line(b, p + 1)
        OBVIOUS
      <4>2. u = terminal_putchar(term, c)
        BY Zenon, <2>0, <3>7
      <4>3. Shows(term, start, f, n) /\ g[n + 1] = c /\ \A k \in 1 .. n : g[k] = f[k]
        BY Zenon, <3>5, <3>6, <3>8, <4>1
      <4>4. /\ u.cursor = Position(u)
            /\ \E first \in Nat : Room(first, LineMax) /\ Shows(u, first, g, n + 1)
        BY <1>0, <3>1, <3>3, <3>9, <4>2, <4>3, ShowOneMore
      <4>5. QED
        BY Zenon, <4>1, <4>4
    <3>11. QED
      BY <2>0, <2>1, <3>3, <3>4, <3>7, <3>10 DEF LineShown
  <2>8. QED
    BY Zenon, <1>0, <2>0, <2>1, <2>2, <2>4, <2>5, <2>6, <2>7 DEF EditorInv, ConsoleInv
<1>3. QED
  BY <1>1, <1>2

LEMMA NoCharacterKeeps ==
  ASSUME ConsoleInv, NoCharacter
  PROVE  EditorInv'
<1>1. UNCHANGED <<buffer, buffer_pos, term, tabbed>>
  BY DEF NoCharacter
<1>2. StringEnds' /\ (LineShown => LineShown')
  BY <1>1 DEF ConsoleInv, StringEnds, LineShown
<1>3. QED
  BY <1>1, <1>2 DEF EditorInv, ConsoleInv, TypeOK

LEMMA CharacterKeeps ==
  ASSUME ConsoleInv, NEW s, Character(s)
  PROVE  EditorInv'
<1>1. PICK c : /\ c = IF shift_held # caps_lock THEN scancode_table_shifted(s)
                      ELSE scancode_table(s)
               /\ \/ c = NUL /\ NoCharacter
                  \/ c # NUL /\ shell_process_char(c)
  BY DEF Character
<1>2. c \in {BS, TAB, NL, "*", Blank, NUL, "a", "A"}
  BY <1>1, ScancodeChars
<1>3. CASE c = NUL /\ NoCharacter
  BY <1>3, NoCharacterKeeps
<1>4. CASE c # NUL /\ shell_process_char(c)
  <2>1. CASE shell_execute
    BY <2>1, ExecuteKeeps
  <2>2. CASE Erase
    BY <2>2, EraseKeeps
  <2>3. CASE c \notin {NL, BS} /\ AppendChar(c)
    <3>1. c \in Chars /\ (c # TAB => Visible(c))
      BY <1>2, <1>4, <2>3, TypedChars
    <3>2. QED
      BY <1>4, <2>3, <3>1, AppendKeeps
  <2>4. QED
    BY <1>4, <2>1, <2>2, <2>3 DEF shell_process_char
<1>5. QED
  BY <1>1, <1>3, <1>4

LEMMA HandlerKeeps ==
  ASSUME ConsoleInv, NEW s, keyboard_handler(s)
  PROVE  EditorInv' /\ shift_held' \in BOOLEAN /\ caps_lock' \in BOOLEAN
<1>0. shift_held \in BOOLEAN /\ caps_lock \in BOOLEAN
  BY DEF ConsoleInv, TypeOK
<1>1. CASE ShiftKey(s)
  BY <1>0, <1>1, NoCharacterKeeps DEF ShiftKey
<1>2. CASE CapsLock(s)
  BY <1>0, <1>2, NoCharacterKeeps DEF CapsLock
<1>3. CASE Ignored(s)
  BY <1>0, <1>3, NoCharacterKeeps DEF Ignored
<1>4. CASE Character(s)
  <2>1. UNCHANGED <<shift_held, caps_lock>>
    BY <1>4 DEF Character
  <2>2. QED
    BY <1>0, <1>4, <2>1, CharacterKeeps
<1>5. QED
  BY <1>1, <1>2, <1>3, <1>4 DEF keyboard_handler

(* only the four codes of the shift keys change shift_held *)
LEMMA OtherKeysKeepShift ==
  ASSUME NEW s, keyboard_handler(s), s \notin Shifts \cup {Released(k) : k \in Shifts}
  PROVE  shift_held' = shift_held
BY DEF keyboard_handler, ShiftKey, CapsLock, Ignored, Character

LEMMA ShiftCodes ==
  ASSUME NEW s \in Shifts
  PROVE  /\ keyboard_handler(s) => shift_held'
         /\ keyboard_handler(Released(s)) => ~shift_held'
<1>1. s \in Nat /\ s < 128 /\ s # CAPS_LOCK /\ s \in {42, 54} /\ ~(s > CAPS_LOCK)
  BY DEF Shifts, LSHIFT, RSHIFT, CAPS_LOCK
<1>2. /\ Released(s) \notin Shifts /\ Released(s) # CAPS_LOCK /\ ~(Released(s) < CAPS_LOCK)
      /\ Released(s) \in {Released(k) : k \in Shifts}
  BY <1>1 DEF Released, Shifts, LSHIFT, RSHIFT, CAPS_LOCK
<1>3. ASSUME keyboard_handler(s) PROVE shift_held'
  <2>1. ~Character(s) /\ ~CapsLock(s)
    BY <1>1 DEF Character, CapsLock
  <2>2. ~Ignored(s)
    BY <1>1 DEF Ignored
  <2>3. ShiftKey(s)
    BY <1>3, <2>1, <2>2 DEF keyboard_handler
  <2>4. QED
    BY Zenon, <2>3 DEF ShiftKey
<1>4. ASSUME keyboard_handler(Released(s)) PROVE ~shift_held'
  <2>1. ~Character(Released(s)) /\ ~CapsLock(Released(s)) /\ ~Ignored(Released(s))
    BY <1>2 DEF Character, CapsLock, Ignored
  <2>2. ShiftKey(Released(s))
    BY <1>4, <2>1 DEF keyboard_handler
  <2>3. shift_held' = (Released(s) \in Shifts)
    BY Zenon, <2>2 DEF ShiftKey
  <2>4. QED
    BY Zenon, <1>2, <2>3
<1>5. QED
  BY <1>3, <1>4

LEMMA PressKeeps ==
  ASSUME ConsoleInv, NEW s \in Keys, Press(s)
  PROVE  ConsoleInv'
<1>1. keyboard_handler(s) /\ held' = held \cup ({s} \cap Shifts) /\ held \subseteq Shifts
  BY DEF Press, ConsoleInv, TypeOK
<1>2. EditorInv' /\ shift_held' \in BOOLEAN /\ caps_lock' \in BOOLEAN
  BY <1>1, HandlerKeeps
<1>3. held' \subseteq Shifts
  BY <1>1
<1>4. NoStuckShift'
  <2>1. CASE s \in Shifts
    BY <1>1, <2>1 DEF NoStuckShift
  <2>2. CASE s \notin Shifts
    <3>1. s \notin {Released(k) : k \in Shifts}
      BY ConsoleAssumption DEF Released, Shifts, LSHIFT, RSHIFT
    <3>2. shift_held' = shift_held
      BY <1>1, <2>2, <3>1, OtherKeysKeepShift
    <3>3. held' = held
      BY <1>1, <2>2
    <3>4. QED
      BY <3>2, <3>3 DEF ConsoleInv, NoStuckShift
  <2>3. QED
    BY <2>1, <2>2
<1>5. QED
  BY <1>2, <1>3, <1>4 DEF ConsoleInv, EditorInv, TypeOK

LEMMA ReleaseKeeps ==
  ASSUME ConsoleInv, NEW s \in held \cup (Keys \ Shifts), Release(s)
  PROVE  ConsoleInv'
<1>1. keyboard_handler(Released(s)) /\ held' = held \ {s} /\ held \subseteq Shifts
  BY DEF Release, ConsoleInv, TypeOK
<1>2. EditorInv' /\ shift_held' \in BOOLEAN /\ caps_lock' \in BOOLEAN
  BY <1>1, HandlerKeeps
<1>3. held' \subseteq Shifts
  BY <1>1
<1>4. NoStuckShift'
  <2>1. CASE s \in Shifts
    BY <1>1, <2>1, ShiftCodes DEF NoStuckShift
  <2>2. CASE s \notin Shifts
    <3>1. s \in 0 .. 127
      BY Zenon, <1>1, <2>2, ConsoleAssumption
    <3>2. Released(s) \notin Shifts \cup {Released(k) : k \in Shifts}
      BY <2>2, <3>1 DEF Released, Shifts, LSHIFT, RSHIFT
    <3>3. shift_held' = shift_held
      BY <1>1, <3>2, OtherKeysKeepShift
    <3>4. held' = held
      BY <1>1, <2>2
    <3>5. QED
      BY <3>3, <3>4 DEF ConsoleInv, NoStuckShift
  <2>3. QED
    BY <2>1, <2>2
<1>5. QED
  BY <1>2, <1>3, <1>4 DEF ConsoleInv, EditorInv, TypeOK

LEMMA NextConsoleInv == ConsoleInv /\ [Next]_vars => ConsoleInv'
<1>. SUFFICES ASSUME ConsoleInv, [Next]_vars PROVE ConsoleInv'
  OBVIOUS
<1>1. CASE \E s \in Keys : Press(s)
  BY <1>1, PressKeeps
<1>2. CASE \E s \in held \cup (Keys \ Shifts) : Release(s)
  BY <1>2, ReleaseKeeps
<1>3. CASE UNCHANGED vars
  <2>1. NoCharacter /\ UNCHANGED <<shift_held, caps_lock, held>>
    BY <1>3 DEF vars, NoCharacter
  <2>2. EditorInv'
    BY <2>1, NoCharacterKeeps
  <2>3. QED
    BY <2>1, <2>2 DEF ConsoleInv, EditorInv, TypeOK, NoStuckShift
<1>4. QED
  BY <1>1, <1>2, <1>3 DEF Next

-----------------------------------------------------------------------------
(* The theorems *)

(* The inductive invariant of keyboard, line editor and terminal holds     *)
(* after every keyboard interrupt, for every size of the screen and of the *)
(* buffer, every prompt, and every set of keys and replies.                *)
THEOREM ConsoleInvariant == Spec => []ConsoleInv
BY InitConsoleInv, NextConsoleInv, PTL DEF Spec

(* buffer_pos stays inside shell_buffer and the terminal's row, column and *)
(* hardware cursor on the screen, whatever is typed and printed.           *)
THEOREM ConsoleTypeOK == Spec => []TypeOK
<1>1. ConsoleInv => TypeOK
  BY DEF ConsoleInv
<1>2. QED
  BY <1>1, ConsoleInvariant, PTL

(* No shift is stuck: with both shift keys up keyboard_handler takes its   *)
(* characters from the table that caps lock alone chooses.                 *)
THEOREM ConsoleNoStuckShift == Spec => []NoStuckShift
<1>1. ConsoleInv => NoStuckShift
  BY DEF ConsoleInv
<1>2. QED
  BY <1>1, ConsoleInvariant, PTL

LEMMA ShownFromInv == ConsoleInv => ShownIsExecuted
<1>. SUFFICES ASSUME ConsoleInv, ~tabbed PROVE
       LET shown == Prompt \o CString
           start == Position(term) - Len(shown)
       IN  /\ start >= 0
           /\ \A n \in 1 .. Len(shown) : term.cell[start + n - 1] = shown[n]
           /\ term.cursor = Position(term)
  BY DEF ShownIsExecuted
<1>0. TypeOK /\ StringEnds /\ LineShown
  BY DEF ConsoleInv
<1>1. PICK p \in Nat : p = buffer_pos
  BY <1>0, PromptFacts DEF TypeOK
<1>2. PICK s : s = CString
  OBVIOUS
<1>3. s = [k \in 1 .. p |-> buffer[k - 1]]
  BY <1>0, <1>1, <1>2, CStringIs
<1>4. \A k \in 1 .. p : buffer[k - 1] \in Chars
  BY <1>0, <1>1 DEF StringEnds
<1>5. s \in Seq(Chars) /\ Len(s) = p
  BY <1>3, <1>4
<1>6. PICK shown : shown = Prompt \o s
  BY Zenon
<1>7. Len(shown) = Len(Prompt) + p
  <2>1. Prompt \in Seq(Chars)
    BY PromptFacts
  <2>2. Len(shown) = Len(Prompt) + Len(s)
    BY Zenon, <1>5, <1>6, <2>1, ConcatProperties
  <2>3. QED
    BY <1>5, <2>2
<1>8. \A k \in 1 .. Len(Prompt) + p : shown[k] = Line(buffer, p)[k]
  <2>1. TAKE k \in 1 .. Len(Prompt) + p
  <2>2. CASE k <= Len(Prompt)
    <3>1. shown[k] = Prompt[k]
      BY <1>5, <1>6, <2>2, PromptFacts
    <3>2. QED
      BY <2>2, <3>1 DEF Line
  <2>3. CASE ~(k <= Len(Prompt))
    <3>1. k - Len(Prompt) \in 1 .. p
      BY <2>3, PromptFacts
    <3>2. shown[k] = s[k - Len(Prompt)]
      BY <1>5, <1>6, <2>3, PromptFacts
    <3>3. s[k - Len(Prompt)] = buffer[k - Len(Prompt) - 1]
      BY <1>3, <3>1
    <3>4. QED
      BY <2>3, <3>2, <3>3 DEF Line
  <2>4. QED
    BY <2>2, <2>3
<1>9. PICK first \in Nat : Shows(term, first, Line(buffer, p), Len(Prompt) + p)
  BY <1>0, <1>1 DEF LineShown
<1>10. Shows(term, first, shown, Len(Prompt) + p)
  BY <1>8, <1>9, ShowsSame
<1>11. Position(term) - Len(shown) = first
  BY <1>7, <1>10, PromptFacts DEF Shows
<1>12. \A n \in 1 .. Len(shown) : term.cell[first + n - 1] = shown[n]
  BY <1>7, <1>10 DEF Shows
<1>13. Position(term) - Len(shown) >= 0
  BY <1>11
<1>14. term.cursor = Position(term)
  BY <1>0 DEF LineShown
<1>15. QED
  BY Zenon, <1>2, <1>6, <1>11, <1>12, <1>13, <1>14

(* What you see is what Enter runs: the prompt and the C string that       *)
(* shell_execute will parse are on the screen and end at the hardware      *)
(* cursor, in a line without tabs, through wrapping, scrolling, erasing    *)
(* over the start of a row and a full buffer.                              *)
THEOREM ConsoleShownIsExecuted == Spec => []ShownIsExecuted
BY ConsoleInvariant, ShownFromInv, PTL

(* the characters of a number *)
LEMMA NumberVisible ==
  ASSUME NEW n \in Int, NEW verb \in {"d", "u", "x"}
  PROVE  LET text == Formatted([verb |-> verb, arg |-> n])
         IN  /\ text \in Seq(Chars) /\ Len(text) > 0
             /\ \A k \in 1 .. Len(text) : Visible(text[k])
<1>1. PICK text : text = Formatted([verb |-> verb, arg |-> n])
  BY Zenon
<1>2. CASE verb = "d"
  <2>1. text = print_int(n)
    BY <1>1, <1>2 DEF Formatted
  <2>2. QED
    BY Zenon, <1>1, <2>1, PrintIntType
<1>3. CASE verb = "u"
  <2>1. text = print_uint(Unsigned(n), 10)
    BY <1>1, <1>3 DEF Formatted
  <2>2. QED
    BY Zenon, <1>1, <2>1, PrintUnsignedType
<1>4. CASE verb = "x"
  <2>1. PICK s : s = print_uint(Unsigned(n), 16)
    BY Zenon
  <2>2. s \in Seq(Chars) /\ Len(s) \in Nat /\ \A k \in 1 .. Len(s) : Visible(s[k])
    <3>1. s \in Seq(Chars) /\ \A k \in 1 .. Len(s) : Visible(s[k])
      BY Zenon, <2>1, PrintUnsignedType
    <3>2. QED
      BY <3>1
  <2>3. text = <<"0", "x">> \o s
    BY <1>1, <1>4, <2>1 DEF Formatted
  <2>4. "0" \in Chars /\ "x" \in Chars
    <3>1. digits[1] = "0"
      BY DEF digits
    <3>2. QED
      BY <3>1 DEF Chars
  <2>5. Visible("0") /\ Visible("x")
    BY <2>4 DEF Visible, NL, CR, BS, TAB
  <2>6. PICK p \in Seq(Chars) : p = <<"0", "x">> /\ Len(p) = 2 /\ p[1] = "0" /\ p[2] = "x"
    <3>1. <<"0", "x">> \in Seq(Chars)
      BY <2>4
    <3>2. Len(<<"0", "x">>) = 2 /\ <<"0", "x">>[1] = "0" /\ <<"0", "x">>[2] = "x"
      OBVIOUS
    <3>3. QED
      BY Zenon, <3>1, <3>2
  <2>7. text = p \o s
    BY Zenon, <2>3, <2>6
  <2>8. /\ text \in Seq(Chars) /\ Len(text) = Len(p) + Len(s)
        /\ \A k \in 1 .. Len(p) + Len(s) : text[k] = IF k <= Len(p) THEN p[k] ELSE s[k - Len(p)]
    BY Zenon, <2>2, <2>7, ConcatProperties
  <2>9. ASSUME NEW k \in 1 .. Len(text) PROVE Visible(text[k])
    <3>1. k \in 1 .. 2 + Len(s) /\ text[k] = IF k <= 2 THEN p[k] ELSE s[k - 2]
      BY Zenon, <2>6, <2>8
    <3>2. CASE k <= 2
      BY <2>2, <2>5, <2>6, <3>1, <3>2
    <3>3. CASE ~(k <= 2)
      BY <2>2, <3>1, <3>3
    <3>4. QED
      BY <3>2, <3>3
  <2>10. Len(text) > 0
    BY <2>2, <2>6, <2>8
  <2>11. QED
    BY Zenon, <1>1, <2>8, <2>9, <2>10
<1>5. QED
  BY Zenon, <1>2, <1>3, <1>4

LEMMA NumbersFromInv == TypeOK => NumbersReadBack
<1>. SUFFICES ASSUME TypeOK, NEW n \in Numbers, NEW verb \in {"d", "u", "x"}
     PROVE LET item  == [verb |-> verb, arg |-> n]
               t     == kprintf(term, <<item>>)
               size  == Len(Formatted(item))
               shown == [k \in 1 .. size |-> t.cell[Position(t) - size + k - 1]]
           IN  ReadBack(verb, shown) = IF verb = "d" THEN n ELSE Unsigned(n)
  BY Zenon DEF NumbersReadBack
<1>1. PICK item : item = [verb |-> verb, arg |-> n]
  BY Zenon
<1>2. PICK text : text = Formatted(item)
  OBVIOUS
<1>3. n \in -(INT_MAX + 1) .. INT_MAX /\ n \in Int
  <2>1. n \in -(INT_MAX + 1) .. INT_MAX
    BY Zenon, NumbersAssumption
  <2>2. INT_MAX \in Nat
    BY TerminalAssumption
  <2>3. QED
    BY <2>1, <2>2
<1>4. Len(text) <= VGA_WIDTH * (VGA_HEIGHT - 1)
  BY Zenon, <1>1, <1>2, NumbersAssumption
<1>5. text \in Seq(Chars) /\ Len(text) > 0 /\ \A k \in 1 .. Len(text) : Visible(text[k])
  BY Zenon, <1>1, <1>2, <1>3, NumberVisible
<1>6. term \in Terminals
  BY DEF TypeOK
<1>7. PICK max \in Nat : max = VGA_WIDTH * (VGA_HEIGHT - 1)
  <2>1. VGA_WIDTH \in Nat /\ VGA_HEIGHT - 1 \in Nat
    BY TerminalAssumption
  <2>2. QED
    BY <2>1
<1>8. Room(Position(term), max)
  BY <1>7 DEF Room
<1>9. PICK t : t = Write(term, text)
  OBVIOUS
<1>10. PICK first \in Nat : Shows(t, first, text, Len(text))
  BY <1>4, <1>5, <1>6, <1>7, <1>8, <1>9, WriteShows
<1>11. t = kprintf(term, <<item>>)
  BY <1>2, <1>5, <1>6, <1>9, KprintfOne
<1>12. [k \in 1 .. Len(text) |-> t.cell[Position(t) - Len(text) + k - 1]] = text
  <2>0. Len(text) \in Nat
    BY <1>5
  <2>1. Position(t) - Len(text) = first
    BY <1>10, <2>0 DEF Shows
  <2>2. \A k \in 1 .. Len(text) : t.cell[first + k - 1] = text[k]
    BY <1>10 DEF Shows
  <2>3. text = [k \in 1 .. Len(text) |-> text[k]]
    BY <1>5
  <2>4. QED
    BY <2>1, <2>2, <2>3
<1>13. ReadBack(verb, text) = IF verb = "d" THEN n ELSE Unsigned(n)
  BY Zenon, <1>1, <1>2, <1>3, FormattedReadsBack
<1>14. QED
  BY <1>1, <1>2, <1>11, <1>12, <1>13

(* A number that kprintf prints with %d, %u or %x reads back from the      *)
(* screen as the number, wherever the cursor is, for every width of the    *)
(* integers and every screen that holds it in all but one of its rows.     *)
THEOREM ConsoleNumbersReadBack == Spec => []NumbersReadBack
BY ConsoleTypeOK, NumbersFromInv, PTL
=============================================================================
