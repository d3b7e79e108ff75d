--------------------------- MODULE ConsoleProofs ----------------------------
(***************************************************************************)
(* background_task and the shell on one screen, for every size of screen   *)
(* and every corner that the counter fits into.                            *)
(*                                                                         *)
(* vga_scroll reads each cell one row below the one it writes, so it never *)
(* reads the top row, which the corner is part of.  In the middle of it    *)
(* the invariant speaks of two screens at once: below k the copy is done,  *)
(* from k on what is due is still one row further down.                    *)
(*                                                                         *)
(* What printf prints is followed item by item.  The format, the arguments *)
(* and the texts are each put together from a piece for every item, so     *)
(* between two items the invariant says that the index, the arguments left *)
(* and the output are all at the same m.  The digits of uitoa are those of *)
(* the numeral since to divide by base x times is to divide by its power.  *)
(***************************************************************************)
EXTENDS Console, VgaProofs, SequenceTheorems, WellFoundedInduction

Shaped(s) ==
  /\ s = [cells |-> [o \in Cells |-> s.cells[o]], row |-> s.row, col |-> s.col]
  /\ s.row \in 0 .. (VGA_HEIGHT - 1) /\ s.col \in 0 .. (VGA_WIDTH - 1)

(* Two screens that differ in the corner at most. *)
Alike(s, t) ==
  /\ s.row = t.row /\ s.col = t.col
  /\ \A o \in Cells \ Corner : s.cells[o] = t.cells[o]

Scrolling ==
  \A o \in Cells :
    IF o < k THEN o \in Corner \/ screen.cells[o] = plain.cells[o]
    ELSE plain.cells[o] = IF o + VGA_WIDTH \in Cells THEN screen.cells[o + VGA_WIDTH] ELSE SP

ScreenInv ==
  /\ Shaped(screen) /\ Shaped(plain)
  /\ screen.row = plain.row /\ screen.col = plain.col
  /\ k \in Cells /\ (pc # "scroll" => k = 0 /\ Alike(screen, plain))
  /\ pc = "scroll" => Scrolling

CounterInv ==
  /\ count \in 0 .. (CountMod - 1) /\ j \in Nat
  /\ j > 0 => j <= Len(digits) /\ Len(digits) \in 1 .. (VGA_WIDTH - OFFSET)

ConsoleInv == ScreenInv /\ CounterInv

-----------------------------------------------------------------------------
LEMMA ShapedScreen ==
  ASSUME NEW S, NEW s, Shaped(s), \A o \in Cells : s.cells[o] \in S
  PROVE  s \in Screens(S)
<1> DEFINE cells == [o \in Cells |-> s.cells[o]]
<1>1. cells \in [Cells -> S]
  OBVIOUS
<1>2. s = [cells |-> cells, row |-> s.row, col |-> s.col]
  BY DEF Shaped
<1> HIDE DEF cells
<1>3. [cells |-> cells, row |-> s.row, col |-> s.col] \in Screens(S)
  BY <1>1 DEF Shaped, Screens
<1> QED  BY <1>2, <1>3

LEMMA ScreenShaped == ASSUME NEW S, NEW s \in Screens(S) PROVE Shaped(s)
<1>1. s = [cells |-> s.cells, row |-> s.row, col |-> s.col] /\ s.cells \in [Cells -> S]
  BY DEF Screens
<1>2. s.cells = [o \in Cells |-> s.cells[o]]
  BY <1>1
<1> QED  BY <1>1, <1>2 DEF Shaped, Screens

(* The corner is in the top row, which no cell is copied from. *)
LEMMA CornerFacts ==
  /\ VGA_WIDTH \in Nat /\ VGA_WIDTH > 0 /\ VGA_HEIGHT \in Nat /\ VGA_HEIGHT > 0
  /\ OFFSET \in Nat /\ OFFSET < VGA_WIDTH /\ 0 \in Cells /\ Cells \subseteq Nat
  /\ \A o \in Corner : o < VGA_WIDTH
  /\ \A o \in Cells : o + VGA_WIDTH \notin Corner
<1>1. /\ VGA_WIDTH \in Nat /\ VGA_WIDTH > 0 /\ VGA_HEIGHT \in Nat /\ VGA_HEIGHT > 0
      /\ OFFSET \in Nat /\ OFFSET < VGA_WIDTH
  BY VgaAssumption, ConsoleAssumption
<1>2. 0 \in 0 .. (VGA_HEIGHT - 1)
  BY <1>1
<1>3. VGA_WIDTH * VGA_HEIGHT \in Nat /\ 0 * VGA_WIDTH + VGA_WIDTH <= VGA_WIDTH * VGA_HEIGHT
      /\ 0 * VGA_WIDTH \in Nat
  BY <1>2, RowBounds
<1>4. 0 \in Cells /\ Cells \subseteq Nat
  BY <1>1, <1>3 DEF Cells
<1> QED  BY <1>1, <1>4 DEF Corner

(* Where Placed leaves the cursor, and that it changes cells alike. *)
LEMMA PlacedAlike ==
  ASSUME NEW S, SP \in S, NEW c \in S, NEW s \in Screens(S), NEW t \in Screens(S), Alike(s, t)
  PROVE  /\ Placed(s, c) \in Pending(S) /\ Placed(t, c) \in Pending(S)
         /\ Alike(Placed(s, c), Placed(t, c))
<1> DEFINE W == VGA_WIDTH
           stop == (s.col \div 4 + 1) * 4
           end == IF stop < W THEN stop ELSE W
           Blanked(u) == [o \in Cells |->
                            IF o \in vga_offset(s.row, s.col) .. (vga_offset(s.row, end) - 1)
                            THEN SP ELSE u.cells[o]]
<1>0. W \in Nat /\ W > 0 /\ VGA_HEIGHT \in Nat
  BY CornerFacts
<1>1. /\ s.cells \in [Cells -> S] /\ s.row \in 0 .. (VGA_HEIGHT - 1) /\ s.col \in 0 .. (W - 1)
      /\ t.cells \in [Cells -> S] /\ t.row = s.row /\ t.col = s.col
      /\ \A o \in Cells \ Corner : s.cells[o] = t.cells[o]
  BY DEF Screens, Alike
<1>2. s \in Pending(S) /\ t \in Pending(S)
  BY <1>0, <1>1 DEF Screens, Pending
<1>3. CASE c = BS
  <2>1. Placed(s, c) = Backspaced(s) /\ Placed(t, c) = Backspaced(t)
    BY <1>3 DEF Placed, NL, BS, CR, TAB
  <2>2. CASE s.col > 0
    <3>1. Backspaced(s) = [s EXCEPT !.col = s.col - 1] /\ Backspaced(t) = [t EXCEPT !.col = s.col - 1]
      BY <1>1, <2>2 DEF Backspaced
    <3>2. s.col - 1 \in 0 .. W
      BY <1>0, <1>1, <2>2
    <3> QED  BY <1>1, <1>2, <2>1, <3>1, <3>2 DEF Pending, Alike
  <2>3. CASE ~ (s.col > 0) /\ s.row > 0
    <3>1. /\ Backspaced(s) = [s EXCEPT !.row = s.row - 1, !.col = W - 1]
          /\ Backspaced(t) = [t EXCEPT !.row = s.row - 1, !.col = W - 1]
      BY <1>1, <2>3 DEF Backspaced
    <3>2. s.row - 1 \in 0 .. (VGA_HEIGHT - 1) /\ W - 1 \in 0 .. W
      BY <1>0, <1>1, <2>3
    <3>3. /\ Backspaced(s) = [cells |-> s.cells, row |-> s.row - 1, col |-> W - 1]
          /\ Backspaced(t) = [cells |-> t.cells, row |-> s.row - 1, col |-> W - 1]
      BY <3>1 DEF Screens
    <3> QED  BY <1>1, <2>1, <3>2, <3>3 DEF Pending, Alike
  <2>4. CASE ~ (s.col > 0) /\ ~ (s.row > 0)
    <3>1. Backspaced(s) = s /\ Backspaced(t) = t
      BY <1>1, <2>4 DEF Backspaced
    <3> QED  BY <1>2, <2>1, <3>1
  <2> QED  BY <2>2, <2>3, <2>4
<1>4. CASE c = NL
  <2>1. Placed(s, c) = [s EXCEPT !.col = W] /\ Placed(t, c) = [t EXCEPT !.col = W]
    BY <1>4 DEF Placed, NL, BS, CR, TAB
  <2>2. W \in 0 .. W
    BY <1>0
  <2> QED  BY <1>1, <1>2, <2>1, <2>2 DEF Pending, Alike
<1>5. CASE c = CR
  <2>1. Placed(s, c) = [s EXCEPT !.col = 0] /\ Placed(t, c) = [t EXCEPT !.col = 0]
    BY <1>5 DEF Placed, NL, BS, CR, TAB
  <2>2. 0 \in 0 .. W
    BY <1>0
  <2> QED  BY <1>1, <1>2, <2>1, <2>2 DEF Pending, Alike
<1>6. CASE c = TAB
  <2>1. Placed(s, c) = Tabbed(s) /\ Placed(t, c) = Tabbed(t)
    BY <1>6 DEF Placed, NL, BS, CR, TAB
  <2>2. end \in 0 .. W
    BY <1>0, <1>1
  <2>3. /\ Tabbed(s) = [s EXCEPT !.cells = Blanked(s), !.col = end]
        /\ Tabbed(t) = [t EXCEPT !.cells = Blanked(t), !.col = end]
    BY <1>1 DEF Tabbed, Screens
  <2>4. Blanked(s) \in [Cells -> S] /\ Blanked(t) \in [Cells -> S]
    BY <1>1
  <2>5. \A o \in Cells \ Corner : Blanked(s)[o] = Blanked(t)[o]
    BY <1>1
  <2>6. /\ Tabbed(s) = [cells |-> Blanked(s), row |-> s.row, col |-> end]
        /\ Tabbed(t) = [cells |-> Blanked(t), row |-> t.row, col |-> end]
    BY <2>3 DEF Screens
  <2> HIDE DEF Blanked, end, stop
  <2> QED  BY <1>1, <2>1, <2>2, <2>4, <2>5, <2>6 DEF Alike, Pending
<1>7. CASE c \notin {BS, NL, CR, TAB}
  <2> DEFINE x == vga_offset(s.row, s.col)
             y == s.col + 1
             Stored(u) == [u.cells EXCEPT ![x] = c]
  <2>1. Placed(s, c) = [s EXCEPT !.cells = Stored(s), !.col = y]
    BY <1>7 DEF Placed, Screens
  <2>2. Placed(t, c) = [t EXCEPT !.cells = Stored(t), !.col = y]
    BY <1>1, <1>7 DEF Placed, Screens
  <2>3. y \in 0 .. W
    BY <1>0, <1>1
  <2>4. Stored(s) \in [Cells -> S] /\ Stored(t) \in [Cells -> S]
    BY <1>1
  <2>5. \A o \in Cells \ Corner : Stored(s)[o] = Stored(t)[o]
    BY <1>1
  <2>6. /\ Placed(s, c) = [cells |-> Stored(s), row |-> s.row, col |-> y]
        /\ Placed(t, c) = [cells |-> Stored(t), row |-> t.row, col |-> y]
    BY <2>1, <2>2 DEF Screens
  <2> HIDE DEF Stored, y, x
  <2> QED  BY <1>1, <2>3, <2>4, <2>5, <2>6 DEF Alike, Pending
<1> QED  BY <1>3, <1>4, <1>5, <1>6, <1>7

(* vga_newline leaves the corner out when it scrolls. *)
LEMMA NewlineAlike ==
  ASSUME NEW S, SP \in S, NEW s \in Pending(S), NEW t \in Pending(S), Alike(s, t)
  PROVE  /\ vga_newline(s) \in Screens(S) /\ vga_newline(t) \in Screens(S)
         /\ Alike(vga_newline(s), vga_newline(t))
<1>1. vga_newline(s) \in Screens(S) /\ vga_newline(t) \in Screens(S)
  BY Newline
<1>2. CASE s.row + 1 < VGA_HEIGHT
  <2>1. /\ vga_newline(s) = [cells |-> s.cells, row |-> s.row + 1, col |-> 0]
        /\ vga_newline(t) = [cells |-> t.cells, row |-> s.row + 1, col |-> 0]
    BY <1>2 DEF vga_newline, Pending, Alike
  <2> QED  BY <1>1, <2>1 DEF Alike
<1>3. CASE ~ (s.row + 1 < VGA_HEIGHT)
  <2>1. /\ vga_newline(s) = [cells |-> vga_scroll(s.cells), row |-> s.row, col |-> 0]
        /\ vga_newline(t) = [cells |-> vga_scroll(t.cells), row |-> s.row, col |-> 0]
    BY <1>3 DEF vga_newline, Pending, Alike
  <2>2. \A o \in Cells : vga_scroll(s.cells)[o] = vga_scroll(t.cells)[o]
    BY CornerFacts DEF vga_scroll, Alike
  <2> QED  BY <1>1, <2>1, <2>2 DEF Alike
<1> QED  BY <1>2, <1>3

LEMMA PutAlike ==
  ASSUME NEW S, SP \in S, NEW c \in S, NEW s \in Screens(S), NEW t \in Screens(S), Alike(s, t)
  PROVE  /\ vga_putchar(s, c) \in Screens(S) /\ vga_putchar(t, c) \in Screens(S)
         /\ Alike(vga_putchar(s, c), vga_putchar(t, c))
<1> DEFINE p == Placed(s, c)
           q == Placed(t, c)
<1>1. p \in Pending(S) /\ q \in Pending(S) /\ Alike(p, q)
  BY PlacedAlike
<1>2. p.col = q.col /\ p.col \in 0 .. VGA_WIDTH /\ VGA_WIDTH \in Nat
  BY <1>1, CornerFacts DEF Alike, Pending
<1>3. /\ vga_putchar(s, c) = IF p.col >= VGA_WIDTH THEN vga_newline(p) ELSE p
      /\ vga_putchar(t, c) = IF q.col >= VGA_WIDTH THEN vga_newline(q) ELSE q
  BY DEF vga_putchar
<1> HIDE DEF p, q
<1>4. CASE p.col >= VGA_WIDTH
  BY <1>1, <1>2, <1>3, <1>4, NewlineAlike
<1>5. CASE ~ (p.col >= VGA_WIDTH)
  <2>1. p.col \in 0 .. (VGA_WIDTH - 1) /\ q.col \in 0 .. (VGA_WIDTH - 1)
    BY <1>2, <1>5
  <2>2. p \in Screens(S) /\ q \in Screens(S)
    BY <1>1, <2>1 DEF Pending, Screens
  <2> QED  BY <1>1, <1>2, <1>3, <1>5, <2>2
<1> QED  BY <1>4, <1>5

(* The symbols on both screens, and one more. *)
Symbols(c) ==
  {screen.cells[o] : o \in Cells} \cup {plain.cells[o] : o \in Cells} \cup {SP, c}

LEMMA OnBoth ==
  ASSUME Shaped(screen), Shaped(plain), NEW c
  PROVE  screen \in Screens(Symbols(c)) /\ plain \in Screens(Symbols(c)) /\ SP \in Symbols(c) /\ c \in Symbols(c)
<1>1. \A o \in Cells : screen.cells[o] \in Symbols(c) /\ plain.cells[o] \in Symbols(c)
  BY DEF Symbols
<1>2. SP \in Symbols(c) /\ c \in Symbols(c)
  BY DEF Symbols
<1> QED  BY <1>1, <1>2, ShapedScreen

-----------------------------------------------------------------------------
(* The steps. *)

LEMMA CounterStep == ASSUME CounterInv, [Next]_vars PROVE CounterInv'
<1>0. CountMod \in Nat /\ CountMod > 0
  BY ConsoleAssumption
<1>1. CASE UNCHANGED background
  BY <1>1 DEF CounterInv, background
<1>2. CASE NextCount
  <2>1. j' = 1 /\ digits' = uitoa(count, 10) /\ count' = (count + 1) % CountMod
    BY <1>2 DEF NextCount
  <2>2. Len(digits') \in 1 .. (VGA_WIDTH - OFFSET)
    BY <2>1, CounterFits DEF CounterInv
  <2>3. count' \in 0 .. (CountMod - 1)
    BY <1>0, <2>1 DEF CounterInv
  <2>4. 1 <= Len(digits')
    BY <2>2, CornerFacts
  <2> QED  BY <2>1, <2>2, <2>3, <2>4 DEF CounterInv
<1>3. CASE WriteDigit
  <2>1. j > 0 /\ digits' = digits /\ count' = count /\ j' = IF j < Len(digits) THEN j + 1 ELSE 0
    BY <1>3 DEF WriteDigit
  <2>2. Len(digits) \in Int
    BY <2>1, CornerFacts DEF CounterInv
  <2> QED  BY <2>1, <2>2 DEF CounterInv
<1> QED
  BY <1>1, <1>2, <1>3 DEF Next, vars, Printf, Literal, Directive, ReturnPrintf, Clear, PutChar, ScrollCell

(* Steps that leave the screen alone. *)
LEMMA ScreenSame ==
  ASSUME ScreenInv, UNCHANGED <<screen, plain, k>>, pc # "scroll", pc' # "scroll"
  PROVE  ScreenInv'
BY DEF ScreenInv, Shaped, Alike

LEMMA ClearInv == ASSUME ScreenInv, Clear PROVE ScreenInv'
<1>1. screen' = vga_clear /\ plain' = vga_clear /\ pc = "idle" /\ pc' = pc /\ k' = k
  BY DEF Clear
<1>2. Shaped(vga_clear)
  <2>1. SP \in {SP}
    OBVIOUS
  <2> QED  BY <2>1, ClearScreen, ScreenShaped
<1>3. Shaped(screen') /\ Shaped(plain')
  BY <1>1, <1>2
<1> QED  BY <1>1, <1>3 DEF ScreenInv, Shaped, Alike

LEMMA PutCharInv == ASSUME ScreenInv, PutChar PROVE ScreenInv'
<1> DEFINE c == Head(queue)
           S == Symbols(c)
           p == Placed(screen, c)
           q == Placed(plain, c)
<1>1. /\ screen \in Screens(S) /\ plain \in Screens(S) /\ SP \in S /\ c \in S
      /\ Alike(screen, plain) /\ k = 0 /\ k' = k /\ pc = "print" /\ plain' = vga_putchar(plain, c)
  BY OnBoth DEF ScreenInv, PutChar
<1>2. p \in Pending(S) /\ q \in Pending(S) /\ Alike(p, q)
  BY <1>1, PlacedAlike
<1>3. /\ p.cells \in [Cells -> S] /\ p.row \in 0 .. (VGA_HEIGHT - 1) /\ p.col \in 0 .. VGA_WIDTH
      /\ q.row = p.row /\ q.col = p.col
  BY <1>2 DEF Pending, Alike
<1>4. CASE p.col >= VGA_WIDTH /\ p.row = VGA_HEIGHT - 1
  <2>1. screen' = [p EXCEPT !.col = 0] /\ pc' = "scroll"
    BY <1>4 DEF PutChar
  <2>2. screen' = [cells |-> p.cells, row |-> p.row, col |-> 0]
    BY <1>2, <2>1 DEF Pending
  <2>3. plain' = vga_newline(q)
    BY <1>1, <1>3, <1>4 DEF vga_putchar
  <2>4. ~ (q.row + 1 < VGA_HEIGHT)
    BY <1>3, <1>4, CornerFacts
  <2>5. plain' = [cells |-> vga_scroll(q.cells), row |-> p.row, col |-> 0]
    BY <1>2, <1>3, <2>3, <2>4 DEF vga_newline, Pending
  <2>6. 0 \in 0 .. (VGA_WIDTH - 1)
    BY CornerFacts
  <2>7. screen' \in Screens(S)
    BY <1>3, <2>2, <2>6 DEF Screens
  <2>8. plain' \in Screens(S)
    BY <1>1, <1>2, <2>3, Newline
  <2>9. \A o \in Cells : plain'.cells[o] =
           IF o + VGA_WIDTH \in Cells THEN screen'.cells[o + VGA_WIDTH] ELSE SP
    BY <1>2, <2>2, <2>5, CornerFacts DEF vga_scroll, Alike
  <2>10. Scrolling'
    BY <1>1, <2>9, CornerFacts DEF Scrolling
  <2>11. Shaped(screen') /\ Shaped(plain')
    BY <2>7, <2>8, ScreenShaped
  <2>12. screen'.row = plain'.row /\ screen'.col = plain'.col
    BY <2>2, <2>5
  <2> QED  BY <1>1, <2>1, <2>10, <2>11, <2>12, CornerFacts DEF ScreenInv, Shaped
<1>5. CASE ~ (p.col >= VGA_WIDTH /\ p.row = VGA_HEIGHT - 1)
  <2>1. screen' = vga_putchar(screen, c) /\ pc' \in {"format", "print"}
    BY <1>5 DEF PutChar, Emptied
  <2>2. screen' \in Screens(S) /\ plain' \in Screens(S) /\ Alike(screen', plain')
    BY <1>1, <2>1, PutAlike
  <2>3. Shaped(screen') /\ Shaped(plain')
    BY <2>2, ScreenShaped
  <2> QED  BY <1>1, <2>1, <2>2, <2>3, CornerFacts DEF ScreenInv, Shaped, Alike
<1> QED  BY <1>4, <1>5

(* A cell of the screen is written. *)
LEMMA Stored ==
  ASSUME Shaped(screen), NEW x \in Cells, NEW c, screen' = [screen EXCEPT !.cells[x] = c]
  PROVE  /\ Shaped(screen') /\ screen'.row = screen.row /\ screen'.col = screen.col
         /\ \A o \in Cells : screen'.cells[o] = IF o = x THEN c ELSE screen.cells[o]
<1> DEFINE S == {screen.cells[o] : o \in Cells} \cup {c}
<1>1. \A o \in Cells : screen.cells[o] \in S
  OBVIOUS
<1>2. c \in S
  OBVIOUS
<1> HIDE DEF S
<1>3. screen \in Screens(S)
  BY <1>1, ShapedScreen
<1>4. screen' = [cells |-> [screen.cells EXCEPT ![x] = c], row |-> screen.row, col |-> screen.col]
  BY <1>3 DEF Screens
<1>5. screen' \in Screens(S)
  BY <1>2, <1>3, <1>4 DEF Screens
<1> QED  BY <1>3, <1>4, <1>5, ScreenShaped DEF Screens

LEMMA ScrollCellInv == ASSUME ScreenInv, ScrollCell PROVE ScreenInv'
<1> DEFINE c == IF k + VGA_WIDTH \in Cells THEN screen.cells[k + VGA_WIDTH] ELSE SP
<1>1. /\ pc = "scroll" /\ k \in Cells /\ Scrolling /\ plain' = plain
      /\ screen' = [screen EXCEPT !.cells[k] = c]
  BY DEF ScrollCell, ScreenInv
<1>2. c = plain.cells[k]
  BY <1>1, CornerFacts DEF Scrolling
<1> HIDE DEF c
<1>3. /\ Shaped(screen') /\ screen'.row = screen.row /\ screen'.col = screen.col
      /\ \A o \in Cells : screen'.cells[o] = IF o = k THEN c ELSE screen.cells[o]
  BY <1>1, Stored DEF ScreenInv
<1>4. Shaped(plain') /\ plain'.row = screen'.row /\ plain'.col = screen'.col
  BY <1>1, <1>3 DEF ScreenInv
<1>5. \A o \in Cells : o <= k => o \in Corner \/ screen'.cells[o] = plain'.cells[o]
  BY <1>1, <1>2, <1>3, CornerFacts DEF Scrolling
<1>6. CASE k + 1 \in Cells
  <2>1. k' = k + 1 /\ pc' = "scroll"
    BY <1>1, <1>6 DEF ScrollCell
  <2>2. ASSUME NEW o \in Cells, ~ (o < k + 1)
        PROVE  plain'.cells[o] =
                 IF o + VGA_WIDTH \in Cells THEN screen'.cells[o + VGA_WIDTH] ELSE SP
    <3>1. ~ (o < k) /\ o + VGA_WIDTH # k
      BY <1>1, <2>2, CornerFacts
    <3>2. plain.cells[o] = IF o + VGA_WIDTH \in Cells THEN screen.cells[o + VGA_WIDTH] ELSE SP
      BY <3>1, <1>1 DEF Scrolling
    <3> QED  BY <1>1, <1>3, <3>1, <3>2
  <2>3. \A o \in Cells : o < k + 1 => o <= k
    BY <1>1, CornerFacts
  <2>4. Scrolling'
    BY <1>5, <2>1, <2>2, <2>3 DEF Scrolling
  <2> QED  BY <1>3, <1>4, <1>6, <2>1, <2>4 DEF ScreenInv
<1>7. CASE k + 1 \notin Cells
  <2>1. k' = 0 /\ pc' \in {"format", "print"}
    BY <1>1, <1>7 DEF ScrollCell, Emptied
  <2>2. \A o \in Cells : o <= k
    <3>1. VGA_WIDTH * VGA_HEIGHT \in Nat
      <4>1. 0 \in 0 .. (VGA_HEIGHT - 1)
        BY CornerFacts
      <4> QED  BY <4>1, RowBounds
    <3> QED  BY <1>1, <1>7, <3>1 DEF Cells
  <2>3. Alike(screen', plain')
    BY <1>4, <1>5, <2>2 DEF Alike
  <2>4. Alike(screen, plain)'
    BY <2>3 DEF Alike
  <2> QED  BY <1>3, <1>4, <2>1, <2>4, CornerFacts DEF ScreenInv
<1> QED  BY <1>6, <1>7

(* background_task writes into the corner only, whatever the shell does. *)
LEMMA WriteDigitInv == ASSUME ScreenInv, CounterInv, WriteDigit PROVE ScreenInv'
<1> DEFINE x == OFFSET + j - 1
           c == digits[j]
<1>1. /\ screen' = [screen EXCEPT !.cells[x] = c] /\ plain' = plain /\ pc' = pc /\ k' = k
      /\ j > 0 /\ j \in Nat /\ j <= Len(digits) /\ Len(digits) \in 1 .. (VGA_WIDTH - OFFSET)
  BY DEF WriteDigit, CounterInv
<1>2. x \in Corner
  BY <1>1, CornerFacts DEF Corner
<1>3. x \in Cells
  <2>1. 0 \in 0 .. (VGA_HEIGHT - 1)
    BY CornerFacts
  <2>2. VGA_WIDTH * VGA_HEIGHT \in Nat /\ 0 * VGA_WIDTH + VGA_WIDTH <= VGA_WIDTH * VGA_HEIGHT
        /\ 0 * VGA_WIDTH \in Nat /\ 0 * VGA_WIDTH = 0
    BY <2>1, RowBounds, CornerFacts
  <2>3. x \in Nat /\ x < VGA_WIDTH
    BY <1>1, CornerFacts
  <2> HIDE DEF x
  <2> QED  BY <2>2, <2>3, CornerFacts DEF Cells
<1> HIDE DEF x, c
<1>4. /\ Shaped(screen') /\ screen'.row = screen.row /\ screen'.col = screen.col
      /\ \A o \in Cells : screen'.cells[o] = IF o = x THEN c ELSE screen.cells[o]
  BY <1>1, <1>3, Stored DEF ScreenInv
<1>5. Shaped(plain') /\ plain'.row = screen'.row /\ plain'.col = screen'.col
  BY <1>1, <1>4 DEF ScreenInv
<1>6. \A o \in Cells : /\ o \notin Corner => screen'.cells[o] = screen.cells[o]
                       /\ o + VGA_WIDTH # x
  BY <1>2, <1>4, CornerFacts
<1>7. pc # "scroll" => Alike(screen, plain)'
  BY <1>1, <1>5, <1>6 DEF ScreenInv, Alike
<1>8. pc = "scroll" => Scrolling'
  <2> SUFFICES ASSUME pc = "scroll", NEW o \in Cells
               PROVE  IF o < k THEN o \in Corner \/ screen'.cells[o] = plain.cells[o]
                      ELSE plain.cells[o] = IF o + VGA_WIDTH \in Cells
                                            THEN screen'.cells[o + VGA_WIDTH] ELSE SP
    BY <1>1 DEF Scrolling
  <2>1. IF o < k THEN o \in Corner \/ screen.cells[o] = plain.cells[o]
        ELSE plain.cells[o] = IF o + VGA_WIDTH \in Cells THEN screen.cells[o + VGA_WIDTH] ELSE SP
    BY DEF ScreenInv, Scrolling
  <2> QED  BY <1>4, <1>6, <2>1
<1> QED  BY <1>1, <1>4, <1>5, <1>7, <1>8 DEF ScreenInv

LEMMA InitConsoleInv == Init => ConsoleInv
<1> SUFFICES ASSUME Init PROVE ConsoleInv
  OBVIOUS
<1>1. Shaped(vga_clear)
  <2>1. SP \in {SP}
    OBVIOUS
  <2> QED  BY <2>1, ClearScreen, ScreenShaped
<1>2. ScreenInv
  BY <1>1, CornerFacts DEF Init, ScreenInv, Alike
<1>3. CounterInv
  BY ConsoleAssumption DEF Init, CounterInv
<1> QED  BY <1>2, <1>3 DEF ConsoleInv

LEMMA NextConsoleInv == ConsoleInv /\ [Next]_vars => ConsoleInv'
<1> SUFFICES ASSUME ConsoleInv, [Next]_vars PROVE ConsoleInv'
  OBVIOUS
<1>1. CounterInv'
  BY CounterStep DEF ConsoleInv
<1>2. ScreenInv /\ CounterInv
  BY DEF ConsoleInv
<1>3. ScreenInv'
  <2>1. CASE UNCHANGED vars
    BY <1>2, <2>1 DEF vars, ScreenInv, Shaped, Alike, Scrolling
  <2>2. CASE \E c \in Calls : Printf(c)
    BY <1>2, <2>2, ScreenSame DEF Printf
  <2>3. CASE Literal \/ Directive \/ ReturnPrintf
    BY <1>2, <2>3, ScreenSame DEF Literal, Directive, ReturnPrintf, Send
  <2>4. CASE NextCount
    BY <1>2, <2>4 DEF NextCount, ScreenInv, Shaped, Alike, Scrolling
  <2> QED
    BY <1>2, <2>1, <2>2, <2>3, <2>4, ClearInv, PutCharInv, ScrollCellInv, WriteDigitInv DEF Next
<1> QED  BY <1>1, <1>3 DEF ConsoleInv

-----------------------------------------------------------------------------
(* The invariant of the two screens holds at every cell that vga_scroll    *)
(* and background_task write, however the timer interleaves them.          *)
THEOREM ConsoleInvariance == Spec => []ConsoleInv
BY InitConsoleInv, NextConsoleInv, PTL DEF Spec

(* background_task's counter changes nothing of the shell's output outside *)
(* its corner, on every screen whose corner holds the largest counter.     *)
THEOREM CounterStaysInCorner == Spec => []OutputUndisturbed
<1>1. ConsoleInv => OutputUndisturbed
  BY DEF ConsoleInv, ScreenInv, Alike, Scrolling, OutputUndisturbed
<1> QED  BY <1>1, ConsoleInvariance, PTL

-----------------------------------------------------------------------------
(* Sequences put together from the texts of the items.                     *)

(* A set of natural numbers has a least element. *)
LEMMA LeastMember ==
  ASSUME NEW S \in SUBSET Nat, S # {}
  PROVE  \E d \in S : \A e \in S : d <= e
<1>1. PICK d \in S : \A e \in S : ~ (<<e, d>> \in OpToRel(<, Nat))
  BY NatLessThanWellFounded, WFMin, Zenon
<1>2. \A e \in S : ~ (e < d)
  <2> SUFFICES ASSUME NEW e \in S, e < d PROVE FALSE
    OBVIOUS
  <2>1. <<e, d>> \in OpToRel(<, Nat)
    BY DEF OpToRel
  <2>. QED  BY <1>1, <2>1, Zenon
<1>. QED  BY <1>2

(* g[m] is what the first m of the sequences in s are when put together. *)
Joined(S, s, m, g) ==
  /\ g \in [0 .. m -> Seq(S)] /\ g[0] = <<>>
  /\ \A x \in 1 .. m : g[x] = g[x - 1] \o s[x]

LEMMA JoinedExists ==
  ASSUME NEW S, NEW s \in Seq(Seq(S)), NEW m \in 0 .. Len(s)
  PROVE  \E g : Joined(S, s, m, g)
<1> DEFINE Bad == {x \in 0 .. Len(s) : ~ \E g : Joined(S, s, x, g)}
<1>1. SUFFICES ASSUME Bad # {} PROVE FALSE
  OBVIOUS
<1>2. Bad \in SUBSET Nat
  OBVIOUS
<1>3. PICK d \in Bad : \A e \in Bad : d <= e
  BY <1>1, <1>2, LeastMember
<1>4. d \in 0 .. Len(s) /\ ~ \E g : Joined(S, s, d, g)
  OBVIOUS
<1>5. CASE d = 0
  <2> DEFINE g == [x \in 0 .. d |-> <<>>]
  <2>1. g \in [0 .. d -> Seq(S)] /\ g[0] = <<>> /\ 1 .. d = {}
    BY <1>5
  <2>2. Joined(S, s, d, g)
    BY <2>1 DEF Joined
  <2>. QED  BY <1>4, <2>2
<1>6. CASE d # 0
  <2>1. d - 1 \in 0 .. Len(s) /\ d \in 1 .. Len(s) /\ ~ (d <= d - 1)
    BY <1>4, <1>6
  <2>2. PICK h : Joined(S, s, d - 1, h)
    BY <1>3, <2>1
  <2>3. h \in [0 .. (d - 1) -> Seq(S)] /\ h[0] = <<>> /\ \A x \in 1 .. (d - 1) : h[x] = h[x - 1] \o s[x]
    BY <2>2 DEF Joined
  <2> DEFINE g == [x \in 0 .. d |-> IF x <= d - 1 THEN h[x] ELSE h[d - 1] \o s[d]]
  <2>4. h[d - 1] \o s[d] \in Seq(S)
    <3>1. h[d - 1] \in Seq(S) /\ s[d] \in Seq(S)
      BY <2>1, <2>3
    <3>. QED  BY <3>1
  <2>5. g \in [0 .. d -> Seq(S)] /\ g[0] = <<>>
    BY <1>4, <2>1, <2>3, <2>4
  <2>6. \A x \in 0 .. d : g[x] = IF x <= d - 1 THEN h[x] ELSE h[d - 1] \o s[d]
    OBVIOUS
  <2> HIDE DEF g
  <2>8. ASSUME NEW x \in 1 .. d PROVE g[x] = g[x - 1] \o s[x]
    <3>1. CASE x <= d - 1
      <4>1. g[x] = h[x] /\ g[x - 1] = h[x - 1] /\ x \in 1 .. (d - 1)
        BY <2>1, <2>6, <3>1
      <4>. QED  BY <2>3, <4>1
    <3>2. CASE ~ (x <= d - 1)
      <4>1. d = x /\ x - 1 <= d - 1 /\ x \in 0 .. d /\ x - 1 \in 0 .. d
        BY <2>1, <3>2
      <4>2. g[x] = h[d - 1] \o s[d] /\ g[x - 1] = h[x - 1]
        BY <2>6, <3>2, <4>1
      <4>3. h[d - 1] \o s[d] = h[x - 1] \o s[x]
        BY <4>1
      <4>. QED  BY <4>2, <4>3
    <3>. QED  BY <3>1, <3>2
  <2>7. Joined(S, s, d, g)
    BY <2>5, <2>8 DEF Joined
  <2>. QED  BY <1>4, <2>7
<1>. QED  BY <1>5, <1>6

(* FlattenSeq puts all of them together. *)
LEMMA Flattened ==
  ASSUME NEW S, NEW s \in Seq(Seq(S)), NEW g, Joined(S, s, Len(s), g)
  PROVE  FlattenSeq(s) = g[Len(s)]
<1> DEFINE flatten[x \in 1 .. Len(s)] == IF x = 1 THEN s[x] ELSE flatten[x - 1] \o s[x]
           R(f) == f = [x \in 1 .. Len(s) |-> IF x = 1 THEN s[x] ELSE f[x - 1] \o s[x]]
           w == [x \in 1 .. Len(s) |-> g[x]]
<1>1. /\ g \in [0 .. Len(s) -> Seq(S)] /\ g[0] = <<>>
      /\ \A x \in 1 .. Len(s) : g[x] = g[x - 1] \o s[x]
  BY DEF Joined
<1>2. CASE Len(s) = 0
  <2>1. s = <<>>
    BY <1>2, EmptySeq
  <2>. QED  BY <1>1, <1>2, <2>1 DEF FlattenSeq
<1>3. CASE Len(s) # 0
  <2>1. Len(s) \in Nat /\ Len(s) \in 1 .. Len(s)
    BY <1>3
  <2>2. FlattenSeq(s) = flatten[Len(s)]
    BY <1>3 DEF FlattenSeq
  <2>3. ASSUME NEW x \in 1 .. Len(s) PROVE w[x] = IF x = 1 THEN s[x] ELSE w[x - 1] \o s[x]
    <3>1. CASE x = 1
      <4>1. 1 \in 1 .. Len(s) /\ 1 - 1 = 0
        BY <3>1
      <4>2. s[1] \in Seq(S) /\ g[1] = <<>> \o s[1]
        <5>1. s[1] \in Seq(S)
          BY <4>1, ElementOfSeq
        <5>2. g[1] = g[1 - 1] \o s[1]
          BY <1>1, <4>1
        <5>. QED  BY <1>1, <4>1, <5>1, <5>2
      <4>3. <<>> \o s[1] = s[1]
        BY <4>2, ConcatEmptySeq
      <4>. QED  BY <3>1, <4>1, <4>2, <4>3
    <3>2. CASE x # 1
      <4>1. x - 1 \in 1 .. Len(s)
        BY <2>1, <3>2
      <4>2. w[x - 1] = g[x - 1] /\ w[x] = g[x] /\ g[x] = g[x - 1] \o s[x]
        BY <1>1, <4>1
      <4>. QED  BY <3>2, <4>2
    <3>. QED  BY <3>1, <3>2
  <2>4. R(w)
    BY <2>3
  <2>5. flatten = CHOOSE f : R(f)
    OBVIOUS
  <2> HIDE DEF R
  <2>6. R(flatten)
    BY <2>4, <2>5
  <2> HIDE DEF flatten
  <2>7. \A x \in 1 .. Len(s) : flatten[x] = IF x = 1 THEN s[x] ELSE flatten[x - 1] \o s[x]
    BY <2>6 DEF R
  <2> DEFINE Bad == {x \in 1 .. Len(s) : flatten[x] # w[x]}
  <2>8. Bad = {}
    <3>1. SUFFICES ASSUME Bad # {} PROVE FALSE
      OBVIOUS
    <3>2. Bad \in SUBSET Nat
      BY <2>1
    <3> HIDE DEF Bad
    <3>3. PICK d \in Bad : \A e \in Bad : d <= e
      BY <3>1, <3>2, LeastMember
    <3>4. d \in 1 .. Len(s) /\ flatten[d] # w[d]
      BY DEF Bad
    <3>5. d # 1
      <4>1. ASSUME d = 1 PROVE FALSE
        <5>1. flatten[d] = s[d] /\ w[d] = s[d]
          BY <2>3, <2>7, <3>4, <4>1
        <5>. QED  BY <3>4, <5>1
      <4>. QED  BY <4>1
    <3>6. d - 1 \in 1 .. Len(s) /\ ~ (d <= d - 1)
      BY <2>1, <3>4, <3>5
    <3>7. flatten[d - 1] = w[d - 1]
      BY <3>3, <3>6 DEF Bad
    <3>8. flatten[d] = flatten[d - 1] \o s[d] /\ w[d] = w[d - 1] \o s[d]
      BY <2>3, <2>7, <3>4, <3>5
    <3>. QED  BY <3>4, <3>7, <3>8
  <2>. QED  BY <2>1, <2>2, <2>8
<1>. QED  BY <1>2, <1>3

(* Concatenation, one place at a time. *)
LEMMA Joins ==
  ASSUME NEW S, NEW a \in Seq(S), NEW b \in Seq(S)
  PROVE  /\ a \o b \in Seq(S) /\ Len(a) \in Nat /\ Len(b) \in Nat /\ Len(a \o b) = Len(a) + Len(b)
         /\ \A x \in 1 .. Len(a) : (a \o b)[x] = a[x]
         /\ \A x \in 1 .. Len(b) : (a \o b)[Len(a) + x] = b[x]
OBVIOUS

(* What has been put together stays the beginning of what it becomes. *)
LEMMA JoinedGrows ==
  ASSUME NEW S, NEW s \in Seq(Seq(S)), NEW g, Joined(S, s, Len(s), g),
         NEW m \in 0 .. Len(s), NEW l \in m .. Len(s)
  PROVE  Len(g[m]) <= Len(g[l]) /\ \A x \in 1 .. Len(g[m]) : g[l][x] = g[m][x]
<1> DEFINE Good(y) == Len(g[m]) <= Len(g[y]) /\ \A x \in 1 .. Len(g[m]) : g[y][x] = g[m][x]
           Bad == {y \in m .. Len(s) : ~ Good(y)}
<1>1. /\ g \in [0 .. Len(s) -> Seq(S)]
      /\ \A x \in 1 .. Len(s) : g[x] = g[x - 1] \o s[x]
  BY DEF Joined
<1>2. Len(s) \in Nat /\ g[m] \in Seq(S) /\ Len(g[m]) \in Nat
  <2>1. g[m] \in Seq(S)
    BY <1>1
  <2>. QED  BY <2>1, LenProperties
<1>3. Good(m)
  BY <1>2
<1>4. ASSUME NEW y \in m .. (Len(s) - 1), Good(y) PROVE Good(y + 1)
  <2>1. y + 1 \in 1 .. Len(s) /\ y + 1 - 1 = y /\ y \in 0 .. Len(s)
    BY <1>2
  <2>2. g[y] \in Seq(S) /\ s[y + 1] \in Seq(S) /\ g[y + 1] = g[y] \o s[y + 1]
    <3>1. s[y + 1] \in Seq(S)
      BY <2>1, ElementOfSeq
    <3>2. PICK z \in 1 .. Len(s) : z = y + 1 /\ z - 1 = y
      BY <2>1
    <3>5. g[z] = g[z - 1] \o s[z]
      BY <1>1
    <3>3. g[y] \in Seq(S)
      BY <1>1, <2>1
    <3>4. g[y + 1] = g[y] \o s[y + 1]
      BY ONLY <3>2, <3>5, Zenon
    <3>. QED  BY <3>1, <3>3, <3>4
  <2>3. PICK a, b, c, f : a = g[y] /\ b = s[y + 1] /\ c = g[y + 1] /\ f = g[m]
    OBVIOUS
  <2>4. a \in Seq(S) /\ b \in Seq(S) /\ c = a \o b
    BY <2>2, <2>3
  <2>5. /\ Len(c) = Len(a) + Len(b) /\ Len(a) \in Nat /\ Len(b) \in Nat
        /\ \A x \in 1 .. Len(a) : c[x] = a[x]
    BY <2>4, Joins
  <2>6. Len(f) \in Nat /\ Len(f) <= Len(a) /\ \A x \in 1 .. Len(f) : a[x] = f[x]
    BY <1>2, <1>4, <2>3
  <2>7. Len(f) <= Len(c) /\ \A x \in 1 .. Len(f) : c[x] = f[x]
    BY <2>5, <2>6
  <2>. QED  BY <2>3, <2>7
<1> HIDE DEF Good
<1>5. Bad = {}
  <2>1. SUFFICES ASSUME Bad # {} PROVE FALSE
    OBVIOUS
  <2>2. Bad \in SUBSET Nat
    BY <1>2
  <2> HIDE DEF Bad
  <2>3. PICK d \in Bad : \A e \in Bad : d <= e
    BY <2>1, <2>2, LeastMember
  <2>4. d \in m .. Len(s) /\ ~ Good(d)
    BY DEF Bad
  <2>5. d # m
    BY <1>3, <2>4
  <2>6. d - 1 \in m .. (Len(s) - 1) /\ d - 1 \in m .. Len(s) /\ d - 1 + 1 = d /\ ~ (d <= d - 1)
    BY <1>2, <2>4, <2>5
  <2>7. Good(d - 1)
    BY <2>3, <2>6 DEF Bad
  <2>8. Good(d - 1 + 1)
    BY <1>4, <2>6, <2>7
  <2>. QED  BY <2>4, <2>6, <2>8
<1>6. Good(l)
  BY <1>5
<1>. QED  BY <1>6 DEF Good

LEMMA SequenceIs == ASSUME NEW S, NEW s \in Seq(S) PROVE IsSequence(s)
<1>1. Len(s) \in Nat /\ DOMAIN s = 1 .. Len(s) /\ s = [m \in 1 .. Len(s) |-> s[m]]
  OBVIOUS
<1>2. s \in [1 .. Len(s) -> {s[m] : m \in DOMAIN s}]
  BY <1>1
<1>. QED  BY <1>1, <1>2 DEF IsSequence

(* Next in l, after a, is b. *)
Follows(a, b, c, l) ==
  /\ IsSequence(a) /\ IsSequence(b) /\ IsSequence(l) /\ c = a \o b
  /\ Len(c) = Len(a) + Len(b) /\ Len(c) <= Len(l)
  /\ \A x \in 1 .. Len(b) : l[Len(a) + x] = b[x]

(* Where the m-th sequence is found. *)
LEMMA JoinedAt ==
  ASSUME NEW S, NEW s \in Seq(Seq(S)), NEW g, Joined(S, s, Len(s), g), NEW m \in 1 .. Len(s)
  PROVE  Follows(g[m - 1], s[m], g[m], g[Len(s)])
<1>1. /\ g \in [0 .. Len(s) -> Seq(S)]
      /\ \A x \in 1 .. Len(s) : g[x] = g[x - 1] \o s[x]
  BY DEF Joined
<1>2. /\ Len(s) \in Nat /\ m - 1 \in 0 .. Len(s) /\ m \in 0 .. Len(s)
      /\ Len(s) \in m .. Len(s) /\ Len(s) \in 0 .. Len(s)
  OBVIOUS
<1>3. g[m - 1] \in Seq(S) /\ g[m] = g[m - 1] \o s[m] /\ g[m] \in Seq(S) /\ g[Len(s)] \in Seq(S)
  BY <1>1, <1>2
<1>4. s[m] \in Seq(S)
  BY ElementOfSeq
<1>5. PICK a, b, c, d : a = g[m - 1] /\ b = s[m] /\ c = g[m] /\ d = g[Len(s)]
  OBVIOUS
<1>6. a \in Seq(S) /\ b \in Seq(S) /\ c = a \o b
  BY <1>3, <1>4, <1>5
<1>7. /\ Len(c) = Len(a) + Len(b) /\ Len(a) \in Nat /\ Len(b) \in Nat
      /\ \A x \in 1 .. Len(b) : c[Len(a) + x] = b[x]
  BY <1>6, Joins
<1>8. Len(c) <= Len(d) /\ \A x \in 1 .. Len(c) : d[x] = c[x]
  BY <1>2, <1>5, JoinedGrows
<1>9. ASSUME NEW x \in 1 .. Len(b) PROVE d[Len(a) + x] = b[x]
  <2>1. Len(a) + x \in 1 .. Len(c)
    BY <1>7
  <2>. QED  BY <1>7, <1>8, <2>1
<1>10. IsSequence(a) /\ IsSequence(b) /\ IsSequence(d)
  BY <1>3, <1>5, <1>6, SequenceIs
<1>11. Follows(a, b, c, d)
  BY <1>6, <1>7, <1>8, <1>9, <1>10 DEF Follows
<1>. QED  BY <1>5, <1>11

-----------------------------------------------------------------------------
(* Numerals.                                                               *)

LEMMA DivMod ==
  ASSUME NEW v \in Nat, NEW b \in Nat, b > 0
  PROVE  /\ v = (v \div b) * b + (v % b) /\ v \div b \in Nat /\ v % b \in 0 .. (b - 1)
         /\ (b > 1 /\ v > 0 => v \div b < v)
<1>1. v \div b \in Nat /\ v % b \in 0 .. (b - 1)
  BY Z3
<1>2. v = (v \div b) * b + (v % b)
  BY Z3
<1>3. b > 1 /\ v > 0 => v \div b < v
  BY Z3
<1>. QED  BY <1>1, <1>2, <1>3

LEMMA QuotientIs ==
  ASSUME NEW v \in Nat, NEW b \in Nat, NEW q \in Nat, NEW r \in Nat, v = q * b + r, r < b
  PROVE  v \div b = q
<1>1. v = (v \div b) * b + (v % b) /\ v \div b \in Nat /\ v % b \in 0 .. (b - 1)
  BY DivMod
<1>2. PICK p, s \in Nat : p = v \div b /\ s = v % b
  BY <1>1
<1>3. p * b + s = q * b + r /\ s < b /\ p \in Nat
  BY <1>1, <1>2
<1>4. ~ (p > q)
  <2>1. SUFFICES ASSUME p >= q + 1 PROVE FALSE
    BY <1>3
  <2>2. p * b >= (q + 1) * b /\ (q + 1) * b = q * b + b
    BY <1>3, <2>1, Z3
  <2>. QED  BY <1>3, <2>2, Z3
<1>5. ~ (q > p)
  <2>1. SUFFICES ASSUME q >= p + 1 PROVE FALSE
    BY <1>3
  <2>2. q * b >= (p + 1) * b /\ (p + 1) * b = p * b + b
    BY <1>3, <2>1, Z3
  <2>. QED  BY <1>3, <2>2, Z3
<1>. QED  BY <1>2, <1>3, <1>4, <1>5

(* To divide twice is to divide by the product. *)
LEMMA DivDiv ==
  ASSUME NEW v \in Nat, NEW b \in Nat, NEW c \in Nat, b > 0, c > 0
  PROVE  (v \div b) \div c = v \div (b * c)
<1>1. PICK q \in Nat, r \in 0 .. (b - 1) : q = v \div b /\ v = q * b + r
  BY DivMod
<1>2. PICK s \in Nat, t \in 0 .. (c - 1) : s = q \div c /\ q = s * c + t
  BY DivMod
<1>3. b * c \in Nat /\ t * b + r \in Nat
  BY <1>1, <1>2, Z3
<1>4. v = s * (b * c) + (t * b + r)
  BY <1>1, <1>2, Z3
<1>5. t * b + r < b * c
  <2>1. (t + 1) * b <= c * b
    BY <1>2, Z3
  <2>. QED  BY <1>1, <1>2, <2>1, Z3
<1>6. v \div (b * c) = s
  BY <1>3, <1>4, <1>5, QuotientIs
<1>. QED  BY <1>1, <1>2, <1>6

(* g[x] is base to the power x, up to e. *)
Powers(base, e, g) ==
  g \in [0 .. e -> Nat] /\ g[0] = 1 /\ \A x \in 1 .. e : g[x] = base * g[x - 1]

LEMMA PowersExist ==
  ASSUME NEW base \in Nat, NEW e \in Nat
  PROVE  \E g : Powers(base, e, g)
<1> DEFINE Bad == {x \in Nat : ~ \E g : Powers(base, x, g)}
<1>1. SUFFICES ASSUME Bad # {} PROVE FALSE
  OBVIOUS
<1>2. PICK d \in Bad : \A x \in Bad : d <= x
  BY <1>1, LeastMember
<1>3. d \in Nat /\ ~ \E g : Powers(base, d, g)
  OBVIOUS
<1>4. CASE d = 0
  <2> DEFINE g == [x \in 0 .. d |-> 1]
  <2>1. g \in [0 .. d -> Nat] /\ g[0] = 1 /\ 1 .. d = {}
    BY <1>4
  <2>2. Powers(base, d, g)
    BY <2>1 DEF Powers
  <2>. QED  BY <1>3, <2>2
<1>5. CASE d # 0
  <2>1. d - 1 \in Nat /\ ~ (d <= d - 1) /\ 0 <= d - 1
    BY <1>3, <1>5
  <2>2. PICK h : Powers(base, d - 1, h)
    BY <1>2, <2>1
  <2>3. h \in [0 .. (d - 1) -> Nat] /\ h[0] = 1 /\ \A x \in 1 .. (d - 1) : h[x] = base * h[x - 1]
    BY <2>2 DEF Powers
  <2> DEFINE g == [x \in 0 .. d |-> IF x <= d - 1 THEN h[x] ELSE base * h[d - 1]]
  <2>4. base * h[d - 1] \in Nat
    <3>1. PICK p \in Nat : p = h[d - 1]
      BY <2>1, <2>3
    <3>2. base * p \in Nat
      BY Z3
    <3>. QED  BY <3>1, <3>2
  <2>5. g \in [0 .. d -> Nat] /\ g[0] = 1
    BY <1>3, <2>1, <2>3, <2>4
  <2>6. \A x \in 0 .. d : g[x] = IF x <= d - 1 THEN h[x] ELSE base * h[d - 1]
    OBVIOUS
  <2> HIDE DEF g
  <2>7. ASSUME NEW x \in 1 .. d PROVE g[x] = base * g[x - 1]
    <3>1. CASE x <= d - 1
      <4>1. g[x] = h[x] /\ g[x - 1] = h[x - 1] /\ x \in 1 .. (d - 1)
        BY <2>1, <2>6, <3>1
      <4>. QED  BY <2>3, <4>1
    <3>2. CASE ~ (x <= d - 1)
      <4>1. d = x /\ x - 1 <= d - 1 /\ x \in 0 .. d /\ x - 1 \in 0 .. d
        BY <2>1, <3>2
      <4>2. g[x] = base * h[d - 1] /\ g[x - 1] = h[x - 1]
        BY <2>6, <3>2, <4>1
      <4>. QED  BY <4>1, <4>2, Zenon
    <3>. QED  BY <3>1, <3>2
  <2>8. Powers(base, d, g)
    BY <2>5, <2>7 DEF Powers
  <2>. QED  BY <1>3, <2>8
<1>. QED  BY <1>4, <1>5

LEMMA PowerIn ==
  ASSUME NEW base \in Nat, NEW e \in Nat, NEW g, Powers(base, e, g)
  PROVE  Power(base, e) = g[e]
<1> DEFINE p[x \in 0 .. e] == IF x = 0 THEN 1 ELSE base * p[x - 1]
           R(f) == f = [x \in 0 .. e |-> IF x = 0 THEN 1 ELSE base * f[x - 1]]
<1>1. g \in [0 .. e -> Nat] /\ g[0] = 1 /\ \A x \in 1 .. e : g[x] = base * g[x - 1]
  BY DEF Powers
<1>2. Power(base, e) = p[e]
  BY DEF Power
<1>3. ASSUME NEW x \in 0 .. e PROVE g[x] = IF x = 0 THEN 1 ELSE base * g[x - 1]
  BY <1>1
<1>4. R(g)
  <2>1. g = [x \in 0 .. e |-> g[x]]
    BY <1>1
  <2>. QED  BY <1>3, <2>1
<1>5. p = CHOOSE f : R(f)
  OBVIOUS
<1> HIDE DEF R
<1>6. R(p)
  BY <1>4, <1>5
<1> HIDE DEF p
<1>7. \A x \in 0 .. e : p[x] = IF x = 0 THEN 1 ELSE base * p[x - 1]
  BY <1>6 DEF R
<1> DEFINE Bad == {x \in 0 .. e : p[x] # g[x]}
<1>8. Bad = {}
  <2>1. SUFFICES ASSUME Bad # {} PROVE FALSE
    OBVIOUS
  <2>2. Bad \in SUBSET Nat
    OBVIOUS
  <2> HIDE DEF Bad
  <2>3. PICK d \in Bad : \A x \in Bad : d <= x
    BY <2>1, <2>2, LeastMember
  <2>4. d \in 0 .. e /\ p[d] # g[d]
    BY DEF Bad
  <2>5. d # 0
    <3>1. 0 \in 0 .. e
      OBVIOUS
    <3>2. p[0] = g[0]
      BY <1>1, <1>7, <3>1
    <3>. QED  BY <2>4, <3>2
  <2>6. d - 1 \in 0 .. e /\ ~ (d <= d - 1)
    BY <2>4, <2>5
  <2>7. p[d - 1] = g[d - 1]
    BY <2>3, <2>6 DEF Bad
  <2>8. p[d] = base * p[d - 1] /\ g[d] = base * g[d - 1]
    BY <1>3, <1>7, <2>4, <2>5
  <2>. QED  BY <2>4, <2>7, <2>8
<1>9. e \in 0 .. e
  OBVIOUS
<1>. QED  BY <1>2, <1>8, <1>9

LEMMA PowerStep ==
  ASSUME NEW base \in Nat, NEW e \in Nat
  PROVE  /\ Power(base, e) \in Nat /\ Power(base, 0) = 1
         /\ Power(base, e + 1) = base * Power(base, e)
<1>0. e + 1 \in Nat /\ 0 \in Nat
  OBVIOUS
<1>1. PICK h : Powers(base, 0, h)
  BY <1>0, PowersExist
<1>2. Power(base, 0) = h[0] /\ h[0] = 1
  BY <1>0, <1>1, PowerIn DEF Powers
<1>3. PICK g : Powers(base, e + 1, g)
  BY <1>0, PowersExist
<1>4. /\ g \in [0 .. (e + 1) -> Nat] /\ g[0] = 1
      /\ \A x \in 1 .. (e + 1) : g[x] = base * g[x - 1]
  BY <1>3 DEF Powers
<1>5. Power(base, e + 1) = g[e + 1]
  BY <1>0, <1>3, PowerIn
<1> DEFINE f == [x \in 0 .. e |-> g[x]]
<1>6. Powers(base, e, f)
  <2>1. f \in [0 .. e -> Nat] /\ f[0] = 1
    BY <1>4
  <2>2. \A x \in 1 .. e : f[x] = base * f[x - 1]
    BY <1>4
  <2> HIDE DEF f
  <2>. QED  BY <2>1, <2>2 DEF Powers
<1>7. f[e] = g[e] /\ g[e] \in Nat
  BY <1>4
<1> HIDE DEF f
<1>8. Power(base, e) = g[e]
  BY <1>6, <1>7, PowerIn
<1>9. g[e + 1] = base * g[e]
  <2>1. PICK z \in 1 .. (e + 1) : z = e + 1 /\ z - 1 = e
    BY <1>0
  <2>2. g[z] = base * g[z - 1]
    BY <1>4
  <2>. QED  BY ONLY <2>1, <2>2, Zenon
<1>. QED  BY <1>2, <1>5, <1>7, <1>8, <1>9

(* Powers outgrow their exponents. *)
LEMMA PowerGrows ==
  ASSUME NEW base \in Nat, base > 1, NEW e \in Nat
  PROVE  Power(base, e) > e
<1> DEFINE Bad == {x \in Nat : ~ (Power(base, x) > x)}
<1>1. SUFFICES ASSUME Bad # {} PROVE FALSE
  OBVIOUS
<1>2. PICK d \in Bad : \A x \in Bad : d <= x
  BY <1>1, LeastMember
<1>3. d \in Nat /\ ~ (Power(base, d) > d)
  OBVIOUS
<1>4. d # 0
  BY <1>3, PowerStep
<1>5. PICK c \in Nat : d = c + 1 /\ ~ (d <= c)
  <2>1. d - 1 \in Nat /\ d = d - 1 + 1 /\ ~ (d <= d - 1)
    BY <1>3, <1>4
  <2>. QED  BY <2>1
<1>6. Power(base, c) > c
  BY <1>2, <1>5
<1>7. PICK p \in Nat : p = Power(base, c) /\ Power(base, d) = base * p
  BY <1>5, PowerStep
<1>8. base * p >= 2 * p
  BY Z3
<1>. QED  BY <1>3, <1>5, <1>6, <1>7, <1>8, Z3

(* n digits are needed for v, and no more. *)
Needs(n, v, base) ==
  n \in 1 .. (v + 1) /\ Power(base, n) > v /\ \A m \in 1 .. (n - 1) : Power(base, m) <= v

LEMMA LengthIs ==
  ASSUME NEW base \in Nat, base > 1, NEW v \in Nat
  PROVE  /\ Needs(NumeralLength(v, base), v, base)
         /\ \A n : Needs(n, v, base) => n = NumeralLength(v, base)
<1> DEFINE Enough == {n \in 1 .. (v + 1) : Power(base, n) > v}
<1>1. v + 1 \in Enough
  <2>1. v + 1 \in Nat /\ v + 1 \in 1 .. (v + 1) /\ Power(base, v + 1) \in Nat
    BY PowerStep
  <2>2. Power(base, v + 1) > v + 1
    BY <2>1, PowerGrows
  <2>. QED  BY <2>1, <2>2
<1>2. Enough \in SUBSET Nat /\ Enough # {}
  BY <1>1
<1>3. PICK d \in Enough : \A n \in Enough : d <= n
  <2> HIDE DEF Enough
  <2>. QED  BY <1>2, LeastMember
<1>4. d \in 1 .. (v + 1) /\ Power(base, d) > v
  OBVIOUS
<1>5. ASSUME NEW m \in 1 .. (d - 1) PROVE Power(base, m) <= v
  <2>1. m \in 1 .. (v + 1) /\ m \in Nat /\ ~ (d <= m)
    BY <1>4
  <2>2. ~ (Power(base, m) > v)
    BY <1>3, <2>1
  <2>3. Power(base, m) \in Nat
    BY <2>1, PowerStep
  <2>. QED  BY <2>2, <2>3
<1>6. /\ d \in 1 .. (v + 1)
      /\ Power(base, d) > v /\ \A m \in 1 .. (d - 1) : Power(base, m) <= v
  BY <1>4, <1>5
<1>7. Needs(NumeralLength(v, base), v, base)
  BY <1>6 DEF Needs, NumeralLength
<1>8. ASSUME NEW n, NEW l, Needs(n, v, base), Needs(l, v, base) PROVE ~ (n < l)
  <2>1. SUFFICES ASSUME n < l PROVE FALSE
    OBVIOUS
  <2>2. n \in Nat /\ n \in 1 .. (l - 1) /\ Power(base, n) > v
    BY <1>8, <2>1 DEF Needs
  <2>3. Power(base, n) <= v /\ Power(base, n) \in Nat
    BY <1>8, <2>2, PowerStep DEF Needs
  <2>. QED  BY <2>2, <2>3
<1>9. ASSUME NEW n, Needs(n, v, base) PROVE n = NumeralLength(v, base)
  <2>1. PICK l : l = NumeralLength(v, base)
    OBVIOUS
  <2>2. n \in Nat /\ l \in Nat /\ ~ (n < l) /\ ~ (l < n)
    BY <1>7, <1>8, <1>9, <2>1 DEF Needs
  <2>. QED  BY <2>1, <2>2
<1>. QED  BY <1>7, <1>9

(* Without its last digit a numeral is that of the quotient. *)
LEMMA LengthStep ==
  ASSUME NEW base \in Nat, base > 1, NEW v \in Nat, v > 0
  PROVE  NumeralLength(v, base) =
           IF v \div base = 0 THEN 1 ELSE NumeralLength(v \div base, base) + 1
<1>1. PICK q \in Nat, r \in 0 .. (base - 1) : q = v \div base /\ v = q * base + r /\ q < v
  BY DivMod
<1>2. 0 \in Nat /\ 0 + 1 = 1 /\ Power(base, 0) = 1 /\ Power(base, 0 + 1) = base * Power(base, 0)
  BY PowerStep
<1>3. Power(base, 1) = base
  BY <1>2
<1>4. CASE q = 0
  <2>1. 1 \in 1 .. (v + 1) /\ Power(base, 1) > v /\ 1 .. (1 - 1) = {}
    BY <1>1, <1>3, <1>4
  <2>2. Needs(1, v, base)
    BY <2>1 DEF Needs
  <2>. QED  BY <1>1, <1>4, <2>2, LengthIs
<1>5. CASE q # 0
  <2>1. PICK n : n = NumeralLength(q, base)
    OBVIOUS
  <2>2. /\ n \in 1 .. (q + 1) /\ Power(base, n) > q
        /\ \A m \in 1 .. (n - 1) : Power(base, m) <= q
    BY <2>1, LengthIs DEF Needs
  <2>3. n \in Nat /\ n + 1 \in 1 .. (v + 1)
    BY <1>1, <2>2
  <2>4. Power(base, n + 1) > v
    <3>1. PICK p \in Nat : p = Power(base, n) /\ Power(base, n + 1) = base * p
      BY <2>3, PowerStep
    <3>2. p >= q + 1
      BY <2>2, <3>1
    <3>3. base * p >= base * (q + 1) /\ base * (q + 1) = q * base + base
      BY <3>2, Z3
    <3>. QED  BY <1>1, <3>1, <3>3, Z3
  <2>5. ASSUME NEW m \in 1 .. n PROVE Power(base, m) <= v
    <3>1. CASE m = 1
      <4>1. q * base >= base
        BY <1>5, Z3
      <4>. QED  BY <1>1, <1>3, <3>1, <4>1, Z3
    <3>2. CASE m # 1
      <4>1. PICK l \in Nat : m = l + 1 /\ l \in 1 .. (n - 1)
        <5>1. m - 1 \in Nat /\ m = m - 1 + 1 /\ m - 1 \in 1 .. (n - 1)
          BY <2>3, <3>2
        <5>. QED  BY <5>1
      <4>2. PICK p \in Nat : p = Power(base, l) /\ Power(base, m) = base * p
        BY <4>1, PowerStep
      <4>3. p <= q
        BY <2>2, <4>1, <4>2
      <4>4. base * p <= q * base
        BY <4>3, Z3
      <4>5. q * base \in Nat /\ base * p \in Nat
        BY Z3
      <4>. QED  BY <1>1, <4>2, <4>4, <4>5, Z3
    <3>. QED  BY <3>1, <3>2
  <2>6. n + 1 - 1 = n
    BY <2>3
  <2>7. Needs(n + 1, v, base)
    BY <2>3, <2>4, <2>5, <2>6 DEF Needs
  <2>8. NumeralLength(v, base) = n + 1
    BY <2>7, LengthIs
  <2>. QED  BY <1>1, <1>5, <2>1, <2>8
<1>. QED  BY <1>4, <1>5

(* The digits of v, the lowest first, one by one. *)
LowDigits(v, base) ==
  [x \in 1 .. (IF v = 0 THEN 0 ELSE NumeralLength(v, base)) |->
     Digits[((v \div Power(base, x - 1)) % base) + 1]]

(* The symbols of the digits. *)
DigitSet == {Digits[n] : n \in 1 .. 16}

LEMMA DigitIn ==
  ASSUME NEW base \in 2 .. 16, NEW v \in Nat
  PROVE  Digits[(v % base) + 1] \in DigitSet
<1>1. v % base \in 0 .. (base - 1)
  BY DivMod
<1>2. PICK n \in 1 .. 16 : n = (v % base) + 1
  BY <1>1
<1>. QED  BY <1>2 DEF DigitSet

LEMMA PowerPositive ==
  ASSUME NEW base \in 2 .. 16, NEW x \in Nat
  PROVE  Power(base, x) \in Nat /\ Power(base, x) > 0
<1>1. base \in Nat /\ base > 1
  OBVIOUS
<1>2. Power(base, x) \in Nat /\ Power(base, x) > x
  BY <1>1, PowerStep, PowerGrows
<1>. QED  BY <1>2

LEMMA LowDigitsIn ==
  ASSUME NEW base \in 2 .. 16, NEW v \in Nat
  PROVE  /\ LowDigits(v, base) \in Seq(DigitSet)
         /\ Len(LowDigits(v, base)) = IF v = 0 THEN 0 ELSE NumeralLength(v, base)
         /\ \A x \in 1 .. Len(LowDigits(v, base)) :
              LowDigits(v, base)[x] = Digits[((v \div Power(base, x - 1)) % base) + 1]
<1>1. PICK l : l = IF v = 0 THEN 0 ELSE NumeralLength(v, base)
  OBVIOUS
<1>2. l \in Nat
  <2>1. NumeralLength(v, base) \in 1 .. (v + 1)
    BY LengthIs DEF Needs
  <2>. QED  BY <1>1, <2>1
<1>3. ASSUME NEW x \in 1 .. l
      PROVE  Digits[((v \div Power(base, x - 1)) % base) + 1] \in DigitSet
  <2>1. x - 1 \in Nat
    BY <1>2
  <2>2. PICK q \in Nat : q = v \div Power(base, x - 1)
    BY <2>1, PowerPositive, DivMod
  <2>. QED  BY <2>2, DigitIn
<1>4. PICK t : t = [x \in 1 .. l |-> Digits[((v \div Power(base, x - 1)) % base) + 1]]
  OBVIOUS
<1>5. /\ t \in [1 .. l -> DigitSet]
      /\ \A x \in 1 .. l : t[x] = Digits[((v \div Power(base, x - 1)) % base) + 1]
  BY <1>3, <1>4
<1>6. t \in Seq(DigitSet) /\ Len(t) = l
  BY <1>2, <1>5
<1>7. LowDigits(v, base) = t
  BY <1>1, <1>4 DEF LowDigits
<1>. QED  BY <1>1, <1>5, <1>6, <1>7

LEMMA LowDigitsStep ==
  ASSUME NEW base \in 2 .. 16, NEW v \in Nat, v > 0
  PROVE  LowDigits(v, base) = <<Digits[(v % base) + 1]>> \o LowDigits(v \div base, base)
<1>1. PICK q \in Nat : q = v \div base
  BY DivMod
<1>2. PICK t, u, c : /\ t = LowDigits(v, base) /\ u = LowDigits(q, base)
                     /\ c = Digits[(v % base) + 1]
  OBVIOUS
<1>3. /\ t \in Seq(DigitSet) /\ Len(t) = IF v = 0 THEN 0 ELSE NumeralLength(v, base)
      /\ \A x \in 1 .. Len(t) : t[x] = Digits[((v \div Power(base, x - 1)) % base) + 1]
  BY <1>2, LowDigitsIn
<1>4. /\ u \in Seq(DigitSet) /\ Len(u) = IF q = 0 THEN 0 ELSE NumeralLength(q, base)
      /\ \A x \in 1 .. Len(u) : u[x] = Digits[((q \div Power(base, x - 1)) % base) + 1]
  BY <1>2, LowDigitsIn
<1>5. c \in DigitSet
  BY <1>2, DigitIn
<1>6. Len(t) = Len(u) + 1 /\ Len(u) \in Nat /\ Len(t) \in Nat
  <2>1. Len(t) = IF q = 0 THEN 1 ELSE NumeralLength(q, base) + 1
    BY <1>1, <1>3, LengthStep
  <2>2. Len(u) \in Nat
    BY <1>4
  <2>. QED  BY <1>4, <2>1, <2>2
<1>7. t[1] = c
  <2>0. 1 - 1 = 0 /\ 0 \in Nat /\ base \in Nat /\ 1 \in 1 .. Len(t)
    BY <1>6
  <2>1. Power(base, 1 - 1) = 1 /\ 1 \in 1 .. Len(t)
    BY <2>0, PowerStep
  <2>2. t[1] = Digits[((v \div Power(base, 1 - 1)) % base) + 1]
    BY <1>3, <2>1
  <2>3. v \div 1 = v
    BY QuotientIs
  <2>. QED  BY <1>2, <2>1, <2>2, <2>3
<1>8. ASSUME NEW x \in 1 .. Len(u) PROVE t[1 + x] = u[x]
  <2>1. 1 + x \in 1 .. Len(t) /\ 1 + x - 1 = x /\ x - 1 \in Nat /\ x - 1 + 1 = x
    BY <1>6
  <2>2. t[1 + x] = Digits[((v \div Power(base, 1 + x - 1)) % base) + 1]
    BY <1>3, <2>1
  <2>3. t[1 + x] = Digits[((v \div Power(base, x)) % base) + 1]
    BY <2>1, <2>2
  <2>4. u[x] = Digits[((q \div Power(base, x - 1)) % base) + 1]
    BY <1>4
  <2>5. PICK p \in Nat : p = Power(base, x - 1) /\ p > 0 /\ Power(base, x) = base * p
    <3>1. PICK l \in Nat : l = x - 1 /\ l + 1 = x
      BY <2>1
    <3>2. Power(base, l) \in Nat /\ Power(base, l) > 0
      BY PowerPositive
    <3>3. Power(base, l + 1) = base * Power(base, l)
      <4>1. base \in Nat
        OBVIOUS
      <4>. QED  BY <4>1, PowerStep
    <3>. QED  BY <3>1, <3>2, <3>3
  <2>6. (v \div base) \div p = v \div (base * p)
    BY <2>5, DivDiv
  <2>7. v \div Power(base, x) = q \div Power(base, x - 1)
    BY <1>1, <2>5, <2>6
  <2>. QED  BY <2>3, <2>4, <2>7
<1>9. PICK a : a = <<c>>
  OBVIOUS
<1>10. a \in Seq(DigitSet) /\ Len(a) = 1 /\ a[1] = c
  <2>1. <<c>> \in Seq(DigitSet) /\ Len(<<c>>) = 1 /\ <<c>>[1] = c
    BY <1>5
  <2>. QED  BY <1>9, <2>1
<1>11. PICK b : b = a \o u
  OBVIOUS
<1>12. /\ b \in Seq(DigitSet) /\ Len(b) = 1 + Len(u) /\ b[1] = c
       /\ \A x \in 1 .. Len(u) : b[1 + x] = u[x]
  <2>1. /\ b \in Seq(DigitSet) /\ Len(b) = Len(a) + Len(u)
        /\ \A x \in 1 .. Len(a) : b[x] = a[x]
        /\ \A x \in 1 .. Len(u) : b[Len(a) + x] = u[x]
    <3>1. a \in Seq(DigitSet) /\ u \in Seq(DigitSet)
      BY <1>4, <1>10
    <3>2. /\ a \o u \in Seq(DigitSet) /\ Len(a \o u) = Len(a) + Len(u)
          /\ \A x \in 1 .. Len(a) : (a \o u)[x] = a[x]
          /\ \A x \in 1 .. Len(u) : (a \o u)[Len(a) + x] = u[x]
      BY <3>1, Joins
    <3>. QED  BY <1>11, <3>2
  <2>. QED  BY <1>10, <2>1
<1>13. t = b
  <2>1. Len(t) = Len(b)
    BY <1>6, <1>12
  <2>2. ASSUME NEW x \in 1 .. Len(t) PROVE t[x] = b[x]
    <3>1. CASE x = 1
      BY <1>7, <1>12, <3>1
    <3>2. CASE x # 1
      <4>1. PICK y \in 1 .. Len(u) : x = 1 + y
        <5>1. x - 1 \in 1 .. Len(u) /\ x = 1 + (x - 1)
          BY <1>6, <3>2
        <5>. QED  BY <5>1
      <4>. QED  BY <1>8, <1>12, <4>1
    <3>. QED  BY <3>1, <3>2
  <2>. QED  BY <1>3, <1>12, <2>1, <2>2, SeqEqual
<1>. QED  BY <1>1, <1>2, <1>9, <1>11, <1>13

LEMMA LowFirstIs ==
  ASSUME NEW base \in 2 .. 16, NEW v \in 0 .. (WordMod + CountMod)
  PROVE  LowFirst(v, base) = LowDigits(v, base)
<1>0. WordMod \in Nat /\ CountMod \in Nat
  BY ConsoleAssumption
<1> DEFINE M == WordMod + CountMod
           d[x \in 0 .. M] ==
             IF x = 0 THEN <<>> ELSE <<Digits[(x % base) + 1]>> \o d[x \div base]
           R(f) == f = [x \in 0 .. M |->
                          IF x = 0 THEN <<>> ELSE <<Digits[(x % base) + 1]>> \o f[x \div base]]
           w == [x \in 0 .. M |-> LowDigits(x, base)]
<1>1. LowFirst(v, base) = d[v]
  BY DEF LowFirst
<1>2. ASSUME NEW x \in 0 .. M, x # 0 PROVE x \div base \in 0 .. M /\ x \div base < x
  <2>1. x \in Nat /\ M \in Nat
    BY <1>0
  <2>2. x \div base \in Nat /\ x \div base < x
    BY <1>2, <2>1, DivMod
  <2>. QED  BY <2>1, <2>2
<1>3. ASSUME NEW x \in 0 .. M
      PROVE  w[x] = IF x = 0 THEN <<>> ELSE <<Digits[(x % base) + 1]>> \o w[x \div base]
  <2>1. CASE x = 0
    <3>1. LowDigits(x, base) \in Seq(DigitSet) /\ Len(LowDigits(x, base)) = 0
      BY <2>1, LowDigitsIn
    <3>. QED  BY <2>1, <3>1, EmptySeq
  <2>2. CASE x # 0
    <3>1. w[x \div base] = LowDigits(x \div base, base)
      BY <1>2, <2>2
    <3>2. x \in Nat /\ x > 0
      BY <1>0, <2>2
    <3>. QED  BY <2>2, <3>1, <3>2, LowDigitsStep
  <2>. QED  BY <2>1, <2>2
<1>4. R(w)
  BY <1>3
<1>5. d = CHOOSE f : R(f)
  OBVIOUS
<1>6. \A x \in 0 .. M : w[x] = LowDigits(x, base)
  OBVIOUS
<1> HIDE DEF R
<1>7. R(d)
  BY <1>4, <1>5
<1> HIDE DEF d, w
<1>8. \A x \in 0 .. M :
        d[x] = IF x = 0 THEN <<>> ELSE <<Digits[(x % base) + 1]>> \o d[x \div base]
  BY <1>7 DEF R
<1> DEFINE Bad == {x \in 0 .. M : d[x] # w[x]}
<1>9. Bad = {}
  <2>1. SUFFICES ASSUME Bad # {} PROVE FALSE
    OBVIOUS
  <2>2. Bad \in SUBSET Nat
    BY <1>0
  <2> HIDE DEF Bad
  <2>3. PICK e \in Bad : \A x \in Bad : e <= x
    BY <2>1, <2>2, LeastMember
  <2>4. e \in 0 .. M /\ d[e] # w[e]
    BY DEF Bad
  <2>5. e # 0
    BY <1>3, <1>8, <2>4
  <2>6. PICK q \in 0 .. M : q = e \div base /\ ~ (e <= q)
    <3>1. e \in Int /\ e \div base \in 0 .. M /\ e \div base < e
      BY <1>0, <1>2, <2>4, <2>5
    <3>. QED  BY <1>0, <3>1
  <2>7. d[q] = w[q]
    BY <2>3, <2>6 DEF Bad
  <2>8. /\ d[e] = <<Digits[(e % base) + 1]>> \o d[q]
        /\ w[e] = <<Digits[(e % base) + 1]>> \o w[q]
    BY <1>3, <1>8, <2>4, <2>5, <2>6
  <2>. QED  BY <2>4, <2>7, <2>8
<1>. QED  BY <1>1, <1>6, <1>9

(* Reversed, the digits are the numeral. *)
LEMMA UitoaIs ==
  ASSUME NEW base \in 2 .. 16, NEW v \in 0 .. (WordMod + CountMod)
  PROVE  uitoa(v, base) = Numeral(v, base) /\ uitoa(v, base) \in Seq(DigitSet)
<1>0. WordMod \in Nat /\ CountMod \in Nat /\ v \in Nat
  BY ConsoleAssumption
<1>1. PICK n : n = NumeralLength(v, base)
  OBVIOUS
<1>2. n \in 1 .. (v + 1) /\ n \in Nat
  BY <1>0, <1>1, LengthIs DEF Needs
<1>3. Numeral(v, base) = [d \in 1 .. n |-> Digits[((v \div Power(base, n - d)) % base) + 1]]
  BY <1>1 DEF Numeral
<1>4. CASE v = 0
  <2>1. n = 1 /\ 1 - 1 = 0
    BY <1>2, <1>4
  <2>2. Power(base, 0) = 1
    <3>1. base \in Nat /\ 0 \in Nat
      OBVIOUS
    <3>. QED  BY <3>1, PowerStep
  <2>3. 0 \div 1 = 0 /\ 0 % base = 0
    <3>1. 0 \div 1 = 0
      BY QuotientIs
    <3>2. 0 % base = 0
      BY Z3
    <3>. QED  BY <3>1, <3>2
  <2>4. ASSUME NEW d \in 1 .. n PROVE Digits[((v \div Power(base, n - d)) % base) + 1] = Digits[1]
    <3>1. n - d = 0
      BY <2>1
    <3>. QED  BY <1>4, <2>2, <2>3, <3>1
  <2>5. Numeral(v, base) = [d \in 1 .. 1 |-> Digits[1]]
    BY <1>3, <2>1, <2>4
  <2>6. Digits[1] = "0"
    BY DEF Digits
  <2>7. uitoa(v, base) = <<"0">>
    BY <1>4 DEF uitoa
  <2>8. "0" \in DigitSet
    BY <2>6 DEF DigitSet
  <2>9. [d \in 1 .. 1 |-> Digits[1]] = <<Digits[1]>>
    OBVIOUS
  <2>. QED  BY <2>5, <2>6, <2>7, <2>8, <2>9
<1>5. CASE v # 0
  <2>1. PICK t : t = LowDigits(v, base)
    OBVIOUS
  <2>2. /\ t \in Seq(DigitSet) /\ Len(t) = IF v = 0 THEN 0 ELSE NumeralLength(v, base)
        /\ \A x \in 1 .. Len(t) : t[x] = Digits[((v \div Power(base, x - 1)) % base) + 1]
    BY <1>0, <2>1, LowDigitsIn
  <2>3. Len(t) = n
    BY <1>1, <1>5, <2>2
  <2>4. uitoa(v, base) = [d \in 1 .. n |-> t[n - d + 1]]
    BY <1>5, <2>1, <2>3, LowFirstIs DEF uitoa, Reverse
  <2>5. ASSUME NEW d \in 1 .. n
        PROVE  /\ t[n - d + 1] = Digits[((v \div Power(base, n - d)) % base) + 1]
               /\ t[n - d + 1] \in DigitSet
    <3>1. PICK x \in 1 .. n : x = n - d + 1 /\ x - 1 = n - d
      <4>1. PICK y : y = n - d + 1
        OBVIOUS
      <4>2. y \in 1 .. n /\ y - 1 = n - d
        BY <1>2, <4>1
      <4>. QED  BY <4>1, <4>2
    <3>2. t[x] = Digits[((v \div Power(base, x - 1)) % base) + 1] /\ t[x] \in DigitSet
      BY <2>2, <2>3, ElementOfSeq
    <3>. QED  BY <3>1, <3>2
  <2>6. uitoa(v, base) = Numeral(v, base)
    BY <1>3, <2>4, <2>5
  <2>7. uitoa(v, base) \in [1 .. n -> DigitSet]
    BY <2>4, <2>5
  <2>. QED  BY <1>2, <2>6, <2>7
<1>. QED  BY <1>4, <1>5

-----------------------------------------------------------------------------
(* What printf prints for an item, and what it means.                      *)

Printed(item) == IF IsConversion(item) THEN Conversion(item.conv, item.arg) ELSE <<item.chr>>

LEMMA OneSymbol == ASSUME NEW c PROVE IsSequence(<<c>>)
<1>1. <<c>> \in Seq({c})
  OBVIOUS
<1>. QED  BY <1>1, SequenceIs

(* Put together, sequences are sequences. *)
LEMMA TwoSequences ==
  ASSUME NEW s, NEW t, IsSequence(s), IsSequence(t) PROVE IsSequence(s \o t)
<1>1. PICK S : S = {s[m] : m \in DOMAIN s} \cup {t[m] : m \in DOMAIN t}
  OBVIOUS
<1>2. s \in Seq({s[m] : m \in DOMAIN s}) /\ t \in Seq({t[m] : m \in DOMAIN t})
  BY DEF IsSequence
<1>3. s \in Seq(S)
  <2>1. Len(s) \in Nat /\ s \in [1 .. Len(s) -> S]
    BY <1>1, <1>2
  <2>. QED  BY <2>1
<1>4. t \in Seq(S)
  <2>1. Len(t) \in Nat /\ t \in [1 .. Len(t) -> S]
    BY <1>1, <1>2
  <2>. QED  BY <2>1
<1>5. s \o t \in Seq(S)
  BY <1>3, <1>4, Joins
<1>. QED  BY <1>5, SequenceIs

LEMMA ItoaIs ==
  ASSUME NEW word \in 0 .. (WordMod - 1)
  PROVE  /\ IsSequence(itoa(Signed(word)))
         /\ Signed(word) # INT_MIN =>
              itoa(Signed(word)) = IF Signed(word) < 0 THEN <<"-">> \o Numeral(- Signed(word), 10)
                                   ELSE Numeral(Signed(word), 10)
<1>0. WordMod \in Nat /\ WordMod > 0 /\ CountMod \in Nat
  BY ConsoleAssumption
<1>1. PICK v : v = Signed(word)
  OBVIOUS
<1>2. v \in Int /\ (v >= 0 => v \in 0 .. (WordMod + CountMod))
      /\ (v < 0 => - v \in 0 .. (WordMod + CountMod))
  BY <1>0, <1>1 DEF Signed
<1>3. CASE v >= 0
  <2>1. uitoa(v, 10) = Numeral(v, 10) /\ uitoa(v, 10) \in Seq(DigitSet)
    BY <1>2, <1>3, UitoaIs
  <2>2. itoa(v) = uitoa(v, 10) /\ ~ (v < 0)
    BY <1>2, <1>3 DEF itoa
  <2>. QED  BY <1>1, <2>1, <2>2, SequenceIs
<1>4. CASE v < 0
  <2>1. PICK u : u = uitoa(- v, 10)
    OBVIOUS
  <2>2. u = Numeral(- v, 10) /\ u \in Seq(DigitSet)
    BY <1>2, <1>4, <2>1, UitoaIs
  <2>3. ~ (v >= 0)
    BY <1>2, <1>4
  <2>4. itoa(v) = <<"-">> \o (IF v = INT_MIN THEN [n \in DOMAIN u |-> "junk"] ELSE u)
    BY <2>1, <2>3 DEF itoa
  <2>5. IsSequence([n \in DOMAIN u |-> "junk"]) /\ IsSequence(u)
    <3>1. Len(u) \in Nat /\ DOMAIN u = 1 .. Len(u)
      BY <2>2
    <3>2. [n \in DOMAIN u |-> "junk"] \in Seq({"junk"})
      BY <3>1
    <3>. QED  BY <2>2, <3>2, SequenceIs
  <2>6. IsSequence(<<"-">>)
    BY OneSymbol
  <2>7. IsSequence(itoa(v))
    BY <2>4, <2>5, <2>6, TwoSequences
  <2>. QED  BY <1>1, <1>4, <2>2, <2>4, <2>7
<1>. QED  BY <1>2, <1>3, <1>4

LEMMA PrintedIs ==
  ASSUME NEW item, Handled(item)
  PROVE  IsSequence(Printed(item)) /\ (~ Overflows(item) => Printed(item) = Meant(item))
<1> DEFINE c == item.conv
           arg == item.arg
           p == Printed(item)
<1>1. item.width = 0
  BY DEF Handled
<1>2. IsConversion(item) <=> c # "literal"
  BY DEF IsConversion
<1>3. ASSUME IsConversion(item)
      PROVE  arg.word \in 0 .. (WordMod - 1) /\ IsSequence(arg.str) /\ p = Conversion(c, arg)
  BY <1>3 DEF Handled, Printed
<1>4. IsSequence(p) /\ (~ Overflows(item) => p = Unpadded(item))
  <2>1. CASE c = "literal"
    <3>1. p = <<item.chr>> /\ Unpadded(item) = <<item.chr>>
      BY <1>2, <2>1 DEF Printed, Unpadded
    <3>. QED  BY <3>1, OneSymbol
  <2>2. CASE c = "s"
    <3>1. p = (IF arg.word = 0 THEN <<"(null)">> ELSE arg.str) /\ Unpadded(item) = p
      BY <1>2, <1>3, <2>2 DEF Conversion, Unpadded
    <3>2. IsSequence(arg.str) /\ IsSequence(<<"(null)">>)
      BY <1>2, <1>3, <2>2, OneSymbol
    <3>. QED  BY <3>1, <3>2
  <2>3. CASE c = "c"
    <3>1. p = <<arg.chr>> /\ Unpadded(item) = p
      BY <1>2, <1>3, <2>3 DEF Conversion, Unpadded
    <3>. QED  BY <3>1, OneSymbol
  <2>4. CASE c \in {"d", "i"}
    <3>1. IsConversion(item) /\ arg.word \in 0 .. (WordMod - 1)
      BY <1>2, <1>3, <2>4
    <3>2. p = itoa(Signed(arg.word))
      BY <1>3, <2>4, <3>1 DEF Conversion
    <3>3. Unpadded(item) = IF Signed(arg.word) < 0 THEN <<"-">> \o Numeral(- Signed(arg.word), 10)
                           ELSE Numeral(Signed(arg.word), 10)
      BY <2>4 DEF Unpadded
    <3>4. ~ Overflows(item) => Signed(arg.word) # INT_MIN
      BY <2>4 DEF Overflows
    <3> HIDE DEF p, c, arg
    <3>. QED  BY <3>1, <3>2, <3>3, <3>4, ItoaIs
  <2>5. CASE c = "u"
    <3>1. p = uitoa(arg.word, 10) /\ Unpadded(item) = Numeral(arg.word, 10)
      BY <1>2, <1>3, <2>5 DEF Conversion, Unpadded
    <3>2. arg.word \in 0 .. (WordMod + CountMod)
      BY <1>2, <1>3, <2>5, ConsoleAssumption
    <3>3. p = Numeral(arg.word, 10) /\ p \in Seq(DigitSet)
      BY <3>1, <3>2, UitoaIs
    <3>. QED  BY <3>1, <3>3, SequenceIs
  <2>6. CASE c \in {"x", "X"}
    <3>1. /\ p = <<"0", "x">> \o uitoa(arg.word, 16)
          /\ Unpadded(item) = <<"0", "x">> \o Numeral(arg.word, 16)
      BY <1>2, <1>3, <2>6 DEF Conversion, Unpadded
    <3>2. arg.word \in 0 .. (WordMod + CountMod)
      BY <1>2, <1>3, <2>6, ConsoleAssumption
    <3>3. uitoa(arg.word, 16) = Numeral(arg.word, 16) /\ uitoa(arg.word, 16) \in Seq(DigitSet)
      BY <3>2, UitoaIs
    <3>4. IsSequence(<<"0", "x">>) /\ IsSequence(uitoa(arg.word, 16))
      <4>1. <<"0", "x">> \in Seq({"0", "x"})
        OBVIOUS
      <4>. QED  BY <3>3, <4>1, SequenceIs
    <3>5. IsSequence(<<"0", "x">> \o uitoa(arg.word, 16))
      BY <3>4, TwoSequences
    <3>. QED  BY <3>1, <3>3, <3>5
  <2>7. CASE c = "%"
    <3>1. p = <<"%">> /\ Unpadded(item) = p
      BY <1>2, <1>3, <2>7 DEF Conversion, Unpadded
    <3>. QED  BY <3>1, OneSymbol
  <2>8. CASE c \notin {"literal", "s", "c", "d", "i", "u", "x", "X", "%"}
    <3>1. p = <<"%", c>> /\ Unpadded(item) = p
      BY <1>2, <1>3, <2>8 DEF Conversion, Unpadded
    <3>2. <<"%", c>> \in Seq({"%", c})
      OBVIOUS
    <3>. QED  BY <3>1, <3>2, SequenceIs
  <2>. QED  BY <2>1, <2>2, <2>3, <2>4, <2>5, <2>6, <2>7, <2>8
<1>5. ASSUME p = Unpadded(item) PROVE Meant(item) = p
  <2>1. PICK t : t = Unpadded(item)
    OBVIOUS
  <2>2. IsSequence(t)
    BY <1>4, <1>5, <2>1
  <2>3. t \in Seq({t[m] : m \in DOMAIN t})
    BY <2>2 DEF IsSequence
  <2>4. Len(t) \in Nat
    BY <2>3, LenProperties
  <2>5. [n \in 1 .. (0 - Len(t)) |-> SP] = <<>>
    <3>1. 1 .. (0 - Len(t)) = {}
      BY <2>4
    <3>. QED  BY <3>1
  <2>6. t \o <<>> = t
    BY <2>3, ConcatEmptySeq
  <2>7. Meant(item) = t \o [n \in 1 .. (0 - Len(t)) |-> SP]
    BY <1>1, <2>1 DEF Meant
  <2>. QED  BY <1>5, <2>1, <2>5, <2>6, <2>7
<1>. QED  BY <1>4, <1>5

-----------------------------------------------------------------------------
(* The items of a call, one after another.                                 *)

Texts(c)   == [n \in DOMAIN c |-> Printed(c[n])]
Spelled(c) == [n \in DOMAIN c |-> Spelling(c[n])]
Takes(c)   == [n \in DOMAIN c |-> Taken(c[n])]

Pieces(s) == IsSequence(s) /\ \A n \in DOMAIN s : IsSequence(s[n])
AllOf(s)  == UNION {{s[n][x] : x \in DOMAIN s[n]} : n \in DOMAIN s}

(* What the first pieces of s are when put together. *)
Upto(s) == CHOOSE g : Joined(AllOf(s), s, Len(s), g)

LEMMA SequenceFacts ==
  ASSUME NEW s, IsSequence(s)
  PROVE  Len(s) \in Nat /\ DOMAIN s = 1 .. Len(s) /\ s \in Seq({s[n] : n \in DOMAIN s})
<1>1. s \in Seq({s[n] : n \in DOMAIN s})
  BY DEF IsSequence
<1>. QED  BY <1>1, LenProperties

LEMMA PiecesJoined ==
  ASSUME NEW s, Pieces(s)
  PROVE  /\ s \in Seq(Seq(AllOf(s))) /\ Joined(AllOf(s), s, Len(s), Upto(s))
         /\ FlattenSeq(s) = Upto(s)[Len(s)]
<1>1. Len(s) \in Nat /\ DOMAIN s = 1 .. Len(s) /\ s = [n \in 1 .. Len(s) |-> s[n]]
  <2>1. s \in Seq({s[n] : n \in DOMAIN s}) /\ Len(s) \in Nat /\ DOMAIN s = 1 .. Len(s)
    BY SequenceFacts DEF Pieces
  <2>. QED  BY <2>1
<1>2. ASSUME NEW n \in 1 .. Len(s) PROVE s[n] \in Seq(AllOf(s))
  <2>1. PICK t : t = s[n]
    OBVIOUS
  <2>2. t \in Seq({t[x] : x \in DOMAIN t}) /\ Len(t) \in Nat /\ DOMAIN t = 1 .. Len(t)
    BY <1>1, <2>1, SequenceFacts DEF Pieces
  <2>3. \A x \in DOMAIN t : t[x] \in AllOf(s)
    BY <1>1, <2>1 DEF AllOf
  <2>4. t \in [1 .. Len(t) -> AllOf(s)]
    BY <2>2, <2>3
  <2>. QED  BY <2>1, <2>2, <2>4
<1>3. s \in [1 .. Len(s) -> Seq(AllOf(s))]
  BY <1>1, <1>2
<1>4. s \in Seq(Seq(AllOf(s)))
  BY <1>1, <1>3
<1>5. Joined(AllOf(s), s, Len(s), Upto(s))
  <2>1. Len(s) \in 0 .. Len(s)
    BY <1>1
  <2>2. \E g : Joined(AllOf(s), s, Len(s), g)
    BY <1>4, <2>1, JoinedExists
  <2>. QED  BY <2>2 DEF Upto
<1>. QED  BY <1>4, <1>5, Flattened

(* The m-th piece in what they are put together to. *)
LEMMA UptoAt ==
  ASSUME NEW s, Pieces(s), NEW m \in Nat, m < Len(s)
  PROVE  Follows(Upto(s)[m], s[m + 1], Upto(s)[m + 1], FlattenSeq(s))
<1>1. Len(s) \in Nat
  BY SequenceFacts DEF Pieces
<1>2. PICK z \in 1 .. Len(s) : z = m + 1 /\ z - 1 = m
  <2>1. m + 1 \in 1 .. Len(s) /\ m + 1 - 1 = m
    BY <1>1
  <2>. QED  BY <2>1
<1>3. /\ s \in Seq(Seq(AllOf(s))) /\ Joined(AllOf(s), s, Len(s), Upto(s))
      /\ FlattenSeq(s) = Upto(s)[Len(s)]
  BY PiecesJoined
<1>4. Follows(Upto(s)[z - 1], s[z], Upto(s)[z], Upto(s)[Len(s)])
  BY <1>3, JoinedAt
<1>. QED  BY <1>2, <1>3, <1>4

LEMMA UptoEnds ==
  ASSUME NEW s, Pieces(s)
  PROVE  Upto(s)[0] = <<>> /\ Upto(s)[Len(s)] = FlattenSeq(s) /\ IsSequence(FlattenSeq(s))
<1>1. /\ s \in Seq(Seq(AllOf(s))) /\ Joined(AllOf(s), s, Len(s), Upto(s))
      /\ FlattenSeq(s) = Upto(s)[Len(s)]
  BY PiecesJoined
<1>2. Upto(s)[0] = <<>> /\ Upto(s) \in [0 .. Len(s) -> Seq(AllOf(s))]
  BY <1>1 DEF Joined
<1>3. Len(s) \in 0 .. Len(s)
  <2>1. Len(s) \in Nat
    BY SequenceFacts DEF Pieces
  <2>. QED  BY <2>1
<1>4. Upto(s)[Len(s)] \in Seq(AllOf(s))
  BY <1>2, <1>3
<1>. QED  BY <1>1, <1>2, <1>4, SequenceIs

LEMMA MapIs ==
  ASSUME NEW c, IsSequence(c), NEW t, t = [n \in DOMAIN c |-> t[n]],
         \A n \in DOMAIN c : IsSequence(t[n])
  PROVE  Pieces(t) /\ Len(t) = Len(c)
<1>1. Len(c) \in Nat /\ DOMAIN c = 1 .. Len(c)
  BY SequenceFacts
<1>2. DOMAIN t = 1 .. Len(c) /\ t = [n \in 1 .. Len(c) |-> t[n]]
  BY <1>1
<1>3. t \in [1 .. Len(c) -> {t[n] : n \in DOMAIN t}]
  BY <1>2
<1>4. t \in Seq({t[n] : n \in DOMAIN t}) /\ Len(t) = Len(c)
  BY <1>1, <1>2, <1>3
<1>. QED  BY <1>1, <1>2, <1>4 DEF Pieces, IsSequence

LEMMA CallPieces ==
  ASSUME NEW c, HandledCall(c)
  PROVE  /\ Len(c) \in Nat /\ DOMAIN c = 1 .. Len(c)
         /\ Pieces(Texts(c)) /\ Len(Texts(c)) = Len(c)
         /\ Pieces(Spelled(c)) /\ Len(Spelled(c)) = Len(c)
         /\ Pieces(Takes(c)) /\ Len(Takes(c)) = Len(c)
<1>1. IsSequence(c) /\ \A n \in DOMAIN c : Handled(c[n])
  BY DEF HandledCall
<1>2. Pieces(Texts(c)) /\ Len(Texts(c)) = Len(c)
  <2>1. PICK t : t = Texts(c)
    OBVIOUS
  <2>2. t = [n \in DOMAIN c |-> t[n]] /\ \A n \in DOMAIN c : t[n] = Printed(c[n])
    BY <2>1 DEF Texts
  <2>3. \A n \in DOMAIN c : IsSequence(t[n])
    BY <1>1, <2>2, PrintedIs
  <2>. QED  BY <1>1, <2>1, <2>2, <2>3, MapIs
<1>3. Pieces(Spelled(c)) /\ Len(Spelled(c)) = Len(c)
  <2>1. PICK t : t = Spelled(c)
    OBVIOUS
  <2>2. t = [n \in DOMAIN c |-> t[n]] /\ \A n \in DOMAIN c : t[n] = Spelling(c[n])
    BY <2>1 DEF Spelled
  <2>3. ASSUME NEW n \in DOMAIN c PROVE IsSequence(t[n])
    <3>1. PICK item : item = c[n]
      OBVIOUS
    <3>2. Handled(item) /\ t[n] = Spelling(item)
      BY <1>1, <2>2, <3>1
    <3>3. CASE IsConversion(item)
      <4>1. t[n] = <<"%">> \o <<>> \o <<item.conv>>
        BY <3>2, <3>3 DEF Handled, Spelling
      <4>2. <<>> \in Seq({}) /\ IsSequence(<<"%">>) /\ IsSequence(<<item.conv>>)
        BY OneSymbol
      <4>3. IsSequence(<<"%">> \o <<>> \o <<item.conv>>)
        BY <4>2, TwoSequences, SequenceIs
      <4>. QED  BY <4>1, <4>3
    <3>4. CASE ~ IsConversion(item)
      BY <3>2, <3>4, OneSymbol DEF Spelling
    <3>. QED  BY <3>3, <3>4
  <2>. QED  BY <1>1, <2>1, <2>2, <2>3, MapIs
<1>4. Pieces(Takes(c)) /\ Len(Takes(c)) = Len(c)
  <2>1. PICK t : t = Takes(c)
    OBVIOUS
  <2>2. t = [n \in DOMAIN c |-> t[n]] /\ \A n \in DOMAIN c : t[n] = Taken(c[n])
    BY <2>1 DEF Takes
  <2>3. ASSUME NEW n \in DOMAIN c PROVE IsSequence(t[n])
    <3>1. <<>> \in Seq({}) /\ IsSequence(<<c[n].arg>>)
      BY OneSymbol
    <3>2. IsSequence(<<>>)
      BY <3>1, SequenceIs
    <3>. QED  BY <2>2, <3>1, <3>2 DEF Taken
  <2>. QED  BY <1>1, <2>1, <2>2, <2>3, MapIs
<1>5. Len(c) \in Nat /\ DOMAIN c = 1 .. Len(c)
  BY <1>1, SequenceFacts
<1>. QED  BY <1>2, <1>3, <1>4, <1>5

-----------------------------------------------------------------------------
(* printf is at the beginning of an item: m of them are done.  What is due *)
(* has been sent to vga_putchar and not been printed.                      *)
At(c, i0, args0, text, m) ==
  /\ m \in 0 .. Len(c)
  /\ i0 = Len(Upto(Spelled(c))[m]) + 1
  /\ args0 = SubSeq(Arguments(c), Len(Upto(Takes(c))[m]) + 1, Len(Arguments(c)))
  /\ text = Upto(Texts(c))[m]

Due(p, q) == IF p = "print" THEN q ELSE IF p = "scroll" THEN Tail(q) ELSE <<>>

Progress(p, c, i0, args0, written, q, o) ==
  /\ p \in {"idle", "format", "print", "scroll"}
  /\ HandledCall(c) /\ IsSequence(o) /\ IsSequence(q)
  /\ p \in {"print", "scroll"} <=> q # <<>>
  /\ written = Len(o) + Len(Due(p, q))
  /\ IF p = "idle" THEN o = FlattenSeq(Texts(c))
     ELSE \E m \in 0 .. Len(c) : At(c, i0, args0, o \o Due(p, q), m)

PrintfInv == Progress(pc, call, i, args, chars_written, queue, out)

LEMMA FormatIs ==
  ASSUME NEW c PROVE Format(c) = FlattenSeq(Spelled(c)) /\ Arguments(c) = FlattenSeq(Takes(c))
BY DEF Format, Arguments, Spelled, Takes

LEMMA NothingTwice ==
  ASSUME NEW s, IsSequence(s)
  PROVE  s \o <<>> = s /\ (s # <<>> <=> Len(s) > 0) /\ IsSequence(<<>>) /\ Len(<<>>) = 0
<1>1. s \in Seq({s[n] : n \in DOMAIN s}) /\ Len(s) \in Nat
  BY SequenceFacts
<1>2. s \o <<>> = s /\ (s = <<>> <=> Len(s) = 0)
  BY <1>1, ConcatEmptySeq, EmptySeq
<1>3. <<>> \in Seq({}) /\ Len(<<>>) = 0
  OBVIOUS
<1>4. IsSequence(<<>>)
  BY <1>3, SequenceIs
<1>5. s # <<>> <=> Len(s) > 0
  BY <1>1, <1>2
<1>. QED  BY <1>2, <1>3, <1>4, <1>5

(* The first symbol due is printed. *)
LEMMA SymbolMoves ==
  ASSUME NEW o, NEW q, IsSequence(o), IsSequence(q), q # <<>>
  PROVE  /\ IsSequence(Append(o, Head(q))) /\ IsSequence(Tail(q))
         /\ Append(o, Head(q)) \o Tail(q) = o \o q
         /\ Len(Append(o, Head(q))) + Len(Tail(q)) = Len(o) + Len(q)
         /\ (Len(q) = 1 <=> Tail(q) = <<>>)
<1>1. PICK S : S = {o[n] : n \in DOMAIN o} \cup {q[n] : n \in DOMAIN q}
  OBVIOUS
<1>2. /\ Len(o) \in Nat /\ DOMAIN o = 1 .. Len(o) /\ o \in Seq({o[n] : n \in DOMAIN o})
      /\ Len(q) \in Nat /\ DOMAIN q = 1 .. Len(q) /\ q \in Seq({q[n] : n \in DOMAIN q})
  BY SequenceFacts
<1>3. o \in Seq(S)
  <2>1. o \in [1 .. Len(o) -> S]
    BY <1>1, <1>2
  <2>. QED  BY <1>2, <2>1
<1>4. q \in Seq(S)
  <2>1. q \in [1 .. Len(q) -> S]
    BY <1>1, <1>2
  <2>. QED  BY <1>2, <2>1
<1>5. Len(q) > 0
  BY NothingTwice
<1>6. PICK h, t : h = Head(q) /\ t = Tail(q)
  OBVIOUS
<1>7. /\ h \in S /\ h = q[1] /\ t \in Seq(S) /\ Len(t) = Len(q) - 1
      /\ \A x \in 1 .. Len(t) : t[x] = q[x + 1]
  BY <1>4, <1>5, <1>6, HeadTailProperties
<1>8. PICK a : a = Append(o, h)
  OBVIOUS
<1>9. /\ a \in Seq(S) /\ Len(a) = Len(o) + 1 /\ a[Len(o) + 1] = h
      /\ \A x \in 1 .. Len(o) : a[x] = o[x]
  BY <1>3, <1>7, <1>8, AppendProperties
<1>10. PICK u, v : u = a \o t /\ v = o \o q
  OBVIOUS
<1>11. /\ u \in Seq(S) /\ Len(u) = Len(a) + Len(t)
       /\ \A x \in 1 .. Len(a) : u[x] = a[x]
       /\ \A x \in 1 .. Len(t) : u[Len(a) + x] = t[x]
  <2>1. /\ a \o t \in Seq(S) /\ Len(a \o t) = Len(a) + Len(t)
        /\ \A x \in 1 .. Len(a) : (a \o t)[x] = a[x]
        /\ \A x \in 1 .. Len(t) : (a \o t)[Len(a) + x] = t[x]
    <3>1. a \in Seq(S) /\ t \in Seq(S)
      BY <1>7, <1>9
    <3>. QED  BY ONLY <3>1, Joins
  <2>. QED  BY <1>10, <2>1
<1>12. /\ v \in Seq(S) /\ Len(v) = Len(o) + Len(q)
       /\ \A x \in 1 .. Len(o) : v[x] = o[x]
       /\ \A x \in 1 .. Len(q) : v[Len(o) + x] = q[x]
  BY <1>3, <1>4, <1>10, Joins
<1>13. Len(u) = Len(v) /\ Len(t) \in Nat /\ Len(a) = Len(o) + 1 /\ Len(t) = Len(q) - 1
       /\ Len(u) = Len(o) + Len(q)
  BY <1>2, <1>7, <1>9, <1>11, <1>12
<1>14. ASSUME NEW x \in 1 .. Len(u) PROVE u[x] = v[x]
  <2>1. CASE x <= Len(o)
    <3>1. x \in 1 .. Len(o) /\ x \in 1 .. Len(a)
      BY <1>2, <1>9, <2>1
    <3>. QED  BY <1>9, <1>11, <1>12, <3>1
  <2>2. CASE x = Len(o) + 1
    <3>1. x \in 1 .. Len(a) /\ 1 \in 1 .. Len(q)
      BY <1>2, <1>5, <1>9, <2>2
    <3>. QED  BY <1>7, <1>9, <1>11, <1>12, <2>2, <3>1
  <2>3. CASE x > Len(o) + 1
    <3>1. PICK y : y = x - Len(a)
      OBVIOUS
    <3>2. y \in 1 .. Len(t) /\ x = Len(a) + y /\ y + 1 \in 1 .. Len(q) /\ x = Len(o) + (y + 1)
      BY <1>2, <1>13, <2>3, <3>1
    <3>3. u[x] = t[y] /\ t[y] = q[y + 1] /\ v[x] = q[y + 1]
      BY <1>7, <1>11, <1>12, <3>2
    <3>. QED  BY <3>3
  <2>4. x \in Int
    BY <1>13
  <2>. QED  BY <1>2, <2>1, <2>2, <2>3, <2>4
<1>15. u = v
  BY <1>11, <1>12, <1>13, <1>14, SeqEqual
<1>16. IsSequence(a) /\ IsSequence(t)
  BY <1>7, <1>9, SequenceIs
<1>17. Len(a) + Len(t) = Len(o) + Len(q)
  BY <1>2, <1>7, <1>9
<1>18. Len(q) = 1 <=> t = <<>>
  BY <1>2, <1>7, EmptySeq
<1>. QED  BY <1>6, <1>8, <1>10, <1>15, <1>16, <1>17, <1>18

(* One of the arguments that are left is taken. *)
LEMMA TakeOne ==
  ASSUME NEW A, IsSequence(A), NEW b \in Nat, b < Len(A)
  PROVE  /\ SubSeq(A, b + 1, Len(A)) # <<>> /\ Head(SubSeq(A, b + 1, Len(A))) = A[b + 1]
         /\ Tail(SubSeq(A, b + 1, Len(A))) = SubSeq(A, b + 1 + 1, Len(A))
<1>1. PICK S, l : S = {A[n] : n \in DOMAIN A} /\ l = Len(A)
  OBVIOUS
<1>2. l \in Nat /\ DOMAIN A = 1 .. l /\ A \in Seq(S) /\ b < l
  BY <1>1, SequenceFacts
<1>3. \A x \in 1 .. l : A[x] \in S
  BY <1>1, <1>2
<1>4. PICK s, t : s = SubSeq(A, b + 1, l) /\ t = SubSeq(A, b + 1 + 1, l)
  OBVIOUS
<1>5. /\ s \in Seq(S) /\ Len(s) = l - b /\ \A x \in 1 .. (l - b) : s[x] = A[b + x]
  <2>1. b + 1 \in Nat /\ b + 1 <= l /\ \A x \in (b + 1) .. l : A[x] \in S
    BY <1>2, <1>3
  <2>2. SubSeq(A, b + 1, l) = [x \in 1 .. (l - b) |-> A[b + x]]
    BY <1>2, <2>1
  <2>3. \A x \in 1 .. (l - b) : A[b + x] \in S
    BY <1>2, <1>3
  <2>4. s = [x \in 1 .. (l - b) |-> A[b + x]] /\ l - b \in Nat
    BY <1>2, <1>4, <2>2
  <2>5. PICK w : w = l - b
    OBVIOUS
  <2>6. /\ s = [x \in 1 .. w |-> A[b + x]] /\ w \in Nat
        /\ s \in [1 .. w -> S] /\ \A x \in 1 .. w : s[x] = A[b + x]
    BY <2>3, <2>4, <2>5
  <2>7. s \in Seq(S) /\ Len(s) = w
    <3>1. s \in [1 .. w -> S] /\ w \in Nat
      BY <2>6
    <3>. QED  BY ONLY <3>1
  <2>. QED  BY <2>5, <2>6, <2>7
<1>6. /\ t \in Seq(S) /\ Len(t) = l - b - 1 /\ \A x \in 1 .. (l - b - 1) : t[x] = A[b + 1 + x]
  <2>2. SubSeq(A, b + 1 + 1, l) = [x \in 1 .. (l - b - 1) |-> A[b + 1 + x]]
    BY <1>2
  <2>3. \A x \in 1 .. (l - b - 1) : A[b + 1 + x] \in S
    BY <1>2, <1>3
  <2>4. t = [x \in 1 .. (l - b - 1) |-> A[b + 1 + x]] /\ l - b - 1 \in Nat
    BY <1>2, <1>4, <2>2
  <2>. QED  BY <2>3, <2>4
<1>7. s # <<>> /\ Head(s) = A[b + 1]
  <2>1. 1 \in 1 .. (l - b)
    BY <1>2
  <2>2. s[1] = A[b + 1] /\ Len(s) # 0
    BY <1>2, <1>5, <2>1
  <2>. QED  BY <1>5, <2>2, EmptySeq
<1>8. Tail(s) = t
  <2>1. PICK u : u = Tail(s)
    OBVIOUS
  <2>2. u \in Seq(S) /\ Len(u) = Len(s) - 1 /\ \A x \in 1 .. Len(u) : u[x] = s[x + 1]
    BY <1>5, <1>7, <2>1, HeadTailProperties
  <2>3. Len(u) = l - b - 1
    BY <1>2, <1>5, <2>2
  <2>4. ASSUME NEW x \in 1 .. (l - b - 1) PROVE u[x] = t[x]
    <3>1. x + 1 \in 1 .. (l - b) /\ b + (x + 1) = b + 1 + x
      BY <1>2
    <3>2. u[x] = s[x + 1] /\ s[x + 1] = A[b + (x + 1)] /\ t[x] = A[b + 1 + x]
      BY <1>5, <1>6, <2>2, <2>3, <3>1
    <3>. QED  BY <3>1, <3>2
  <2>5. u = t
    BY <1>6, <2>2, <2>3, <2>4, SeqEqual
  <2>. QED  BY <2>1, <2>5
<1>. QED  BY <1>1, <1>4, <1>7, <1>8

(* Before the end of the format there is an item: it is spelled here, the  *)
(* arguments that are left begin with its own, and when it is printed      *)
(* printf is at the next.                                                  *)
Ahead(c, i0, args0, text, m) ==
  LET item == c[m + 1]
  IN  /\ m < Len(c) /\ Handled(item)
      /\ \A x \in 1 .. Len(Spelling(item)) : Format(c)[i0 + x - 1] = Spelling(item)[x]
      /\ item.conv \in Taking => args0 # <<>> /\ Head(args0) = item.arg
      /\ At(c, i0 + Len(Spelling(item)), IF item.conv \in Taking THEN Tail(args0) ELSE args0,
            text \o Printed(item), m + 1)

LEMMA ItemAhead ==
  ASSUME NEW c, HandledCall(c), NEW i0, NEW args0, NEW text, NEW m,
         At(c, i0, args0, text, m), i0 <= Len(Format(c))
  PROVE  Ahead(c, i0, args0, text, m)
<1>1. /\ Len(c) \in Nat /\ DOMAIN c = 1 .. Len(c)
      /\ Pieces(Texts(c)) /\ Len(Texts(c)) = Len(c)
      /\ Pieces(Spelled(c)) /\ Len(Spelled(c)) = Len(c)
      /\ Pieces(Takes(c)) /\ Len(Takes(c)) = Len(c)
  BY CallPieces
<1>2. /\ m \in Nat /\ m <= Len(c)
      /\ i0 = Len(Upto(Spelled(c))[m]) + 1
      /\ args0 = SubSeq(Arguments(c), Len(Upto(Takes(c))[m]) + 1, Len(Arguments(c)))
      /\ text = Upto(Texts(c))[m]
  BY <1>1 DEF At
<1>3. m < Len(c)
  <2>1. ASSUME m = Len(c) PROVE FALSE
    <3>1. Upto(Spelled(c))[m] = Format(c) /\ IsSequence(Format(c))
      BY <1>1, <2>1, UptoEnds, FormatIs
    <3>2. Len(Format(c)) \in Nat
      BY <3>1, SequenceFacts
    <3>. QED  BY <1>2, <3>1, <3>2
  <2>2. m \in Nat /\ Len(c) \in Nat /\ m <= Len(c)
    BY <1>1, <1>2
  <2>. QED  BY ONLY <2>1, <2>2
<1>4. PICK item : item = c[m + 1]
  OBVIOUS
<1>5. m + 1 \in DOMAIN c /\ m + 1 \in 0 .. Len(c) /\ Handled(item)
  <2>1. m + 1 \in DOMAIN c /\ m + 1 \in 0 .. Len(c)
    BY <1>1, <1>2, <1>3
  <2>. QED  BY <1>4, <2>1 DEF HandledCall
<1>6. /\ Spelled(c)[m + 1] = Spelling(item) /\ Takes(c)[m + 1] = Taken(item)
      /\ Texts(c)[m + 1] = Printed(item)
  BY <1>4, <1>5 DEF Spelled, Takes, Texts
<1>7. PICK a, b, l, sp : /\ a = Upto(Spelled(c))[m] /\ b = Upto(Spelled(c))[m + 1] /\ l = Format(c)
                         /\ sp = Spelling(item)
  OBVIOUS
<1>8. /\ IsSequence(a) /\ IsSequence(sp) /\ Len(b) = Len(a) + Len(sp)
      /\ \A x \in 1 .. Len(sp) : l[Len(a) + x] = sp[x]
  <2>1. Follows(Upto(Spelled(c))[m], Spelled(c)[m + 1], Upto(Spelled(c))[m + 1], FlattenSeq(Spelled(c)))
    BY <1>1, <1>2, <1>3, UptoAt
  <2>2. Follows(a, sp, b, l)
    BY <1>6, <1>7, <2>1, FormatIs
  <2>. QED  BY <2>2 DEF Follows
<1>9. Len(a) \in Nat /\ Len(sp) \in Nat
  BY <1>8, SequenceFacts
<1>10. i0 = Len(a) + 1 /\ i0 + Len(sp) = Len(b) + 1
  BY <1>2, <1>7, <1>8, <1>9
<1>11. \A x \in 1 .. Len(sp) : l[i0 + x - 1] = sp[x]
  <2>1. ASSUME NEW x \in 1 .. Len(sp) PROVE l[i0 + x - 1] = sp[x]
    <3>1. i0 + x - 1 = Len(a) + x
      BY <1>9, <1>10
    <3>. QED  BY <1>8, <3>1
  <2>. QED  BY <2>1
<1>12. PICK A, e, f, tk : /\ A = Arguments(c) /\ e = Len(Upto(Takes(c))[m])
                          /\ f = Len(Upto(Takes(c))[m + 1]) /\ tk = Taken(item)
  OBVIOUS
<1>13. /\ e \in Nat /\ IsSequence(A) /\ IsSequence(tk) /\ f = e + Len(tk) /\ f <= Len(A)
       /\ \A x \in 1 .. Len(tk) : A[e + x] = tk[x]
  <2>1. PICK g, h : g = Upto(Takes(c))[m] /\ h = Upto(Takes(c))[m + 1]
    OBVIOUS
  <2>3. Follows(Upto(Takes(c))[m], Takes(c)[m + 1], Upto(Takes(c))[m + 1], FlattenSeq(Takes(c)))
    BY <1>1, <1>2, <1>3, UptoAt
  <2>4. Follows(g, tk, h, A) /\ f = Len(h) /\ e = Len(g)
    BY <1>6, <1>12, <2>1, <2>3, FormatIs
  <2>2. /\ IsSequence(g) /\ IsSequence(A) /\ IsSequence(tk) /\ f = Len(g) + Len(tk) /\ f <= Len(A)
        /\ \A x \in 1 .. Len(tk) : A[Len(g) + x] = tk[x]
    BY <2>4 DEF Follows
  <2>. QED  BY <2>2, <2>4, SequenceFacts
<1>14. args0 = SubSeq(A, e + 1, Len(A))
  BY <1>2, <1>12
<1>15. /\ item.conv \in Taking => args0 # <<>> /\ Head(args0) = item.arg
       /\ (IF item.conv \in Taking THEN Tail(args0) ELSE args0) = SubSeq(A, f + 1, Len(A))
  <2>1. CASE item.conv \in Taking
    <3>1. tk = <<item.arg>>
      BY <1>12, <2>1 DEF Taken
    <3>2. Len(tk) = 1 /\ tk[1] = item.arg /\ 1 \in 1 .. Len(tk)
      BY <3>1
    <3>3. f = e + 1 /\ A[e + 1] = item.arg /\ Len(A) \in Nat
      BY <1>13, <3>2, SequenceFacts
    <3>4. e < Len(A)
      BY <1>13, <3>3
    <3>5. /\ SubSeq(A, e + 1, Len(A)) # <<>> /\ Head(SubSeq(A, e + 1, Len(A))) = A[e + 1]
          /\ Tail(SubSeq(A, e + 1, Len(A))) = SubSeq(A, e + 1 + 1, Len(A))
      BY <1>13, <3>4, TakeOne
    <3>. QED  BY <1>14, <2>1, <3>3, <3>5
  <2>2. CASE item.conv \notin Taking
    <3>1. tk = <<>>
      BY <1>12, <2>2 DEF Taken
    <3>2. Len(tk) = 0
      BY <3>1
    <3>3. f = e
      BY <1>13, <3>2
    <3>. QED  BY <1>14, <2>2, <3>3
  <2>. QED  BY <2>1, <2>2
<1>16. text \o Printed(item) = Upto(Texts(c))[m + 1]
  <2>1. Follows(Upto(Texts(c))[m], Texts(c)[m + 1], Upto(Texts(c))[m + 1], FlattenSeq(Texts(c)))
    BY <1>1, <1>2, <1>3, UptoAt
  <2>. QED  BY <1>2, <1>6, <2>1 DEF Follows
<1>17. At(c, i0 + Len(sp), IF item.conv \in Taking THEN Tail(args0) ELSE args0,
          text \o Printed(item), m + 1)
  BY <1>5, <1>7, <1>10, <1>12, <1>15, <1>16 DEF At
<1>. QED  BY <1>3, <1>4, <1>5, <1>7, <1>11, <1>15, <1>17 DEF Ahead

(* What the invariant says in the loop of printf. *)
LEMMA InLoop ==
  ASSUME PrintfInv, pc = "format"
  PROVE  /\ HandledCall(call) /\ IsSequence(out) /\ queue = <<>> /\ chars_written = Len(out)
         /\ Len(out) \in Nat /\ \E m : At(call, i, args, out, m)
<1>1. /\ HandledCall(call) /\ IsSequence(out) /\ queue = <<>>
      /\ chars_written = Len(out) + Len(<<>>)
      /\ \E m \in 0 .. Len(call) : At(call, i, args, out \o <<>>, m)
  BY DEF PrintfInv, Progress, Due
<1>2. out \o <<>> = out /\ Len(<<>>) = 0 /\ Len(out) \in Nat
  BY <1>1, NothingTwice, SequenceFacts
<1>. QED  BY <1>1, <1>2

LEMMA ItemSent ==
  ASSUME PrintfInv, pc = "format", i <= Len(Format(call)), UNCHANGED <<call, out>>,
         NEW m, At(call, i, args, out, m), Send(Printed(call[m + 1])),
         i' = i + Len(Spelling(call[m + 1])),
         args' = IF call[m + 1].conv \in Taking THEN Tail(args) ELSE args
  PROVE  PrintfInv'
<1>1. PICK c, o, item, text : c = call /\ o = out /\ item = c[m + 1] /\ text = Printed(item)
  OBVIOUS
<1>2. HandledCall(c) /\ IsSequence(o) /\ chars_written = Len(o) /\ Len(o) \in Nat
  BY <1>1, InLoop
<1>3. Ahead(c, i, args, o, m)
  BY <1>1, <1>2, ItemAhead
<1>4. Handled(item) /\ At(c, i', args', o \o text, m + 1)
  BY <1>1, <1>3 DEF Ahead
<1>5. IsSequence(text)
  BY <1>1, <1>4, PrintedIs
<1>6. /\ queue' = text /\ chars_written' = Len(o) + Len(text)
      /\ pc' = IF text = <<>> THEN "format" ELSE "print"
  BY <1>1, <1>2 DEF Send
<1>7. Due(pc', text) = text
  BY <1>6 DEF Due
<1>8. m + 1 \in 0 .. Len(c)
  BY <1>4 DEF At
<1>9. /\ pc' \in {"idle", "format", "print", "scroll"} /\ pc' # "idle"
      /\ pc' \in {"print", "scroll"} <=> text # <<>>
  BY <1>6
<1>10. Progress(pc', c, i', args', chars_written', text, o)
  BY <1>2, <1>4, <1>5, <1>6, <1>7, <1>8, <1>9 DEF Progress
<1>. QED  BY <1>1, <1>6, <1>10 DEF PrintfInv

LEMMA IndexIn ==
  ASSUME NEW c, HandledCall(c), NEW i0, NEW args0, NEW text, NEW m, At(c, i0, args0, text, m)
  PROVE  i0 \in Nat
<1>1. /\ Len(c) \in Nat /\ Pieces(Spelled(c)) /\ Len(Spelled(c)) = Len(c)
  BY CallPieces
<1>2. m \in 0 .. Len(c) /\ i0 = Len(Upto(Spelled(c))[m]) + 1
  BY DEF At
<1>3. IsSequence(Upto(Spelled(c))[m])
  <2>1. CASE m = Len(c)
    BY <1>1, <2>1, UptoEnds
  <2>2. CASE m # Len(c)
    <3>1. m \in Nat /\ m < Len(Spelled(c))
      BY <1>1, <1>2, <2>2
    <3>. QED  BY <1>1, <3>1, UptoAt DEF Follows
  <2>. QED  BY <2>1, <2>2
<1>. QED  BY <1>2, <1>3, SequenceFacts

LEMMA TwoSymbols == ASSUME NEW a, NEW b PROVE <<a>> \o <<>> \o <<b>> = <<a, b>>
<1>1. <<a>> \in Seq({a, b}) /\ <<b>> \in Seq({a, b}) /\ <<a, b>> \in Seq({a, b})
  OBVIOUS
<1>2. /\ Len(<<a>>) = 1 /\ Len(<<b>>) = 1 /\ Len(<<a, b>>) = 2
      /\ <<a>>[1] = a /\ <<b>>[1] = b /\ <<a, b>>[1] = a /\ <<a, b>>[2] = b
  OBVIOUS
<1>3. <<a>> \o <<>> = <<a>>
  BY <1>1, ConcatEmptySeq
<1>4. PICK s, t, u, v : s = <<a>> /\ t = <<b>> /\ u = <<a>> \o <<b>> /\ v = <<a, b>>
  OBVIOUS
<1>5. /\ s \o t \in Seq({a, b}) /\ Len(s \o t) = Len(s) + Len(t)
      /\ \A x \in 1 .. Len(s) : (s \o t)[x] = s[x]
      /\ \A x \in 1 .. Len(t) : (s \o t)[Len(s) + x] = t[x]
  <2>1. s \in Seq({a, b}) /\ t \in Seq({a, b})
    BY <1>1, <1>4
  <2>. QED  BY ONLY <2>1, Joins
<1>6. u \in Seq({a, b}) /\ Len(u) = 2 /\ u[1] = a /\ u[1 + 1] = b
  BY <1>2, <1>4, <1>5
<1>7. v \in Seq({a, b}) /\ Len(v) = 2 /\ v[1] = a /\ v[2] = b
  BY <1>1, <1>2, <1>4
<1>8. u = v
  <2>1. 1 + 1 = 2 /\ 1 .. 2 = {1, 2}
    OBVIOUS
  <2>2. \A x \in 1 .. Len(u) : u[x] = v[x]
    BY <1>6, <1>7, <2>1
  <2>. QED  BY <1>6, <1>7, <2>2, SeqEqual
<1>. QED  BY <1>3, <1>4, <1>8

LEMMA LiteralInv == ASSUME PrintfInv, Literal PROVE PrintfInv'
<1>1. /\ pc = "format" /\ i <= Len(Format(call)) /\ Format(call)[i] # "%"
      /\ Send(<<Format(call)[i]>>) /\ i' = i + 1 /\ args' = args /\ call' = call /\ out' = out
  BY DEF Literal
<1>2. PICK m : At(call, i, args, out, m)
  BY <1>1, InLoop
<1>3. HandledCall(call)
  BY <1>1, InLoop
<1>4. Ahead(call, i, args, out, m)
  BY <1>1, <1>2, <1>3, ItemAhead
<1>5. PICK item, f : item = call[m + 1] /\ f = Format(call)
  OBVIOUS
<1>6. /\ Handled(item) /\ \A x \in 1 .. Len(Spelling(item)) : f[i + x - 1] = Spelling(item)[x]
  BY <1>4, <1>5 DEF Ahead
<1>7. i \in Nat
  BY <1>2, <1>3, IndexIn
<1>8. i + 1 - 1 = i
  BY <1>7
<1>9. ~ IsConversion(item)
  <2>1. ASSUME IsConversion(item) PROVE FALSE
    <3>1. Spelling(item) = <<"%">> \o <<>> \o <<item.conv>>
      BY <1>6, <2>1 DEF Handled, Spelling
    <3>2. <<"%">> \o <<>> \o <<item.conv>> = <<"%", item.conv>>
      BY TwoSymbols
    <3>3. 1 \in 1 .. Len(<<"%", item.conv>>) /\ <<"%", item.conv>>[1] = "%"
      OBVIOUS
    <3>4. f[i + 1 - 1] = "%"
      BY <1>6, <3>1, <3>2, <3>3
    <3>. QED  BY <1>1, <1>5, <1>8, <3>4
  <2>. QED  BY <2>1
<1>10. /\ Spelling(item) = <<item.chr>> /\ Printed(item) = <<item.chr>>
       /\ item.conv \notin Taking
  BY <1>9 DEF Spelling, Printed, IsConversion, Taking
<1>11. Len(Spelling(item)) = 1 /\ 1 \in 1 .. 1 /\ Spelling(item)[1] = item.chr
  BY <1>10
<1>12. f[i] = item.chr
  <2>1. f[i + 1 - 1] = item.chr
    BY <1>6, <1>11
  <2>. QED  BY <1>8, <2>1
<1>. QED  BY <1>1, <1>2, <1>5, <1>10, <1>11, <1>12, ItemSent

LEMMA DirectiveInv == ASSUME PrintfInv, Directive PROVE PrintfInv'
<1>1. /\ pc = "format" /\ i <= Len(Format(call)) /\ Format(call)[i] = "%"
      /\ i' = i + 2 /\ call' = call /\ out' = out
  BY DEF Directive
<1>2. PICK c : c = Format(call)[i + 1]
  OBVIOUS
<1>3. /\ Send(Conversion(c, IF args = <<>> THEN [word |-> 0] ELSE Head(args)))
      /\ args' = IF c \in Taking THEN Tail(args) ELSE args
  BY <1>2 DEF Directive
<1>4. PICK m : At(call, i, args, out, m)
  BY <1>1, InLoop
<1>5. HandledCall(call)
  BY <1>1, InLoop
<1>6. Ahead(call, i, args, out, m)
  BY <1>1, <1>4, <1>5, ItemAhead
<1>7. PICK item, f : item = call[m + 1] /\ f = Format(call)
  OBVIOUS
<1>8. /\ Handled(item) /\ \A x \in 1 .. Len(Spelling(item)) : f[i + x - 1] = Spelling(item)[x]
      /\ item.conv \in Taking => args # <<>> /\ Head(args) = item.arg
  BY <1>6, <1>7 DEF Ahead
<1>9. i \in Nat
  BY <1>4, <1>5, IndexIn
<1>10. i + 1 - 1 = i /\ i + 2 - 1 = i + 1
  BY <1>9
<1>11. IsConversion(item)
  <2>1. ASSUME ~ IsConversion(item) PROVE FALSE
    <3>1. Spelling(item) = <<item.chr>> /\ item.chr # "%"
      BY <1>8, <2>1 DEF Handled, Spelling
    <3>2. 1 \in 1 .. Len(<<item.chr>>) /\ <<item.chr>>[1] = item.chr
      OBVIOUS
    <3>3. f[i + 1 - 1] = item.chr
      BY <1>8, <3>1, <3>2
    <3>. QED  BY <1>1, <1>7, <1>10, <3>1, <3>3
  <2>. QED  BY <2>1
<1>12. Spelling(item) = <<"%", item.conv>>
  <2>1. Spelling(item) = <<"%">> \o <<>> \o <<item.conv>>
    BY <1>8, <1>11 DEF Handled, Spelling
  <2>2. <<"%">> \o <<>> \o <<item.conv>> = <<"%", item.conv>>
    BY TwoSymbols
  <2>. QED  BY <2>1, <2>2
<1>13. Len(<<"%", item.conv>>) = 2 /\ 2 \in 1 .. 2 /\ <<"%", item.conv>>[2] = item.conv
  OBVIOUS
<1>14. c = item.conv
  <2>1. f[i + 2 - 1] = item.conv
    BY <1>8, <1>12, <1>13
  <2>. QED  BY <1>2, <1>7, <1>10, <2>1
<1>15. Conversion(c, IF args = <<>> THEN [word |-> 0] ELSE Head(args)) = Printed(item)
  <2>1. Printed(item) = Conversion(c, item.arg)
    BY <1>11, <1>14 DEF Printed
  <2>2. CASE c \in Taking
    BY <1>8, <1>14, <2>1, <2>2
  <2>3. CASE c \notin Taking
    <3>1. \A a, b : Conversion(c, a) = Conversion(c, b)
      BY <2>3 DEF Conversion, Taking
    <3>. QED  BY <2>1, <3>1
  <2>. QED  BY <2>2, <2>3
<1>. QED  BY <1>1, <1>3, <1>4, <1>7, <1>12, <1>13, <1>14, <1>15, ItemSent

(* printf begins with its first item and all of its arguments. *)
LEMMA CallInv ==
  ASSUME PrintfInv, NEW c, HandledCall(c), Printf(c)
  PROVE  PrintfInv'
<1>1. /\ pc' = "format" /\ call' = c /\ args' = Arguments(c) /\ i' = 1 /\ chars_written' = 0
      /\ out' = <<>> /\ queue' = queue /\ queue = <<>>
  BY DEF Printf, PrintfInv, Progress
<1>2. /\ Len(c) \in Nat /\ Pieces(Texts(c)) /\ Pieces(Spelled(c)) /\ Pieces(Takes(c))
  BY CallPieces
<1>3. /\ Upto(Texts(c))[0] = <<>> /\ Upto(Spelled(c))[0] = <<>> /\ Upto(Takes(c))[0] = <<>>
      /\ IsSequence(Arguments(c))
  BY <1>2, UptoEnds, FormatIs
<1>4. <<>> \o <<>> = <<>> /\ Len(<<>>) = 0 /\ IsSequence(<<>>)
  BY <1>3, NothingTwice
<1>5. SubSeq(Arguments(c), 0 + 1, Len(Arguments(c))) = Arguments(c)
  <2>1. PICK A : A = Arguments(c)
    OBVIOUS
  <2>2. A \in Seq({A[n] : n \in DOMAIN A}) /\ Len(A) \in Nat
    BY <1>3, <2>1, SequenceFacts
  <2>3. SubSeq(A, 1, Len(A)) = A
    BY <2>2, SubSeqFull
  <2>. QED  BY <2>1, <2>3
<1>6. At(c, 1, Arguments(c), <<>> \o <<>>, 0)
  <2>1. 0 \in 0 .. Len(c) /\ 1 = 0 + 1
    BY <1>2
  <2>. QED  BY <1>3, <1>4, <1>5, <2>1 DEF At
<1>7. Due("format", <<>>) = <<>> /\ 0 \in 0 .. Len(c) /\ 0 = Len(<<>>) + Len(<<>>)
  BY <1>2, <1>4 DEF Due
<1>8. Progress("format", c, 1, Arguments(c), 0, <<>>, <<>>)
  BY <1>4, <1>6, <1>7 DEF Progress
<1>. QED  BY <1>1, <1>8 DEF PrintfInv

(* At the end of the format every item is printed. *)
LEMMA ReturnInv == ASSUME PrintfInv, ReturnPrintf PROVE PrintfInv'
<1>1. /\ pc = "format" /\ i > Len(Format(call)) /\ pc' = "idle"
      /\ UNCHANGED <<call, i, args, chars_written, queue, out>>
  BY DEF ReturnPrintf, shell
<1>2. /\ HandledCall(call) /\ IsSequence(out) /\ queue = <<>> /\ chars_written = Len(out)
      /\ Len(out) \in Nat
  BY <1>1, InLoop
<1>3. PICK m : At(call, i, args, out, m)
  BY <1>1, InLoop
<1>4. PICK c, o : c = call /\ o = out
  OBVIOUS
<1>5. /\ Len(c) \in Nat /\ Pieces(Texts(c)) /\ Len(Texts(c)) = Len(c)
      /\ Pieces(Spelled(c)) /\ Len(Spelled(c)) = Len(c)
  BY <1>2, <1>4, CallPieces
<1>6. m \in 0 .. Len(c) /\ i = Len(Upto(Spelled(c))[m]) + 1 /\ o = Upto(Texts(c))[m]
  BY <1>3, <1>4 DEF At
<1>7. m = Len(c)
  <2>1. ASSUME m # Len(c) PROVE FALSE
    <3>1. m \in Nat /\ m < Len(Spelled(c))
      BY <1>5, <1>6, <2>1
    <3>2. PICK a, b, d, f : /\ a = Upto(Spelled(c))[m] /\ b = Spelled(c)[m + 1]
                            /\ d = Upto(Spelled(c))[m + 1] /\ f = Format(c)
      OBVIOUS
    <3>3. Follows(Upto(Spelled(c))[m], Spelled(c)[m + 1], Upto(Spelled(c))[m + 1], FlattenSeq(Spelled(c)))
      BY <1>5, <3>1, UptoAt
    <3>4. Follows(a, b, d, f)
      BY <3>2, <3>3, FormatIs
    <3>5. IsSequence(a) /\ IsSequence(b) /\ IsSequence(f) /\ Len(a) + Len(b) <= Len(f)
      BY <3>4 DEF Follows
    <3>6. Len(a) \in Nat /\ Len(b) \in Nat /\ Len(f) \in Nat
      BY <3>5, SequenceFacts
    <3>7. Len(b) > 0
      <4>1. m + 1 \in DOMAIN c /\ Handled(c[m + 1])
        <5>1. m + 1 \in DOMAIN c
          BY <1>2, <1>4, <1>5, <1>6, <2>1, CallPieces
        <5>. QED  BY <1>2, <1>4, <5>1 DEF HandledCall
      <4>2. PICK item : item = c[m + 1]
        OBVIOUS
      <4>3. b = Spelling(item) /\ Handled(item)
        BY <3>2, <4>1, <4>2 DEF Spelled
      <4>4. CASE IsConversion(item)
        <5>1. b = <<"%">> \o <<>> \o <<item.conv>>
          BY <4>3, <4>4 DEF Handled, Spelling
        <5>2. b = <<"%", item.conv>>
          BY <5>1, TwoSymbols
        <5>. QED  BY <5>2
      <4>5. CASE ~ IsConversion(item)
        <5>1. b = <<item.chr>>
          BY <4>3, <4>5 DEF Spelling
        <5>. QED  BY <5>1
      <4>. QED  BY <4>4, <4>5
    <3>8. i = Len(a) + 1 /\ i > Len(f)
      BY <1>1, <1>4, <1>6, <3>2
    <3>. QED  BY <3>5, <3>6, <3>7, <3>8
  <2>. QED  BY <2>1
<1>8. o = FlattenSeq(Texts(c))
  BY <1>5, <1>6, <1>7, UptoEnds
<1>9. Due("idle", <<>>) = <<>> /\ Len(<<>>) = 0 /\ IsSequence(<<>>) /\ Len(o) \in Nat
  BY <1>2, <1>4, NothingTwice DEF Due
<1>10. HandledCall(c) /\ IsSequence(o) /\ chars_written = Len(o) + Len(<<>>)
  BY <1>2, <1>4, <1>9
<1>11. Progress("idle", c, i, args, chars_written, <<>>, o)
  BY <1>8, <1>9, <1>10 DEF Progress
<1>. QED  BY <1>1, <1>2, <1>4, <1>11 DEF PrintfInv

(* What is due is printed from the front. *)
LEMMA PrintedInv ==
  ASSUME PrintfInv, UNCHANGED <<call, i, args, chars_written>>, pc = "print",
         out' = Append(out, Head(queue)),
         \/ pc' = "scroll" /\ queue' = queue
         \/ pc' = (IF Len(queue) = 1 THEN "format" ELSE "print") /\ queue' = Tail(queue)
  PROVE  PrintfInv'
<1>1. PICK c, o, q, a, t : c = call /\ o = out /\ q = queue /\ a = Append(o, Head(q)) /\ t = Tail(q)
  OBVIOUS
<1>2. /\ HandledCall(c) /\ IsSequence(o) /\ IsSequence(q) /\ q # <<>>
      /\ chars_written = Len(o) + Len(q) /\ \E m \in 0 .. Len(c) : At(c, i, args, o \o q, m)
  BY <1>1 DEF PrintfInv, Progress, Due
<1>3. /\ IsSequence(a) /\ IsSequence(t) /\ a \o t = o \o q /\ Len(a) + Len(t) = Len(o) + Len(q)
      /\ Len(q) = 1 <=> t = <<>>
  BY <1>1, <1>2, SymbolMoves
<1>4. out' = a /\ \/ pc' = "scroll" /\ queue' = q
                  \/ pc' = (IF Len(q) = 1 THEN "format" ELSE "print") /\ queue' = t
  BY <1>1
<1>5. Due(pc', queue') = t /\ IsSequence(queue')
  <2>1. CASE pc' = "scroll" /\ queue' = q
    BY <1>1, <1>2, <2>1 DEF Due
  <2>2. CASE pc' = (IF Len(q) = 1 THEN "format" ELSE "print") /\ queue' = t
    BY <1>3, <2>2 DEF Due
  <2>. QED  BY <1>4, <2>1, <2>2
<1>6. /\ pc' \in {"idle", "format", "print", "scroll"} /\ pc' # "idle"
      /\ pc' \in {"print", "scroll"} <=> queue' # <<>>
  BY <1>2, <1>3, <1>4
<1>7. \E m \in 0 .. Len(c) : At(c, i, args, a \o Due(pc', queue'), m)
  BY <1>2, <1>3, <1>5
<1>8. chars_written = Len(a) + Len(Due(pc', queue'))
  BY <1>2, <1>3, <1>5
<1>9. Progress(pc', c, i, args, chars_written, queue', a)
  BY <1>2, <1>3, <1>5, <1>6, <1>7, <1>8 DEF Progress
<1>. QED  BY <1>1, <1>4, <1>9 DEF PrintfInv

LEMMA ScrolledInv ==
  ASSUME PrintfInv, UNCHANGED <<call, i, args, chars_written, out>>, pc = "scroll",
         pc' = (IF Len(queue) = 1 THEN "format" ELSE "print"), queue' = Tail(queue)
  PROVE  PrintfInv'
<1>1. PICK c, o, q, t : c = call /\ o = out /\ q = queue /\ t = Tail(q)
  OBVIOUS
<1>2. /\ HandledCall(c) /\ IsSequence(o) /\ IsSequence(q) /\ q # <<>>
      /\ chars_written = Len(o) + Len(t) /\ \E m \in 0 .. Len(c) : At(c, i, args, o \o t, m)
  BY <1>1 DEF PrintfInv, Progress, Due
<1>3. IsSequence(t) /\ (Len(q) = 1 <=> t = <<>>)
  BY <1>1, <1>2, SymbolMoves
<1>4. pc' = (IF Len(q) = 1 THEN "format" ELSE "print") /\ queue' = t
  BY <1>1
<1>5. Due(pc', t) = t
  BY <1>3, <1>4 DEF Due
<1>6. /\ pc' \in {"idle", "format", "print", "scroll"} /\ pc' # "idle"
      /\ pc' \in {"print", "scroll"} <=> t # <<>>
  BY <1>3, <1>4
<1>7. Progress(pc', c, i, args, chars_written, t, o)
  BY <1>2, <1>3, <1>5, <1>6 DEF Progress
<1>. QED  BY <1>1, <1>4, <1>7 DEF PrintfInv

LEMMA PrintfStep ==
  ASSUME \A c \in Calls : HandledCall(c), PrintfInv, [Next]_vars
  PROVE  PrintfInv'
<1>1. CASE \E c \in Calls : Printf(c)
  BY <1>1, CallInv
<1>2. CASE Literal
  BY <1>2, LiteralInv
<1>3. CASE Directive
  BY <1>3, DirectiveInv
<1>4. CASE ReturnPrintf
  BY <1>4, ReturnInv
<1>5. CASE PutChar
  <2>1. /\ UNCHANGED <<call, i, args, chars_written>> /\ pc = "print"
        /\ out' = Append(out, Head(queue))
        /\ \/ pc' = "scroll" /\ queue' = queue
           \/ pc' = (IF Len(queue) = 1 THEN "format" ELSE "print") /\ queue' = Tail(queue)
    BY <1>5 DEF PutChar, Emptied
  <2>. QED  BY <2>1, PrintedInv
<1>6. CASE ScrollCell
  <2>1. UNCHANGED <<call, i, args, chars_written, out>> /\ pc = "scroll"
    BY <1>6 DEF ScrollCell
  <2>2. CASE k + 1 \in Cells
    <3>1. pc' = pc /\ queue' = queue
      BY <1>6, <2>2 DEF ScrollCell
    <3>. QED  BY <2>1, <3>1 DEF PrintfInv
  <2>3. CASE k + 1 \notin Cells
    <3>1. pc' = (IF Len(queue) = 1 THEN "format" ELSE "print") /\ queue' = Tail(queue)
      BY <1>6, <2>3 DEF ScrollCell, Emptied
    <3>. QED  BY <2>1, <3>1, ScrolledInv
  <2>. QED  BY <2>2, <2>3
<1>7. CASE Clear \/ NextCount \/ WriteDigit \/ UNCHANGED vars
  <2>1. UNCHANGED <<pc, call, i, args, chars_written, queue, out>>
    BY <1>7 DEF Clear, NextCount, WriteDigit, vars, shell
  <2>. QED  BY <2>1 DEF PrintfInv
<1>. QED  BY <1>1, <1>2, <1>3, <1>4, <1>5, <1>6, <1>7 DEF Next

(* printf prints what its format and arguments mean, and counts it, for    *)
(* every call with characters and specifiers it has been written for,      *)
(* whatever the width of a word: the argument taken is always the          *)
(* specifier's own, and the digits of uitoa are the numeral.               *)
THEOREM PrintsWhatIsMeant ==
  ASSUME \A c \in Calls : HandledCall(c)
  PROVE  Spec => []OutputAsFormatted
<1>1. Init => PrintfInv
  <2> SUFFICES ASSUME Init PROVE PrintfInv
    OBVIOUS
  <2>1. /\ pc = "idle" /\ call = <<>> /\ chars_written = 0 /\ queue = <<>> /\ out = <<>>
    BY DEF Init
  <2>2. <<>> \in Seq({}) /\ Len(<<>>) = 0 /\ DOMAIN <<>> = {}
    OBVIOUS
  <2>3. IsSequence(<<>>)
    BY <2>2, SequenceIs
  <2>4. HandledCall(<<>>)
    BY <2>2, <2>3 DEF HandledCall
  <2>5. FlattenSeq(Texts(<<>>)) = <<>>
    <3>1. Texts(<<>>) = <<>>
      <4>1. Texts(<<>>) = [n \in {} |-> Printed(<<>>[n])]
        BY <2>2 DEF Texts
      <4>. QED  BY <4>1
    <3>. QED  BY <2>2, <3>1 DEF FlattenSeq
  <2>6. Due("idle", <<>>) = <<>> /\ 0 = Len(<<>>) + Len(<<>>)
    BY <2>2 DEF Due
  <2>7. Progress("idle", <<>>, i, args, 0, <<>>, <<>>)
    BY <2>3, <2>4, <2>5, <2>6 DEF Progress
  <2>. QED  BY <2>1, <2>7 DEF PrintfInv
<1>2. PrintfInv /\ [Next]_vars => PrintfInv'
  BY PrintfStep
<1>3. PrintfInv => OutputAsFormatted
  <2> SUFFICES ASSUME PrintfInv, pc = "idle", \A n \in DOMAIN call : ~ Overflows(call[n])
               PROVE  /\ out = FlattenSeq([n \in DOMAIN call |-> Meant(call[n])])
                      /\ chars_written = Len(out)
    BY DEF OutputAsFormatted
  <2>1. /\ HandledCall(call) /\ IsSequence(out) /\ out = FlattenSeq(Texts(call))
        /\ chars_written = Len(out) + Len(<<>>)
    BY DEF PrintfInv, Progress, Due
  <2>2. \A n \in DOMAIN call : Printed(call[n]) = Meant(call[n])
    BY <2>1, PrintedIs DEF HandledCall
  <2>3. Texts(call) = [n \in DOMAIN call |-> Meant(call[n])]
    BY <2>2 DEF Texts
  <2>4. Len(<<>>) = 0 /\ Len(out) \in Nat
    BY <2>1, SequenceFacts
  <2>. QED  BY <2>1, <2>3, <2>4
<1>. QED  BY <1>1, <1>2, <1>3, PTL DEF Spec

=============================================================================
