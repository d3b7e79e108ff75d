------------------------------ MODULE VgaProofs ------------------------------
(***************************************************************************)
(* What vga_putchar does to the screen, for every width and height: in     *)
(* terms of the cursor's offset, an ordinary character is stored there and *)
(* the cursor moves on by one, and when the screen is full everything,     *)
(* cursor included, moves up by a row.                                     *)
(***************************************************************************)
EXTENDS Vga, TLAPS

(* Screens whose cells hold members of S. *)
Screens(S) ==
  [cells : [Cells -> S], row : 0 .. (VGA_HEIGHT - 1), col : 0 .. (VGA_WIDTH - 1)]

(* Screens on which a newline may be due. *)
Pending(S) ==
  [cells : [Cells -> S], row : 0 .. (VGA_HEIGHT - 1), col : 0 .. VGA_WIDTH]

CursorOf(s) == vga_offset(s.row, s.col)

(* Nothing is shown at the cursor and behind it. *)
BlankAhead(s) == \A o \in Cells : o >= CursorOf(s) => s.cells[o] = SP

-----------------------------------------------------------------------------
(* Rows start at multiples of the width, the last one a width before the   *)
(* end.                                                                    *)
LEMMA RowBounds ==
  ASSUME NEW r \in 0 .. (VGA_HEIGHT - 1)
  PROVE  /\ r * VGA_WIDTH \in Nat /\ VGA_WIDTH * VGA_HEIGHT \in Nat
         /\ (r + 1) * VGA_WIDTH = r * VGA_WIDTH + VGA_WIDTH
         /\ r * VGA_WIDTH + VGA_WIDTH <= VGA_WIDTH * VGA_HEIGHT
         /\ r + 1 = VGA_HEIGHT => r * VGA_WIDTH + VGA_WIDTH = VGA_WIDTH * VGA_HEIGHT
         /\ r + 1 < VGA_HEIGHT => r * VGA_WIDTH + VGA_WIDTH + VGA_WIDTH <= VGA_WIDTH * VGA_HEIGHT
         /\ r > 0 => r * VGA_WIDTH = (r - 1) * VGA_WIDTH + VGA_WIDTH
<1> DEFINE W == VGA_WIDTH
           H == VGA_HEIGHT
<1>1. W \in Nat /\ W > 0 /\ H \in Nat /\ H > 0 /\ r \in Nat /\ r + 1 <= H
  BY VgaAssumption
<1> HIDE DEF W, H
<1>2. r * W \in Nat /\ W * H \in Nat /\ (r + 1) * W = r * W + W /\ W * H = H * W
  BY <1>1
<1>3. (r + 1) * W <= H * W
  BY <1>1
<1>4. r + 1 = H => r * W + W = W * H
  BY <1>1, <1>2
<1>5. r + 1 < H => r * W + W + W <= W * H
  <2>1. ASSUME r + 1 < H PROVE (r + 2) * W <= H * W
    BY <1>1, <2>1
  <2>2. (r + 2) * W = r * W + W + W
    BY <1>1
  <2>. QED  BY <1>2, <2>1, <2>2
<1>6. r > 0 => r * W = (r - 1) * W + W
  BY <1>1
<1>. QED  BY <1>1, <1>2, <1>3, <1>4, <1>5, <1>6 DEF W, H

(* A record of a screen with new cells and a new column. *)
LEMMA ScreenExcept ==
  ASSUME NEW C, NEW R, NEW K, NEW s \in [cells : C, row : R, col : K], NEW x \in C, NEW y \in K
  PROVE  /\ [s EXCEPT !.cells = x, !.col = y] \in [cells : C, row : R, col : K]
         /\ [s EXCEPT !.cells = x, !.col = y].cells = x
         /\ [s EXCEPT !.cells = x, !.col = y].row = s.row
         /\ [s EXCEPT !.cells = x, !.col = y].col = y
OBVIOUS

(* The cursor is on the screen. *)
LEMMA CursorOnScreen ==
  ASSUME NEW S, NEW s \in Screens(S)
  PROVE  /\ CursorOf(s) \in Cells /\ CursorOf(s) \in Nat
         /\ CursorOf(s) = s.row * VGA_WIDTH + s.col
         /\ VGA_WIDTH * VGA_HEIGHT \in Nat /\ CursorOf(s) < VGA_WIDTH * VGA_HEIGHT
<1>1. s.row \in 0 .. (VGA_HEIGHT - 1) /\ s.col \in 0 .. (VGA_WIDTH - 1)
  BY DEF Screens
<1>2. /\ s.row * VGA_WIDTH \in Nat /\ VGA_WIDTH * VGA_HEIGHT \in Nat
      /\ s.row * VGA_WIDTH + VGA_WIDTH <= VGA_WIDTH * VGA_HEIGHT
  BY <1>1, RowBounds
<1>3. VGA_WIDTH \in Nat
  BY VgaAssumption
<1>. QED  BY <1>1, <1>2, <1>3 DEF CursorOf, vga_offset, Cells

(* vga_newline: the next row, or the last one once more and everything     *)
(* else a row up.  shift is how far the cells have moved; they move only   *)
(* in the last row.                                                        *)
LEMMA Newline ==
  ASSUME NEW S, SP \in S, NEW s \in Pending(S)
  PROVE  /\ vga_newline(s) \in Screens(S)
         /\ \E shift \in {0, VGA_WIDTH} :
              /\ shift # 0 => s.row + 1 = VGA_HEIGHT
              /\ CursorOf(vga_newline(s)) = s.row * VGA_WIDTH + VGA_WIDTH - shift
              /\ \A o \in Cells : vga_newline(s).cells[o] =
                   IF o + shift \in Cells THEN s.cells[o + shift] ELSE SP
<1> DEFINE r == vga_newline(s)
           W == VGA_WIDTH
<1>1. s.cells \in [Cells -> S] /\ s.row \in 0 .. (VGA_HEIGHT - 1) /\ s.col \in 0 .. VGA_WIDTH
  BY DEF Pending
<1>2. W \in Nat /\ W > 0 /\ VGA_HEIGHT \in Nat /\ VGA_HEIGHT > 0 /\ s.row \in Nat
  BY <1>1, VgaAssumption
<1>3. s.row * W \in Nat /\ (s.row + 1) * W = s.row * W + W
  BY <1>1, RowBounds
<1>4. CASE s.row + 1 < VGA_HEIGHT
  <2>1. r = [s EXCEPT !.row = s.row + 1, !.col = 0]
    BY <1>4 DEF vga_newline
  <2>2. r = [cells |-> s.cells, row |-> s.row + 1, col |-> 0]
    BY <2>1 DEF Pending
  <2>3. r \in Screens(S)
    <3>1. s.row + 1 \in 0 .. (VGA_HEIGHT - 1) /\ 0 \in 0 .. (VGA_WIDTH - 1)
      BY <1>2, <1>4
    <3>. QED  BY <1>1, <2>2, <3>1 DEF Screens
  <2>4. CursorOf(r) = s.row * W + W
    BY <1>2, <1>3, <2>2 DEF CursorOf, vga_offset
  <2>5. \A o \in Cells : o + 0 = o
    BY DEF Cells
  <2>. QED  BY <1>3, <2>2, <2>3, <2>4, <2>5, <1>2
<1>5. CASE s.row + 1 >= VGA_HEIGHT
  <2>1. r = [s EXCEPT !.cells = vga_scroll(s.cells), !.col = 0]
    BY <1>2, <1>5 DEF vga_newline
  <2>2. vga_scroll(s.cells) \in [Cells -> S]
    BY <1>1 DEF vga_scroll
  <2>3. r = [cells |-> vga_scroll(s.cells), row |-> s.row, col |-> 0]
    BY <2>1 DEF Pending
  <2>4. r \in Screens(S)
    <3>1. 0 \in 0 .. (VGA_WIDTH - 1)
      BY <1>2
    <3>. QED  BY <1>1, <2>2, <2>3, <3>1 DEF Screens
  <2>5. CursorOf(r) = s.row * W + W - W
    BY <1>2, <1>3, <2>3 DEF CursorOf, vga_offset
  <2>6. \A o \in Cells : r.cells[o] = IF o + W \in Cells THEN s.cells[o + W] ELSE SP
    BY <2>3 DEF vga_scroll
  <2>7. s.row + 1 = VGA_HEIGHT
    BY <1>1, <1>2, <1>5
  <2>. QED  BY <2>4, <2>5, <2>6, <2>7
<1>. QED  BY <1>2, <1>4, <1>5

(* An ordinary character. *)
LEMMA PutPlain ==
  ASSUME NEW S, SP \in S, NEW s \in Screens(S), NEW c \in S, c \notin {BS, NL, CR, TAB}
  PROVE  /\ vga_putchar(s, c) \in Screens(S)
         /\ \E shift \in {0, VGA_WIDTH} :
              /\ shift # 0 => CursorOf(s) + 1 = VGA_WIDTH * VGA_HEIGHT
              /\ CursorOf(vga_putchar(s, c)) = CursorOf(s) + 1 - shift
              /\ \A o \in Cells : vga_putchar(s, c).cells[o] =
                   IF o + shift \notin Cells THEN SP
                   ELSE IF o + shift = CursorOf(s) THEN c ELSE s.cells[o + shift]
<1> DEFINE W == VGA_WIDTH
           k == CursorOf(s)
           p == [s EXCEPT !.cells[vga_offset(s.row, s.col)] = c, !.col = s.col + 1]
<1>1. s.cells \in [Cells -> S] /\ s.row \in 0 .. (VGA_HEIGHT - 1) /\ s.col \in 0 .. (W - 1)
  BY DEF Screens
<1>2. W \in Nat /\ W > 0 /\ s.col \in Nat /\ s.col + 1 <= W
  BY <1>1, VgaAssumption
<1>3. k \in Cells /\ k \in Nat /\ k = s.row * W + s.col /\ s.row * W \in Nat
  BY <1>1, CursorOnScreen, RowBounds
<1>4. Placed(s, c) = p
  BY DEF Placed
<1>5. /\ p.cells = [s.cells EXCEPT ![k] = c] /\ p.row = s.row /\ p.col = s.col + 1
      /\ p \in Pending(S)
  <2>1. p = [s EXCEPT !.cells = [s.cells EXCEPT ![k] = c], !.col = s.col + 1]
    BY DEF Screens, CursorOf
  <2>2. [s.cells EXCEPT ![k] = c] \in [Cells -> S] /\ s.col + 1 \in 0 .. W
    BY <1>1, <1>2, <1>3
  <2>3. s \in Pending(S)
    BY <1>1, <1>2 DEF Screens, Pending
  <2> DEFINE x == [s.cells EXCEPT ![k] = c]
             y == s.col + 1
  <2>4. p = [s EXCEPT !.cells = x, !.col = y] /\ x \in [Cells -> S] /\ y \in 0 .. W
    BY <2>1, <2>2
  <2> HIDE DEF p, k, x, y
  <2>5. p \in Pending(S) /\ p.cells = x /\ p.row = s.row /\ p.col = y
    BY <2>3, <2>4, ScreenExcept DEF Pending
  <2>. QED  BY <2>5 DEF x, y
<1>6. p.cells[k] = c /\ \A o \in Cells \ {k} : p.cells[o] = s.cells[o]
  BY <1>1, <1>3, <1>5
<1> HIDE DEF p, k
<1>7. CASE s.col + 1 >= W
  <2>1. vga_putchar(s, c) = vga_newline(p)
    BY <1>4, <1>5, <1>7 DEF vga_putchar
  <2>2. PICK shift \in {0, W} :
          /\ shift # 0 => p.row + 1 = VGA_HEIGHT
          /\ CursorOf(vga_newline(p)) = p.row * W + W - shift
          /\ \A o \in Cells : vga_newline(p).cells[o] =
               IF o + shift \in Cells THEN p.cells[o + shift] ELSE SP
    BY <1>5, Newline
  <2>3. p.row * W + W - shift = k + 1 - shift
    BY <1>2, <1>3, <1>5, <1>7
  <2>4. vga_newline(p) \in Screens(S)
    BY <1>5, Newline
  <2>5. shift # 0 => k + 1 = VGA_WIDTH * VGA_HEIGHT
    <3>1. s.row + 1 = VGA_HEIGHT => s.row * W + W = VGA_WIDTH * VGA_HEIGHT
      BY <1>1, RowBounds
    <3>. QED  BY <1>2, <1>3, <1>5, <1>7, <2>2, <3>1
  <2>. QED  BY <1>6, <2>1, <2>2, <2>3, <2>4, <2>5 DEF k
<1>8. CASE s.col + 1 < W
  <2>1. vga_putchar(s, c) = p
    BY <1>2, <1>4, <1>5, <1>8 DEF vga_putchar
  <2>2. CursorOf(p) = k + 1
    BY <1>2, <1>3, <1>5 DEF CursorOf, vga_offset
  <2>3. p \in Screens(S)
    BY <1>2, <1>5, <1>8 DEF Pending, Screens
  <2>4. \A o \in Cells : o + 0 = o
    BY DEF Cells
  <2>. QED  BY <1>3, <1>6, <2>1, <2>2, <2>3, <2>4 DEF k
<1>. QED  BY <1>2, <1>7, <1>8

(* Backspace: one cell back, except in the first one. *)
LEMMA PutBackspace ==
  ASSUME NEW S, NEW s \in Screens(S)
  PROVE  /\ vga_putchar(s, BS) \in Screens(S)
         /\ vga_putchar(s, BS).cells = s.cells
         /\ CursorOf(vga_putchar(s, BS)) = IF CursorOf(s) > 0 THEN CursorOf(s) - 1 ELSE 0
<1> DEFINE W == VGA_WIDTH
           k == CursorOf(s)
           r == Backspaced(s)
<1>1. s.cells \in [Cells -> S] /\ s.row \in 0 .. (VGA_HEIGHT - 1) /\ s.col \in 0 .. (W - 1)
  BY DEF Screens
<1>2. W \in Nat /\ W > 0 /\ VGA_HEIGHT \in Nat /\ s.col \in Nat /\ s.row \in Nat
  BY <1>1, VgaAssumption
<1>3. /\ k \in Nat /\ k = s.row * W + s.col /\ s.row * W \in Nat
      /\ s.row > 0 => s.row * W = (s.row - 1) * W + W
  BY <1>1, CursorOnScreen, RowBounds
<1>4. Placed(s, BS) = r
  BY DEF Placed, BS, NL, CR, TAB
<1>5. /\ r \in Screens(S) /\ r.cells = s.cells
      /\ CursorOf(r) = IF k > 0 THEN k - 1 ELSE 0
  <2>1. CASE s.col > 0
    <3>1. r = [s EXCEPT !.col = s.col - 1]
      BY <2>1 DEF Backspaced
    <3>2. r.cells = s.cells /\ r.row = s.row /\ r.col = s.col - 1
      BY <3>1 DEF Screens
    <3>3. r \in Screens(S)
      <4>1. s.col - 1 \in 0 .. (W - 1)
        BY <1>1, <1>2, <2>1
      <4>. QED  BY <3>1, <4>1 DEF Screens
    <3>4. CursorOf(r) = s.row * W + (s.col - 1)
      BY <3>2 DEF CursorOf, vga_offset
    <3> HIDE DEF r, k
    <3>. QED  BY <1>2, <1>3, <2>1, <3>2, <3>3, <3>4
  <2>2. CASE s.col = 0 /\ s.row > 0
    <3>1. r = [s EXCEPT !.row = s.row - 1, !.col = W - 1]
      BY <2>2 DEF Backspaced
    <3>2. r.cells = s.cells /\ r.row = s.row - 1 /\ r.col = W - 1
      BY <3>1 DEF Screens
    <3>3. r \in Screens(S)
      <4>1. s.row - 1 \in 0 .. (VGA_HEIGHT - 1) /\ W - 1 \in 0 .. (W - 1)
        BY <1>1, <1>2, <2>2
      <4>. QED  BY <3>1, <4>1 DEF Screens
    <3>4. CursorOf(r) = (s.row - 1) * W + (W - 1)
      BY <3>2 DEF CursorOf, vga_offset
    <3>5. (s.row - 1) * W \in Nat
      BY <1>2, <2>2
    <3> HIDE DEF r, k
    <3>. QED  BY <1>2, <1>3, <2>2, <3>2, <3>3, <3>4, <3>5
  <2>3. CASE s.col = 0 /\ s.row = 0
    <3>1. r = s
      BY <2>3 DEF Backspaced
    <3>2. k = 0
      BY <1>2, <1>3, <2>3
    <3>. QED  BY <3>1, <3>2
  <2>. QED  BY <1>2, <2>1, <2>2, <2>3
<1>6. ~ (r.col >= W)
  BY <1>2, <1>5 DEF Screens
<1>7. vga_putchar(s, BS) = r
  BY <1>4, <1>6 DEF vga_putchar
<1>. QED  BY <1>5, <1>7

(* The newline that a `\n' brings leaves nothing behind the cursor. *)
LEMMA PutNewline ==
  ASSUME NEW S, SP \in S, NEW s \in Screens(S)
  PROVE  /\ vga_putchar(s, NL) \in Screens(S) /\ vga_newline(s) \in Screens(S)
         /\ BlankAhead(s) => BlankAhead(vga_putchar(s, NL)) /\ BlankAhead(vga_newline(s))
<1> DEFINE W == VGA_WIDTH
           k == CursorOf(s)
           p == [s EXCEPT !.col = W]
<1>1. s.cells \in [Cells -> S] /\ s.row \in 0 .. (VGA_HEIGHT - 1) /\ s.col \in 0 .. (W - 1)
  BY DEF Screens
<1>2. W \in Nat /\ W > 0 /\ s.col \in Nat
  BY <1>1, VgaAssumption
<1>3. k \in Nat /\ k = s.row * W + s.col /\ s.row * W \in Nat
  BY <1>1, CursorOnScreen, RowBounds
<1>4. s \in Pending(S)
  BY <1>1, <1>2 DEF Screens, Pending
<1>5. p \in Pending(S) /\ p.cells = s.cells /\ p.row = s.row /\ p.col = W
  <2>1. W \in 0 .. W
    BY <1>2
  <2>. QED  BY <1>4, <2>1 DEF Pending
<1>6. vga_putchar(s, NL) = vga_newline(p)
  <2>1. Placed(s, NL) = p
    BY DEF Placed, BS, NL, CR, TAB
  <2> HIDE DEF p
  <2>. QED  BY <1>2, <1>5, <2>1 DEF vga_putchar
<1> HIDE DEF p, k
<1>7. ASSUME NEW t \in Pending(S), t.cells = s.cells, t.row = s.row, BlankAhead(s)
      PROVE  BlankAhead(vga_newline(t))
  <2>1. PICK shift \in {0, W} :
          /\ CursorOf(vga_newline(t)) = s.row * W + W - shift
          /\ \A o \in Cells : vga_newline(t).cells[o] =
               IF o + shift \in Cells THEN s.cells[o + shift] ELSE SP
    BY <1>7, Newline
  <2>2. \A o \in Cells : o >= s.row * W + W - shift => o + shift >= k
    BY <1>1, <1>2, <1>3 DEF Cells
  <2>3. \A o \in Cells : o >= k => s.cells[o] = SP
    BY <1>7 DEF BlankAhead, k
  <2>. QED  BY <2>1, <2>2, <2>3 DEF BlankAhead
<1>8. vga_newline(p) \in Screens(S) /\ vga_newline(s) \in Screens(S)
  BY <1>4, <1>5, Newline
<1>. QED  BY <1>4, <1>5, <1>6, <1>7, <1>8

(* An ordinary character leaves nothing behind the cursor either. *)
LEMMA PlainBlankAhead ==
  ASSUME NEW S, SP \in S, NEW s \in Screens(S), NEW c \in S, c \notin {BS, NL, CR, TAB},
         BlankAhead(s)
  PROVE  BlankAhead(vga_putchar(s, c))
<1> DEFINE k == CursorOf(s)
           r == vga_putchar(s, c)
<1>1. k \in Nat /\ VGA_WIDTH \in Nat
  BY CursorOnScreen, VgaAssumption
<1>2. PICK shift \in {0, VGA_WIDTH} :
        /\ CursorOf(r) = k + 1 - shift
        /\ \A o \in Cells : r.cells[o] =
             IF o + shift \notin Cells THEN SP
             ELSE IF o + shift = k THEN c ELSE s.cells[o + shift]
  BY PutPlain
<1>3. \A o \in Cells : o >= k => s.cells[o] = SP
  BY DEF BlankAhead
<1> HIDE DEF k, r
<1>4. \A o \in Cells : o >= k + 1 - shift => o + shift >= k /\ o + shift # k
  BY <1>1 DEF Cells
<1>5. \A o \in Cells : o >= CursorOf(r) => r.cells[o] = SP
  BY <1>2, <1>3, <1>4
<1>. QED  BY <1>5 DEF BlankAhead, r

(* A tab: blanks up to the next stop. *)
LEMMA PutTab ==
  ASSUME NEW S, SP \in S, NEW s \in Screens(S)
  PROVE  /\ vga_putchar(s, TAB) \in Screens(S)
         /\ BlankAhead(s) => BlankAhead(vga_putchar(s, TAB))
<1> DEFINE W == VGA_WIDTH
           k == CursorOf(s)
           stop == (s.col \div 4 + 1) * 4
           end == IF stop < W THEN stop ELSE W
           p == Tabbed(s)
           cells == [o \in Cells |->
                       IF o \in vga_offset(s.row, s.col) .. (vga_offset(s.row, end) - 1)
                       THEN SP ELSE s.cells[o]]
<1>1. s.cells \in [Cells -> S] /\ s.row \in 0 .. (VGA_HEIGHT - 1) /\ s.col \in 0 .. (W - 1)
  BY DEF Screens
<1>2. W \in Nat /\ W > 0 /\ s.col \in Nat
  BY <1>1, VgaAssumption
<1>3. k \in Nat /\ k = s.row * W + s.col /\ s.row * W \in Nat
  BY <1>1, CursorOnScreen, RowBounds
<1>4. stop \in Nat /\ stop > s.col
  BY <1>2
<1>5. end \in 0 .. W /\ end > s.col
  <2> HIDE DEF stop
  <2>. QED  BY <1>1, <1>2, <1>4
<1>6. p = [s EXCEPT !.cells = cells, !.col = end]
  BY DEF Tabbed, Screens
<1>7. cells \in [Cells -> S]
  BY <1>1
<1>8. s \in Pending(S)
  BY <1>1, <1>2 DEF Screens, Pending
<1> HIDE DEF stop, end, p, cells, k
<1>9. p \in Pending(S) /\ p.cells = cells /\ p.row = s.row /\ p.col = end
  BY <1>5, <1>6, <1>7, <1>8, ScreenExcept DEF Pending
<1>10. \A o \in Cells : BlankAhead(s) /\ o >= k => cells[o] = SP
  BY DEF BlankAhead, cells, k
<1>11. Placed(s, TAB) = p
  BY DEF Placed, BS, NL, CR, TAB, p
<1>12. CASE end >= W
  <2>1. vga_putchar(s, TAB) = vga_newline(p)
    BY <1>9, <1>11, <1>12 DEF vga_putchar
  <2>2. PICK shift \in {0, W} :
          /\ CursorOf(vga_newline(p)) = s.row * W + W - shift
          /\ \A o \in Cells : vga_newline(p).cells[o] =
               IF o + shift \in Cells THEN cells[o + shift] ELSE SP
    BY <1>9, Newline
  <2>3. \A o \in Cells : o >= s.row * W + W - shift => o + shift >= k
    BY <1>1, <1>2, <1>3 DEF Cells
  <2>4. BlankAhead(s) => BlankAhead(vga_newline(p))
    BY <1>10, <2>2, <2>3 DEF BlankAhead
  <2>. QED  BY <1>9, <2>1, <2>4, Newline
<1>13. CASE end < W
  <2>1. vga_putchar(s, TAB) = p
    BY <1>2, <1>5, <1>9, <1>11, <1>13 DEF vga_putchar
  <2>2. p \in Screens(S)
    <3>1. end \in 0 .. (W - 1)
      BY <1>2, <1>5, <1>13
    <3>2. p \in [cells : [Cells -> S], row : 0 .. (VGA_HEIGHT - 1), col : 0 .. (W - 1)]
      BY <1>1, <1>6, <1>7, <3>1, ScreenExcept DEF Screens
    <3>. QED  BY <3>2 DEF Screens
  <2>3. CursorOf(p) = s.row * W + end
    BY <1>9 DEF CursorOf, vga_offset
  <2>4. \A o \in Cells : o >= s.row * W + end => o >= k
    BY <1>2, <1>3, <1>5 DEF Cells
  <2>5. BlankAhead(s) => BlankAhead(p)
    BY <1>9, <1>10, <2>3, <2>4 DEF BlankAhead
  <2>. QED  BY <2>1, <2>2, <2>5
<1>. QED  BY <1>2, <1>5, <1>12, <1>13

(* A cleared screen. *)
LEMMA ClearScreen ==
  ASSUME NEW S, SP \in S
  PROVE  vga_clear \in Screens(S) /\ BlankAhead(vga_clear)
<1>1. 0 \in 0 .. (VGA_WIDTH - 1) /\ 0 \in 0 .. (VGA_HEIGHT - 1)
  BY VgaAssumption
<1>. QED  BY <1>1 DEF vga_clear, Screens, BlankAhead

Erased(s) == vga_putchar(vga_putchar(vga_putchar(s, BS), SP), BS)

(* The three characters with which keyboard_readline erases one: the cell  *)
(* before the cursor becomes blank, the ones before that stay, and nothing *)
(* scrolls, unless the whole screen is one cell.                           *)
LEMMA Erase ==
  ASSUME NEW S, SP \in S, NEW s \in Screens(S)
  PROVE  /\ Erased(s) \in Screens(S)
         /\ BlankAhead(s) => BlankAhead(Erased(s))
         /\ CursorOf(s) > 0 =>
              /\ CursorOf(Erased(s)) = CursorOf(s) - 1
              /\ \A o \in Cells : o < CursorOf(s) - 1 => Erased(s).cells[o] = s.cells[o]
         /\ CursorOf(s) = 0 => CursorOf(Erased(s)) = 0
<1> DEFINE s1 == vga_putchar(s, BS)
           s2 == vga_putchar(s1, SP)
           s3 == vga_putchar(s2, BS)
           k == CursorOf(s)
           k1 == CursorOf(s1)
           k2 == CursorOf(s2)
           N == VGA_WIDTH * VGA_HEIGHT
<1>1. k \in Nat /\ N \in Nat /\ k < N /\ VGA_WIDTH \in Nat /\ VGA_WIDTH > 0
  BY CursorOnScreen, VgaAssumption
<1>2. s1 \in Screens(S) /\ s1.cells = s.cells /\ k1 = IF k > 0 THEN k - 1 ELSE 0
  BY PutBackspace
<1>3. s2 \in Screens(S)
  BY <1>2, PutPlain DEF SP, BS, NL, CR, TAB
<1>4. PICK shift \in {0, VGA_WIDTH} :
        /\ shift # 0 => k1 + 1 = N
        /\ k2 = k1 + 1 - shift
        /\ \A o \in Cells : s2.cells[o] =
             IF o + shift \notin Cells THEN SP
             ELSE IF o + shift = k1 THEN SP ELSE s1.cells[o + shift]
  BY <1>2, PutPlain DEF SP, BS, NL, CR, TAB
<1>5. /\ s3 \in Screens(S) /\ s3.cells = s2.cells
      /\ CursorOf(s3) = IF k2 > 0 THEN k2 - 1 ELSE 0
  BY <1>3, PutBackspace
<1>6. k2 \in Nat
  BY <1>3, CursorOnScreen
<1>7. Erased(s) = s3
  BY DEF Erased
<1>8. BlankAhead(s) <=> \A o \in Cells : o >= k => s.cells[o] = SP
  BY DEF BlankAhead
<1>9. BlankAhead(s3) <=> \A o \in Cells : o >= CursorOf(s3) => s3.cells[o] = SP
  BY DEF BlankAhead
<1>10. \A o \in Cells : o \in Nat /\ o + 0 = o
  BY DEF Cells
<1> HIDE DEF s1, s2, s3, k, k1, k2, N
<1>11. CASE k > 0
  <2>1. shift = 0 /\ k1 = k - 1 /\ k2 = k /\ CursorOf(s3) = k - 1
    BY <1>1, <1>2, <1>4, <1>5, <1>11
  <2>2. \A o \in Cells : s3.cells[o] = IF o = k - 1 THEN SP ELSE s.cells[o]
    BY <1>2, <1>4, <1>5, <1>10, <2>1
  <2>3. \A o \in Cells : o >= k - 1 /\ o # k - 1 => o >= k
    BY <1>1, <1>10
  <2>4. BlankAhead(s) => BlankAhead(s3)
    BY <1>8, <1>9, <2>1, <2>2, <2>3
  <2>5. \A o \in Cells : o < k - 1 => s3.cells[o] = s.cells[o]
    BY <1>1, <1>10, <2>2
  <2>. QED  BY <1>1, <1>5, <1>7, <1>11, <2>1, <2>4, <2>5 DEF k
<1>12. CASE k = 0
  <2>1. k1 = 0 /\ k2 \in {0, 1} /\ CursorOf(s3) = 0
    BY <1>1, <1>2, <1>4, <1>5, <1>6, <1>12
  <2>2. BlankAhead(s) => \A o \in Cells : s.cells[o] = SP
    BY <1>8, <1>10, <1>12
  <2>3. BlankAhead(s) => \A o \in Cells : s3.cells[o] = SP
    BY <1>2, <1>4, <1>5, <2>2
  <2>4. BlankAhead(s) => BlankAhead(s3)
    BY <1>9, <2>3
  <2>. QED  BY <1>5, <1>7, <1>12, <2>1, <2>4 DEF k
<1>. QED  BY <1>1, <1>11, <1>12
=============================================================================
