-------------------------------- MODULE Vga ---------------------------------
(***************************************************************************)
(* The text console of drivers/vga.c as operators on a screen              *)
(*   [cells, row, col] : cells is the character plane of 0xB8000, row and  *)
(* col are cursor_row and cursor_col.  Colour attributes are left out.     *)
(***************************************************************************)
EXTENDS Integers

CONSTANTS VGA_WIDTH, VGA_HEIGHT

ASSUME VgaAssumption ==
  VGA_WIDTH \in Nat \ {0} /\ VGA_HEIGHT \in Nat \ {0}

NUL == "NUL"
NL  == "NL"
CR  == "CR"
BS  == "BS"
TAB == "TAB"
SP  == " "

Cells == 0 .. (VGA_WIDTH * VGA_HEIGHT - 1)

vga_offset(row, col) == row * VGA_WIDTH + col

vga_clear == [cells |-> [o \in Cells |-> SP], row |-> 0, col |-> 0]

(* Every row moves up by one; the last one becomes blank. *)
vga_scroll(cells) ==
  [o \in Cells |-> IF o + VGA_WIDTH \in Cells THEN cells[o + VGA_WIDTH] ELSE SP]

vga_newline(s) ==
  IF s.row + 1 < VGA_HEIGHT
  THEN [s EXCEPT !.row = s.row + 1, !.col = 0]
  ELSE [s EXCEPT !.cells = vga_scroll(s.cells), !.col = 0]

(* A mutant: Backspace does not go back to the row before. *)
Mut_Backspaced(s) == IF s.col > 0 THEN [s EXCEPT !.col = s.col - 1] ELSE s

Backspaced(s) ==
  IF s.col > 0 THEN [s EXCEPT !.col = s.col - 1]
  ELSE IF s.row > 0 THEN [s EXCEPT !.row = s.row - 1, !.col = VGA_WIDTH - 1]
  ELSE s

(* A tab blanks the cells up to the next multiple of 4 or the row's end. *)
Tabbed(s) ==
  LET stop == (s.col \div 4 + 1) * 4
      end  == IF stop < VGA_WIDTH THEN stop ELSE VGA_WIDTH
  IN  [s EXCEPT !.col = end, !.cells = [o \in Cells |->
         IF o \in vga_offset(s.row, s.col) .. (vga_offset(s.row, end) - 1)
         THEN SP ELSE s.cells[o]]]

(* The effect of a character; a cursor past the row's end is a newline due. *)
Placed(s, c) ==
  CASE c = BS  -> Backspaced(s)
    [] c = NL  -> [s EXCEPT !.col = VGA_WIDTH]
    [] c = CR  -> [s EXCEPT !.col = 0]
    [] c = TAB -> Tabbed(s)
    [] OTHER   -> [s EXCEPT !.cells[vga_offset(s.row, s.col)] = c, !.col = s.col + 1]

vga_putchar(s, c) ==
  LET p == Placed(s, c) IN IF p.col >= VGA_WIDTH THEN vga_newline(p) ELSE p
=============================================================================
