------------------------------ MODULE Console -------------------------------
(***************************************************************************)
(* Output to the screen: printf of libc/stdio.c with the conversions of    *)
(* libc/string.c, character by character and, where vga_scroll copies the  *)
(* screen, cell by cell, beside background_task of shell.c, which writes   *)
(* a counter into the top right corner of the same video memory.  The      *)
(* timer interrupt may switch between the two at every step.               *)
(*                                                                         *)
(* A call is a sequence of items: a literal character, or a conversion     *)
(* with its flags and its argument.  printf sees the characters that spell *)
(* the items and the arguments in their order; what the call means is read *)
(* off the items.  An argument is a 32-bit word; str and chr are what it   *)
(* points to and which character it is.                                    *)
(***************************************************************************)
EXTENDS Vga, Sequences, SequencesExt

CONSTANTS
  Calls,       \* the calls of printf
  WordMod,     \* values of a uint32_t (2^32)
  OFFSET,      \* column of the counter (70)
  CountMod,    \* values of the counter (2^32, which has 10 digits)
  MaxCalls     \* bound on the calls made

Digits == <<"0", "1", "2", "3", "4", "5", "6", "7", "8", "9", "a", "b", "c", "d", "e", "f">>

ASSUME ConsoleAssumption ==
  /\ WordMod \in Nat \ {0} /\ CountMod \in Nat \ {0} /\ MaxCalls \in Nat
  /\ OFFSET \in 0 .. (VGA_WIDTH - 1)

VARIABLES
  screen,
  pc,               \* "idle", "format", "print" or "scroll"
  call,
  i, args,          \* printf: next character of format, arguments left
  chars_written,
  queue,            \* characters on their way to vga_putchar
  k,                \* vga_scroll: next cell
  count, digits,    \* background_task: the counter, its digits to write
  j,                \* ... and the next one, 0 while it sleeps
  made,             \* calls made
  out,              \* history: what this call has printed
  plain             \* history: the screen if nobody else wrote to it

shell      == <<call, i, args, chars_written, queue, made, out>>
background == <<count, digits, j>>
vars       == <<screen, pc, shell, k, background, plain>>

-----------------------------------------------------------------------------
(* The digits of value, the lowest first. *)
LowFirst(value, base) ==
  LET d[v \in 0 .. WordMod + CountMod] ==
        IF v = 0 THEN <<>> ELSE <<Digits[(v % base) + 1]>> \o d[v \div base]
  IN  d[value]

(* A mutant: the digits are not reversed. *)
Mut_uitoa(value, base) == IF value = 0 THEN <<"0">> ELSE LowFirst(value, base)

uitoa(value, base) == IF value = 0 THEN <<"0">> ELSE Reverse(LowFirst(value, base))

(* background_task has room for its counter: ten digits in columns 70-79. *)
ASSUME CounterFits ==
  \A v \in 0 .. (CountMod - 1) : Len(uitoa(v, 10)) \in 1 .. (VGA_WIDTH - OFFSET)

Signed(word) == IF word < WordMod \div 2 THEN word ELSE word - WordMod
INT_MIN == - (WordMod \div 2)

(* itoa(value, str, 10).  -INT_MIN is INT_MIN again: its remainders are    *)
(* negative and no digits.                                                 *)
itoa(value) ==
  IF value >= 0 THEN uitoa(value, 10)
  ELSE <<"-">> \o (IF value = INT_MIN THEN [n \in DOMAIN uitoa(- value, 10) |-> "junk"]
                   ELSE uitoa(- value, 10))

(* What printf prints for the character c after `%'. *)
Conversion(c, arg) ==
  CASE c = "s"        -> IF arg.word = 0 THEN <<"(null)">> ELSE arg.str
    [] c = "c"        -> <<arg.chr>>
    [] c \in {"d", "i"} -> itoa(Signed(arg.word))
    [] c = "u"        -> uitoa(arg.word, 10)
    [] c \in {"x", "X"} -> <<"0", "x">> \o uitoa(arg.word, 16)
    [] c = "%"        -> <<"%">>
    [] OTHER          -> <<"%", c>>

(* The characters for which it takes an argument. *)
Taking == {"s", "c", "d", "i", "u", "x", "X"}

-----------------------------------------------------------------------------
IsConversion(item) == item.conv # "literal"

(* How an item is spelled in the format. *)
Spelling(item) ==
  IF IsConversion(item) THEN <<"%">> \o item.flags \o <<item.conv>> ELSE <<item.chr>>

Format(c) == FlattenSeq([n \in DOMAIN c |-> Spelling(c[n])])

Taken(item)  == IF item.conv \in Taking THEN <<item.arg>> ELSE <<>>
Arguments(c) == FlattenSeq([n \in DOMAIN c |-> Taken(c[n])])

Init ==
  /\ screen = vga_clear /\ plain = vga_clear
  /\ pc = "idle" /\ call = <<>> /\ i = 1 /\ args = <<>> /\ chars_written = 0
  /\ queue = <<>> /\ k = 0 /\ made = 0 /\ out = <<>>
  /\ count = 0 /\ digits = <<>> /\ j = 0

Printf(c) ==
  /\ pc = "idle" /\ made < MaxCalls
  /\ pc' = "format" /\ made' = made + 1
  /\ call' = c /\ args' = Arguments(c)
  /\ i' = 1 /\ chars_written' = 0 /\ out' = <<>>
  /\ UNCHANGED <<screen, queue, k, background, plain>>

Send(text) ==
  /\ queue' = text /\ pc' = IF text = <<>> THEN "format" ELSE "print"
  /\ chars_written' = chars_written + Len(text)

Literal ==
  /\ pc = "format" /\ i <= Len(Format(call)) /\ Format(call)[i] # "%"
  /\ Send(<<Format(call)[i]>>)
  /\ i' = i + 1
  /\ UNCHANGED <<screen, call, args, k, made, out, background, plain>>

(* i++ skips the `%', and the loop the character after it. *)
Directive ==
  /\ pc = "format" /\ i <= Len(Format(call)) /\ Format(call)[i] = "%"
  /\ LET c == Format(call)[i + 1]
     IN  /\ Send(Conversion(c, IF args = <<>> THEN [word |-> 0] ELSE Head(args)))
         /\ args' = IF c \in Taking THEN Tail(args) ELSE args
  /\ i' = i + 2
  /\ UNCHANGED <<screen, call, k, made, out, background, plain>>

ReturnPrintf ==
  /\ pc = "format" /\ i > Len(Format(call)) /\ pc' = "idle"
  /\ UNCHANGED <<screen, shell, k, background, plain>>

(* The shell's `clear' command. *)
Clear ==
  /\ pc = "idle"
  /\ screen' = vga_clear /\ plain' = vga_clear
  /\ UNCHANGED <<pc, shell, k, background>>

-----------------------------------------------------------------------------
Emptied == pc' = IF Len(queue) = 1 THEN "format" ELSE "print"

(* vga_putchar, up to a scroll.  A tab's cells are written in one step. *)
PutChar ==
  /\ pc = "print"
  /\ LET p == Placed(screen, Head(queue))
     IN  IF p.col >= VGA_WIDTH /\ p.row = VGA_HEIGHT - 1
         THEN screen' = [p EXCEPT !.col = 0] /\ pc' = "scroll" /\ UNCHANGED queue
         ELSE screen' = vga_putchar(screen, Head(queue)) /\ Emptied /\ queue' = Tail(queue)
  /\ out' = Append(out, Head(queue))
  /\ plain' = vga_putchar(plain, Head(queue))
  /\ UNCHANGED <<call, i, args, chars_written, k, made, background>>

(* vga_scroll: the cell below moves up; the last row is cleared. *)
ScrollCell ==
  /\ pc = "scroll"
  /\ screen' = [screen EXCEPT !.cells[k] =
                  IF k + VGA_WIDTH \in Cells THEN screen.cells[k + VGA_WIDTH] ELSE SP]
  /\ IF k + 1 \in Cells THEN k' = k + 1 /\ UNCHANGED <<pc, queue>>
     ELSE k' = 0 /\ Emptied /\ queue' = Tail(queue)
  /\ UNCHANGED <<call, i, args, chars_written, made, out, background, plain>>

-----------------------------------------------------------------------------
(* background_task after its sleep: uitoa(count++, buffer, 10). *)
NextCount ==
  /\ j = 0 /\ j' = 1
  /\ digits' = uitoa(count, 10) /\ count' = (count + 1) % CountMod
  /\ UNCHANGED <<screen, pc, shell, k, plain>>

(* A mutant: the counter starts one column further right. *)
Mut_WriteDigit ==
  /\ j > 0
  /\ screen' = [screen EXCEPT !.cells[OFFSET + j] = digits[j]]
  /\ j' = IF j < Len(digits) THEN j + 1 ELSE 0
  /\ UNCHANGED <<pc, shell, k, count, digits, plain>>

WriteDigit ==
  /\ j > 0
  /\ screen' = [screen EXCEPT !.cells[OFFSET + j - 1] = digits[j]]
  /\ j' = IF j < Len(digits) THEN j + 1 ELSE 0
  /\ UNCHANGED <<pc, shell, k, count, digits, plain>>

Next ==
  \/ \E c \in Calls : Printf(c)
  \/ Literal \/ Directive \/ ReturnPrintf \/ Clear \/ PutChar \/ ScrollCell
  \/ NextCount \/ WriteDigit

Spec == Init /\ [][Next]_vars

-----------------------------------------------------------------------------
Power(base, e) ==
  LET p[x \in 0 .. e] == IF x = 0 THEN 1 ELSE base * p[x - 1] IN p[e]

(* The numeral of value: as few digits as needed, of the right weights. *)
NumeralLength(value, base) ==
  CHOOSE n \in 1 .. (value + 1) :
    Power(base, n) > value /\ \A m \in 1 .. (n - 1) : Power(base, m) <= value

Numeral(value, base) ==
  LET n == NumeralLength(value, base)
  IN  [d \in 1 .. n |-> Digits[((value \div Power(base, n - d)) % base) + 1]]

(* What an item means: C's conversions, but for the prefix of %x. *)
Unpadded(item) ==
  CASE item.conv = "literal"    -> <<item.chr>>
    [] item.conv = "s"          -> IF item.arg.word = 0 THEN <<"(null)">> ELSE item.arg.str
    [] item.conv = "c"          -> <<item.arg.chr>>
    [] item.conv \in {"d", "i"} ->
         LET v == Signed(item.arg.word)
         IN  IF v < 0 THEN <<"-">> \o Numeral(- v, 10) ELSE Numeral(v, 10)
    [] item.conv = "u"          -> Numeral(item.arg.word, 10)
    [] item.conv \in {"x", "X"} -> <<"0", "x">> \o Numeral(item.arg.word, 16)
    [] item.conv = "%"          -> <<"%">>
    [] OTHER                    -> <<"%", item.conv>>

Meant(item) ==
  LET t == Unpadded(item)
  IN  t \o [n \in 1 .. (item.width - Len(t)) |-> SP]

Overflows(item) == item.conv \in {"d", "i"} /\ Signed(item.arg.word) = INT_MIN

IsSequence(s) == s \in Seq({s[n] : n \in DOMAIN s})

(* What printf has been written for: characters other than `%', and        *)
(* specifiers without flags, whose arguments are words.                    *)
Handled(item) ==
  /\ item.width = 0
  /\ IF IsConversion(item)
     THEN item.flags = <<>> /\ item.arg.word \in 0 .. (WordMod - 1) /\ IsSequence(item.arg.str)
     ELSE item.chr # "%"

HandledCall(c) == IsSequence(c) /\ \A n \in DOMAIN c : Handled(c[n])

(* printf prints what its format and arguments mean and returns the number *)
(* of characters: no argument is taken by the wrong conversion, numbers    *)
(* have no leading zeros and are not reversed, and unknown specifiers are  *)
(* printed literally.  %d of INT_MIN is the exception, since itoa negates. *)
OutputAsFormatted ==
  pc = "idle" /\ (\A n \in DOMAIN call : ~ Overflows(call[n])) =>
    /\ out = FlattenSeq([n \in DOMAIN call |-> Meant(call[n])])
    /\ chars_written = Len(out)

Corner == OFFSET .. (VGA_WIDTH - 1)

(* background_task disturbs the shell's output in its corner of the top    *)
(* row and nowhere else, wherever the timer interrupts vga_scroll or       *)
(* vga_putchar: the corner is never copied to another cell, and the        *)
(* counter, at its largest, still fits into the row.                       *)
OutputUndisturbed ==
  /\ screen.row = plain.row /\ screen.col = plain.col
  /\ \A o \in Cells \ Corner :
       (pc = "scroll" => o < k) => screen.cells[o] = plain.cells[o]
=============================================================================
