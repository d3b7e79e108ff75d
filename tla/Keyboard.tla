------------------------------ MODULE Keyboard ------------------------------
(***************************************************************************)
(* The keyboard driver of drivers/keyboard.c: irq1_handler feeds the ring  *)
(* buffer, and the shell's keyboard_readline drains it, echoing to the     *)
(* console.  An interrupt falls between any two steps of the reader, and   *)
(* its handler runs to the end (the gates of idt.c clear IF).              *)
(*                                                                         *)
(* pc, the reader's next step:                                             *)
(*   boot1, boot2, boot3  the assignments of keyboard_init                 *)
(*   prompt   shell_loop prints the prompt and calls keyboard_readline     *)
(*   empty    keyboard_read evaluates buf_empty()                          *)
(*   hlt      ... was true, hlt is next;   halted   the CPU sleeps         *)
(*   pop, advance   buf_pop reads the character, then moves buf_tail       *)
(*   got      keyboard_readline handles the character c                    *)
(*   command  keyboard_readline has returned; execute_command runs         *)
(***************************************************************************)
EXTENDS Vga, Sequences, FiniteSets

CONSTANTS
  KEY_BUF_SIZE,    \* 256
  MAX_CMD_LEN,     \* the max of keyboard_readline (128)
  LeftOver,        \* what key_buffer may hold from the boot before
  MaxTyped         \* bound on the characters typed

ASSUME KeyboardAssumption ==
  /\ KEY_BUF_SIZE \in Nat /\ KEY_BUF_SIZE >= 2
  /\ MAX_CMD_LEN \in Nat /\ MAX_CMD_LEN >= 2
  /\ MaxTyped \in Nat

(* One row of the tables for each way they treat a key. *)
scancode_to_ascii ==
  [A |-> "a", Enter |-> NL, Back |-> BS, Tab |-> TAB, F1 |-> NUL,
   LShift |-> NUL, RShift |-> NUL]

scancode_to_ascii_shift ==
  [A |-> "A", Enter |-> NL, Back |-> BS, Tab |-> TAB, F1 |-> NUL,
   LShift |-> NUL, RShift |-> NUL]

ShiftKeys == {"LShift", "RShift"}    \* 0x2A and 0x36
Keys      == DOMAIN scancode_to_ascii
Letters   == {"a", "A"}
Chars     == Letters \cup {NL, BS, TAB}
Junk      == "junk"                  \* a stack byte never written
Prompt    == ">"

ASSUME LeftOverAssumption == LeftOver \subseteq Chars \cup {NUL}

VARIABLES
  key_buffer, buf_head, buf_tail, shift_held,
  pc, c,
  buf, i,      \* the line and its length so far
  screen,
  held,        \* environment: the Shift keys that are down
  typed,       \* history: characters typed
  taken        \* history: characters keyboard_readline has got for this line

ring   == <<key_buffer, buf_head, buf_tail, shift_held>>
reader == <<c, buf, i, screen, taken>>
vars   == <<ring, pc, reader, held, typed>>

Succ(n) == (n + 1) % KEY_BUF_SIZE

Booting == pc \in {"boot1", "boot2", "boot3"}

-----------------------------------------------------------------------------
(* Mutants: plausible mistakes in the definitions below.                   *)
Mut_buf_push(ch) ==
  /\ key_buffer' = [key_buffer EXCEPT ![buf_head] = ch]
  /\ buf_head' = Succ(buf_head)

Mut_ReleaseKey(key) ==
  /\ shift_held' = (shift_held /\ key # "LShift")
  /\ UNCHANGED <<key_buffer, buf_head>>

Mut_Irq0 == UNCHANGED vars

Mut_Terminate(line, len) == pc' = "command" /\ buf' = line

Mut_HandleChar ==
  /\ pc = "got" /\ c \notin {NL, BS}
  /\ i' = i + 1
  /\ screen' = vga_putchar(screen, c)
  /\ buf' = [buf EXCEPT ![i] = c]
  /\ pc' = IF i + 1 < MAX_CMD_LEN THEN "empty" ELSE "command"
  /\ UNCHANGED <<ring, c, held, typed, taken>>

-----------------------------------------------------------------------------
(* Nothing clears .bss: after a reset the ring and the flag may be as the  *)
(* boot before has left them, and a Shift key may be down.                 *)
Init ==
  /\ key_buffer \in [0 .. (KEY_BUF_SIZE - 1) -> LeftOver]
  /\ buf_head \in 0 .. (KEY_BUF_SIZE - 1) /\ buf_tail \in 0 .. (KEY_BUF_SIZE - 1)
  /\ shift_held \in BOOLEAN /\ held \in SUBSET ShiftKeys
  /\ pc = "boot1" /\ c = NUL
  /\ buf = [n \in 0 .. (MAX_CMD_LEN - 1) |-> Junk] /\ i = 0
  /\ screen = vga_clear
  /\ typed = 0 /\ taken = <<>>

(* keyboard_init; interrupts have been on since idt_init. *)
ResetHead ==
  /\ pc = "boot1" /\ pc' = "boot2" /\ buf_head' = 0
  /\ UNCHANGED <<key_buffer, buf_tail, shift_held, reader, held, typed>>

ResetTail ==
  /\ pc = "boot2" /\ pc' = "boot3" /\ buf_tail' = 0
  /\ UNCHANGED <<key_buffer, buf_head, shift_held, reader, held, typed>>

ResetShift ==
  /\ pc = "boot3" /\ pc' = "prompt" /\ shift_held' = FALSE
  /\ UNCHANGED <<key_buffer, buf_head, buf_tail, reader, held, typed>>

-----------------------------------------------------------------------------
(* An interrupt ends a hlt. *)
Wake == pc' = IF pc = "halted" THEN "empty" ELSE pc

(* IRQ0: the timer's handler leaves the keyboard alone. *)
Irq0 ==
  /\ Wake
  /\ UNCHANGED <<ring, reader, held, typed>>

buf_push(ch) ==
  IF Succ(buf_head) # buf_tail
  THEN key_buffer' = [key_buffer EXCEPT ![buf_head] = ch] /\ buf_head' = Succ(buf_head)
  ELSE UNCHANGED <<key_buffer, buf_head>>

(* The character a key stands for, NUL if none. *)
Translate(key) ==
  IF shift_held THEN scancode_to_ascii_shift[key] ELSE scancode_to_ascii[key]

(* keyboard_handle_scancode with bit 7 set. *)
ReleaseKey(key) ==
  /\ shift_held' = (shift_held /\ key \notin ShiftKeys)
  /\ UNCHANGED <<key_buffer, buf_head>>

(* keyboard_handle_scancode with bit 7 clear. *)
PressKey(key) ==
  IF key \in ShiftKeys
  THEN shift_held' = TRUE /\ UNCHANGED <<key_buffer, buf_head>>
  ELSE /\ UNCHANGED shift_held
       /\ IF Translate(key) # NUL THEN buf_push(Translate(key))
          ELSE UNCHANGED <<key_buffer, buf_head>>

(* IRQ1: a key goes down, or repeats while it is down. *)
Irq1Press(key) ==
  /\ scancode_to_ascii[key] # NUL => typed < MaxTyped
  /\ typed' = IF scancode_to_ascii[key] # NUL THEN typed + 1 ELSE typed
  /\ held' = held \cup ({key} \cap ShiftKeys)
  /\ PressKey(key)
  /\ Wake
  /\ UNCHANGED <<buf_tail, reader>>

(* IRQ1: a key goes up. *)
Irq1Release(key) ==
  /\ key \in ShiftKeys => key \in held
  /\ held' = held \ {key}
  /\ ReleaseKey(key)
  /\ Wake
  /\ UNCHANGED <<buf_tail, typed, reader>>

-----------------------------------------------------------------------------
(* shell_loop: the prompt, and the call of keyboard_readline. *)
ShowPrompt ==
  /\ pc = "prompt" /\ pc' = "empty"
  /\ screen' = vga_putchar(screen, Prompt)
  /\ i' = 0 /\ taken' = <<>>
  /\ UNCHANGED <<ring, c, buf, held, typed>>

(* while (buf_empty()) *)
TestEmpty ==
  /\ pc = "empty"
  /\ pc' = IF buf_tail = buf_head THEN "hlt" ELSE "pop"
  /\ UNCHANGED <<ring, reader, held, typed>>

Halt ==
  /\ pc = "hlt" /\ pc' = "halted"
  /\ UNCHANGED <<ring, reader, held, typed>>

(* buf_pop: c = key_buffer[buf_tail], or 0 if the buffer is empty ... *)
ReadFront ==
  /\ pc = "pop"
  /\ IF buf_tail = buf_head
     THEN c' = NUL /\ pc' = "got"
     ELSE c' = key_buffer[buf_tail] /\ pc' = "advance"
  /\ UNCHANGED <<ring, buf, i, screen, taken, held, typed>>

(* ... then buf_tail moves on. *)
AdvanceTail ==
  /\ pc = "advance" /\ pc' = "got"
  /\ buf_tail' = Succ(buf_tail)
  /\ taken' = Append(taken, c)
  /\ UNCHANGED <<key_buffer, buf_head, shift_held, c, buf, i, screen, held, typed>>

(* buf[i] = '\0' and return. *)
Terminate(line, len) == pc' = "command" /\ buf' = [line EXCEPT ![len] = NUL]

HandleEnter ==
  /\ pc = "got" /\ c = NL
  /\ screen' = vga_putchar(screen, NL)
  /\ Terminate(buf, i)
  /\ UNCHANGED <<ring, c, i, held, typed, taken>>

(* vga_print("\b \b") erases the character on the screen. *)
HandleBackspace ==
  /\ pc = "got" /\ c = BS /\ pc' = "empty"
  /\ IF i > 0
     THEN /\ i' = i - 1
          /\ screen' = vga_putchar(vga_putchar(vga_putchar(screen, BS), SP), BS)
     ELSE UNCHANGED <<i, screen>>
  /\ UNCHANGED <<ring, c, buf, held, typed, taken>>

(* Store and echo; the loop ends when max - 1 characters are there. *)
HandleChar ==
  /\ pc = "got" /\ c \notin {NL, BS}
  /\ i' = i + 1
  /\ screen' = vga_putchar(screen, c)
  /\ LET line == [buf EXCEPT ![i] = c]
     IN  IF i + 1 < MAX_CMD_LEN - 1
         THEN pc' = "empty" /\ buf' = line
         ELSE Terminate(line, i + 1)
  /\ UNCHANGED <<ring, c, held, typed, taken>>

(* execute_command returns.  Its output, which ends with a newline, is     *)
(* reduced to that; an empty command prints nothing.                       *)
RunCommand ==
  /\ pc = "command" /\ pc' = "prompt"
  /\ screen' \in {screen, vga_newline(screen), vga_clear}
  /\ UNCHANGED <<ring, c, buf, i, held, typed, taken>>

Reader ==
  \/ ResetHead \/ ResetTail \/ ResetShift
  \/ ShowPrompt \/ TestEmpty \/ Halt \/ ReadFront \/ AdvanceTail
  \/ HandleEnter \/ HandleBackspace \/ HandleChar \/ RunCommand

Next ==
  \/ Reader
  \/ Irq0
  \/ \E key \in Keys : Irq1Press(key) \/ Irq1Release(key)

Spec == Init /\ [][Next]_vars

(* The reader runs whenever it can, and the timer keeps ticking. *)
FairSpec == Spec /\ WF_vars(Reader) /\ WF_vars(Irq0)

-----------------------------------------------------------------------------
(* Type invariant. *)
TypeOK ==
  /\ key_buffer \in [0 .. (KEY_BUF_SIZE - 1) -> Chars \cup {NUL}]
  /\ buf_head \in 0 .. (KEY_BUF_SIZE - 1) /\ buf_tail \in 0 .. (KEY_BUF_SIZE - 1)
  /\ shift_held \in BOOLEAN
  /\ pc \in {"boot1", "boot2", "boot3", "prompt", "empty", "hlt", "halted",
             "pop", "advance", "got", "command"}
  /\ c \in Chars \cup {NUL}
  /\ buf \in [0 .. (MAX_CMD_LEN - 1) -> Letters \cup {TAB, NUL, Junk}]
  /\ i \in 0 .. (MAX_CMD_LEN - 1)
  /\ screen \in [cells : [Cells -> Letters \cup {SP, Prompt}],
                 row : 0 .. (VGA_HEIGHT - 1), col : 0 .. (VGA_WIDTH - 1)]
  /\ held \subseteq ShiftKeys
  /\ typed \in 0 .. MaxTyped
  /\ taken \in Seq(Chars)

(* The ring buffer, filled by irq1_handler and drained by buf_pop without  *)
(* a lock, is a FIFO queue of KEY_BUF_SIZE - 1 characters: none is read    *)
(* twice, out of order or half written, whatever step of keyboard_read or  *)
(* keyboard_init an interrupt falls into, and once keyboard_init has       *)
(* returned none is lost while there is room.  Nothing that the boot       *)
(* before has left in the ring is ever read: what waits begins at Front,   *)
(* which is where keyboard_init is going to put buf_tail.                  *)
Front ==
  CASE pc = "boot1" -> buf_head [] pc = "boot2" -> 0 [] OTHER -> buf_tail

Waiting ==
  [n \in 1 .. ((buf_head - Front + KEY_BUF_SIZE) % KEY_BUF_SIZE) |->
     key_buffer[(Front + n - 1) % KEY_BUF_SIZE]]

Queue == INSTANCE KeyQueue
           WITH Capacity <- KEY_BUF_SIZE - 1, queue <- Waiting, up <- ~ Booting
RefinesKeyQueue == Queue!Spec

(* A Shift that is up never shifts a character: once keyboard_init has     *)
(* returned, shift_held is set only while one of the two Shift keys is     *)
(* down, although they share the flag, and whatever the flag was before.   *)
ShiftNotStuck == ~ Booting /\ shift_held => held # {}

(* The character typed at position j of s is still there at its end: no    *)
(* point after it has more Backspaces than characters since j.             *)
Count(s, from, to, S) == Cardinality({n \in from .. to : s[n] \in S})

Survives(s, j) ==
  /\ s[j] \notin {NL, BS}
  /\ \A m \in (j + 1) .. Len(s) :
       Count(s, j + 1, m, {BS}) <= Count(s, j + 1, m, Chars \ {NL, BS})

Surviving(s) == {j \in 1 .. Len(s) : Survives(s, j)}

(* The first n characters of a line are those of s that survive, in order: *)
(* p is where each was typed.                                              *)
Edited(line, n, s) ==
  \E p \in [0 .. (n - 1) -> 1 .. Len(s)] :
    /\ Surviving(s) = {p[m] : m \in 0 .. (n - 1)}
    /\ \A m \in 0 .. (n - 1), l \in 0 .. (n - 1) : m < l => p[m] < p[l]
    /\ \A m \in 0 .. (n - 1) : line[m] = s[p[m]]

(* The string keyboard_readline returns is what was typed, less what was   *)
(* erased: it ends at the terminator that keyboard_readline wrote, nothing *)
(* of an earlier line shows, and no NUL from the tables cuts it short.     *)
LineIsTyped ==
  pc = "command" =>
    \E n \in DOMAIN buf :
      /\ buf[n] = NUL /\ \A m \in 0 .. (n - 1) : buf[m] # NUL
      /\ Edited(buf, n, taken)

Reading == pc \in {"empty", "hlt", "halted", "pop", "advance", "got"}
Cursor  == vga_offset(screen.row, screen.col)
Tabbing == \E n \in 1 .. Len(taken) : taken[n] = TAB

(* The console shows the line being edited: the cells before the cursor    *)
(* hold the characters of buf, also when the line wraps or scrolls, is     *)
(* erased across a row's end and typed again, and nothing erased is left   *)
(* behind the cursor.  Lines with a Tab are the exception: one Backspace   *)
(* takes the Tab out of buf but only one of its columns off the screen.    *)
EchoShowsLine ==
  Reading /\ ~ Tabbing =>
    /\ \A j \in 1 .. i : Cursor - j >= 0 => screen.cells[Cursor - j] = buf[i - j]
    /\ \A o \in Cells : o >= Cursor => screen.cells[o] = SP
    /\ Cursor - i - 1 >= 0 => screen.cells[Cursor - i - 1] = Prompt

-----------------------------------------------------------------------------
(* The character at the front of the buffer is read: the shell does not    *)
(* sleep on a key, even if IRQ1 falls between the test of buf_empty() and  *)
(* hlt; then the next timer interrupt ends the hlt.                        *)
FrontKeyTaken ==
  \A t \in 0 .. (KEY_BUF_SIZE - 1) :
    (~ Booting /\ buf_tail = t /\ buf_head # t) ~> (buf_tail # t)
=============================================================================
