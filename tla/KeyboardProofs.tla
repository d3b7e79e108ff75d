--------------------------- MODULE KeyboardProofs ---------------------------
(***************************************************************************)
(* Proofs about Keyboard, for every size of the key buffer, length of a    *)
(* line and size of the screen, and for any number of characters typed.    *)
(***************************************************************************)
EXTENDS Keyboard, VgaProofs, SequenceTheorems, FiniteSetTheorems, WellFoundedInduction

-----------------------------------------------------------------------------
(* The inductive invariant.                                                *)

(* Between the two resets of keyboard_init buf_head moves up to the old    *)
(* buf_tail at most, and does not get around.                              *)
BootInv == pc = "boot2" => buf_head < buf_tail \/ buf_tail = 0

(* What waits in the buffer was typed. *)
WindowInv == \A n \in DOMAIN Waiting : Waiting[n] \in Chars

(* keyboard_read gets to buf_pop only when a character waits: interrupts   *)
(* add to the buffer and take nothing out.  They never write into the slot *)
(* that buf_pop has just read.                                             *)
FrontInv ==
  /\ pc \in {"pop", "advance"} => buf_tail # buf_head
  /\ pc = "advance" => c = key_buffer[buf_tail]

(* keyboard_readline handles a character that was typed, the last one that *)
(* it has got, and has room for it and for the terminator.                 *)
GotInv == pc = "got" => c \in Chars /\ \E n \in 1 .. Len(taken) : taken[n] = c
RoomInv == Reading => i < MAX_CMD_LEN - 1

(* Nothing is shown behind the cursor. *)
BlankInv == \A o \in Cells : o >= Cursor => screen.cells[o] = SP

KeyInv ==
  /\ TypeOK /\ ShiftNotStuck /\ BootInv /\ WindowInv /\ FrontInv /\ GotInv /\ RoomInv
  /\ BlankInv /\ EchoShowsLine

-----------------------------------------------------------------------------
(* The tables. *)

(* A key stands for a character with and without Shift, or for none. *)
LEMMA Tables ==
  ASSUME NEW key \in Keys
  PROVE  /\ scancode_to_ascii[key] \in Chars \cup {NUL}
         /\ scancode_to_ascii_shift[key] \in Chars \cup {NUL}
         /\ scancode_to_ascii[key] = NUL <=> scancode_to_ascii_shift[key] = NUL
         /\ key \in ShiftKeys => scancode_to_ascii[key] = NUL
<1>1. key \in {"A", "Enter", "Back", "Tab", "F1", "LShift", "RShift"}
  BY DEF Keys, scancode_to_ascii
<1>. QED
  BY <1>1 DEF scancode_to_ascii, scancode_to_ascii_shift, ShiftKeys,
              Chars, Letters, NL, BS, TAB, NUL

(* The character of a key that stands for one, and the NUL of the tables,  *)
(* which is no character.                                                  *)
LEMMA Translated ==
  ASSUME NEW key \in Keys
  PROVE  /\ Translate(key) = NUL <=> scancode_to_ascii[key] = NUL
         /\ Translate(key) # NUL => Translate(key) \in Chars
         /\ NUL \notin Chars
<1>1. NUL \notin Chars
  BY DEF Chars, Letters, NL, BS, TAB, NUL
<1>. QED  BY <1>1, Tables DEF Translate

-----------------------------------------------------------------------------
(* The ring buffer, as functions of its contents b and its indices, head h *)
(* and tail t: how many characters wait, where the n-th is, and which they *)
(* are.                                                                    *)

Indices == 0 .. (KEY_BUF_SIZE - 1)
Length(h, t)  == (h - t + KEY_BUF_SIZE) % KEY_BUF_SIZE
Slot(t, n)    == (t + n - 1) % KEY_BUF_SIZE
Window(b, h, t) == [n \in 1 .. Length(h, t) |-> b[Slot(t, n)]]

(* Indices are at most one lap ahead. *)
LEMMA OneLap ==
  ASSUME NEW x \in Nat, x < KEY_BUF_SIZE + KEY_BUF_SIZE
  PROVE  x % KEY_BUF_SIZE = IF x < KEY_BUF_SIZE THEN x ELSE x - KEY_BUF_SIZE
<1>1. KEY_BUF_SIZE \in Nat /\ KEY_BUF_SIZE > 0
  BY KeyboardAssumption
<1>. QED  BY <1>1

(* The number of characters that wait. *)
LEMMA LengthIs ==
  ASSUME NEW h \in Indices, NEW t \in Indices
  PROVE  /\ Length(h, t) = IF h >= t THEN h - t ELSE h - t + KEY_BUF_SIZE
         /\ Length(h, t) \in Nat /\ Length(h, t) < KEY_BUF_SIZE
<1>1. KEY_BUF_SIZE \in Nat /\ KEY_BUF_SIZE > 0 /\ h \in Nat /\ t \in Nat
  BY KeyboardAssumption DEF Indices
<1> DEFINE x == h - t + KEY_BUF_SIZE
<1>2. x \in Nat /\ x < KEY_BUF_SIZE + KEY_BUF_SIZE
  BY <1>1 DEF Indices
<1>3. x % KEY_BUF_SIZE = IF x < KEY_BUF_SIZE THEN x ELSE x - KEY_BUF_SIZE
  BY <1>2, OneLap
<1>4. Length(h, t) = IF h >= t THEN h - t ELSE h - t + KEY_BUF_SIZE
  BY <1>1, <1>3 DEF Length
<1>. QED  BY <1>1, <1>4 DEF Indices

(* The slot of the n-th character. *)
LEMMA SlotIs ==
  ASSUME NEW t \in Indices, NEW n \in 1 .. KEY_BUF_SIZE
  PROVE  /\ Slot(t, n) = IF t + n - 1 < KEY_BUF_SIZE THEN t + n - 1
                         ELSE t + n - 1 - KEY_BUF_SIZE
         /\ Slot(t, n) \in Indices
<1>1. KEY_BUF_SIZE \in Nat /\ KEY_BUF_SIZE > 0 /\ t \in Nat /\ n \in Nat
  BY KeyboardAssumption DEF Indices
<1> DEFINE x == t + n - 1
<1>2. x \in Nat /\ x < KEY_BUF_SIZE + KEY_BUF_SIZE
  BY <1>1 DEF Indices
<1>3. Slot(t, n) = IF x < KEY_BUF_SIZE THEN x ELSE x - KEY_BUF_SIZE
  <2> HIDE DEF x
  <2>1. x % KEY_BUF_SIZE = IF x < KEY_BUF_SIZE THEN x ELSE x - KEY_BUF_SIZE
    BY <1>2, OneLap
  <2>. QED  BY <2>1 DEF Slot, x
<1>. QED  BY <1>1, <1>2, <1>3 DEF Indices

(* The slot after a slot. *)
LEMMA SuccIs ==
  ASSUME NEW n \in Indices
  PROVE  Succ(n) \in Indices /\ Succ(n) = IF n + 1 = KEY_BUF_SIZE THEN 0 ELSE n + 1
<1>1. KEY_BUF_SIZE \in Nat /\ KEY_BUF_SIZE >= 2 /\ n \in Nat /\ n < KEY_BUF_SIZE
  BY KeyboardAssumption DEF Indices
<1>2. (n + 1) % KEY_BUF_SIZE = IF n + 1 < KEY_BUF_SIZE THEN n + 1 ELSE n + 1 - KEY_BUF_SIZE
  BY <1>1, OneLap
<1>. QED  BY <1>1, <1>2 DEF Succ, Indices

(* What waits is a sequence of characters, empty when the indices agree. *)
LEMMA WindowType ==
  ASSUME NEW b, NEW h \in Indices, NEW t \in Indices,
         \A n \in DOMAIN Window(b, h, t) : Window(b, h, t)[n] \in Chars
  PROVE  /\ Window(b, h, t) \in Seq(Chars) /\ Len(Window(b, h, t)) = Length(h, t)
         /\ \A n \in 1 .. Length(h, t) : Window(b, h, t)[n] = b[Slot(t, n)]
         /\ Window(b, h, t) = <<>> <=> h = t
<1> DEFINE L == Length(h, t)
           w == Window(b, h, t)
<1>1. L \in Nat
  BY LengthIs
<1>2. w = [n \in 1 .. L |-> b[Slot(t, n)]]
  BY DEF Window
<1> HIDE DEF L, w
<1>3. w \in [1 .. L -> Chars]
  <2>1. DOMAIN w = 1 .. L
    BY <1>2
  <2>2. \A n \in 1 .. L : w[n] \in Chars
    BY <2>1 DEF w
  <2>. QED  BY <1>2, <2>2
<1>4. w \in Seq(Chars) /\ Len(w) = L
  BY <1>1, <1>3
<1>5. w = <<>> <=> L = 0
  BY <1>1, <1>4, EmptySeq
<1>6. L = 0 <=> h = t
  <2>1. h \in Nat /\ t \in Nat /\ h < KEY_BUF_SIZE /\ t < KEY_BUF_SIZE /\ KEY_BUF_SIZE \in Nat
    BY KeyboardAssumption DEF Indices
  <2>2. L = IF h >= t THEN h - t ELSE h - t + KEY_BUF_SIZE
    BY LengthIs DEF L
  <2>. QED  BY <2>1, <2>2
<1>7. \A n \in 1 .. L : w[n] = b[Slot(t, n)]
  BY <1>2
<1>. QED  BY <1>4, <1>5, <1>6, <1>7 DEF L, w

(* buf_push appends when there is room, and overwrites nothing that waits. *)
LEMMA WindowPush ==
  ASSUME NEW b \in [Indices -> Chars \cup {NUL}], NEW h \in Indices, NEW t \in Indices,
         \A n \in DOMAIN Window(b, h, t) : Window(b, h, t)[n] \in Chars,
         NEW ch \in Chars, Succ(h) # t
  PROVE  /\ Window([b EXCEPT ![h] = ch], Succ(h), t) = Append(Window(b, h, t), ch)
         /\ Len(Window(b, h, t)) < KEY_BUF_SIZE - 1
<1> DEFINE L == Length(h, t)
           w == Window(b, h, t)
           b1 == [b EXCEPT ![h] = ch]
           w1 == Window(b1, Succ(h), t)
<1>1. /\ h \in Nat /\ t \in Nat /\ h < KEY_BUF_SIZE /\ t < KEY_BUF_SIZE
      /\ KEY_BUF_SIZE \in Nat /\ KEY_BUF_SIZE >= 2
  BY KeyboardAssumption DEF Indices
<1>2. L = IF h >= t THEN h - t ELSE h - t + KEY_BUF_SIZE
  BY LengthIs
<1>3. Succ(h) \in Indices /\ Succ(h) = IF h + 1 = KEY_BUF_SIZE THEN 0 ELSE h + 1
  BY SuccIs
<1>4. Length(Succ(h), t) = IF Succ(h) >= t THEN Succ(h) - t ELSE Succ(h) - t + KEY_BUF_SIZE
  BY <1>3, LengthIs
<1>5. w \in Seq(Chars) /\ Len(w) = L /\ \A n \in 1 .. L : w[n] = b[Slot(t, n)]
  BY WindowType
<1>6. w1 = [n \in 1 .. Length(Succ(h), t) |-> b1[Slot(t, n)]]
  BY DEF Window
<1> HIDE DEF L, w, w1
<1>7. L \in Nat /\ L < KEY_BUF_SIZE - 1 /\ Length(Succ(h), t) = L + 1
  BY <1>1, <1>2, <1>3, <1>4
<1>8. ASSUME NEW n \in 1 .. L
      PROVE  Slot(t, n) \in Indices /\ Slot(t, n) # h
  <2>1. /\ Slot(t, n) \in Indices
        /\ Slot(t, n) = IF t + n - 1 < KEY_BUF_SIZE THEN t + n - 1 ELSE t + n - 1 - KEY_BUF_SIZE
    BY <1>1, <1>7, SlotIs
  <2>. QED  BY <1>1, <1>2, <1>7, <2>1
<1>9. Slot(t, L + 1) = h
  <2>1. Slot(t, L + 1) = IF t + (L + 1) - 1 < KEY_BUF_SIZE THEN t + (L + 1) - 1
                         ELSE t + (L + 1) - 1 - KEY_BUF_SIZE
    BY <1>1, <1>7, SlotIs
  <2>. QED  BY <1>1, <1>2, <1>7, <2>1
<1>10. \A n \in 1 .. L : b1[Slot(t, n)] = w[n]
  BY <1>5, <1>8
<1>11. b1[Slot(t, L + 1)] = ch
  BY <1>9
<1>12. /\ Append(w, ch) \in Seq(Chars) /\ Len(Append(w, ch)) = L + 1
       /\ \A n \in 1 .. L : Append(w, ch)[n] = w[n]
       /\ Append(w, ch)[L + 1] = ch
  BY <1>5, AppendProperties
<1>13. \A n \in 1 .. (L + 1) : w1[n] = Append(w, ch)[n]
  BY <1>6, <1>7, <1>10, <1>11, <1>12
<1>14. w1 \in Seq(Chars) /\ Len(w1) = L + 1
  <2>1. w1 \in [1 .. (L + 1) -> Chars]
    <3>1. \A n \in 1 .. (L + 1) : Append(w, ch)[n] \in Chars
      BY <1>12, ElementOfSeq
    <3>. QED  BY <1>6, <1>7, <1>13, <3>1
  <2>. QED  BY <1>7, <2>1
<1>15. w1 = Append(w, ch)
  BY <1>12, <1>13, <1>14, SeqEqual
<1>. QED  BY <1>5, <1>7, <1>15 DEF w, w1

(* A full buffer: KEY_BUF_SIZE - 1 characters wait. *)
LEMMA WindowFull ==
  ASSUME NEW b, NEW h \in Indices, NEW t \in Indices,
         \A n \in DOMAIN Window(b, h, t) : Window(b, h, t)[n] \in Chars, Succ(h) = t
  PROVE  Len(Window(b, h, t)) = KEY_BUF_SIZE - 1
<1>1. /\ h \in Nat /\ t \in Nat /\ h < KEY_BUF_SIZE /\ t < KEY_BUF_SIZE
      /\ KEY_BUF_SIZE \in Nat /\ KEY_BUF_SIZE >= 2
  BY KeyboardAssumption DEF Indices
<1>2. Length(h, t) = IF h >= t THEN h - t ELSE h - t + KEY_BUF_SIZE
  BY LengthIs
<1>3. Succ(h) = IF h + 1 = KEY_BUF_SIZE THEN 0 ELSE h + 1
  BY SuccIs
<1>4. Len(Window(b, h, t)) = Length(h, t)
  BY WindowType
<1>. QED  BY <1>1, <1>2, <1>3, <1>4

(* Moving the tail on takes the front character out. *)
LEMMA WindowPop ==
  ASSUME NEW b, NEW h \in Indices, NEW t \in Indices,
         \A n \in DOMAIN Window(b, h, t) : Window(b, h, t)[n] \in Chars, h # t
  PROVE  /\ Window(b, h, t) # <<>> /\ Head(Window(b, h, t)) = b[t]
         /\ Window(b, h, Succ(t)) = Tail(Window(b, h, t))
<1> DEFINE L == Length(h, t)
           w == Window(b, h, t)
           w1 == Window(b, h, Succ(t))
<1>1. /\ h \in Nat /\ t \in Nat /\ h < KEY_BUF_SIZE /\ t < KEY_BUF_SIZE
      /\ KEY_BUF_SIZE \in Nat /\ KEY_BUF_SIZE >= 2
  BY KeyboardAssumption DEF Indices
<1>2. L = IF h >= t THEN h - t ELSE h - t + KEY_BUF_SIZE
  BY LengthIs
<1>3. Succ(t) \in Indices /\ Succ(t) = IF t + 1 = KEY_BUF_SIZE THEN 0 ELSE t + 1
  BY SuccIs
<1>4. Length(h, Succ(t)) = IF h >= Succ(t) THEN h - Succ(t) ELSE h - Succ(t) + KEY_BUF_SIZE
  BY <1>3, LengthIs
<1>5. w \in Seq(Chars) /\ Len(w) = L /\ w # <<>> /\ \A n \in 1 .. L : w[n] = b[Slot(t, n)]
  BY WindowType
<1>6. w1 = [n \in 1 .. Length(h, Succ(t)) |-> b[Slot(Succ(t), n)]]
  BY DEF Window
<1> HIDE DEF L, w, w1
<1>7. L \in Nat /\ L >= 1 /\ L < KEY_BUF_SIZE /\ Length(h, Succ(t)) = L - 1
  BY <1>1, <1>2, <1>3, <1>4
<1>8. Slot(t, 1) = t
  <2>1. Slot(t, 1) = IF t + 1 - 1 < KEY_BUF_SIZE THEN t + 1 - 1 ELSE t + 1 - 1 - KEY_BUF_SIZE
    BY <1>1, SlotIs
  <2>. QED  BY <1>1, <2>1
<1>9. Head(w) = b[t]
  <2>1. Head(w) = w[1]
    BY <1>5
  <2>. QED  BY <1>5, <1>7, <1>8, <2>1
<1>10. ASSUME NEW n \in 1 .. (L - 1)
       PROVE  Slot(Succ(t), n) = Slot(t, n + 1)
  <2>1. Slot(Succ(t), n) = IF Succ(t) + n - 1 < KEY_BUF_SIZE THEN Succ(t) + n - 1
                           ELSE Succ(t) + n - 1 - KEY_BUF_SIZE
    BY <1>1, <1>3, <1>7, SlotIs
  <2>2. Slot(t, n + 1) = IF t + (n + 1) - 1 < KEY_BUF_SIZE THEN t + (n + 1) - 1
                         ELSE t + (n + 1) - 1 - KEY_BUF_SIZE
    BY <1>1, <1>7, SlotIs
  <2>. QED  BY <1>1, <1>3, <1>7, <2>1, <2>2
<1>11. /\ Tail(w) \in Seq(Chars) /\ Len(Tail(w)) = L - 1
       /\ \A n \in 1 .. (L - 1) : Tail(w)[n] = w[n + 1]
  BY <1>5, HeadTailProperties
<1>12. \A n \in 1 .. (L - 1) : w1[n] = Tail(w)[n]
  <2>1. \A n \in 1 .. (L - 1) : n + 1 \in 1 .. L
    BY <1>7
  <2>. QED  BY <1>5, <1>6, <1>7, <1>10, <1>11, <2>1
<1>13. w1 \in Seq(Chars) /\ Len(w1) = L - 1
  <2>1. \A n \in 1 .. (L - 1) : Tail(w)[n] \in Chars
    BY <1>11, ElementOfSeq
  <2>2. w1 \in [1 .. (L - 1) -> Chars]
    BY <1>6, <1>7, <1>12, <2>1
  <2>. QED  BY <1>7, <2>2
<1>14. w1 = Tail(w)
  BY <1>11, <1>12, <1>13, SeqEqual
<1>. QED  BY <1>5, <1>9, <1>14 DEF w, w1

-----------------------------------------------------------------------------
(* The invariant of the driver and its ring buffer. *)

Labels == {"boot1", "boot2", "boot3", "prompt", "empty", "hlt", "halted",
           "pop", "advance", "got", "command"}

RingType ==
  /\ key_buffer \in [Indices -> Chars \cup {NUL}]
  /\ buf_head \in Indices /\ buf_tail \in Indices
  /\ shift_held \in BOOLEAN /\ held \subseteq ShiftKeys
  /\ typed \in 0 .. MaxTyped /\ pc \in Labels

LineType ==
  /\ c \in Chars \cup {NUL}
  /\ buf \in [0 .. (MAX_CMD_LEN - 1) -> Letters \cup {TAB, NUL, Junk}]
  /\ i \in 0 .. (MAX_CMD_LEN - 1)
  /\ taken \in Seq(Chars)

Shown == Letters \cup {SP, Prompt}

(* The type invariant in its three parts. *)
LEMMA TypeParts == TypeOK <=> RingType /\ LineType /\ screen \in Screens(Shown)
BY DEF TypeOK, RingType, LineType, Screens, Shown, Indices, Labels

RingInv == RingType /\ ShiftNotStuck /\ BootInv /\ WindowInv /\ FrontInv

(* The elements of a sequence of characters are characters. *)
LEMMA SeqWindow ==
  ASSUME NEW w \in Seq(Chars)
  PROVE  \A n \in DOMAIN w : w[n] \in Chars
BY LenProperties, ElementOfSeq

(* What waits is the window between the indices. *)
LEMMA WaitingIs ==
  /\ Waiting = Window(key_buffer, buf_head, Front)
  /\ Waiting' = Window(key_buffer', buf_head', Front')
BY DEF Waiting, Window, Length, Slot

(* It begins at buf_tail, except in keyboard_init. *)
LEMMA FrontIs ==
  /\ pc \notin {"boot1", "boot2"} => Front = buf_tail
  /\ pc' \notin {"boot1", "boot2"} => Front' = buf_tail'
  /\ pc = "boot1" => Front = buf_head
  /\ pc' = "boot1" => Front' = buf_head'
  /\ pc = "boot2" => Front = 0
  /\ pc' = "boot2" => Front' = 0
BY DEF Front

(* No characters wait when it is buf_head. *)
LEMMA WindowEmpty ==
  ASSUME NEW b, NEW h \in Indices
  PROVE  Window(b, h, h) = <<>>
<1>1. Length(h, h) = 0
  BY LengthIs DEF Indices
<1>2. Window(b, h, h) = [n \in 1 .. 0 |-> b[Slot(h, n)]]
  BY <1>1 DEF Window
<1>. QED  BY <1>2

(* The front is a slot, and buf_push, which stops before buf_tail, stops   *)
(* before it as well.                                                      *)
LEMMA FrontAhead ==
  ASSUME RingInv
  PROVE  /\ Front \in Indices
         /\ Succ(buf_head) # buf_tail /\ pc # "boot1" => Succ(buf_head) # Front
         /\ Succ(buf_head) = buf_tail => Succ(buf_head) = Front \/ Booting
<1>1. /\ buf_head \in Indices /\ buf_tail \in Indices /\ 0 \in Indices
      /\ KEY_BUF_SIZE \in Nat /\ KEY_BUF_SIZE >= 2
  BY KeyboardAssumption DEF RingInv, RingType, Indices
<1>2. Succ(buf_head) = IF buf_head + 1 = KEY_BUF_SIZE THEN 0 ELSE buf_head + 1
  BY <1>1, SuccIs
<1>3. CASE pc \in {"boot1", "boot2"}
  <2>1. pc = "boot2" => buf_head < buf_tail \/ buf_tail = 0
    BY DEF RingInv, BootInv
  <2>2. Booting /\ (pc = "boot1" => Front = buf_head) /\ (pc = "boot2" => Front = 0)
    BY <1>3, FrontIs DEF Booting
  <2>. QED  BY <1>1, <1>2, <1>3, <2>1, <2>2 DEF Indices
<1>4. CASE pc \notin {"boot1", "boot2"}
  BY <1>1, <1>4, FrontIs
<1>. QED  BY <1>3, <1>4

(* Interrupts do not move the reader, except out of a hlt. *)
LEMMA WakeKeeps ==
  ASSUME pc \in Labels, Wake
  PROVE  /\ pc' \in Labels /\ Booting' = Booting /\ Reading' = Reading
         /\ \A l \in {"boot1", "boot2", "pop", "advance", "got", "command", "prompt"} :
              pc' = l <=> pc = l
BY DEF Wake, Labels, Booting, Reading

(* irq1_handler stores a character behind those that wait, or none. *)
LEMMA PressRing ==
  ASSUME RingInv, NEW key \in Keys, Irq1Press(key)
  PROVE  RingInv'
<1>1. /\ key_buffer \in [Indices -> Chars \cup {NUL}] /\ buf_head \in Indices
      /\ buf_tail \in Indices /\ typed \in 0 .. MaxTyped /\ pc \in Labels
  BY DEF RingInv, RingType
<1>2. buf_tail' = buf_tail /\ c' = c /\ PressKey(key) /\ Wake
  BY DEF Irq1Press, reader
<1>3. /\ pc' \in Labels /\ Booting' = Booting
      /\ pc' = "pop" <=> pc = "pop"
      /\ pc' = "advance" <=> pc = "advance"
      /\ pc' = "boot1" <=> pc = "boot1"
      /\ pc' = "boot2" <=> pc = "boot2"
  BY <1>1, <1>2, WakeKeeps
<1>4. typed' \in 0 .. MaxTyped
  BY <1>1, KeyboardAssumption DEF Irq1Press
<1>5. held' \subseteq ShiftKeys /\ (held # {} => held' # {}) /\ (key \in ShiftKeys => held' # {})
  BY DEF Irq1Press, RingInv, RingType
<1>6. shift_held' \in BOOLEAN /\ ShiftNotStuck'
  BY <1>2, <1>3, <1>5 DEF PressKey, RingInv, RingType, ShiftNotStuck
<1>8. CASE UNCHANGED <<key_buffer, buf_head>>
  <2>1. RingType'
    BY <1>1, <1>2, <1>3, <1>4, <1>5, <1>6, <1>8 DEF RingType
  <2>2. Front' = Front
    BY <1>2, <1>3, <1>8, FrontIs
  <2>3. WindowInv'
    BY <1>2, <1>8, <2>2, WaitingIs DEF RingInv, WindowInv
  <2>4. FrontInv' /\ BootInv'
    BY <1>2, <1>3, <1>8 DEF RingInv, FrontInv, BootInv
  <2>. QED  BY <1>6, <2>1, <2>3, <2>4 DEF RingInv
<1>9. CASE ~ UNCHANGED <<key_buffer, buf_head>>
  <2> DEFINE ch == Translate(key)
  <2>1. /\ ch \in Chars /\ Succ(buf_head) # buf_tail
        /\ key_buffer' = [key_buffer EXCEPT ![buf_head] = ch] /\ buf_head' = Succ(buf_head)
    BY <1>2, <1>9, Translated DEF PressKey, buf_push
  <2> HIDE DEF ch
  <2>2. Succ(buf_head) \in Indices
    BY <1>1, SuccIs
  <2>3. RingType'
    BY <1>1, <1>2, <1>3, <1>4, <1>5, <1>6, <2>1, <2>2 DEF RingType
  <2>4. WindowInv'
    <3>1. CASE pc = "boot1"
      <4>1. Waiting' = <<>>
        BY <1>3, <2>1, <2>2, <3>1, FrontIs, WaitingIs, WindowEmpty
      <4>. QED  BY <4>1 DEF WindowInv
    <3>2. CASE pc # "boot1"
      <4>1. Front \in Indices /\ Front' = Front /\ Succ(buf_head) # Front
        BY <1>2, <1>3, <2>1, <3>2, FrontIs, FrontAhead
      <4>2. Waiting' = Append(Waiting, ch) /\ Waiting \in Seq(Chars)
        <5>1. PICK t \in Indices : t = Front /\ t = Front'
          BY <4>1
        <5>2. /\ Waiting = Window(key_buffer, buf_head, t)
              /\ Waiting' = Window([key_buffer EXCEPT ![buf_head] = ch], Succ(buf_head), t)
          BY <2>1, <5>1, WaitingIs
        <5>3. \A n \in DOMAIN Window(key_buffer, buf_head, t) :
                Window(key_buffer, buf_head, t)[n] \in Chars
          BY <5>2 DEF RingInv, WindowInv
        <5>4. /\ Window([key_buffer EXCEPT ![buf_head] = ch], Succ(buf_head), t)
                   = Append(Window(key_buffer, buf_head, t), ch)
              /\ Window(key_buffer, buf_head, t) \in Seq(Chars)
          <6>1. ch \in Chars /\ Succ(buf_head) # t
            BY <2>1, <4>1, <5>1
          <6>2. Window(key_buffer, buf_head, t) \in Seq(Chars)
            BY <1>1, <5>3, WindowType
          <6>. QED  BY <1>1, <5>3, <6>1, <6>2, WindowPush
        <5>. QED  BY <5>2, <5>4
      <4>. QED  BY <2>1, <4>2, AppendProperties, SeqWindow DEF WindowInv
    <3>. QED  BY <3>1, <3>2
  <2>5. FrontInv'
    BY <1>1, <1>2, <1>3, <2>1 DEF RingInv, FrontInv
  <2>6. BootInv'
    <3>1. /\ Succ(buf_head) = IF buf_head + 1 = KEY_BUF_SIZE THEN 0 ELSE buf_head + 1
          /\ KEY_BUF_SIZE \in Nat
      BY <1>1, SuccIs, KeyboardAssumption
    <3>. QED  BY <1>1, <1>2, <1>3, <2>1, <3>1 DEF RingInv, BootInv, Indices
  <2>. QED  BY <1>6, <2>3, <2>4, <2>5, <2>6 DEF RingInv
<1>. QED  BY <1>8, <1>9

(* A step that leaves the ring buffer alone and the reader outside of      *)
(* buf_pop.                                                                *)
LEMMA QuietRing ==
  ASSUME RingInv, UNCHANGED <<key_buffer, buf_head, buf_tail, typed>>,
         pc' \in Labels, Front' = Front, pc' = "boot2" => pc = "boot2",
         shift_held' \in BOOLEAN, held' \subseteq ShiftKeys, ShiftNotStuck',
         pc' \in {"pop", "advance"} => buf_tail # buf_head,
         pc' = "advance" => c' = key_buffer[buf_tail]
  PROVE  RingInv'
<1>1. RingType'
  BY DEF RingInv, RingType
<1>2. BootInv' /\ FrontInv'
  BY DEF RingInv, BootInv, FrontInv
<1>3. WindowInv'
  BY WaitingIs, Zenon DEF RingInv, WindowInv
<1>. QED  BY <1>1, <1>2, <1>3 DEF RingInv

(* Every step keeps the ring buffer sound. *)
LEMMA RingNext ==
  ASSUME RingInv, [Next]_vars
  PROVE  RingInv'
<1> USE DEF ring, reader
<1>0. /\ pc \in Labels /\ shift_held \in BOOLEAN /\ held \subseteq ShiftKeys /\ ShiftNotStuck
      /\ key_buffer \in [Indices -> Chars \cup {NUL}] /\ buf_head \in Indices
      /\ buf_tail \in Indices
  BY DEF RingInv, RingType
<1>1. ASSUME NEW key \in Keys, Irq1Press(key)
      PROVE  RingInv'
  BY <1>1, PressRing
<1>2. ASSUME NEW key \in Keys, Irq1Release(key)
      PROVE  RingInv'
  <2>1. /\ UNCHANGED <<key_buffer, buf_head, buf_tail, typed, c>> /\ Wake
        /\ held' = held \ {key} /\ shift_held' = (shift_held /\ key \notin ShiftKeys)
    BY <1>2 DEF Irq1Release, ReleaseKey
  <2>2. /\ pc' \in Labels /\ Booting' = Booting
        /\ pc' = "pop" <=> pc = "pop"
        /\ pc' = "advance" <=> pc = "advance"
        /\ pc' = "boot1" <=> pc = "boot1"
        /\ pc' = "boot2" <=> pc = "boot2"
    BY <1>0, <2>1, WakeKeeps
  <2>3. shift_held' \in BOOLEAN /\ held' \subseteq ShiftKeys /\ ShiftNotStuck'
    BY <1>0, <2>1, <2>2 DEF ShiftNotStuck
  <2>4. Front' = Front
    BY <2>1, <2>2, FrontIs
  <2>. QED  BY <2>1, <2>2, <2>3, <2>4, QuietRing DEF RingInv, FrontInv
<1>3. CASE Irq0
  <2>1. /\ UNCHANGED <<key_buffer, buf_head, buf_tail, typed, c, held, shift_held>> /\ Wake
    BY <1>3 DEF Irq0
  <2>2. /\ pc' \in Labels /\ Booting' = Booting
        /\ pc' = "pop" <=> pc = "pop"
        /\ pc' = "advance" <=> pc = "advance"
        /\ pc' = "boot1" <=> pc = "boot1"
        /\ pc' = "boot2" <=> pc = "boot2"
    BY <1>0, <2>1, WakeKeeps
  <2>3. ShiftNotStuck' /\ Front' = Front
    BY <1>0, <2>1, <2>2, FrontIs DEF ShiftNotStuck
  <2>. QED  BY <1>0, <2>1, <2>2, <2>3, QuietRing DEF RingInv, FrontInv
<1>4. CASE ResetHead
  <2>1. /\ pc = "boot1" /\ pc' = "boot2" /\ buf_head' = 0
        /\ UNCHANGED <<key_buffer, buf_tail, shift_held, held, typed>>
    BY <1>4 DEF ResetHead
  <2>2. 0 \in Indices /\ KEY_BUF_SIZE \in Nat
    BY KeyboardAssumption DEF Indices
  <2>3. RingType'
    BY <2>1, <2>2 DEF RingInv, RingType, Labels
  <2>4. ShiftNotStuck' /\ FrontInv'
    BY <1>0, <2>1 DEF ShiftNotStuck, FrontInv, Booting
  <2>5. BootInv'
    BY <1>0, <2>1, <2>2 DEF BootInv, Indices
  <2>6. WindowInv'
    <3>1. Waiting' = <<>>
      BY <2>1, <2>2, FrontIs, WaitingIs, WindowEmpty
    <3>. QED  BY <3>1 DEF WindowInv
  <2>. QED  BY <2>3, <2>4, <2>5, <2>6 DEF RingInv
<1>5. CASE ResetTail
  <2>1. /\ pc = "boot2" /\ pc' = "boot3" /\ buf_tail' = 0
        /\ UNCHANGED <<key_buffer, buf_head, shift_held, held, typed>>
    BY <1>5 DEF ResetTail
  <2>2. 0 \in Indices
    BY KeyboardAssumption DEF Indices
  <2>3. RingType'
    BY <2>1, <2>2 DEF RingInv, RingType, Labels
  <2>4. ShiftNotStuck' /\ FrontInv' /\ BootInv'
    BY <2>1 DEF ShiftNotStuck, FrontInv, BootInv, Booting
  <2>5. Front' = Front
    BY <2>1, FrontIs
  <2>6. WindowInv'
    BY <2>1, <2>5, WaitingIs, Zenon DEF RingInv, WindowInv
  <2>. QED  BY <2>3, <2>4, <2>6 DEF RingInv
<1>9. CASE ResetShift
  <2>1. /\ pc = "boot3" /\ pc' = "prompt" /\ shift_held' = FALSE
        /\ UNCHANGED <<key_buffer, buf_head, buf_tail, held, typed>>
    BY <1>9 DEF ResetShift
  <2>2. ShiftNotStuck' /\ Front' = Front /\ pc' \in Labels
    BY <2>1, FrontIs DEF ShiftNotStuck, Labels
  <2>. QED  BY <1>0, <2>1, <2>2, QuietRing
<1>6. CASE AdvanceTail
  <2>1. /\ pc = "advance" /\ pc' = "got" /\ buf_tail' = Succ(buf_tail) /\ buf_tail # buf_head
        /\ UNCHANGED <<key_buffer, buf_head, shift_held, held, typed>>
    BY <1>6 DEF AdvanceTail, RingInv, FrontInv
  <2>2. RingType'
    BY <1>0, <2>1, SuccIs DEF RingInv, RingType, Labels
  <2>3. ShiftNotStuck' /\ BootInv' /\ FrontInv'
    BY <1>0, <2>1 DEF ShiftNotStuck, BootInv, FrontInv, Booting
  <2>4. Waiting' = Tail(Waiting) /\ Waiting # <<>> /\ Waiting \in Seq(Chars)
    BY <1>0, <2>1, FrontIs, WaitingIs, WindowPop, WindowType DEF RingInv, WindowInv
  <2>5. WindowInv'
    BY <2>4, HeadTailProperties, SeqWindow DEF WindowInv
  <2>. QED  BY <2>2, <2>3, <2>5 DEF RingInv
<1>7. CASE \/ ShowPrompt \/ TestEmpty \/ Halt \/ ReadFront
           \/ HandleEnter \/ HandleBackspace \/ HandleChar \/ RunCommand
  <2>1. UNCHANGED <<key_buffer, buf_head, buf_tail, shift_held, typed, held>>
    BY <1>7 DEF ShowPrompt, TestEmpty, Halt, ReadFront, HandleEnter, HandleBackspace,
                HandleChar, RunCommand
  <2>2. /\ pc' \in Labels \ {"boot1", "boot2", "boot3"}
        /\ pc' \in {"pop", "advance"} => buf_tail # buf_head
        /\ pc' = "advance" => c' = key_buffer[buf_tail]
    BY <1>0, <1>7 DEF ShowPrompt, TestEmpty, Halt, ReadFront, HandleEnter, HandleBackspace,
                HandleChar, RunCommand, Terminate, Labels
  <2>4. pc \notin {"boot1", "boot2", "boot3"}
    BY <1>7 DEF ShowPrompt, TestEmpty, Halt, ReadFront, HandleEnter, HandleBackspace,
                HandleChar, RunCommand
  <2>3. ShiftNotStuck' /\ Front' = Front
    BY <1>0, <2>1, <2>2, <2>4, FrontIs DEF ShiftNotStuck, Booting
  <2>. QED  BY <1>0, <2>1, <2>2, <2>3, QuietRing
<1>8. CASE UNCHANGED vars
  <2>1. UNCHANGED <<key_buffer, buf_head, buf_tail, shift_held, typed, held, pc, c>>
    BY <1>8 DEF vars
  <2>2. ShiftNotStuck' /\ Front' = Front
    BY <1>0, <2>1, FrontIs DEF ShiftNotStuck, Booting
  <2>. QED  BY <1>0, <2>1, <2>2, QuietRing DEF RingInv, FrontInv
<1>. QED  BY <1>1, <1>2, <1>3, <1>4, <1>5, <1>6, <1>7, <1>8, <1>9 DEF Next, Reader

-----------------------------------------------------------------------------
(* The invariant of the line. *)

LineInv == LineType /\ GotInv /\ RoomInv

(* A step that leaves the line alone. *)
LEMMA QuietLine ==
  ASSUME LineInv, UNCHANGED <<buf, i, taken>>, c' \in Chars \cup {NUL},
         pc' = "got" => pc = "got" /\ c' = c, Reading' => Reading
  PROVE  LineInv'
<1>1. LineType'
  BY DEF LineInv, LineType
<1>2. GotInv' /\ RoomInv'
  BY DEF LineInv, GotInv, RoomInv
<1>. QED  BY <1>1, <1>2 DEF LineInv

(* Every step keeps the line inside its buffer. *)
LEMMA LineNext ==
  ASSUME RingInv, LineInv, [Next]_vars
  PROVE  LineInv'
<1> USE DEF ring, reader
<1>0. /\ c \in Chars \cup {NUL} /\ i \in 0 .. (MAX_CMD_LEN - 1) /\ taken \in Seq(Chars)
      /\ buf \in [0 .. (MAX_CMD_LEN - 1) -> Letters \cup {TAB, NUL, Junk}]
      /\ pc \in Labels /\ MAX_CMD_LEN \in Nat /\ MAX_CMD_LEN >= 2
  BY KeyboardAssumption DEF LineInv, LineType, RingInv, RingType
<1>1. ASSUME UNCHANGED reader, Wake
      PROVE  LineInv'
  <2>1. Reading' = Reading /\ (pc' = "got" <=> pc = "got")
    BY <1>0, <1>1, WakeKeeps
  <2>. QED  BY <1>0, <1>1, <2>1, QuietLine
<1>2. CASE Irq0 \/ \E key \in Keys : Irq1Press(key) \/ Irq1Release(key)
  BY <1>1, <1>2 DEF Irq0, Irq1Press, Irq1Release
<1>3. CASE \/ ResetHead \/ ResetTail \/ ResetShift \/ TestEmpty \/ Halt
  <2>1. /\ UNCHANGED <<c, buf, i, taken>>
        /\ pc' # "got" /\ (Reading' => Reading)
    BY <1>3 DEF ResetHead, ResetTail, ResetShift, TestEmpty, Halt, Reading
  <2>. QED  BY <1>0, <2>1, QuietLine
<1>4. CASE RunCommand
  <2>1. UNCHANGED <<c, buf, i, taken>> /\ pc' = "prompt"
    BY <1>4 DEF RunCommand
  <2>. QED  BY <1>0, <2>1, QuietLine DEF Reading
<1>5. CASE ShowPrompt
  <2>1. i' = 0 /\ taken' = <<>> /\ pc' = "empty" /\ UNCHANGED <<c, buf>>
    BY <1>5 DEF ShowPrompt
  <2>2. LineType'
    <3>1. 0 \in 0 .. (MAX_CMD_LEN - 1) /\ <<>> \in Seq(Chars)
      BY <1>0
    <3>. QED  BY <1>0, <2>1, <3>1 DEF LineType
  <2>. QED  BY <1>0, <2>1, <2>2 DEF LineInv, GotInv, RoomInv
<1>6. CASE ReadFront
  <2>1. /\ UNCHANGED <<buf, i, taken>> /\ pc = "pop" /\ pc' = "advance"
        /\ c' = key_buffer[buf_tail]
    BY <1>6 DEF ReadFront, RingInv, FrontInv
  <2>2. c' \in Chars \cup {NUL}
    BY <2>1 DEF RingInv, RingType
  <2>. QED  BY <2>1, <2>2, QuietLine DEF Reading
<1>7. CASE AdvanceTail
  <2>1. /\ pc = "advance" /\ pc' = "got" /\ taken' = Append(taken, c)
        /\ c = key_buffer[buf_tail] /\ buf_tail # buf_head /\ UNCHANGED <<c, buf, i>>
    BY <1>7 DEF AdvanceTail, RingInv, FrontInv
  <2>2. c \in Chars
    <3>1. /\ buf_head \in Indices /\ buf_tail \in Indices
          /\ \A n \in DOMAIN Window(key_buffer, buf_head, buf_tail) :
               Window(key_buffer, buf_head, buf_tail)[n] \in Chars
      BY <2>1, FrontIs, WaitingIs DEF RingInv, RingType, WindowInv
    <3>2. /\ Window(key_buffer, buf_head, buf_tail) # <<>>
          /\ Head(Window(key_buffer, buf_head, buf_tail)) = key_buffer[buf_tail]
          /\ Window(key_buffer, buf_head, buf_tail) \in Seq(Chars)
      BY <2>1, <3>1, WindowPop, WindowType
    <3>. QED  BY <2>1, <3>2, HeadTailProperties
  <2>3. /\ taken' \in Seq(Chars) /\ Len(taken') = Len(taken) + 1 /\ Len(taken) \in Nat
        /\ taken'[Len(taken) + 1] = c
    BY <1>0, <2>1, <2>2, AppendProperties, LenProperties
  <2>4. LineType'
    BY <1>0, <2>1, <2>3 DEF LineType
  <2>5. GotInv'
    <3>1. Len(taken) + 1 \in 1 .. Len(taken')
      BY <2>3
    <3>. QED  BY <2>1, <2>2, <2>3, <3>1 DEF GotInv
  <2>6. RoomInv'
    BY <2>1 DEF LineInv, RoomInv, Reading
  <2>. QED  BY <2>4, <2>5, <2>6 DEF LineInv
<1>8. CASE HandleEnter
  <2>1. buf' = [buf EXCEPT ![i] = NUL] /\ pc' = "command" /\ UNCHANGED <<c, i, taken>>
    BY <1>8 DEF HandleEnter, Terminate
  <2>2. LineType'
    BY <1>0, <2>1 DEF LineType
  <2>. QED  BY <2>1, <2>2 DEF LineInv, GotInv, RoomInv, Reading
<1>9. CASE HandleBackspace
  <2>1. /\ pc = "got" /\ pc' = "empty" /\ UNCHANGED <<c, buf, taken>>
        /\ i' = IF i > 0 THEN i - 1 ELSE i
    BY <1>9 DEF HandleBackspace
  <2>2. i < MAX_CMD_LEN - 1
    BY <2>1 DEF LineInv, RoomInv, Reading
  <2>3. i' \in 0 .. (MAX_CMD_LEN - 1) /\ i' < MAX_CMD_LEN - 1
    BY <1>0, <2>1, <2>2
  <2>4. LineType'
    BY <1>0, <2>1, <2>3 DEF LineType
  <2>. QED  BY <2>1, <2>3, <2>4 DEF LineInv, GotInv, RoomInv
<1>10. CASE HandleChar
  <2>1. pc = "got" /\ c \notin {NL, BS} /\ i' = i + 1 /\ UNCHANGED <<c, taken>>
    BY <1>10 DEF HandleChar
  <2>2. i < MAX_CMD_LEN - 1 /\ c \in Chars
    BY <2>1 DEF LineInv, RoomInv, GotInv, Reading
  <2>3. c \in Letters \cup {TAB, NUL, Junk}
    BY <2>1, <2>2 DEF Chars
  <2>4. i' \in 0 .. (MAX_CMD_LEN - 1)
    BY <1>0, <2>1, <2>2
  <2> DEFINE line == [buf EXCEPT ![i] = c]
  <2>5. line \in [0 .. (MAX_CMD_LEN - 1) -> Letters \cup {TAB, NUL, Junk}]
    BY <1>0, <2>3
  <2> HIDE DEF line
  <2>6. \/ pc' = "empty" /\ buf' = line /\ i + 1 < MAX_CMD_LEN - 1
        \/ pc' = "command" /\ buf' = [line EXCEPT ![i + 1] = NUL]
    BY <1>10 DEF HandleChar, Terminate, line
  <2>7. LineType'
    <3>1. buf' \in [0 .. (MAX_CMD_LEN - 1) -> Letters \cup {TAB, NUL, Junk}]
      BY <2>4, <2>5, <2>6
    <3>. QED  BY <1>0, <2>1, <2>4, <3>1 DEF LineType
  <2>. QED  BY <2>1, <2>6, <2>7 DEF LineInv, GotInv, RoomInv, Reading
<1>11. CASE UNCHANGED vars
  <2>1. UNCHANGED <<buf, i, taken, c, pc>>
    BY <1>11 DEF vars
  <2>. QED  BY <1>0, <2>1, QuietLine DEF Reading
<1>. QED  BY <1>2, <1>3, <1>4, <1>5, <1>6, <1>7, <1>8, <1>9, <1>10, <1>11 DEF Next, Reader

-----------------------------------------------------------------------------
(* The invariant of the screen. *)

ScreenInv == screen \in Screens(Shown) /\ BlankInv /\ EchoShowsLine

(* BlankInv is BlankAhead of the screen, and the cursor is on it. *)
LEMMA ScreenFacts ==
  /\ Cursor = CursorOf(screen) /\ Cursor' = CursorOf(screen')
  /\ BlankInv <=> BlankAhead(screen)
  /\ BlankInv' <=> BlankAhead(screen')
  /\ SP \in Shown /\ Prompt \in Shown
BY DEF Cursor, CursorOf, BlankInv, BlankAhead, Shown

(* The cells before a cell are on the screen. *)
LEMMA CellsBefore ==
  ASSUME NEW k \in Cells, NEW d \in Nat, k - d >= 0
  PROVE  k - d \in Cells
<1> DEFINE N == VGA_WIDTH * VGA_HEIGHT
<1>1. N \in Nat
  BY VgaAssumption
<1> HIDE DEF N
<1>2. Cells = 0 .. (N - 1)
  BY DEF Cells, N
<1>. QED  BY <1>1, <1>2

(* A step that leaves the screen and the line alone. *)
LEMMA QuietScreen ==
  ASSUME ScreenInv, UNCHANGED <<screen, buf, i>>, Reading' /\ ~ Tabbing' => Reading /\ ~ Tabbing
  PROVE  ScreenInv'
<1>1. Cursor' = Cursor
  BY DEF Cursor
<1>2. BlankInv'
  BY <1>1 DEF ScreenInv, BlankInv
<1>3. EchoShowsLine'
  BY <1>1 DEF ScreenInv, EchoShowsLine
<1>. QED  BY <1>2, <1>3 DEF ScreenInv

(* The prompt. *)
LEMMA PromptScreen ==
  ASSUME ScreenInv, ShowPrompt
  PROVE  ScreenInv'
<1>1. screen' = vga_putchar(screen, Prompt) /\ i' = 0
  BY DEF ShowPrompt
<1>2. Prompt \notin {BS, NL, CR, TAB}
  BY DEF Prompt, BS, NL, CR, TAB
<1>3. screen \in Screens(Shown) /\ BlankAhead(screen)
  BY ScreenFacts DEF ScreenInv
<1>4. screen' \in Screens(Shown) /\ BlankInv'
  BY <1>1, <1>2, <1>3, ScreenFacts, PutPlain, PlainBlankAhead
<1>5. PICK shift \in {0, VGA_WIDTH} :
        /\ Cursor' = Cursor + 1 - shift
        /\ \A o \in Cells : screen'.cells[o] =
             IF o + shift \notin Cells THEN SP
             ELSE IF o + shift = Cursor THEN Prompt ELSE screen.cells[o + shift]
  BY <1>1, <1>2, <1>3, ScreenFacts, PutPlain
<1>6. Cursor \in Cells /\ Cursor \in Nat /\ VGA_WIDTH \in Nat
  BY <1>3, ScreenFacts, CursorOnScreen, VgaAssumption
<1>7. Cursor' - i' - 1 >= 0 => screen'.cells[Cursor' - i' - 1] = Prompt
  <2>1. SUFFICES ASSUME Cursor - shift >= 0
                 PROVE  screen'.cells[Cursor - shift] = Prompt
    BY <1>1, <1>5, <1>6
  <2>2. Cursor - shift \in Cells /\ Cursor - shift + shift = Cursor
    <3>1. shift \in Nat /\ Cursor - shift + shift = Cursor
      BY <1>6
    <3>2. Cursor - shift \in Cells
      BY <1>6, <2>1, <3>1, CellsBefore, Zenon
    <3>. QED  BY <3>1, <3>2
  <2>. QED  BY <1>5, <1>6, <2>2
<1>8. EchoShowsLine'
  BY <1>1, <1>4, <1>7 DEF EchoShowsLine, BlankInv
<1>. QED  BY <1>4, <1>8 DEF ScreenInv

(* A character is stored in the line and shown at the cursor; if this      *)
(* scrolls the screen, the line moves with it.                             *)
LEMMA CharScreen ==
  ASSUME ScreenInv, LineInv, HandleChar
  PROVE  ScreenInv'
<1>1. /\ pc = "got" /\ c \in Letters \cup {TAB} /\ i' = i + 1 /\ taken' = taken
      /\ screen' = vga_putchar(screen, c)
  BY DEF HandleChar, LineInv, GotInv, Chars
<1>2. screen \in Screens(Shown) /\ BlankAhead(screen)
  BY ScreenFacts DEF ScreenInv
<1>3. CASE c = TAB
  <2>1. screen' \in Screens(Shown) /\ BlankInv'
    BY <1>1, <1>2, <1>3, ScreenFacts, PutTab
  <2>2. Tabbing'
    BY <1>1, <1>3 DEF LineInv, GotInv, Tabbing
  <2>. QED  BY <2>1, <2>2 DEF ScreenInv, EchoShowsLine
<1>4. CASE c # TAB
  <2>1. c \in Shown /\ c \notin {BS, NL, CR, TAB}
    BY <1>1, <1>4 DEF Shown, Letters, BS, NL, CR, TAB
  <2>2. screen' \in Screens(Shown) /\ BlankInv'
    BY <1>1, <1>2, <2>1, ScreenFacts, PutPlain, PlainBlankAhead
  <2>3. PICK shift \in {0, VGA_WIDTH} :
          /\ Cursor' = Cursor + 1 - shift
          /\ \A o \in Cells : screen'.cells[o] =
               IF o + shift \notin Cells THEN SP
               ELSE IF o + shift = Cursor THEN c ELSE screen.cells[o + shift]
    BY <1>1, <1>2, <2>1, ScreenFacts, PutPlain
  <2>4. Cursor \in Cells /\ Cursor \in Nat /\ VGA_WIDTH \in Nat
    BY <1>2, ScreenFacts, CursorOnScreen, VgaAssumption
  <2>5. SUFFICES ASSUME Reading', ~ Tabbing'
                 PROVE  /\ \A j \in 1 .. i' : Cursor' - j >= 0 =>
                             screen'.cells[Cursor' - j] = buf'[i' - j]
                        /\ Cursor' - i' - 1 >= 0 => screen'.cells[Cursor' - i' - 1] = Prompt
    BY <2>2 DEF ScreenInv, EchoShowsLine, BlankInv
  <2>6. /\ \A j \in 1 .. i : Cursor - j >= 0 => screen.cells[Cursor - j] = buf[i - j]
        /\ Cursor - i - 1 >= 0 => screen.cells[Cursor - i - 1] = Prompt
    BY <1>1, <2>5 DEF ScreenInv, EchoShowsLine, Reading, Tabbing
  <2>7. i \in Nat /\ buf \in [0 .. (MAX_CMD_LEN - 1) -> Letters \cup {TAB, NUL, Junk}]
        /\ i \in 0 .. (MAX_CMD_LEN - 1) /\ MAX_CMD_LEN \in Nat
    BY KeyboardAssumption DEF LineInv, LineType
  <2>8. buf' = [buf EXCEPT ![i] = c]
    BY <2>5 DEF HandleChar, Terminate, Reading
  <2>9. ASSUME NEW d \in Nat, d <= Cursor, Cursor - d - shift >= 0
        PROVE  screen'.cells[Cursor - d - shift] = IF d = 0 THEN c ELSE screen.cells[Cursor - d]
    <3>0. shift \in Nat /\ Cursor - d >= 0
      BY <2>4, <2>9
    <3>1. Cursor - d \in Cells
      BY <2>4, <3>0, CellsBefore, Zenon
    <3>2. Cursor - d - shift \in Cells
      BY <2>9, <3>0, <3>1, CellsBefore, Zenon
    <3>3. Cursor - d - shift + shift = Cursor - d
      BY <2>4
    <3>4. Cursor - d = Cursor <=> d = 0
      BY <2>4
    <3>. QED  BY <2>3, <3>1, <3>2, <3>3, <3>4
  <2>10. ASSUME NEW j \in 1 .. i', Cursor' - j >= 0
         PROVE  screen'.cells[Cursor' - j] = buf'[i' - j]
    <3>1. Cursor' - j = Cursor - (j - 1) - shift /\ j - 1 \in Nat /\ j - 1 <= Cursor
      BY <1>1, <2>3, <2>4, <2>7, <2>10
    <3>2. screen'.cells[Cursor' - j] = IF j - 1 = 0 THEN c ELSE screen.cells[Cursor - (j - 1)]
      BY <2>9, <2>10, <3>1
    <3>3. CASE j = 1
      BY <1>1, <2>7, <2>8, <3>2, <3>3
    <3>4. CASE j # 1
      <4>1. j - 1 \in 1 .. i /\ Cursor - (j - 1) >= 0 /\ i - (j - 1) = i' - j /\ i' - j # i
            /\ i' - j \in 0 .. (MAX_CMD_LEN - 1)
        BY <1>1, <2>4, <2>7, <3>1, <3>4
      <4>2. screen.cells[Cursor - (j - 1)] = buf[i' - j]
        BY <2>6, <4>1
      <4>3. buf'[i' - j] = buf[i' - j]
        BY <2>7, <2>8, <4>1
      <4>. QED  BY <3>2, <3>4, <4>1, <4>2, <4>3
    <3>. QED  BY <3>3, <3>4
  <2>11. ASSUME Cursor' - i' - 1 >= 0
         PROVE  screen'.cells[Cursor' - i' - 1] = Prompt
    <3>1. /\ Cursor' - i' - 1 = Cursor - (i + 1) - shift /\ i + 1 \in Nat /\ i + 1 <= Cursor
          /\ Cursor - (i + 1) - shift >= 0 /\ i + 1 # 0 /\ Cursor - (i + 1) = Cursor - i - 1
          /\ Cursor - i - 1 >= 0
      BY <1>1, <2>3, <2>4, <2>7, <2>11
    <3>2. screen'.cells[Cursor' - i' - 1] = screen.cells[Cursor - (i + 1)]
      BY <2>9, <3>1
    <3>. QED  BY <2>6, <3>1, <3>2
  <2>. QED  BY <2>10, <2>11
<1>. QED  BY <1>3, <1>4

(* Backspace takes the last character off the line and off the screen. *)
LEMMA BackspaceScreen ==
  ASSUME ScreenInv, LineInv, HandleBackspace
  PROVE  ScreenInv'
<1>1. pc = "got" /\ UNCHANGED <<taken, buf>>
  BY DEF HandleBackspace, reader
<1>2. CASE ~ (i > 0)
  <2>1. UNCHANGED <<i, screen>>
    BY <1>2 DEF HandleBackspace
  <2>. QED  BY <1>1, <2>1, QuietScreen DEF Reading, Tabbing
<1>3. CASE i > 0
  <2>1. i' = i - 1 /\ screen' = Erased(screen)
    BY <1>3 DEF HandleBackspace, Erased
  <2>2. screen \in Screens(Shown) /\ BlankAhead(screen)
    BY ScreenFacts DEF ScreenInv
  <2>3. screen' \in Screens(Shown) /\ BlankInv'
    BY <2>1, <2>2, ScreenFacts, Erase
  <2>4. Cursor \in Cells /\ Cursor \in Nat /\ i \in Nat
    BY <2>2, ScreenFacts, CursorOnScreen, KeyboardAssumption DEF LineInv, LineType
  <2>5. /\ Cursor > 0 => /\ Cursor' = Cursor - 1
                         /\ \A o \in Cells : o < Cursor - 1 => screen'.cells[o] = screen.cells[o]
        /\ Cursor = 0 => Cursor' = 0
    BY <2>1, <2>2, ScreenFacts, Erase
  <2>6. SUFFICES ASSUME Reading', ~ Tabbing'
                 PROVE  /\ \A j \in 1 .. i' : Cursor' - j >= 0 =>
                             screen'.cells[Cursor' - j] = buf'[i' - j]
                        /\ Cursor' - i' - 1 >= 0 => screen'.cells[Cursor' - i' - 1] = Prompt
    BY <2>3 DEF ScreenInv, EchoShowsLine, BlankInv
  <2>7. /\ \A j \in 1 .. i : Cursor - j >= 0 => screen.cells[Cursor - j] = buf[i - j]
        /\ Cursor - i - 1 >= 0 => screen.cells[Cursor - i - 1] = Prompt
    BY <1>1, <2>6 DEF ScreenInv, EchoShowsLine, Reading, Tabbing
  <2>8. CASE Cursor = 0
    BY <1>3, <2>1, <2>4, <2>5, <2>8
  <2>9. CASE Cursor > 0
    <3>1. ASSUME NEW d \in Nat, d > 1, Cursor - d >= 0
          PROVE  screen'.cells[Cursor - d] = screen.cells[Cursor - d]
      <4>1. Cursor - d < Cursor - 1
        BY <2>4, <3>1
      <4>2. Cursor - d \in Cells
        BY <2>4, <3>1, CellsBefore, Zenon
      <4>. QED  BY <2>5, <2>9, <4>1, <4>2
    <3>2. ASSUME NEW j \in 1 .. i', Cursor' - j >= 0
          PROVE  screen'.cells[Cursor' - j] = buf'[i' - j]
      <4>1. /\ Cursor' - j = Cursor - (j + 1) /\ j + 1 \in 1 .. i /\ j + 1 \in Nat /\ j + 1 > 1
            /\ i' - j = i - (j + 1) /\ Cursor - (j + 1) >= 0
        BY <2>1, <2>4, <2>5, <2>9, <3>2
      <4>2. screen'.cells[Cursor - (j + 1)] = screen.cells[Cursor - (j + 1)]
        BY <3>1, <4>1
      <4>. QED  BY <1>1, <2>7, <4>1, <4>2
    <3>3. ASSUME Cursor' - i' - 1 >= 0
          PROVE  screen'.cells[Cursor' - i' - 1] = Prompt
      <4>1. /\ Cursor' - i' - 1 = Cursor - (i + 1) /\ i + 1 \in Nat /\ i + 1 > 1
            /\ Cursor - (i + 1) >= 0 /\ Cursor - (i + 1) = Cursor - i - 1
        BY <1>3, <2>1, <2>4, <2>5, <2>9, <3>3
      <4>2. screen'.cells[Cursor - (i + 1)] = screen.cells[Cursor - (i + 1)]
        BY <3>1, <4>1
      <4>. QED  BY <2>7, <4>1, <4>2
    <3>. QED  BY <3>2, <3>3
  <2>. QED  BY <2>4, <2>8, <2>9
<1>. QED  BY <1>2, <1>3

(* Every step keeps the screen in agreement with the line. *)
LEMMA ScreenNext ==
  ASSUME RingInv, LineInv, ScreenInv, [Next]_vars
  PROVE  ScreenInv'
<1> USE DEF ring, reader
<1>0. pc \in Labels /\ taken \in Seq(Chars)
  BY DEF RingInv, RingType, LineInv, LineType
<1>1. CASE Irq0 \/ \E key \in Keys : Irq1Press(key) \/ Irq1Release(key)
  <2>1. UNCHANGED <<screen, buf, i, taken>> /\ Wake
    BY <1>1 DEF Irq0, Irq1Press, Irq1Release
  <2>2. Reading' = Reading
    BY <1>0, <2>1, WakeKeeps
  <2>. QED  BY <2>1, <2>2, QuietScreen DEF Tabbing
<1>2. CASE ResetHead \/ ResetTail \/ ResetShift \/ TestEmpty \/ Halt \/ ReadFront
  <2>1. UNCHANGED <<screen, buf, i, taken>> /\ (Reading' => Reading)
    BY <1>2 DEF ResetHead, ResetTail, ResetShift, TestEmpty, Halt, ReadFront, Reading
  <2>. QED  BY <2>1, QuietScreen DEF Tabbing
<1>3. CASE AdvanceTail
  <2>1. UNCHANGED <<screen, buf, i, c>> /\ Reading /\ taken' = Append(taken, c)
    BY <1>3 DEF AdvanceTail, Reading
  <2>2. Tabbing => Tabbing'
    <3>1. SUFFICES ASSUME NEW n \in 1 .. Len(taken), taken[n] = TAB
                   PROVE  Tabbing'
      BY DEF Tabbing
    <3>2. c \in Chars \cup {NUL} /\ taken \in Seq(Chars \cup {NUL})
      BY <1>0 DEF LineInv, LineType
    <3>3. /\ Len(taken) \in Nat /\ Len(taken') = Len(taken) + 1 /\ taken'[n] = taken[n]
      BY <2>1, <3>1, <3>2, AppendProperties, LenProperties
    <3>4. n \in 1 .. Len(taken')
      BY <3>3
    <3>. QED  BY <3>1, <3>3, <3>4 DEF Tabbing
  <2>. QED  BY <2>1, <2>2, QuietScreen
<1>4. CASE ShowPrompt
  BY <1>4, PromptScreen
<1>5. CASE HandleChar
  BY <1>5, CharScreen
<1>6. CASE HandleBackspace
  BY <1>6, BackspaceScreen
<1>7. CASE HandleEnter \/ RunCommand
  <2>1. screen \in Screens(Shown) /\ BlankAhead(screen)
    BY ScreenFacts DEF ScreenInv
  <2>2. ~ Reading'
    BY <1>7 DEF HandleEnter, RunCommand, Terminate, Reading
  <2>3. screen' \in {screen, vga_putchar(screen, NL), vga_newline(screen), vga_clear}
    BY <1>7 DEF HandleEnter, RunCommand
  <2>4. screen' \in Screens(Shown) /\ BlankAhead(screen')
    BY <2>1, <2>3, ScreenFacts, PutNewline, ClearScreen
  <2>. QED  BY <2>2, <2>4, ScreenFacts DEF ScreenInv, EchoShowsLine
<1>8. CASE UNCHANGED vars
  <2>1. UNCHANGED <<screen, buf, i, taken, pc>>
    BY <1>8 DEF vars
  <2>. QED  BY <2>1, QuietScreen DEF Reading, Tabbing
<1>. QED  BY <1>1, <1>2, <1>3, <1>4, <1>5, <1>6, <1>7, <1>8 DEF Next, Reader

-----------------------------------------------------------------------------
(* Initially the buffer is empty and the screen is blank. *)
LEMMA InitKeys == Init => RingInv /\ LineInv /\ ScreenInv
<1> SUFFICES ASSUME Init PROVE RingInv /\ LineInv /\ ScreenInv
  OBVIOUS
<1>1. 0 \in Indices /\ 0 \in 0 .. MaxTyped /\ 0 \in 0 .. (MAX_CMD_LEN - 1)
  BY KeyboardAssumption DEF Indices
<1>2. RingType
  BY <1>1, LeftOverAssumption DEF Init, RingType, Indices, Labels
<1>3. ShiftNotStuck /\ BootInv /\ FrontInv
  BY DEF Init, ShiftNotStuck, BootInv, FrontInv, Booting
<1>4. WindowInv
  <2>1. Waiting = <<>>
    BY <1>2, FrontIs, WaitingIs, WindowEmpty DEF Init, RingType
  <2>. QED  BY <2>1 DEF WindowInv
<1>5. LineInv
  <2>1. <<>> \in Seq(Chars)
    OBVIOUS
  <2>2. LineType
    BY <1>1, <2>1 DEF Init, LineType
  <2>. QED  BY <2>2 DEF Init, LineInv, GotInv, RoomInv, Reading
<1>6. ScreenInv
  <2>1. screen \in Screens(Shown) /\ BlankAhead(screen)
    BY ClearScreen, ScreenFacts DEF Init
  <2>2. ~ Reading
    BY DEF Init, Reading
  <2>. QED  BY <2>1, <2>2, ScreenFacts DEF ScreenInv, EchoShowsLine
<1>. QED  BY <1>2, <1>3, <1>4, <1>5, <1>6 DEF RingInv

(* The inductive invariant holds. *)
THEOREM KeyInvariance == Spec => []KeyInv
<1>1. Init => RingInv /\ LineInv /\ ScreenInv
  BY InitKeys
<1>2. RingInv /\ LineInv /\ ScreenInv /\ [Next]_vars => (RingInv /\ LineInv /\ ScreenInv)'
  BY RingNext, LineNext, ScreenNext
<1>3. RingInv /\ LineInv /\ ScreenInv => KeyInv
  BY TypeParts DEF RingInv, LineInv, ScreenInv, KeyInv
<1>. QED  BY <1>1, <1>2, <1>3, PTL DEF Spec

(* keyboard_init, the handlers and keyboard_readline stay within their     *)
(* types: in particular no index leaves key_buffer, buf or the screen.     *)
THEOREM KeyboardTypes == Spec => []TypeOK
<1>1. KeyInv => TypeOK
  BY DEF KeyInv
<1>. QED  BY <1>1, KeyInvariance, PTL

(* A Shift that is up never shifts a character. *)
THEOREM ShiftNeverStuck == Spec => []ShiftNotStuck
<1>1. KeyInv => ShiftNotStuck
  BY DEF KeyInv
<1>. QED  BY <1>1, KeyInvariance, PTL

(* keyboard_readline echoes the line as it is, on a screen of any size,    *)
(* through wraps, scrolls and Backspaces.                                  *)
THEOREM EchoIsLine == Spec => []EchoShowsLine
<1>1. KeyInv => EchoShowsLine
  BY DEF KeyInv
<1>. QED  BY <1>1, KeyInvariance, PTL

-----------------------------------------------------------------------------
(* What is left of a sequence of characters, through the balance of its    *)
(* first n: its characters less its Backspaces.                            *)

Glyphs == Chars \ {NL, BS}
Tally(s, n, S) == Count(s, 1, n, S)
Balance(s, n) == Tally(s, n, Glyphs) - Tally(s, n, {BS})

(* A set of natural numbers has a least element. *)
LEMMA LeastOf ==
  ASSUME NEW S \in SUBSET Nat, S # {}
  PROVE  \E d \in S : \A e \in S : d <= e
<1>1. PICK d \in S : \A e \in S : ~ (<<e, d>> \in OpToRel(<, Nat))
  BY NatLessThanWellFounded, WFMin, Zenon
<1>2. \A e \in S : ~ (e < d)
  <2> SUFFICES ASSUME NEW e \in S, e < d PROVE FALSE
    OBVIOUS
  <2>1. <<e, d>> \in OpToRel(<, Nat)
    BY DEF OpToRel
  <2>. QED  BY <1>1, <2>1, Zenon
<1>. QED  BY <1>2

(* A count is a number, 0 of nothing, and one more for one that is in S. *)
LEMMA CountStep ==
  ASSUME NEW s, NEW S, NEW a \in Nat, NEW n \in Nat, a <= n + 1
  PROVE  /\ Count(s, a, n, S) \in Nat
         /\ a = n + 1 => Count(s, a, n, S) = 0
         /\ Count(s, a, n + 1, S) = Count(s, a, n, S) + IF s[n + 1] \in S THEN 1 ELSE 0
<1> DEFINE T(m) == {x \in a .. m : s[x] \in S}
<1>1. IsFiniteSet(T(n)) /\ Cardinality(T(n)) \in Nat
  <2>1. IsFiniteSet(a .. n) /\ T(n) \in SUBSET (a .. n)
    BY FS_Interval
  <2>2. IsFiniteSet(T(n))
    BY <2>1, FS_Subset
  <2>. QED  BY <2>2, FS_CardinalityType
<1>2. a = n + 1 => T(n) = {}
  OBVIOUS
<1>3. n + 1 \notin T(n) /\ T(n + 1) = IF s[n + 1] \in S THEN T(n) \cup {n + 1} ELSE T(n)
  <2>1. a .. (n + 1) = (a .. n) \cup {n + 1}
    OBVIOUS
  <2>. QED  BY <2>1
<1>4. Count(s, a, n, S) = Cardinality(T(n)) /\ Count(s, a, n + 1, S) = Cardinality(T(n + 1))
  BY DEF Count
<1> HIDE DEF T
<1>5. Cardinality(T(n) \cup {n + 1}) = Cardinality(T(n)) + 1
  BY <1>1, <1>3, FS_AddElement
<1>. QED  BY <1>1, <1>2, <1>3, <1>4, <1>5, FS_EmptySet

(* What is counted after j is what is counted in all, less that up to j. *)
LEMMA CountFrom ==
  ASSUME NEW s, NEW S, NEW j \in Nat, NEW m \in Nat, j <= m
  PROVE  Count(s, j + 1, m, S) = Tally(s, m, S) - Tally(s, j, S)
<1> DEFINE Wrong == {n \in Nat : j <= n /\ Count(s, j + 1, n, S) # Tally(s, n, S) - Tally(s, j, S)}
<1>1. Wrong = {}
  <2> SUFFICES ASSUME Wrong # {} PROVE FALSE
    OBVIOUS
  <2>1. PICK d \in Wrong : \A e \in Wrong : d <= e
    <3>1. Wrong \in SUBSET Nat
      OBVIOUS
    <3> HIDE DEF Wrong
    <3>. QED  BY <3>1, LeastOf
  <2>2. d \in Nat /\ j <= d /\ Count(s, j + 1, d, S) # Tally(s, d, S) - Tally(s, j, S)
    BY <2>1
  <2>3. d # j
    <3>1. Count(s, j + 1, j, S) = 0 /\ Tally(s, j, S) \in Nat
      BY CountStep DEF Tally
    <3>. QED  BY <2>2, <3>1
  <2>4. d - 1 \in Nat /\ j <= d - 1 /\ d - 1 + 1 = d
    BY <2>2, <2>3
  <2>5. d - 1 \notin Wrong
    BY <2>1, <2>4
  <2>6. PICK n : n = d - 1
    OBVIOUS
  <2>7. Count(s, j + 1, n, S) = Tally(s, n, S) - Tally(s, j, S)
    BY <2>4, <2>5, <2>6
  <2> HIDE DEF Wrong
  <2>8. /\ Count(s, j + 1, d, S) = Count(s, j + 1, n, S) + IF s[d] \in S THEN 1 ELSE 0
        /\ Count(s, j + 1, n, S) \in Nat
    <3>1. n \in Nat /\ j + 1 \in Nat /\ j + 1 <= n + 1 /\ n + 1 = d
      BY <2>4, <2>6
    <3>2. /\ Count(s, j + 1, n + 1, S) = Count(s, j + 1, n, S) + IF s[n + 1] \in S THEN 1 ELSE 0
          /\ Count(s, j + 1, n, S) \in Nat
      BY <3>1, CountStep
    <3>. QED  BY <3>1, <3>2
  <2>9. /\ Tally(s, d, S) = Tally(s, n, S) + IF s[d] \in S THEN 1 ELSE 0
        /\ Tally(s, n, S) \in Nat /\ Tally(s, j, S) \in Nat
    <3>1. n \in Nat /\ 1 <= n + 1 /\ n + 1 = d
      BY <2>4, <2>6
    <3>2. /\ Count(s, 1, n + 1, S) = Count(s, 1, n, S) + IF s[n + 1] \in S THEN 1 ELSE 0
          /\ Count(s, 1, n, S) \in Nat /\ Count(s, 1, j, S) \in Nat
      BY <3>1, CountStep
    <3>. QED  BY <3>1, <3>2 DEF Tally
  <2>. QED  BY <2>2, <2>7, <2>8, <2>9
<1>. QED  BY <1>1

(* The balance goes up with a character, down with a Backspace, and no     *)
(* further.                                                                *)
LEMMA BalanceStep ==
  ASSUME NEW s, NEW n \in Nat, s[n + 1] \in Chars
  PROVE  /\ Balance(s, n) \in Int /\ Balance(s, n + 1) \in Int
         /\ Balance(s, n + 1) = Balance(s, n) +
              (IF s[n + 1] \notin {NL, BS} THEN 1 ELSE IF s[n + 1] = BS THEN -1 ELSE 0)
<1>1. /\ Tally(s, n, Glyphs) \in Nat /\ Tally(s, n, {BS}) \in Nat
      /\ Tally(s, n + 1, Glyphs) = Tally(s, n, Glyphs) + IF s[n + 1] \in Glyphs THEN 1 ELSE 0
      /\ Tally(s, n + 1, {BS}) = Tally(s, n, {BS}) + IF s[n + 1] \in {BS} THEN 1 ELSE 0
  BY CountStep DEF Tally
<1>2. s[n + 1] \in Glyphs <=> s[n + 1] \notin {NL, BS}
  BY DEF Glyphs
<1>. QED  BY <1>1, <1>2 DEF Balance

(* A character survives when the balance never falls below that at it. *)
LEMMA SurvivesIs ==
  ASSUME NEW s \in Seq(Chars), NEW j \in 1 .. Len(s)
  PROVE  Survives(s, j) <=> /\ s[j] \notin {NL, BS}
                            /\ \A m \in (j + 1) .. Len(s) : Balance(s, j) <= Balance(s, m)
<1>1. ASSUME NEW m \in (j + 1) .. Len(s)
      PROVE  Count(s, j + 1, m, {BS}) <= Count(s, j + 1, m, Glyphs)
               <=> Balance(s, j) <= Balance(s, m)
  <2>1. j \in Nat /\ m \in Nat /\ j <= m
    BY LenProperties
  <2>2. /\ Count(s, j + 1, m, {BS}) = Tally(s, m, {BS}) - Tally(s, j, {BS})
        /\ Count(s, j + 1, m, Glyphs) = Tally(s, m, Glyphs) - Tally(s, j, Glyphs)
    BY <2>1, CountFrom
  <2>3. /\ Tally(s, m, {BS}) \in Nat /\ Tally(s, j, {BS}) \in Nat
        /\ Tally(s, m, Glyphs) \in Nat /\ Tally(s, j, Glyphs) \in Nat
    BY <2>1, CountStep DEF Tally
  <2>. QED  BY <2>2, <2>3 DEF Balance
<1>. QED  BY <1>1 DEF Survives, Glyphs

(* A character more changes nothing of the balance before it. *)
LEMMA BalanceKept ==
  ASSUME NEW s \in Seq(Chars), NEW ch \in Chars, NEW n \in 0 .. Len(s)
  PROVE  Balance(Append(s, ch), n) = Balance(s, n)
<1>1. \A x \in 1 .. n : Append(s, ch)[x] = s[x]
  BY AppendProperties, LenProperties
<1>2. ASSUME NEW S
      PROVE  Tally(Append(s, ch), n, S) = Tally(s, n, S)
  <2>1. {x \in 1 .. n : Append(s, ch)[x] \in S} = {x \in 1 .. n : s[x] \in S}
    BY <1>1
  <2>. QED  BY <2>1 DEF Tally, Count
<1>. QED  BY <1>2 DEF Balance

(* Who survives with a character more: who did so far, unless the balance  *)
(* falls below, and the character itself if it is one of the line.         *)
LEMMA SurvivingNext ==
  ASSUME NEW s \in Seq(Chars), NEW ch \in Chars
  PROVE  Surviving(Append(s, ch)) =
           {j \in Surviving(s) : Balance(s, j) <= Balance(Append(s, ch), Len(s) + 1)}
             \cup (IF ch \in {NL, BS} THEN {} ELSE {Len(s) + 1})
<1> DEFINE t == Append(s, ch)
           L == Len(s)
<1>1. /\ t \in Seq(Chars) /\ Len(t) = L + 1 /\ L \in Nat /\ t[L + 1] = ch
      /\ \A x \in 1 .. L : t[x] = s[x]
  BY AppendProperties, LenProperties
<1>2. \A n \in 0 .. L : Balance(t, n) = Balance(s, n)
  BY BalanceKept
<1> HIDE DEF t, L
<1>3. ASSUME NEW j \in 1 .. L
      PROVE  Survives(t, j) <=> Survives(s, j) /\ Balance(s, j) <= Balance(t, L + 1)
  <2>1. j \in 1 .. Len(t) /\ j \in 0 .. L /\ (j + 1) .. Len(t) = ((j + 1) .. L) \cup {L + 1}
    BY <1>1
  <2>2. \A m \in (j + 1) .. L : m \in 0 .. L
    BY <1>1
  <2>3. Survives(t, j) <=> /\ t[j] \notin {NL, BS}
                           /\ \A m \in (j + 1) .. Len(t) : Balance(t, j) <= Balance(t, m)
    BY <1>1, <2>1, SurvivesIs
  <2>4. Survives(s, j) <=> /\ s[j] \notin {NL, BS}
                           /\ \A m \in (j + 1) .. L : Balance(s, j) <= Balance(s, m)
    BY SurvivesIs DEF L
  <2>. QED  BY <1>1, <1>2, <2>1, <2>2, <2>3, <2>4
<1>4. Survives(t, L + 1) <=> ch \notin {NL, BS}
  <2>1. L + 1 \in 1 .. Len(t) /\ ((L + 1) + 1) .. Len(t) = {}
    BY <1>1
  <2>. QED  BY <1>1, <2>1, SurvivesIs
<1>5. 1 .. Len(t) = (1 .. L) \cup {L + 1} /\ L + 1 \notin 1 .. L
  BY <1>1
<1>6. Surviving(s) = {j \in 1 .. L : Survives(s, j)}
  BY DEF Surviving, L
<1>. QED  BY <1>3, <1>4, <1>5, <1>6 DEF Surviving, t, L

(* The balance up to a place in the sequence. *)
LEMMA BalanceIn ==
  ASSUME NEW s \in Seq(Chars), NEW n \in 0 .. Len(s)
  PROVE  /\ Balance(s, n) \in Int
         /\ n > 0 => Balance(s, n - 1) \in Int /\ Balance(s, n) = Balance(s, n - 1) +
              (IF s[n] \notin {NL, BS} THEN 1 ELSE IF s[n] = BS THEN -1 ELSE 0)
<1>1. n \in Nat /\ Len(s) \in Nat
  BY LenProperties
<1>2. CASE n = 0
  <2>1. Tally(s, 0, Glyphs) \in Nat /\ Tally(s, 0, {BS}) \in Nat
    BY CountStep DEF Tally
  <2>. QED  BY <1>2, <2>1 DEF Balance
<1>3. CASE n > 0
  <2>1. PICK m : m = n - 1
    OBVIOUS
  <2>2. m \in Nat /\ m + 1 = n /\ s[m + 1] \in Chars
    BY <1>1, <1>3, <2>1, ElementOfSeq
  <2>3. /\ Balance(s, m) \in Int /\ Balance(s, m + 1) \in Int
        /\ Balance(s, m + 1) = Balance(s, m) +
              (IF s[m + 1] \notin {NL, BS} THEN 1 ELSE IF s[m + 1] = BS THEN -1 ELSE 0)
    BY <2>2, BalanceStep
  <2>. QED  BY <1>3, <2>1, <2>2, <2>3
<1>. QED  BY <1>1, <1>2, <1>3

(* Of the characters that survive, each but the last is below the balance  *)
(* at the end: one more Backspace takes the last, and no other.            *)
LEMMA LastErased ==
  ASSUME NEW s \in Seq(Chars), NEW j \in Surviving(s)
  PROVE  Balance(s, j) < Balance(s, Len(s)) <=> \E l \in Surviving(s) : j < l
<1>1. /\ Len(s) \in Nat /\ j \in 1 .. Len(s) /\ s[j] \notin {NL, BS}
      /\ \A m \in (j + 1) .. Len(s) : Balance(s, j) <= Balance(s, m)
  BY LenProperties, SurvivesIs DEF Surviving
<1>2. ASSUME NEW l \in Surviving(s), j < l
      PROVE  Balance(s, j) < Balance(s, Len(s))
  <2>1. /\ l \in 1 .. Len(s) /\ s[l] \notin {NL, BS}
        /\ \A m \in (l + 1) .. Len(s) : Balance(s, l) <= Balance(s, m)
    BY SurvivesIs DEF Surviving
  <2>2. Balance(s, l) \in Int /\ Balance(s, l - 1) \in Int /\ Balance(s, l) = Balance(s, l - 1) + 1
    BY <1>1, <2>1, BalanceIn
  <2>3. Balance(s, j) <= Balance(s, l - 1) /\ Balance(s, j) \in Int
    <3>1. Balance(s, j) \in Int
      BY <1>1, BalanceIn
    <3>2. l - 1 = j \/ l - 1 \in (j + 1) .. Len(s)
      BY <1>1, <1>2, <2>1
    <3>. QED  BY <1>1, <3>1, <3>2
  <2>4. Balance(s, l) <= Balance(s, Len(s)) /\ Balance(s, Len(s)) \in Int
    <3>1. Balance(s, Len(s)) \in Int
      BY <1>1, BalanceIn
    <3>2. Len(s) = l \/ Len(s) \in (l + 1) .. Len(s)
      BY <1>1, <2>1
    <3>. QED  BY <2>1, <2>2, <3>1, <3>2
  <2>. QED  BY <2>2, <2>3, <2>4
<1>3. ASSUME Balance(s, j) < Balance(s, Len(s))
      PROVE  \E l \in Surviving(s) : j < l
  <2> DEFINE Up(n) == \A m \in n .. Len(s) : Balance(s, j) < Balance(s, m)
             Ups == {n \in Nat : j < n /\ n <= Len(s) /\ Up(n)}
  <2>1. Len(s) \in Ups
    <3>1. j # Len(s)
      <4>1. Balance(s, j) \in Int
        BY <1>1, BalanceIn
      <4>. QED  BY <1>3, <4>1
    <3>. QED  BY <1>1, <1>3, <3>1
  <2>2. PICK l \in Ups : \A n \in Ups : l <= n
    <3>1. Ups \in SUBSET Nat /\ Ups # {}
      BY <2>1
    <3> HIDE DEF Ups
    <3>. QED  BY <3>1, LeastOf
  <2>3. l \in Nat /\ j < l /\ l <= Len(s) /\ \A m \in l .. Len(s) : Balance(s, j) < Balance(s, m)
    BY <2>2
  <2>4. Balance(s, l - 1) <= Balance(s, j) /\ Balance(s, j) < Balance(s, l)
    <3>1. Balance(s, j) \in Int /\ Balance(s, l - 1) \in Int
      BY <1>1, <2>3, BalanceIn
    <3>2. CASE l - 1 = j
      BY <2>3, <3>1, <3>2
    <3>3. CASE j < l - 1
      <4>1. l - 1 \notin Ups
        BY <2>2, <2>3
      <4>2. PICK m \in (l - 1) .. Len(s) : ~ (Balance(s, j) < Balance(s, m))
        <5>1. l - 1 \in Nat /\ l - 1 <= Len(s)
          BY <1>1, <2>3
        <5>. QED  BY <3>3, <4>1, <5>1
      <4>3. m = l - 1
        <5>1. m \notin l .. Len(s)
          BY <2>3, <4>2
        <5>. QED  BY <1>1, <2>3, <4>2, <5>1
      <4>. QED  BY <2>3, <3>1, <4>2, <4>3
    <3>. QED  BY <1>1, <2>3, <3>2, <3>3
  <2>5. /\ Balance(s, l) \in Int /\ Balance(s, l - 1) \in Int /\ Balance(s, j) \in Int
        /\ Balance(s, l) = Balance(s, l - 1) +
              (IF s[l] \notin {NL, BS} THEN 1 ELSE IF s[l] = BS THEN -1 ELSE 0)
    BY <1>1, <2>3, BalanceIn
  <2>6. s[l] \notin {NL, BS} /\ Balance(s, l) = Balance(s, j) + 1
    BY <2>4, <2>5
  <2>7. ASSUME NEW m \in (l + 1) .. Len(s)
        PROVE  Balance(s, l) <= Balance(s, m)
    <3>1. m \in l .. Len(s) /\ m \in 0 .. Len(s)
      BY <1>1, <2>3
    <3>2. Balance(s, m) \in Int /\ Balance(s, j) < Balance(s, m)
      BY <2>3, <3>1, BalanceIn
    <3>. QED  BY <2>5, <2>6, <3>2
  <2>8. l \in Surviving(s)
    <3>1. l \in 1 .. Len(s)
      BY <1>1, <2>3
    <3>. QED  BY <2>6, <2>7, <3>1, SurvivesIs DEF Surviving
  <2>. QED  BY <2>3, <2>8
<1>. QED  BY <1>2, <1>3

(* The balance at the end is not below that at a character that survives. *)
LEMMA EndsAbove ==
  ASSUME NEW s \in Seq(Chars)
  PROVE  /\ Balance(s, Len(s)) \in Int
         /\ \A j \in Surviving(s) : Balance(s, j) \in Int /\ Balance(s, j) <= Balance(s, Len(s))
<1>1. Len(s) \in Nat /\ Balance(s, Len(s)) \in Int
  BY LenProperties, BalanceIn
<1>2. ASSUME NEW j \in Surviving(s)
      PROVE  Balance(s, j) \in Int /\ Balance(s, j) <= Balance(s, Len(s))
  <2>1. /\ j \in 1 .. Len(s) /\ Balance(s, j) \in Int
        /\ \A m \in (j + 1) .. Len(s) : Balance(s, j) <= Balance(s, m)
    BY <1>1, SurvivesIs, BalanceIn DEF Surviving
  <2>2. Len(s) = j \/ Len(s) \in (j + 1) .. Len(s)
    BY <1>1, <2>1
  <2>. QED  BY <1>1, <2>1, <2>2
<1>. QED  BY <1>1, <1>2

-----------------------------------------------------------------------------
(* The line through one more character. *)

(* A Backspace on an empty line changes nothing, any other takes the last  *)
(* character off.                                                          *)
LEMMA EditedBackspace ==
  ASSUME NEW s \in Seq(Chars), NEW line, NEW n \in Nat, Edited(line, n, s)
  PROVE  Edited(line, IF n > 0 THEN n - 1 ELSE n, Append(s, BS))
<1> DEFINE t == Append(s, BS)
           q == IF n > 0 THEN n - 1 ELSE n
<1>1. /\ BS \in Chars /\ t \in Seq(Chars) /\ Len(t) = Len(s) + 1 /\ Len(s) \in Nat
      /\ t[Len(s) + 1] = BS /\ \A x \in 1 .. Len(s) : t[x] = s[x]
  <2>1. BS \in Chars
    BY DEF Chars
  <2>. QED  BY <2>1, AppendProperties, LenProperties
<1>2. PICK p \in [0 .. (n - 1) -> 1 .. Len(s)] :
        /\ Surviving(s) = {p[m] : m \in 0 .. (n - 1)}
        /\ \A m \in 0 .. (n - 1), l \in 0 .. (n - 1) : m < l => p[m] < p[l]
        /\ \A m \in 0 .. (n - 1) : line[m] = s[p[m]]
  BY DEF Edited
<1>3. Surviving(t) = {j \in Surviving(s) : Balance(s, j) <= Balance(t, Len(s) + 1)}
  BY <1>1, SurvivingNext
<1>4. Balance(t, Len(s) + 1) = Balance(s, Len(s)) - 1 /\ Balance(s, Len(s)) \in Int
  <2>1. Balance(t, Len(s)) = Balance(s, Len(s)) /\ Balance(s, Len(s)) \in Int
    <3>1. Len(s) \in 0 .. Len(s)
      BY <1>1
    <3>. QED  BY <1>1, <3>1, BalanceKept, BalanceIn
  <2>2. Balance(t, Len(s) + 1) = Balance(t, Len(s)) - 1
    BY <1>1, <2>1, BalanceStep
  <2>. QED  BY <2>1, <2>2
<1> HIDE DEF t
<1>5. Surviving(t) = {j \in Surviving(s) : \E l \in Surviving(s) : j < l}
  <2>1. ASSUME NEW j \in Surviving(s)
        PROVE  Balance(s, j) <= Balance(t, Len(s) + 1) <=> \E l \in Surviving(s) : j < l
    <3>1. Balance(s, j) \in Int
      BY <1>1, BalanceIn DEF Surviving
    <3>2. Balance(s, j) < Balance(s, Len(s)) <=> \E l \in Surviving(s) : j < l
      BY LastErased
    <3>. QED  BY <1>4, <3>1, <3>2
  <2>. QED  BY <1>3, <2>1
<1>6. q \in Nat /\ 0 .. (q - 1) \subseteq 0 .. (n - 1)
  OBVIOUS
<1>7. \A m \in 0 .. (n - 1) : m \in 0 .. (q - 1) <=> \E l \in 0 .. (n - 1) : m < l
  <2>1. ASSUME NEW m \in 0 .. (n - 1), m \in 0 .. (q - 1)
        PROVE  \E l \in 0 .. (n - 1) : m < l
    <3>1. n - 1 \in 0 .. (n - 1) /\ m < n - 1
      BY <2>1
    <3>. QED  BY <3>1
  <2>. QED  BY <2>1
<1>8. Surviving(t) = {p[m] : m \in 0 .. (q - 1)}
  <2>1. \A m \in 0 .. (n - 1), l \in 0 .. (n - 1) : p[m] < p[l] <=> m < l
    <3> SUFFICES ASSUME NEW m \in 0 .. (n - 1), NEW l \in 0 .. (n - 1), p[m] < p[l], ~ (m < l)
                 PROVE  FALSE
      BY <1>2
    <3>1. p[m] \in Nat /\ p[l] \in Nat /\ (l < m \/ l = m)
      BY <1>1, <1>2
    <3>. QED  BY <1>2, <3>1
  <2>2. ASSUME NEW m \in 0 .. (n - 1)
        PROVE  (\E l \in Surviving(s) : p[m] < l) <=> m \in 0 .. (q - 1)
    <3>1. (\E l \in Surviving(s) : p[m] < l) <=> \E l \in 0 .. (n - 1) : p[m] < p[l]
      BY <1>2
    <3>. QED  BY <1>7, <2>1, <2>2, <3>1
  <2> HIDE DEF q
  <2>3. ASSUME NEW m \in 0 .. (q - 1)
        PROVE  p[m] \in Surviving(t)
    BY <1>2, <1>5, <1>6, <2>2
  <2>4. ASSUME NEW j \in Surviving(t)
        PROVE  \E m \in 0 .. (q - 1) : j = p[m]
    <3>1. PICK m \in 0 .. (n - 1) : j = p[m]
      BY <1>2, <1>5
    <3>. QED  BY <1>5, <2>2, <3>1
  <2>. QED  BY <2>3, <2>4
<1>9. [m \in 0 .. (q - 1) |-> p[m]] \in [0 .. (q - 1) -> 1 .. Len(t)]
  BY <1>1, <1>2, <1>6
<1> DEFINE r == [m \in 0 .. (q - 1) |-> p[m]]
<1>10. /\ Surviving(t) = {r[m] : m \in 0 .. (q - 1)}
       /\ \A m \in 0 .. (q - 1), l \in 0 .. (q - 1) : m < l => r[m] < r[l]
       /\ \A m \in 0 .. (q - 1) : line[m] = t[r[m]]
  <2>1. \A m \in 0 .. (q - 1) : r[m] = p[m] /\ m \in 0 .. (n - 1)
    BY <1>6
  <2> HIDE DEF r, q
  <2>2. Surviving(t) = {r[m] : m \in 0 .. (q - 1)}
    BY <1>8, <2>1
  <2>. QED  BY <1>1, <1>2, <2>1, <2>2
<1> HIDE DEF r, q
<1>11. Edited(line, q, t)
  BY <1>9, <1>10 DEF Edited, r
<1>. QED  BY <1>11 DEF q, t

(* A newline, the last of them, changes nothing ... *)
LEMMA EditedEnter ==
  ASSUME NEW s \in Seq(Chars), NEW line, NEW n \in Nat, Edited(line, n, s), NEW next,
         \A m \in 0 .. (n - 1) : next[m] = line[m]
  PROVE  Edited(next, n, Append(s, NL))
<1> DEFINE t == Append(s, NL)
<1>1. /\ NL \in Chars /\ NL # BS /\ t \in Seq(Chars) /\ Len(t) = Len(s) + 1 /\ Len(s) \in Nat
      /\ t[Len(s) + 1] = NL /\ \A x \in 1 .. Len(s) : t[x] = s[x]
  <2>1. NL \in Chars /\ NL # BS
    BY DEF Chars, NL, BS
  <2>. QED  BY <2>1, AppendProperties, LenProperties
<1>2. PICK p \in [0 .. (n - 1) -> 1 .. Len(s)] :
        /\ Surviving(s) = {p[m] : m \in 0 .. (n - 1)}
        /\ \A m \in 0 .. (n - 1), l \in 0 .. (n - 1) : m < l => p[m] < p[l]
        /\ \A m \in 0 .. (n - 1) : line[m] = s[p[m]]
  BY DEF Edited
<1>3. Surviving(t) = {j \in Surviving(s) : Balance(s, j) <= Balance(t, Len(s) + 1)}
  BY <1>1, SurvivingNext
<1>4. Balance(t, Len(s) + 1) = Balance(s, Len(s)) /\ Balance(s, Len(s)) \in Int
  <2>1. Balance(t, Len(s)) = Balance(s, Len(s)) /\ Balance(s, Len(s)) \in Int
    <3>1. Len(s) \in 0 .. Len(s)
      BY <1>1
    <3>. QED  BY <1>1, <3>1, BalanceKept, BalanceIn
  <2>2. Balance(t, Len(s) + 1) = Balance(t, Len(s)) + 0
    BY <1>1, <2>1, BalanceStep
  <2>. QED  BY <2>1, <2>2
<1> HIDE DEF t
<1>5. Surviving(t) = Surviving(s)
  <2>1. \A j \in Surviving(s) : Balance(s, j) <= Balance(s, Len(s))
    BY EndsAbove
  <2>. QED  BY <1>3, <1>4, <2>1
<1>6. p \in [0 .. (n - 1) -> 1 .. Len(t)] /\ \A m \in 0 .. (n - 1) : next[m] = t[p[m]]
  <2>1. 1 .. Len(s) \subseteq 1 .. Len(t)
    BY <1>1
  <2>2. p \in [0 .. (n - 1) -> 1 .. Len(t)]
    BY <1>2, <2>1
  <2>3. ASSUME NEW m \in 0 .. (n - 1)
        PROVE  next[m] = t[p[m]]
    BY <1>1, <1>2
  <2>. QED  BY <2>2, <2>3
<1>. QED  BY <1>2, <1>5, <1>6 DEF Edited, t

(* ... and a character goes to the end. *)
LEMMA EditedChar ==
  ASSUME NEW s \in Seq(Chars), NEW line, NEW n \in Nat, Edited(line, n, s), NEW next,
         NEW ch \in Chars \ {NL, BS},
         \A m \in 0 .. (n - 1) : next[m] = line[m], next[n] = ch
  PROVE  Edited(next, n + 1, Append(s, ch))
<1> DEFINE t == Append(s, ch)
<1>1. /\ ch \in Chars /\ t \in Seq(Chars) /\ Len(t) = Len(s) + 1 /\ Len(s) \in Nat
      /\ t[Len(s) + 1] = ch /\ \A x \in 1 .. Len(s) : t[x] = s[x]
  BY AppendProperties, LenProperties
<1>2. PICK p \in [0 .. (n - 1) -> 1 .. Len(s)] :
        /\ Surviving(s) = {p[m] : m \in 0 .. (n - 1)}
        /\ \A m \in 0 .. (n - 1), l \in 0 .. (n - 1) : m < l => p[m] < p[l]
        /\ \A m \in 0 .. (n - 1) : line[m] = s[p[m]]
  BY DEF Edited
<1>3. Surviving(t) = {j \in Surviving(s) : Balance(s, j) <= Balance(t, Len(s) + 1)}
                       \cup {Len(s) + 1}
  BY <1>1, SurvivingNext
<1>4. Balance(t, Len(s) + 1) = Balance(s, Len(s)) + 1 /\ Balance(s, Len(s)) \in Int
  <2>1. Balance(t, Len(s)) = Balance(s, Len(s)) /\ Balance(s, Len(s)) \in Int
    <3>1. Len(s) \in 0 .. Len(s)
      BY <1>1
    <3>. QED  BY <1>1, <3>1, BalanceKept, BalanceIn
  <2>2. Balance(t, Len(s) + 1) = Balance(t, Len(s)) + 1
    BY <1>1, <2>1, BalanceStep
  <2>. QED  BY <2>1, <2>2
<1> HIDE DEF t
<1>5. Surviving(t) = Surviving(s) \cup {Len(s) + 1}
  <2>1. \A j \in Surviving(s) : Balance(s, j) \in Int /\ Balance(s, j) <= Balance(s, Len(s))
    BY EndsAbove
  <2>. QED  BY <1>3, <1>4, <2>1
<1> DEFINE r == [m \in 0 .. n |-> IF m = n THEN Len(s) + 1 ELSE p[m]]
<1>6. /\ (n + 1) - 1 = n /\ 0 .. n = (0 .. (n - 1)) \cup {n} /\ n \notin 0 .. (n - 1)
      /\ \A m \in 0 .. (n - 1) : m < n /\ m \in 0 .. n
  OBVIOUS
<1>7. r[n] = Len(s) + 1 /\ \A m \in 0 .. (n - 1) : r[m] = p[m]
  BY <1>6
<1>8. r \in [0 .. n -> 1 .. Len(t)]
  <2>1. \A m \in 0 .. n : (IF m = n THEN Len(s) + 1 ELSE p[m]) \in 1 .. Len(t)
    BY <1>1, <1>2, <1>6
  <2>. QED  BY <2>1
<1> HIDE DEF r
<1>9. Surviving(t) = {r[m] : m \in 0 .. n}
  BY <1>2, <1>5, <1>6, <1>7
<1>10. ASSUME NEW m \in 0 .. n, NEW l \in 0 .. n, m < l
       PROVE  r[m] < r[l]
  <2>1. m \in 0 .. (n - 1) /\ r[m] = p[m] /\ p[m] \in 1 .. Len(s)
    BY <1>2, <1>7, <1>10
  <2>2. CASE l = n
    BY <1>1, <1>7, <2>1, <2>2
  <2>3. CASE l # n
    BY <1>2, <1>6, <1>7, <1>10, <2>1, <2>3
  <2>. QED  BY <2>2, <2>3
<1>11. ASSUME NEW m \in 0 .. n
       PROVE  next[m] = t[r[m]]
  <2>1. CASE m = n
    BY <1>1, <1>7, <2>1
  <2>2. CASE m # n
    <3>1. m \in 0 .. (n - 1)
      BY <1>6, <2>2
    <3>2. p[m] \in 1 .. Len(s) /\ next[m] = s[p[m]]
      BY <1>2, <3>1
    <3>. QED  BY <1>1, <1>7, <3>1, <3>2
  <2>. QED  BY <2>1, <2>2
<1>12. \E q \in [0 .. n -> 1 .. Len(t)] :
         /\ Surviving(t) = {q[m] : m \in 0 .. n}
         /\ \A m \in 0 .. n, l \in 0 .. n : m < l => q[m] < q[l]
         /\ \A m \in 0 .. n : next[m] = t[q[m]]
  <2>. WITNESS r \in [0 .. n -> 1 .. Len(t)]
  <2>. QED  BY <1>9, <1>10, <1>11
<1>13. Edited(next, n + 1, t)
  <2>1. (n + 1) - 1 = n
    BY <1>6
  <2>. QED  BY ONLY <1>12, <2>1, Zenon DEF Edited
<1>. QED  BY <1>13 DEF t

-----------------------------------------------------------------------------
(* The invariant of the line: it is what is left of the characters taken,  *)
(* but for the one that keyboard_readline has at hand.                     *)

TypedInv ==
  /\ Reading /\ pc # "got" => Edited(buf, i, taken)
  /\ pc = "got" => \E s \in Seq(Chars) : taken = Append(s, c) /\ Edited(buf, i, s)
  /\ LineIsTyped

(* The characters of a line are letters and tabs. *)
LEMMA EditedShown ==
  ASSUME NEW s \in Seq(Chars), NEW line, NEW n \in Nat, Edited(line, n, s)
  PROVE  \A m \in 0 .. (n - 1) : line[m] # NUL
<1>1. PICK p \in [0 .. (n - 1) -> 1 .. Len(s)] :
        /\ Surviving(s) = {p[m] : m \in 0 .. (n - 1)}
        /\ \A m \in 0 .. (n - 1) : line[m] = s[p[m]]
  BY DEF Edited
<1>2. ASSUME NEW m \in 0 .. (n - 1)
      PROVE  line[m] \in Chars
  BY <1>1, ElementOfSeq
<1>3. NUL \notin Chars
  BY DEF Chars, Letters, NL, BS, TAB, NUL
<1>. QED  BY <1>2, <1>3

(* Nothing has been typed of a new line. *)
LEMMA EditedEmpty == ASSUME NEW line PROVE Edited(line, 0, <<>>)
<1> DEFINE p == [m \in 0 .. (0 - 1) |-> 1]
<1>1. 0 .. (0 - 1) = {} /\ 1 .. Len(<<>>) = {}
  BY EmptySeq
<1>2. p \in [0 .. (0 - 1) -> 1 .. Len(<<>>)]
  BY <1>1
<1>3. Surviving(<<>>) = {p[m] : m \in 0 .. (0 - 1)}
  BY <1>1 DEF Surviving
<1> HIDE DEF p
<1>. QED  BY <1>1, <1>2, <1>3 DEF Edited

(* Steps that leave the line alone. *)
LEMMA QuietTyped ==
  ASSUME TypedInv, UNCHANGED <<buf, i, taken>>, pc' # "command" \/ pc = "command",
         pc' = "got" => pc = "got" /\ c' = c,
         Reading' /\ pc' # "got" => Reading /\ pc # "got"
  PROVE  TypedInv'
<1>1. (Reading /\ pc # "got" => Edited(buf, i, taken))'
  BY DEF TypedInv
<1>2. (pc = "got" => \E s \in Seq(Chars) : taken = Append(s, c) /\ Edited(buf, i, s))'
  BY DEF TypedInv
<1>3. LineIsTyped'
  BY DEF TypedInv, LineIsTyped
<1>. QED  BY <1>1, <1>2, <1>3 DEF TypedInv

(* keyboard_readline returns. *)
LEMMA Returned ==
  ASSUME NEW n \in 0 .. (MAX_CMD_LEN - 1), DOMAIN buf' = 0 .. (MAX_CMD_LEN - 1),
         taken' \in Seq(Chars), buf'[n] = NUL, Edited(buf', n, taken'), pc' = "command"
  PROVE  TypedInv'
<1>1. n \in Nat
  BY KeyboardAssumption
<1>2. \A m \in 0 .. (n - 1) : buf'[m] # NUL
  BY <1>1, EditedShown
<1>3. LineIsTyped'
  BY <1>2 DEF LineIsTyped
<1>. QED  BY <1>3 DEF TypedInv, Reading

(* Every step keeps the line what is left of the characters taken. *)
LEMMA TypedNext ==
  ASSUME RingInv, LineInv, LineInv', TypedInv, [Next]_vars
  PROVE  TypedInv'
<1> USE DEF ring, reader
<1>0. /\ c \in Chars \cup {NUL} /\ i \in 0 .. (MAX_CMD_LEN - 1) /\ i \in Nat
      /\ taken \in Seq(Chars) /\ taken' \in Seq(Chars)
      /\ DOMAIN buf = 0 .. (MAX_CMD_LEN - 1) /\ DOMAIN buf' = 0 .. (MAX_CMD_LEN - 1)
      /\ pc \in Labels /\ MAX_CMD_LEN \in Nat /\ MAX_CMD_LEN >= 2
  BY KeyboardAssumption DEF LineInv, LineType, RingInv, RingType
<1>1. ASSUME UNCHANGED reader, Wake
      PROVE  TypedInv'
  <2>1. pc' = pc \/ (pc = "halted" /\ pc' = "empty")
    BY <1>1 DEF Wake
  <2>. QED  BY <1>1, <2>1, QuietTyped DEF Reading
<1>2. CASE Irq0 \/ \E key \in Keys : Irq1Press(key) \/ Irq1Release(key)
  BY <1>1, <1>2 DEF Irq0, Irq1Press, Irq1Release
<1>3. CASE \/ ResetHead \/ ResetTail \/ ResetShift \/ TestEmpty \/ Halt \/ RunCommand
  <2>1. /\ UNCHANGED <<buf, i, taken>>
        /\ pc' # "got" /\ pc' # "command" /\ (Reading' => Reading /\ pc # "got")
    BY <1>3 DEF ResetHead, ResetTail, ResetShift, TestEmpty, Halt, RunCommand, Reading
  <2>. QED  BY <2>1, QuietTyped
<1>4. CASE ShowPrompt
  <2>1. i' = 0 /\ taken' = <<>> /\ pc' = "empty"
    BY <1>4 DEF ShowPrompt
  <2>. QED  BY <2>1, EditedEmpty DEF TypedInv, LineIsTyped
<1>5. CASE ReadFront
  <2>1. UNCHANGED <<buf, i, taken>> /\ pc = "pop" /\ pc' = "advance"
    BY <1>5 DEF ReadFront, RingInv, FrontInv
  <2>. QED  BY <2>1, QuietTyped DEF Reading
<1>6. CASE AdvanceTail
  <2>1. /\ pc = "advance" /\ pc' = "got" /\ taken' = Append(taken, c)
        /\ UNCHANGED <<c, buf, i>>
    BY <1>6 DEF AdvanceTail
  <2>2. Edited(buf, i, taken)
    BY <2>1 DEF TypedInv, Reading
  <2>. QED  BY <1>0, <2>1, <2>2 DEF TypedInv, LineIsTyped
<1>7. ASSUME pc = "got"
      PROVE  /\ c \in Chars /\ i + 1 \in 0 .. (MAX_CMD_LEN - 1)
             /\ \E s \in Seq(Chars) : taken = Append(s, c) /\ Edited(buf, i, s)
  BY <1>0, <1>7 DEF LineInv, RoomInv, GotInv, Reading, TypedInv
<1>8. CASE HandleEnter
  <2>1. /\ pc = "got" /\ c = NL /\ pc' = "command" /\ buf' = [buf EXCEPT ![i] = NUL]
        /\ UNCHANGED <<i, taken>>
    BY <1>8 DEF HandleEnter, Terminate
  <2>2. PICK s \in Seq(Chars) : taken = Append(s, NL) /\ Edited(buf, i, s)
    BY <1>7, <2>1
  <2>3. buf'[i] = NUL /\ \A m \in 0 .. (i - 1) : buf'[m] = buf[m]
    BY <1>0, <2>1
  <2>4. PICK next : next = buf'
    OBVIOUS
  <2>5. Edited(next, i, taken)
    BY <1>0, <2>2, <2>3, <2>4, EditedEnter
  <2>. QED  BY <1>0, <2>1, <2>3, <2>4, <2>5, Returned
<1>9. CASE HandleBackspace
  <2>1. /\ pc = "got" /\ c = BS /\ pc' = "empty" /\ UNCHANGED <<buf, taken>>
        /\ i' = IF i > 0 THEN i - 1 ELSE i
    BY <1>9 DEF HandleBackspace
  <2>2. PICK s \in Seq(Chars) : taken = Append(s, BS) /\ Edited(buf, i, s)
    BY <1>7, <2>1
  <2>3. Edited(buf, IF i > 0 THEN i - 1 ELSE i, taken)
    BY <1>0, <2>2, EditedBackspace
  <2>. QED  BY <2>1, <2>3 DEF TypedInv, LineIsTyped
<1>10. CASE HandleChar
  <2> DEFINE line == [buf EXCEPT ![i] = c]
  <2>1. /\ pc = "got" /\ c \notin {NL, BS} /\ i' = i + 1 /\ UNCHANGED taken
        /\ \/ pc' = "empty" /\ buf' = line
           \/ pc' = "command" /\ buf' = [line EXCEPT ![i + 1] = NUL]
    BY <1>10 DEF HandleChar, Terminate
  <2>2. c \in Chars \ {NL, BS} /\ i + 1 \in 0 .. (MAX_CMD_LEN - 1)
    BY <1>7, <2>1
  <2>3. PICK s \in Seq(Chars) : taken = Append(s, c) /\ Edited(buf, i, s)
    BY <1>7, <2>1
  <2>4. buf'[i] = c /\ \A m \in 0 .. (i - 1) : buf'[m] = buf[m]
    <3>1. line[i] = c /\ DOMAIN line = DOMAIN buf /\ \A m \in 0 .. (i - 1) : line[m] = buf[m]
      BY <1>0
    <3> HIDE DEF line
    <3>2. i \in DOMAIN line /\ i # i + 1 /\ \A m \in 0 .. (i - 1) : m \in DOMAIN line /\ m # i + 1
      BY <1>0, <3>1
    <3>3. CASE buf' = line
      BY <3>1, <3>3
    <3>4. CASE buf' = [line EXCEPT ![i + 1] = NUL]
      <4>1. \A m \in DOMAIN line : m # i + 1 => buf'[m] = line[m]
        BY <3>4
      <4>. QED  BY <3>1, <3>2, <4>1
    <3>. QED  BY <2>1, <3>3, <3>4
  <2>5. PICK next : next = buf'
    OBVIOUS
  <2>6. Edited(next, i + 1, taken)
    BY <1>0, <2>2, <2>3, <2>4, <2>5, EditedChar
  <2>7. CASE pc' = "empty"
    BY <2>1, <2>5, <2>6, <2>7 DEF TypedInv, LineIsTyped
  <2>8. CASE pc' = "command"
    <3>1. buf'[i + 1] = NUL
      <4>1. DOMAIN line = DOMAIN buf
        OBVIOUS
      <4> HIDE DEF line
      <4>. QED  BY <1>0, <2>1, <2>2, <2>8, <4>1
    <3>. QED  BY <1>0, <2>1, <2>2, <2>5, <2>6, <2>8, <3>1, Returned
  <2>. QED  BY <2>1, <2>7, <2>8
<1>11. CASE UNCHANGED vars
  <2>1. UNCHANGED <<buf, i, taken, c, pc>>
    BY <1>11 DEF vars
  <2>. QED  BY <2>1, QuietTyped DEF Reading
<1>. QED  BY <1>2, <1>3, <1>4, <1>5, <1>6, <1>8, <1>9, <1>10, <1>11 DEF Next, Reader

(* The line that keyboard_readline returns, for a line and a key buffer of *)
(* any length and any number of characters typed, is what was typed less   *)
(* what was erased; it ends at the terminator.                             *)
THEOREM LineIsWhatWasTyped == Spec => []LineIsTyped
<1>1. Init => RingInv /\ LineInv /\ ScreenInv
  BY InitKeys
<1>2. RingInv /\ LineInv /\ ScreenInv /\ [Next]_vars => (RingInv /\ LineInv /\ ScreenInv)'
  BY RingNext, LineNext, ScreenNext
<1>3. Init => TypedInv
  BY DEF Init, TypedInv, LineIsTyped, Reading
<1>4. RingInv /\ LineInv /\ LineInv' /\ TypedInv /\ [Next]_vars => TypedInv'
  BY TypedNext
<1>5. TypedInv => LineIsTyped
  BY DEF TypedInv
<1>. QED  BY <1>1, <1>2, <1>3, <1>4, <1>5, PTL DEF Spec

-----------------------------------------------------------------------------
(* A press of a key is a Type of the abstract queue, or stutters. *)
LEMMA PressRefines ==
  ASSUME RingInv, NEW key \in Keys, Irq1Press(key)
  PROVE  Queue!Type \/ UNCHANGED <<Waiting, taken, typed, Booting>>
<1>1. /\ key_buffer \in [Indices -> Chars \cup {NUL}] /\ buf_head \in Indices
      /\ buf_tail \in Indices /\ pc \in Labels
  BY DEF RingInv, RingType
<1>2. buf_tail' = buf_tail /\ taken' = taken /\ PressKey(key) /\ Wake
  BY DEF Irq1Press, reader
<1>3. /\ Booting' = Booting
      /\ pc' = "boot1" <=> pc = "boot1"
      /\ pc' = "boot2" <=> pc = "boot2"
  BY <1>1, <1>2, WakeKeeps
<1>4. CASE scancode_to_ascii[key] = NUL
  <2>1. typed' = typed /\ UNCHANGED <<key_buffer, buf_head>>
    BY <1>2, <1>4, Translated DEF Irq1Press, PressKey
  <2>2. Waiting' = Waiting
    BY <1>2, <1>3, <2>1, FrontIs, WaitingIs
  <2>. QED  BY <1>2, <1>3, <2>1, <2>2
<1>5. CASE scancode_to_ascii[key] # NUL
  <2> DEFINE ch == Translate(key)
  <2>1. typed' = typed + 1 /\ ch \in Chars /\ buf_push(ch)
    BY <1>2, <1>5, Translated, Tables DEF Irq1Press, PressKey
  <2> HIDE DEF ch
  <2>2. CASE Succ(buf_head) = buf_tail
    <3>1. UNCHANGED <<key_buffer, buf_head>>
      BY <2>1, <2>2 DEF buf_push
    <3>2. Waiting' = Waiting
      BY <1>2, <1>3, <3>1, FrontIs, WaitingIs
    <3>3. Len(Waiting) = KEY_BUF_SIZE - 1 \/ Booting
      <4>1. Front \in Indices /\ (Succ(buf_head) = Front \/ Booting)
        BY <2>2, FrontAhead
      <4>. QED  BY <1>1, <4>1, WaitingIs, WindowFull DEF RingInv, WindowInv
    <3>4. Queue!Lose
      BY <3>2, <3>3 DEF Queue!Lose
    <3>. QED  BY <1>2, <1>3, <2>1, <3>4 DEF Queue!Type
  <2>4. CASE Succ(buf_head) # buf_tail /\ pc = "boot1"
    <3>1. Succ(buf_head) \in Indices /\ buf_head' = Succ(buf_head)
      BY <1>1, <2>1, <2>4, SuccIs DEF buf_push
    <3>2. Waiting = <<>> /\ Waiting' = <<>> /\ Booting
      BY <1>1, <1>3, <2>4, <3>1, FrontIs, WaitingIs, WindowEmpty DEF Booting
    <3>3. Queue!Lose
      BY <3>2 DEF Queue!Lose
    <3>. QED  BY <1>2, <1>3, <2>1, <3>3 DEF Queue!Type
  <2>3. CASE Succ(buf_head) # buf_tail /\ pc # "boot1"
    <3>1. /\ key_buffer' = [key_buffer EXCEPT ![buf_head] = ch]
          /\ buf_head' = Succ(buf_head)
      BY <2>1, <2>3 DEF buf_push
    <3>2. Waiting' = Append(Waiting, ch) /\ Len(Waiting) < KEY_BUF_SIZE - 1
      <4>1. Front \in Indices /\ Front' = Front /\ Succ(buf_head) # Front
        BY <1>2, <1>3, <2>3, FrontIs, FrontAhead
      <4>. QED  BY <1>1, <2>1, <3>1, <4>1, WaitingIs, WindowPush DEF RingInv, WindowInv
    <3>3. Queue!Put(ch)
      BY <3>2 DEF Queue!Put
    <3>. QED  BY <1>2, <1>3, <2>1, <3>3 DEF Queue!Type
  <2>. QED  BY <2>2, <2>3, <2>4
<1>. QED  BY <1>4, <1>5

(* Every step of the driver is a step of the abstract queue, or stutters. *)
LEMMA StepRefines ==
  ASSUME RingInv, [Next]_vars
  PROVE  [Queue!Next]_<<Waiting, taken, typed, ~ Booting>>
<1> USE DEF ring, reader
<1>0. /\ key_buffer \in [Indices -> Chars \cup {NUL}] /\ buf_head \in Indices
      /\ buf_tail \in Indices /\ pc \in Labels
  BY DEF RingInv, RingType
<1>1. ASSUME NEW key \in Keys, Irq1Press(key)
      PROVE  [Queue!Next]_<<Waiting, taken, typed, ~ Booting>>
  BY <1>1, PressRefines DEF Queue!Next
<1>2. CASE Irq0 \/ \E key \in Keys : Irq1Release(key)
  <2>1. UNCHANGED <<key_buffer, buf_head, buf_tail, taken, typed>> /\ Wake
    BY <1>2 DEF Irq0, Irq1Release, ReleaseKey
  <2>2. Booting' = Booting /\ Front' = Front
    BY <1>0, <2>1, WakeKeeps, FrontIs
  <2>3. Waiting' = Waiting
    BY <2>1, <2>2, WaitingIs
  <2>. QED  BY <2>1, <2>2, <2>3
<1>3. CASE ResetHead
  <2>1. /\ Booting /\ Booting' /\ pc = "boot1" /\ pc' = "boot2" /\ buf_head' = 0
        /\ UNCHANGED <<taken, typed>>
    BY <1>3 DEF ResetHead, Booting
  <2>2. 0 \in Indices
    BY KeyboardAssumption DEF Indices
  <2>3. Waiting = <<>> /\ Waiting' = <<>>
    BY <1>0, <2>1, <2>2, FrontIs, WaitingIs, WindowEmpty
  <2>. QED  BY <2>1, <2>3
<1>4. CASE ResetTail
  <2>1. /\ Booting /\ Booting' /\ pc = "boot2" /\ pc' = "boot3" /\ buf_tail' = 0
        /\ UNCHANGED <<key_buffer, buf_head, taken, typed>>
    BY <1>4 DEF ResetTail, Booting
  <2>2. Waiting' = Waiting
    BY <2>1, FrontIs, WaitingIs
  <2>. QED  BY <2>1, <2>2
<1>5. CASE ResetShift
  <2>1. /\ Booting /\ ~ Booting' /\ pc = "boot3" /\ pc' = "prompt"
        /\ UNCHANGED <<key_buffer, buf_head, buf_tail, taken, typed>>
    BY <1>5 DEF ResetShift, Booting
  <2>2. Waiting' = Waiting
    BY <2>1, FrontIs, WaitingIs
  <2>3. Queue!Start
    BY <2>1, <2>2 DEF Queue!Start
  <2>. QED  BY <2>3 DEF Queue!Next
<1>6. CASE ShowPrompt
  <2>1. /\ ~ Booting /\ ~ Booting' /\ taken' = <<>>
        /\ UNCHANGED <<key_buffer, buf_head, buf_tail, typed>>
    BY <1>6 DEF ShowPrompt, Booting
  <2>2. Waiting' = Waiting
    BY <2>1, FrontIs, WaitingIs DEF Booting
  <2>3. Queue!NextLine
    BY <2>1, <2>2 DEF Queue!NextLine
  <2>. QED  BY <2>3 DEF Queue!Next
<1>7. CASE AdvanceTail
  <2>1. /\ ~ Booting /\ ~ Booting' /\ taken' = Append(taken, c)
        /\ buf_tail' = Succ(buf_tail) /\ buf_tail # buf_head /\ c = key_buffer[buf_tail]
        /\ UNCHANGED <<key_buffer, buf_head, typed>>
    BY <1>7 DEF AdvanceTail, Booting, RingInv, FrontInv
  <2>2. Waiting # <<>> /\ Head(Waiting) = c /\ Waiting' = Tail(Waiting)
    BY <1>0, <2>1, FrontIs, WaitingIs, WindowPop DEF RingInv, WindowInv, Booting
  <2>3. Queue!Get
    BY <2>1, <2>2 DEF Queue!Get
  <2>. QED  BY <2>3 DEF Queue!Next
<1>8. CASE \/ TestEmpty \/ Halt \/ ReadFront
           \/ HandleEnter \/ HandleBackspace \/ HandleChar \/ RunCommand
  <2>1. UNCHANGED <<key_buffer, buf_head, buf_tail, taken, typed>>
    BY <1>8 DEF TestEmpty, Halt, ReadFront, HandleEnter, HandleBackspace, HandleChar, RunCommand
  <2>2. ~ Booting /\ ~ Booting'
    BY <1>8 DEF TestEmpty, Halt, ReadFront, HandleEnter, HandleBackspace, HandleChar,
                RunCommand, Terminate, Booting
  <2>3. Waiting' = Waiting
    BY <2>1, <2>2, FrontIs, WaitingIs DEF Booting
  <2>. QED  BY <2>1, <2>2, <2>3
<1>9. CASE UNCHANGED vars
  <2>1. UNCHANGED <<key_buffer, buf_head, buf_tail, taken, typed, pc>>
    BY <1>9 DEF vars
  <2>2. Booting' = Booting /\ Waiting' = Waiting
    BY <2>1, FrontIs, WaitingIs DEF Booting
  <2>. QED  BY <2>1, <2>2
<1>. QED  BY <1>1, <1>2, <1>3, <1>4, <1>5, <1>6, <1>7, <1>8, <1>9 DEF Next, Reader

(* The ring buffer between irq1_handler and buf_pop implements the queue   *)
(* that KeyQueue describes: for every buffer size, no character is lost    *)
(* while there is room, read twice or out of order, whatever step of the   *)
(* reader an interrupt falls into.                                         *)
THEOREM KeyQueueRefinement == Spec => RefinesKeyQueue
<1>1. Init => Queue!Init
  <2> SUFFICES ASSUME Init PROVE Queue!Init
    OBVIOUS
  <2>1. Waiting = <<>>
    BY InitKeys, FrontIs, WaitingIs, WindowEmpty DEF Init, RingInv, RingType
  <2>. QED  BY <2>1 DEF Init, Booting, Queue!Init
<1>2. KeyInv => RingInv
  BY TypeParts DEF KeyInv, RingInv
<1>3. RingInv /\ [Next]_vars => [Queue!Next]_<<Waiting, taken, typed, ~ Booting>>
  BY StepRefines
<1>. QED  BY <1>1, <1>2, <1>3, KeyInvariance, PTL DEF Spec, RefinesKeyQueue, Queue!Spec
=============================================================================
