----------------------------- MODULE AtaProofs ------------------------------
(***************************************************************************)
(* For every width of a byte and of the address, every size of a sector    *)
(* and every size of the disk: the driver and the drive of Ata implement   *)
(* Disk.                                                                   *)
(***************************************************************************)
EXTENDS Ata, TLAPS

-----------------------------------------------------------------------------
(* The inductive invariant behind RefinesDisk, step by step of the driver. *)
Sector == [Offsets -> 0 .. (ByteMod - 1)]

AtaTypeOK ==
  /\ bus \in {"drive", "low", "high"} /\ media \in [OnDisk -> Sector]
  /\ st \in {"ready", "bsy", "drq", "err"} /\ words \in Seq(Nat)
  /\ pc \in {"init", "probe", "busy", "drain", "idle", "setup", "command", "bsy", "drq",
             "words", "flush", "flushed", "return"}
  /\ buffer \in Sector /\ i \in 0 .. (Words - 1)

Quiet(status) == cmd = "none" /\ words = <<>> /\ (bus = "drive" => st \in status)
Working(c)    == bus = "drive" /\ cmd = c /\ st = "bsy" /\ words = <<>>

(* The drive still has the words of s from word i on to give. *)
Giving(s) ==
  /\ bus = "drive" /\ st = "drq" /\ Len(words) = Words - i
  /\ \A k \in 1 .. (Words - i) : words[k] = ToWords(s)[i + k]

(* It has got the first n words of the buffer. *)
Got(n) ==
  /\ bus = "drive" /\ cmd = "write" /\ Len(words) = n
  /\ \A k \in 1 .. n : words[k] = ToWords(buffer)[k]

Reading == op = "read" /\ cmd = "read" /\ lba \in OnDisk /\ Giving(media[lba])
Writing == op = "write" /\ st = "drq" /\ Got(i)
Written == st = "bsy" /\ Got(Words)

StartInv ==
  /\ bus = "high" => pc \in {"init", "probe", "busy"}
  /\ pc = "init" => Quiet({"ready", "bsy"})
  /\ pc \in {"probe", "busy"} =>
       Quiet({"ready", "bsy"}) \/ Working("identify") \/ (cmd = "identify" /\ Giving(Blank))
  /\ pc = "drain" => cmd = "identify" /\ Giving(Blank)
  /\ pc \in {"idle", "setup", "command"} => Quiet({"ready", "err"})

CallInv ==
  /\ IF pc \in {"init", "probe", "busy", "drain", "idle"}
     THEN op = "none" /\ lba = 0 /\ buffer = Blank
     ELSE op \in {"read", "write"} /\ lba \in Lbas /\ (op = "write" => buffer \in Buffers)
  /\ pc \notin {"drain", "words"} => i = 0
  /\ pc \in {"command", "bsy", "drq", "words", "flush", "flushed"} => reg = LbaRegisters(lba)

TransferInv ==
  /\ pc = "bsy" => Working(op) \/ Reading \/ Writing \/ Quiet({"err"})
  /\ pc = "drq" => Reading \/ Writing \/ Quiet({"err"})
  /\ pc = "words" =>
       \/ Reading /\ \A b \in 0 .. (2 * i - 1) : buffer[b] = media[lba][b]
       \/ Writing
  /\ pc = "flush" => op = "write" /\ (Written \/ Quiet({"ready", "err"}))
  /\ pc = "flushed" =>
       op = "write" /\ (Written \/ Quiet({"ready", "err"}) \/ Working("flush"))
  /\ pc = "return" =>
       op = "read" /\ lba \in OnDisk /\ buffer = media[lba] /\ Quiet({"ready"})

AtaInv == AtaTypeOK /\ StartInv /\ CallInv /\ TransferInv

-----------------------------------------------------------------------------
(* Arithmetic of bytes, words and addresses.                               *)

LEMMA Division ==
  ASSUME NEW m \in Int, NEW d \in Int, d > 0
  PROVE  /\ m \div d \in Int /\ m % d \in Int
         /\ m = d * (m \div d) + (m % d) /\ 0 <= m % d /\ m % d < d
BY Z3

LEMMA ProductBound ==
  ASSUME NEW d \in Int, d > 0, NEW x \in Int, x > 0
  PROVE  d * x \in Int /\ d * x >= d
BY Z3

(* A quotient and a remainder are the only ones. *)
LEMMA Unique ==
  ASSUME NEW m \in Int, NEW d \in Int, d > 0, NEW q \in Int, NEW r \in Int,
         m = d * q + r, 0 <= r, r < d
  PROVE  m \div d = q /\ m % d = r
<1>1. PICK p \in Int, s \in Int : p = m \div d /\ s = m % d /\ m = d * p + s /\ 0 <= s /\ s < d
  BY Division
<1>2. CASE p = q
  BY <1>1, <1>2, Z3
<1>3. CASE p > q
  <2>1. d * (p - q) >= d
    BY <1>3, ProductBound
  <2>2. d * (p - q) = d * p - d * q
    BY Z3
  <2> QED
    BY <1>1, <2>1, <2>2, Z3
<1>4. CASE p < q
  <2>1. d * (q - p) >= d
    BY <1>4, ProductBound
  <2>2. d * (q - p) = d * q - d * p
    BY Z3
  <2> QED
    BY <1>1, <2>1, <2>2, Z3
<1> QED
  BY <1>2, <1>3, <1>4

LEMMA Nested ==
  ASSUME NEW m \in Int, NEW a \in Int, a > 0, NEW b \in Int, b > 0
  PROVE  m \div (a * b) = (m \div a) \div b
<1>1. PICK q \in Int, r \in Int : q = m \div a /\ m = a * q + r /\ 0 <= r /\ r < a
  BY Division
<1>2. PICK p \in Int, s \in Int : p = q \div b /\ q = b * p + s /\ 0 <= s /\ s < b
  BY Division
<1>3. m = (a * b) * p + (a * s + r)
  BY <1>1, <1>2, Z3
<1>4. 0 <= a * s /\ a * s <= a * (b - 1)
  BY <1>2, Z3
<1>5. a * (b - 1) = a * b - a
  BY Z3
<1>6. 0 <= a * s + r /\ a * s + r < a * b /\ a * b > 0
  BY <1>1, <1>4, <1>5, Z3
<1>7. a * b \in Int /\ a * s + r \in Int
  OBVIOUS
<1>8. m \div (a * b) = p
  BY <1>3, <1>6, <1>7, Unique
<1> QED
  BY <1>1, <1>2, <1>8

LEMMA WordBytes ==
  ASSUME NEW x \in 0 .. (ByteMod - 1), NEW y \in 0 .. (ByteMod - 1)
  PROVE  /\ x + y * ByteMod \in Nat
         /\ (x + y * ByteMod) % ByteMod = x /\ (x + y * ByteMod) \div ByteMod = y
<1>1. ByteMod \in Int /\ ByteMod > 0
  BY AtaAssumption
<1>2. x + y * ByteMod \in Int /\ x + y * ByteMod = ByteMod * y + x /\ y * ByteMod >= 0
  BY <1>1, Z3
<1> QED
  BY <1>1, <1>2, Unique

LEMMA QuotientBound ==
  ASSUME NEW m \in Int, NEW d \in Int, d > 0, NEW q \in Int, NEW r \in Int, NEW n \in Int,
         m = d * q + r, 0 <= r, r < d, 0 <= m, m < d * n
  PROVE  0 <= q /\ q < n
<1>1. CASE q < 0
  <2>1. d * (-q) >= d /\ d * (-q) = -(d * q)
    BY <1>1, ProductBound, Z3
  <2> QED
    BY <2>1, Z3
<1>2. CASE q >= n
  <2>1. d * (q - n) >= 0 /\ d * (q - n) = d * q - d * n
    BY <1>2, Z3
  <2> QED
    BY <2>1, Z3
<1> QED
  BY <1>1, <1>2

(* The drive puts together the address that ata_pio_setup took apart.      *)
LEMMA AddressKept ==
  ASSUME NEW l \in Lbas, reg = LbaRegisters(l)
  PROVE  Address = l
<1> DEFINE B == ByteMod
           q1 == l \div B
           q2 == q1 \div B
           q3 == q2 \div B
<1>1. /\ B \in Int /\ B > 0 /\ TopMod \in Int /\ TopMod > 0 /\ l \in Int /\ l >= 0
      /\ l < TopMod * B * B * B
  BY AtaAssumption
<1>2. /\ q1 \in Int /\ q2 \in Int /\ q3 \in Int
      /\ l = B * q1 + (l % B) /\ q1 = B * q2 + (q1 % B) /\ q2 = B * q3 + (q2 % B)
      /\ 0 <= l % B /\ 0 <= q1 % B /\ 0 <= q2 % B
      /\ l % B < B /\ q1 % B < B /\ q2 % B < B
      /\ l % B \in Int /\ q1 % B \in Int /\ q2 % B \in Int
  BY <1>1, Division
<1>3. l \div (B * B) = q2 /\ l \div (B * B * B) = q3
  <2>1. B * B \in Int /\ B * B > 0
    BY <1>1, Z3
  <2>2. l \div (B * B) = q2
    BY <1>1, Nested
  <2>3. l \div (B * B * B) = (l \div (B * B)) \div B
    BY <1>1, <2>1, Nested
  <2> QED
    BY <2>2, <2>3
<1>4. /\ reg.lo = l % B /\ reg.mid = q1 % B /\ reg.hi = q2 % B
      /\ reg.top = q3 % TopMod
  BY <1>3 DEF LbaRegisters
<1> HIDE DEF q1, q2, q3, B
<1>5. 0 <= q3 /\ q3 < TopMod
  <2>1. q1 >= 0 /\ q1 < TopMod * B * B
    <3>1. TopMod * B * B \in Int /\ TopMod * B * B * B = B * (TopMod * B * B)
      BY <1>1, Z3
    <3> QED
      BY <1>1, <1>2, <3>1, QuotientBound
  <2>2. q2 >= 0 /\ q2 < TopMod * B
    <3>1. TopMod * B \in Int /\ TopMod * B * B = B * (TopMod * B)
      BY <1>1, Z3
    <3> QED
      BY <1>1, <1>2, <2>1, <3>1, QuotientBound
  <2>3. TopMod * B = B * TopMod
    BY <1>1, Z3
  <2> QED
    BY <1>1, <1>2, <2>2, <2>3, QuotientBound
<1>6. q3 % TopMod = q3
  <2>1. q3 = TopMod * 0 + q3
    BY <1>1, <1>2
  <2> QED
    BY <1>1, <1>2, <1>5, <2>1, Unique
<1>7. q3 * B = B * q3 /\ q2 * B = B * q2 /\ q1 * B = B * q1
  BY <1>1, <1>2, Z3
<1> QED
  BY <1>1, <1>2, <1>4, <1>6, <1>7 DEF Address, B

(* Storing the words of a sector stores its bytes. *)
LEMMA WordsOf ==
  ASSUME NEW s \in Sector
  PROVE  /\ ToWords(s) \in Seq(Nat) /\ Len(ToWords(s)) = Words
         /\ \A w \in 0 .. (Words - 1) :
              /\ ToWords(s)[w + 1] = s[2 * w] + s[2 * w + 1] * ByteMod
              /\ ToWords(s)[w + 1] \in Nat
              /\ ToWords(s)[w + 1] % ByteMod = s[2 * w]
              /\ ToWords(s)[w + 1] \div ByteMod = s[2 * w + 1]
<1>1. Words \in Nat \ {0} /\ ByteMod \in Nat \ {0}
  BY AtaAssumption
<1>2. ASSUME NEW w \in 1 .. Words
      PROVE  /\ s[2 * w - 2] \in 0 .. (ByteMod - 1) /\ s[2 * w - 1] \in 0 .. (ByteMod - 1)
             /\ ToWords(s)[w] = s[2 * w - 2] + s[2 * w - 1] * ByteMod
  BY <1>1 DEF Sector, Offsets, ToWords
<1>3. ASSUME NEW w \in 1 .. Words
      PROVE  /\ ToWords(s)[w] \in Nat /\ ToWords(s)[w] % ByteMod = s[2 * w - 2]
             /\ ToWords(s)[w] \div ByteMod = s[2 * w - 1]
  BY <1>2, WordBytes
<1>4. ToWords(s) \in [1 .. Words -> Nat]
  BY <1>3 DEF ToWords
<1>5. ToWords(s) \in Seq(Nat) /\ Len(ToWords(s)) = Words
  BY <1>1, <1>4
<1>6. ASSUME NEW w \in 0 .. (Words - 1)
      PROVE  w + 1 \in 1 .. Words /\ 2 * (w + 1) - 2 = 2 * w /\ 2 * (w + 1) - 1 = 2 * w + 1
  BY <1>1
<1> QED
  BY <1>2, <1>3, <1>5, <1>6

LEMMA BytesOfWords ==
  ASSUME NEW s \in Sector, NEW ws, \A k \in 1 .. Words : ws[k] = ToWords(s)[k]
  PROVE  ToBytes(ws) = s
<1>1. Words \in Nat \ {0}
  BY AtaAssumption
<1>2. ASSUME NEW b \in Offsets
      PROVE  ToBytes(ws)[b] = s[b]
  <2>1. PICK w \in 0 .. (Words - 1) : w = b \div 2 /\ (b = 2 * w \/ b = 2 * w + 1)
                                    /\ (b % 2 = 0 <=> b = 2 * w)
    BY <1>1 DEF Offsets
  <2>2. ws[w + 1] = ToWords(s)[w + 1]
    BY <1>1
  <2>3. ws[w + 1] % ByteMod = s[2 * w] /\ ws[w + 1] \div ByteMod = s[2 * w + 1]
    BY <2>2, WordsOf
  <2> QED
    BY <2>1, <2>3 DEF ToBytes
<1>3. ToBytes(ws) = [b \in Offsets |-> ToBytes(ws)[b]] /\ s = [b \in Offsets |-> s[b]]
  BY DEF ToBytes, Sector
<1> QED
  BY <1>2, <1>3

-----------------------------------------------------------------------------
LEMMA BlankSector == Blank \in Sector
BY AtaAssumption DEF Blank, Sector

LEMMA SameSector ==
  ASSUME NEW s \in Sector, NEW t \in Sector, \A b \in Offsets : s[b] = t[b]
  PROVE  s = t
<1>1. s = [b \in Offsets |-> s[b]] /\ t = [b \in Offsets |-> t[b]]
  BY DEF Sector
<1> QED
  BY <1>1

LEMMA BufferSector == Buffers \subseteq Sector
BY AtaAssumption DEF Sector

LEMMA InitInv == Init => AtaInv
BY AtaAssumption, BlankSector DEF Init, AtaInv, AtaTypeOK, StartInv, CallInv, TransferInv, Quiet

LEMMA Issued ==
  ASSUME AtaTypeOK, NEW c, Issue(c)
  PROVE  st' \in {"ready", "bsy", "drq", "err"} /\ words' \in Seq(Nat)
<1>1. CASE bus = "drive" /\ st \in {"ready", "err"}
  <2>1. st' = "bsy" /\ words' = <<>>
    BY <1>1 DEF Issue
  <2> QED
    BY <2>1
<1>2. CASE ~ (bus = "drive" /\ st \in {"ready", "err"})
  <2>1. st' = st /\ words' = words
    BY <1>2 DEF Issue, work
  <2> QED
    BY <2>1 DEF AtaTypeOK
<1> QED
  BY <1>1, <1>2

(* ata_init *)
LEMMA StepIdentify == AtaInv /\ Identify => AtaInv'
<1> SUFFICES ASSUME AtaInv, Identify PROVE AtaInv'
  OBVIOUS
<1> USE DEF AtaInv
<1>1. Quiet({"ready", "bsy"}) /\ i = 0 /\ pc = "init" /\ pc' = "probe"
  BY DEF StartInv, CallInv, Identify
<1>2. Quiet({"ready", "bsy"})' \/ Working("identify")'
  BY <1>1 DEF Identify, Issue, work, Quiet, Working
<1>3. AtaTypeOK'
  <2>1. st' \in {"ready", "bsy", "drq", "err"} /\ words' \in Seq(Nat)
    BY Issued DEF Identify
  <2>2. UNCHANGED <<bus, media, buffer, i>>
    BY DEF Identify, driver
  <2> QED
    BY <1>1, <2>1, <2>2 DEF AtaTypeOK
<1>4. StartInv'
  BY <1>1, <1>2 DEF StartInv, Identify
<1>5. CallInv' /\ TransferInv'
  BY <1>1 DEF CallInv, TransferInv, Identify, driver
<1> QED
  BY <1>3, <1>4, <1>5

LEMMA StepProbe == AtaInv /\ Probe => AtaInv'
<1> SUFFICES ASSUME AtaInv, Probe PROVE AtaInv'
  OBVIOUS
<1> USE DEF AtaInv
<1>1. /\ pc = "probe" /\ i = 0 /\ UNCHANGED <<bus, media, reg, cmd, st, words, op, lba, buffer, i>>
      /\ pc' = IF bus = "low" THEN "idle" ELSE "busy"
  BY DEF CallInv, Probe, drive, driver, work
<1>2. AtaTypeOK' /\ CallInv' /\ TransferInv'
  BY <1>1 DEF AtaTypeOK, CallInv, TransferInv
<1>3. StartInv'
  BY <1>1 DEF StartInv, Quiet, Working, Giving
<1> QED
  BY <1>2, <1>3

LEMMA StepInitReady == AtaInv /\ InitReady => AtaInv'
<1> SUFFICES ASSUME AtaInv, InitReady PROVE AtaInv'
  OBVIOUS
<1> USE DEF AtaInv
<1>1. /\ pc = "busy" /\ i = 0 /\ UNCHANGED <<bus, media, reg, cmd, st, words, op, lba, buffer, i>>
      /\ ~ BSY /\ pc' = IF DRQ THEN "drain" ELSE "idle"
  BY DEF CallInv, InitReady, drive, driver, work
<1>2. AtaTypeOK' /\ CallInv' /\ TransferInv'
  BY <1>1 DEF AtaTypeOK, CallInv, TransferInv
<1>3. StartInv'
  BY <1>1 DEF StartInv, Quiet, Working, Giving, BSY, DRQ
<1> QED
  BY <1>2, <1>3

(* One word less: the drive gives the rest, or is ready again. *)
LEMMA WordTaken ==
  ASSUME AtaTypeOK, NEW s \in Sector, Giving(s), TakeWord
  PROVE  /\ words \in Seq(Nat) /\ words # <<>> /\ Head(words) = ToWords(s)[i + 1]
         /\ words' \in Seq(Nat) /\ Len(words') = Words - (i + 1)
         /\ \A k \in 1 .. (Words - (i + 1)) : words'[k] = ToWords(s)[(i + 1) + k]
         /\ IF i + 1 < Words THEN st' = "drq" /\ cmd' = cmd
            ELSE st' = "ready" /\ cmd' = "none" /\ words' = <<>>
<1>1. /\ Words \in Nat \ {0} /\ i \in 0 .. (Words - 1) /\ words \in Seq(Nat)
      /\ Len(words) = Words - i /\ st = "drq"
      /\ \A k \in 1 .. (Words - i) : words[k] = ToWords(s)[i + k]
  BY AtaAssumption DEF AtaTypeOK, Giving
<1>2. words # <<>> /\ Head(words) = words[1] /\ words[1] = ToWords(s)[i + 1]
  BY <1>1
<1>3. words' = Tail(words)
  BY <1>2 DEF TakeWord
<1>4. /\ words' \in Seq(Nat) /\ Len(words') = Words - (i + 1)
      /\ \A k \in 1 .. (Words - (i + 1)) : words'[k] = words[k + 1]
  BY <1>1, <1>2, <1>3
<1>5. \A k \in 1 .. (Words - (i + 1)) : words'[k] = ToWords(s)[(i + 1) + k]
  <2> TAKE k \in 1 .. (Words - (i + 1))
  <2>1. k + 1 \in 1 .. (Words - i) /\ i + (k + 1) = (i + 1) + k
    BY <1>1
  <2> QED
    BY <1>1, <1>4, <2>1
<1>6. CASE i + 1 < Words
  BY <1>1, <1>2, <1>4, <1>5, <1>6 DEF TakeWord
<1>7. CASE ~ (i + 1 < Words)
  <2>1. Len(words') = 0 /\ Len(words) <= 1
    BY <1>1, <1>4, <1>7
  <2> QED
    BY <1>2, <1>4, <1>5, <1>7, <2>1 DEF TakeWord
<1> QED
  BY <1>6, <1>7

LEMMA StepDrain == AtaInv /\ Drain => AtaInv'
<1> SUFFICES ASSUME AtaInv, Drain PROVE AtaInv'
  OBVIOUS
<1> USE DEF AtaInv
<1>1. /\ pc = "drain" /\ cmd = "identify" /\ Giving(Blank) /\ TakeWord /\ Count("idle")
      /\ UNCHANGED <<op, lba, buffer, bus, media, reg>>
      /\ op = "none" /\ lba = 0 /\ buffer = Blank /\ bus = "drive"
  BY DEF Drain, StartInv, CallInv, TakeWord, Giving
<1>2. /\ words' \in Seq(Nat) /\ Len(words') = Words - (i + 1)
      /\ \A k \in 1 .. (Words - (i + 1)) : words'[k] = ToWords(Blank)[(i + 1) + k]
      /\ IF i + 1 < Words THEN st' = "drq" /\ cmd' = cmd
         ELSE st' = "ready" /\ cmd' = "none" /\ words' = <<>>
  BY <1>1, BlankSector, WordTaken
<1>3. i \in 0 .. (Words - 1) /\ Words \in Nat \ {0}
  BY AtaAssumption DEF AtaTypeOK
<1>4. CASE i + 1 < Words
  <2>1. i' = i + 1 /\ pc' = "drain"
    BY <1>1, <1>4 DEF Count
  <2>2. Giving(Blank)'
    BY <1>1, <1>2, <1>4, <2>1 DEF Giving
  <2>3. AtaTypeOK'
    BY <1>1, <1>2, <1>3, <1>4, <2>1 DEF AtaTypeOK
  <2> QED
    BY <1>1, <1>2, <1>4, <2>1, <2>2, <2>3 DEF StartInv, CallInv, TransferInv
<1>5. CASE ~ (i + 1 < Words)
  <2>1. i' = 0 /\ pc' = "idle"
    BY <1>1, <1>5 DEF Count
  <2>2. Quiet({"ready", "err"})'
    BY <1>2, <1>5 DEF Quiet
  <2>3. AtaTypeOK'
    BY <1>1, <1>2, <1>3, <1>5, <2>1 DEF AtaTypeOK
  <2> QED
    BY <1>1, <2>1, <2>2, <2>3 DEF StartInv, CallInv, TransferInv
<1> QED
  BY <1>4, <1>5

(* A sector transfer *)
LEMMA StepBegin ==
  ASSUME NEW o \in {"read", "write"}, NEW l \in Lbas, NEW data \in Buffers
  PROVE  AtaInv /\ Begin(o, l, data) => AtaInv'
<1> SUFFICES ASSUME AtaInv, Begin(o, l, data) PROVE AtaInv'
  OBVIOUS
<1> USE DEF AtaInv
<1>1. /\ pc = "idle" /\ pc' = "setup" /\ op' = o /\ lba' = l /\ buffer' = data /\ i = 0
      /\ UNCHANGED <<bus, media, reg, cmd, st, words, i>> /\ data \in Sector
  BY BufferSector DEF Begin, drive, work, CallInv
<1>2. AtaTypeOK'
  BY <1>1 DEF AtaTypeOK
<1>3. StartInv'
  BY <1>1 DEF StartInv, Quiet
<1>4. CallInv' /\ TransferInv'
  BY <1>1 DEF CallInv, TransferInv
<1> QED
  BY <1>2, <1>3, <1>4

LEMMA StepSetup == AtaInv /\ Setup => AtaInv'
<1> SUFFICES ASSUME AtaInv, Setup PROVE AtaInv'
  OBVIOUS
<1> USE DEF AtaInv
<1>1. /\ pc = "setup" /\ pc' = "command" /\ reg' = LbaRegisters(lba) /\ i = 0
      /\ UNCHANGED <<bus, media, cmd, st, words, op, lba, buffer, i>>
  BY DEF Setup, work, driver, CallInv
<1>2. AtaTypeOK'
  BY <1>1 DEF AtaTypeOK
<1>3. StartInv'
  BY <1>1 DEF StartInv, Quiet
<1>4. CallInv' /\ TransferInv'
  BY <1>1 DEF CallInv, TransferInv, LbaRegisters
<1> QED
  BY <1>2, <1>3, <1>4

LEMMA StepCommand == AtaInv /\ Command => AtaInv'
<1> SUFFICES ASSUME AtaInv, Command PROVE AtaInv'
  OBVIOUS
<1> USE DEF AtaInv
<1>1. /\ pc = "command" /\ pc' = "bsy" /\ Issue(op) /\ i = 0 /\ Quiet({"ready", "err"})
      /\ UNCHANGED <<bus, media, reg, op, lba, buffer, i>>
  BY DEF Command, driver, CallInv, StartInv
<1>2. AtaTypeOK'
  BY <1>1, Issued DEF AtaTypeOK
<1>3. Working(op)' \/ Quiet({"err"})'
  BY <1>1 DEF Issue, Quiet, Working, work
<1>4. CallInv'
  BY <1>1 DEF CallInv, LbaRegisters
<1>5. StartInv' /\ TransferInv'
  BY <1>1, <1>3 DEF StartInv, TransferInv
<1> QED
  BY <1>2, <1>4, <1>5

LEMMA StepWaitBsy == AtaInv /\ WaitBsy => AtaInv'
<1> SUFFICES ASSUME AtaInv, WaitBsy PROVE AtaInv'
  OBVIOUS
<1> USE DEF AtaInv
<1>1. /\ pc = "bsy" /\ pc' = "drq" /\ ~ BSY /\ i = 0
      /\ UNCHANGED <<bus, media, reg, cmd, st, words, op, lba, buffer, i>>
  BY DEF WaitBsy, drive, work, driver, CallInv
<1>2. AtaTypeOK'
  BY <1>1 DEF AtaTypeOK
<1>3. Reading' \/ Writing' \/ Quiet({"err"})'
  <2>1. Reading \/ Writing \/ Quiet({"err"})
    BY <1>1 DEF TransferInv, Working, BSY
  <2> QED
    BY <1>1, <2>1 DEF Reading, Writing, Quiet, Giving, Got
<1>4. CallInv'
  BY <1>1 DEF CallInv, LbaRegisters
<1>5. StartInv' /\ TransferInv'
  BY <1>1, <1>3 DEF StartInv, TransferInv
<1> QED
  BY <1>2, <1>4, <1>5

LEMMA StepWaitDrq == AtaInv /\ WaitDrq => AtaInv'
<1> SUFFICES ASSUME AtaInv, WaitDrq PROVE AtaInv'
  OBVIOUS
<1> USE DEF AtaInv
<1>1. /\ pc = "drq" /\ pc' = "words" /\ DRQ /\ i = 0
      /\ UNCHANGED <<bus, media, reg, cmd, st, words, op, lba, buffer, i>>
  BY DEF WaitDrq, drive, work, driver, CallInv
<1>2. AtaTypeOK'
  BY <1>1 DEF AtaTypeOK
<1>3. Reading' \/ Writing'
  <2>1. bus # "high"
    BY <1>1 DEF StartInv
  <2>2. Reading \/ Writing
    BY <1>1, <2>1 DEF TransferInv, DRQ, Quiet
  <2> QED
    BY <1>1, <2>2 DEF Reading, Writing, Giving, Got
<1>4. CallInv'
  BY <1>1 DEF CallInv, LbaRegisters
<1>5. StartInv'
  BY <1>1 DEF StartInv
<1>6. TransferInv'
  BY <1>1, <1>3 DEF TransferInv
<1> QED
  BY <1>2, <1>4, <1>5, <1>6

(* What a step of the read loop does to the buffer. *)
LEMMA WordRead ==
  ASSUME AtaInv, ReadWord
  PROVE  /\ pc = "words" /\ op = "read" /\ bus = "drive" /\ lba \in OnDisk
         /\ media[lba] \in Sector /\ Giving(media[lba]) /\ cmd = "read"
         /\ buffer' \in Sector
         /\ \A b \in 0 .. (2 * (i + 1) - 1) : buffer'[b] = media[lba][b]
<1>1. /\ pc = "words" /\ op = "read" /\ TakeWord /\ Reading
      /\ \A b \in 0 .. (2 * i - 1) : buffer[b] = media[lba][b]
  BY DEF ReadWord, AtaInv, TransferInv, Writing
<1>2. /\ Giving(media[lba]) /\ cmd = "read" /\ lba \in OnDisk /\ bus = "drive"
      /\ media[lba] \in Sector /\ buffer \in Sector
      /\ i \in 0 .. (Words - 1) /\ Words \in Nat \ {0}
  BY <1>1, AtaAssumption DEF Reading, Giving, AtaInv, AtaTypeOK
<1> DEFINE s == media[lba]
           w == Head(words)
<1>3. words # <<>> /\ w = ToWords(s)[i + 1]
  BY <1>1, <1>2, WordTaken DEF AtaInv
<1>4. buffer' = [buffer EXCEPT ![2 * i] = w % ByteMod, ![2 * i + 1] = w \div ByteMod]
  BY <1>3 DEF ReadWord
<1>5. w % ByteMod = s[2 * i] /\ w \div ByteMod = s[2 * i + 1]
  BY <1>2, <1>3, WordsOf
<1>6. buffer' = [buffer EXCEPT ![2 * i] = s[2 * i], ![2 * i + 1] = s[2 * i + 1]]
  BY <1>4, <1>5
<1> HIDE DEF s, w
<1>7. s \in Sector
  BY <1>2 DEF s
<1>8. 2 * i \in Offsets /\ 2 * i + 1 \in Offsets /\ 2 * i # 2 * i + 1
  BY <1>2 DEF Offsets
<1>9. buffer' \in Sector
  BY <1>2, <1>6, <1>7, <1>8 DEF Sector
<1>10. \A b \in Offsets : buffer'[b] = IF b = 2 * i \/ b = 2 * i + 1 THEN s[b] ELSE buffer[b]
  BY <1>2, <1>6, <1>8 DEF Sector
<1>11. \A b \in 0 .. (2 * (i + 1) - 1) : buffer'[b] = s[b]
  <2> TAKE b \in 0 .. (2 * (i + 1) - 1)
  <2>1. b \in Offsets /\ (b = 2 * i \/ b = 2 * i + 1 \/ b \in 0 .. (2 * i - 1))
    BY <1>2 DEF Offsets
  <2> QED
    BY <1>1, <1>10, <2>1 DEF s
<1> QED
  BY <1>1, <1>2, <1>9, <1>11 DEF s

LEMMA StepReadWord == AtaInv /\ ReadWord => AtaInv'
<1> SUFFICES ASSUME AtaInv, ReadWord PROVE AtaInv'
  OBVIOUS
<1> USE DEF AtaInv
<1>1. /\ pc = "words" /\ op = "read" /\ bus = "drive" /\ lba \in OnDisk
      /\ media[lba] \in Sector /\ Giving(media[lba]) /\ cmd = "read" /\ buffer' \in Sector
      /\ \A b \in 0 .. (2 * (i + 1) - 1) : buffer'[b] = media[lba][b]
  BY WordRead
<1>2. TakeWord /\ Count("return") /\ UNCHANGED <<op, lba, bus, media, reg>>
  BY DEF ReadWord, TakeWord
<1>3. /\ words' \in Seq(Nat) /\ Len(words') = Words - (i + 1)
      /\ \A k \in 1 .. (Words - (i + 1)) : words'[k] = ToWords(media[lba])[(i + 1) + k]
      /\ IF i + 1 < Words THEN st' = "drq" /\ cmd' = cmd
         ELSE st' = "ready" /\ cmd' = "none" /\ words' = <<>>
  BY <1>1, <1>2, WordTaken
<1>4. i \in 0 .. (Words - 1) /\ Words \in Nat \ {0}
  BY AtaAssumption DEF AtaTypeOK
<1>5. CASE i + 1 < Words
  <2>1. i' = i + 1 /\ pc' = "words"
    BY <1>1, <1>2, <1>5 DEF Count
  <2>2. st' = "drq" /\ cmd' = "read"
    BY <1>1, <1>3, <1>5
  <2>3. Giving(media[lba])'
    BY <1>1, <1>2, <1>3, <2>1, <2>2 DEF Giving
  <2>4. AtaTypeOK'
    BY <1>1, <1>2, <1>3, <1>4, <1>5, <2>1, <2>2 DEF AtaTypeOK
  <2>5. CallInv'
    BY <1>1, <1>2, <2>1 DEF CallInv, LbaRegisters
  <2>6. StartInv'
    BY <1>1, <1>2, <2>1 DEF StartInv
  <2>7. \A b \in 0 .. (2 * i' - 1) : buffer'[b] = media'[lba'][b]
    BY <1>1, <1>2, <2>1
  <2>8. TransferInv'
    BY <1>1, <1>2, <2>1, <2>2, <2>3, <2>7 DEF TransferInv, Reading
  <2> QED
    BY <2>4, <2>5, <2>6, <2>8
<1>6. CASE ~ (i + 1 < Words)
  <2>1. i' = 0 /\ pc' = "return"
    BY <1>2, <1>6 DEF Count
  <2>2. Quiet({"ready"})'
    BY <1>3, <1>6 DEF Quiet
  <2>3. buffer' = media[lba]
    <3>1. Offsets = 0 .. (2 * (i + 1) - 1)
      BY <1>4, <1>6 DEF Offsets
    <3>2. \A b \in Offsets : buffer'[b] = media[lba][b]
      BY <1>1, <3>1
    <3> QED
      BY <1>1, <3>2, SameSector
  <2>4. AtaTypeOK'
    BY <1>1, <1>2, <1>3, <1>4, <1>6, <2>1 DEF AtaTypeOK
  <2>5. CallInv'
    BY <1>1, <1>2, <2>1 DEF CallInv
  <2>6. StartInv' /\ TransferInv'
    BY <1>1, <1>2, <2>1, <2>2, <2>3 DEF StartInv, TransferInv
  <2> QED
    BY <2>4, <2>5, <2>6
<1> QED
  BY <1>5, <1>6

LEMMA StepWriteWord == AtaInv /\ WriteWord => AtaInv'
<1> SUFFICES ASSUME AtaInv, WriteWord PROVE AtaInv'
  OBVIOUS
<1> USE DEF AtaInv
<1>1. /\ pc = "words" /\ op = "write" /\ Writing /\ Count("flush")
      /\ UNCHANGED <<bus, media, reg, cmd, op, lba, buffer>>
  BY DEF WriteWord, TransferInv, Reading
<1>2. /\ bus = "drive" /\ cmd = "write" /\ st = "drq" /\ Len(words) = i
      /\ \A k \in 1 .. i : words[k] = ToWords(buffer)[k]
  BY <1>1 DEF Writing, Got
<1>3. i \in 0 .. (Words - 1) /\ Words \in Nat \ {0} /\ words \in Seq(Nat) /\ buffer \in Sector
  BY AtaAssumption DEF AtaTypeOK
<1> DEFINE w == buffer[2 * i] + buffer[2 * i + 1] * ByteMod
<1>4. w \in Nat /\ w = ToWords(buffer)[i + 1]
  BY <1>3, WordsOf
<1>5. words' = Append(words, w) /\ st' = IF Len(words') = Words THEN "bsy" ELSE st
  BY <1>2 DEF WriteWord
<1> HIDE DEF w
<1>6. /\ words' \in Seq(Nat) /\ Len(words') = i + 1
      /\ \A k \in 1 .. (i + 1) : words'[k] = ToWords(buffer)[k]
  <2>1. /\ words' \in Seq(Nat) /\ Len(words') = i + 1 /\ words'[i + 1] = w
        /\ \A k \in 1 .. i : words'[k] = words[k]
    BY <1>2, <1>3, <1>4, <1>5
  <2>2. \A k \in 1 .. (i + 1) : k = i + 1 \/ k \in 1 .. i
    BY <1>3
  <2> QED
    BY <1>2, <1>4, <2>1, <2>2
<1>7. ToWords(buffer)' = ToWords(buffer)
  BY <1>1 DEF ToWords
<1>8. CASE i + 1 < Words
  <2>1. i' = i + 1 /\ pc' = "words" /\ st' = "drq"
    BY <1>1, <1>2, <1>3, <1>5, <1>6, <1>8 DEF Count
  <2>2. Writing'
    BY <1>1, <1>2, <1>6, <1>7, <2>1 DEF Writing, Got
  <2>3. AtaTypeOK'
    BY <1>1, <1>3, <1>6, <1>8, <2>1 DEF AtaTypeOK
  <2>4. CallInv'
    BY <1>1, <2>1 DEF CallInv, LbaRegisters
  <2>5. StartInv' /\ TransferInv'
    BY <1>1, <1>2, <2>1, <2>2 DEF StartInv, TransferInv
  <2> QED
    BY <2>3, <2>4, <2>5
<1>9. CASE ~ (i + 1 < Words)
  <2>1. i' = 0 /\ pc' = "flush" /\ i + 1 = Words /\ st' = "bsy"
    BY <1>1, <1>3, <1>5, <1>6, <1>9 DEF Count
  <2>2. Written'
    BY <1>1, <1>2, <1>6, <1>7, <2>1 DEF Written, Got
  <2>3. AtaTypeOK'
    BY <1>1, <1>3, <1>6, <2>1 DEF AtaTypeOK
  <2>4. CallInv'
    BY <1>1, <2>1 DEF CallInv, LbaRegisters
  <2>5. StartInv' /\ TransferInv'
    BY <1>1, <1>2, <2>1, <2>2 DEF StartInv, TransferInv
  <2> QED
    BY <2>3, <2>4, <2>5
<1> QED
  BY <1>8, <1>9

LEMMA StepFlush == AtaInv /\ Flush => AtaInv'
<1> SUFFICES ASSUME AtaInv, Flush PROVE AtaInv'
  OBVIOUS
<1> USE DEF AtaInv
<1>1. /\ pc = "flush" /\ pc' = "flushed" /\ op = "write" /\ Issue("flush")
      /\ Written \/ Quiet({"ready", "err"})
      /\ UNCHANGED <<bus, media, reg, op, lba, buffer, i>>
  BY DEF Flush, driver, TransferInv
<1>2. AtaTypeOK'
  BY <1>1, Issued DEF AtaTypeOK
<1>3. Written' \/ Quiet({"ready", "err"})' \/ Working("flush")'
  <2>1. CASE Written
    <3>1. UNCHANGED <<cmd, st, words>>
      BY <1>1, <2>1 DEF Issue, work, Written
    <3> QED
      BY <1>1, <2>1, <3>1 DEF Written, Got, ToWords
  <2>2. CASE Quiet({"ready", "err"})
    BY <1>1, <2>2 DEF Issue, work, Quiet, Working
  <2> QED
    BY <1>1, <2>1, <2>2
<1>4. CallInv'
  BY <1>1 DEF CallInv, LbaRegisters
<1>5. StartInv' /\ TransferInv'
  BY <1>1, <1>3 DEF StartInv, TransferInv
<1> QED
  BY <1>2, <1>4, <1>5

LEMMA StepReturn == AtaInv /\ Return => AtaInv'
<1> SUFFICES ASSUME AtaInv, Return PROVE AtaInv'
  OBVIOUS
<1> USE DEF AtaInv
<1>1. /\ pc = "return" \/ (pc = "flushed" /\ ~ BSY)
      /\ pc' = "idle" /\ op' = "none" /\ lba' = 0 /\ buffer' = Blank /\ i' = 0
      /\ UNCHANGED <<bus, media, reg, cmd, st, words>>
  BY DEF Return, Forget, drive, work
<1>2. AtaTypeOK'
  BY <1>1, AtaAssumption, BlankSector DEF AtaTypeOK
<1>3. Quiet({"ready", "err"})'
  <2>1. Quiet({"ready", "err"})
    BY <1>1 DEF TransferInv, Quiet, Written, Working, BSY, Got
  <2> QED
    BY <1>1, <2>1 DEF Quiet
<1>4. CallInv' /\ TransferInv'
  BY <1>1 DEF CallInv, TransferInv
<1>5. StartInv'
  BY <1>1, <1>3 DEF StartInv
<1> QED
  BY <1>2, <1>4, <1>5

LEMMA StepReset == AtaInv /\ Reset => AtaInv'
<1> SUFFICES ASSUME AtaInv, Reset PROVE AtaInv'
  OBVIOUS
<1> USE DEF AtaInv
<1>1. /\ pc' = "init" /\ op' = "none" /\ lba' = 0 /\ buffer' = Blank /\ i' = 0
      /\ cmd' = "none" /\ words' = <<>> /\ st' = "bsy" /\ UNCHANGED <<bus, media, reg>>
  BY DEF Reset, Forget
<1>2. AtaTypeOK'
  BY <1>1, AtaAssumption, BlankSector DEF AtaTypeOK
<1> QED
  BY <1>1, <1>2 DEF StartInv, CallInv, TransferInv, Quiet

(* The drive *)
LEMMA StepDriveAnswers == AtaInv /\ DriveAnswers => AtaInv'
<1> SUFFICES ASSUME AtaInv, DriveAnswers PROVE AtaInv'
  OBVIOUS
<1> USE DEF AtaInv
<1>1. /\ bus = "drive" /\ st = "bsy" /\ words = <<>> /\ Len(words) = 0
      /\ UNCHANGED <<bus, media, reg, pc, op, lba, buffer, i>>
  BY DEF DriveAnswers, driver
<1>2. Words \in Nat \ {0} /\ 0 # Words
  BY AtaAssumption
<1>3. CallInv'
  BY <1>1 DEF CallInv, LbaRegisters
<1>4. ASSUME Idle("ready") \/ Idle("err")
      PROVE  AtaTypeOK'
  BY <1>1, <1>4 DEF Idle, AtaTypeOK
<1>5. ASSUME NEW s \in Sector, Request(ToWords(s)), i = 0
      PROVE  AtaTypeOK' /\ Giving(s)'
  <2>1. /\ st' = "drq" /\ words' = ToWords(s) /\ words' \in Seq(Nat) /\ Len(words') = Words
        /\ i' = 0 /\ ToWords(s)' = ToWords(s)
    BY <1>1, <1>5, WordsOf DEF Request
  <2>2. AtaTypeOK'
    BY <1>1, <2>1 DEF AtaTypeOK
  <2>3. \A k \in 1 .. (Words - i') : words'[k] = ToWords(s)[i' + k]
    BY <1>2, <2>1
  <2> QED
    BY <1>1, <1>2, <2>1, <2>2, <2>3 DEF Giving
<1>6. CASE pc \in {"init", "probe", "busy"}
  <2>1. i = 0 /\ (cmd = "none" \/ (pc # "init" /\ cmd = "identify"))
    BY <1>1, <1>6 DEF StartInv, CallInv, Quiet, Working, Giving
  <2>2. CASE cmd = "none"
    <3>1. Idle("ready")
      BY <2>2 DEF DriveAnswers
    <3>2. Quiet({"ready", "bsy"})'
      BY <3>1 DEF Idle, Quiet
    <3> QED
      BY <1>1, <1>3, <1>4, <1>6, <3>1, <3>2 DEF StartInv, TransferInv
  <2>3. CASE pc # "init" /\ cmd = "identify"
    <3>1. Request(ToWords(Blank)) /\ cmd' = "identify"
      BY <2>3 DEF DriveAnswers, Request
    <3>2. AtaTypeOK' /\ Giving(Blank)'
      BY <1>5, <2>1, <3>1, BlankSector
    <3> QED
      BY <1>1, <1>3, <1>6, <2>3, <3>1, <3>2 DEF StartInv, TransferInv
  <2> QED
    BY <2>1, <2>2, <2>3
<1>7. CASE pc = "bsy"
  <2>1. cmd = op /\ op \in {"read", "write"} /\ i = 0 /\ lba \in Lbas /\ Address = lba
    BY <1>1, <1>7, AddressKept
       DEF TransferInv, CallInv, Quiet, Working, Reading, Writing, Giving
  <2>2. StartInv'
    BY <1>1, <1>7 DEF StartInv
  <2>3. CASE op = "read" /\ lba \in OnDisk
    <3>1. Request(ToWords(media[lba])) /\ cmd' = "read" /\ media[lba] \in Sector
      BY <2>1, <2>3 DEF DriveAnswers, Request, AtaTypeOK
    <3>2. AtaTypeOK' /\ Giving(media[lba])'
      <4> DEFINE s == media[lba]
      <4>1. s' = s
        BY <1>1
      <4>2. Giving(s)' <=> /\ bus' = "drive" /\ st' = "drq" /\ Len(words') = Words - i'
                          /\ \A k \in 1 .. (Words - i') : words'[k] = ToWords(s)[i' + k]
        BY <4>1 DEF Giving
      <4>3. /\ st' = "drq" /\ words' = ToWords(s) /\ words' \in Seq(Nat) /\ Len(words') = Words
            /\ i' = 0
        BY <1>1, <2>1, <3>1, WordsOf DEF Request
      <4>4. \A k \in 1 .. (Words - i') : words'[k] = ToWords(s)[i' + k]
        BY <1>2, <4>3
      <4>5. AtaTypeOK'
        BY <1>1, <4>3 DEF AtaTypeOK
      <4> QED
        BY <1>1, <1>2, <4>2, <4>3, <4>4, <4>5
    <3> QED
      BY <1>1, <1>3, <1>7, <2>2, <2>3, <3>1, <3>2 DEF TransferInv, Reading
  <2>4. CASE op = "write" /\ Request(<<>>)
    <3>1. st' = "drq" /\ words' = <<>> /\ Len(words') = 0 /\ cmd' = "write" /\ i' = 0
      BY <1>1, <2>1, <2>4 DEF Request
    <3>2. Writing'
      BY <1>1, <2>4, <3>1 DEF Writing, Got
    <3>3. AtaTypeOK'
      BY <1>1, <3>1 DEF AtaTypeOK
    <3> QED
      BY <1>1, <1>3, <1>7, <2>2, <3>2, <3>3 DEF TransferInv
  <2>5. CASE Idle("err")
    <3>1. Quiet({"err"})'
      BY <2>5 DEF Idle, Quiet
    <3> QED
      BY <1>1, <1>3, <1>4, <1>7, <2>2, <2>5, <3>1 DEF TransferInv
  <2>6. (op = "read" /\ lba \in OnDisk) \/ (op = "write" /\ Request(<<>>)) \/ Idle("err")
    BY <2>1 DEF DriveAnswers
  <2> QED
    BY <2>3, <2>4, <2>5, <2>6
<1>8. CASE pc = "flushed"
  <2>1. cmd = "flush" /\ op = "write"
    BY <1>1, <1>2, <1>8 DEF TransferInv, Quiet, Working, Written, Got
  <2>2. Idle("ready")
    BY <2>1 DEF DriveAnswers
  <2>3. Quiet({"ready", "err"})'
    BY <2>2 DEF Idle, Quiet
  <2> QED
    BY <1>1, <1>3, <1>4, <1>8, <2>1, <2>2, <2>3 DEF StartInv, TransferInv
<1>9. pc \in {"init", "probe", "busy", "bsy", "flushed"}
  BY <1>1, <1>2 DEF AtaTypeOK, StartInv, TransferInv, Quiet, Giving, Reading, Writing, Written, Got
<1> QED
  BY <1>6, <1>7, <1>8, <1>9

(* The drive stores the caller's buffer, at the caller's address. *)
LEMMA SectorStored ==
  ASSUME AtaInv, DriveStores
  PROVE  /\ pc \in {"flush", "flushed"} /\ op = "write" /\ cmd = "write"
         /\ media' = [l \in OnDisk |-> IF l = lba THEN buffer ELSE media[l]]
         /\ buffer \in Sector /\ buffer \in Buffers
<1>1. bus = "drive" /\ st = "bsy" /\ words # <<>>
  BY DEF DriveStores
<1>2. pc \in {"flush", "flushed"} /\ op = "write" /\ Written
  BY <1>1 DEF AtaInv, AtaTypeOK, StartInv, TransferInv, Quiet, Working, Giving, Reading, Writing
<1>3. /\ cmd = "write" /\ lba \in Lbas /\ reg = LbaRegisters(lba) /\ buffer \in Buffers
      /\ \A k \in 1 .. Words : words[k] = ToWords(buffer)[k]
  BY <1>2 DEF Written, Got, AtaInv, CallInv
<1>4. Address = lba
  BY <1>3, AddressKept
<1>5. buffer \in Sector
  BY <1>3, BufferSector
<1>6. ToBytes(words) = buffer
  BY <1>3, <1>5, BytesOfWords
<1> QED
  BY <1>2, <1>3, <1>4, <1>5, <1>6 DEF DriveStores

LEMMA StepDriveStores == AtaInv /\ DriveStores => AtaInv'
<1> SUFFICES ASSUME AtaInv, DriveStores PROVE AtaInv'
  OBVIOUS
<1> USE DEF AtaInv
<1>1. /\ pc \in {"flush", "flushed"} /\ op = "write" /\ buffer \in Sector
      /\ media' = [l \in OnDisk |-> IF l = lba THEN buffer ELSE media[l]]
  BY SectorStored
<1>2. /\ bus = "drive" /\ UNCHANGED <<bus, reg, pc, op, lba, buffer, i>>
      /\ st' \in {"ready", "err"} /\ cmd' = "none" /\ words' = <<>>
  BY DEF DriveStores, driver, Idle
<1>3. media' \in [OnDisk -> Sector]
  BY <1>1 DEF AtaTypeOK
<1>4. AtaTypeOK'
  BY <1>2, <1>3 DEF AtaTypeOK
<1>5. Quiet({"ready", "err"})'
  BY <1>2 DEF Quiet
<1>6. CallInv'
  BY <1>1, <1>2 DEF CallInv, LbaRegisters
<1>7. StartInv' /\ TransferInv'
  BY <1>1, <1>2, <1>5 DEF StartInv, TransferInv
<1> QED
  BY <1>4, <1>6, <1>7

LEMMA StepStutter == AtaInv /\ UNCHANGED vars => AtaInv'
<1> SUFFICES ASSUME AtaInv, UNCHANGED vars PROVE AtaInv'
  OBVIOUS
<1>1. UNCHANGED <<bus, media, reg, cmd, st, words, pc, op, lba, buffer, i>>
  BY DEF vars, drive, driver, work
<1>2. AtaTypeOK' /\ StartInv' /\ CallInv'
  BY <1>1 DEF AtaInv, AtaTypeOK, StartInv, CallInv, LbaRegisters, Quiet, Working, Giving
<1>3. Working(op)' = Working(op) /\ Reading' = Reading /\ Writing' = Writing
      /\ Written' = Written /\ Working("flush")' = Working("flush")
  BY <1>1 DEF Working, Reading, Writing, Written, Giving, Got, ToWords
<1>4. TransferInv'
  BY <1>1, <1>3 DEF AtaInv, TransferInv, Quiet
<1> QED
  BY <1>2, <1>4 DEF AtaInv

LEMMA StepInv == AtaInv /\ [Next]_vars => AtaInv'
<1> SUFFICES ASSUME AtaInv, [Next]_vars PROVE AtaInv'
  OBVIOUS
<1>1. CASE Driver
  BY <1>1, StepIdentify, StepProbe, StepInitReady, StepDrain, StepSetup, StepCommand, StepWaitBsy,
     StepWaitDrq, StepReadWord, StepWriteWord, StepFlush, StepReturn DEF Driver
<1>2. CASE Drive
  BY <1>2, StepDriveAnswers, StepDriveStores DEF Drive
<1>3. CASE Reset
  BY <1>3, StepReset
<1>4. CASE \E o \in {"read", "write"}, l \in Lbas, data \in Buffers : Begin(o, l, data)
  BY <1>4, StepBegin
<1>5. CASE UNCHANGED vars
  BY <1>5, StepStutter
<1> QED
  BY <1>1, <1>2, <1>3, <1>4, <1>5 DEF Next

(* At every step of ata_init, ata_read_sector and ata_write_sector the     *)
(* drive is where the driver takes it to be: the words still to come are   *)
(* the rest of the sector that was asked for, the words sent the beginning *)
(* of the caller's buffer, and between calls nothing is left over from     *)
(* IDENTIFY, from a failed command or from before a reset.                 *)
THEOREM DriveFollowsDriver == Spec => []AtaInv
BY InitInv, StepInv, PTL DEF Spec

-----------------------------------------------------------------------------
(* The refinement of Disk. *)
LEMMA CallFields ==
  ASSUME AtaInv
  PROVE  /\ Done => (op = "read" \/ op = "write")
         /\ op = "none" => Call = SectorDisk!NoCall
<1>1. Done => pc \in {"return", "flush", "flushed"}
  BY DEF Done
<1>2. pc \in {"return", "flush", "flushed"} => op = "read" \/ op = "write"
  BY DEF AtaInv, CallInv
<1>3. op = "none" => lba = 0 /\ buffer = Blank /\ ~ Done
  BY <1>1, <1>2 DEF AtaInv, CallInv
<1> QED
  BY <1>1, <1>2, <1>3 DEF Call, SectorDisk!NoCall, Done

LEMMA SimulateInit == Init => SectorDisk!Init
BY DEF Init, SectorDisk!Init, Call, Done, SectorDisk!NoCall

(* A step that neither ends nor begins a call, nor writes the disk. *)
LEMMA CallKept ==
  ASSUME UNCHANGED <<media, op, lba>>, Done' <=> Done,
         op = "write" \/ Done => buffer' = buffer
  PROVE  UNCHANGED <<media, Call>>
<1>1. Done' = Done
  BY DEF Done
<1> QED
  BY <1>1 DEF Call

(* The driver's steps other than the last word of a read and the return.   *)
LEMMA SimulateQuiet ==
  ASSUME AtaInv,
         \/ Identify \/ Probe \/ InitReady \/ Drain \/ Setup \/ Command \/ WaitBsy \/ WaitDrq
         \/ WriteWord \/ Flush \/ DriveAnswers
  PROVE  UNCHANGED <<media, Call>>
<1>1. CASE Identify \/ Probe \/ InitReady \/ Setup \/ Command \/ WaitBsy \/ WaitDrq
  <2>1. /\ UNCHANGED <<media, op, lba, buffer>>
        /\ pc \in {"init", "probe", "busy", "setup", "command", "bsy", "drq"}
        /\ pc' \in {"probe", "idle", "busy", "drain", "command", "bsy", "drq", "words"}
    BY <1>1 DEF Identify, Probe, InitReady, Setup, Command, WaitBsy, WaitDrq, drive, driver
  <2>2. ~ Done /\ ~ Done'
    BY <2>1 DEF Done
  <2> QED
    BY <2>1, <2>2, CallKept
<1>2. CASE Drain
  <2>1. /\ UNCHANGED <<media, op, lba, buffer>> /\ pc = "drain" /\ pc' \in {"drain", "idle"}
    BY <1>2 DEF Drain, TakeWord, Count
  <2>2. ~ Done /\ ~ Done'
    BY <2>1 DEF Done
  <2> QED
    BY <2>1, <2>2, CallKept
<1>3. CASE WriteWord
  <2>1. /\ UNCHANGED <<media, op, lba, buffer, cmd>> /\ pc = "words" /\ pc' \in {"words", "flush"}
        /\ op = "write" /\ cmd = "write"
    BY <1>3 DEF WriteWord, Count, AtaInv, TransferInv, Reading, Writing, Got
  <2>2. ~ Done /\ ~ Done'
    BY <2>1 DEF Done
  <2> QED
    BY <2>1, <2>2, CallKept
<1>4. CASE Flush
  <2>1. /\ UNCHANGED <<media, op, lba, buffer>> /\ pc = "flush" /\ pc' = "flushed"
        /\ cmd' = "write" <=> cmd = "write"
    BY <1>4 DEF Flush, driver, Issue, work, AtaInv, TransferInv, Quiet, Written
  <2>2. Done' <=> Done
    BY <2>1 DEF Done
  <2> QED
    BY <2>1, <2>2, CallKept
<1>5. CASE DriveAnswers
  <2>1. /\ UNCHANGED <<media, op, lba, buffer, pc>> /\ st = "bsy" /\ words = <<>>
        /\ bus = "drive" /\ Len(words) # Words
    BY <1>5, AtaAssumption DEF DriveAnswers, driver
  <2>2. pc # "return" /\ pc # "flush" /\ (pc = "flushed" => cmd = "flush")
    BY <2>1 DEF AtaInv, TransferInv, Quiet, Written, Got, Working
  <2>3. pc = "flushed" => cmd' = "none"
    BY <1>5, <2>2 DEF DriveAnswers, Idle
  <2>4. Done' <=> Done
    BY <2>1, <2>2, <2>3 DEF Done
  <2> QED
    BY <2>1, <2>4, CallKept
<1> QED
  BY <1>1, <1>2, <1>3, <1>4, <1>5

LEMMA SimulateReadWord ==
  ASSUME AtaInv, AtaInv', ReadWord
  PROVE  SectorDisk!Read \/ UNCHANGED <<media, Call>>
<1>1. /\ pc = "words" /\ op = "read" /\ lba \in OnDisk /\ UNCHANGED <<media, op, lba>>
      /\ Count("return") /\ ~ Done
  BY WordRead DEF ReadWord, TakeWord, Done
<1>2. CASE i + 1 < Words
  <2>1. pc' = "words"
    BY <1>1, <1>2 DEF Count
  <2>2. ~ Done'
    BY <2>1 DEF Done
  <2> QED
    BY <1>1, <2>2, CallKept
<1>3. CASE ~ (i + 1 < Words)
  <2>1. pc' = "return"
    BY <1>1, <1>3 DEF Count
  <2>2. Done' /\ buffer' = media'[lba']
    BY <2>1 DEF Done, AtaInv, TransferInv
  <2>3. Call = [op |-> "read", lba |-> lba, done |-> FALSE, data |-> Blank]
    BY <1>1 DEF Call, Done
  <2>4. Call' = [op |-> "read", lba |-> lba, done |-> TRUE, data |-> media[lba]]
    BY <1>1, <2>1, <2>2 DEF Call, Done
  <2>5. Call.op = "read" /\ ~ Call.done /\ Call.lba = lba
    BY <2>3
  <2> QED
    BY <1>1, <2>4, <2>5 DEF SectorDisk!Read
<1> QED
  BY <1>2, <1>3

LEMMA SimulateStore ==
  ASSUME AtaInv, DriveStores
  PROVE  SectorDisk!Write
<1>1. /\ pc \in {"flush", "flushed"} /\ op = "write" /\ cmd = "write"
      /\ media' = [l \in OnDisk |-> IF l = lba THEN buffer ELSE media[l]]
  BY SectorStored
<1>2. UNCHANGED <<pc, op, lba, buffer>> /\ cmd' = "none"
  BY DEF DriveStores, driver, Idle
<1>3. Call = [op |-> "write", lba |-> lba, done |-> FALSE, data |-> buffer]
  BY <1>1 DEF Call, Done
<1>4. Call' = [op |-> "write", lba |-> lba, done |-> TRUE, data |-> buffer]
  BY <1>1, <1>2 DEF Call, Done
<1>5. Call.op = "write" /\ ~ Call.done /\ Call.lba = lba /\ Call.data = buffer
  BY <1>3
<1> QED
  BY <1>1, <1>4, <1>5 DEF SectorDisk!Write

LEMMA SimulateBegin ==
  ASSUME AtaInv, NEW o \in {"read", "write"}, NEW l \in Lbas, NEW data \in Buffers,
         Begin(o, l, data)
  PROVE  SectorDisk!Begin
<1>1. /\ pc = "idle" /\ pc' = "setup" /\ op = "none" /\ op' = o /\ lba' = l /\ buffer' = data
      /\ media' = media
  BY DEF Begin, drive, AtaInv, CallInv
<1>2. Call = SectorDisk!NoCall
  BY <1>1, CallFields
<1>3. Call' = [op |-> o, lba |-> l, done |-> FALSE,
               data |-> IF o = "write" THEN data ELSE Blank]
  BY <1>1 DEF Call, Done
<1> QED
  BY <1>1, <1>2, <1>3 DEF SectorDisk!Begin

LEMMA SimulateEnd ==
  ASSUME AtaInv, AtaInv', Return \/ Reset
  PROVE  SectorDisk!Reset
<1>1. op' = "none" /\ media' = media /\ pc' \in {"idle", "init"} /\ lba' = 0 /\ buffer' = Blank
  BY DEF Return, Reset, Forget, drive
<1>2. Call' = SectorDisk!NoCall
  BY <1>1 DEF Call, Done, SectorDisk!NoCall
<1> QED
  BY <1>1, <1>2 DEF SectorDisk!Reset

LEMMA SimulateStep ==
  AtaInv /\ AtaInv' /\ [Next]_vars => [SectorDisk!Next]_<<media, Call>>
<1> SUFFICES ASSUME AtaInv, AtaInv', [Next]_vars
             PROVE  SectorDisk!Next \/ UNCHANGED <<media, Call>>
  OBVIOUS
<1> USE DEF SectorDisk!Next
<1>1. CASE Driver
  BY <1>1, SimulateQuiet, SimulateReadWord, SimulateEnd DEF Driver
<1>2. CASE Drive
  BY <1>2, SimulateQuiet, SimulateStore DEF Drive
<1>3. CASE Reset
  BY <1>3, SimulateEnd
<1>4. CASE \E o \in {"read", "write"}, l \in Lbas, data \in Buffers : Begin(o, l, data)
  BY <1>4, SimulateBegin
<1>5. CASE UNCHANGED vars
  BY <1>5 DEF vars, drive, driver, work, Call, Done
<1> QED
  BY <1>1, <1>2, <1>3, <1>4, <1>5 DEF Next

(* For every byte width, sector size and disk: ata_read_sector and         *)
(* ata_write_sector move whole sectors.  What a read returns is what is    *)
(* at the address asked for; a write reaches that sector and no other,     *)
(* whole; and a reset at any port access leaves every sector as it was     *)
(* before the call or as the call was to make it.                          *)
THEOREM DiskRefinement == Spec => RefinesDisk
<1>1. Spec => SectorDisk!Init
  BY SimulateInit, PTL DEF Spec
<1>2. Spec => [][SectorDisk!Next]_<<media, Call>>
  BY DriveFollowsDriver, SimulateStep, PTL DEF Spec
<1> QED
  BY <1>1, <1>2 DEF RefinesDisk, SectorDisk!Spec
=============================================================================
