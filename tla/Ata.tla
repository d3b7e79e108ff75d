-------------------------------- MODULE Ata ---------------------------------
(***************************************************************************)
(* The ATA driver of drivers/ata.c and the drive it polls.  The driver's   *)
(* steps are its accesses to the drive's ports; the drive, which is        *)
(* external, works in between.                                             *)
(*                                                                         *)
(* pc, the driver's next step:                                             *)
(*   init, probe, busy, drain   ata_init                                   *)
(*   idle     no call is running                                           *)
(*   setup, command, bsy, drq, words   a sector transfer                   *)
(*   flush, flushed   ata_write_sector flushes the cache                   *)
(*   return   ata_read_sector returns                                      *)
(* A loop that polls the status is a step that is enabled when it ends.    *)
(***************************************************************************)
EXTENDS Integers, Sequences

CONSTANTS
  ByteMod,      \* values of a byte (256)
  TopMod,       \* values of the address bits in the drive register (16)
  Words,        \* words of a sector (256)
  NumSectors,   \* size of the disk
  Lbas,         \* addresses that callers use
  Buffers       \* contents of callers' buffers

Offsets == 0 .. (2 * Words - 1)
Blank   == [b \in Offsets |-> 0]
OnDisk  == 0 .. (NumSectors - 1)

ASSUME AtaAssumption ==
  /\ ByteMod \in Nat \ {0} /\ TopMod \in Nat \ {0} /\ Words \in Nat \ {0}
  /\ NumSectors \in Nat
  /\ Lbas \subseteq 0 .. (TopMod * ByteMod * ByteMod * ByteMod - 1)
  /\ Buffers \subseteq [Offsets -> 0 .. (ByteMod - 1)]

VARIABLES
  bus,        \* what answers at the ports: a drive, or nothing ("low": they
              \* read 0, "high": they read 0xFF)
  media,      \* the drive's sectors
  reg,        \* its address registers
  cmd,        \* the command it works on, "none" between commands
  st,         \* its status: "ready", "bsy", "drq" or "err"
  words,      \* the words still to be read, or the words received
  pc, op, lba, buffer,
  i           \* words transferred

work   == <<cmd, st, words>>
drive  == <<bus, media, reg, work>>
driver == <<op, lba, buffer, i>>
vars   == <<drive, pc, driver>>

(* inb(ATA_PORT_STATUS) & ATA_SR_BSY, and & ATA_SR_DRQ. *)
BSY == bus = "high" \/ (bus = "drive" /\ st = "bsy")
DRQ == bus = "high" \/ (bus = "drive" /\ st = "drq")

(* A mutant: the top four bits of the address are forgotten. *)
Mut_LbaRegisters(l) ==
  [lo |-> l % ByteMod, mid |-> (l \div ByteMod) % ByteMod,
   hi |-> (l \div (ByteMod * ByteMod)) % ByteMod, top |-> 0]

(* The address, byte by byte, as ata_pio_setup shifts and cuts it. *)
LbaRegisters(l) ==
  [lo  |-> l % ByteMod,
   mid |-> (l \div ByteMod) % ByteMod,
   hi  |-> (l \div (ByteMod * ByteMod)) % ByteMod,
   top |-> (l \div (ByteMod * ByteMod * ByteMod)) % TopMod]

Init ==
  /\ bus \in {"drive", "low", "high"}
  /\ media = [l \in OnDisk |-> Blank] /\ reg = LbaRegisters(0)
  /\ cmd = "none" /\ st = "ready" /\ words = <<>>
  /\ pc = "init" /\ op = "none" /\ lba = 0 /\ buffer = Blank /\ i = 0

(* A command written to the drive.  While BSY or DRQ is set it is ignored. *)
Issue(command) ==
  IF bus = "drive" /\ st \in {"ready", "err"}
  THEN cmd' = command /\ st' = "bsy" /\ words' = <<>>
  ELSE UNCHANGED work

-----------------------------------------------------------------------------
(* ata_init: IDENTIFY, whether or not the drive is ready for it ... *)
Identify ==
  /\ pc = "init" /\ pc' = "probe"
  /\ reg' = LbaRegisters(0) /\ Issue("identify")
  /\ UNCHANGED <<bus, media, driver>>

(* ... status == 0: no drive.  A drive shows at least that it is there. *)
Probe ==
  /\ pc = "probe" /\ pc' = IF bus = "low" THEN "idle" ELSE "busy"
  /\ UNCHANGED <<drive, driver>>

InitReady ==
  /\ pc = "busy" /\ ~ BSY /\ pc' = IF DRQ THEN "drain" ELSE "idle"
  /\ UNCHANGED <<drive, driver>>

(* inw(ATA_PORT_DATA) takes a word out of the drive. *)
TakeWord ==
  /\ words' = IF words = <<>> THEN <<>> ELSE Tail(words)
  /\ IF Len(words) <= 1 THEN st' = "ready" /\ cmd' = "none" ELSE UNCHANGED <<st, cmd>>
  /\ UNCHANGED <<bus, media, reg>>

(* for (int i = 0; i < 256; i++) *)
Count(then) ==
  IF i + 1 < Words THEN i' = i + 1 /\ UNCHANGED pc ELSE i' = 0 /\ pc' = then

Drain ==
  /\ pc = "drain" /\ TakeWord /\ Count("idle")
  /\ UNCHANGED <<op, lba, buffer>>

-----------------------------------------------------------------------------
(* A call of ata_read_sector, whose buffer holds anything, or of           *)
(* ata_write_sector.                                                       *)
Begin(o, l, data) ==
  /\ pc = "idle" /\ pc' = "setup"
  /\ op' = o /\ lba' = l /\ buffer' = data
  /\ UNCHANGED <<drive, i>>

Setup ==
  /\ pc = "setup" /\ ~ BSY /\ pc' = "command"
  /\ reg' = LbaRegisters(lba)
  /\ UNCHANGED <<bus, media, work, driver>>

(* ATA_CMD_READ_PIO or ATA_CMD_WRITE_PIO. *)
Command ==
  /\ pc = "command" /\ pc' = "bsy"
  /\ Issue(op)
  /\ UNCHANGED <<bus, media, reg, driver>>

WaitBsy == pc = "bsy" /\ ~ BSY /\ pc' = "drq" /\ UNCHANGED <<drive, driver>>
WaitDrq == pc = "drq" /\ DRQ /\ pc' = "words" /\ UNCHANGED <<drive, driver>>

(* One word: its low byte first. *)
ReadWord ==
  /\ pc = "words" /\ op = "read"
  /\ LET w == IF words = <<>> THEN ByteMod * ByteMod - 1 ELSE Head(words)
     IN  buffer' = [buffer EXCEPT ![2 * i] = w % ByteMod, ![2 * i + 1] = w \div ByteMod]
  /\ TakeWord /\ Count("return")
  /\ UNCHANGED <<op, lba>>

WriteWord ==
  /\ pc = "words" /\ op = "write"
  /\ words' = IF cmd = "write" THEN Append(words, buffer[2 * i] + buffer[2 * i + 1] * ByteMod)
              ELSE words
  /\ st' = IF cmd = "write" /\ Len(words') = Words THEN "bsy" ELSE st
  /\ Count("flush")
  /\ UNCHANGED <<bus, media, reg, cmd, op, lba, buffer>>

(* ATA_CMD_CACHE_FLUSH, without a wait for the end of the write. *)
Flush ==
  /\ pc = "flush" /\ pc' = "flushed"
  /\ Issue("flush")
  /\ UNCHANGED <<bus, media, reg, driver>>

Forget == op' = "none" /\ lba' = 0 /\ buffer' = Blank /\ i' = 0

(* A mutant: the wait after the flush is for DRQ. *)
Mut_Return ==
  /\ pc = "return" \/ (pc = "flushed" /\ DRQ)
  /\ pc' = "idle" /\ Forget /\ UNCHANGED drive

Return ==
  /\ pc = "return" \/ (pc = "flushed" /\ ~ BSY)
  /\ pc' = "idle" /\ Forget /\ UNCHANGED drive

-----------------------------------------------------------------------------
(* The drive. *)
Address == ((reg.top * ByteMod + reg.hi) * ByteMod + reg.mid) * ByteMod + reg.lo

ToWords(s) == [w \in 1 .. Words |-> s[2 * w - 2] + s[2 * w - 1] * ByteMod]
ToBytes(w) == [b \in Offsets |-> IF b % 2 = 0 THEN w[b \div 2 + 1] % ByteMod
                                 ELSE w[b \div 2 + 1] \div ByteMod]

Idle(status)  == st' = status /\ cmd' = "none" /\ words' = <<>>
Request(data) == st' = "drq" /\ words' = data /\ UNCHANGED cmd

(* It has data to give, or room for the data it is to get.  An address     *)
(* beyond its end is an error, at once or when the data has come.          *)
DriveAnswers ==
  /\ bus = "drive" /\ st = "bsy" /\ words = <<>>
  /\ CASE cmd = "read"     -> IF Address \in OnDisk THEN Request(ToWords(media[Address]))
                              ELSE Idle("err")
       [] cmd = "identify" -> Request(ToWords(Blank))
       [] cmd = "write"    -> Request(<<>>) \/ (Address \notin OnDisk /\ Idle("err"))
       [] OTHER            -> Idle("ready")
  /\ UNCHANGED <<bus, media, reg, pc, driver>>

(* It stores a sector once all of its words have come. *)
DriveStores ==
  /\ bus = "drive" /\ st = "bsy" /\ words # <<>>
  /\ media' = [l \in OnDisk |-> IF l = Address THEN ToBytes(words) ELSE media[l]]
  /\ Idle(IF Address \in OnDisk THEN "ready" ELSE "err")
  /\ UNCHANGED <<bus, reg, pc, driver>>

Drive == DriveAnswers \/ DriveStores

(* The machine is reset; the drive forgets its command and is busy.        *)
Reset ==
  /\ pc' = "init" /\ Forget
  /\ cmd' = "none" /\ words' = <<>> /\ st' = "bsy"
  /\ UNCHANGED <<bus, media, reg>>

Driver ==
  \/ Identify \/ Probe \/ InitReady \/ Drain
  \/ Setup \/ Command \/ WaitBsy \/ WaitDrq \/ ReadWord \/ WriteWord \/ Flush \/ Return

Next ==
  \/ Driver \/ Drive \/ Reset
  \/ \E o \in {"read", "write"}, l \in Lbas, data \in Buffers : Begin(o, l, data)

(* The processor polls on, and a drive that is there does its work. *)
Spec == Init /\ [][Next]_vars /\ WF_vars(Driver) /\ WF_vars(Drive)

-----------------------------------------------------------------------------
(* A write is done when the drive has stored it, a read when its last word *)
(* has come.                                                               *)
Done == pc = "return" \/ (pc \in {"flush", "flushed"} /\ cmd # "write")

Call == [op |-> op, lba |-> lba, done |-> Done,
         data |-> IF op = "write" \/ Done THEN buffer ELSE Blank]

(* The driver's port accesses implement reads and writes of whole sectors: *)
(* the four address registers name the sector that was asked for, bytes    *)
(* and words arrive in order, a call returns only when the data is in the  *)
(* buffer or in the drive, and a reset leaves no half-written sector.      *)
(* This is the grain at which Fat16 sees the disk.                         *)
SectorDisk == INSTANCE Disk WITH sectors <- media, call <- Call
RefinesDisk == SectorDisk!Spec

(* A transfer ends, or a reset ends it, if there is a drive and it has the *)
(* sector: data that ata_init leaves behind, a command that the drive      *)
(* ignores or a flag that nobody clears never makes ata_wait_bsy or        *)
(* ata_wait_drq poll for ever.  Without a drive the first read hangs.      *)
TransferEnds ==
  (bus = "drive" /\ op # "none" /\ lba \in OnDisk) ~> (op = "none")
=============================================================================
