------------------------------- MODULE Fat16 --------------------------------
(***************************************************************************)
(* The FAT16 driver of fs/fat16.c on the disk that build/build.ps1 formats *)
(* (one sector per cluster).  The unit of atomicity is one sector written  *)
(* by ata_write_sector: a reset can fall between any two of them, and the  *)
(* image hdd.img survives it.  Reads of the disk happen in the step that   *)
(* uses them: only one thread runs the driver.                             *)
(*                                                                         *)
(* pc says what the running call does next:                                *)
(*   free  fat16_delete_file walks and frees a chain, then erases the entry *)
(*   alloc, mark, link, data, dir   the phases of fat16_write_file         *)
(*   read  fat16_read_file walks a chain                                   *)
(*   hung  ata_wait_drq polls for a DRQ that never comes                   *)
(***************************************************************************)
EXTENDS Integers, Sequences

CONSTANTS
  ALLOC_LIMIT,    \* fat_alloc_cluster scans 2 .. ALLOC_LIMIT - 1 (2048)
  LAST_CLUSTER,   \* the last cluster whose sector is on the disk (2000)
  NumFats,        \* copies of the FAT (2)
  RootEntries,    \* slots of the root directory (512)
  SectorBytes,    \* 512
  FatNames,       \* 11-byte directory names
  Names,          \* what users type
  FatNameOf,      \* to_fat_name: Names -> FatNames, not injective
  Vals,           \* identities of contents that are written
  Sizes,          \* their sizes in bytes
  BufSizes,       \* buffer sizes passed to fat16_read_file
  RawClusters,    \* clusters whose entries in the second FAT lie at LBA 10
  MaxCrashes      \* bound on resets in the middle of a call

FREE == 0
EOC  == 65535
Junk == 25928     \* two bytes of the text that `diskwrite' stores

END     == "0x00"     \* first byte of a never used directory entry
DELETED == "0xE5"     \* first byte of an erased one
NoVal   == "none"
Blank   == <<NoVal, 0>>     \* a data sector never written

Clusters == 2 .. (ALLOC_LIMIT - 1)
Slots    == 1 .. RootEntries

ASSUME Fat16Assumption ==
  /\ ALLOC_LIMIT \in Nat /\ ALLOC_LIMIT < 65528
  /\ LAST_CLUSTER \in Nat
  /\ NumFats \in Nat \ {0}
  /\ RootEntries \in Nat
  /\ SectorBytes \in Nat \ {0}
  /\ {END, DELETED} \cap FatNames = {}
  /\ FatNameOf \in [Names -> FatNames]
  /\ Sizes \subseteq Nat /\ BufSizes \subseteq Nat
  /\ RawClusters \subseteq Clusters
  /\ MaxCrashes \in Nat

VARIABLES
  fat,       \* on disk: copy -> cluster -> entry
  dir,       \* on disk: slot -> [name, first, size]
  data,      \* on disk: cluster -> contents of its sector
  pc,
  req,       \* [name, val, size]: arguments of the running write or delete
  erase,     \* the running call is fat16_delete_file, not fat16_write_file
  slot,      \* the directory entry it works on
  cl, nxt, prev, first,
  k,         \* clusters done (write) or bytes read (read)
  f,         \* FAT copy fat_write_entry is about to update
  out,       \* what fat16_read_file has copied: <<sector, bytes>> pairs
  ret,       \* "ok" or "err" once a call has returned
  torn,      \* history: a reset interrupted the freeing of a chain
  leaky,     \* history: a write failed, or a reset interrupted a call
  crashes

disk    == <<fat, dir, data>>
history == <<torn, leaky, crashes>>
locals  == <<req, erase, slot, cl, nxt, prev, first, k, f, out>>
vars    == <<disk, pc, locals, ret, history>>

-----------------------------------------------------------------------------
(* Mutants: plausible mistakes in the definitions below, each of which a   *)
(* property named in PROJECT.json must notice.                             *)
Mut_FirstSlot(s) == s \in Slots /\ \A t \in Slots : s <= t

Mut_ToCopy(got, size, buf) ==
  LET left == IF size - got > SectorBytes THEN SectorBytes ELSE size - got
  IN  IF left > buf THEN buf ELSE left

(* cluster >= 2 && cluster < 0xFFF8 *)
InChain(c) == c >= 2 /\ c < 65528

Used(s) == dir[s].name \notin {END, DELETED}

(* The scans for a name stop at the first never used entry. *)
Live(s) == Used(s) /\ \A t \in 1 .. (s - 1) : dir[t].name # END

Lookup(n) == {s \in Slots : Live(s) /\ dir[s].name = n
                            /\ \A t \in 1 .. (s - 1) : dir[t].name # n}

(* clusters_needed: an empty file has one cluster too. *)
Needed(size) ==
  IF size = 0 THEN 1 ELSE (size + SectorBytes - 1) \div SectorBytes

FreeClusters == {c \in Clusters : fat[1][c] = FREE}

(* The scan of fat_alloc_cluster: the lowest free cluster of the first FAT. *)
Allocated(c) == c \in FreeClusters /\ \A d \in FreeClusters : c <= d

FreeSlots == {s \in Slots : ~ Used(s)}

FirstSlot(s) == s \in FreeSlots /\ \A t \in FreeSlots : s <= t

NoReq == [name |-> END, val |-> NoVal, size |-> 0]

Forget ==
  /\ req' = NoReq /\ erase' = FALSE /\ slot' = 0
  /\ cl' = 0 /\ nxt' = 0 /\ prev' = 0 /\ first' = 0
  /\ k' = 0 /\ f' = 1 /\ out' = <<>>

(* The call returns and its locals are gone. *)
Return(result) == pc' = "idle" /\ ret' = result /\ Forget

(* fat_write_entry(cluster, value): the sector of FAT copy f. *)
WriteCopy(cluster, value) == fat' = [fat EXCEPT ![f][cluster] = value]

(* The next copy or, when fat_write_entry has updated them all, phase. *)
NextCopy(then) ==
  IF f < NumFats THEN f' = f + 1 /\ UNCHANGED pc ELSE f' = 1 /\ pc' = then

-----------------------------------------------------------------------------
Mut_BeginWrite(name, val, size) ==
  /\ pc = "idle"
  /\ ret' = "none"
  /\ req' = [name |-> FatNameOf[name], val |-> val, size |-> size]
  /\ pc' = "alloc"
  /\ UNCHANGED <<disk, history, erase, slot, cl, nxt, prev, first, k, f, out>>

Mut_FreeCluster ==
  /\ pc = "free" /\ InChain(cl)
  /\ WriteCopy(cl, FREE)
  /\ NextCopy("free")
  /\ cl' = IF f < NumFats THEN cl ELSE EOC
  /\ UNCHANGED <<dir, data, req, erase, slot, nxt, prev, first, k, out, ret, history>>

Mut_EraseEntry ==
  /\ pc = "free" /\ ~ InChain(cl)
  /\ IF erase
     THEN Return("ok")
     ELSE /\ pc' = "alloc" /\ slot' = 0 /\ cl' = 0 /\ nxt' = 0
          /\ UNCHANGED <<req, erase, prev, first, k, f, out, ret>>
  /\ UNCHANGED <<disk, history>>

Mut_MarkCluster ==
  /\ pc = "mark"
  /\ pc' = IF prev # 0 THEN "link" ELSE "data"
  /\ UNCHANGED <<disk, locals, ret, history>>

Mut_LinkCluster ==
  /\ pc = "link"
  /\ fat' = [fat EXCEPT ![1][prev] = cl]
  /\ pc' = "data"
  /\ UNCHANGED <<dir, data, locals, ret, history>>

Mut_WriteData ==
  /\ pc = "data"
  /\ data' = IF cl <= LAST_CLUSTER THEN [data EXCEPT ![cl] = <<req.val, k>>] ELSE data
  /\ first' = cl
  /\ prev' = cl /\ cl' = 0 /\ k' = k + 1
  /\ pc' = IF k + 1 < Needed(req.size) THEN "alloc" ELSE "dir"
  /\ UNCHANGED <<fat, dir, req, erase, slot, nxt, f, out, ret, history>>

Mut_ReadCluster ==
  /\ pc = "read" /\ InChain(cl) /\ k < dir[slot].size /\ cl <= LAST_CLUSTER
  /\ \E n \in {0, SectorBytes} :
       /\ n = IF k + SectorBytes <= req.size THEN SectorBytes ELSE 0
       /\ out' = IF n > 0 THEN Append(out, <<data[cl], n>>) ELSE out
       /\ k' = k + n
       /\ cl' = IF n > 0 THEN fat[1][cl] ELSE cl
  /\ UNCHANGED <<disk, pc, req, erase, slot, nxt, prev, first, f, ret, history>>

Init ==
  /\ fat = [i \in 1 .. NumFats |-> [c \in Clusters |-> FREE]]
  /\ dir = [s \in Slots |-> [name |-> END, first |-> 0, size |-> 0]]
  /\ data = [c \in Clusters |-> Blank]
  /\ pc = "idle" /\ ret = "none"
  /\ req = NoReq /\ erase = FALSE /\ slot = 0
  /\ cl = 0 /\ nxt = 0 /\ prev = 0 /\ first = 0 /\ k = 0 /\ f = 1 /\ out = <<>>
  /\ torn = FALSE /\ leaky = FALSE /\ crashes = 0

(* fat16_delete_file(name), up to the loop over the chain. *)
BeginDelete(name) ==
  /\ pc = "idle"
  /\ IF Lookup(FatNameOf[name]) = {}
     THEN ret' = "err" /\ UNCHANGED <<pc, locals>>
     ELSE /\ pc' = "free" /\ ret' = "none" /\ erase' = TRUE
          /\ slot' \in Lookup(FatNameOf[name])
          /\ cl' = dir[slot'].first
          /\ req' = [NoReq EXCEPT !.name = FatNameOf[name]]
          /\ UNCHANGED <<nxt, prev, first, k, f, out>>
  /\ UNCHANGED <<disk, history>>

(* fat16_write_file(name, data, size) first calls fat16_delete_file. *)
BeginWrite(name, val, size) ==
  /\ pc = "idle"
  /\ ret' = "none"
  /\ req' = [name |-> FatNameOf[name], val |-> val, size |-> size]
  /\ IF Lookup(FatNameOf[name]) = {}
     THEN pc' = "alloc" /\ UNCHANGED <<slot, cl>>
     ELSE /\ pc' = "free"
          /\ slot' \in Lookup(FatNameOf[name])
          /\ cl' = dir[slot'].first
  /\ UNCHANGED <<disk, history, erase, nxt, prev, first, k, f, out>>

(* fat_read_entry, then fat_write_entry(cluster, 0) copy by copy. *)
FreeCluster ==
  /\ pc = "free" /\ InChain(cl)
  /\ nxt' = IF f = 1 THEN fat[1][cl] ELSE nxt
  /\ WriteCopy(cl, FREE)
  /\ NextCopy("free")
  /\ cl' = IF f < NumFats THEN cl ELSE nxt'
  /\ UNCHANGED <<dir, data, req, erase, slot, prev, first, k, out, ret, history>>

(* The chain is free: mark the directory entry as deleted. *)
EraseEntry ==
  /\ pc = "free" /\ ~ InChain(cl)
  /\ dir' = [dir EXCEPT ![slot].name = DELETED]
  /\ IF erase
     THEN Return("ok")
     ELSE /\ pc' = "alloc" /\ slot' = 0 /\ cl' = 0 /\ nxt' = 0
          /\ UNCHANGED <<req, erase, prev, first, k, f, out, ret>>
  /\ UNCHANGED <<fat, data, history>>

(* fat_alloc_cluster found a cluster. *)
AllocCluster ==
  /\ pc = "alloc"
  /\ \E c \in Clusters : Allocated(c) /\ cl' = c
  /\ pc' = "mark"
  /\ UNCHANGED <<disk, req, erase, slot, nxt, prev, first, k, f, out, ret, history>>

(* "Disk full!": the clusters taken so far stay marked in the FAT. *)
DiskFull ==
  /\ pc = "alloc" /\ FreeClusters = {}
  /\ leaky' = (leaky \/ k > 0)
  /\ Return("err")
  /\ UNCHANGED <<disk, torn, crashes>>

(* fat_write_entry(cluster, 0xFFFF), one copy. *)
MarkCluster ==
  /\ pc = "mark"
  /\ WriteCopy(cl, EOC)
  /\ NextCopy(IF prev # 0 THEN "link" ELSE "data")
  /\ UNCHANGED <<dir, data, req, erase, slot, cl, nxt, prev, first, k, out, ret, history>>

(* fat_write_entry(prev_cluster, cluster), one copy. *)
LinkCluster ==
  /\ pc = "link"
  /\ WriteCopy(prev, cl)
  /\ NextCopy("data")
  /\ UNCHANGED <<dir, data, req, erase, slot, cl, nxt, prev, first, k, out, ret, history>>

(* External: a drive transfers a sector it has.  It refuses one past its   *)
(* end, before the transfer (DRQ never rises) or after it.                 *)
OnDisk(c) == c <= LAST_CLUSTER

(* The cluster's sector is written (or was refused, which the driver does  *)
(* not notice) and the loop goes on to the next cluster.                   *)
WriteData ==
  /\ pc = "data"
  /\ data' = IF OnDisk(cl) THEN [data EXCEPT ![cl] = <<req.val, k>>] ELSE data
  /\ first' = IF k = 0 THEN cl ELSE first
  /\ prev' = cl /\ cl' = 0 /\ k' = k + 1
  /\ pc' = IF k + 1 < Needed(req.size) THEN "alloc" ELSE "dir"
  /\ UNCHANGED <<fat, dir, req, erase, slot, nxt, f, out, ret, history>>

(* The drive signals an error instead of DRQ; ata_wait_drq polls forever.  *)
Hang ==
  /\ pc \in {"data", "read"} /\ InChain(cl) /\ ~ OnDisk(cl)
  /\ pc = "read" => k < dir[slot].size
  /\ pc' = "hung"
  /\ UNCHANGED <<disk, locals, ret, history>>

(* The first unused or deleted directory entry receives the file. *)
WriteEntry ==
  /\ pc = "dir"
  /\ \E s \in Slots :
       /\ FirstSlot(s)
       /\ dir' = [dir EXCEPT ![s] =
                    [name |-> req.name, first |-> first, size |-> req.size]]
  /\ Return("ok")
  /\ UNCHANGED <<fat, data, history>>

(* "Root directory full!": the file's clusters stay marked in the FAT. *)
RootFull ==
  /\ pc = "dir" /\ FreeSlots = {}
  /\ leaky' = TRUE
  /\ Return("err")
  /\ UNCHANGED <<disk, torn, crashes>>

(* fat16_read_file(name, buffer, buf_size); req.size holds buf_size. *)
BeginRead(name, buf) ==
  /\ pc = "idle"
  /\ IF Lookup(FatNameOf[name]) = {}
     THEN ret' = "err" /\ UNCHANGED <<pc, locals>>
     ELSE /\ pc' = "read" /\ ret' = "none"
          /\ slot' \in Lookup(FatNameOf[name])
          /\ cl' = dir[slot'].first
          /\ req' = [NoReq EXCEPT !.name = FatNameOf[name], !.size = buf]
          /\ UNCHANGED <<erase, nxt, prev, first, k, f, out>>
  /\ UNCHANGED <<disk, history>>

(* to_copy: what is left of the file, of the sector and of the buffer. *)
ToCopy(got, size, buf) ==
  LET left == IF size - got > SectorBytes THEN SectorBytes ELSE size - got
  IN  IF got + left > buf THEN buf - got ELSE left

ReadCluster ==
  /\ pc = "read" /\ InChain(cl) /\ k < dir[slot].size /\ OnDisk(cl)
  /\ LET n == ToCopy(k, dir[slot].size, req.size)
     IN  /\ out' = IF n > 0 THEN Append(out, <<data[cl], n>>) ELSE out
         /\ k' = k + n
  /\ cl' = fat[1][cl]
  /\ UNCHANGED <<disk, pc, req, erase, slot, nxt, prev, first, f, ret, history>>

ReadDone ==
  /\ pc = "read" /\ ~ (InChain(cl) /\ k < dir[slot].size)
  /\ Return("ok")
  /\ UNCHANGED <<disk, history>>

(* The shell's `diskwrite' overwrites LBA 10, a sector of the second FAT. *)
DiskWrite ==
  /\ pc = "idle" /\ NumFats >= 2
  /\ fat' = [fat EXCEPT ![2] = [c \in Clusters |->
               IF c \in RawClusters THEN Junk ELSE fat[2][c]]]
  /\ UNCHANGED <<dir, data, pc, locals, ret, history>>

(* A reset in the middle of a call: RAM is lost, the image is not.         *)
(* Neither the driver nor diskwrite (LBA 10) ever writes the boot sector,  *)
(* so that it passes fat16_init's check of the sector size as before and   *)
(* the layout is the same again.                                           *)
Crash ==
  /\ pc # "idle" /\ crashes < MaxCrashes
  /\ crashes' = crashes + 1
  /\ torn' = (torn \/ (pc = "free" /\ fat[1][dir[slot].first] = FREE))
  /\ leaky' = (leaky \/ pc # "read")
  /\ Return("none")
  /\ UNCHANGED disk

Step ==
  \/ FreeCluster \/ EraseEntry
  \/ AllocCluster \/ DiskFull \/ MarkCluster \/ LinkCluster \/ WriteData
  \/ WriteEntry \/ RootFull
  \/ ReadCluster \/ ReadDone
  \/ Hang

Next ==
  \/ \E name \in Names : BeginDelete(name)
  \/ \E name \in Names, val \in Vals, size \in Sizes : BeginWrite(name, val, size)
  \/ \E name \in Names, buf \in BufSizes : BeginRead(name, buf)
  \/ Step
  \/ DiskWrite
  \/ Crash

Spec == Init /\ [][Next]_vars

(* The driver never waits for anything but the drive. *)
FairSpec == Spec /\ WF_vars(Step)

-----------------------------------------------------------------------------
Entry == {FREE, EOC} \cup Clusters

(* Type invariant. *)
TypeOK ==
  /\ fat \in [1 .. NumFats -> [Clusters -> Entry \cup {Junk}]]
  /\ fat[1] \in [Clusters -> Entry]
  /\ dir \in [Slots -> [name : FatNames \cup {END, DELETED},
                        first : Clusters \cup {0},
                        size : Nat]]
  /\ data \in [Clusters -> (Vals \cup {NoVal}) \X Nat]
  /\ pc \in {"idle", "free", "alloc", "mark", "link", "data", "dir", "read", "hung"}
  /\ req \in [name : FatNames \cup {END}, val : Vals \cup {NoVal}, size : Nat]
  /\ erase \in BOOLEAN /\ slot \in Slots \cup {0}
  /\ cl \in Entry /\ nxt \in Entry
  /\ prev \in Clusters \cup {0} /\ first \in Clusters \cup {0}
  /\ k \in Nat /\ f \in 1 .. NumFats
  /\ ret \in {"none", "ok", "err"}
  /\ torn \in BOOLEAN /\ leaky \in BOOLEAN /\ crashes \in 0 .. MaxCrashes

(* The chains of the FAT contain no cycle: every non-empty set of clusters *)
(* has a member whose entry leads out of it.  The loops of fat16_read_file *)
(* and fat16_delete_file, which follow entries until one is not a cluster, *)
(* terminate because of this, whatever resets have happened before.        *)
FatAcyclic ==
  \A S \in SUBSET Clusters : S # {} => \E c \in S : fat[1][c] \notin S

(* The entry of a file whose chain has not been (partly) freed. *)
Intact(s) == Used(s) /\ fat[1][dir[s].first] # FREE

(* No cluster belongs to two files, or twice to one, and no file runs into *)
(* free clusters: heads are distinct, no entry leads to a head, no two     *)
(* entries lead to the same cluster, and none leads to a free cluster.     *)
(* Only a reset in the middle of fat16_delete_file can break this, since   *)
(* it frees the chain before the directory entry that still refers to it.  *)
NoSharing ==
  ~ torn =>
    /\ \A s, t \in Slots :
         Intact(s) /\ Intact(t) /\ s # t => dir[s].first # dir[t].first
    /\ \A s \in Slots, c \in Clusters : Intact(s) => fat[1][c] # dir[s].first
    /\ \A c, d \in Clusters :
         fat[1][c] \in Clusters /\ fat[1][c] = fat[1][d] => c = d
    /\ \A c \in Clusters :
         fat[1][c] \in Clusters => fat[1][fat[1][c]] # FREE
    /\ \A s \in Slots : Used(s) /\ ~ Intact(s) => pc = "free" /\ s = slot

(* Between calls every cluster marked in the FAT belongs to some file,     *)
(* unless a write failed for lack of room or a reset cut a call short:     *)
(* those, and nothing else, lose clusters for good.                        *)
NoLeak ==
  pc = "idle" /\ ~ leaky =>
    \A c \in Clusters : fat[1][c] # FREE =>
      \/ \E s \in Slots : Used(s) /\ dir[s].first = c
      \/ \E d \in Clusters : fat[1][d] = c

(* Every file is found by the scans, which stop at the first never used    *)
(* entry, and no two entries have the same name: a write reuses or appends *)
(* an entry without opening a gap, after deleting the old one.             *)
DirectorySound ==
  /\ \A s \in Slots : Used(s) => Live(s)
  /\ \A s, t \in Slots : Used(s) /\ dir[s].name = dir[t].name => s = t

(* fat_write_entry keeps the FAT copies equal: they differ in the entry it *)
(* is writing, in entries that `diskwrite' has overwritten since, and,     *)
(* after a reset in the middle of fat_write_entry, in the entry it was     *)
(* writing then.                                                           *)
InStep(c) ==
  \/ \A i \in 1 .. NumFats : fat[i][c] = fat[1][c]
  \/ f > 1 /\ c = (IF pc = "link" THEN prev ELSE cl)

MirrorKept ==
  crashes = 0 =>
    \A c \in Clusters : InStep(c) \/ \E i \in 2 .. NumFats : fat[i][c] = Junk

-----------------------------------------------------------------------------
(* What a walk from cluster c finds in n sectors. *)
SectorsFrom(c, n) ==
  LET at[i \in 0 .. (n - 1)] ==
        IF i = 0 THEN c
        ELSE IF at[i - 1] \in Clusters THEN fat[1][at[i - 1]] ELSE at[i - 1]
  IN  [i \in 0 .. (n - 1) |-> IF at[i] \in Clusters THEN data[at[i]] ELSE Blank]

Contents(val, size) ==
  [size |-> size, sectors |-> [i \in 0 .. (Needed(size) - 1) |-> <<val, i>>]]

Absent == [size |-> 0, sectors |-> <<>>]

(* The files a reader of the disk would find. *)
Visible(n) ==
  LET S == {s \in Lookup(n) : Intact(s)}
      s == CHOOSE s \in S : TRUE
  IN  IF S = {} THEN Absent
      ELSE [size    |-> dir[s].size,
            sectors |-> SectorsFrom(dir[s].first, Needed(dir[s].size))]

(* The driver implements FileStore: each sector it writes changes the file *)
(* of at most one name, from present to absent or from absent to exactly   *)
(* the contents of some write; a reset during a write harms no file.       *)
Store == INSTANCE FileStore
           WITH FatNames <- FatNames,
                Files  <- {Contents(v, z) : v \in Vals, z \in Sizes},
                Absent <- Absent,
                files  <- [n \in FatNames |-> Visible(n)],
                broken <- torn
RefinesFileStore == Store!Spec

(* A write that returns 0 has stored the contents it was given: the walk   *)
(* from the new directory entry finds them all.                            *)
WriteStores ==
  [][ pc = "dir" /\ ret' = "ok" /\ ~ torn =>
        \A n \in {req.name} : Visible(n)' = Contents(req.val, req.size) ]_vars

(* What fat16_read_file returns is the file, up to the buffer's size: its  *)
(* sectors in order, each cut to what is left of the file and the buffer.  *)
ReadReturnsFile ==
  [][ pc = "read" /\ ret' = "ok" /\ ~ torn =>
        LET file == Visible(req.name)
            want == IF file.size < req.size THEN file.size ELSE req.size
        IN  /\ k = want
            /\ Len(out) = (want + SectorBytes - 1) \div SectorBytes
            /\ \A i \in 1 .. Len(out) :
                 /\ out[i][1] = file.sectors[i - 1]
                 /\ out[i][2] = IF i * SectorBytes <= want THEN SectorBytes
                                ELSE want % SectorBytes ]_vars

(* Every call of the driver returns, unless it waits for a sector past the *)
(* end of the disk: the walks along chains end, also along chains that a   *)
(* reset has cut or that have come to run into another file's.             *)
CallsEnd == (pc # "idle") ~> (pc = "idle" \/ (pc = "hung" /\ ~ OnDisk(cl)))

-----------------------------------------------------------------------------
(* What the locals of the running call know about the FAT and their types. *)
LocalsInv ==
  /\ \A s \in Slots : Used(s) => dir[s].first \in Clusters
  /\ pc = "free" /\ f > 1 => cl \in Clusters /\ fat[1][cl] = FREE
  /\ pc \in {"free", "read"} => slot \in Slots /\ Used(slot)
  /\ pc = "read" => k <= req.size
  /\ pc \in {"idle", "free", "read"} => prev = 0 /\ first = 0
  /\ pc \in {"idle", "free"} => k = 0
  /\ pc \in {"idle", "alloc", "data", "dir", "read"} => f = 1
  /\ pc \in {"alloc", "mark", "link", "data", "dir"} =>
       /\ (k = 0) <=> (prev = 0)
       /\ (k = 0) <=> (first = 0)
  /\ pc = "dir" => k # 0
  /\ pc \in {"mark", "link", "data"} => cl \in Clusters /\ cl # prev
  /\ pc = "link" => prev # 0
  /\ pc = "mark" => fat[1][cl] = IF f = 1 THEN FREE ELSE EOC
  /\ pc \in {"link", "data"} => fat[1][cl] = EOC
  /\ pc \in {"alloc", "mark"} /\ prev # 0 => fat[1][prev] = EOC
  /\ pc = "link" /\ f = 1 => fat[1][prev] = EOC

(* Some entry of the directory or of the FAT leads to cluster x. *)
Referenced(x) ==
  \/ \E s \in Slots : Intact(s) /\ dir[s].first = x
  \/ \E c \in Clusters : fat[1][c] = x

(* x is the first cluster of a chain that only a local variable refers to. *)
Detached(x) == fat[1][x] # FREE /\ ~ Referenced(x)

(* The chains the running call has in hand, which no file shares: what is  *)
(* left to free, and what a write has built so far.                        *)
InHand ==
  ~ torn =>
    /\ pc = "free" =>
         \/ f = 1 /\ cl = dir[slot].first /\ Intact(slot)
         \/ /\ ~ Intact(slot)
            /\ LET rest == IF f = 1 THEN cl ELSE nxt
               IN  rest \in Clusters => Detached(rest)
    /\ pc \in {"alloc", "mark", "link", "data", "dir"} /\ first # 0 => Detached(first)
    /\ \/ pc = "mark" /\ f > 1
       \/ pc = "link" /\ f = 1
       \/ pc = "data" /\ k = 0
       => Detached(cl)
    /\ pc \in {"mark", "link", "data"} /\ k # 0 => cl # first

(* The inductive invariant. *)
FatInv == TypeOK /\ LocalsInv /\ FatAcyclic /\ NoSharing /\ InHand
=============================================================================
