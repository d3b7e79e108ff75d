---------------------------- MODULE Fat16Proofs -----------------------------
(***************************************************************************)
(* Proofs about Fat16, for every disk geometry, directory size, number of  *)
(* FAT copies and number of resets.                                        *)
(***************************************************************************)
EXTENDS Fat16, WellFoundedInduction, TLAPS

(* The numbers that are not clusters, and the test the loops use. *)
LEMMA EntryFacts ==
  /\ FREE \in Entry /\ EOC \in Entry /\ FREE # EOC
  /\ FREE \notin Clusters /\ EOC \notin Clusters /\ 0 \notin Clusters
  /\ FREE = 0
  /\ Clusters \subseteq Entry /\ Entry \subseteq Nat
  /\ \A x \in Entry : InChain(x) <=> x \in Clusters
BY Fat16Assumption DEF Entry, FREE, EOC, Clusters, InChain

(* fat_write_entry on one copy changes one entry of that copy. *)
LEMMA FatEdit ==
  ASSUME TypeOK, NEW x, NEW v \in Entry, WriteCopy(x, v)
  PROVE  /\ fat' \in [1 .. NumFats -> [Clusters -> Entry \cup {Junk}]]
         /\ fat'[1] \in [Clusters -> Entry]
         /\ \A c \in Clusters :
              fat'[1][c] = IF f = 1 /\ c = x THEN v ELSE fat[1][c]
<1>1. /\ fat \in [1 .. NumFats -> [Clusters -> Entry \cup {Junk}]]
      /\ fat[1] \in [Clusters -> Entry]
      /\ 1 \in 1 .. NumFats /\ f \in 1 .. NumFats
      /\ fat' = [fat EXCEPT ![f][x] = v]
  BY Fat16Assumption DEF TypeOK, WriteCopy
<1>2. fat' \in [1 .. NumFats -> [Clusters -> Entry \cup {Junk}]]
  BY <1>1
<1>3. CASE f = 1
  <2>1. fat'[1] = [fat[1] EXCEPT ![x] = v]
    BY <1>1, <1>3
  <2>2. QED
    BY <1>1, <1>2, <1>3, <2>1
<1>4. CASE f # 1
  <2>1. fat'[1] = fat[1]
    BY <1>1, <1>4
  <2>2. QED
    BY <1>1, <1>2, <1>4, <2>1
<1>5. QED
  BY <1>3, <1>4

(* Entries of the FAT are entries, whatever is looked up. *)
LEMMA FatRead ==
  ASSUME TypeOK, NEW c \in Clusters
  PROVE  fat[1][c] \in Entry
BY DEF TypeOK

-----------------------------------------------------------------------------
(* Types, and what the locals know.  One lemma per kind of step. *)
LEMMA InitTypes == Init => TypeOK /\ LocalsInv
<1> SUFFICES ASSUME Init PROVE TypeOK /\ LocalsInv
  OBVIOUS
<1>0. /\ erase \in BOOLEAN /\ torn \in BOOLEAN /\ leaky \in BOOLEAN
      /\ ret \in {"none", "ok", "err"} /\ pc = "idle"
  BY Zenon DEF Init
<1> USE Fat16Assumption, EntryFacts
<1>1. fat \in [1 .. NumFats -> [Clusters -> Entry \cup {Junk}]] /\ fat[1] \in [Clusters -> Entry]
  BY DEF Init
<1>2. dir \in [Slots -> [name : FatNames \cup {END, DELETED}, first : Clusters \cup {0}, size : Nat]]
  BY DEF Init
<1>3. data \in [Clusters -> (Vals \cup {NoVal}) \X Nat]
  BY DEF Init, Blank
<1>4. req \in [name : FatNames \cup {END}, val : Vals \cup {NoVal}, size : Nat]
  BY DEF Init, NoReq
<1>5. TypeOK
  <2>2. /\ slot \in Slots \cup {0} /\ cl \in Entry /\ nxt \in Entry
        /\ prev \in Clusters \cup {0} /\ first \in Clusters \cup {0}
        /\ k \in Nat /\ f \in 1 .. NumFats /\ crashes \in 0 .. MaxCrashes
    BY DEF Init
  <2>3. QED
    BY <1>0, <1>1, <1>2, <1>3, <1>4, <2>2 DEF TypeOK
<1>6. \A s \in Slots : ~ Used(s)
  BY DEF Init, Used
<1>7. LocalsInv
  BY <1>6 DEF Init, LocalsInv
<1>8. QED
  BY <1>5, <1>7

(* The forgetting of locals when a call returns or a reset ends it. *)
LEMMA ReturnTypes ==
  ASSUME TypeOK, LocalsInv, NEW r \in {"none", "ok", "err"}, Return(r)
  PROVE  /\ pc' = "idle" /\ ret' = r
         /\ req' \in [name : FatNames \cup {END}, val : Vals \cup {NoVal}, size : Nat]
         /\ erase' \in BOOLEAN /\ slot' \in Slots \cup {0}
         /\ cl' \in Entry /\ nxt' \in Entry
         /\ k' = 0 /\ f' = 1 /\ f' \in 1 .. NumFats /\ prev' = 0 /\ first' = 0
<1>1. req' = [name |-> END, val |-> NoVal, size |-> 0]
  BY DEF Return, Forget, NoReq
<1>2. req' \in [name : FatNames \cup {END}, val : Vals \cup {NoVal}, size : Nat]
  BY <1>1
<1>3. erase' \in BOOLEAN /\ pc' = "idle" /\ ret' = r /\ slot' = 0 /\ prev' = 0 /\ first' = 0
      /\ k' = 0 /\ f' = 1 /\ cl' = 0 /\ nxt' = 0
  BY Zenon DEF Return, Forget
<1>4. f' \in 1 .. NumFats /\ cl' \in Entry /\ nxt' \in Entry
  BY <1>3, Fat16Assumption, EntryFacts
<1>5. QED
  BY <1>2, <1>3, <1>4

LEMMA LookupFacts ==
  ASSUME TypeOK, LocalsInv, NEW n \in FatNames, NEW s \in Lookup(n)
  PROVE  /\ s \in Slots /\ Used(s) /\ dir[s].name = n
         /\ dir[s].first \in Clusters /\ dir[s].size \in Nat
BY DEF Lookup, Live, LocalsInv, TypeOK

LEMMA BeginDeleteTypes ==
  ASSUME TypeOK, LocalsInv, NEW name \in Names, BeginDelete(name)
  PROVE  TypeOK' /\ LocalsInv'
<1> DEFINE n == FatNameOf[name]
<1>0. n \in FatNames
  BY Fat16Assumption
<1>1. pc = "idle" /\ fat' = fat /\ dir' = dir /\ data' = data
      /\ torn' = torn /\ leaky' = leaky /\ crashes' = crashes
  BY DEF BeginDelete, disk, history
<1>2. CASE Lookup(n) = {}
  <2>1. ret' = "err" /\ pc' = pc /\ UNCHANGED locals
    BY <1>2 DEF BeginDelete
  <2>2. QED
    BY <1>1, <2>1 DEF TypeOK, LocalsInv, locals, Used
<1>3. CASE Lookup(n) # {}
  <2>1. /\ pc' = "free" /\ ret' = "none" /\ erase' = TRUE /\ slot' \in Lookup(n)
        /\ cl' = dir[slot'].first /\ req' = [NoReq EXCEPT !.name = n]
        /\ nxt' = nxt /\ prev' = prev /\ first' = first /\ k' = k /\ f' = f
    BY <1>3 DEF BeginDelete
  <2>2. slot' \in Slots /\ Used(slot') /\ dir[slot'].first \in Clusters
    BY <1>0, <2>1, LookupFacts
  <2>3. req' \in [name : FatNames \cup {END}, val : Vals \cup {NoVal}, size : Nat]
    BY <1>0, <2>1 DEF NoReq
  <2>4. TypeOK'
    BY <1>1, <2>1, <2>2, <2>3, EntryFacts DEF TypeOK
  <2>5. LocalsInv'
    BY <1>1, <2>1, <2>2 DEF LocalsInv, Used
  <2>6. QED
    BY <2>4, <2>5
<1>4. QED
  BY <1>2, <1>3

LEMMA BeginReadTypes ==
  ASSUME TypeOK, LocalsInv, NEW name \in Names, NEW buf \in BufSizes, BeginRead(name, buf)
  PROVE  TypeOK' /\ LocalsInv'
<1> DEFINE n == FatNameOf[name]
<1>0. n \in FatNames /\ buf \in Nat
  BY Fat16Assumption
<1>1. pc = "idle" /\ fat' = fat /\ dir' = dir /\ data' = data
      /\ torn' = torn /\ leaky' = leaky /\ crashes' = crashes
  BY DEF BeginRead, disk, history
<1>2. CASE Lookup(n) = {}
  <2>1. ret' = "err" /\ pc' = pc /\ UNCHANGED locals
    BY <1>2 DEF BeginRead
  <2>2. QED
    BY <1>1, <2>1 DEF TypeOK, LocalsInv, locals, Used
<1>3. CASE Lookup(n) # {}
  <2>1. /\ pc' = "read" /\ ret' = "none" /\ slot' \in Lookup(n)
        /\ cl' = dir[slot'].first /\ req' = [NoReq EXCEPT !.name = n, !.size = buf]
        /\ erase' = erase /\ nxt' = nxt /\ prev' = prev /\ first' = first /\ k' = k /\ f' = f
    BY <1>3 DEF BeginRead
  <2>2. slot' \in Slots /\ Used(slot') /\ dir[slot'].first \in Clusters
    BY <1>0, <2>1, LookupFacts
  <2>3. req' = [name |-> n, val |-> NoVal, size |-> buf]
    BY <2>1 DEF NoReq
  <2>4. TypeOK'
    <3>1. req' \in [name : FatNames \cup {END}, val : Vals \cup {NoVal}, size : Nat]
      BY <1>0, <2>3
    <3>2. QED
      BY <1>1, <2>1, <2>2, <3>1, EntryFacts DEF TypeOK
  <2>5. LocalsInv'
    BY <1>0, <1>1, <2>1, <2>2, <2>3 DEF LocalsInv, Used
  <2>6. QED
    BY <2>4, <2>5
<1>4. QED
  BY <1>2, <1>3

LEMMA BeginWriteTypes ==
  ASSUME TypeOK, LocalsInv, NEW name \in Names, NEW val \in Vals, NEW size \in Sizes,
         BeginWrite(name, val, size)
  PROVE  TypeOK' /\ LocalsInv'
<1> DEFINE n == FatNameOf[name]
<1>0. n \in FatNames /\ size \in Nat
  BY Fat16Assumption
<1>1. /\ pc = "idle" /\ fat' = fat /\ dir' = dir /\ data' = data
      /\ torn' = torn /\ leaky' = leaky /\ crashes' = crashes
      /\ ret' = "none" /\ req' = [name |-> n, val |-> val, size |-> size]
      /\ erase' = erase /\ nxt' = nxt /\ prev' = prev /\ first' = first /\ k' = k /\ f' = f
  BY DEF BeginWrite, disk, history
<1>2. CASE Lookup(n) = {}
  <2>1. pc' = "alloc" /\ slot' = slot /\ cl' = cl
    BY <1>2 DEF BeginWrite
  <2>2. TypeOK'
    BY <1>0, <1>1, <2>1 DEF TypeOK
  <2>3. LocalsInv'
    BY <1>1, <2>1 DEF LocalsInv, Used
  <2>4. QED
    BY <2>2, <2>3
<1>3. CASE Lookup(n) # {}
  <2>1. pc' = "free" /\ slot' \in Lookup(n) /\ cl' = dir[slot'].first
    BY <1>3 DEF BeginWrite
  <2>2. slot' \in Slots /\ Used(slot') /\ dir[slot'].first \in Clusters
    BY <1>0, <2>1, LookupFacts
  <2>3. TypeOK'
    BY <1>0, <1>1, <2>1, <2>2, EntryFacts DEF TypeOK
  <2>4. LocalsInv'
    BY <1>1, <2>1, <2>2 DEF LocalsInv, Used
  <2>5. QED
    BY <2>3, <2>4
<1>4. QED
  BY <1>2, <1>3

(* After fat_write_entry has updated copy f, the next copy or the next phase. *)
LEMMA NextCopyTypes ==
  ASSUME TypeOK, NEW then, NextCopy(then)
  PROVE  /\ f' \in 1 .. NumFats
         /\ \/ f < NumFats /\ f' = f + 1 /\ f' > 1 /\ pc' = pc
            \/ f = NumFats /\ f' = 1 /\ pc' = then
BY Fat16Assumption DEF NextCopy, TypeOK

LEMMA FreeClusterTypes ==
  ASSUME TypeOK, LocalsInv, FreeCluster
  PROVE  /\ TypeOK' /\ LocalsInv' /\ cl \in Clusters /\ pc' = "free"
         /\ \A c \in Clusters :
              fat'[1][c] = IF f = 1 /\ c = cl THEN FREE ELSE fat[1][c]
<1>1. /\ pc = "free" /\ InChain(cl) /\ nxt' = IF f = 1 THEN fat[1][cl] ELSE nxt
      /\ WriteCopy(cl, FREE) /\ NextCopy("free")
      /\ cl' = IF f < NumFats THEN cl ELSE nxt'
      /\ dir' = dir /\ data' = data /\ req' = req /\ erase' = erase /\ slot' = slot
      /\ prev' = prev /\ first' = first /\ k' = k /\ ret' = ret
      /\ torn' = torn /\ leaky' = leaky /\ crashes' = crashes
  BY DEF FreeCluster, history
<1>2. cl \in Clusters
  BY <1>1, EntryFacts DEF TypeOK
<1>3. f \in 1 .. NumFats /\ FREE \in Entry
  BY EntryFacts DEF TypeOK
<1>4. /\ fat' \in [1 .. NumFats -> [Clusters -> Entry \cup {Junk}]]
      /\ fat'[1] \in [Clusters -> Entry]
      /\ \A c \in Clusters : fat'[1][c] = IF f = 1 /\ c = cl THEN FREE ELSE fat[1][c]
  BY <1>1, <1>3, FatEdit
<1>5. pc' = "free" /\ f' \in 1 .. NumFats
  BY <1>1, NextCopyTypes
<1>6. nxt' \in Entry /\ cl' \in Entry
  BY <1>1, <1>2, FatRead DEF TypeOK
<1>7. TypeOK'
  BY <1>1, <1>4, <1>5, <1>6 DEF TypeOK
<1>8. f' > 1 => cl' \in Clusters /\ fat'[1][cl'] = FREE
  <2>1. SUFFICES ASSUME f' > 1 PROVE cl' \in Clusters /\ fat'[1][cl'] = FREE
    OBVIOUS
  <2>2. f < NumFats /\ cl' = cl
    BY <1>1, <2>1, NextCopyTypes
  <2>3. f # 1 => fat[1][cl] = FREE
    BY <1>1, <1>3 DEF LocalsInv
  <2>4. QED
    BY <1>2, <1>4, <2>2, <2>3
<1>9. LocalsInv'
  BY <1>1, <1>5, <1>8 DEF LocalsInv, Used
<1>10. QED
  BY <1>2, <1>4, <1>5, <1>7, <1>9

LEMMA EraseEntryTypes ==
  ASSUME TypeOK, LocalsInv, EraseEntry
  PROVE  TypeOK' /\ LocalsInv'
<1>1. /\ pc = "free" /\ dir' = [dir EXCEPT ![slot].name = DELETED]
      /\ fat' = fat /\ data' = data
      /\ torn' = torn /\ leaky' = leaky /\ crashes' = crashes
  BY DEF EraseEntry, history
<1>2. slot \in Slots
  BY <1>1 DEF LocalsInv
<1>3. /\ dir' \in [Slots -> [name : FatNames \cup {END, DELETED},
                             first : Clusters \cup {0}, size : Nat]]
      /\ \A s \in Slots : s # slot => dir'[s] = dir[s]
      /\ dir'[slot].name = DELETED
  BY <1>1, <1>2 DEF TypeOK
<1>4. \A s \in Slots : Used(s)' => Used(s) /\ dir'[s] = dir[s]
  BY <1>2, <1>3 DEF Used
<1>5. CASE erase
  <2>1. Return("ok")
    BY <1>5 DEF EraseEntry
  <2>2. TypeOK'
    BY <1>1, <1>3, <2>1, ReturnTypes DEF TypeOK
  <2>3. LocalsInv'
    BY <1>4, <2>1, ReturnTypes DEF LocalsInv
  <2>4. QED
    BY <2>2, <2>3
<1>6. CASE ~ erase
  <2>1. /\ pc' = "alloc" /\ slot' = 0 /\ cl' = 0 /\ nxt' = 0
        /\ req' = req /\ erase' = erase /\ prev' = prev /\ first' = first
        /\ k' = k /\ f' = f /\ ret' = ret
    BY <1>6 DEF EraseEntry
  <2>2. TypeOK'
    BY <1>1, <1>3, <2>1, EntryFacts DEF TypeOK
  <2>3. f = 1
    BY <1>1, EntryFacts DEF EraseEntry, LocalsInv, TypeOK
  <2>4. LocalsInv'
    BY <1>1, <1>4, <2>1, <2>3 DEF LocalsInv
  <2>5. QED
    BY <2>2, <2>4
<1>7. QED
  BY <1>5, <1>6

LEMMA AllocClusterTypes ==
  ASSUME TypeOK, LocalsInv, AllocCluster
  PROVE  TypeOK' /\ LocalsInv'
<1>1. /\ pc = "alloc" /\ pc' = "mark"
      /\ fat' = fat /\ dir' = dir /\ data' = data
      /\ req' = req /\ erase' = erase /\ slot' = slot /\ nxt' = nxt /\ prev' = prev
      /\ first' = first /\ k' = k /\ f' = f /\ ret' = ret
      /\ torn' = torn /\ leaky' = leaky /\ crashes' = crashes
      /\ cl' \in Clusters /\ fat[1][cl'] = FREE
  BY DEF AllocCluster, disk, history, Allocated, FreeClusters
<1>2. TypeOK'
  BY <1>1, EntryFacts DEF TypeOK
<1>3. cl' # prev'
  BY <1>1, EntryFacts DEF LocalsInv
<1>4. LocalsInv'
  BY <1>1, <1>3 DEF LocalsInv, Used
<1>5. QED
  BY <1>2, <1>4

LEMMA MarkClusterTypes ==
  ASSUME TypeOK, LocalsInv, MarkCluster
  PROVE  /\ TypeOK' /\ LocalsInv'
         /\ \A c \in Clusters :
              fat'[1][c] = IF f = 1 /\ c = cl THEN EOC ELSE fat[1][c]
<1>1. /\ pc = "mark" /\ WriteCopy(cl, EOC)
      /\ NextCopy(IF prev # 0 THEN "link" ELSE "data")
      /\ dir' = dir /\ data' = data /\ req' = req /\ erase' = erase /\ slot' = slot
      /\ cl' = cl /\ nxt' = nxt /\ prev' = prev /\ first' = first /\ k' = k /\ ret' = ret
      /\ torn' = torn /\ leaky' = leaky /\ crashes' = crashes
  BY DEF MarkCluster, history
<1>2. cl \in Clusters /\ EOC \in Entry /\ f \in 1 .. NumFats /\ cl # prev
  BY <1>1, EntryFacts DEF LocalsInv, TypeOK
<1>3. /\ fat' \in [1 .. NumFats -> [Clusters -> Entry \cup {Junk}]]
      /\ fat'[1] \in [Clusters -> Entry]
      /\ \A c \in Clusters : fat'[1][c] = IF f = 1 /\ c = cl THEN EOC ELSE fat[1][c]
  BY <1>1, <1>2, FatEdit
<1>4. /\ f' \in 1 .. NumFats
      /\ \/ f' > 1 /\ pc' = "mark"
         \/ f' = 1 /\ pc' = "link" /\ prev # 0
         \/ f' = 1 /\ pc' = "data" /\ prev = 0
  BY <1>1, NextCopyTypes
<1>5. TypeOK'
  BY <1>1, <1>3, <1>4 DEF TypeOK
<1>6. fat'[1][cl] = EOC
  <2>1. f # 1 => fat[1][cl] = EOC
    BY <1>1 DEF LocalsInv
  <2>2. QED
    BY <1>2, <1>3, <2>1
<1>7. prev # 0 => fat'[1][prev] = EOC
  BY <1>1, <1>2, <1>3 DEF LocalsInv, TypeOK
<1>8. LocalsInv'
  BY <1>1, <1>2, <1>4, <1>6, <1>7 DEF LocalsInv, Used
<1>9. QED
  BY <1>3, <1>5, <1>8

LEMMA LinkClusterTypes ==
  ASSUME TypeOK, LocalsInv, LinkCluster
  PROVE  /\ TypeOK' /\ LocalsInv'
         /\ \A c \in Clusters :
              fat'[1][c] = IF f = 1 /\ c = prev THEN cl ELSE fat[1][c]
<1>1. /\ pc = "link" /\ WriteCopy(prev, cl) /\ NextCopy("data")
      /\ dir' = dir /\ data' = data /\ req' = req /\ erase' = erase /\ slot' = slot
      /\ cl' = cl /\ nxt' = nxt /\ prev' = prev /\ first' = first /\ k' = k /\ ret' = ret
      /\ torn' = torn /\ leaky' = leaky /\ crashes' = crashes
  BY DEF LinkCluster, history
<1>2. cl \in Clusters /\ cl \in Entry /\ f \in 1 .. NumFats /\ cl # prev
  BY <1>1 DEF LocalsInv, TypeOK
<1>3. /\ fat' \in [1 .. NumFats -> [Clusters -> Entry \cup {Junk}]]
      /\ fat'[1] \in [Clusters -> Entry]
      /\ \A c \in Clusters : fat'[1][c] = IF f = 1 /\ c = prev THEN cl ELSE fat[1][c]
  BY <1>1, <1>2, FatEdit
<1>4. /\ f' \in 1 .. NumFats
      /\ \/ f' > 1 /\ pc' = "link"
         \/ f' = 1 /\ pc' = "data"
  BY <1>1, NextCopyTypes
<1>5. TypeOK'
  BY <1>1, <1>3, <1>4 DEF TypeOK
<1>6. fat'[1][cl] = EOC
  BY <1>1, <1>2, <1>3 DEF LocalsInv
<1>7. LocalsInv'
  BY <1>1, <1>2, <1>4, <1>6 DEF LocalsInv, Used
<1>8. QED
  BY <1>3, <1>5, <1>7

LEMMA WriteDataTypes ==
  ASSUME TypeOK, LocalsInv, WriteData
  PROVE  TypeOK' /\ LocalsInv'
<1>1. /\ pc = "data" /\ pc' \in {"alloc", "dir"}
      /\ data' = IF OnDisk(cl) THEN [data EXCEPT ![cl] = <<req.val, k>>] ELSE data
      /\ first' = IF k = 0 THEN cl ELSE first
      /\ prev' = cl /\ cl' = 0 /\ k' = k + 1
      /\ fat' = fat /\ dir' = dir /\ req' = req /\ erase' = erase /\ slot' = slot
      /\ nxt' = nxt /\ f' = f /\ ret' = ret
      /\ torn' = torn /\ leaky' = leaky /\ crashes' = crashes
  BY DEF WriteData, history
<1>2. cl \in Clusters /\ fat[1][cl] = EOC /\ f = 1
  BY <1>1 DEF LocalsInv
<1>3. data' \in [Clusters -> (Vals \cup {NoVal}) \X Nat]
  <2>1. <<req.val, k>> \in (Vals \cup {NoVal}) \X Nat
    BY DEF TypeOK
  <2>2. data \in [Clusters -> (Vals \cup {NoVal}) \X Nat]
    BY DEF TypeOK
  <2>3. QED
    BY <1>1, <2>1, <2>2
<1>4. k \in Nat /\ k' \in Nat /\ k' # 0
  BY <1>1 DEF TypeOK
<1>5. TypeOK'
  BY <1>1, <1>2, <1>3, <1>4, EntryFacts DEF TypeOK
<1>6. first' # 0 /\ prev' # 0
  <2>1. k # 0 => first # 0
    BY <1>1 DEF LocalsInv
  <2>2. QED
    BY <1>1, <1>2, <2>1, EntryFacts
<1>7. LocalsInv'
  BY <1>1, <1>2, <1>4, <1>6 DEF LocalsInv, Used
<1>8. QED
  BY <1>5, <1>7

LEMMA WriteEntryTypes ==
  ASSUME TypeOK, LocalsInv, WriteEntry
  PROVE  TypeOK' /\ LocalsInv'
<1>1. /\ pc = "dir" /\ Return("ok") /\ fat' = fat /\ data' = data
      /\ torn' = torn /\ leaky' = leaky /\ crashes' = crashes
  BY DEF WriteEntry, history
<1>2. PICK s \in Slots :
        /\ FirstSlot(s)
        /\ dir' = [dir EXCEPT ![s] =
                     [name |-> req.name, first |-> first, size |-> req.size]]
  BY DEF WriteEntry
<1>3. first \in Clusters
  BY <1>1 DEF LocalsInv, TypeOK
<1>4. /\ dir' \in [Slots -> [name : FatNames \cup {END, DELETED},
                             first : Clusters \cup {0}, size : Nat]]
      /\ dir'[s].first \in Clusters
      /\ \A t \in Slots : t # s => dir'[t] = dir[t]
  BY <1>2, <1>3 DEF TypeOK
<1>5. TypeOK'
  BY <1>1, <1>4, ReturnTypes DEF TypeOK
<1>6. LocalsInv'
  BY <1>1, <1>4, ReturnTypes DEF LocalsInv, Used
<1>7. QED
  BY <1>5, <1>6

(* DiskFull, RootFull, ReadDone and Crash end a call and leave the disk alone. *)
LEMMA CallEndTypes ==
  ASSUME TypeOK, LocalsInv, DiskFull \/ RootFull \/ ReadDone \/ Crash
  PROVE  TypeOK' /\ LocalsInv' /\ fat' = fat /\ dir' = dir /\ pc' = "idle"
<1>1. /\ fat' = fat /\ dir' = dir /\ data' = data
      /\ Return("none") \/ Return("ok") \/ Return("err")
  BY DEF DiskFull, RootFull, ReadDone, Crash, disk
<1>2. torn' \in BOOLEAN /\ leaky' \in BOOLEAN /\ crashes' \in 0 .. MaxCrashes
  <2>1. CASE DiskFull \/ RootFull \/ ReadDone
    BY <2>1 DEF DiskFull, RootFull, ReadDone, history, TypeOK
  <2>2. CASE Crash
    <3>1. torn' \in BOOLEAN /\ leaky' \in BOOLEAN
      BY <2>2 DEF Crash
    <3>2. crashes' \in 0 .. MaxCrashes
      BY <2>2, Fat16Assumption DEF Crash, TypeOK
    <3>3. QED
      BY <3>1, <3>2
  <2>3. QED
    BY <2>1, <2>2
<1>3. TypeOK' /\ pc' = "idle"
  BY <1>1, <1>2, ReturnTypes DEF TypeOK
<1>4. LocalsInv'
  BY <1>1, ReturnTypes DEF LocalsInv, Used
<1>5. QED
  BY <1>1, <1>3, <1>4

LEMMA ReadClusterTypes ==
  ASSUME TypeOK, LocalsInv, ReadCluster
  PROVE  TypeOK' /\ LocalsInv'
<1> DEFINE n == ToCopy(k, dir[slot].size, req.size)
<1>1. /\ pc = "read" /\ pc' = pc /\ InChain(cl) /\ k < dir[slot].size
      /\ k' = k + n /\ cl' = fat[1][cl]
      /\ fat' = fat /\ dir' = dir /\ data' = data
      /\ req' = req /\ erase' = erase /\ slot' = slot /\ nxt' = nxt /\ prev' = prev
      /\ first' = first /\ f' = f /\ ret' = ret
      /\ torn' = torn /\ leaky' = leaky /\ crashes' = crashes
  BY DEF ReadCluster, disk, history
<1>2. cl \in Clusters /\ cl' \in Entry
  BY <1>1, EntryFacts, FatRead DEF TypeOK
<1>3. slot \in Slots /\ k <= req.size /\ k \in Nat /\ req.size \in Nat /\ dir[slot].size \in Nat
  BY <1>1 DEF LocalsInv, TypeOK
<1>4. k' \in Nat /\ k' <= req.size
  <2>1. SectorBytes \in Nat
    BY Fat16Assumption
  <2>2. QED
    BY <1>1, <1>3, <2>1 DEF ToCopy
<1>5. TypeOK'
  BY <1>1, <1>2, <1>4 DEF TypeOK
<1>6. LocalsInv'
  BY <1>1, <1>4 DEF LocalsInv, Used
<1>7. QED
  BY <1>5, <1>6

LEMMA HangTypes ==
  ASSUME TypeOK, LocalsInv, Hang
  PROVE  TypeOK' /\ LocalsInv'
BY DEF Hang, disk, locals, history, TypeOK, LocalsInv, Used

(* `diskwrite' overwrites entries of the second copy only. *)
LEMMA DiskWriteTypes ==
  ASSUME TypeOK, LocalsInv, DiskWrite
  PROVE  TypeOK' /\ LocalsInv' /\ fat'[1] = fat[1]
<1>1. /\ dir' = dir /\ data' = data /\ pc' = pc /\ ret' = ret
      /\ req' = req /\ erase' = erase /\ slot' = slot /\ cl' = cl /\ nxt' = nxt
      /\ prev' = prev /\ first' = first /\ k' = k /\ f' = f
      /\ torn' = torn /\ leaky' = leaky /\ crashes' = crashes
  BY DEF DiskWrite, locals, history
<1> DEFINE g == [c \in Clusters |-> IF c \in RawClusters THEN Junk ELSE fat[2][c]]
<1>2. fat' = [fat EXCEPT ![2] = g] /\ 2 \in 1 .. NumFats /\ 1 \in 1 .. NumFats
  BY Fat16Assumption DEF DiskWrite
<1>3. fat \in [1 .. NumFats -> [Clusters -> Entry \cup {Junk}]]
  BY DEF TypeOK
<1>4. g \in [Clusters -> Entry \cup {Junk}]
  BY <1>2, <1>3
<1>5. fat' \in [1 .. NumFats -> [Clusters -> Entry \cup {Junk}]] /\ fat'[1] = fat[1]
  <2> HIDE DEF g
  <2>1. QED
    BY <1>2, <1>3, <1>4
<1>6. TypeOK'
  BY <1>1, <1>5 DEF TypeOK
<1>7. LocalsInv'
  BY <1>1, <1>5 DEF LocalsInv, Used
<1>8. QED
  BY <1>5, <1>6, <1>7

(* Every step keeps the types and what the locals know. *)
LEMMA NextTypes ==
  ASSUME TypeOK, LocalsInv, [Next]_vars
  PROVE  TypeOK' /\ LocalsInv'
<1>1. CASE \E name \in Names : BeginDelete(name)
  BY <1>1, BeginDeleteTypes
<1>2. CASE \E name \in Names, val \in Vals, size \in Sizes : BeginWrite(name, val, size)
  BY <1>2, BeginWriteTypes
<1>3. CASE \E name \in Names, buf \in BufSizes : BeginRead(name, buf)
  BY <1>3, BeginReadTypes
<1>4. CASE Step
  BY <1>4, FreeClusterTypes, EraseEntryTypes, AllocClusterTypes, MarkClusterTypes,
     LinkClusterTypes, WriteDataTypes, WriteEntryTypes, CallEndTypes, ReadClusterTypes,
     HangTypes DEF Step
<1>5. CASE DiskWrite
  BY <1>5, DiskWriteTypes
<1>6. CASE Crash
  BY <1>6, CallEndTypes
<1>7. CASE UNCHANGED vars
  BY <1>7 DEF vars, disk, locals, history, TypeOK, LocalsInv, Used
<1>8. QED
  BY <1>1, <1>2, <1>3, <1>4, <1>5, <1>6, <1>7 DEF Next

-----------------------------------------------------------------------------
(* Acyclicity. *)

(* Freeing a cluster or making it the end of a chain closes no cycle.      *)
LEMMA CutAcyclic ==
  ASSUME TypeOK, FatAcyclic, NEW x, NEW v, v \notin Clusters,
         \A c \in Clusters : fat'[1][c] = IF f = 1 /\ c = x THEN v ELSE fat[1][c]
  PROVE  FatAcyclic'
<1>1. SUFFICES ASSUME NEW S \in SUBSET Clusters, S # {}
               PROVE  \E c \in S : fat'[1][c] \notin S
  BY DEF FatAcyclic
<1>2. PICK c \in S : fat[1][c] \notin S
  BY <1>1 DEF FatAcyclic
<1>3. fat'[1][c] = v \/ fat'[1][c] = fat[1][c]
  BY <1>1
<1>4. QED
  BY <1>1, <1>2, <1>3

(* Linking a cluster to one that ends its chain closes none either: a set  *)
(* closed under the new link would have to contain that end.               *)
LEMMA LinkAcyclic ==
  ASSUME TypeOK, LocalsInv, FatAcyclic, LinkCluster
  PROVE  FatAcyclic'
<1>1. \A c \in Clusters : fat'[1][c] = IF f = 1 /\ c = prev THEN cl ELSE fat[1][c]
  BY LinkClusterTypes
<1>2. cl \in Clusters /\ cl # prev /\ fat[1][cl] = EOC /\ EOC \notin Clusters
  BY EntryFacts DEF LinkCluster, LocalsInv
<1>3. SUFFICES ASSUME NEW S \in SUBSET Clusters, S # {}
               PROVE  \E c \in S : fat'[1][c] \notin S
  BY DEF FatAcyclic
<1>4. CASE cl \in S
  <2>1. fat'[1][cl] = EOC
    BY <1>1, <1>2
  <2>2. QED
    BY <1>2, <1>3, <1>4, <2>1
<1>5. CASE cl \notin S
  <2>1. PICK c \in S : fat[1][c] \notin S
    BY <1>3 DEF FatAcyclic
  <2>2. fat'[1][c] = cl \/ fat'[1][c] = fat[1][c]
    BY <1>1, <1>3
  <2>3. QED
    BY <1>5, <2>1, <2>2
<1>6. QED
  BY <1>4, <1>5

LEMMA NextAcyclic ==
  ASSUME TypeOK, LocalsInv, FatAcyclic, [Next]_vars
  PROVE  FatAcyclic'
<1>1. CASE FreeCluster
  BY <1>1, FreeClusterTypes, CutAcyclic, EntryFacts
<1>2. CASE MarkCluster
  BY <1>2, MarkClusterTypes, CutAcyclic, EntryFacts
<1>3. CASE LinkCluster
  BY <1>3, LinkAcyclic
<1>4. CASE DiskWrite
  <2>1. fat'[1] = fat[1]
    BY <1>4, DiskWriteTypes
  <2>2. QED
    BY <2>1 DEF FatAcyclic
<1>5. CASE UNCHANGED fat
  BY <1>5 DEF FatAcyclic
<1>6. FreeCluster \/ MarkCluster \/ LinkCluster \/ DiskWrite \/ UNCHANGED fat
  BY DEF Next, Step, vars, disk, BeginDelete, BeginWrite, BeginRead, EraseEntry,
         AllocCluster, DiskFull, WriteData, WriteEntry, RootFull, ReadCluster,
         ReadDone, Hang, Crash
<1>7. QED
  BY <1>1, <1>2, <1>3, <1>4, <1>5, <1>6

-----------------------------------------------------------------------------
(* No sharing. *)

(* A step that leaves the first FAT and the directory alone. *)
LEMMA DiskUnchanged ==
  ASSUME fat'[1] = fat[1], dir' = dir
  PROVE  /\ \A s \in Slots : Used(s)' <=> Used(s)
         /\ \A s \in Slots : Intact(s)' <=> Intact(s)
         /\ \A x : Referenced(x)' <=> Referenced(x)
         /\ \A x : Detached(x)' <=> Detached(x)
<1>1. \A s \in Slots : (Used(s)' <=> Used(s)) /\ (Intact(s)' <=> Intact(s))
  BY DEF Used, Intact
<1>2. ASSUME NEW x PROVE Referenced(x)' <=> Referenced(x)
  BY <1>1 DEF Referenced
<1>3. ASSUME NEW x PROVE Detached(x)' <=> Detached(x)
  BY <1>2 DEF Detached
<1>4. QED
  BY <1>1, <1>2, <1>3

LEMMA SharingUnchanged ==
  ASSUME NoSharing, ~ torn, fat'[1] = fat[1], dir' = dir,
         \A s \in Slots : Used(s) /\ ~ Intact(s) => pc' = "free" /\ s = slot'
  PROVE  NoSharing'
<1>1. \A s \in Slots : (Used(s)' <=> Used(s)) /\ (Intact(s)' <=> Intact(s))
  BY DEF Used, Intact
<1>2. QED
  BY <1>1 DEF NoSharing

(* Between calls and outside fat16_delete_file every entry is intact. *)
LEMMA AllIntact ==
  ASSUME NoSharing, ~ torn, pc # "free", NEW s \in Slots, Used(s)
  PROVE  Intact(s)
BY DEF NoSharing

LEMMA BeginSharing ==
  ASSUME TypeOK, LocalsInv, NoSharing, InHand,
         \/ \E name \in Names : BeginDelete(name)
         \/ \E name \in Names, val \in Vals, size \in Sizes : BeginWrite(name, val, size)
         \/ \E name \in Names, buf \in BufSizes : BeginRead(name, buf)
  PROVE  NoSharing' /\ InHand'
<1>1. /\ pc = "idle" /\ fat' = fat /\ dir' = dir /\ torn' = torn
  BY DEF BeginDelete, BeginWrite, BeginRead, disk, history
<1>2. f' = f /\ first' = first /\ f = 1 /\ first = 0
  BY <1>1 DEF BeginDelete, BeginWrite, BeginRead, locals, LocalsInv
<1>3. /\ pc' \in {"idle", "free", "alloc", "read"}
      /\ pc' = "free" => cl' = dir[slot'].first /\ slot' \in Slots /\ Used(slot')
  <2>1. ASSUME NEW name \in Names, BeginDelete(name)
        PROVE  /\ pc' \in {"idle", "free", "alloc", "read"}
               /\ pc' = "free" => cl' = dir[slot'].first /\ slot' \in Lookup(FatNameOf[name])
    BY <1>1, <2>1 DEF BeginDelete
  <2>2. ASSUME NEW name \in Names, NEW val \in Vals, NEW size \in Sizes, BeginWrite(name, val, size)
        PROVE  /\ pc' \in {"idle", "free", "alloc", "read"}
               /\ pc' = "free" => cl' = dir[slot'].first /\ slot' \in Lookup(FatNameOf[name])
    BY <1>1, <2>2 DEF BeginWrite
  <2>3. ASSUME NEW name \in Names, NEW buf \in BufSizes, BeginRead(name, buf)
        PROVE  pc' \in {"idle", "read"}
    BY <1>1, <2>3 DEF BeginRead
  <2>4. \A n \in Names : \A s \in Lookup(FatNameOf[n]) : s \in Slots /\ Used(s)
    BY DEF Lookup, Live
  <2>5. QED
    BY <2>1, <2>2, <2>3, <2>4
<1>4. SUFFICES ASSUME ~ torn PROVE NoSharing' /\ InHand'
  BY <1>1 DEF NoSharing, InHand
<1>5. \A s \in Slots : Used(s) => Intact(s)
  BY <1>1, <1>4, AllIntact
<1>6. NoSharing'
  BY <1>1, <1>4, <1>5, SharingUnchanged
<1>7. InHand'
  <2>1. pc' = "free" => Intact(slot')
    BY <1>3, <1>5
  <2>2. pc' = "free" => (f = 1 /\ cl = dir[slot].first /\ Intact(slot))'
    BY <1>1, <1>2, <1>3, <2>1 DEF Intact, Used
  <2>3. QED
    BY <1>2, <1>3, <2>2 DEF InHand
<1>8. QED
  BY <1>6, <1>7

(* Freeing the first cluster of the chain in hand, or one more of it. *)
LEMMA FreeClusterSharing ==
  ASSUME TypeOK, LocalsInv, NoSharing, InHand, FreeCluster
  PROVE  NoSharing' /\ InHand'
<1>1. /\ pc = "free" /\ pc' = "free" /\ dir' = dir /\ slot' = slot /\ torn' = torn
      /\ nxt' = IF f = 1 THEN fat[1][cl] ELSE nxt
      /\ cl' = IF f < NumFats THEN cl ELSE nxt'
      /\ NextCopy("free")
  BY FreeClusterTypes DEF FreeCluster, history
<1>2. /\ cl \in Clusters /\ slot \in Slots /\ Used(slot) /\ f \in 1 .. NumFats
      /\ \A s \in Slots : Used(s) => dir[s].first \in Clusters
      /\ \A c \in Clusters : fat[1][c] \in Entry
      /\ \A c \in Clusters : fat'[1][c] = IF f = 1 /\ c = cl THEN FREE ELSE fat[1][c]
  BY <1>1, FreeClusterTypes, FatRead DEF LocalsInv, TypeOK
<1>3. (IF f' = 1 THEN cl' ELSE nxt') = nxt'
  <2>1. \/ f < NumFats /\ f' > 1
        \/ f = NumFats /\ f' = 1
    BY <1>1, NextCopyTypes
  <2>2. QED
    BY <1>1, <1>2, <2>1, Fat16Assumption
<1>4. SUFFICES ASSUME ~ torn PROVE NoSharing' /\ InHand'
  BY <1>1 DEF NoSharing, InHand
<1>5. /\ \A s, t \in Slots : Intact(s) /\ Intact(t) /\ s # t => dir[s].first # dir[t].first
      /\ \A s \in Slots, c \in Clusters : Intact(s) => fat[1][c] # dir[s].first
      /\ \A c, d \in Clusters : fat[1][c] \in Clusters /\ fat[1][c] = fat[1][d] => c = d
      /\ \A c \in Clusters : fat[1][c] \in Clusters => fat[1][fat[1][c]] # FREE
      /\ \A s \in Slots : Used(s) /\ ~ Intact(s) => s = slot
  BY <1>4 DEF NoSharing
<1>6. \A s \in Slots : Used(s)' <=> Used(s)
  BY <1>1 DEF Used
<1>7. CASE f = 1
  <2>1. nxt' = fat[1][cl] /\ fat'[1][cl] = FREE
    BY <1>1, <1>2, <1>7
  <2>2. \A c \in Clusters : fat[1][c] # cl
    BY <1>1, <1>2, <1>4, <1>5, <1>7 DEF InHand, Detached, Referenced
  <2>3. \A s \in Slots : Intact(s) /\ s # slot => dir[s].first # cl
    BY <1>1, <1>2, <1>4, <1>5, <1>7 DEF InHand, Detached, Referenced
  <2>4. ~ Intact(slot)'
    <3>1. CASE cl = dir[slot].first
      BY <1>1, <2>1, <3>1 DEF Intact
    <3>2. CASE ~ Intact(slot)
      <4>1. fat[1][dir[slot].first] = FREE /\ dir[slot].first \in Clusters
        BY <1>2, <3>2 DEF Intact
      <4>2. fat'[1][dir[slot].first] = FREE
        BY <1>2, <4>1
      <4>3. QED
        BY <1>1, <4>2 DEF Intact
    <3>3. QED
      BY <1>1, <1>4, <1>7, <3>1, <3>2 DEF InHand
  <2>5. \A s \in Slots : s # slot => (Intact(s)' <=> Intact(s))
    <3>1. ASSUME NEW s \in Slots, s # slot
          PROVE  Intact(s)' <=> Intact(s)
      <4>1. CASE Used(s)
        <5>1. dir[s].first \in Clusters /\ dir'[s] = dir[s] /\ Intact(s) /\ dir[s].first # cl
          BY <1>1, <1>2, <1>5, <2>3, <3>1, <4>1
        <5>2. fat'[1][dir[s].first] = fat[1][dir[s].first]
          BY <1>2, <5>1
        <5>3. QED
          BY <1>6, <5>1, <5>2 DEF Intact
      <4>2. CASE ~ Used(s)
        BY <1>6, <4>2 DEF Intact
      <4>3. QED
        BY <4>1, <4>2
    <3>2. QED
      BY <3>1
  <2>6. \A s \in Slots : Intact(s)' => Intact(s) /\ s # slot /\ dir'[s].first = dir[s].first
    BY <1>1, <2>4, <2>5
  <2>7. \A c \in Clusters : fat'[1][c] \in Clusters => c # cl /\ fat'[1][c] = fat[1][c]
    BY <1>2, <1>7, EntryFacts
  <2>8. NoSharing'
    <3>1. \A s, t \in Slots : Intact(s)' /\ Intact(t)' /\ s # t => dir'[s].first # dir'[t].first
      BY <1>5, <2>6
    <3>2. \A s \in Slots, c \in Clusters : Intact(s)' => fat'[1][c] # dir'[s].first
      BY <1>2, <1>5, <2>6, <2>7 DEF Intact
    <3>3. \A c, d \in Clusters : fat'[1][c] \in Clusters /\ fat'[1][c] = fat'[1][d] => c = d
      BY <1>5, <2>7
    <3>4. ASSUME NEW c \in Clusters, fat'[1][c] \in Clusters
          PROVE  fat'[1][fat'[1][c]] # FREE
      <4>1. fat'[1][c] = fat[1][c] /\ fat[1][c] # cl /\ fat[1][fat[1][c]] # FREE
        BY <1>5, <2>2, <2>7, <3>4
      <4>2. QED
        BY <1>2, <3>4, <4>1
    <3>5. \A s \in Slots : Used(s)' /\ ~ Intact(s)' => pc' = "free" /\ s = slot'
      BY <1>1, <1>5, <1>6, <2>5
    <3>6. QED
      BY <3>1, <3>2, <3>3, <3>4, <3>5 DEF NoSharing
  <2>9. InHand'
    <3>1. ASSUME nxt' \in Clusters PROVE Detached(nxt)'
      <4>1. nxt' # cl /\ fat[1][nxt'] # FREE
        BY <1>2, <1>5, <2>1, <2>2, <3>1
      <4>2. fat'[1][nxt'] # FREE
        BY <1>2, <3>1, <4>1
      <4>3. \A s \in Slots : Intact(s)' => dir'[s].first # nxt'
        BY <1>2, <1>5, <2>1, <2>6
      <4>4. \A c \in Clusters : fat'[1][c] # nxt'
        BY <1>2, <1>5, <2>1, <2>7, <3>1
      <4>5. QED
        BY <4>2, <4>3, <4>4 DEF Detached, Referenced
    <3>2. QED
      BY <1>1, <1>3, <2>4, <3>1 DEF InHand
  <2>10. QED
    BY <2>8, <2>9
<1>8. CASE f # 1
  <2>1. \A c \in Clusters : fat'[1][c] = fat[1][c]
    BY <1>2, <1>8
  <2>2. fat'[1] = fat[1]
    <3>1. fat[1] \in [Clusters -> Entry] /\ fat'[1] \in [Clusters -> Entry]
      BY FreeClusterTypes DEF TypeOK
    <3>2. QED
      BY <2>1, <3>1
  <2>3. NoSharing'
    BY <1>1, <1>4, <1>5, <2>2, SharingUnchanged
  <2>4. ~ Intact(slot) /\ (nxt \in Clusters => Detached(nxt)) /\ nxt' = nxt
    BY <1>1, <1>4, <1>8 DEF InHand
  <2>5. ~ Intact(slot)' /\ (nxt \in Clusters => Detached(nxt))'
    <3>1. ~ Intact(slot)'
      BY <1>1, <2>2, <2>4 DEF Intact, Used
    <3>2. \A x : Detached(x)' <=> Detached(x)
      BY <1>1, <2>2, DiskUnchanged
    <3>3. Detached(nxt)' <=> Detached(nxt)
      BY <1>1, <2>2, <2>4, <3>2 DEF Detached, Referenced, Intact, Used
    <3>4. QED
      BY <2>4, <3>1, <3>3
  <2>6. InHand'
    BY <1>1, <1>3, <2>5 DEF InHand
  <2>7. QED
    BY <2>3, <2>6
<1>9. QED
  BY <1>7, <1>8

(* The directory entry goes only after the whole chain has. *)
LEMMA EraseEntrySharing ==
  ASSUME TypeOK, LocalsInv, NoSharing, InHand, EraseEntry
  PROVE  NoSharing' /\ InHand'
<1>1. /\ pc = "free" /\ ~ InChain(cl) /\ fat' = fat /\ torn' = torn
      /\ dir' = [dir EXCEPT ![slot].name = DELETED]
  BY DEF EraseEntry, history
<1>2. /\ slot \in Slots /\ Used(slot) /\ cl \notin Clusters
      /\ \A s \in Slots : Used(s) => dir[s].first \in Clusters
  BY <1>1, EntryFacts DEF LocalsInv, TypeOK
<1>3. pc' \in {"idle", "alloc"} /\ first' = 0
  <2>1. CASE erase
    BY <2>1, ReturnTypes DEF EraseEntry
  <2>2. CASE ~ erase
    BY <1>1, <2>2 DEF EraseEntry, LocalsInv
  <2>3. QED
    BY <2>1, <2>2
<1>4. SUFFICES ASSUME ~ torn PROVE NoSharing' /\ InHand'
  BY <1>1 DEF NoSharing, InHand
<1>5. ~ Intact(slot)
  BY <1>1, <1>2, <1>4 DEF InHand
<1>6. /\ \A s \in Slots : s # slot => dir'[s] = dir[s]
      /\ dir'[slot].name = DELETED
  BY <1>1, <1>2 DEF TypeOK
<1>7. \A s \in Slots : Used(s)' => s # slot /\ Used(s) /\ Intact(s)
  <2>1. \A s \in Slots : Used(s)' => s # slot /\ Used(s)
    BY <1>6 DEF Used
  <2>2. QED
    BY <1>4, <2>1 DEF NoSharing
<1>8. \A s \in Slots : Used(s)' => Intact(s)' /\ dir'[s].first = dir[s].first
  BY <1>1, <1>6, <1>7 DEF Intact
<1>9. \A s \in Slots : Intact(s)' => Intact(s) /\ dir'[s].first = dir[s].first
  BY <1>7, <1>8 DEF Intact
<1>10. NoSharing'
  BY <1>1, <1>4, <1>8, <1>9 DEF NoSharing
<1>11. InHand'
  BY <1>3 DEF InHand
<1>12. QED
  BY <1>10, <1>11

LEMMA AllocClusterSharing ==
  ASSUME TypeOK, LocalsInv, NoSharing, InHand, AllocCluster
  PROVE  NoSharing' /\ InHand'
<1>1. /\ pc = "alloc" /\ pc' = "mark" /\ fat' = fat /\ dir' = dir /\ torn' = torn
      /\ first' = first /\ k' = k /\ f' = f /\ f = 1
      /\ cl' \in Clusters /\ fat[1][cl'] = FREE
  BY DEF AllocCluster, disk, history, Allocated, FreeClusters, LocalsInv
<1>2. SUFFICES ASSUME ~ torn PROVE NoSharing' /\ InHand'
  BY <1>1 DEF NoSharing, InHand
<1>3. NoSharing'
  BY <1>1, <1>2, AllIntact, SharingUnchanged
<1>4. first # 0 => Detached(first)
  BY <1>1, <1>2 DEF InHand
<1>5. (first # 0 => Detached(first))'
  BY <1>1, <1>4 DEF Detached, Referenced, Intact, Used
<1>6. (k # 0 => cl # first)'
  BY <1>1, <1>4 DEF Detached, LocalsInv
<1>7. InHand'
  BY <1>1, <1>5, <1>6 DEF InHand
<1>8. QED
  BY <1>3, <1>7

(* A free cluster is nobody's: once marked it is in the writer's hand only. *)
LEMMA MarkClusterSharing ==
  ASSUME TypeOK, LocalsInv, NoSharing, InHand, MarkCluster
  PROVE  NoSharing' /\ InHand'
<1>1. /\ pc = "mark" /\ dir' = dir /\ torn' = torn /\ cl' = cl /\ first' = first
      /\ k' = k /\ prev' = prev /\ slot' = slot
  BY DEF MarkCluster, history
<1>2. /\ cl \in Clusters
      /\ \A s \in Slots : Used(s) => dir[s].first \in Clusters
      /\ \A c \in Clusters : fat'[1][c] = IF f = 1 /\ c = cl THEN EOC ELSE fat[1][c]
      /\ fat[1] \in [Clusters -> Entry] /\ fat'[1] \in [Clusters -> Entry]
      /\ first \in Clusters \cup {0}
  BY <1>1, MarkClusterTypes DEF LocalsInv, TypeOK
<1>3. /\ pc' \in {"mark", "link", "data"}
      /\ pc' # "free"
  BY NextCopyTypes DEF MarkCluster
<1>4. SUFFICES ASSUME ~ torn PROVE NoSharing' /\ InHand'
  BY <1>1 DEF NoSharing, InHand
<1>5. /\ \A s, t \in Slots : Intact(s) /\ Intact(t) /\ s # t => dir[s].first # dir[t].first
      /\ \A s \in Slots, c \in Clusters : Intact(s) => fat[1][c] # dir[s].first
      /\ \A c, d \in Clusters : fat[1][c] \in Clusters /\ fat[1][c] = fat[1][d] => c = d
      /\ \A c \in Clusters : fat[1][c] \in Clusters => fat[1][fat[1][c]] # FREE
      /\ \A s \in Slots : Used(s) => Intact(s)
  BY <1>1, <1>4 DEF NoSharing
<1>6. \A s \in Slots : Used(s)' <=> Used(s)
  BY <1>1 DEF Used
<1>7. \A c \in Clusters : fat[1][c] # FREE => fat'[1][c] # FREE
  BY <1>2, EntryFacts
<1>8. \A s \in Slots : Intact(s)' <=> Intact(s)
  BY <1>1, <1>2, <1>5, <1>6, <1>7 DEF Intact
<1>9. \A c \in Clusters : fat'[1][c] \in Clusters => fat'[1][c] = fat[1][c]
  BY <1>2, EntryFacts
<1>10. NoSharing'
  <2>1. \A s \in Slots, c \in Clusters : Intact(s)' => fat'[1][c] # dir'[s].first
    BY <1>1, <1>2, <1>5, <1>8, <1>9 DEF Intact
  <2>2. \A c, d \in Clusters : fat'[1][c] \in Clusters /\ fat'[1][c] = fat'[1][d] => c = d
    BY <1>5, <1>9
  <2>3. \A c \in Clusters : fat'[1][c] \in Clusters => fat'[1][fat'[1][c]] # FREE
    BY <1>5, <1>7, <1>9
  <2>4. QED
    BY <1>1, <1>5, <1>6, <1>8, <2>1, <2>2, <2>3 DEF NoSharing
<1>11. \A x \in Clusters : Referenced(x)' => Referenced(x)
  BY <1>1, <1>8, <1>9 DEF Referenced
<1>12. (first # 0 => Detached(first))'
  <2>1. first # 0 => Detached(first) /\ first \in Clusters
    BY <1>1, <1>2, <1>4 DEF InHand
  <2>2. \A x \in Clusters : Detached(x) => Detached(x)'
    BY <1>7, <1>11 DEF Detached
  <2>3. \A x \in {first} : x # 0 => Detached(x)'
    BY <2>1, <2>2
  <2>4. QED
    BY <1>1, <2>3 DEF Detached, Referenced
<1>13. Detached(cl)'
  <2>1. CASE f = 1
    <3>1. fat[1][cl] = FREE /\ fat'[1][cl] = EOC
      BY <1>1, <1>2, <2>1 DEF LocalsInv
    <3>2. ~ Referenced(cl)
      BY <1>2, <1>5, <3>1 DEF Referenced, Intact
    <3>3. \A x \in {cl} : Detached(x)'
      BY <1>2, <1>11, <3>1, <3>2, EntryFacts DEF Detached
    <3>4. QED
      BY <1>1, <3>3 DEF Detached, Referenced
  <2>2. CASE f # 1
    <3>1. Detached(cl)
      <4>1. f > 1
        BY <2>2 DEF TypeOK
      <4>2. QED
        BY <1>1, <1>4, <4>1 DEF InHand
    <3>2. \A x \in {cl} : Detached(x)'
      BY <1>2, <1>7, <1>11, <3>1 DEF Detached
    <3>3. QED
      BY <1>1, <3>2 DEF Detached, Referenced
  <2>3. QED
    BY <2>1, <2>2
<1>14. InHand'
  <2>1. (k # 0 => cl # first)'
    BY <1>1, <1>4 DEF InHand
  <2>2. QED
    BY <1>3, <1>12, <1>13, <2>1 DEF InHand
<1>15. QED
  BY <1>10, <1>14

(* Linking puts the new cluster behind the last one of the writer's chain. *)
LEMMA LinkClusterSharing ==
  ASSUME TypeOK, LocalsInv, NoSharing, InHand, LinkCluster
  PROVE  NoSharing' /\ InHand'
<1>1. /\ pc = "link" /\ dir' = dir /\ torn' = torn /\ cl' = cl /\ first' = first
      /\ k' = k /\ prev' = prev /\ slot' = slot
  BY DEF LinkCluster, history
<1>2. /\ cl \in Clusters /\ prev \in Clusters /\ cl # prev /\ fat[1][cl] = EOC
      /\ first \in Clusters /\ k # 0
      /\ \A s \in Slots : Used(s) => dir[s].first \in Clusters
      /\ \A c \in Clusters : fat'[1][c] = IF f = 1 /\ c = prev THEN cl ELSE fat[1][c]
      /\ fat[1] \in [Clusters -> Entry] /\ fat'[1] \in [Clusters -> Entry]
  BY <1>1, LinkClusterTypes DEF LocalsInv, TypeOK
<1>3. (pc' = "link" /\ f' > 1) \/ pc' = "data"
  BY <1>1, NextCopyTypes DEF LinkCluster
<1>4. SUFFICES ASSUME ~ torn PROVE NoSharing' /\ InHand'
  BY <1>1 DEF NoSharing, InHand
<1>5. Detached(first) /\ cl # first
  BY <1>1, <1>2, <1>4, EntryFacts DEF InHand
<1>6. /\ \A s, t \in Slots : Intact(s) /\ Intact(t) /\ s # t => dir[s].first # dir[t].first
      /\ \A s \in Slots, c \in Clusters : Intact(s) => fat[1][c] # dir[s].first
      /\ \A c, d \in Clusters : fat[1][c] \in Clusters /\ fat[1][c] = fat[1][d] => c = d
      /\ \A c \in Clusters : fat[1][c] \in Clusters => fat[1][fat[1][c]] # FREE
      /\ \A s \in Slots : Used(s) => Intact(s)
  BY <1>1, <1>4 DEF NoSharing
<1>7. CASE f = 1
  <2>1. ~ Referenced(cl) /\ fat[1][prev] = EOC
    BY <1>1, <1>4, <1>7 DEF InHand, Detached, LocalsInv
  <2>2. /\ fat'[1][prev] = cl
        /\ \A c \in Clusters : c # prev => fat'[1][c] = fat[1][c]
        /\ \A c \in Clusters : fat[1][c] # cl
        /\ \A s \in Slots : Intact(s) => dir[s].first # cl
    BY <1>2, <1>7, <2>1 DEF Referenced
  <2>3. \A c \in Clusters : fat'[1][c] = FREE <=> fat[1][c] = FREE
    BY <1>2, <2>1, <2>2, EntryFacts
  <2>4. \A s \in Slots : (Used(s)' <=> Used(s)) /\ (Intact(s)' <=> Intact(s))
    BY <1>1, <1>2, <2>3 DEF Used, Intact
  <2>5. \A s \in Slots, c \in Clusters : Intact(s)' => fat'[1][c] # dir'[s].first
    BY <1>1, <1>6, <2>2, <2>4
  <2>6. ASSUME NEW c \in Clusters, NEW d \in Clusters,
               fat'[1][c] \in Clusters, fat'[1][c] = fat'[1][d]
        PROVE  c = d
    BY <1>6, <2>2, <2>6
  <2>7. ASSUME NEW c \in Clusters, fat'[1][c] \in Clusters
        PROVE  fat'[1][fat'[1][c]] # FREE
    <3>1. CASE c = prev
      BY <1>2, <2>2, <2>3, <3>1, EntryFacts
    <3>2. CASE c # prev
      BY <1>6, <2>2, <2>3, <2>7, <3>2
    <3>3. QED
      BY <3>1, <3>2
  <2>8. NoSharing'
    BY <1>1, <1>6, <2>4, <2>5, <2>6, <2>7 DEF NoSharing
  <2>9. Detached(first)'
    <3>1. fat'[1][first] # FREE
      BY <1>2, <1>5, <2>3 DEF Detached
    <3>2. \A c \in Clusters : fat'[1][c] # first
      BY <1>5, <2>2 DEF Detached, Referenced
    <3>3. \A s \in Slots : Intact(s)' => dir'[s].first # first
      BY <1>1, <1>5, <2>4 DEF Detached, Referenced
    <3>4. QED
      BY <1>1, <3>1, <3>2, <3>3 DEF Detached, Referenced
  <2>10. InHand'
    BY <1>1, <1>2, <1>3, <1>5, <2>9 DEF InHand
  <2>11. QED
    BY <2>8, <2>10
<1>8. CASE f # 1
  <2>1. fat'[1] = fat[1]
    BY <1>2, <1>8
  <2>2. NoSharing'
    BY <1>1, <1>4, <1>6, <2>1, SharingUnchanged
  <2>3. Detached(first)'
    BY <1>1, <1>5, <2>1 DEF Detached, Referenced, Intact, Used
  <2>4. InHand'
    BY <1>1, <1>2, <1>3, <1>5, <2>3 DEF InHand
  <2>5. QED
    BY <2>2, <2>4
<1>9. QED
  BY <1>7, <1>8

LEMMA WriteDataSharing ==
  ASSUME TypeOK, LocalsInv, NoSharing, InHand, WriteData
  PROVE  NoSharing' /\ InHand'
<1>1. /\ pc = "data" /\ pc' \in {"alloc", "dir"} /\ fat' = fat /\ dir' = dir /\ torn' = torn
      /\ first' = IF k = 0 THEN cl ELSE first
  BY DEF WriteData, history
<1>2. SUFFICES ASSUME ~ torn PROVE NoSharing' /\ InHand'
  BY <1>1 DEF NoSharing, InHand
<1>3. NoSharing'
  BY <1>1, <1>2, AllIntact, SharingUnchanged
<1>4. Detached(first')
  <2>1. k = 0 => Detached(cl)
    BY <1>1, <1>2 DEF InHand
  <2>2. k # 0 => Detached(first)
    BY <1>1, <1>2 DEF InHand, LocalsInv
  <2>3. QED
    BY <1>1, <2>1, <2>2
<1>5. Detached(first)'
  BY <1>1, <1>4 DEF Detached, Referenced, Intact, Used
<1>6. InHand'
  BY <1>1, <1>5 DEF InHand
<1>7. QED
  BY <1>3, <1>6

(* The finished chain, which nothing referred to, becomes a file. *)
LEMMA WriteEntrySharing ==
  ASSUME TypeOK, LocalsInv, NoSharing, InHand, WriteEntry
  PROVE  NoSharing' /\ InHand'
<1>1. /\ pc = "dir" /\ pc' = "idle" /\ fat' = fat /\ torn' = torn
  BY DEF WriteEntry, history, Return
<1>2. PICK n \in Slots :
        /\ FirstSlot(n)
        /\ dir' = [dir EXCEPT ![n] =
                     [name |-> req.name, first |-> first, size |-> req.size]]
  BY DEF WriteEntry
<1>3. SUFFICES ASSUME ~ torn PROVE NoSharing' /\ InHand'
  BY <1>1 DEF NoSharing, InHand
<1>4. first \in Clusters /\ Detached(first)
  BY <1>1, <1>3 DEF InHand, LocalsInv, TypeOK
<1>5. /\ dir'[n].first = first
      /\ \A s \in Slots : s # n => dir'[s] = dir[s]
  BY <1>2 DEF TypeOK
<1>6. \A s \in Slots : s # n => (Used(s)' <=> Used(s)) /\ (Intact(s)' <=> Intact(s))
  BY <1>1, <1>5 DEF Used, Intact
<1>7. /\ \A s, t \in Slots : Intact(s) /\ Intact(t) /\ s # t => dir[s].first # dir[t].first
      /\ \A s \in Slots, c \in Clusters : Intact(s) => fat[1][c] # dir[s].first
      /\ \A s \in Slots : Used(s) => Intact(s)
  BY <1>1, <1>3 DEF NoSharing
<1>8. /\ \A s \in Slots : Intact(s) => dir[s].first # first
      /\ \A c \in Clusters : fat[1][c] # first
      /\ fat[1][first] # FREE
  BY <1>4 DEF Detached, Referenced
<1>9. \A s, t \in Slots : Intact(s)' /\ Intact(t)' /\ s # t => dir'[s].first # dir'[t].first
  BY <1>5, <1>6, <1>7, <1>8
<1>10. \A s \in Slots, c \in Clusters : Intact(s)' => fat'[1][c] # dir'[s].first
  BY <1>1, <1>5, <1>6, <1>7, <1>8
<1>11. \A s \in Slots : Used(s)' => Intact(s)'
  BY <1>1, <1>5, <1>6, <1>7, <1>8 DEF Intact
<1>12. NoSharing'
  BY <1>1, <1>3, <1>9, <1>10, <1>11 DEF NoSharing
<1>13. InHand'
  BY <1>1 DEF InHand
<1>14. QED
  BY <1>12, <1>13

(* A reset leaves an entry whose chain is partly freed only if it cuts     *)
(* fat16_delete_file short, and that sets `torn'.                          *)
LEMMA CallEndSharing ==
  ASSUME TypeOK, LocalsInv, NoSharing, InHand, DiskFull \/ RootFull \/ ReadDone \/ Crash
  PROVE  NoSharing' /\ InHand'
<1>1. fat' = fat /\ dir' = dir /\ pc' = "idle"
  BY CallEndTypes
<1>2. SUFFICES ASSUME ~ torn' PROVE NoSharing' /\ InHand'
  BY DEF NoSharing, InHand
<1>3. ~ torn
  BY <1>2 DEF DiskFull, RootFull, ReadDone, Crash, history
<1>4. \A s \in Slots : Used(s) => Intact(s)
  <2>1. CASE pc # "free"
    BY <1>3, <2>1, AllIntact
  <2>2. CASE pc = "free"
    <3>1. fat[1][dir[slot].first] # FREE
      BY <1>2, <2>2 DEF DiskFull, RootFull, ReadDone, Crash
    <3>2. QED
      BY <1>3, <3>1 DEF NoSharing, Intact
  <2>3. QED
    BY <2>1, <2>2
<1>5. NoSharing'
  BY <1>1, <1>3, <1>4, SharingUnchanged
<1>6. InHand'
  BY <1>1 DEF InHand
<1>7. QED
  BY <1>5, <1>6

LEMMA ReadHangSharing ==
  ASSUME TypeOK, LocalsInv, NoSharing, InHand, ReadCluster \/ Hang
  PROVE  NoSharing' /\ InHand'
<1>1. /\ fat' = fat /\ dir' = dir /\ torn' = torn /\ pc # "free" /\ pc' \in {"read", "hung"}
  BY DEF ReadCluster, Hang, disk, history
<1>2. SUFFICES ASSUME ~ torn PROVE NoSharing' /\ InHand'
  BY <1>1 DEF NoSharing, InHand
<1>3. NoSharing'
  BY <1>1, <1>2, AllIntact, SharingUnchanged
<1>4. InHand'
  BY <1>1 DEF InHand
<1>5. QED
  BY <1>3, <1>4

LEMMA DiskWriteSharing ==
  ASSUME TypeOK, LocalsInv, NoSharing, InHand, DiskWrite
  PROVE  NoSharing' /\ InHand'
<1>1. fat'[1] = fat[1] /\ dir' = dir /\ torn' = torn /\ pc = "idle" /\ pc' = "idle"
  BY DiskWriteTypes DEF DiskWrite, history
<1>2. SUFFICES ASSUME ~ torn PROVE NoSharing' /\ InHand'
  BY <1>1 DEF NoSharing, InHand
<1>3. NoSharing'
  BY <1>1, <1>2, AllIntact, SharingUnchanged
<1>4. InHand'
  BY <1>1 DEF InHand
<1>5. QED
  BY <1>3, <1>4

LEMMA NextFatInv ==
  ASSUME FatInv, [Next]_vars
  PROVE  FatInv'
<1>1. TypeOK' /\ LocalsInv' /\ FatAcyclic'
  BY NextTypes, NextAcyclic DEF FatInv
<1>2. TypeOK /\ LocalsInv /\ NoSharing /\ InHand
  BY DEF FatInv
<1>3. CASE \/ \E name \in Names : BeginDelete(name)
           \/ \E name \in Names, val \in Vals, size \in Sizes : BeginWrite(name, val, size)
           \/ \E name \in Names, buf \in BufSizes : BeginRead(name, buf)
  BY <1>1, <1>2, <1>3, BeginSharing DEF FatInv
<1>4. CASE Step
  <2>1. NoSharing' /\ InHand'
    BY <1>2, <1>4, FreeClusterSharing, EraseEntrySharing, AllocClusterSharing,
       MarkClusterSharing, LinkClusterSharing, WriteDataSharing, WriteEntrySharing,
       CallEndSharing, ReadHangSharing DEF Step
  <2>2. QED
    BY <1>1, <2>1 DEF FatInv
<1>5. CASE DiskWrite
  BY <1>1, <1>2, <1>5, DiskWriteSharing DEF FatInv
<1>6. CASE Crash
  BY <1>1, <1>2, <1>6, CallEndSharing DEF FatInv
<1>7. CASE UNCHANGED vars
  <2>1. NoSharing' /\ InHand'
    BY <1>2, <1>7 DEF vars, disk, locals, history, NoSharing, InHand, Intact, Used,
                      Detached, Referenced
  <2>2. QED
    BY <1>1, <2>1 DEF FatInv
<1>8. QED
  BY <1>3, <1>4, <1>5, <1>6, <1>7 DEF Next

LEMMA InitFatInv == Init => FatInv
<1>1. SUFFICES ASSUME Init PROVE FatAcyclic /\ NoSharing /\ InHand
  BY InitTypes DEF FatInv
<1>2. \A c \in Clusters : fat[1][c] = FREE
  <2>1. 1 \in 1 .. NumFats /\ fat = [i \in 1 .. NumFats |-> [d \in Clusters |-> FREE]]
    BY <1>1, Fat16Assumption DEF Init
  <2>2. QED
    BY <2>1
<1>3. FatAcyclic
  <2>1. ASSUME NEW S \in SUBSET Clusters, S # {}
        PROVE  \E c \in S : fat[1][c] \notin S
    <3>1. PICK c \in S : c \in Clusters
      BY <2>1
    <3>2. QED
      BY <1>2, <3>1, EntryFacts
  <2>2. QED
    BY <2>1 DEF FatAcyclic
<1>4. \A s \in Slots : ~ Used(s)
  BY <1>1 DEF Init, Used
<1>5. pc = "idle"
  BY <1>1 DEF Init
<1>6. NoSharing
  BY <1>2, <1>4, EntryFacts DEF NoSharing, Intact
<1>7. InHand
  BY <1>5 DEF InHand
<1>8. QED
  BY <1>3, <1>6, <1>7

(* FatInv holds at every sector that fat16.c writes, for every geometry.   *)
THEOREM FatInvariance == Spec => []FatInv
<1>1. FatInv /\ [Next]_vars => FatInv'
  BY NextFatInv
<1>2. QED
  BY <1>1, InitFatInv, PTL DEF Spec

(* The chains of the FAT are acyclic, whatever writes have failed and      *)
(* wherever resets have fallen: the loops of fat16_read_file and           *)
(* fat16_delete_file always have an end to come to.                        *)
THEOREM ChainsAcyclic == Spec => []FatAcyclic
<1>1. FatInv => FatAcyclic
  BY DEF FatInv
<1>2. QED
  BY <1>1, FatInvariance, PTL

(* No two files share a cluster and none runs into free space, through any *)
(* number of failed writes and of resets other than in the middle of       *)
(* fat16_delete_file's freeing loop.                                       *)
THEOREM FilesApart == Spec => []NoSharing
<1>1. FatInv => NoSharing
  BY DEF FatInv
<1>2. QED
  BY <1>1, FatInvariance, PTL

-----------------------------------------------------------------------------
(* On top of that invariant: the directory, the clusters that no file has, *)
(* and the copies of the FAT.                                              *)

(* The name that the running call works on: found at the slot it erases,   *)
(* and not in the directory while a file of that name is being written.    *)
Building == pc \in {"alloc", "mark", "link", "data", "dir"}

DirInv ==
  /\ DirectorySound
  /\ pc = "free" => dir[slot].name = req.name
  /\ Building => req.name \in FatNames /\ \A s \in Slots : dir[s].name # req.name

(* The clusters that only a local variable refers to: what is left to      *)
(* free, the first cluster of a new file and the one that is being added.  *)
Held(c) ==
  \/ pc = "free" /\ c = IF f = 1 THEN cl ELSE nxt
  \/ Building /\ c = first
  \/ c = cl /\ \/ pc = "mark" /\ f > 1
               \/ pc = "link" /\ f = 1
               \/ pc = "data" /\ k = 0

LeakInv ==
  /\ torn => leaky
  /\ ~ leaky /\ pc # "hung" =>
       \A c \in Clusters : fat[1][c] # FREE =>
         \/ \E s \in Slots : Used(s) /\ dir[s].first = c
         \/ \E d \in Clusters : fat[1][d] = c
         \/ Held(c)

(* The entry that fat_write_entry is writing, and what it has written to   *)
(* the copies before f.                                                    *)
Target == IF pc = "link" THEN prev ELSE cl
Value  == CASE pc = "free" -> FREE [] pc = "mark" -> EOC [] OTHER -> cl

MirrorInv ==
  /\ MirrorKept
  /\ pc \in {"free", "mark", "link"} => \A i \in 1 .. (f - 1) : fat[i][Target] = Value

-----------------------------------------------------------------------------
(* The directory. *)

LEMMA DirSame ==
  ASSUME DirInv, dir' = dir, req' = req,
         pc' = "free" => pc = "free" /\ slot' = slot, Building' => Building
  PROVE  DirInv'
BY DEF DirInv, DirectorySound, Live, Used

LEMMA DirNoCall ==
  ASSUME DirInv, dir' = dir, pc' \in {"idle", "read", "hung"}
  PROVE  DirInv'
<1>1. DirectorySound'
  BY DEF DirInv, DirectorySound, Live, Used
<1>2. pc' # "free" /\ ~ Building'
  BY DEF Building
<1> QED
  BY <1>1, <1>2 DEF DirInv

(* A name that fat16_delete_file does not find is not in the directory. *)
LEMMA NotFound ==
  ASSUME TypeOK, DirectorySound, NEW n \in FatNames, Lookup(n) = {}
  PROVE  \A s \in Slots : dir[s].name # n
<1> SUFFICES ASSUME NEW s \in Slots, dir[s].name = n PROVE FALSE
  OBVIOUS
<1>1. Used(s)
  BY Fat16Assumption DEF Used
<1>2. Live(s) /\ \A t \in Slots : dir[t].name = n => t = s
  BY <1>1 DEF DirectorySound
<1>3. \A t \in 1 .. (s - 1) : t \in Slots /\ t # s
  BY Fat16Assumption DEF Slots
<1>4. s \in Lookup(n)
  BY <1>2, <1>3 DEF Lookup
<1> QED
  BY <1>4

LEMMA DirBegin ==
  ASSUME TypeOK, LocalsInv, DirInv, NEW name \in Names,
         \/ BeginDelete(name)
         \/ \E val \in Vals, size \in Sizes : BeginWrite(name, val, size)
  PROVE  DirInv'
<1> DEFINE n == FatNameOf[name]
<1>1. n \in FatNames /\ dir' = dir /\ DirectorySound
  BY Fat16Assumption DEF BeginDelete, BeginWrite, disk, DirInv
<1>2. DirectorySound'
  BY <1>1 DEF DirectorySound, Live, Used
<1>3. CASE pc' = "idle"
  BY <1>1, <1>3, DirNoCall
<1>4. CASE pc' = "free"
  <2>1. slot' \in Lookup(n) /\ req'.name = n
    BY <1>4 DEF BeginDelete, BeginWrite, NoReq
  <2>2. dir[slot'].name = n
    BY <1>1, <2>1, LookupFacts
  <2>3. ~ Building'
    BY <1>4 DEF Building
  <2> QED
    BY <1>1, <1>2, <1>4, <2>1, <2>2, <2>3 DEF DirInv
<1>5. CASE pc' = "alloc"
  <2>1. Lookup(n) = {} /\ req'.name = n
    BY <1>5 DEF BeginDelete, BeginWrite
  <2>2. \A s \in Slots : dir[s].name # n
    BY <1>1, <2>1, NotFound
  <2> QED
    BY <1>1, <1>2, <1>5, <2>1, <2>2 DEF DirInv
<1>6. pc' \in {"idle", "free", "alloc"}
  BY DEF BeginDelete, BeginWrite
<1> QED
  BY <1>3, <1>4, <1>5, <1>6

(* Erasing leaves no gap, and none of that name. *)
LEMMA DirErase ==
  ASSUME TypeOK, LocalsInv, DirInv, EraseEntry
  PROVE  DirInv'
<1>1. /\ pc = "free" /\ slot \in Slots /\ Used(slot) /\ dir[slot].name = req.name
      /\ dir' = [dir EXCEPT ![slot].name = DELETED]
  BY DEF EraseEntry, LocalsInv, DirInv
<1>2. /\ dir'[slot].name = DELETED
      /\ \A s \in Slots : s # slot => dir'[s] = dir[s]
  BY <1>1 DEF TypeOK
<1>3. \A s \in Slots : Used(s)' <=> s # slot /\ Used(s)
  BY <1>2 DEF Used
<1>4. \A s \in Slots : \A t \in 1 .. (s - 1) : t \in Slots
  BY Fat16Assumption DEF Slots
<1>5. \A t \in Slots : dir[t].name # END => dir'[t].name # END
  BY <1>2 DEF END, DELETED
<1>6. \A s \in Slots : Used(s)' => Live(s)'
  <2> SUFFICES ASSUME NEW s \in Slots, Used(s)' PROVE Live(s)'
    OBVIOUS
  <2>1. Used(s) /\ Live(s)
    BY <1>3 DEF DirInv, DirectorySound
  <2>2. \A t \in 1 .. (s - 1) : dir'[t].name # END
    BY <1>4, <1>5, <2>1 DEF Live
  <2> QED
    BY <2>2 DEF Live
<1>7. \A s, t \in Slots : Used(s)' /\ dir'[s].name = dir'[t].name => s = t
  <2> SUFFICES ASSUME NEW s \in Slots, NEW t \in Slots, Used(s)', dir'[s].name = dir'[t].name
               PROVE  s = t
    OBVIOUS
  <2>1. s # slot /\ Used(s) /\ dir'[s] = dir[s] /\ dir[s].name # DELETED
    BY <1>2, <1>3 DEF Used
  <2>2. t # slot
    BY <1>2, <2>1
  <2> QED
    BY <1>2, <2>1, <2>2 DEF DirInv, DirectorySound
<1>8. DirectorySound'
  BY <1>6, <1>7 DEF DirectorySound
<1>9. \A s \in Slots : s # slot => dir[s].name # dir[slot].name
  BY <1>1 DEF DirInv, DirectorySound
<1>10. req.name \in FatNames /\ req.name # DELETED
  BY <1>1, Fat16Assumption DEF TypeOK, Used
<1>11. \A s \in Slots : dir'[s].name # req.name
  BY <1>1, <1>2, <1>9, <1>10
<1>12. CASE erase
  BY <1>8, <1>12 DEF DirInv, EraseEntry, Return, Building
<1>13. CASE ~ erase
  <2>1. pc' = "alloc" /\ req' = req
    BY <1>13 DEF EraseEntry
  <2> QED
    BY <1>8, <1>10, <1>11, <2>1 DEF DirInv
<1> QED
  BY <1>12, <1>13

(* A new entry takes the first slot without a file: all slots before it    *)
(* have one, and the name is nowhere else.                                 *)
LEMMA DirWrite ==
  ASSUME TypeOK, LocalsInv, DirInv, WriteEntry
  PROVE  DirInv'
<1>1. PICK n \in Slots :
        /\ FirstSlot(n)
        /\ dir' = [dir EXCEPT ![n] =
                     [name |-> req.name, first |-> first, size |-> req.size]]
  BY DEF WriteEntry
<1>2. /\ dir'[n].name = req.name
      /\ \A s \in Slots : s # n => dir'[s] = dir[s]
  BY <1>1 DEF TypeOK
<1>3. req.name \in FatNames /\ \A s \in Slots : dir[s].name # req.name
  BY DEF WriteEntry, DirInv, Building
<1>4. req.name # END /\ req.name # DELETED
  BY <1>3, Fat16Assumption
<1>5. \A s \in Slots : s # n => (Used(s)' <=> Used(s))
  BY <1>2 DEF Used
<1>6. \A s \in Slots : \A t \in 1 .. (s - 1) : t \in Slots /\ t < s
  BY Fat16Assumption DEF Slots
<1>7. \A t \in Slots : t < n => Used(t)
  BY <1>1, Fat16Assumption DEF FirstSlot, FreeSlots, Slots
<1>8. \A s \in Slots : Used(s)' => Live(s)'
  <2> SUFFICES ASSUME NEW s \in Slots, Used(s)' PROVE Live(s)'
    OBVIOUS
  <2> SUFFICES ASSUME NEW t \in 1 .. (s - 1) PROVE dir'[t].name # END
    BY DEF Live
  <2>1. t \in Slots /\ t < s
    BY <1>6
  <2>2. CASE t = n
    BY <1>2, <1>4, <2>2
  <2>3. CASE t # n /\ s = n
    BY <1>2, <1>7, <2>1, <2>3 DEF Used
  <2>4. CASE t # n /\ s # n
    <3>1. Live(s)
      BY <1>5, <2>4 DEF DirInv, DirectorySound
    <3> QED
      BY <1>2, <2>1, <2>4, <3>1 DEF Live
  <2> QED
    BY <2>2, <2>3, <2>4
<1>9. \A s, t \in Slots : Used(s)' /\ dir'[s].name = dir'[t].name => s = t
  BY <1>2, <1>3, <1>5 DEF DirInv, DirectorySound
<1>10. pc' = "idle"
  BY DEF WriteEntry, Return
<1> QED
  BY <1>8, <1>9, <1>10 DEF DirInv, DirectorySound, Building

LEMMA NextDirInv ==
  ASSUME TypeOK, LocalsInv, DirInv, [Next]_vars
  PROVE  DirInv'
<1>1. CASE \/ \E name \in Names : BeginDelete(name)
           \/ \E name \in Names, val \in Vals, size \in Sizes : BeginWrite(name, val, size)
  BY <1>1, DirBegin
<1>2. CASE EraseEntry \/ WriteEntry
  BY <1>2, DirErase, DirWrite
<1>3. CASE \/ \E name \in Names, buf \in BufSizes : BeginRead(name, buf)
           \/ DiskFull \/ RootFull \/ ReadDone \/ ReadCluster \/ Hang \/ DiskWrite \/ Crash
  <2>1. dir' = dir /\ pc' \in {"idle", "read", "hung"}
    BY <1>3 DEF BeginRead, DiskFull, RootFull, ReadDone, ReadCluster, Hang, DiskWrite, Crash,
                Return, disk
  <2> QED
    BY <2>1, DirNoCall
<1>4. CASE \/ FreeCluster \/ AllocCluster \/ MarkCluster \/ LinkCluster \/ WriteData
  <2>1. dir' = dir /\ req' = req /\ slot' = slot
    BY <1>4 DEF FreeCluster, AllocCluster, MarkCluster, LinkCluster, WriteData, disk
  <2>2. (pc' = "free" => pc = "free") /\ (Building' => Building)
    BY <1>4 DEF FreeCluster, AllocCluster, MarkCluster, LinkCluster, WriteData, NextCopy, Building
  <2> QED
    BY <2>1, <2>2, DirSame
<1>5. CASE UNCHANGED vars
  BY <1>5, DirSame DEF vars, disk, locals, Building
<1> QED
  BY <1>1, <1>2, <1>3, <1>4, <1>5 DEF Next, Step

LEMMA InitDirInv == Init => DirInv
BY DEF Init, DirInv, DirectorySound, Used, Building

-----------------------------------------------------------------------------
(* Lost clusters. *)

Kept(c) ==
  \/ \E s \in Slots : Used(s) /\ dir[s].first = c
  \/ \E d \in Clusters : fat[1][d] = c

LEMMA LeakSame ==
  ASSUME LeakInv, fat'[1] = fat[1], dir' = dir, torn' => leaky', leaky => leaky',
         leaky' \/ pc' = "hung" \/ (pc # "hung" /\ \A c \in Clusters : Held(c) => Held(c)')
  PROVE  LeakInv'
<1>1. CASE leaky' \/ pc' = "hung"
  BY <1>1 DEF LeakInv
<1>2. CASE ~ leaky' /\ pc # "hung" /\ \A c \in Clusters : Held(c) => Held(c)'
  <2> SUFFICES ASSUME NEW c \in Clusters, fat'[1][c] # FREE PROVE Kept(c)' \/ Held(c)'
    BY DEF LeakInv, Kept
  <2>1. Kept(c) \/ Held(c)
    BY <1>2 DEF LeakInv, Kept
  <2>2. Kept(c) => Kept(c)'
    BY DEF Kept, Used
  <2> QED
    BY <1>2, <2>1, <2>2
<1> QED
  BY <1>1, <1>2

(* A cluster is taken out of the chain: its successor is still in hand. *)
LEMMA LeakFree ==
  ASSUME TypeOK, LocalsInv, LeakInv, FreeCluster
  PROVE  LeakInv'
<1>1. /\ pc = "free" /\ pc' = "free" /\ cl \in Clusters /\ dir' = dir /\ f \in 1 .. NumFats
      /\ torn' = torn /\ leaky' = leaky /\ nxt' = IF f = 1 THEN fat[1][cl] ELSE nxt
      /\ IF f < NumFats THEN f' = f + 1 /\ cl' = cl ELSE f' = 1 /\ cl' = nxt'
  BY EntryFacts DEF FreeCluster, NextCopy, history, TypeOK
<1>2. (IF f' = 1 THEN cl' ELSE nxt') = nxt'
  BY <1>1, Fat16Assumption
<1>3. \A c \in Clusters : fat'[1][c] = IF f = 1 /\ c = cl THEN FREE ELSE fat[1][c]
  BY EntryFacts, FatEdit DEF FreeCluster
<1>4. \A c \in Clusters : Held(c)' <=> c = nxt'
  BY <1>1, <1>2 DEF Held, Building
<1> SUFFICES ASSUME ~ leaky, NEW c \in Clusters, fat'[1][c] # FREE PROVE Kept(c)' \/ Held(c)'
  BY <1>1 DEF LeakInv, Kept
<1>5. fat[1][c] # FREE
  BY <1>3
<1>6. Kept(c) \/ Held(c)
  BY <1>1, <1>5 DEF LeakInv, Kept
<1>7. CASE \E s \in Slots : Used(s) /\ dir[s].first = c
  BY <1>1, <1>7 DEF Kept, Used
<1>8. CASE \E d \in Clusters : fat[1][d] = c
  <2>1. PICK d \in Clusters : fat[1][d] = c
    BY <1>8
  <2>2. CASE f = 1 /\ d = cl
    BY <1>1, <1>4, <2>1, <2>2
  <2>3. CASE ~ (f = 1 /\ d = cl)
    BY <1>3, <2>1, <2>3 DEF Kept
  <2> QED
    BY <2>2, <2>3
<1>9. CASE Held(c)
  <2>1. c = IF f = 1 THEN cl ELSE nxt
    BY <1>1, <1>9 DEF Held, Building
  <2>2. f # 1
    BY <1>3, <2>1
  <2> QED
    BY <1>1, <1>4, <2>1, <2>2
<1> QED
  BY <1>6, <1>7, <1>8, <1>9 DEF Kept

(* The erased entry's first cluster is free by now. *)
LEMMA LeakErase ==
  ASSUME FatInv, LeakInv, EraseEntry
  PROVE  LeakInv'
<1> USE DEF FatInv
<1>1. /\ pc = "free" /\ cl \notin Clusters /\ fat' = fat /\ torn' = torn /\ leaky' = leaky
      /\ slot \in Slots /\ Used(slot) /\ f = 1
      /\ dir' = [dir EXCEPT ![slot].name = DELETED]
  BY EntryFacts, Fat16Assumption DEF EraseEntry, history, TypeOK, LocalsInv
<1>2. pc' \in {"idle", "alloc"}
  BY DEF EraseEntry, Return
<1> SUFFICES ASSUME ~ leaky, NEW c \in Clusters, fat[1][c] # FREE PROVE Kept(c)'
  BY <1>1, <1>2 DEF LeakInv, Kept
<1>3. ~ Held(c)
  BY <1>1 DEF Held, Building
<1>4. Kept(c)
  BY <1>1, <1>3 DEF LeakInv, Kept
<1>5. ~ torn /\ dir[slot].first \in Clusters
  BY <1>1 DEF LeakInv, LocalsInv
<1>6. ~ Intact(slot)
  BY <1>1, <1>5 DEF InHand
<1>7. dir[slot].first # c
  BY <1>1, <1>6 DEF Intact
<1>8. \A s \in Slots : s # slot => dir'[s] = dir[s]
  BY <1>1 DEF TypeOK
<1>9. ASSUME NEW s \in Slots, Used(s), dir[s].first = c
      PROVE  Used(s)' /\ dir'[s].first = c
  BY <1>7, <1>8, <1>9 DEF Used
<1> QED
  BY <1>1, <1>4, <1>9 DEF Kept

LEMMA LeakMark ==
  ASSUME TypeOK, LocalsInv, LeakInv, MarkCluster
  PROVE  LeakInv'
<1>1. /\ pc = "mark" /\ cl \in Clusters /\ dir' = dir /\ f \in 1 .. NumFats /\ cl' = cl
      /\ torn' = torn /\ leaky' = leaky /\ first' = first /\ k' = k /\ (k = 0) = (prev = 0)
      /\ f = 1 => fat[1][cl] = FREE
  BY DEF MarkCluster, history, TypeOK, LocalsInv
<1>2. IF f < NumFats THEN f' = f + 1 /\ pc' = "mark"
      ELSE f' = 1 /\ pc' = IF prev # 0 THEN "link" ELSE "data"
  BY <1>1 DEF MarkCluster, NextCopy
<1>3. \A c \in Clusters : fat'[1][c] = IF f = 1 /\ c = cl THEN EOC ELSE fat[1][c]
  BY EntryFacts, FatEdit DEF MarkCluster
<1>4. \A c \in Clusters : Held(c)' <=> c = first \/ c = cl
  <2>1. Building' /\ ((pc' = "mark" /\ f' > 1) \/ (pc' = "link" /\ f' = 1) \/ (pc' = "data" /\ k' = 0))
    BY <1>1, <1>2, Fat16Assumption DEF Building
  <2>2. pc' # "free"
    BY <1>2
  <2> QED
    BY <1>1, <2>1, <2>2 DEF Held
<1> SUFFICES ASSUME ~ leaky, NEW c \in Clusters, fat'[1][c] # FREE, c # cl
             PROVE  Kept(c)' \/ Held(c)'
  BY <1>1, <1>4 DEF LeakInv, Kept
<1>5. Kept(c) \/ Held(c)
  BY <1>1, <1>3 DEF LeakInv, Kept
<1>6. Held(c) => Held(c)'
  BY <1>1, <1>4 DEF Held, Building
<1>7. Kept(c) => Kept(c)'
  <2>1. \A d \in Clusters : fat[1][d] = c => fat'[1][d] = c
    BY <1>1, <1>3, EntryFacts
  <2> QED
    BY <1>1, <2>1 DEF Kept, Used
<1> QED
  BY <1>5, <1>6, <1>7

LEMMA LeakLink ==
  ASSUME TypeOK, LocalsInv, LeakInv, LinkCluster
  PROVE  LeakInv'
<1>1. /\ pc = "link" /\ cl \in Clusters /\ dir' = dir /\ f \in 1 .. NumFats /\ cl' = cl
      /\ torn' = torn /\ leaky' = leaky /\ first' = first /\ prev \in Clusters
      /\ f = 1 => fat[1][prev] = EOC
  BY DEF LinkCluster, history, TypeOK, LocalsInv
<1>2. pc' \in {"link", "data"}
  BY <1>1 DEF LinkCluster, NextCopy
<1>3. \A c \in Clusters : fat'[1][c] = IF f = 1 /\ c = prev THEN cl ELSE fat[1][c]
  BY <1>1, EntryFacts, FatEdit DEF LinkCluster
<1> SUFFICES ASSUME ~ leaky, NEW c \in Clusters, fat'[1][c] # FREE
             PROVE  Kept(c)' \/ Held(c)'
  BY <1>1 DEF LeakInv, Kept
<1>4. fat[1][c] # FREE
  BY <1>1, <1>3, EntryFacts
<1>5. Kept(c) \/ Held(c)
  BY <1>1, <1>4 DEF LeakInv, Kept
<1>6. Kept(c) => Kept(c)'
  <2>1. \A d \in Clusters : fat[1][d] = c => fat'[1][d] = c
    BY <1>1, <1>3, EntryFacts
  <2> QED
    BY <1>1, <2>1 DEF Kept, Used
<1>7. CASE Held(c) /\ c = first
  BY <1>1, <1>2, <1>7 DEF Held, Building
<1>8. CASE Held(c) /\ c # first
  <2>1. c = cl /\ f = 1
    BY <1>1, <1>8 DEF Held, Building
  <2>2. fat'[1][prev] = c
    BY <1>1, <1>3, <2>1
  <2> QED
    BY <1>1, <2>2 DEF Kept
<1> QED
  BY <1>5, <1>6, <1>7, <1>8

(* The new file's entry refers to its first cluster. *)
LEMMA LeakEntry ==
  ASSUME TypeOK, LocalsInv, DirInv, LeakInv, WriteEntry
  PROVE  LeakInv'
<1>1. pc = "dir" /\ pc' = "idle" /\ fat' = fat /\ torn' = torn /\ leaky' = leaky
  BY DEF WriteEntry, history, Return
<1>2. PICK n \in Slots :
        /\ FirstSlot(n)
        /\ dir' = [dir EXCEPT ![n] =
                     [name |-> req.name, first |-> first, size |-> req.size]]
  BY DEF WriteEntry
<1>3. /\ ~ Used(n) /\ dir'[n].first = first /\ dir'[n].name = req.name
      /\ \A s \in Slots : s # n => dir'[s] = dir[s]
  BY <1>2 DEF TypeOK, FirstSlot, FreeSlots
<1>4. Used(n)'
  BY <1>1, <1>3, Fat16Assumption DEF Used, DirInv, Building
<1> SUFFICES ASSUME ~ leaky, NEW c \in Clusters, fat[1][c] # FREE PROVE Kept(c)'
  BY <1>1 DEF LeakInv, Kept
<1>5. Kept(c) \/ Held(c)
  BY <1>1 DEF LeakInv, Kept
<1>6. Held(c) => c = first
  BY <1>1 DEF Held
<1>7. \A s \in Slots : Used(s) => Used(s)' /\ dir'[s].first = dir[s].first
  BY <1>3 DEF Used
<1> QED
  BY <1>1, <1>3, <1>4, <1>5, <1>6, <1>7 DEF Kept

LEMMA NextLeakInv ==
  ASSUME FatInv, DirInv, LeakInv, [Next]_vars
  PROVE  LeakInv'
<1> USE DEF FatInv
<1>1. CASE \/ \E name \in Names : BeginDelete(name)
           \/ \E name \in Names, val \in Vals, size \in Sizes : BeginWrite(name, val, size)
           \/ \E name \in Names, buf \in BufSizes : BeginRead(name, buf)
           \/ ReadCluster \/ ReadDone
  <2>1. pc \in {"idle", "read"} /\ fat' = fat /\ dir' = dir /\ torn' = torn /\ leaky' = leaky
    BY <1>1 DEF BeginDelete, BeginWrite, BeginRead, ReadCluster, ReadDone, disk, history
  <2>2. \A c \in Clusters : ~ Held(c)
    BY <2>1 DEF Held, Building
  <2> QED
    BY <2>1, <2>2, LeakSame DEF LeakInv
<1>2. CASE FreeCluster
  BY <1>2, LeakFree
<1>3. CASE EraseEntry
  BY <1>3, LeakErase
<1>4. CASE AllocCluster
  <2>1. /\ pc = "alloc" /\ pc' = "mark" /\ fat' = fat /\ dir' = dir /\ torn' = torn
        /\ leaky' = leaky /\ first' = first
    BY <1>4 DEF AllocCluster, disk, history
  <2>2. \A c \in Clusters : Held(c) => Held(c)'
    BY <2>1 DEF Held, Building
  <2> QED
    BY <2>1, <2>2, LeakSame DEF LeakInv
<1>5. CASE DiskFull
  <2>1. /\ pc = "alloc" /\ fat' = fat /\ dir' = dir /\ torn' = torn
        /\ leaky' <=> leaky \/ k > 0
    BY <1>5 DEF DiskFull, disk
  <2>2. ~ leaky' => first = 0
    BY <2>1 DEF LocalsInv, TypeOK
  <2>3. ~ leaky' => \A c \in Clusters : ~ Held(c)
    BY <2>1, <2>2, EntryFacts DEF Held
  <2> QED
    BY <2>1, <2>3, LeakSame DEF LeakInv
<1>6. CASE MarkCluster
  BY <1>6, LeakMark
<1>7. CASE LinkCluster
  BY <1>7, LeakLink
<1>8. CASE WriteData
  <2>1. /\ pc = "data" /\ pc' \in {"alloc", "dir"} /\ fat' = fat /\ dir' = dir /\ torn' = torn
        /\ leaky' = leaky /\ first' = IF k = 0 THEN cl ELSE first
        /\ (k = 0) <=> (first = 0)
    BY <1>8 DEF WriteData, history, LocalsInv
  <2>2. \A c \in Clusters : Held(c) => c = first'
    BY <2>1, EntryFacts DEF Held, Building
  <2>3. \A c \in Clusters : Held(c) => Held(c)'
    BY <2>1, <2>2 DEF Held, Building
  <2> QED
    BY <2>1, <2>3, LeakSame DEF LeakInv
<1>9. CASE WriteEntry
  BY <1>9, LeakEntry
<1>10. CASE RootFull \/ Hang
  <2>1. fat' = fat /\ dir' = dir /\ torn' = torn /\ (leaky' \/ (leaky' = leaky /\ pc' = "hung"))
    BY <1>10 DEF RootFull, Hang, disk, history
  <2> QED
    BY <2>1, LeakSame DEF LeakInv
<1>11. CASE DiskWrite
  <2>1. fat'[1] = fat[1] /\ dir' = dir /\ torn' = torn /\ leaky' = leaky /\ pc = "idle"
    BY <1>11, DiskWriteTypes DEF DiskWrite, history
  <2>2. \A c \in Clusters : ~ Held(c)
    BY <2>1 DEF Held, Building
  <2> QED
    BY <2>1, <2>2, LeakSame DEF LeakInv
<1>12. CASE Crash
  <2>1. /\ fat' = fat /\ dir' = dir /\ (leaky' <=> leaky \/ pc # "read")
        /\ pc = "read" => (torn' => torn)
    BY <1>12 DEF Crash, disk
  <2>2. pc = "read" => \A c \in Clusters : ~ Held(c)
    BY DEF Held, Building
  <2> QED
    BY <2>1, <2>2, LeakSame DEF LeakInv
<1>13. CASE UNCHANGED vars
  BY <1>13 DEF vars, disk, locals, history, LeakInv, Held, Used, Building
<1> QED
  BY <1>1, <1>2, <1>3, <1>4, <1>5, <1>6, <1>7, <1>8, <1>9, <1>10, <1>11, <1>12, <1>13 DEF Next, Step

LEMMA InitLeakInv == Init => LeakInv
BY Fat16Assumption DEF Init, LeakInv

-----------------------------------------------------------------------------
(* The copies of the FAT. *)

LEMMA CopyEdit ==
  ASSUME TypeOK, NEW x \in Clusters, NEW v, WriteCopy(x, v)
  PROVE  \A i \in 1 .. NumFats, c \in Clusters :
           fat'[i][c] = IF i = f /\ c = x THEN v ELSE fat[i][c]
<1>1. /\ fat \in [1 .. NumFats -> [Clusters -> Entry \cup {Junk}]] /\ f \in 1 .. NumFats
      /\ fat' = [fat EXCEPT ![f][x] = v]
  BY DEF TypeOK, WriteCopy
<1> SUFFICES ASSUME NEW i \in 1 .. NumFats, NEW c \in Clusters
             PROVE  fat'[i][c] = IF i = f /\ c = x THEN v ELSE fat[i][c]
  OBVIOUS
<1>2. CASE i = f
  <2>1. fat'[i] = [fat[i] EXCEPT ![x] = v] /\ fat[i] \in [Clusters -> Entry \cup {Junk}]
    BY <1>1, <1>2
  <2> QED
    BY <1>2, <2>1
<1>3. CASE i # f
  BY <1>1, <1>3
<1> QED
  BY <1>2, <1>3

LEMMA MirrorSame ==
  ASSUME MirrorInv, fat' = fat, crashes' = crashes, f = 1, f' = 1
  PROVE  MirrorInv'
<1>1. crashes = 0 =>
        \A c \in Clusters : \/ \A i \in 1 .. NumFats : fat[i][c] = fat[1][c]
                            \/ \E i \in 2 .. NumFats : fat[i][c] = Junk
  BY DEF MirrorInv, MirrorKept, InStep
<1>2. MirrorKept'
  BY <1>1 DEF MirrorKept, InStep
<1> QED
  BY <1>2 DEF MirrorInv

(* fat_write_entry goes on to the next copy, or has done them all. *)
LEMMA MirrorCopy ==
  ASSUME TypeOK, MirrorInv, crashes' = crashes,
         pc \in {"free", "mark", "link"}, Target \in Clusters, WriteCopy(Target, Value),
         IF f < NumFats THEN f' = f + 1 /\ pc' = pc /\ cl' = cl /\ prev' = prev ELSE f' = 1
  PROVE  MirrorInv'
<1>1. PICK x \in Clusters, v \in {Value} : x = Target /\ v = Value
  BY Zenon
<1>2. \A i \in 1 .. NumFats, c \in Clusters :
        fat'[i][c] = IF i = f /\ c = x THEN v ELSE fat[i][c]
  BY <1>1, CopyEdit
<1>3. f \in 1 .. NumFats /\ NumFats \in Nat \ {0} /\ \A i \in 1 .. (f - 1) : fat[i][x] = v
  BY <1>1, Fat16Assumption DEF TypeOK, MirrorInv
<1>4. \A i \in 1 .. f : fat'[i][x] = v
  <2> TAKE i \in 1 .. f
  <2>1. i \in 1 .. NumFats /\ (i = f \/ i \in 1 .. (f - 1))
    BY <1>3
  <2> QED
    BY <1>2, <1>3, <2>1
<1>5. f < NumFats => Target' = x /\ Value' = v /\ f' = f + 1
  BY <1>1 DEF Target, Value
<1>6. \A i \in 1 .. (f' - 1) : fat'[i][Target'] = Value'
  <2>1. CASE f < NumFats
    BY <1>3, <1>4, <1>5, <2>1
  <2>2. CASE ~ (f < NumFats)
    BY <2>2
  <2> QED
    BY <2>1, <2>2
<1>7. ASSUME crashes = 0, NEW c \in Clusters
      PROVE  InStep(c)' \/ \E i \in 2 .. NumFats : fat'[i][c] = Junk
  <2>1. CASE c = x /\ f < NumFats
    <3>1. f' > 1 /\ c = Target'
      BY <1>3, <1>5, <2>1
    <3> QED
      BY <3>1 DEF InStep, Target
  <2>2. CASE c = x /\ ~ (f < NumFats)
    <3>1. \A i \in 1 .. NumFats : fat'[i][c] = v
      BY <1>3, <1>4, <2>2
    <3>2. 1 \in 1 .. NumFats
      BY <1>3
    <3> QED
      BY <3>1, <3>2 DEF InStep
  <2>3. CASE c # x
    <3>1. \A i \in 1 .. NumFats : fat'[i][c] = fat[i][c]
      BY <1>2, <2>3
    <3>2. \/ \A i \in 1 .. NumFats : fat[i][c] = fat[1][c]
          \/ \E i \in 2 .. NumFats : fat[i][c] = Junk
      BY <1>1, <1>7, <2>3 DEF MirrorInv, MirrorKept, InStep, Target
    <3>3. 1 \in 1 .. NumFats /\ \A i \in 2 .. NumFats : i \in 1 .. NumFats
      BY <1>3
    <3> QED
      BY <3>1, <3>2, <3>3 DEF InStep
  <2> QED
    BY <2>1, <2>2, <2>3
<1>8. MirrorKept'
  BY <1>7 DEF MirrorKept
<1> QED
  BY <1>6, <1>8 DEF MirrorInv

LEMMA MirrorDiskWrite ==
  ASSUME TypeOK, LocalsInv, MirrorInv, DiskWrite
  PROVE  MirrorInv'
<1>1. f = 1 /\ f' = 1 /\ crashes' = crashes /\ 2 \in 1 .. NumFats /\ 2 \in 2 .. NumFats
  BY Fat16Assumption DEF DiskWrite, LocalsInv, locals, history
<1> DEFINE g == [c \in Clusters |-> IF c \in RawClusters THEN Junk ELSE fat[2][c]]
<1>2. fat' = [fat EXCEPT ![2] = g] /\ fat \in [1 .. NumFats -> [Clusters -> Entry \cup {Junk}]]
  BY DEF DiskWrite, TypeOK
<1>3. \A c \in Clusters : g[c] = IF c \in RawClusters THEN Junk ELSE fat[2][c]
  OBVIOUS
<1> HIDE DEF g
<1>4. \A i \in 1 .. NumFats, c \in Clusters :
        fat'[i][c] = IF i = 2 /\ c \in RawClusters THEN Junk ELSE fat[i][c]
  BY <1>1, <1>2, <1>3
<1>5. ASSUME crashes = 0, NEW c \in Clusters
      PROVE  InStep(c)' \/ \E i \in 2 .. NumFats : fat'[i][c] = Junk
  <2>1. CASE c \in RawClusters
    BY <1>1, <1>4, <2>1
  <2>2. CASE c \notin RawClusters
    <3>1. \A i \in 1 .. NumFats : fat'[i][c] = fat[i][c]
      BY <1>4, <2>2
    <3>2. \/ \A i \in 1 .. NumFats : fat[i][c] = fat[1][c]
          \/ \E i \in 2 .. NumFats : fat[i][c] = Junk
      BY <1>1, <1>5 DEF MirrorInv, MirrorKept, InStep
    <3>3. 1 \in 1 .. NumFats /\ \A i \in 2 .. NumFats : i \in 1 .. NumFats
      BY Fat16Assumption
    <3> QED
      BY <3>1, <3>2, <3>3 DEF InStep
  <2> QED
    BY <2>1, <2>2
<1>6. MirrorKept'
  BY <1>1, <1>5 DEF MirrorKept
<1> QED
  BY <1>1, <1>6 DEF MirrorInv

LEMMA NextMirrorInv ==
  ASSUME FatInv, MirrorInv, [Next]_vars
  PROVE  MirrorInv'
<1> USE DEF FatInv
<1>1. CASE FreeCluster
  <2>1. /\ pc = "free" /\ pc' = "free" /\ cl \in Clusters /\ crashes' = crashes /\ prev' = prev
        /\ WriteCopy(cl, FREE)
        /\ IF f < NumFats THEN f' = f + 1 /\ cl' = cl ELSE f' = 1
    BY <1>1, EntryFacts DEF FreeCluster, NextCopy, history, TypeOK
  <2>2. Target = cl /\ Value = FREE
    BY <2>1 DEF Target, Value
  <2> QED
    BY <2>1, <2>2, MirrorCopy
<1>2. CASE MarkCluster
  <2>1. /\ pc = "mark" /\ cl \in Clusters /\ crashes' = crashes /\ prev' = prev /\ cl' = cl
        /\ WriteCopy(cl, EOC)
        /\ IF f < NumFats THEN f' = f + 1 /\ pc' = pc ELSE f' = 1
    BY <1>2 DEF MarkCluster, NextCopy, history, LocalsInv
  <2>2. Target = cl /\ Value = EOC
    BY <2>1 DEF Target, Value
  <2> QED
    BY <2>1, <2>2, MirrorCopy
<1>3. CASE LinkCluster
  <2>1. /\ pc = "link" /\ prev \in Clusters /\ crashes' = crashes /\ prev' = prev /\ cl' = cl
        /\ WriteCopy(prev, cl)
        /\ IF f < NumFats THEN f' = f + 1 /\ pc' = pc ELSE f' = 1
    BY <1>3 DEF LinkCluster, NextCopy, history, LocalsInv, TypeOK
  <2>2. Target = prev /\ Value = cl
    BY <2>1 DEF Target, Value
  <2> QED
    BY <2>1, <2>2, MirrorCopy
<1>4. CASE DiskWrite
  BY <1>4, MirrorDiskWrite
<1>5. CASE \/ \E name \in Names : BeginDelete(name)
           \/ \E name \in Names, val \in Vals, size \in Sizes : BeginWrite(name, val, size)
           \/ \E name \in Names, buf \in BufSizes : BeginRead(name, buf)
           \/ AllocCluster \/ WriteData \/ ReadCluster \/ Hang
  <2>1. pc \in {"idle", "alloc", "data", "read"} /\ fat' = fat /\ crashes' = crashes /\ f' = f
    BY <1>5 DEF BeginDelete, BeginWrite, BeginRead, AllocCluster, WriteData, ReadCluster, Hang,
                disk, locals, history
  <2>2. f = 1
    BY <2>1 DEF LocalsInv
  <2> QED
    BY <2>1, <2>2, MirrorSame
<1>6. CASE EraseEntry \/ DiskFull \/ WriteEntry \/ RootFull \/ ReadDone
  <2>1. f = 1
    <3>1. CASE EraseEntry
      BY <3>1, EntryFacts, Fat16Assumption DEF EraseEntry, LocalsInv, TypeOK
    <3>2. CASE DiskFull \/ WriteEntry \/ RootFull \/ ReadDone
      BY <3>2 DEF DiskFull, WriteEntry, RootFull, ReadDone, LocalsInv
    <3> QED
      BY <1>6, <3>1, <3>2
  <2>2. f' = 1 /\ fat' = fat /\ crashes' = crashes
    BY <1>6, <2>1 DEF EraseEntry, DiskFull, WriteEntry, RootFull, ReadDone, Return, Forget,
                      disk, history
  <2> QED
    BY <2>1, <2>2, MirrorSame
<1>7. CASE Crash
  <2>1. crashes' # 0 /\ pc' = "idle"
    BY <1>7 DEF Crash, Return, TypeOK
  <2> QED
    BY <2>1 DEF MirrorInv, MirrorKept
<1>8. CASE UNCHANGED vars
  <2>1. UNCHANGED <<fat, pc, cl, prev, f, crashes>>
    BY <1>8 DEF vars, disk, locals, history
  <2>2. Target' = Target /\ Value' = Value /\ MirrorKept'
    BY <2>1 DEF Target, Value, MirrorInv, MirrorKept, InStep
  <2> QED
    BY <2>1, <2>2 DEF MirrorInv
<1> QED
  BY <1>1, <1>2, <1>3, <1>4, <1>5, <1>6, <1>7, <1>8 DEF Next, Step

LEMMA InitMirrorInv == Init => MirrorInv
<1> SUFFICES ASSUME Init PROVE MirrorInv
  OBVIOUS
<1>1. \A i \in 1 .. NumFats, c \in Clusters : fat[i][c] = FREE
  BY DEF Init
<1>2. 1 \in 1 .. NumFats
  BY Fat16Assumption
<1>3. MirrorKept
  BY <1>1, <1>2 DEF MirrorKept, InStep
<1> QED
  BY <1>3 DEF Init, MirrorInv

-----------------------------------------------------------------------------
DiskInv == FatInv /\ DirInv /\ LeakInv /\ MirrorInv

(* All of it holds at every sector that fat16.c writes. *)
THEOREM DiskInvariance == Spec => []DiskInv
<1>1. Init => DiskInv
  BY InitFatInv, InitDirInv, InitLeakInv, InitMirrorInv DEF DiskInv
<1>2. ASSUME DiskInv, [Next]_vars
      PROVE  DiskInv'
  <2>1. FatInv /\ DirInv /\ LeakInv /\ MirrorInv /\ TypeOK /\ LocalsInv
    BY <1>2 DEF DiskInv, FatInv
  <2>2. FatInv' /\ DirInv' /\ LeakInv' /\ MirrorInv'
    BY <1>2, <2>1, NextFatInv, NextDirInv, NextLeakInv, NextMirrorInv
  <2> QED
    BY <2>2 DEF DiskInv
<1> QED
  BY <1>1, <1>2, PTL DEF Spec

(* In the root directory every file can be found and no name occurs twice, *)
(* at every sector write and through any resets: fat16_write_file may look *)
(* for a free entry without regard to the end marker, since it takes the   *)
(* first one, and need not look for the name again, since it has deleted   *)
(* it.                                                                     *)
THEOREM DirectoryIsSound == Spec => []DirectorySound
<1>1. DiskInv => DirectorySound
  BY DEF DiskInv, DirInv
<1> QED
  BY <1>1, DiskInvariance, PTL

(* fat16_write_file and fat16_delete_file lose clusters only by a failed   *)
(* write ("Disk full!", "Root directory full!") or a reset.                *)
THEOREM NoClusterLost == Spec => []NoLeak
<1>1. DiskInv => NoLeak
  <2> SUFFICES ASSUME DiskInv, pc = "idle", ~ leaky, NEW c \in Clusters, fat[1][c] # FREE
               PROVE  \/ \E s \in Slots : Used(s) /\ dir[s].first = c
                      \/ \E d \in Clusters : fat[1][d] = c
    BY DEF NoLeak
  <2>1. ~ Held(c)
    BY DEF Held, Building
  <2> QED
    BY <2>1 DEF DiskInv, LeakInv
<1> QED
  BY <1>1, DiskInvariance, PTL

(* fat_write_entry keeps all copies of the FAT equal, however many there   *)
(* are, but for the entry it is writing and what `diskwrite' destroys.     *)
THEOREM CopiesInStep == Spec => []MirrorKept
<1>1. DiskInv => MirrorKept
  BY DEF DiskInv, MirrorInv
<1> QED
  BY <1>1, DiskInvariance, PTL
-----------------------------------------------------------------------------
(* The contents of the files. *)

(* w is the walk along the FAT F from cluster c through n clusters. *)
Walk(F, w, c, n) ==
  /\ w \in [0 .. (n - 1) -> Clusters]
  /\ n > 0 => w[0] = c
  /\ \A i \in 1 .. (n - 1) : w[i] = F[w[i - 1]]

(* Every file has all the clusters that its size calls for. *)
FilesWhole ==
  ~ torn =>
    \A s \in Slots : Intact(s) =>
      \E w \in [0 .. (Needed(dir[s].size) - 1) -> Clusters] :
        Walk(fat[1], w, dir[s].first, Needed(dir[s].size))

(* What a running write has built: a chain of k clusters from first to     *)
(* prev, whose sectors hold the first k sectors of the new contents,       *)
(* except those that the drive does not have.                              *)
Stored(w) ==
  /\ Walk(fat[1], w, first, k) /\ w[k - 1] = prev
  /\ \A i \in 0 .. (k - 1) : OnDisk(w[i]) => data[w[i]] = <<req.val, i>>

WriteInv ==
  /\ (pc = "free" /\ ~ erase) \/ Building => req.val \in Vals /\ req.size \in Sizes
  /\ Building =>
       /\ k <= Needed(req.size)
       /\ k = Needed(req.size) <=> pc = "dir"
       /\ k # 0 => \E w \in [0 .. (k - 1) -> Clusters] : Stored(w)
       /\ k # 0 /\ ((pc = "link" /\ f > 1) \/ pc = "data") => fat[1][prev] = cl

(* What a running read has copied: from the first sectors of the file, in  *)
(* order, want bytes or as many as j sectors have.                         *)
Wanted == IF dir[slot].size < req.size THEN dir[slot].size ELSE req.size

Pieces == ((Vals \cup {NoVal}) \X Nat) \X Nat

Copied(w, j) ==
  /\ out \in Seq(Pieces)
  /\ Walk(fat[1], w, dir[slot].first, Needed(dir[slot].size))
  /\ j < Needed(dir[slot].size) => cl = w[j]
  /\ k = IF j * SectorBytes < Wanted THEN j * SectorBytes ELSE Wanted
  /\ Len(out) <= j
  /\ Len(out) < j => Len(out) * SectorBytes >= Wanted
  /\ Len(out) > 0 => (Len(out) - 1) * SectorBytes < Wanted
  /\ \A i \in 1 .. Len(out) :
       out[i] = <<data[w[i - 1]],
                  IF i * SectorBytes <= Wanted THEN SectorBytes
                  ELSE Wanted - (i - 1) * SectorBytes>>

ReadInv ==
  /\ pc # "idle" => ret = "none"
  /\ pc \notin {"read", "hung"} => out = <<>>
  /\ pc = "read" => dir[slot].name = req.name
  /\ pc = "read" /\ ~ torn =>
       \E j \in 0 .. Needed(dir[slot].size),
          w \in [0 .. (Needed(dir[slot].size) - 1) -> Clusters] : Copied(w, j)

ContentInv == FilesWhole /\ WriteInv /\ ReadInv
-----------------------------------------------------------------------------
(* Numbers. *)

(* A set of natural numbers that is not empty has a least element. *)
LEMMA LeastIn ==
  ASSUME NEW S \in SUBSET Nat, S # {}
  PROVE  \E d \in S : \A e \in S : d <= e
<1>1. PICK d \in S : \A e \in S : ~ (<<e, d>> \in OpToRel(<, Nat))
  BY NatLessThanWellFounded, WFMin, Zenon
<1>2. \A e \in S : ~ (e < d)
  <2> SUFFICES ASSUME NEW e \in S, e < d PROVE FALSE
    OBVIOUS
  <2>1. <<e, d>> \in OpToRel(<, Nat)
    BY DEF OpToRel
  <2> QED
    BY <1>1, <2>1, Zenon
<1> QED
  BY <1>2

(* clusters_needed: one cluster at least, and room for the file. *)
LEMMA NeededIs ==
  ASSUME NEW size \in Nat
  PROVE  Needed(size) \in Nat /\ Needed(size) > 0 /\ Needed(size) * SectorBytes >= size
<1>1. SectorBytes \in Nat /\ SectorBytes > 0
  BY Fat16Assumption
<1> DEFINE q == (size + SectorBytes - 1) \div SectorBytes
<1>2. CASE size = 0
  BY <1>1, <1>2 DEF Needed
<1>3. CASE size # 0
  <2>1. size + SectorBytes - 1 \in Nat
    BY <1>1
  <2>2. q \in Nat /\ q * SectorBytes <= size + SectorBytes - 1
          /\ size + SectorBytes - 1 < (q + 1) * SectorBytes
    BY <1>1, <2>1, Z3
  <2> HIDE DEF q
  <2>3. (q + 1) * SectorBytes = q * SectorBytes + SectorBytes
    BY <1>1, <2>2, Z3
  <2>4. q * SectorBytes >= size
    BY <1>1, <2>2, <2>3, Z3
  <2>5. q > 0
    BY <1>1, <1>3, <2>2, <2>4, Z3
  <2> QED
    BY <1>3, <2>2, <2>4, <2>5 DEF Needed, q
<1> QED
  BY <1>2, <1>3

-----------------------------------------------------------------------------
(* Walks. *)

(* SectorsFrom in the FAT F with the data sectors D, and what it finds on  *)
(* a walk w that meets clusters only.                                      *)
SectorsIn(F, D, c, n) ==
  LET at[i \in 0 .. (n - 1)] ==
        IF i = 0 THEN c
        ELSE IF at[i - 1] \in Clusters THEN F[at[i - 1]] ELSE at[i - 1]
  IN  [i \in 0 .. (n - 1) |-> IF at[i] \in Clusters THEN D[at[i]] ELSE Blank]

LEMMA SectorsAre ==
  ASSUME NEW F, NEW D, NEW c, NEW n \in Nat \ {0}, NEW w, Walk(F, w, c, n)
  PROVE  SectorsIn(F, D, c, n) = [i \in 0 .. (n - 1) |-> D[w[i]]]
<1> DEFINE at[i \in 0 .. (n - 1)] ==
             IF i = 0 THEN c
             ELSE IF at[i - 1] \in Clusters THEN F[at[i - 1]] ELSE at[i - 1]
           R(g) == g = [i \in 0 .. (n - 1) |->
                          IF i = 0 THEN c
                          ELSE IF g[i - 1] \in Clusters THEN F[g[i - 1]] ELSE g[i - 1]]
<1>1. SectorsIn(F, D, c, n) =
        [i \in 0 .. (n - 1) |-> IF at[i] \in Clusters THEN D[at[i]] ELSE Blank]
  BY DEF SectorsIn
<1>2. R(w)
  BY DEF Walk
<1>3. at = CHOOSE g : R(g)
  OBVIOUS
<1>4. R(at)
  <2> HIDE DEF at, R
  <2> QED
    BY <1>2, <1>3
<1> HIDE DEF at
<1> DEFINE Bad == {i \in 0 .. (n - 1) : at[i] # w[i]}
<1>5. Bad = {}
  <2> SUFFICES ASSUME Bad # {} PROVE FALSE
    OBVIOUS
  <2>1. PICK i \in Bad : \A e \in Bad : i <= e
    <3>1. Bad \in SUBSET Nat
      OBVIOUS
    <3> HIDE DEF Bad
    <3> QED
      BY <3>1, LeastIn
  <2>2. CASE i = 0
    BY <1>4, <2>2 DEF Walk
  <2>3. CASE i # 0
    <3>1. i - 1 \in 0 .. (n - 1) /\ i \in 1 .. (n - 1) /\ at[i - 1] = w[i - 1]
      BY <2>1, <2>3
    <3>2. w[i - 1] \in Clusters /\ w[i] = F[w[i - 1]]
      BY <3>1 DEF Walk
    <3>3. at[i] = IF at[i - 1] \in Clusters THEN F[at[i - 1]] ELSE at[i - 1]
      BY <1>4, <2>3, <3>1
    <3> QED
      BY <3>1, <3>2, <3>3
  <2> QED
    BY <2>2, <2>3
<1>6. \A i \in 0 .. (n - 1) : at[i] = w[i] /\ w[i] \in Clusters
  BY <1>5 DEF Walk
<1> QED
  BY <1>1, <1>6

(* What is on the disk, before and after a step. *)
LEMMA SectorsFromIs ==
  ASSUME NEW c, NEW n
  PROVE  /\ SectorsFrom(c, n) = SectorsIn(fat[1], data, c, n)
         /\ SectorsFrom(c, n)' = SectorsIn(fat'[1], data', c, n)
BY DEF SectorsFrom, SectorsIn

(* No entry of F outside W leads into W. *)
Sealed(F, W) == W \subseteq Clusters /\ \A c \in Clusters : F[c] \in W => c \in W

(* A walk that starts outside such a set stays outside, and is not changed *)
(* by a step that changes only what is inside.                             *)
LEMMA WalkKept ==
  ASSUME NEW F, NEW c, NEW n \in Nat, NEW w, Walk(F, w, c, n), NEW W, Sealed(F, W), c \notin W,
         NEW G, \A d \in Clusters \ W : G[d] = F[d]
  PROVE  Walk(G, w, c, n) /\ \A i \in 0 .. (n - 1) : w[i] \in Clusters \ W
<1> DEFINE Bad == {i \in 0 .. (n - 1) : w[i] \in W}
<1>1. Bad = {}
  <2> SUFFICES ASSUME Bad # {} PROVE FALSE
    OBVIOUS
  <2>1. PICK i \in Bad : \A e \in Bad : i <= e
    <3>1. Bad \in SUBSET Nat
      OBVIOUS
    <3> HIDE DEF Bad
    <3> QED
      BY <3>1, LeastIn
  <2>2. i # 0
    BY <2>1 DEF Walk
  <2>3. i - 1 \in 0 .. (n - 1) /\ i \in 1 .. (n - 1) /\ i - 1 \notin Bad
    BY <2>1, <2>2
  <2>4. w[i - 1] \in Clusters /\ F[w[i - 1]] \in W
    BY <2>1, <2>3 DEF Walk
  <2> QED
    BY <2>3, <2>4 DEF Sealed
<1>2. \A i \in 0 .. (n - 1) : w[i] \in Clusters \ W
  BY <1>1 DEF Walk
<1>3. \A i \in 1 .. (n - 1) : i - 1 \in 0 .. (n - 1)
  OBVIOUS
<1> QED
  BY <1>2, <1>3 DEF Walk

-----------------------------------------------------------------------------
(* What a step does to the files. *)

(* Outside W the step changes neither the first FAT nor a data sector. *)
Agree(W) == \A d \in Clusters \ W : fat'[1][d] = fat[1][d] /\ data'[d] = data[d]

(* A file that does not start inside W is what it was. *)
LEMMA FileKept ==
  ASSUME TypeOK, LocalsInv, FilesWhole, ~ torn, NEW s \in Slots, Intact(s), dir'[s] = dir[s],
         NEW W, Sealed(fat[1], W), dir[s].first \notin W, Agree(W)
  PROVE  /\ Intact(s)'
         /\ \E w \in [0 .. (Needed(dir[s].size) - 1) -> Clusters] :
              Walk(fat'[1], w, dir[s].first, Needed(dir[s].size))
         /\ SectorsIn(fat'[1], data', dir[s].first, Needed(dir[s].size))
              = SectorsIn(fat[1], data, dir[s].first, Needed(dir[s].size))
<1>1. dir[s].first \in Clusters /\ dir[s].size \in Nat /\ Used(s)
  BY DEF LocalsInv, TypeOK, Intact
<1>2. PICK c, n : c = dir[s].first /\ n = Needed(dir[s].size)
  OBVIOUS
<1>3. n \in Nat \ {0}
  BY <1>1, <1>2, NeededIs
<1>4. PICK w \in [0 .. (n - 1) -> Clusters] : Walk(fat[1], w, c, n)
  BY <1>2 DEF FilesWhole
<1>5. \A d \in Clusters \ W : fat'[1][d] = fat[1][d] /\ data'[d] = data[d]
  BY DEF Agree
<1>6. PICK F, G, D, E : F = fat[1] /\ G = fat'[1] /\ D = data /\ E = data'
  OBVIOUS
<1>7. Walk(G, w, c, n) /\ \A i \in 0 .. (n - 1) : w[i] \in Clusters \ W
  BY <1>2, <1>3, <1>4, <1>5, <1>6, WalkKept
<1>8. SectorsIn(F, D, c, n) = [i \in 0 .. (n - 1) |-> D[w[i]]]
  BY <1>3, <1>4, <1>6, SectorsAre
<1>9. SectorsIn(G, E, c, n) = [i \in 0 .. (n - 1) |-> E[w[i]]]
  BY <1>3, <1>7, SectorsAre
<1>10. SectorsIn(G, E, c, n) = SectorsIn(F, D, c, n)
  BY <1>5, <1>6, <1>7, <1>8, <1>9
<1>11. Intact(s)'
  BY <1>1, <1>5 DEF Intact, Used
<1> QED
  BY <1>2, <1>6, <1>7, <1>10, <1>11

(* The clusters of a step that changes nothing but copies of the FAT, the  *)
(* directory or locals. *)
LEMMA TouchNothing ==
  ASSUME \A c \in Clusters : fat'[1][c] = fat[1][c], data' = data
  PROVE  Sealed(fat[1], {}) /\ Agree({})
BY DEF Sealed, Agree

(* Freeing a cluster: it is the first of the file that is being erased, or *)
(* of what is left of it.                                                  *)
LEMMA TouchFree ==
  ASSUME FatInv, ~ torn, FreeCluster, f = 1
  PROVE  /\ Sealed(fat[1], {cl}) /\ Agree({cl}) /\ fat'[1][cl] = FREE
         /\ \A s \in Slots : Intact(s) /\ dir[s].first = cl => s = slot
<1> USE DEF FatInv
<1>1. pc = "free" /\ cl \in Clusters /\ data' = data /\ slot \in Slots /\ Used(slot)
  BY EntryFacts DEF FreeCluster, TypeOK, LocalsInv
<1>2. \A c \in Clusters : fat'[1][c] = IF f = 1 /\ c = cl THEN FREE ELSE fat[1][c]
  BY FatEdit, EntryFacts DEF FreeCluster
<1>3. Agree({cl}) /\ fat'[1][cl] = FREE
  BY <1>1, <1>2 DEF Agree
<1>4. \/ cl = dir[slot].first /\ Intact(slot)
      \/ Detached(cl)
  BY <1>1 DEF InHand
<1>5. CASE cl = dir[slot].first /\ Intact(slot)
  <2>1. \A c \in Clusters : fat[1][c] # cl
    BY <1>1, <1>5 DEF NoSharing
  <2>2. \A s \in Slots : Intact(s) /\ dir[s].first = cl => s = slot
    BY <1>1, <1>5 DEF NoSharing
  <2> QED
    BY <1>1, <1>3, <2>1, <2>2 DEF Sealed
<1>6. CASE Detached(cl)
  BY <1>1, <1>3, <1>6 DEF Sealed, Detached, Referenced
<1> QED
  BY <1>4, <1>5, <1>6

(* Marking a cluster: it was free. *)
LEMMA TouchMark ==
  ASSUME FatInv, ~ torn, MarkCluster, f = 1
  PROVE  /\ Sealed(fat[1], {cl}) /\ Agree({cl})
         /\ \A s \in Slots : Intact(s) => dir[s].first # cl
<1> USE DEF FatInv
<1>1. pc = "mark" /\ cl \in Clusters /\ data' = data /\ fat[1][cl] = FREE
  BY DEF MarkCluster, LocalsInv
<1>2. \A c \in Clusters : fat'[1][c] = IF f = 1 /\ c = cl THEN EOC ELSE fat[1][c]
  BY FatEdit, EntryFacts DEF MarkCluster
<1>3. Agree({cl})
  BY <1>1, <1>2 DEF Agree
<1>4. \A c \in Clusters : fat[1][c] # cl
  BY <1>1 DEF NoSharing
<1> QED
  BY <1>1, <1>3, <1>4 DEF Sealed, Intact

(* The clusters of the chain that a write has built. *)
Built(w) == {w[i] : i \in 0 .. (k - 1)}

LEMMA BuiltApart ==
  ASSUME FatInv, ~ torn, Building, k # 0, NEW w \in [0 .. (k - 1) -> Clusters], Stored(w)
  PROVE  /\ Sealed(fat[1], Built(w)) /\ prev \in Built(w)
         /\ \A s \in Slots : Intact(s) => dir[s].first \notin Built(w)
<1> USE DEF FatInv
<1>1. k \in Nat /\ first # 0 /\ Detached(first)
  BY DEF LocalsInv, InHand, TypeOK, Building
<1>2. w[0] = first /\ w[k - 1] = prev /\ \A i \in 1 .. (k - 1) : w[i] = fat[1][w[i - 1]]
  BY <1>1 DEF Stored, Walk
<1>3. \A i \in 0 .. (k - 1) : w[i] \in Clusters
  OBVIOUS
<1>4. \A i \in 1 .. (k - 1) : i - 1 \in 0 .. (k - 1)
  BY <1>1
<1>5. ASSUME NEW c \in Clusters, NEW i \in 0 .. (k - 1), fat[1][c] = w[i]
      PROVE  c \in Built(w)
  <2>1. i # 0
    BY <1>1, <1>2, <1>5 DEF Detached, Referenced
  <2>2. i \in 1 .. (k - 1) /\ w[i - 1] \in Clusters /\ fat[1][w[i - 1]] = w[i]
    BY <1>2, <1>3, <1>4, <2>1
  <2>3. c = w[i - 1]
    BY <1>3, <1>5, <2>2 DEF NoSharing
  <2> QED
    BY <1>4, <2>2, <2>3 DEF Built
<1>6. ASSUME NEW s \in Slots, Intact(s), NEW i \in 0 .. (k - 1), dir[s].first = w[i]
      PROVE  FALSE
  <2>1. i # 0
    BY <1>1, <1>2, <1>6 DEF Detached, Referenced
  <2>2. i \in 1 .. (k - 1) /\ w[i - 1] \in Clusters /\ fat[1][w[i - 1]] = w[i]
    BY <1>2, <1>3, <1>4, <2>1
  <2> QED
    BY <1>6, <2>2 DEF NoSharing
<1>7. prev \in Built(w)
  BY <1>1, <1>2 DEF Built
<1> QED
  BY <1>3, <1>5, <1>6, <1>7 DEF Sealed, Built

(* Linking the last cluster of what has been built to the next. *)
LEMMA TouchLink ==
  ASSUME FatInv, WriteInv, ~ torn, LinkCluster
  PROVE  \E W : /\ Sealed(fat[1], W) /\ Agree(W)
                /\ \A s \in Slots : Intact(s) => dir[s].first \notin W
<1> USE DEF FatInv
<1>1. pc = "link" /\ Building /\ prev # 0 /\ prev \in Clusters /\ k # 0 /\ data' = data
  BY DEF LinkCluster, Building, LocalsInv, TypeOK
<1>2. PICK w \in [0 .. (k - 1) -> Clusters] : Stored(w)
  BY <1>1 DEF WriteInv
<1>3. \A c \in Clusters : fat'[1][c] = IF f = 1 /\ c = prev THEN cl ELSE fat[1][c]
  BY FatEdit DEF LinkCluster, TypeOK
<1>4. /\ Sealed(fat[1], Built(w)) /\ prev \in Built(w)
      /\ \A s \in Slots : Intact(s) => dir[s].first \notin Built(w)
  BY <1>1, <1>2, BuiltApart
<1>5. Agree(Built(w))
  BY <1>1, <1>3, <1>4 DEF Agree
<1> QED
  BY <1>4, <1>5

(* Storing a sector in the cluster that is being added. *)
LEMMA TouchData ==
  ASSUME FatInv, WriteInv, ~ torn, WriteData
  PROVE  \E W : /\ Sealed(fat[1], W) /\ Agree(W)
                /\ \A s \in Slots : Intact(s) => dir[s].first \notin W
<1> USE DEF FatInv
<1>1. /\ pc = "data" /\ Building /\ cl \in Clusters /\ fat' = fat
      /\ \A c \in Clusters : c # cl => data'[c] = data[c]
  BY DEF WriteData, Building, LocalsInv, TypeOK
<1>2. CASE k = 0
  <2>1. Detached(cl)
    BY <1>1, <1>2 DEF InHand
  <2>2. Agree({cl})
    BY <1>1 DEF Agree
  <2> QED
    BY <1>1, <2>1, <2>2 DEF Sealed, Detached, Referenced
<1>3. CASE k # 0
  <2>1. PICK w \in [0 .. (k - 1) -> Clusters] : Stored(w)
    BY <1>1, <1>3 DEF WriteInv
  <2>2. /\ Sealed(fat[1], Built(w)) /\ prev \in Built(w)
        /\ \A s \in Slots : Intact(s) => dir[s].first \notin Built(w)
    BY <1>1, <1>3, <2>1, BuiltApart
  <2>3. fat[1][prev] = cl /\ prev \in Clusters
    BY <1>1, <1>3, <2>2 DEF WriteInv, Sealed
  <2>4. \A c \in Clusters : fat[1][c] = cl => c = prev
    BY <1>1, <2>3 DEF NoSharing
  <2>5. \A s \in Slots : Intact(s) => dir[s].first # cl
    BY <2>3 DEF NoSharing
  <2>6. Sealed(fat[1], Built(w) \cup {cl})
    BY <1>1, <2>2, <2>4 DEF Sealed
  <2>7. Agree(Built(w) \cup {cl})
    BY <1>1 DEF Agree
  <2> QED
    BY <2>2, <2>5, <2>6, <2>7
<1> QED
  BY <1>2, <1>3

(* Every step touches only clusters that no file reaches, except for the   *)
(* first cluster of the file that is being erased.                         *)
LEMMA StepTouches ==
  ASSUME FatInv, WriteInv, ~ torn, [Next]_vars
  PROVE  /\ \E W : /\ Sealed(fat[1], W) /\ Agree(W)
                   /\ \A s \in Slots : Intact(s) /\ dir[s].first \in W =>
                        pc = "free" /\ s = slot /\ fat'[1][dir[s].first] = FREE
         /\ pc = "free" => \A c \in Clusters : fat[1][c] = FREE => fat'[1][c] = FREE
<1> USE DEF FatInv
<1>1. CASE (\A c \in Clusters : fat'[1][c] = fat[1][c]) /\ data' = data
  BY <1>1, TouchNothing
<1>2. CASE FreeCluster
  <2>1. \A c \in Clusters : fat'[1][c] = IF f = 1 /\ c = cl THEN FREE ELSE fat[1][c]
    BY <1>2, FatEdit, EntryFacts DEF FreeCluster
  <2>2. pc = "free" /\ data' = data
    BY <1>2 DEF FreeCluster
  <2>3. CASE f = 1
    <3>1. /\ Sealed(fat[1], {cl}) /\ Agree({cl}) /\ fat'[1][cl] = FREE
          /\ \A s \in Slots : Intact(s) /\ dir[s].first = cl => s = slot
      BY <1>2, <2>3, TouchFree
    <3> QED
      BY <2>1, <2>2, <3>1
  <2>4. CASE f # 1
    BY <1>1, <2>1, <2>2, <2>4
  <2> QED
    BY <2>3, <2>4
<1>3. CASE MarkCluster
  <2>1. \A c \in Clusters : fat'[1][c] = IF f = 1 /\ c = cl THEN EOC ELSE fat[1][c]
    BY <1>3, FatEdit, EntryFacts DEF MarkCluster
  <2>2. pc # "free" /\ data' = data
    BY <1>3 DEF MarkCluster
  <2>3. CASE f = 1
    <3>1. /\ Sealed(fat[1], {cl}) /\ Agree({cl})
          /\ \A s \in Slots : Intact(s) => dir[s].first # cl
      BY <1>3, <2>3, TouchMark
    <3> QED
      BY <2>2, <3>1
  <2>4. CASE f # 1
    BY <1>1, <2>1, <2>2, <2>4
  <2> QED
    BY <2>3, <2>4
<1>4. CASE LinkCluster
  BY <1>4, TouchLink DEF LinkCluster
<1>5. CASE WriteData
  BY <1>5, TouchData DEF WriteData
<1>6. CASE DiskWrite
  <2>1. fat'[1] = fat[1] /\ data' = data
    BY <1>6, DiskWriteTypes DEF DiskWrite
  <2> QED
    BY <1>1, <2>1
<1>7. \/ FreeCluster \/ MarkCluster \/ LinkCluster \/ WriteData \/ DiskWrite
      \/ fat' = fat /\ data' = data
  BY DEF Next, Step, vars, disk, BeginDelete, BeginWrite, BeginRead, EraseEntry,
         AllocCluster, DiskFull, WriteEntry, RootFull, ReadCluster, ReadDone, Hang, Crash
<1> QED
  BY <1>1, <1>2, <1>3, <1>4, <1>5, <1>6, <1>7

(* Only two steps change the directory. *)
LEMMA DirSteps ==
  ASSUME [Next]_vars
  PROVE  (torn => torn') /\ (EraseEntry \/ WriteEntry \/ dir' = dir)
<1>1. torn => torn'
  BY Zenon DEF Next, Step, vars, history, BeginDelete, BeginWrite, BeginRead, FreeCluster,
     EraseEntry, AllocCluster, DiskFull, MarkCluster, LinkCluster, WriteData, WriteEntry,
     RootFull, ReadCluster, ReadDone, Hang, DiskWrite, Crash
<1>2. EraseEntry \/ WriteEntry \/ dir' = dir
  BY DEF Next, Step, vars, disk, history, BeginDelete, BeginWrite, BeginRead, FreeCluster,
       EraseEntry, AllocCluster, DiskFull, MarkCluster, LinkCluster, WriteData, WriteEntry,
       RootFull, ReadCluster, ReadDone, Hang, DiskWrite, Crash
<1> QED
  BY <1>1, <1>2

(* A file that is there after a step, in an entry that the step has not    *)
(* written, was there before and is the same.                              *)
LEMMA FileWas ==
  ASSUME FatInv, WriteInv, FilesWhole, ~ torn, [Next]_vars,
         NEW s \in Slots, Intact(s)', dir'[s] = dir[s]
  PROVE  /\ Intact(s)
         /\ \E w \in [0 .. (Needed(dir[s].size) - 1) -> Clusters] :
              Walk(fat'[1], w, dir[s].first, Needed(dir[s].size))
         /\ SectorsIn(fat'[1], data', dir[s].first, Needed(dir[s].size))
              = SectorsIn(fat[1], data, dir[s].first, Needed(dir[s].size))
<1>1. Used(s) /\ dir[s].first \in Clusters /\ fat'[1][dir[s].first] # FREE
  BY DEF Intact, Used, FatInv, LocalsInv
<1>2. Intact(s)
  <2> SUFFICES ASSUME ~ Intact(s) PROVE FALSE
    OBVIOUS
  <2>1. pc = "free" /\ fat[1][dir[s].first] = FREE
    BY <1>1 DEF FatInv, NoSharing, Intact
  <2> QED
    BY <1>1, <2>1, StepTouches
<1>3. PICK W : /\ Sealed(fat[1], W) /\ Agree(W)
               /\ \A t \in Slots : Intact(t) /\ dir[t].first \in W =>
                    fat'[1][dir[t].first] = FREE
  BY StepTouches
<1>4. dir[s].first \notin W
  BY <1>1, <1>2, <1>3
<1> QED
  BY <1>2, <1>3, <1>4, FileKept DEF FatInv

LEMMA NextWhole ==
  ASSUME FatInv, WriteInv, FilesWhole, [Next]_vars
  PROVE  FilesWhole'
<1> SUFFICES ASSUME ~ torn', NEW s \in Slots, Intact(s)'
             PROVE  \E w \in [0 .. (Needed(dir[s].size)' - 1) -> Clusters] :
                      Walk(fat[1], w, dir[s].first, Needed(dir[s].size))'
  BY DEF FilesWhole
<1>1. ~ torn
  BY DirSteps
<1>2. CASE dir'[s] = dir[s]
  <2>1. \E w \in [0 .. (Needed(dir[s].size) - 1) -> Clusters] :
          Walk(fat'[1], w, dir[s].first, Needed(dir[s].size))
    BY <1>1, <1>2, FileWas
  <2> QED
    BY <1>2, <2>1 DEF Walk, Needed
<1>3. CASE EraseEntry /\ dir'[s] # dir[s]
  <2>1. dir'[s].name = DELETED
    BY <1>3 DEF EraseEntry, FatInv, TypeOK
  <2> QED
    BY <2>1 DEF Intact, Used
<1>4. CASE WriteEntry /\ dir'[s] # dir[s]
  <2>1. /\ pc = "dir" /\ dir'[s].first = first /\ dir'[s].size = req.size /\ fat' = fat
    BY <1>4 DEF WriteEntry, FatInv, TypeOK
  <2>2. k = Needed(req.size) /\ k # 0
    BY <2>1, NeededIs DEF FatInv, WriteInv, Building, LocalsInv
  <2>3. PICK w \in [0 .. (k - 1) -> Clusters] : Walk(fat[1], w, first, k)
    BY <2>1, <2>2 DEF WriteInv, Building, Stored
  <2> QED
    BY <2>1, <2>2, <2>3 DEF Walk, Needed
<1> QED
  BY <1>2, <1>3, <1>4, DirSteps

-----------------------------------------------------------------------------
(* What a write has built. *)

(* It stays while no link of a chain is changed. *)
LEMMA StoredKept ==
  ASSUME k \in Nat, k # 0, NEW w \in [0 .. (k - 1) -> Clusters], Stored(w),
         \A c \in Clusters : fat[1][c] \in Clusters => fat'[1][c] = fat[1][c],
         data' = data, first' = first, k' = k, prev' = prev, req' = req
  PROVE  Stored(w)'
<1>1. /\ w[0] = first /\ w[k - 1] = prev /\ \A i \in 1 .. (k - 1) : w[i] = fat[1][w[i - 1]]
      /\ \A i \in 0 .. (k - 1) : OnDisk(w[i]) => data[w[i]] = <<req.val, i>>
  BY DEF Stored, Walk
<1>2. \A i \in 1 .. (k - 1) : w[i] \in Clusters /\ w[i - 1] \in Clusters
  OBVIOUS
<1>3. \A i \in 1 .. (k - 1) : w[i] = fat'[1][w[i - 1]]
  BY <1>1, <1>2
<1> QED
  BY <1>1, <1>3 DEF Stored, Walk, OnDisk

(* WriteData adds a cluster and its sector. *)
LEMMA WriteDataStored ==
  ASSUME FatInv, WriteInv, WriteData
  PROVE  \E w \in [0 .. (k' - 1) -> Clusters] : Stored(w)'
<1> USE DEF FatInv
<1>1. /\ pc = "data" /\ Building /\ cl \in Clusters /\ cl # prev /\ fat[1][cl] = EOC
      /\ k \in Nat /\ k' = k + 1 /\ prev' = cl /\ fat' = fat /\ req' = req
      /\ first' = (IF k = 0 THEN cl ELSE first)
  BY DEF WriteData, Building, LocalsInv, TypeOK
<1>2. /\ \A c \in Clusters : c # cl => data'[c] = data[c]
      /\ OnDisk(cl) => data'[cl] = <<req.val, k>>
  BY <1>1 DEF WriteData, TypeOK
<1>3. CASE k = 0
  <2>0. PICK w : w = [i \in 0 .. 0 |-> cl]
    OBVIOUS
  <2>1. w \in [0 .. (k' - 1) -> Clusters] /\ w[0] = cl
    BY <1>1, <1>3, <2>0
  <2>2. \A i \in 1 .. (k' - 1) : FALSE
    BY <1>1, <1>3
  <2>3. \A i \in 0 .. (k' - 1) : i = 0
    BY <1>1, <1>3
  <2>4. Stored(w)'
    BY <1>1, <1>2, <1>3, <2>1, <2>2, <2>3 DEF Stored, Walk, OnDisk
  <2> QED
    BY <2>1, <2>4
<1>4. CASE k # 0
  <2>1. PICK v \in [0 .. (k - 1) -> Clusters] : Stored(v)
    BY <1>1, <1>4 DEF WriteInv
  <2>2. /\ v[0] = first /\ v[k - 1] = prev /\ \A i \in 1 .. (k - 1) : v[i] = fat[1][v[i - 1]]
        /\ \A i \in 0 .. (k - 1) : OnDisk(v[i]) => data[v[i]] = <<req.val, i>>
    BY <1>1, <1>4, <2>1 DEF Stored, Walk
  <2>3. fat[1][prev] = cl
    BY <1>1, <1>4 DEF WriteInv
  <2>4. ASSUME NEW i \in 0 .. (k - 1) PROVE v[i] # cl /\ v[i] \in Clusters
    <3>1. CASE i = k - 1
      BY <1>1, <2>2, <3>1
    <3>2. CASE i # k - 1
      <4>1. i + 1 \in 1 .. (k - 1) /\ i + 1 \in 0 .. (k - 1) /\ (i + 1) - 1 = i
        BY <1>1, <3>2
      <4>2. fat[1][v[i]] = v[i + 1] /\ v[i + 1] \in Clusters
        BY <2>2, <4>1
      <4> QED
        BY <1>1, <4>2, EntryFacts
    <3> QED
      BY <3>1, <3>2
  <2>0. PICK w : w = [i \in 0 .. k |-> IF i = k THEN cl ELSE v[i]]
    OBVIOUS
  <2>5. \A i \in 0 .. k : i # k => i \in 0 .. (k - 1)
    BY <1>1
  <2>6. w \in [0 .. (k' - 1) -> Clusters] /\ w[0] = first /\ w[k' - 1] = cl
    BY <1>1, <1>4, <2>0, <2>2, <2>4, <2>5
  <2>7. ASSUME NEW i \in 1 .. k PROVE w[i] = fat[1][w[i - 1]]
    <3>1. w[i - 1] = v[i - 1] /\ i - 1 \in 0 .. (k - 1)
      BY <1>1, <2>0
    <3>2. CASE i = k
      BY <1>1, <2>0, <2>2, <2>3, <3>1, <3>2
    <3>3. CASE i # k
      BY <1>1, <2>0, <2>2, <3>1, <3>3
    <3> QED
      BY <3>2, <3>3
  <2>8. ASSUME NEW i \in 0 .. k, OnDisk(w[i]) PROVE data'[w[i]] = <<req.val, i>>
    <3>1. CASE i = k
      BY <1>2, <2>0, <2>8, <3>1
    <3>2. CASE i # k
      BY <1>2, <2>0, <2>2, <2>4, <2>5, <2>8, <3>2
    <3> QED
      BY <3>1, <3>2
  <2>9. k' - 1 = k
    BY <1>1
  <2>10. Stored(w)'
    BY <1>1, <1>4, <2>6, <2>7, <2>8, <2>9 DEF Stored, Walk, OnDisk
  <2> QED
    BY <2>6, <2>10
<1> QED
  BY <1>3, <1>4

(* A call begins to write, having found no old file or erased it. *)
LEMMA WriteBegins ==
  ASSUME FatInv, FatInv', WriteInv, EraseEntry \/ FreeCluster \/
           \E name \in Names, val \in Vals, size \in Sizes : BeginWrite(name, val, size)
  PROVE  WriteInv'
<1> USE DEF FatInv
<1>1. k = 0 /\ k' = 0 /\ pc' \in {"idle", "free", "alloc"}
  BY DEF EraseEntry, FreeCluster, BeginWrite, LocalsInv, Return, Forget, NextCopy
<1>2. (pc' = "free" /\ ~ erase') \/ Building' => req'.val \in Vals /\ req'.size \in Sizes
  <2>1. CASE EraseEntry \/ FreeCluster
    <3>1. (pc' = "free" /\ ~ erase') \/ Building' => pc = "free" /\ ~ erase /\ req' = req
      BY <2>1 DEF EraseEntry, FreeCluster, NextCopy, Return, Building
    <3> QED
      BY <3>1 DEF WriteInv
  <2>2. CASE \E name \in Names, val \in Vals, size \in Sizes : BeginWrite(name, val, size)
    BY <2>2 DEF BeginWrite
  <2> QED
    BY <2>1, <2>2
<1>3. Building' => Needed(req'.size) \in Nat /\ Needed(req'.size) > 0 /\ pc' = "alloc"
  BY <1>1, NeededIs DEF TypeOK, Building
<1> QED
  BY <1>1, <1>2, <1>3 DEF WriteInv, Needed, Building

(* A cluster is found, marked and linked. *)
LEMMA WriteExtends ==
  ASSUME FatInv, WriteInv, AllocCluster \/ MarkCluster \/ LinkCluster
  PROVE  WriteInv'
<1> USE DEF FatInv
<1>1. /\ Building /\ Building' /\ pc # "dir" /\ pc' # "dir" /\ data' = data
      /\ first' = first /\ k' = k /\ prev' = prev /\ req' = req
  BY DEF AllocCluster, MarkCluster, LinkCluster, NextCopy, Building, disk
<1>2. \A c \in Clusters : fat[1][c] \in Clusters => fat'[1][c] = fat[1][c]
  <2>1. CASE AllocCluster
    BY <2>1 DEF AllocCluster, disk
  <2>2. CASE MarkCluster
    <3>1. \A c \in Clusters : fat'[1][c] = IF f = 1 /\ c = cl THEN EOC ELSE fat[1][c]
      BY <2>2, FatEdit, EntryFacts DEF MarkCluster
    <3> QED
      BY <2>2, <3>1, EntryFacts DEF MarkCluster, LocalsInv
  <2>3. CASE LinkCluster
    <3>1. \A c \in Clusters : fat'[1][c] = IF f = 1 /\ c = prev THEN cl ELSE fat[1][c]
      BY <2>3, FatEdit DEF LinkCluster, TypeOK
    <3> QED
      BY <2>3, <3>1, EntryFacts DEF LinkCluster, LocalsInv
  <2> QED
    BY <2>1, <2>2, <2>3
<1>3. k # 0 => \E w \in [0 .. (k - 1) -> Clusters] : Stored(w)'
  BY <1>1, <1>2, StoredKept DEF WriteInv, TypeOK
<1>4. k' # 0 /\ ((pc' = "link" /\ f' > 1) \/ pc' = "data") => fat'[1][prev'] = cl'
  <2>1. CASE AllocCluster
    BY <2>1 DEF AllocCluster
  <2>2. CASE MarkCluster
    BY <2>2 DEF MarkCluster, NextCopy, LocalsInv, TypeOK
  <2>3. CASE LinkCluster
    <3>1. \A c \in Clusters : fat'[1][c] = IF f = 1 /\ c = prev THEN cl ELSE fat[1][c]
      BY <2>3, FatEdit DEF LinkCluster, TypeOK
    <3>2. prev \in Clusters /\ cl' = cl /\ pc = "link" /\ f \in Nat /\ f >= 1 /\ k # 0
      BY <2>3 DEF LinkCluster, LocalsInv, TypeOK
    <3>3. CASE f = 1
      BY <1>1, <3>1, <3>2, <3>3
    <3>4. CASE f # 1
      BY <1>1, <3>1, <3>2, <3>4 DEF WriteInv
    <3> QED
      BY <3>3, <3>4
  <2> QED
    BY <2>1, <2>2, <2>3
<1>5. k <= Needed(req.size) /\ k # Needed(req.size) /\ req.val \in Vals /\ req.size \in Sizes
  BY <1>1 DEF WriteInv
<1> QED
  BY <1>1, <1>3, <1>4, <1>5 DEF WriteInv, Needed

LEMMA NextWriteInv ==
  ASSUME FatInv, FatInv', WriteInv, [Next]_vars
  PROVE  WriteInv'
<1>1. CASE EraseEntry \/ FreeCluster \/
           \E name \in Names, val \in Vals, size \in Sizes : BeginWrite(name, val, size)
  BY <1>1, WriteBegins
<1>2. CASE AllocCluster \/ MarkCluster \/ LinkCluster
  BY <1>2, WriteExtends
<1>3. CASE WriteData
  <2>1. \E w \in [0 .. (k' - 1) -> Clusters] : Stored(w)'
    BY <1>3, WriteDataStored
  <2>2. /\ pc = "data" /\ k' = k + 1 /\ req' = req
        /\ pc' = IF k + 1 < Needed(req.size) THEN "alloc" ELSE "dir"
    BY <1>3 DEF WriteData
  <2>3. /\ k <= Needed(req.size) /\ k # Needed(req.size) /\ k \in Nat
        /\ req.val \in Vals /\ req.size \in Sizes /\ req.size \in Nat
    BY <2>2 DEF WriteInv, Building, FatInv, TypeOK
  <2>4. Needed(req.size) \in Nat
    BY <2>3, NeededIs
  <2>5. k' <= Needed(req.size) /\ (k' = Needed(req.size) <=> pc' = "dir")
    BY <2>2, <2>3, <2>4
  <2> QED
    BY <2>1, <2>2, <2>3, <2>5 DEF WriteInv, Needed, Building
<1>4. CASE \/ \E name \in Names : BeginDelete(name)
           \/ \E name \in Names, buf \in BufSizes : BeginRead(name, buf)
           \/ DiskFull \/ WriteEntry \/ RootFull \/ ReadCluster \/ ReadDone
           \/ Hang \/ DiskWrite \/ Crash
  <2>1. pc' \in {"idle", "read", "hung"} \/ (pc' = "free" /\ erase')
    BY <1>4 DEF BeginDelete, BeginRead, DiskFull, WriteEntry, RootFull, ReadCluster, ReadDone,
                Hang, DiskWrite, Crash, Return
  <2> QED
    BY <2>1 DEF WriteInv, Building
<1>5. CASE UNCHANGED vars
  BY <1>5 DEF WriteInv, Building, Stored, Walk, Needed, vars, disk, locals, OnDisk
<1> QED
  BY <1>1, <1>2, <1>3, <1>4, <1>5 DEF Next, Step

-----------------------------------------------------------------------------
(* What a reader finds. *)

(* The entry of a name, if there is one, is the one that is looked up. *)
LEMMA VisibleIs ==
  ASSUME TypeOK, DirectorySound, NEW s \in Slots, Intact(s)
  PROVE  Visible(dir[s].name) =
           [size    |-> dir[s].size,
            sectors |-> SectorsIn(fat[1], data, dir[s].first, Needed(dir[s].size))]
<1>1. PICK n : n = dir[s].name
  OBVIOUS
<1>2. Used(s) /\ Live(s) /\ \A t \in Slots : dir[t].name = n => t = s
  BY <1>1 DEF Intact, DirectorySound
<1>3. \A t \in 1 .. (s - 1) : t \in Slots /\ t # s
  BY Fat16Assumption DEF Slots
<1>4. s \in Lookup(n)
  BY <1>1, <1>2, <1>3 DEF Lookup
<1>5. {t \in Lookup(n) : Intact(t)} = {s}
  BY <1>2, <1>4 DEF Lookup
<1>6. (CHOOSE t \in {s} : TRUE) = s
  OBVIOUS
<1> QED
  BY <1>1, <1>5, <1>6, SectorsFromIs DEF Visible

(* A name without an entry, or with one whose chain is being freed. *)
LEMMA VisibleNot ==
  ASSUME NEW n, \A s \in Slots : dir[s].name = n => ~ Intact(s)
  PROVE  Visible(n) = Absent
BY DEF Visible, Lookup

-----------------------------------------------------------------------------
(* What a read has copied. *)

(* to_copy: after j sectors, up to the end of the next one, of the file or *)
(* of the buffer.                                                          *)
LEMMA CopyStep ==
  ASSUME NEW size \in Nat, NEW buf \in Nat, NEW j \in Nat, NEW want, NEW got,
         want = (IF size < buf THEN size ELSE buf),
         got = (IF j * SectorBytes < want THEN j * SectorBytes ELSE want), got < size
  PROVE  /\ ToCopy(got, size, buf) \in Nat
         /\ got + ToCopy(got, size, buf) =
              IF (j + 1) * SectorBytes < want THEN (j + 1) * SectorBytes ELSE want
         /\ ToCopy(got, size, buf) > 0 <=> j * SectorBytes < want
         /\ j * SectorBytes < want =>
              ToCopy(got, size, buf) =
                IF (j + 1) * SectorBytes <= want THEN SectorBytes ELSE want - j * SectorBytes
<1>1. SectorBytes \in Nat /\ SectorBytes > 0
  BY Fat16Assumption
<1>2. PICK a : a = j * SectorBytes
  OBVIOUS
<1>3. a \in Nat /\ (j + 1) * SectorBytes = a + SectorBytes
  BY <1>1, <1>2, Z3
<1>4. want \in Nat /\ want <= size /\ want <= buf /\ got = IF a < want THEN a ELSE want
  BY <1>2
<1>5. PICK b : b = (j + 1) * SectorBytes
  OBVIOUS
<1>6. b = a + SectorBytes
  BY <1>3, <1>5
<1> HIDE <1>2, <1>5
<1>7. /\ ToCopy(got, size, buf) \in Nat
      /\ got + ToCopy(got, size, buf) = IF b < want THEN b ELSE want
      /\ ToCopy(got, size, buf) > 0 <=> a < want
      /\ a < want => ToCopy(got, size, buf) = IF b <= want THEN SectorBytes ELSE want - a
  BY <1>1, <1>3, <1>4, <1>6 DEF ToCopy
<1> QED
  BY <1>2, <1>5, <1>7

(* Multiples in order. *)
LEMMA Multiples ==
  ASSUME NEW i \in Nat, NEW j \in Nat, i <= j
  PROVE  i * SectorBytes <= j * SectorBytes /\ i * SectorBytes \in Nat /\ 0 * SectorBytes = 0
BY Fat16Assumption, Z3

(* The number of sectors of want bytes, and the size of the last. *)
LEMMA Pieced ==
  ASSUME NEW want \in Nat, NEW m \in Nat, m * SectorBytes >= want,
         m > 0 => (m - 1) * SectorBytes < want
  PROVE  /\ m = (want + SectorBytes - 1) \div SectorBytes
         /\ \A i \in 1 .. m : ~ (i * SectorBytes <= want) =>
              want - (i - 1) * SectorBytes = want % SectorBytes
<1>1. SectorBytes \in Nat /\ SectorBytes > 0
  BY Fat16Assumption
<1>2. ASSUME NEW x \in Nat, NEW q \in Nat, q * SectorBytes <= x, x < q * SectorBytes + SectorBytes
      PROVE  q = x \div SectorBytes /\ x % SectorBytes = x - q * SectorBytes
  BY <1>1, <1>2, Z3
<1>3. m = (want + SectorBytes - 1) \div SectorBytes
  <2>1. want + SectorBytes - 1 \in Nat
    BY <1>1
  <2>2. CASE m = 0
    <3>1. m * SectorBytes = 0 /\ want = 0
      BY <1>1, <2>2, Z3
    <3> QED
      BY <1>1, <1>2, <2>1, <2>2, <3>1
  <2>3. CASE m > 0
    <3>1. (m - 1) * SectorBytes = m * SectorBytes - SectorBytes /\ m * SectorBytes \in Nat
      BY <1>1, Z3
    <3> QED
      BY <1>1, <1>2, <2>1, <2>3, <3>1
  <2> QED
    BY <2>2, <2>3
<1>4. ASSUME NEW i \in 1 .. m, ~ (i * SectorBytes <= want)
      PROVE  want - (i - 1) * SectorBytes = want % SectorBytes
  <2>1. i - 1 \in Nat /\ m - 1 \in Nat /\ i - 1 <= m - 1
    OBVIOUS
  <2>2. (i - 1) * SectorBytes <= (m - 1) * SectorBytes /\ (i - 1) * SectorBytes \in Nat
    BY <2>1, Multiples
  <2>3. i * SectorBytes = (i - 1) * SectorBytes + SectorBytes /\ (m - 1) * SectorBytes \in Nat
    BY <1>1, <2>1, Z3
  <2> QED
    <3>1. PICK q : q = i - 1
      OBVIOUS
    <3>2. q \in Nat /\ q * SectorBytes <= want /\ want < q * SectorBytes + SectorBytes
      BY <1>1, <1>4, <2>1, <2>2, <2>3, <3>1
    <3> QED
      BY <1>2, <3>1, <3>2
<1> QED
  BY <1>3, <1>4

(* A read begins. *)
LEMMA ReadBegins ==
  ASSUME FatInv, FatInv', DirectorySound, FilesWhole, ReadInv,
         NEW name \in Names, NEW buf \in BufSizes, BeginRead(name, buf), pc' = "read"
  PROVE  ReadInv'
<1> USE DEF FatInv
<1>1. /\ pc = "idle" /\ fat' = fat /\ dir' = dir /\ data' = data /\ torn' = torn
      /\ k' = 0 /\ out' = <<>> /\ ret' = "none" /\ cl' = dir[slot'].first
      /\ slot' \in Lookup(FatNameOf[name]) /\ req'.name = FatNameOf[name]
      /\ FatNameOf[name] \in FatNames /\ req'.size \in Nat
  <2>1. /\ pc = "idle" /\ fat' = fat /\ dir' = dir /\ data' = data /\ torn' = torn
        /\ k' = k /\ out' = out /\ ret' = "none" /\ cl' = dir[slot'].first
        /\ slot' \in Lookup(FatNameOf[name]) /\ req'.name = FatNameOf[name]
    BY DEF BeginRead, disk, history, NoReq
  <2>2. k = 0 /\ out = <<>> /\ FatNameOf[name] \in FatNames
    BY <2>1, Fat16Assumption DEF ReadInv, LocalsInv
  <2>3. req'.size \in Nat
    BY DEF TypeOK
  <2> QED
    BY <2>1, <2>2, <2>3
<1>2. PICK s : s = slot'
  OBVIOUS
<1>3. s \in Slots /\ Used(s) /\ dir[s].name = req'.name /\ dir[s].size \in Nat
  BY <1>1, <1>2, LookupFacts
<1>4. ASSUME ~ torn
      PROVE  \E j \in 0 .. Needed(dir[s].size), w \in [0 .. (Needed(dir[s].size) - 1) -> Clusters] :
               Copied(w, j)'
  <2>1. Intact(s)
    BY <1>1, <1>3, <1>4, AllIntact
  <2>2. PICK w \in [0 .. (Needed(dir[s].size) - 1) -> Clusters] :
          Walk(fat[1], w, dir[s].first, Needed(dir[s].size))
    BY <1>3, <1>4, <2>1 DEF FilesWhole
  <2>3. Needed(dir[s].size) \in Nat /\ Needed(dir[s].size) > 0
    BY <1>3, NeededIs
  <2>4. w[0] = dir[s].first
    BY <2>2, <2>3 DEF Walk
  <2>5. 0 * SectorBytes = 0
    BY Fat16Assumption, Z3
  <2>6. Wanted' \in Nat
    BY <1>1, <1>2, <1>3 DEF Wanted
  <2>7. Copied(w, 0)'
    BY <1>1, <1>2, <2>2, <2>3, <2>4, <2>5, <2>6 DEF Copied, Walk, Needed
  <2> QED
    BY <2>3, <2>7
<1> QED
  BY <1>1, <1>2, <1>3, <1>4 DEF ReadInv, Needed

(* A sector is copied, or passed over when the buffer is full. *)
LEMMA ReadGoesOn ==
  ASSUME FatInv, ReadInv, ReadCluster
  PROVE  ReadInv'
<1> USE DEF FatInv
<1>1. /\ pc = "read" /\ pc' = "read" /\ fat' = fat /\ dir' = dir /\ data' = data
      /\ torn' = torn /\ slot' = slot /\ req' = req /\ ret' = ret /\ cl' = fat[1][cl]
      /\ slot \in Slots /\ dir[slot].size \in Nat /\ dir[slot].first \in Clusters
      /\ req.size \in Nat /\ k < dir[slot].size /\ cl \in Clusters
  BY EntryFacts DEF ReadCluster, disk, history, LocalsInv, TypeOK
<1>2. PICK n, size, buf, want :
        n = Needed(dir[slot].size) /\ size = dir[slot].size /\ buf = req.size /\ want = Wanted
  OBVIOUS
<1>3. /\ size \in Nat /\ buf \in Nat /\ want \in Nat
      /\ want = IF size < buf THEN size ELSE buf
  BY <1>1, <1>2 DEF Wanted
<1>4. n \in Nat /\ n > 0 /\ n * SectorBytes >= size
  BY <1>1, <1>2, NeededIs
<1>5. ASSUME ~ torn
      PROVE  \E j \in 0 .. n, w \in [0 .. (n - 1) -> Clusters] : Copied(w, j)'
  <2>1. PICK j \in 0 .. n, w \in [0 .. (n - 1) -> Clusters] : Copied(w, j)
    BY <1>1, <1>2, <1>5 DEF ReadInv
  <2>2. /\ out \in Seq(Pieces) /\ Walk(fat[1], w, dir[slot].first, n)
        /\ j < n => cl = w[j]
        /\ k = IF j * SectorBytes < want THEN j * SectorBytes ELSE want
        /\ Len(out) <= j
        /\ Len(out) < j => Len(out) * SectorBytes >= want
        /\ Len(out) > 0 => (Len(out) - 1) * SectorBytes < want
        /\ \A i \in 1 .. Len(out) :
             out[i] = <<data[w[i - 1]], IF i * SectorBytes <= want THEN SectorBytes
                                        ELSE want - (i - 1) * SectorBytes>>
    BY <1>2, <2>1 DEF Copied
  <2>3. j \in Nat /\ Len(out) \in Nat /\ j * SectorBytes \in Nat
    BY <2>2, Multiples
  <2>4. PICK m : m = ToCopy(k, size, buf)
    OBVIOUS
  <2>5. /\ m \in Nat
        /\ k + m = IF (j + 1) * SectorBytes < want THEN (j + 1) * SectorBytes ELSE want
        /\ m > 0 <=> j * SectorBytes < want
        /\ j * SectorBytes < want =>
             m = IF (j + 1) * SectorBytes <= want THEN SectorBytes ELSE want - j * SectorBytes
    <3>1. PICK got : got = k
      OBVIOUS
    <3>2. got = (IF j * SectorBytes < want THEN j * SectorBytes ELSE want) /\ got < size
      BY <1>1, <1>2, <2>2, <3>1
    <3>3. want = (IF size < buf THEN size ELSE buf)
      BY <1>3
    <3>4. m = ToCopy(got, size, buf)
      BY <2>4, <3>1
    <3> HIDE <2>4
    <3>5. /\ m \in Nat
          /\ got + m = IF (j + 1) * SectorBytes < want THEN (j + 1) * SectorBytes ELSE want
          /\ m > 0 <=> j * SectorBytes < want
          /\ j * SectorBytes < want =>
               m = IF (j + 1) * SectorBytes <= want THEN SectorBytes ELSE want - j * SectorBytes
      BY <1>3, <2>3, <3>2, <3>3, <3>4, CopyStep
    <3> QED
      BY <3>1, <3>5
  <2>6. k' = k + m /\ out' = IF m > 0 THEN Append(out, <<data[cl], m>>) ELSE out
    BY <1>2, <2>4 DEF ReadCluster
  <2>7. CASE j = n
    <3>1. j * SectorBytes >= want /\ k = want /\ m = 0
      BY <1>3, <1>4, <2>2, <2>3, <2>5, <2>7
    <3>2. k' = k /\ out' = out
      BY <1>3, <2>2, <2>6, <3>1
    <3>3. Copied(w, j)'
      BY <1>1, <1>2, <2>1, <2>2, <2>7, <3>2 DEF Copied, Needed, Wanted
    <3> QED
      BY <2>1, <3>3
  <2>8. CASE j # n
    <3>1. j + 1 \in 0 .. n /\ j < n /\ cl = w[j]
      BY <1>4, <2>2, <2>8
    <3>2. j + 1 < n => cl' = w[j + 1]
      BY <1>1, <1>4, <2>2, <3>1 DEF Walk
    <3>3. /\ out' \in Seq(Pieces)
          /\ Len(out') <= j + 1
          /\ Len(out') < j + 1 => Len(out') * SectorBytes >= want
          /\ Len(out') > 0 => (Len(out') - 1) * SectorBytes < want
          /\ \A i \in 1 .. Len(out') :
               out'[i] = <<data[w[i - 1]], IF i * SectorBytes <= want THEN SectorBytes
                                           ELSE want - (i - 1) * SectorBytes>>
      <4>1. CASE m = 0
        BY <2>2, <2>3, <2>5, <2>6, <4>1
      <4>2. CASE m > 0
        <5>1. Len(out) = j
          <6>1. Len(out) < j => Len(out) * SectorBytes <= j * SectorBytes
            BY <2>3, Multiples
          <6>2. Len(out) * SectorBytes \in Nat
            BY <2>3, Multiples
          <6> QED
            BY <1>3, <2>2, <2>3, <2>5, <4>2, <6>1, <6>2
        <5>2. <<data[cl], m>> \in Pieces
          BY <1>1, <2>5 DEF Pieces, TypeOK
        <5>3. /\ out' \in Seq(Pieces) /\ Len(out') = j + 1
              /\ out'[j + 1] = <<data[cl], m>>
              /\ \A i \in 1 .. j : out'[i] = out[i]
          BY <2>2, <2>6, <4>2, <5>1, <5>2
        <5>4. (j + 1) - 1 = j
          BY <2>3
        <5>5. m = IF (j + 1) * SectorBytes <= want THEN SectorBytes ELSE want - j * SectorBytes
          BY <2>5, <4>2
        <5>6. ASSUME NEW i \in 1 .. (j + 1)
              PROVE  out'[i] = <<data[w[i - 1]], IF i * SectorBytes <= want THEN SectorBytes
                                                 ELSE want - (i - 1) * SectorBytes>>
          <6>1. CASE i = j + 1
            BY <3>1, <5>3, <5>4, <5>5, <6>1
          <6>2. CASE i # j + 1
            <7>1. i \in 1 .. j
              BY <2>3, <6>2
            <7> QED
              BY <2>2, <5>1, <5>3, <7>1
          <6> QED
            BY <6>1, <6>2
        <5> QED
          BY <2>3, <2>5, <4>2, <5>3, <5>4, <5>6
      <4> QED
        BY <2>5, <4>1, <4>2
    <3>4. k' = IF (j + 1) * SectorBytes < want THEN (j + 1) * SectorBytes ELSE want
      BY <2>5, <2>6
    <3>5. Wanted' = want /\ Needed(dir[slot].size)' = n
      BY <1>1, <1>2 DEF Wanted, Needed
    <3>6. Copied(w, j + 1)'
      BY <1>1, <1>2, <2>2, <3>2, <3>3, <3>4, <3>5 DEF Copied
    <3> QED
      BY <3>1, <3>6
  <2> QED
    BY <2>7, <2>8
<1>6. Needed(dir[slot].size)' = n
  BY <1>1, <1>2 DEF Needed
<1> QED
  BY <1>1, <1>2, <1>5, <1>6 DEF ReadInv

LEMMA NextReadInv ==
  ASSUME FatInv, FatInv', DirectorySound, FilesWhole, ReadInv, [Next]_vars
  PROVE  ReadInv'
<1>1. CASE \E name \in Names, buf \in BufSizes : BeginRead(name, buf) /\ pc' = "read"
  BY <1>1, ReadBegins
<1>2. CASE ReadCluster
  BY <1>2, ReadGoesOn
<1>3. CASE UNCHANGED vars
  BY <1>3 DEF ReadInv, Copied, Wanted, Walk, Needed, vars, disk, locals, history
<1>4. CASE \/ \E name \in Names : BeginDelete(name)
           \/ \E name \in Names, val \in Vals, size \in Sizes : BeginWrite(name, val, size)
           \/ \E name \in Names, buf \in BufSizes : BeginRead(name, buf) /\ pc' # "read"
           \/ DiskWrite
  <2>1. /\ pc = "idle" /\ pc' \in {"idle", "free", "alloc"} /\ out' = out
        /\ ret' = "none" \/ pc' = "idle"
    BY <1>4 DEF BeginDelete, BeginWrite, BeginRead, DiskWrite, locals
  <2> QED
    BY <2>1 DEF ReadInv
<1>5. CASE FreeCluster \/ AllocCluster \/ MarkCluster \/ LinkCluster \/ WriteData
  <2>1. /\ pc \in {"free", "alloc", "mark", "link", "data"} /\ out' = out /\ ret' = ret
        /\ pc' \in {"free", "alloc", "mark", "link", "data", "dir"}
    BY <1>5 DEF FreeCluster, AllocCluster, MarkCluster, LinkCluster, WriteData, NextCopy
  <2> QED
    BY <2>1 DEF ReadInv
<1>6. CASE EraseEntry
  <2>1. pc = "free" /\ (pc' = "idle" \/ (pc' = "alloc" /\ ret' = ret)) /\ out' \in {out, <<>>}
    BY <1>6 DEF EraseEntry, Return, Forget
  <2> QED
    BY <2>1 DEF ReadInv
<1>7. CASE DiskFull \/ WriteEntry \/ RootFull \/ ReadDone \/ Crash
  <2>1. pc' = "idle" /\ out' = <<>>
    BY <1>7 DEF DiskFull, WriteEntry, RootFull, ReadDone, Crash, Return, Forget
  <2> QED
    BY <2>1 DEF ReadInv
<1>8. CASE Hang
  <2>1. pc # "idle" /\ pc' = "hung" /\ ret' = ret
    BY <1>8 DEF Hang
  <2> QED
    BY <2>1 DEF ReadInv
<1> QED
  BY <1>1, <1>2, <1>3, <1>4, <1>5, <1>6, <1>7, <1>8 DEF Next, Step

(* All that the proofs know of a state. *)
FileInv == DiskInv /\ ContentInv

LEMMA InitContent == Init => ContentInv
<1> SUFFICES ASSUME Init PROVE ContentInv
  OBVIOUS
<1>1. pc = "idle" /\ out = <<>> /\ \A s \in Slots : ~ Intact(s)
  BY DEF Init, Intact, Used
<1> QED
  BY <1>1 DEF ContentInv, FilesWhole, WriteInv, ReadInv, Building

THEOREM ContentInvariance == Spec => []FileInv
<1>1. Init => ContentInv
  BY InitContent
<1>2. ASSUME ContentInv, DiskInv, DiskInv', [Next]_vars
      PROVE  ContentInv'
  <2>1. FatInv /\ FatInv' /\ DirectorySound
    BY <1>2 DEF DiskInv, DirInv
  <2> QED
    BY <1>2, <2>1, NextWhole, NextWriteInv, NextReadInv DEF ContentInv
<1> QED
  BY <1>1, <1>2, DiskInvariance, PTL DEF Spec, FileInv

(* Once ReadDone is reached the bytes that were wanted are there. *)
LEMMA ReadEnds ==
  ASSUME FileInv, ReadDone, ~ torn
  PROVE  /\ Visible(req.name).size = dir[slot].size /\ k = Wanted
         /\ Len(out) = (Wanted + SectorBytes - 1) \div SectorBytes
         /\ \A i \in 1 .. Len(out) :
              /\ out[i][1] = Visible(req.name).sectors[i - 1]
              /\ out[i][2] = IF i * SectorBytes <= Wanted THEN SectorBytes
                             ELSE Wanted % SectorBytes
<1>1. /\ TypeOK /\ LocalsInv /\ NoSharing /\ DirectorySound /\ ReadInv
      /\ pc = "read" /\ slot \in Slots /\ Used(slot) /\ dir[slot].name = req.name
      /\ ~ (InChain(cl) /\ k < dir[slot].size)
  BY DEF FileInv, DiskInv, FatInv, ContentInv, DirInv, ReadDone, LocalsInv, ReadInv
<1>2. Intact(slot) /\ dir[slot].size \in Nat /\ req.size \in Nat /\ cl \in Entry
  BY <1>1, AllIntact DEF TypeOK
<1>3. PICK n, want : n = Needed(dir[slot].size) /\ want = Wanted
  OBVIOUS
<1>4. n \in Nat /\ n > 0 /\ n * SectorBytes >= dir[slot].size
  BY <1>2, <1>3, NeededIs
<1>5. want \in Nat /\ want <= dir[slot].size
  BY <1>2, <1>3 DEF Wanted
<1>6. PICK j \in 0 .. n, w \in [0 .. (n - 1) -> Clusters] : Copied(w, j)
  BY <1>1, <1>3 DEF ReadInv
<1>7. /\ out \in Seq(Pieces) /\ Walk(fat[1], w, dir[slot].first, n)
      /\ j < n => cl = w[j]
      /\ k = IF j * SectorBytes < want THEN j * SectorBytes ELSE want
      /\ Len(out) <= j
      /\ Len(out) < j => Len(out) * SectorBytes >= want
      /\ Len(out) > 0 => (Len(out) - 1) * SectorBytes < want
      /\ \A i \in 1 .. Len(out) :
           out[i] = <<data[w[i - 1]], IF i * SectorBytes <= want THEN SectorBytes
                                      ELSE want - (i - 1) * SectorBytes>>
  BY <1>3, <1>6 DEF Copied
<1>8. j \in Nat /\ Len(out) \in Nat /\ j * SectorBytes \in Nat
  BY <1>7, Multiples
<1>9. k = want /\ j * SectorBytes >= want
  <2>1. CASE k >= dir[slot].size
    BY <1>2, <1>5, <1>7, <1>8, <2>1
  <2>2. CASE ~ InChain(cl)
    <3>1. cl \notin Clusters
      BY <1>2, <2>2, EntryFacts
    <3>2. j = n
      BY <1>4, <1>7, <3>1
    <3> QED
      BY <1>2, <1>4, <1>5, <1>7, <1>8, <3>2
  <2>3. k \in Nat
    BY <1>1 DEF TypeOK
  <2> QED
    BY <1>1, <1>2, <2>1, <2>2, <2>3
<1>10. Len(out) * SectorBytes >= want
  BY <1>7, <1>8, <1>9
<1>11. /\ Len(out) = (want + SectorBytes - 1) \div SectorBytes
       /\ \A i \in 1 .. Len(out) : ~ (i * SectorBytes <= want) =>
            want - (i - 1) * SectorBytes = want % SectorBytes
  BY <1>5, <1>7, <1>8, <1>10, Pieced
<1>12. Visible(req.name) =
         [size    |-> dir[slot].size,
          sectors |-> SectorsIn(fat[1], data, dir[slot].first, Needed(dir[slot].size))]
  BY <1>1, <1>2, VisibleIs
<1>13. SectorsIn(fat[1], data, dir[slot].first, n) = [i \in 0 .. (n - 1) |-> data[w[i]]]
  BY <1>4, <1>7, SectorsAre
<1>14. ASSUME NEW i \in 1 .. Len(out)
       PROVE  /\ out[i][1] = Visible(req.name).sectors[i - 1]
              /\ out[i][2] = IF i * SectorBytes <= want THEN SectorBytes
                             ELSE want % SectorBytes
  <2>1. i - 1 \in 0 .. (n - 1)
    BY <1>4, <1>7, <1>8
  <2>2. out[i] = <<data[w[i - 1]], IF i * SectorBytes <= want THEN SectorBytes
                                   ELSE want - (i - 1) * SectorBytes>>
    BY <1>7
  <2>3. Visible(req.name).sectors[i - 1] = data[w[i - 1]]
    BY <1>3, <1>12, <1>13, <2>1
  <2>4. out[i][1] = data[w[i - 1]] /\
        out[i][2] = IF i * SectorBytes <= want THEN SectorBytes
                    ELSE want - (i - 1) * SectorBytes
    BY <2>2
  <2> QED
    BY <1>11, <2>3, <2>4
<1> QED
  BY <1>3, <1>9, <1>11, <1>12, <1>14

(* fat16_read_file returns the file, whatever writes, deletes and resets   *)
(* came before, and also when the disk is full past its end.               *)
THEOREM ReadIsFile == Spec => ReadReturnsFile
<1>1. ASSUME FileInv, [Next]_vars, pc = "read", ret' = "ok", ~ torn
      PROVE  LET file == Visible(req.name)
                 want == IF file.size < req.size THEN file.size ELSE req.size
             IN  /\ k = want
                 /\ Len(out) = (want + SectorBytes - 1) \div SectorBytes
                 /\ \A i \in 1 .. Len(out) :
                      /\ out[i][1] = file.sectors[i - 1]
                      /\ out[i][2] = IF i * SectorBytes <= want THEN SectorBytes
                                     ELSE want % SectorBytes
  <2>1. ret = "none"
    BY <1>1 DEF FileInv, ContentInv, ReadInv
  <2>2. ReadDone
    BY <1>1, <2>1 DEF Next, Step, vars, BeginDelete, BeginWrite, BeginRead, FreeCluster,
           EraseEntry, AllocCluster, DiskFull, MarkCluster, LinkCluster, WriteData, WriteEntry,
           RootFull, ReadCluster, Hang, DiskWrite, Crash, Return
  <2>3. Wanted = IF Visible(req.name).size < req.size THEN Visible(req.name).size ELSE req.size
    BY <1>1, <2>2, ReadEnds DEF Wanted
  <2> QED
    BY <1>1, <2>2, <2>3, ReadEnds
<1> QED
  BY <1>1, ContentInvariance, PTL DEF Spec, ReadReturnsFile

-----------------------------------------------------------------------------
(* The driver implements FileStore, as long as no cluster past the end of  *)
(* the disk is in use: such a cluster is marked, but nothing is stored in  *)
(* it.                                                                     *)
TailFree == \A c \in Clusters : fat[1][c] # FREE => OnDisk(c)

(* What a reader finds after a step. *)
LEMMA VisibleIsNext ==
  ASSUME TypeOK', DirectorySound', NEW n, NEW s \in Slots, Intact(s)', dir'[s].name = n
  PROVE  Visible(n)' =
           [size    |-> dir'[s].size,
            sectors |-> SectorsIn(fat'[1], data', dir'[s].first, Needed(dir'[s].size))]
<1>1. Used(s)' /\ Live(s)' /\ \A t \in Slots : dir'[t].name = n => t = s
  BY DEF Intact, DirectorySound
<1>2. \A t \in 1 .. (s - 1) : t \in Slots /\ t # s
  BY Fat16Assumption DEF Slots
<1>3. s \in Lookup(n)'
  BY <1>1, <1>2 DEF Lookup
<1>4. {t \in Lookup(n) : Intact(t)}' = {s}
  BY <1>1, <1>3 DEF Lookup
<1>5. (CHOOSE t \in {s} : TRUE) = s
  OBVIOUS
<1>6. Visible(n)' =
        [size    |-> dir'[s].size,
         sectors |-> SectorsFrom(dir[s].first, Needed(dir[s].size))']
  BY <1>4, <1>5 DEF Visible
<1>7. SectorsFrom(dir[s].first, Needed(dir[s].size))' =
        SectorsIn(fat'[1], data', dir'[s].first, Needed(dir'[s].size))
  BY DEF SectorsFrom, SectorsIn, Needed
<1> QED
  BY <1>6, <1>7

LEMMA VisibleNotNext ==
  ASSUME NEW n, \A s \in Slots : dir'[s].name = n => ~ Intact(s)'
  PROVE  Visible(n)' = Absent
BY DEF Visible, Lookup, Absent

(* A file that is there has at least one sector. *)
LEMMA FileNotAbsent ==
  ASSUME NEW size \in Nat, NEW F, NEW D, NEW c
  PROVE  [size |-> size, sectors |-> SectorsIn(F, D, c, Needed(size))] # Absent
<1>1. PICK n : n = Needed(size)
  OBVIOUS
<1>2. 0 \in 0 .. (n - 1)
  BY <1>1, NeededIs
<1>3. DOMAIN SectorsIn(F, D, c, n) = 0 .. (n - 1)
  BY DEF SectorsIn
<1>4. SectorsIn(F, D, c, n) # <<>>
  <2>1. DOMAIN <<>> = {}
    OBVIOUS
  <2> QED
    BY <1>2, <1>3, <2>1
<1> QED
  BY <1>1, <1>4 DEF Absent

(* The new entry leads to the contents that were written. *)
LEMMA WriteEnds ==
  ASSUME FileInv, FileInv', TailFree, ~ torn, WriteEntry, NEW n, n = req.name
  PROVE  Visible(n)' = Contents(req.val, req.size)
<1>1. /\ pc = "dir" /\ Building /\ FatInv /\ TypeOK /\ WriteInv /\ TypeOK' /\ DirectorySound'
      /\ req.name \in FatNames /\ fat' = fat /\ data' = data /\ req.size \in Nat
  BY DEF FileInv, DiskInv, ContentInv, FatInv, DirInv, WriteEntry, Building, TypeOK
<1>2. k = Needed(req.size) /\ k \in Nat /\ k # 0
  BY <1>1, NeededIs DEF WriteInv
<1>3. PICK w \in [0 .. (k - 1) -> Clusters] : Stored(w)
  BY <1>1, <1>2 DEF WriteInv
<1>4. /\ Walk(fat[1], w, first, k) /\ w[0] = first
      /\ \A i \in 1 .. (k - 1) : w[i] = fat[1][w[i - 1]]
      /\ \A i \in 0 .. (k - 1) : OnDisk(w[i]) => data[w[i]] = <<req.val, i>>
  BY <1>2, <1>3 DEF Stored, Walk
<1>5. fat[1][first] # FREE
  BY <1>1, <1>2 DEF FatInv, LocalsInv, InHand, Detached
<1>6. ASSUME NEW i \in 0 .. (k - 1) PROVE data[w[i]] = <<req.val, i>>
  <2>1. fat[1][w[i]] # FREE
    <3>1. CASE i = 0
      BY <1>4, <1>5, <3>1
    <3>2. CASE i # 0
      <4>1. i \in 1 .. (k - 1) /\ i - 1 \in 0 .. (k - 1)
        BY <1>2, <3>2
      <4>2. w[i - 1] \in Clusters /\ fat[1][w[i - 1]] = w[i] /\ w[i] \in Clusters
        BY <1>4, <4>1
      <4> QED
        BY <4>2 DEF FileInv, DiskInv, FatInv, NoSharing
    <3> QED
      BY <3>1, <3>2
  <2>2. OnDisk(w[i])
    BY <2>1 DEF TailFree
  <2> QED
    BY <1>4, <2>2
<1>7. PICK s \in Slots :
        dir' = [dir EXCEPT ![s] = [name |-> req.name, first |-> first, size |-> req.size]]
  BY DEF WriteEntry
<1>8. dir'[s] = [name |-> req.name, first |-> first, size |-> req.size]
  BY <1>1, <1>7 DEF TypeOK
<1>9. Intact(s)'
  BY <1>1, <1>5, <1>8, Fat16Assumption DEF Intact, Used
<1>10. SectorsIn(fat[1], data, first, k) = [i \in 0 .. (k - 1) |-> data[w[i]]]
  BY <1>2, <1>4, SectorsAre
<1>11. Visible(n)' =
         [size    |-> dir'[s].size,
          sectors |-> SectorsIn(fat'[1], data', dir'[s].first, Needed(dir'[s].size))]
  BY <1>1, <1>8, <1>9, VisibleIsNext
<1>12. Visible(n)' = [size |-> req.size, sectors |-> [i \in 0 .. (k - 1) |-> data[w[i]]]]
  <2>1. dir'[s].first = first /\ dir'[s].size = req.size
    BY <1>8
  <2>2. SectorsIn(fat'[1], data', dir'[s].first, Needed(dir'[s].size))
          = SectorsIn(fat[1], data, first, k)
    BY <1>1, <1>2, <2>1
  <2> QED
    BY <1>10, <1>11, <2>1, <2>2
<1>13. [i \in 0 .. (k - 1) |-> data[w[i]]] = [i \in 0 .. (k - 1) |-> <<req.val, i>>]
  BY <1>6
<1> QED
  BY <1>2, <1>12, <1>13 DEF Contents

(* A write that returns 0 has stored what it was given, as long as no      *)
(* cluster past the end of the disk is in use.                         *)
THEOREM WriteIsStored == Spec /\ []TailFree => WriteStores
<1>1. ASSUME FileInv, FileInv', TailFree, [Next]_vars, pc = "dir", ret' = "ok", ~ torn,
             NEW n \in {req.name}
      PROVE  Visible(n)' = Contents(req.val, req.size)
  <2>1. ret = "none"
    BY <1>1 DEF FileInv, ContentInv, ReadInv
  <2>2. WriteEntry
    BY <1>1, <2>1 DEF Next, Step, vars, BeginDelete, BeginWrite, BeginRead, FreeCluster,
           EraseEntry, AllocCluster, DiskFull, MarkCluster, LinkCluster, WriteData, ReadDone,
           RootFull, ReadCluster, Hang, DiskWrite, Crash, Return
  <2> QED
    BY <1>1, <2>2, WriteEnds
<1>2. ASSUME FileInv, FileInv', TailFree, [Next]_vars
      PROVE  pc = "dir" /\ ret' = "ok" /\ ~ torn =>
               \A n \in {req.name} : Visible(n)' = Contents(req.val, req.size)
  BY <1>1, <1>2
<1> QED
  BY <1>2, ContentInvariance, PTL DEF Spec, WriteStores

-----------------------------------------------------------------------------
(* One step of the driver is one step of FileStore, or none. *)

(* The file of a name is the same after a step that neither takes away nor *)
(* adds an entry with that name and a chain.                               *)
LEMMA VisibleSame ==
  ASSUME FileInv, FileInv', ~ torn, [Next]_vars, NEW n,
         \A s \in Slots : Intact(s) /\ dir[s].name = n => Intact(s)' /\ dir'[s] = dir[s],
         \A s \in Slots : Intact(s)' /\ dir'[s].name = n => dir'[s] = dir[s]
  PROVE  Visible(n)' = Visible(n)
<1>1. /\ FatInv /\ TypeOK /\ TypeOK' /\ DirectorySound /\ DirectorySound'
      /\ WriteInv /\ FilesWhole
  BY DEF FileInv, DiskInv, ContentInv, FatInv, DirInv
<1>2. CASE \E s \in Slots : Intact(s)' /\ dir'[s].name = n
  <2>1. PICK s \in Slots : Intact(s)' /\ dir'[s].name = n /\ dir'[s] = dir[s]
    BY <1>2
  <2>2. Intact(s) /\ SectorsIn(fat'[1], data', dir[s].first, Needed(dir[s].size))
                       = SectorsIn(fat[1], data, dir[s].first, Needed(dir[s].size))
    BY <1>1, <2>1, FileWas
  <2>3. Visible(n)' =
          [size    |-> dir'[s].size,
           sectors |-> SectorsIn(fat'[1], data', dir'[s].first, Needed(dir'[s].size))]
    BY <1>1, <2>1, VisibleIsNext
  <2>4. Visible(n) =
          [size    |-> dir[s].size,
           sectors |-> SectorsIn(fat[1], data, dir[s].first, Needed(dir[s].size))]
    BY <1>1, <2>1, <2>2, VisibleIs
  <2> QED
    BY <2>1, <2>2, <2>3, <2>4
<1>3. CASE ~ \E s \in Slots : Intact(s)' /\ dir'[s].name = n
  <2>1. \A s \in Slots : dir[s].name = n => ~ Intact(s)
    BY <1>3
  <2> QED
    BY <1>3, <2>1, VisibleNot, VisibleNotNext
<1> QED
  BY <1>2, <1>3

(* Steps that do not begin to free a file's chain or write its entry. *)
LEMMA KeepsFiles ==
  ASSUME FileInv, FileInv', ~ torn, [Next]_vars, ~ WriteEntry,
         pc = "free" /\ slot \in Slots /\ Intact(slot) => fat'[1][dir[slot].first] # FREE,
         NEW n \in FatNames
  PROVE  Visible(n)' = Visible(n)
<1>1. FatInv /\ TypeOK /\ LocalsInv /\ WriteInv /\ FilesWhole /\ DirectorySound
  BY DEF FileInv, DiskInv, ContentInv, FatInv, DirInv
<1>2. CASE dir' = dir
  <2>1. ASSUME NEW s \in Slots, Intact(s) PROVE Intact(s)'
    <3>1. PICK W : /\ Sealed(fat[1], W) /\ Agree(W)
                   /\ \A t \in Slots : Intact(t) /\ dir[t].first \in W =>
                        pc = "free" /\ t = slot /\ fat'[1][dir[t].first] = FREE
      BY <1>1, StepTouches
    <3>2. CASE dir[s].first \in W
      BY <2>1, <3>1, <3>2
    <3>3. CASE dir[s].first \notin W
      BY <1>1, <1>2, <2>1, <3>1, <3>3, FileKept
    <3> QED
      BY <3>2, <3>3
  <2> QED
    BY <1>2, <2>1, VisibleSame
<1>3. CASE EraseEntry
  <2>1. pc = "free" /\ ~ InChain(cl) /\ slot \in Slots /\ fat' = fat
        /\ dir' = [dir EXCEPT ![slot].name = DELETED]
    BY <1>1, <1>3 DEF EraseEntry, LocalsInv
  <2>2. dir'[slot].name = DELETED /\ \A s \in Slots : s # slot => dir'[s] = dir[s]
    BY <1>1, <2>1 DEF TypeOK
  <2>3. ~ Intact(slot)
    <3>1. cl \notin Clusters
      BY <1>1, <2>1, EntryFacts DEF TypeOK
    <3> QED
      BY <1>1, <2>1, <3>1 DEF FatInv, InHand, LocalsInv
  <2>4. \A s \in Slots : Intact(s) => s # slot /\ Intact(s)'
    BY <2>1, <2>2, <2>3 DEF Intact, Used
  <2>5. \A s \in Slots : Intact(s)' => s # slot
    BY <2>2 DEF Intact, Used
  <2> QED
    BY <2>2, <2>4, <2>5, VisibleSame
<1> QED
  BY <1>2, <1>3, DirSteps

(* Freeing the first cluster removes the file. *)
LEMMA FreesFile ==
  ASSUME FileInv, FileInv', ~ torn, [Next]_vars,
         pc = "free", slot \in Slots, Intact(slot), fat'[1][dir[slot].first] = FREE
  PROVE  \E m \in FatNames :
           /\ Visible(m) # Absent /\ Visible(m)' = Absent
           /\ \A n \in FatNames : n # m => Visible(n)' = Visible(n)
<1>1. FatInv /\ TypeOK /\ LocalsInv /\ WriteInv /\ FilesWhole /\ DirectorySound
  BY DEF FileInv, DiskInv, ContentInv, FatInv, DirInv
<1>2. ~ EraseEntry /\ ~ WriteEntry
  <2>1. ASSUME EraseEntry PROVE FALSE
    <3>1. cl \notin Clusters
      BY <1>1, <2>1, EntryFacts DEF EraseEntry, TypeOK
    <3>2. cl = dir[slot].first
      BY <1>1 DEF FatInv, InHand
    <3> QED
      BY <1>1, <3>1, <3>2 DEF LocalsInv, Intact
  <2> QED
    BY <2>1 DEF WriteEntry
<1>3. dir' = dir
  BY <1>2, DirSteps
<1>4. PICK t, m : t = slot /\ m = dir[t].name
  OBVIOUS
<1>5. Used(t) /\ m \in FatNames /\ dir[t].size \in Nat
  BY <1>1, <1>4 DEF Intact, Used, TypeOK
<1>6. \A s \in Slots : dir[s].name = m => s = t
  BY <1>1, <1>4, <1>5 DEF DirectorySound
<1>7. Visible(m) # Absent
  <2>1. Visible(m) = [size    |-> dir[t].size,
                      sectors |-> SectorsIn(fat[1], data, dir[t].first, Needed(dir[t].size))]
    BY <1>1, <1>4, VisibleIs
  <2> QED
    BY <1>5, <2>1, FileNotAbsent
<1>8. Visible(m)' = Absent
  <2>1. ~ Intact(t)'
    BY <1>3, <1>4 DEF Intact
  <2> QED
    BY <1>3, <1>6, <2>1, VisibleNotNext
<1>9. ASSUME NEW n \in FatNames, n # m PROVE Visible(n)' = Visible(n)
  <2>1. ASSUME NEW s \in Slots, Intact(s), dir[s].name = n PROVE Intact(s)'
    <3>1. PICK W : /\ Sealed(fat[1], W) /\ Agree(W)
                   /\ \A u \in Slots : Intact(u) /\ dir[u].first \in W => u = slot
      BY <1>1, StepTouches
    <3>2. dir[s].first \notin W
      BY <1>4, <1>9, <2>1, <3>1
    <3> QED
      BY <1>1, <1>3, <2>1, <3>1, <3>2, FileKept
  <2> QED
    BY <1>3, <2>1, VisibleSame
<1> QED
  BY <1>5, <1>7, <1>8, <1>9

(* Writing the directory entry puts the file. *)
LEMMA PutsFile ==
  ASSUME FileInv, FileInv', TailFree, ~ torn, [Next]_vars, WriteEntry
  PROVE  \E m \in FatNames, val \in Vals, size \in Sizes :
           /\ Visible(m) = Absent /\ Visible(m)' = Contents(val, size)
           /\ \A n \in FatNames : n # m => Visible(n)' = Visible(n)
<1>1. /\ TypeOK /\ pc = "dir" /\ Building /\ fat' = fat
      /\ req.name \in FatNames /\ \A s \in Slots : dir[s].name # req.name
      /\ req.val \in Vals /\ req.size \in Sizes
  BY DEF FileInv, DiskInv, ContentInv, FatInv, DirInv, WriteInv, WriteEntry, Building
<1>2. PICK m, val, size : m = req.name /\ val = req.val /\ size = req.size
  OBVIOUS
<1>3. Visible(m) = Absent
  BY <1>1, <1>2, VisibleNot
<1>4. Visible(m)' = Contents(val, size)
  BY <1>2, WriteEnds
<1>5. PICK t \in Slots : /\ FirstSlot(t)
                         /\ dir' = [dir EXCEPT ![t] =
                              [name |-> req.name, first |-> first, size |-> req.size]]
  BY DEF WriteEntry
<1>6. /\ dir'[t].name = m /\ ~ Used(t)
      /\ \A s \in Slots : s # t => dir'[s] = dir[s]
  BY <1>1, <1>2, <1>5 DEF TypeOK, FirstSlot, FreeSlots
<1>7. ASSUME NEW n \in FatNames, n # m PROVE Visible(n)' = Visible(n)
  <2>1. \A s \in Slots : Intact(s) => s # t /\ Intact(s)'
    BY <1>1, <1>6 DEF Intact, Used
  <2> QED
    BY <1>6, <1>7, <2>1, VisibleSame
<1> QED
  BY <1>1, <1>2, <1>3, <1>4, <1>7

(* The refinement mapping. *)
Files == [n \in FatNames |-> Visible(n)]

LEMMA InitStore == Init => Store!Init
<1> SUFFICES ASSUME Init PROVE Files = [n \in FatNames |-> Absent] /\ torn = FALSE
  BY DEF Store!Init, Files
<1>1. \A s \in Slots : ~ Intact(s)
  BY DEF Init, Intact, Used
<1>2. \A n \in FatNames : Visible(n) = Absent
  BY <1>1, VisibleNot
<1> QED
  BY <1>2 DEF Files, Init

LEMMA StepStore ==
  ASSUME FileInv, FileInv', TailFree, [Next]_vars
  PROVE  [Store!Next]_<<Files, torn>>
<1>1. CASE torn'
  BY <1>1 DEF Store!Next
<1>2. CASE ~ torn'
  <2>1. ~ torn /\ torn' = torn
    BY <1>2, DirSteps DEF FileInv, DiskInv, FatInv, TypeOK
  <2>2. CASE WriteEntry
    <3>1. PICK m \in FatNames, val \in Vals, size \in Sizes :
            /\ Visible(m) = Absent /\ Visible(m)' = Contents(val, size)
            /\ \A n \in FatNames : n # m => Visible(n)' = Visible(n)
      BY <2>1, <2>2, PutsFile
    <3>2. Files[m] = Absent /\ Files' = [Files EXCEPT ![m] = Contents(val, size)]
      BY <3>1 DEF Files
    <3>3. Store!Put(m, Contents(val, size))
      BY <3>2 DEF Store!Put, Files
    <3> QED
      BY <2>1, <3>3 DEF Store!Next, Store!Operate
  <2>3. CASE pc = "free" /\ slot \in Slots /\ Intact(slot)
             /\ fat'[1][dir[slot].first] = FREE
    <3>1. PICK m \in FatNames :
            /\ Visible(m) # Absent /\ Visible(m)' = Absent
            /\ \A n \in FatNames : n # m => Visible(n)' = Visible(n)
      BY <2>1, <2>3, FreesFile
    <3>2. Files[m] # Absent /\ Files' = [Files EXCEPT ![m] = Absent]
      BY <3>1 DEF Files
    <3>3. Store!Remove(m)
      BY <3>2 DEF Store!Remove, Files
    <3> QED
      BY <2>1, <3>3 DEF Store!Next, Store!Operate
  <2>4. CASE /\ ~ WriteEntry
             /\ ~ (pc = "free" /\ slot \in Slots /\ Intact(slot)
                   /\ fat'[1][dir[slot].first] = FREE)
    <3>1. \A n \in FatNames : Visible(n)' = Visible(n)
      BY <2>1, <2>4, KeepsFiles
    <3>2. Files' = Files
      BY <3>1 DEF Files
    <3> QED
      BY <2>1, <3>2
  <2> QED
    BY <2>2, <2>3, <2>4
<1> QED
  BY <1>1, <1>2

(* The driver, which frees, marks, links and stores sector by sector, and  *)
(* a reset may fall between any two, changes the files as FileStore says:  *)
(* one name at a time, from a file to none or from none to exactly what    *)
(* was written; as long as no cluster past the end of the disk is in use.  *)
THEOREM ImplementsFileStore == Spec /\ []TailFree => RefinesFileStore
<1>1. FileInv /\ FileInv' /\ TailFree /\ [Next]_vars => [Store!Next]_<<Files, torn>>
  BY StepStore
<1> QED
  BY <1>1, InitStore, ContentInvariance, PTL DEF Spec, RefinesFileStore, Store!Spec, Files
=============================================================================
