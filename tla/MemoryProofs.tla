---------------------------- MODULE MemoryProofs ----------------------------
(***************************************************************************)
(* Proofs about Memory, for every heap size and every set of requests none *)
(* of which wraps around when it is rounded up (NoWrap).                   *)
(***************************************************************************)
EXTENDS Memory, TLAPS

(* Reduction modulo m leaves a number below m alone. *)
LEMMA ModSmall ==
  ASSUME NEW x \in Nat, NEW m \in Nat, x < m
  PROVE  x % m = x
BY SMT

(* memory_alloc's rounding never yields less than what was asked for. *)
LEMMA AlignUpRounds ==
  ASSUME NoWrap, NEW size \in Requests
  PROVE  AlignUp(size) \in Nat /\ size <= AlignUp(size)
<1>1. size \in Nat /\ size + 3 \in Nat /\ WordMod \in Nat /\ size + 3 < WordMod
  BY HeapAssumption DEF NoWrap
<1>2. (size + 3) % WordMod = size + 3
  BY <1>1, ModSmall
<1>3. QED
  BY <1>1, <1>2 DEF AlignUp

(* Facts about addresses that the steps below share. *)
LEMMA AddrFacts ==
  /\ HEAP_START \in Addr /\ HEAP_START # NULL
  /\ HEAP_END \in Nat
  /\ Addr \subseteq Nat
  /\ \A a \in Addr : a # NULL /\ HEAP_START <= a /\ a < HEAP_END
BY HeapAssumption DEF Addr, HEAP_END, NULL, HeaderSize

(* The list of memory_init satisfies the invariant. *)
LEMMA InitHeapInv == Init => HeapInv
<1> SUFFICES ASSUME Init PROVE HeapInv
  OBVIOUS
<1> USE AddrFacts, HeapAssumption
<1>1. /\ DOMAIN block = {HEAP_START}
      /\ block[HEAP_START] = [size |-> HEAP_SIZE - HeaderSize, is_free |-> TRUE, next |-> NULL]
      /\ HEAP_SIZE - HeaderSize \in Nat
  BY DEF Init, HeaderSize
<1>2. End(HEAP_START) = HEAP_END
  BY <1>1 DEF End, HEAP_END, HeaderSize
<1>3. TypeOK
  BY <1>1 DEF Init, TypeOK, Header
<1>4. HeapTiled
  BY <1>1, <1>2 DEF HeapTiled
<1>5. Covered
  BY <1>1, <1>2 DEF Covered
<1>6. OwnersHold
  BY <1>1 DEF Init, OwnersHold
<1>7. MergedBehind
  BY <1>1 DEF MergedBehind, Mergeable
<1>8. SearchedBehind
  BY DEF Init, SearchedBehind
<1>9. QED
  BY <1>3, <1>4, <1>5, <1>6, <1>7, <1>8 DEF HeapInv

(* The successor of a block is the next header in address order: whatever  *)
(* lies before it is the block itself or lies before the block too.        *)
LEMMA NextIsNearest ==
  ASSUME HeapInv, NEW a \in DOMAIN block, NEW b \in DOMAIN block,
         block[a].next = NULL \/ b < block[a].next
  PROVE  b = a \/ b < a
<1>1. a \in Nat /\ b \in Nat /\ a \in Addr /\ b \in Addr
  BY AddrFacts DEF HeapInv, TypeOK
<1>2. block[a].next = IF End(a) = HEAP_END THEN NULL ELSE End(a)
  BY DEF HeapInv, HeapTiled
<1>3. a < b => End(a) <= b
  BY DEF HeapInv, HeapTiled
<1>4. block[a].size \in Nat
  BY DEF HeapInv, TypeOK, Header
<1>5. End(a) \in Nat /\ End(a) # NULL
  BY <1>1, <1>4 DEF End, HeaderSize, NULL
<1>6. QED
  BY <1>1, <1>2, <1>3, <1>5, AddrFacts

(* A step that leaves the list and the callers alone keeps the parts of    *)
(* the invariant that are about them only.                                 *)
LEMMA ListUnchanged ==
  ASSUME HeapInv, block' = block, owned' = owned
  PROVE  HeapTiled' /\ Covered' /\ OwnersHold'
<1>1. HeapTiled'
  BY DEF HeapInv, HeapTiled, End
<1>2. Covered'
  BY DEF HeapInv, Covered, End
<1>3. OwnersHold'
  BY DEF HeapInv, OwnersHold
<1>4. QED
  BY <1>1, <1>2, <1>3

LEMMA AllocCallInv ==
  ASSUME HeapInv, NEW size \in Requests, AllocCall(size)
  PROVE  HeapInv'
<1>1. block' = block /\ owned' = owned /\ op = "idle" /\ op' = "alloc"
      /\ want' = size /\ current' = HEAP_START
  BY DEF AllocCall
<1>2. HeapTiled' /\ Covered' /\ OwnersHold'
  BY <1>1, ListUnchanged
<1>3. TypeOK'
  BY <1>1, HeapAssumption DEF HeapInv, TypeOK, HeapTiled
<1>4. MergedBehind'
  BY <1>1 DEF HeapInv, MergedBehind, Mergeable
<1>5. SearchedBehind'
  BY <1>1, AddrFacts DEF HeapInv, TypeOK, SearchedBehind, Fits
<1>6. QED
  BY <1>2, <1>3, <1>4, <1>5 DEF HeapInv

LEMMA AllocSkipInv ==
  ASSUME HeapInv, AllocSkip
  PROVE  HeapInv'
<1>1. block' = block /\ owned' = owned /\ op = "alloc" /\ op' = "alloc"
      /\ want' = want /\ current' = block[current].next /\ current # NULL
      /\ ~ Fits(current, AlignUp(want))
  BY DEF AllocSkip
<1>2. HeapTiled' /\ Covered' /\ OwnersHold'
  BY <1>1, ListUnchanged
<1>3. current \in DOMAIN block /\ current' \in DOMAIN block \cup {NULL}
  BY <1>1 DEF HeapInv, TypeOK, HeapTiled
<1>4. TypeOK'
  BY <1>1, <1>3 DEF HeapInv, TypeOK
<1>5. MergedBehind'
  BY <1>1 DEF HeapInv, MergedBehind, Mergeable
<1>6. SearchedBehind'
  <2>1. ASSUME NEW a \in DOMAIN block, current' = NULL \/ a < current'
        PROVE  ~ Fits(a, AlignUp(want))
    <3>1. a = current \/ a < current
      BY <1>1, <1>3, <2>1, NextIsNearest
    <3>2. QED
      BY <1>1, <3>1 DEF HeapInv, SearchedBehind
  <2>2. QED
    BY <1>1, <2>1 DEF HeapInv, SearchedBehind, Fits
<1>7. QED
  BY <1>2, <1>4, <1>5, <1>6 DEF HeapInv

LEMMA AllocFailInv ==
  ASSUME HeapInv, AllocFail
  PROVE  HeapInv'
<1>1. block' = block /\ owned' = owned /\ op = "alloc" /\ op' = "idle"
      /\ want' = want /\ current' = current
  BY DEF AllocFail
<1>2. HeapTiled' /\ Covered' /\ OwnersHold'
  BY <1>1, ListUnchanged
<1>3. TypeOK' /\ SearchedBehind'
  BY <1>1 DEF HeapInv, TypeOK, SearchedBehind
<1>4. MergedBehind'
  BY <1>1 DEF HeapInv, MergedBehind, Mergeable
<1>5. QED
  BY <1>2, <1>3, <1>4 DEF HeapInv

LEMMA FreeReturnInv ==
  ASSUME HeapInv, FreeReturn
  PROVE  HeapInv'
<1>1. block' = block /\ owned' = owned /\ op = "free" /\ op' = "idle"
      /\ want' = want /\ current = NULL /\ current' = current
  BY DEF FreeReturn
<1>2. HeapTiled' /\ Covered' /\ OwnersHold'
  BY <1>1, ListUnchanged
<1>3. TypeOK' /\ SearchedBehind'
  BY <1>1 DEF HeapInv, TypeOK, SearchedBehind
<1>4. MergedBehind'
  BY <1>1 DEF HeapInv, MergedBehind, Mergeable
<1>5. QED
  BY <1>2, <1>3, <1>4 DEF HeapInv

LEMMA FreeSkipInv ==
  ASSUME HeapInv, FreeSkip
  PROVE  HeapInv'
<1>1. block' = block /\ owned' = owned /\ op = "free" /\ op' = "free"
      /\ want' = want /\ current' = block[current].next /\ current # NULL
      /\ ~ Mergeable(current)
  BY DEF FreeSkip
<1>2. HeapTiled' /\ Covered' /\ OwnersHold'
  BY <1>1, ListUnchanged
<1>3. current \in DOMAIN block /\ current' \in DOMAIN block \cup {NULL}
  BY <1>1 DEF HeapInv, TypeOK, HeapTiled
<1>4. TypeOK' /\ SearchedBehind'
  BY <1>1, <1>3 DEF HeapInv, TypeOK, SearchedBehind
<1>5. MergedBehind'
  <2>1. ASSUME NEW a \in DOMAIN block, current' = NULL \/ a < current'
        PROVE  ~ Mergeable(a)
    <3>1. a = current \/ a < current
      BY <1>1, <1>3, <2>1, NextIsNearest
    <3>2. QED
      BY <1>1, <3>1 DEF HeapInv, MergedBehind
  <2>2. QED
    BY <1>1, <2>1 DEF MergedBehind, Mergeable
<1>6. QED
  BY <1>2, <1>4, <1>5 DEF HeapInv

(* memory_free's first statement: the caller's block becomes free and the  *)
(* coalescing walk starts at the head of the list.                         *)
LEMMA FreeCallInv ==
  ASSUME HeapInv, NEW o \in owned, FreeCall(o)
  PROVE  HeapInv'
<1> DEFINE h == o.ptr - HeaderSize
<1>1. /\ op = "idle" /\ op' = "free" /\ current' = HEAP_START /\ want' = want
      /\ owned' = owned \ {o}
      /\ block' = [block EXCEPT ![h].is_free = TRUE]
  BY DEF FreeCall
<1>2. h \in DOMAIN block /\ ~ block[h].is_free
  BY DEF HeapInv, OwnersHold
<1>3. block \in [DOMAIN block -> Header]
  BY DEF HeapInv, TypeOK
<1>4. /\ DOMAIN block' = DOMAIN block
      /\ \A a \in DOMAIN block :
           /\ block'[a].size = block[a].size
           /\ block'[a].next = block[a].next
           /\ block'[a].is_free = IF a = h THEN TRUE ELSE block[a].is_free
           /\ block'[a] \in Header
  BY <1>1, <1>2, <1>3 DEF Header
<1>5. \A a \in DOMAIN block : End(a)' = End(a)
  BY <1>4 DEF End
<1>6. TypeOK'
  <2>1. block' \in [DOMAIN block -> Header]
    BY <1>1, <1>2, <1>3 DEF Header
  <2>2. QED
    BY <1>1, <1>4, <2>1 DEF HeapInv, TypeOK, HeapTiled
<1>7. HeapTiled'
  <2>1. HEAP_START \in DOMAIN block'
    BY <1>4 DEF HeapInv, HeapTiled
  <2>2. ASSUME NEW a \in DOMAIN block'
        PROVE  /\ block'[a].next = IF End(a)' = HEAP_END THEN NULL ELSE End(a)'
               /\ block'[a].next # NULL => block'[a].next \in DOMAIN block'
               /\ End(a)' <= HEAP_END
    <3>1. /\ a \in DOMAIN block /\ DOMAIN block' = DOMAIN block
          /\ block'[a].next = block[a].next /\ End(a)' = End(a)
      BY <1>4, <1>5
    <3>2. /\ block[a].next = IF End(a) = HEAP_END THEN NULL ELSE End(a)
          /\ block[a].next # NULL => block[a].next \in DOMAIN block
          /\ End(a) <= HEAP_END
      BY <3>1 DEF HeapInv, HeapTiled
    <3>3. QED
      BY <3>1, <3>2
  <2>3. \A a, b \in DOMAIN block' : a < b => End(a)' <= b
    BY <1>4, <1>5 DEF HeapInv, HeapTiled
  <2>4. QED
    BY <2>1, <2>2, <2>3 DEF HeapTiled
<1>8. Covered'
  BY <1>4, <1>5 DEF HeapInv, Covered
<1>9. OwnersHold'
  <2>1. \A q \in owned' : q.ptr # o.ptr /\ q \in owned
    BY <1>1 DEF HeapInv, OwnersHold
  <2>2. \A q \in owned' : q.ptr - HeaderSize # h
    BY <2>1, AddrFacts DEF HeapInv, TypeOK, HeaderSize
  <2>3. \A a \in DOMAIN block :
          ~ block[a].is_free /\ a # h => \E q \in owned' : q.ptr = a + HeaderSize
    <3>1. SUFFICES ASSUME NEW a \in DOMAIN block, ~ block[a].is_free, a # h
                   PROVE  \E q \in owned' : q.ptr = a + HeaderSize
      OBVIOUS
    <3>2. PICK q \in owned : q.ptr = a + HeaderSize
      BY <3>1 DEF HeapInv, OwnersHold
    <3>3. q # o
      BY <3>1, <3>2, AddrFacts DEF HeapInv, TypeOK, HeaderSize
    <3>4. QED
      BY <1>1, <3>2, <3>3
  <2>4. QED
    BY <1>4, <2>1, <2>2, <2>3 DEF HeapInv, OwnersHold
<1>10. MergedBehind'
  BY <1>1, <1>4, AddrFacts DEF HeapInv, TypeOK, MergedBehind
<1>11. SearchedBehind'
  BY <1>1 DEF SearchedBehind
<1>12. QED
  BY <1>6, <1>7, <1>8, <1>9, <1>10, <1>11 DEF HeapInv

(* One merge of memory_free: block `current' absorbs its successor n.      *)
LEMMA FreeMergeInv ==
  ASSUME HeapInv, FreeMerge
  PROVE  HeapInv'
<1> DEFINE c == current
           n == block[c].next
<1>1. /\ op = "free" /\ op' = op /\ current' = c /\ want' = want /\ owned' = owned
      /\ c # NULL /\ n # NULL /\ block[c].is_free /\ block[n].is_free
      /\ block' = [x \in DOMAIN block \ {n} |-> IF x = c THEN Merged(c) ELSE block[x]]
  BY DEF FreeMerge, Mergeable
<1>2. block \in [DOMAIN block -> Header] /\ DOMAIN block \subseteq Addr
  BY DEF HeapInv, TypeOK
<1>3. c \in DOMAIN block /\ n \in DOMAIN block
  BY <1>1 DEF HeapInv, TypeOK, HeapTiled
<1>4. \A a \in DOMAIN block : /\ a \in Nat /\ a \in Addr
                              /\ block[a].size \in Nat
                              /\ block[a].next \in Addr \cup {NULL}
                              /\ block[a].is_free \in BOOLEAN
                              /\ End(a) = a + HeaderSize + block[a].size
                              /\ End(a) \in Nat
                              /\ a < End(a)
  BY <1>2, AddrFacts DEF Header, End, HeaderSize
<1>5. n = End(c) /\ c < n
  BY <1>1, <1>3, <1>4 DEF HeapInv, HeapTiled
<1>6. DOMAIN block' = DOMAIN block \ {n}
  BY <1>1
<1>7. \A a \in DOMAIN block' : a # c => block'[a] = block[a] /\ End(a)' = End(a)
  BY <1>1, <1>6 DEF End
<1>8. Merged(c) = [size |-> block[c].size + HeaderSize + block[n].size,
                   is_free |-> block[c].is_free, next |-> block[n].next]
  BY DEF Merged
<1>9. /\ c \in DOMAIN block'
      /\ block'[c] = Merged(c)
      /\ block'[c].size = block[c].size + HeaderSize + block[n].size
      /\ block'[c].is_free = block[c].is_free
      /\ block'[c].next = block[n].next
  <2>1. c \in DOMAIN block'
    BY <1>3, <1>4, <1>5, <1>6
  <2>2. block'[c] = Merged(c)
    BY <1>1, <1>6, <2>1
  <2>3. QED
    BY <1>8, <2>1, <2>2
<1>10. \A a \in DOMAIN block' : a = c => End(a)' = End(n)
  <2>1. \A a \in DOMAIN block' : a = c =>
          End(a)' = c + HeaderSize + (block[c].size + HeaderSize + block[n].size)
    BY <1>9 DEF End
  <2>2. QED
    BY <2>1, <1>3, <1>4, <1>5 DEF HeaderSize
<1>11. TypeOK'
  <2>1. Merged(c) \in Header
    BY <1>3, <1>4, <1>8 DEF Header, HeaderSize
  <2>2. block' \in [DOMAIN block' -> Header]
    BY <1>1, <1>2, <1>6, <2>1
  <2>3. QED
    BY <1>1, <1>2, <1>6, <1>9, <2>2 DEF HeapInv, TypeOK
<1>12. HeapTiled'
  <2>1. HEAP_START \in DOMAIN block'
    BY <1>3, <1>4, <1>5, <1>6, AddrFacts DEF HeapInv, HeapTiled
  <2>2. \A a \in DOMAIN block' :
          /\ block'[a].next = IF End(a)' = HEAP_END THEN NULL ELSE End(a)'
          /\ End(a)' <= HEAP_END
    BY <1>3, <1>6, <1>7, <1>9, <1>10 DEF HeapInv, HeapTiled
  <2>3. ASSUME NEW a \in DOMAIN block', block'[a].next # NULL
        PROVE  block'[a].next \in DOMAIN block'
    <3>1. CASE a = c
      <4>1. block[n].next = End(n)
        BY <1>3, <1>9, <2>3, <3>1 DEF HeapInv, HeapTiled
      <4>2. block[n].next \in DOMAIN block /\ block[n].next # n
        BY <1>3, <1>4, <1>9, <2>3, <3>1, <4>1 DEF HeapInv, HeapTiled
      <4>3. QED
        BY <1>6, <1>9, <3>1, <4>2
    <3>2. CASE a # c
      <4>1. block[a].next \in DOMAIN block /\ block[a].next = End(a)
        BY <1>6, <1>7, <2>3, <3>2 DEF HeapInv, HeapTiled
      <4>2. End(a) # n
        <5>1. a < c => End(a) <= c
          BY <1>3, <1>6 DEF HeapInv, HeapTiled
        <5>2. c < a => End(c) <= a
          BY <1>3, <1>6 DEF HeapInv, HeapTiled
        <5>3. QED
          BY <1>3, <1>4, <1>5, <1>6, <3>2, <5>1, <5>2
      <4>3. QED
        BY <1>6, <1>7, <3>2, <4>1, <4>2
    <3>3. QED
      BY <3>1, <3>2
  <2>4. ASSUME NEW a \in DOMAIN block', NEW b \in DOMAIN block', a < b
        PROVE  End(a)' <= b
    <3>1. CASE a # c
      BY <1>6, <1>7, <2>4, <3>1 DEF HeapInv, HeapTiled
    <3>2. CASE a = c
      <4>1. End(c) <= b
        BY <1>3, <1>6, <2>4, <3>2 DEF HeapInv, HeapTiled
      <4>2. n < b
        BY <1>3, <1>4, <1>5, <1>6, <4>1
      <4>3. QED
        BY <1>3, <1>6, <1>10, <3>2, <4>2 DEF HeapInv, HeapTiled
    <3>3. QED
      BY <3>1, <3>2
  <2>5. QED
    BY <2>1, <2>2, <2>3, <2>4 DEF HeapTiled
<1>13. Covered'
  <2>1. SUFFICES ASSUME NEW p \in Addr
                 PROVE  \E a \in DOMAIN block' : a <= p /\ p < End(a)'
    BY DEF Covered
  <2>2. PICK a \in DOMAIN block : a <= p /\ p < End(a)
    BY DEF HeapInv, Covered
  <2>3. CASE a # c /\ a # n
    BY <1>6, <1>7, <2>2, <2>3
  <2>4. CASE a = c \/ a = n
    <3>1. c <= p /\ p < End(n)
      BY <1>3, <1>4, <1>5, <2>2, <2>4, AddrFacts
    <3>2. QED
      BY <1>9, <1>10, <3>1
  <2>5. QED
    BY <2>3, <2>4
<1>14. OwnersHold'
  <2>1. \A a \in DOMAIN block' :
          block'[a].is_free = block[a].is_free /\ block[a].size <= block'[a].size
    <3>1. ASSUME NEW a \in DOMAIN block' 
          PROVE  block'[a].is_free = block[a].is_free /\ block[a].size <= block'[a].size
      <4>1. CASE a = c
        BY <1>3, <1>4, <1>9, <4>1 DEF HeaderSize
      <4>2. CASE a # c
        BY <1>4, <1>6, <1>7, <4>2
      <4>3. QED
        BY <4>1, <4>2
    <3>2. QED
      BY <3>1
  <2>2. \A o \in owned : o.ptr - HeaderSize \in DOMAIN block' /\ o.ptr - HeaderSize # c
    BY <1>1, <1>6 DEF HeapInv, OwnersHold
  <2>3. \A o \in owned : block'[o.ptr - HeaderSize] = block[o.ptr - HeaderSize]
    BY <1>7, <2>2
  <2>4. QED
    BY <1>1, <1>6, <2>1, <2>2, <2>3 DEF HeapInv, OwnersHold
<1>15. MergedBehind'
  <2>1. SUFFICES ASSUME NEW a \in DOMAIN block', a < c
                 PROVE  ~ Mergeable(a)'
    BY <1>1 DEF MergedBehind
  <2>2. a # c /\ a \in DOMAIN block /\ block'[a] = block[a]
    BY <1>3, <1>4, <1>6, <1>7, <2>1
  <2>3. ~ Mergeable(a)
    BY <1>1, <2>1, <2>2 DEF HeapInv, MergedBehind
  <2>4. block[a].next # NULL => block[a].next # n
    <3>1. End(a) <= c
      BY <1>3, <2>1, <2>2 DEF HeapInv, HeapTiled
    <3>2. QED
      BY <1>3, <1>4, <1>5, <2>2, <3>1 DEF HeapInv, HeapTiled
  <2>5. block[a].next # NULL => block'[block[a].next].is_free = block[block[a].next].is_free
    BY <1>6, <1>7, <1>9, <2>2, <2>4 DEF HeapInv, HeapTiled
  <2>6. QED
    BY <2>2, <2>3, <2>5 DEF Mergeable
<1>16. SearchedBehind'
  BY <1>1 DEF SearchedBehind
<1>17. QED
  BY <1>11, <1>12, <1>13, <1>14, <1>15, <1>16 DEF HeapInv

(* What memory_alloc knows when it has found a block that fits.            *)
LEMMA TakeFacts ==
  ASSUME HeapInv, NoWrap, AllocTake
  PROVE  /\ current \in DOMAIN block /\ current # NULL
         /\ want \in Requests /\ want \in Nat /\ want > 0
         /\ AlignUp(want) \in Nat /\ want <= AlignUp(want)
         /\ block[current].is_free /\ AlignUp(want) <= block[current].size
         /\ op = "alloc" /\ op' = "idle" /\ current' = NULL /\ want' = want
         /\ owned' = owned \cup {[ptr |-> current + HeaderSize, len |-> want]}
         /\ \A a \in DOMAIN block :
              /\ a \in Nat /\ a \in Addr
              /\ block[a] \in Header
              /\ block[a].size \in Nat
              /\ block[a].next \in Addr \cup {NULL}
              /\ block[a].is_free \in BOOLEAN
              /\ End(a) = a + HeaderSize + block[a].size
              /\ End(a) \in Nat /\ a < End(a)
<1>1. /\ op = "alloc" /\ op' = "idle" /\ current # NULL /\ current' = NULL /\ want' = want
      /\ Fits(current, AlignUp(want))
      /\ owned' = owned \cup {[ptr |-> current + HeaderSize, len |-> want]}
  BY DEF AllocTake
<1>2. want \in Requests /\ want \in Nat /\ want > 0
  <2>1. want \in Requests
    BY <1>1 DEF HeapInv, SearchedBehind
  <2>2. QED
    BY <2>1, HeapAssumption
<1>3. AlignUp(want) \in Nat /\ want <= AlignUp(want)
  BY <1>2, AlignUpRounds
<1>4. current \in DOMAIN block
  BY <1>1 DEF HeapInv, TypeOK
<1>5. \A a \in DOMAIN block : a \in Addr /\ a \in Nat /\ block[a] \in Header
  BY AddrFacts DEF HeapInv, TypeOK
<1>6. \A a \in DOMAIN block :
              /\ block[a].size \in Nat
              /\ block[a].next \in Addr \cup {NULL}
              /\ block[a].is_free \in BOOLEAN
              /\ End(a) = a + HeaderSize + block[a].size
              /\ End(a) \in Nat /\ a < End(a)
  BY <1>5 DEF Header, End, HeaderSize
<1>7. block[current].is_free /\ AlignUp(want) <= block[current].size
  BY <1>1, <1>3, <1>4, <1>6 DEF Fits
<1>8. QED
  BY <1>1, <1>2, <1>3, <1>4, <1>5, <1>6, <1>7

(* memory_alloc hands out a whole block, because it is too small to split. *)
LEMMA TakeWholeInv ==
  ASSUME HeapInv, NoWrap, AllocTake,
         ~ CanSplit(block[current].size, AlignUp(want))
  PROVE  HeapInv'
<1> DEFINE c == current
           o == [ptr |-> c + HeaderSize, len |-> want]
<1>1. block' = [block EXCEPT ![c].is_free = FALSE]
  BY DEF AllocTake
<1>2. /\ DOMAIN block' = DOMAIN block
      /\ block' \in [DOMAIN block -> Header]
      /\ \A a \in DOMAIN block :
           /\ block'[a].size = block[a].size
           /\ block'[a].next = block[a].next
           /\ block'[a].is_free = IF a = c THEN FALSE ELSE block[a].is_free
  <2>1. block \in [DOMAIN block -> Header] /\ c \in DOMAIN block
    BY TakeFacts DEF HeapInv, TypeOK
  <2>2. QED
    BY <1>1, <2>1 DEF Header
<1>3. \A a \in DOMAIN block : End(a)' = End(a)
  BY <1>2 DEF End
<1>4. c + HeaderSize \in Addr
  <2>1. c + HeaderSize + block[c].size <= HEAP_END
    BY TakeFacts DEF HeapInv, HeapTiled
  <2>2. QED
    BY <2>1, TakeFacts, AddrFacts, HeapAssumption DEF Addr, HEAP_END, HeaderSize
<1>5. TypeOK'
  BY <1>2, <1>4, TakeFacts DEF HeapInv, TypeOK
<1>6. HeapTiled'
  <2>1. HEAP_START \in DOMAIN block'
    BY <1>2 DEF HeapInv, HeapTiled
  <2>2. ASSUME NEW a \in DOMAIN block'
        PROVE  /\ block'[a].next = IF End(a)' = HEAP_END THEN NULL ELSE End(a)'
               /\ block'[a].next # NULL => block'[a].next \in DOMAIN block'
               /\ End(a)' <= HEAP_END
    <3>1. /\ a \in DOMAIN block /\ DOMAIN block' = DOMAIN block
          /\ block'[a].next = block[a].next /\ End(a)' = End(a)
      BY <1>2, <1>3
    <3>2. /\ block[a].next = IF End(a) = HEAP_END THEN NULL ELSE End(a)
          /\ block[a].next # NULL => block[a].next \in DOMAIN block
          /\ End(a) <= HEAP_END
      BY <3>1 DEF HeapInv, HeapTiled
    <3>3. QED
      BY <3>1, <3>2
  <2>3. \A a, b \in DOMAIN block' : a < b => End(a)' <= b
    BY <1>2, <1>3 DEF HeapInv, HeapTiled
  <2>4. QED
    BY <2>1, <2>2, <2>3 DEF HeapTiled
<1>7. Covered'
  BY <1>2, <1>3 DEF HeapInv, Covered
<1>8. OwnersHold'
  <2>1. o.ptr - HeaderSize = c /\ o.len = want
    BY TakeFacts DEF HeaderSize
  <2>2. \A q \in owned : q.ptr - HeaderSize # c /\ q.ptr # o.ptr
    BY <2>1, TakeFacts DEF HeapInv, OwnersHold
  <2>3. ASSUME NEW q \in owned'
        PROVE  /\ q.ptr - HeaderSize \in DOMAIN block'
               /\ ~ block'[q.ptr - HeaderSize].is_free
               /\ q.len <= block'[q.ptr - HeaderSize].size
    <3>1. CASE q = o
      <4>1. c \in DOMAIN block /\ want <= block[c].size
        BY TakeFacts
      <4>2. QED
        BY <1>2, <2>1, <3>1, <4>1
    <3>2. CASE q \in owned
      <4>1. /\ q.ptr - HeaderSize \in DOMAIN block
            /\ ~ block[q.ptr - HeaderSize].is_free
            /\ q.len <= block[q.ptr - HeaderSize].size
            /\ q.ptr - HeaderSize # c
        BY <2>2, <3>2 DEF HeapInv, OwnersHold
      <4>2. QED
        BY <1>2, <4>1
    <3>3. QED
      BY <3>1, <3>2, TakeFacts
  <2>4. ASSUME NEW a \in DOMAIN block', ~ block'[a].is_free
        PROVE  \E q \in owned' : q.ptr = a + HeaderSize
    <3>1. CASE a = c
      <4>1. o \in owned' /\ o.ptr = c + HeaderSize
        BY TakeFacts
      <4>2. QED
        BY <3>1, <4>1
    <3>2. CASE a # c
      <4>1. a \in DOMAIN block /\ ~ block[a].is_free
        BY <1>2, <2>4, <3>2
      <4>2. PICK q \in owned : q.ptr = a + HeaderSize
        BY <4>1 DEF HeapInv, OwnersHold
      <4>3. QED
        BY <4>2, TakeFacts
    <3>3. QED
      BY <3>1, <3>2
  <2>5. \A q, r \in owned' : q.ptr = r.ptr => q = r
    BY <2>2, TakeFacts DEF HeapInv, OwnersHold
  <2>6. QED
    BY <2>3, <2>4, <2>5 DEF OwnersHold
<1>9. MergedBehind'
  <2>1. ASSUME NEW a \in DOMAIN block, Mergeable(a)' PROVE FALSE
    <3>1. ~ Mergeable(a)
      BY TakeFacts DEF HeapInv, MergedBehind
    <3>2. block[a].next # NULL => block[a].next \in DOMAIN block
      BY DEF HeapInv, HeapTiled
    <3>3. QED
      BY <1>2, <2>1, <3>1, <3>2 DEF Mergeable
  <2>2. QED
    BY <1>2, <2>1 DEF MergedBehind
<1>10. SearchedBehind'
  BY TakeFacts DEF SearchedBehind
<1>11. QED
  BY <1>5, <1>6, <1>7, <1>8, <1>9, <1>10 DEF HeapInv

(* memory_alloc splits the block: `need' bytes for the caller, the rest a  *)
(* free block of its own.                                                  *)
LEMMA TakeSplitInv ==
  ASSUME HeapInv, NoWrap, AllocTake,
         CanSplit(block[current].size, AlignUp(want))
  PROVE  HeapInv'
<1> DEFINE c == current
           need == AlignUp(want)
           rest == c + HeaderSize + need
           o == [ptr |-> c + HeaderSize, len |-> want]
<1>1. block' = Carved(c, need)
  BY DEF AllocTake
<1>2. block[c].size >= need + HeaderSize + 4 /\ need \in Nat /\ c \in DOMAIN block
  BY TakeFacts DEF CanSplit
<1>3. /\ rest \in Nat /\ c < rest /\ rest < End(c) /\ c \in Nat /\ End(c) \in Nat
      /\ End(c) = rest + HeaderSize + (block[c].size - need - HeaderSize)
      /\ block[c].size - need - HeaderSize \in Nat
  BY <1>2, TakeFacts DEF HeaderSize
<1>4. End(c) <= HEAP_END /\ (\A b \in DOMAIN block : c < b => End(c) <= b)
  BY <1>2 DEF HeapInv, HeapTiled
<1>5. rest \in Addr /\ c + HeaderSize \in Addr /\ rest # NULL /\ rest # HEAP_END
  BY <1>2, <1>3, <1>4, TakeFacts, AddrFacts, HeapAssumption DEF Addr, HeaderSize, HEAP_END
<1>6. rest \notin DOMAIN block /\ rest # c
  BY <1>3, <1>4
<1>7. /\ DOMAIN block' = DOMAIN block \cup {rest}
      /\ \A a \in DOMAIN block : a # c => block'[a] = block[a]
  BY <1>1, <1>6 DEF Carved
<1>8. block'[c] = [size |-> need, is_free |-> FALSE, next |-> rest]
  BY <1>1, <1>2, <1>6 DEF Carved
<1>9. block'[rest] = [size |-> block[c].size - need - HeaderSize,
                      is_free |-> TRUE, next |-> block[c].next]
  BY <1>1 DEF Carved
<1>10. \A a \in DOMAIN block' :
         /\ a \in DOMAIN block /\ a # c => End(a)' = End(a)
         /\ a = c => End(a)' = rest
         /\ a = rest => End(a)' = End(c)
  <2>1. \A a \in DOMAIN block : a # c => End(a)' = End(a)
    BY <1>7 DEF End
  <2>2. \A a \in DOMAIN block : a = c => End(a)' = rest
    BY <1>8 DEF End
  <2>3. \A a \in DOMAIN block' : a = rest => End(a)' = End(c)
    BY <1>3, <1>9 DEF End
  <2>4. QED
    BY <1>2, <1>6, <2>1, <2>2, <2>3
<1>11. TypeOK'
  <2>1. block'[c] \in Header /\ block'[rest] \in Header
    BY <1>2, <1>3, <1>5, <1>8, <1>9, TakeFacts DEF Header
  <2>2. \A a \in DOMAIN block' : block'[a] \in Header
    BY <1>7, <2>1, TakeFacts
  <2>3. block' = [x \in DOMAIN block' |-> block'[x]]
    BY <1>1 DEF Carved
  <2>4. block' \in [DOMAIN block' -> Header]
    BY <2>2, <2>3
  <2>5. DOMAIN block' \subseteq Addr
    BY <1>5, <1>7, TakeFacts
  <2>6. QED
    BY <1>5, <2>4, <2>5, TakeFacts DEF HeapInv, TypeOK
<1>12. HeapTiled'
  <2>1. HEAP_START \in DOMAIN block'
    BY <1>7 DEF HeapInv, HeapTiled
  <2>2. ASSUME NEW a \in DOMAIN block'
        PROVE  /\ block'[a].next = IF End(a)' = HEAP_END THEN NULL ELSE End(a)'
               /\ block'[a].next # NULL => block'[a].next \in DOMAIN block'
               /\ End(a)' <= HEAP_END
    <3>1. CASE a = c
      <4>1. block'[a].next = rest /\ End(a)' = rest
        BY <1>8, <1>10, <3>1
      <4>2. rest <= HEAP_END
        BY <1>3, <1>4, AddrFacts
      <4>3. QED
        BY <1>5, <1>7, <4>1, <4>2
    <3>2. CASE a = rest
      <4>1. /\ block[c].next = IF End(c) = HEAP_END THEN NULL ELSE End(c)
            /\ block[c].next # NULL => block[c].next \in DOMAIN block
        BY <1>2 DEF HeapInv, HeapTiled
      <4>2. QED
        BY <1>4, <1>7, <1>9, <1>10, <3>2, <4>1
    <3>3. CASE a \in DOMAIN block /\ a # c
      <4>1. /\ block[a].next = IF End(a) = HEAP_END THEN NULL ELSE End(a)
            /\ block[a].next # NULL => block[a].next \in DOMAIN block
            /\ End(a) <= HEAP_END
        BY <3>3 DEF HeapInv, HeapTiled
      <4>2. QED
        BY <1>7, <1>10, <3>3, <4>1
    <3>4. QED
      BY <1>7, <3>1, <3>2, <3>3
  <2>3. ASSUME NEW a \in DOMAIN block', NEW b \in DOMAIN block', a < b
        PROVE  End(a)' <= b
    <3>1. \A x, y \in DOMAIN block : x < y => End(x) <= y
      BY DEF HeapInv, HeapTiled
    <3>2. CASE a = c
      <4>1. CASE b = rest
        BY <1>3, <1>10, <3>2, <4>1
      <4>2. CASE b # rest
        <5>1. b \in DOMAIN block /\ b \in Nat
          BY <1>7, <4>2, TakeFacts
        <5>2. End(c) <= b
          BY <1>4, <2>3, <3>2, <5>1
        <5>3. QED
          BY <1>3, <1>10, <3>2, <5>1, <5>2
      <4>3. QED
        BY <4>1, <4>2
    <3>3. CASE a = rest
      <4>1. b \in DOMAIN block /\ c < b
        BY <1>2, <1>3, <1>7, <2>3, <3>3, TakeFacts
      <4>2. QED
        BY <1>4, <1>10, <3>3, <4>1
    <3>4. CASE a \in DOMAIN block /\ a # c
      <4>1. CASE b = rest
        <5>1. a < c
          <6>1. a \in Nat
            BY <3>4, TakeFacts
          <6>2. QED
            BY <1>3, <1>4, <2>3, <3>4, <4>1, <6>1
        <5>2. End(a) <= c
          BY <1>2, <3>1, <3>4, <5>1
        <5>3. QED
          <6>1. End(a) \in Nat /\ End(a)' = End(a)
            BY <1>10, <3>4, TakeFacts
          <6>2. QED
            BY <1>3, <4>1, <5>2, <6>1
      <4>2. CASE b # rest
        BY <1>7, <1>10, <2>3, <3>1, <3>4, <4>2
      <4>3. QED
        BY <4>1, <4>2
    <3>5. QED
      BY <1>7, <3>2, <3>3, <3>4
  <2>4. QED
    BY <2>1, <2>2, <2>3 DEF HeapTiled
<1>13. Covered'
  <2>1. SUFFICES ASSUME NEW p \in Addr
                 PROVE  \E a \in DOMAIN block' : a <= p /\ p < End(a)'
    BY DEF Covered
  <2>2. PICK a \in DOMAIN block : a <= p /\ p < End(a)
    BY DEF HeapInv, Covered
  <2>3. CASE a # c
    BY <1>7, <1>10, <2>2, <2>3
  <2>4. CASE a = c /\ p < rest
    BY <1>7, <1>10, <2>2, <2>4
  <2>5. CASE a = c /\ rest <= p
    BY <1>7, <1>10, <2>2, <2>5
  <2>6. QED
    BY <1>3, <2>3, <2>4, <2>5, AddrFacts
<1>14. OwnersHold'
  <2>1. o.ptr - HeaderSize = c /\ o.len = want
    BY TakeFacts DEF HeaderSize
  <2>2. \A q \in owned : q.ptr - HeaderSize # c /\ q.ptr # o.ptr
    BY <2>1, TakeFacts DEF HeapInv, OwnersHold
  <2>3. ASSUME NEW q \in owned'
        PROVE  /\ q.ptr - HeaderSize \in DOMAIN block'
               /\ ~ block'[q.ptr - HeaderSize].is_free
               /\ q.len <= block'[q.ptr - HeaderSize].size
    <3>1. CASE q = o
      BY <1>2, <1>7, <1>8, <2>1, <3>1, TakeFacts
    <3>2. CASE q \in owned
      <4>1. /\ q.ptr - HeaderSize \in DOMAIN block
            /\ ~ block[q.ptr - HeaderSize].is_free
            /\ q.len <= block[q.ptr - HeaderSize].size
            /\ q.ptr - HeaderSize # c
        BY <2>2, <3>2 DEF HeapInv, OwnersHold
      <4>2. QED
        BY <1>7, <4>1
    <3>3. QED
      BY <3>1, <3>2, TakeFacts
  <2>4. ASSUME NEW a \in DOMAIN block', ~ block'[a].is_free
        PROVE  \E q \in owned' : q.ptr = a + HeaderSize
    <3>1. CASE a = c
      <4>1. o \in owned' /\ o.ptr = c + HeaderSize
        BY TakeFacts
      <4>2. QED
        BY <3>1, <4>1
    <3>2. CASE a # c
      <4>1. a \in DOMAIN block /\ ~ block[a].is_free
        BY <1>7, <1>9, <2>4, <3>2
      <4>2. PICK q \in owned : q.ptr = a + HeaderSize
        BY <4>1 DEF HeapInv, OwnersHold
      <4>3. QED
        BY <4>2, TakeFacts
    <3>3. QED
      BY <3>1, <3>2
  <2>5. \A q, r \in owned' : q.ptr = r.ptr => q = r
    BY <2>2, TakeFacts DEF HeapInv, OwnersHold
  <2>6. QED
    BY <2>3, <2>4, <2>5 DEF OwnersHold
<1>15. MergedBehind'
  <2>1. ASSUME NEW a \in DOMAIN block', Mergeable(a)' PROVE FALSE
    <3>1. /\ block'[a].is_free /\ block'[a].next # NULL
          /\ block'[block'[a].next].is_free
      BY <2>1 DEF Mergeable
    <3>2. \A x \in DOMAIN block : ~ Mergeable(x)
      BY TakeFacts DEF HeapInv, MergedBehind
    <3>3. \A x \in DOMAIN block : block[x].next # NULL => block[x].next \in DOMAIN block
      BY DEF HeapInv, HeapTiled
    <3>4. CASE a = c
      BY <1>8, <3>1, <3>4
    <3>5. CASE a = rest
      <4>1. block[c].next \in DOMAIN block /\ block[c].next # NULL
        BY <1>2, <1>9, <3>1, <3>3, <3>5
      <4>2. block[c].next # c
        BY <1>2, <4>1, TakeFacts DEF HeapInv, HeapTiled
      <4>3. ~ block[block[c].next].is_free
        BY <1>2, <3>2, <4>1, TakeFacts DEF Mergeable
      <4>4. QED
        BY <1>7, <1>9, <3>1, <3>5, <4>1, <4>2, <4>3
    <3>6. CASE a \in DOMAIN block /\ a # c
      <4>1. block[a].next \in DOMAIN block /\ block[a].is_free /\ block[a].next # NULL
        BY <1>7, <3>1, <3>3, <3>6
      <4>2. ~ block[block[a].next].is_free
        BY <3>2, <3>6, <4>1 DEF Mergeable
      <4>3. QED
        BY <1>7, <1>8, <3>1, <3>6, <4>1, <4>2
    <3>7. QED
      BY <1>7, <3>4, <3>5, <3>6
  <2>2. QED
    BY <2>1 DEF MergedBehind
<1>16. SearchedBehind'
  BY TakeFacts DEF SearchedBehind
<1>17. QED
  BY <1>11, <1>12, <1>13, <1>14, <1>15, <1>16 DEF HeapInv

(* Every step of every call preserves the invariant.                       *)
LEMMA NextHeapInv ==
  ASSUME HeapInv, NoWrap, [Next]_vars
  PROVE  HeapInv'
<1>1. CASE \E size \in Requests : AllocCall(size)
  BY <1>1, AllocCallInv
<1>2. CASE AllocSkip
  BY <1>2, AllocSkipInv
<1>3. CASE AllocTake
  BY <1>3, TakeWholeInv, TakeSplitInv
<1>4. CASE AllocFail
  BY <1>4, AllocFailInv
<1>5. CASE \E o \in owned : FreeCall(o)
  BY <1>5, FreeCallInv
<1>6. CASE FreeMerge
  BY <1>6, FreeMergeInv
<1>7. CASE FreeSkip
  BY <1>7, FreeSkipInv
<1>8. CASE FreeReturn
  BY <1>8, FreeReturnInv
<1>9. CASE UNCHANGED vars
  <2>1. /\ block' = block /\ owned' = owned /\ op' = op
        /\ current' = current /\ want' = want
    BY <1>9 DEF vars
  <2>2. HeapTiled' /\ Covered' /\ OwnersHold'
    BY <2>1, ListUnchanged
  <2>3. TypeOK' /\ MergedBehind' /\ SearchedBehind'
    BY <2>1 DEF HeapInv, TypeOK, MergedBehind, Mergeable, SearchedBehind, Fits
  <2>4. QED
    BY <2>2, <2>3 DEF HeapInv
<1>10. QED
  BY <1>1, <1>2, <1>3, <1>4, <1>5, <1>6, <1>7, <1>8, <1>9 DEF Next, Walk

(* The inductive invariant holds throughout every sequence of calls of     *)
(* memory_alloc and memory_free.                                           *)
THEOREM HeapInvariant ==
  ASSUME NoWrap
  PROVE  Spec => []HeapInv
<1>1. Init => HeapInv
  BY InitHeapInv
<1>2. HeapInv /\ [Next]_vars => HeapInv'
  BY NextHeapInv
<1>3. QED
  BY <1>1, <1>2, PTL DEF Spec

(* The callers' ranges are disjoint from each other and from every header: *)
(* each lies in the block that was allocated for it.                       *)
LEMMA InvOwnedDisjoint == HeapInv => OwnedDisjoint
<1> SUFFICES ASSUME HeapInv PROVE OwnedDisjoint
  OBVIOUS
<1>1. \A a \in DOMAIN block : /\ a \in Nat /\ block[a].size \in Nat
                              /\ End(a) = a + HeaderSize + block[a].size
                              /\ End(a) <= HEAP_END
  BY AddrFacts DEF HeapInv, TypeOK, Header, End, HeapTiled
<1>2. ASSUME NEW o \in owned
      PROVE  /\ o.ptr - HeaderSize \in DOMAIN block
             /\ o.ptr \in Nat /\ o.len \in Nat
             /\ o.ptr + o.len <= End(o.ptr - HeaderSize)
  <2>1. o.ptr \in Nat /\ o.len \in Nat
    BY AddrFacts, HeapAssumption DEF HeapInv, TypeOK
  <2>2. o.ptr - HeaderSize \in DOMAIN block /\ o.len <= block[o.ptr - HeaderSize].size
    BY DEF HeapInv, OwnersHold
  <2>3. QED
    BY <1>1, <2>1, <2>2 DEF HeaderSize
<1>3. \A a, b \in DOMAIN block : a < b => End(a) <= b
  BY DEF HeapInv, HeapTiled
<1>4. ASSUME NEW o \in owned, NEW a \in DOMAIN block
      PROVE  a + HeaderSize <= o.ptr \/ o.ptr + o.len <= a
  <2> DEFINE h == o.ptr - HeaderSize
  <2>1. h \in DOMAIN block /\ o.ptr \in Nat /\ o.len \in Nat /\ o.ptr + o.len <= End(h)
    BY <1>2
  <2>2. /\ a \in Nat /\ h \in Nat
        /\ End(a) \in Nat /\ End(h) \in Nat
        /\ a + HeaderSize <= End(a)
    BY <1>1, <2>1 DEF HeaderSize
  <2>3. CASE a < h
    <3>1. End(a) <= h
      BY <1>3, <2>1, <2>3
    <3>2. QED
      BY <2>1, <2>2, <3>1 DEF HeaderSize
  <2>4. CASE h < a
    <3>1. End(h) <= a
      BY <1>3, <2>1, <2>4
    <3>2. QED
      BY <2>1, <2>2, <3>1
  <2>5. CASE a = h
    BY <2>1, <2>5 DEF HeaderSize
  <2>6. QED
    BY <2>2, <2>3, <2>4, <2>5
<1>5. ASSUME NEW o \in owned, NEW q \in owned, o # q
      PROVE  o.ptr + o.len <= q.ptr \/ q.ptr + q.len <= o.ptr
  <2> DEFINE h == o.ptr - HeaderSize
             g == q.ptr - HeaderSize
  <2>1. /\ h \in DOMAIN block /\ g \in DOMAIN block
        /\ o.ptr \in Nat /\ q.ptr \in Nat /\ o.len \in Nat /\ q.len \in Nat
        /\ o.ptr + o.len <= End(h) /\ q.ptr + q.len <= End(g)
    BY <1>2
  <2>2. o.ptr # q.ptr
    BY <1>5 DEF HeapInv, OwnersHold
  <2>3. h \in Nat /\ g \in Nat /\ h # g /\ End(h) \in Nat /\ End(g) \in Nat
    BY <1>1, <2>1, <2>2 DEF HeaderSize
  <2>4. (h < g => End(h) <= g) /\ (g < h => End(g) <= h)
    BY <1>3, <2>1
  <2>5. QED
    BY <2>1, <2>3, <2>4 DEF HeaderSize
<1>6. \A o \in owned : o.ptr + o.len <= HEAP_END
  <2>1. SUFFICES ASSUME NEW o \in owned PROVE o.ptr + o.len <= HEAP_END
    OBVIOUS
  <2>2. o.ptr - HeaderSize \in DOMAIN block /\ o.ptr \in Nat /\ o.len \in Nat
        /\ o.ptr + o.len <= End(o.ptr - HeaderSize)
    BY <1>2
  <2>3. End(o.ptr - HeaderSize) <= HEAP_END /\ End(o.ptr - HeaderSize) \in Nat
    BY <1>1, <2>2 DEF HeaderSize
  <2>4. QED
    BY <2>2, <2>3, AddrFacts
<1>7. QED
  BY <1>4, <1>5, <1>6 DEF OwnedDisjoint

(* Between calls the allocated blocks are exactly the ones callers hold,   *)
(* and no two free blocks are neighbours.                                  *)
LEMMA InvQuiescent == HeapInv => NothingLeaked /\ Coalesced
<1> SUFFICES ASSUME HeapInv PROVE NothingLeaked /\ Coalesced
  OBVIOUS
<1>1. ASSUME NEW a \in DOMAIN block, ~ block[a].is_free
      PROVE  \E o \in owned : a = o.ptr - HeaderSize
  <2>1. PICK o \in owned : o.ptr = a + HeaderSize
    BY <1>1 DEF HeapInv, OwnersHold
  <2>2. a \in Nat
    BY AddrFacts DEF HeapInv, TypeOK
  <2>3. QED
    BY <2>1, <2>2 DEF HeaderSize
<1>2. \A o \in owned : /\ o.ptr - HeaderSize \in DOMAIN block
                       /\ ~ block[o.ptr - HeaderSize].is_free
  BY DEF HeapInv, OwnersHold
<1>3. NothingLeaked
  BY <1>1, <1>2 DEF NothingLeaked
<1>4. Coalesced
  BY DEF HeapInv, MergedBehind, Coalesced
<1>5. QED
  BY <1>3, <1>4

(* The list of block headers tiles the heap, for every heap size and all   *)
(* requests below the wrap-around: splitting and merging lose no byte, and *)
(* the walks of memory_alloc and memory_free stay on headers.              *)
THEOREM ListTilesHeap ==
  ASSUME NoWrap
  PROVE  Spec => []HeapTiled
<1>1. HeapInv => HeapTiled
  BY DEF HeapInv
<1>2. QED
  BY <1>1, HeapInvariant, PTL

(* memory_alloc hands out ranges that overlap neither each other nor a     *)
(* header, whatever sequence of calls came before.                         *)
THEOREM HeapSafety ==
  ASSUME NoWrap
  PROVE  Spec => []OwnedDisjoint
<1>1. QED
  BY InvOwnedDisjoint, HeapInvariant, PTL

(* Between calls every block marked as allocated is held by a caller.      *)
THEOREM NoBlockLeaked ==
  ASSUME NoWrap
  PROVE  Spec => []NothingLeaked
<1>1. HeapInv => NothingLeaked
  BY InvQuiescent
<1>2. QED
  BY <1>1, HeapInvariant, PTL

(* The one walk of memory_free merges all free neighbours, runs of more    *)
(* than two included, so that between calls there are none.                *)
THEOREM FreeBlocksMerged ==
  ASSUME NoWrap
  PROVE  Spec => []Coalesced
<1>1. HeapInv => Coalesced
  BY InvQuiescent
<1>2. QED
  BY <1>1, HeapInvariant, PTL

(* memory_alloc fails only when no stretch of unallocated bytes is large   *)
(* enough: were there one, the free block it starts in would either fit or *)
(* be followed by a free block, and coalescing leaves no such pair.        *)
LEMMA FailStep ==
  ASSUME HeapInv, NoWrap, AllocFail, NEW p \in Addr,
         p + HeaderSize + AlignUp(want) <= HEAP_END,
         \A a \in DOMAIN block :
           ~ block[a].is_free =>
             End(a) <= p \/ p + HeaderSize + AlignUp(want) <= a
  PROVE  FALSE
<1> DEFINE need == AlignUp(want)
<1>1. PICK a \in DOMAIN block : a <= p /\ p < End(a)
  BY DEF HeapInv, Covered
<1>2. op = "alloc" /\ current = NULL
  BY DEF AllocFail
<1>3. need \in Nat
  BY <1>2, AlignUpRounds DEF HeapInv, SearchedBehind
<1>4. \A x \in DOMAIN block : /\ x \in Nat /\ block[x].size \in Nat
                              /\ End(x) = x + HeaderSize + block[x].size
                              /\ End(x) \in Nat /\ x < End(x)
  BY AddrFacts DEF HeapInv, TypeOK, Header, End, HeaderSize
<1>5. p \in Nat /\ p + HeaderSize + need \in Nat /\ p < p + HeaderSize + need
  BY <1>3, AddrFacts DEF HeaderSize
<1>6. block[a].is_free
  BY <1>1, <1>4, <1>5
<1>7. block[a].size < need
  BY <1>2, <1>3, <1>4, <1>6 DEF HeapInv, SearchedBehind, Fits
<1>8. End(a) < p + HeaderSize + need
  BY <1>1, <1>3, <1>4, <1>5, <1>7 DEF HeaderSize
<1>9. block[a].next = End(a) /\ End(a) # NULL /\ End(a) \in DOMAIN block
  <2>1. End(a) # HEAP_END /\ End(a) # NULL
    BY <1>4, <1>5, <1>8, AddrFacts DEF NULL
  <2>2. QED
    BY <2>1 DEF HeapInv, HeapTiled
<1>10. ~ block[End(a)].is_free
  BY <1>2, <1>6, <1>9 DEF HeapInv, MergedBehind, Mergeable
<1>11. QED
  BY <1>1, <1>4, <1>5, <1>8, <1>9, <1>10

(* memory_alloc never returns 0 because of how the list is cut up.         *)
THEOREM NoSpuriousFailure ==
  ASSUME NoWrap
  PROVE  Spec => FailsOnlyWhenFull
<1>1. ASSUME HeapInv, [Next]_vars, op = "alloc", op' = "idle", owned' = owned
      PROVE  ~ \E p \in Addr :
                 /\ p + HeaderSize + AlignUp(want) <= HEAP_END
                 /\ \A a \in DOMAIN block :
                      ~ block[a].is_free =>
                        End(a) <= p \/ p + HeaderSize + AlignUp(want) <= a
  <2>1. ~ AllocTake
    <3>1. SUFFICES ASSUME AllocTake PROVE FALSE
      OBVIOUS
    <3>2. [ptr |-> current + HeaderSize, len |-> want] \in owned
      BY <1>1, <3>1, TakeFacts
    <3>3. current \in Nat /\ current \in DOMAIN block /\ block[current].is_free
      BY <1>1, <3>1, TakeFacts
    <3>4. ~ block[current].is_free
      <4> DEFINE o == [ptr |-> current + HeaderSize, len |-> want]
      <4>1. o \in owned /\ o.ptr - HeaderSize = current
        BY <3>2, <3>3 DEF HeaderSize
      <4>2. ~ block[o.ptr - HeaderSize].is_free
        BY <1>1, <4>1 DEF HeapInv, OwnersHold
      <4>3. QED
        BY <4>1, <4>2
    <3>5. QED
      BY <3>3, <3>4
  <2>2. AllocFail
    BY <1>1, <2>1 DEF Next, Walk, AllocCall, AllocSkip, FreeCall, FreeMerge, FreeSkip, FreeReturn, vars
  <2>3. QED
    BY <1>1, <2>2, FailStep
<1>2. HeapInv /\ [Next]_vars =>
        [op = "alloc" /\ op' = "idle" /\ owned' = owned =>
           ~ \E p \in Addr :
               /\ p + HeaderSize + AlignUp(want) <= HEAP_END
               /\ \A a \in DOMAIN block :
                    ~ block[a].is_free =>
                      End(a) <= p \/ p + HeaderSize + AlignUp(want) <= a]_vars
  BY <1>1
<1>3. QED
  BY <1>2, HeapInvariant, PTL DEF Spec, FailsOnlyWhenFull

(* memory.c implements the abstract heap: a successful memory_alloc is a   *)
(* Malloc, memory_free is a Free, all other steps leave `owned' alone.     *)
THEOREM HeapRefinement ==
  ASSUME NoWrap
  PROVE  Spec => RefinesHeap
<1>1. Init => Heap!Init
  BY DEF Init, Heap!Init
<1>2. ASSUME HeapInv, HeapInv', [Next]_vars
      PROVE  [Heap!Next]_owned
  <2>1. CASE AllocTake
    <3> DEFINE p == current + HeaderSize
               o == [ptr |-> p, len |-> want]
    <3>1. /\ want \in Requests /\ want \in Nat /\ p \in Nat
          /\ owned' = owned \cup {o}
      BY <1>2, <2>1, TakeFacts DEF HeaderSize
    <3>2. OwnedDisjoint'
      BY <1>2, InvOwnedDisjoint, PTL
    <3>3. p + want <= HEAP_END /\ p >= HEAP_START
      <4>1. o \in owned' /\ o.ptr = p /\ o.len = want
        BY <3>1
      <4>2. o.ptr + o.len <= HEAP_END
        BY <3>2, <4>1 DEF OwnedDisjoint
      <4>3. o.ptr \in Addr
        BY <1>2, <4>1 DEF HeapInv, TypeOK
      <4>4. QED
        BY <4>1, <4>2, <4>3, AddrFacts
    <3>4. \A q \in owned : q # o
      <4>1. SUFFICES ASSUME o \in owned PROVE FALSE
        OBVIOUS
      <4>2. current \in Nat /\ current \in DOMAIN block /\ block[current].is_free
        BY <1>2, <2>1, TakeFacts
      <4>3. ~ block[o.ptr - HeaderSize].is_free
        BY <1>2, <4>1 DEF HeapInv, OwnersHold
      <4>4. o.ptr - HeaderSize = current
        BY <4>2 DEF HeaderSize
      <4>5. QED
        BY <4>2, <4>3, <4>4
    <3>5. \A q \in owned : q.ptr + q.len <= p \/ p + want <= q.ptr
      <4>1. o \in owned' /\ o.ptr = p /\ o.len = want /\ owned \subseteq owned'
        BY <3>1
      <4>2. \A q \in owned : q.ptr + q.len <= o.ptr \/ o.ptr + o.len <= q.ptr
        BY <3>2, <3>4, <4>1 DEF OwnedDisjoint
      <4>3. QED
        BY <4>1, <4>2
    <3>6. p \in HEAP_START .. (HEAP_END - want)
      BY <3>1, <3>3, AddrFacts, HeapAssumption
    <3>7. Heap!Malloc(want)
      BY <3>1, <3>5, <3>6 DEF Heap!Malloc
    <3>8. QED
      BY <3>1, <3>7 DEF Heap!Next
  <2>2. CASE \E o \in owned : FreeCall(o)
    BY <2>2 DEF FreeCall, Heap!Free, Heap!Next
  <2>3. CASE ~ AllocTake /\ ~ \E o \in owned : FreeCall(o)
    BY <1>2, <2>3 DEF Next, Walk, AllocCall, AllocSkip, AllocFail, FreeMerge, FreeSkip, FreeReturn, vars
  <2>4. QED
    BY <2>1, <2>2, <2>3
<1>3. QED
  BY <1>1, <1>2, HeapInvariant, PTL DEF Spec, RefinesHeap, Heap!Spec
=============================================================================
