------------------------------- MODULE Memory -------------------------------
(***************************************************************************)
(* The kernel heap of kernel/memory.c: a singly linked list of blocks,     *)
(* allocated and free alike, in address order, that starts at HEAP_START.  *)
(* A call of memory_alloc or memory_free is a walk over that list; one     *)
(* iteration of its while loop is one action.                              *)
(*                                                                         *)
(* `block' holds the headers that are reachable from free_list, keyed by   *)
(* the header's address; a header that memory_free absorbs leaves its      *)
(* domain.  `owned' is what the callers hold: the pointers they received   *)
(* and did not give back, with the sizes they asked for.                   *)
(***************************************************************************)
EXTENDS Integers

CONSTANTS
  HEAP_START,   \* address of the first header (0x100000)
  HEAP_SIZE,    \* bytes managed, headers included (0x100000)
  WordMod,      \* unsigned int arithmetic is modulo WordMod (2^32)
  Requests      \* the sizes callers pass to memory_alloc

HeaderSize == 12     \* sizeof(block_header_t) on i386
NULL == 0

ASSUME HeapAssumption ==
  /\ HEAP_START \in Nat \ {0}
  /\ HEAP_SIZE \in Nat /\ HEAP_SIZE > HeaderSize
  /\ WordMod \in Nat /\ HEAP_START + HEAP_SIZE + HeaderSize + 4 <= WordMod
  /\ Requests \subseteq 1 .. (WordMod - 1)

VARIABLES
  block,     \* header address -> [size, is_free, next]
  owned,     \* {[ptr, len]} held by callers
  op,        \* "idle", "alloc" or "free": the call in progress
  current,   \* its list cursor
  want       \* the size passed to the memory_alloc in progress

vars == <<block, owned, op, current, want>>

HEAP_END == HEAP_START + HEAP_SIZE
Addr     == HEAP_START .. (HEAP_END - 1)
Header   == [size : Nat, is_free : BOOLEAN, next : Addr \cup {NULL}]

(* First address after block a: its header and its data. *)
End(a) == a + HeaderSize + block[a].size

-----------------------------------------------------------------------------
(* Mutants: each is one of the definitions below with a plausible mistake  *)
(* in it, which a property named in PROJECT.json must notice.              *)
Mut_AlignUp(size) == (size \div 4) * 4

Mut_CanSplit(avail, need) == avail >= need

Mut_Fits(a, need) == block[a].size >= need

Mut_Merged(a) ==
  LET n == block[a].next
  IN  [size    |-> block[a].size + block[n].size,
       is_free |-> block[a].is_free,
       next    |-> block[n].next]

Mut_AllocSkip ==
  /\ op = "alloc" /\ current # NULL
  /\ current' = HEAP_START
  /\ UNCHANGED <<block, owned, op, want>>

Mut_AllocFail ==
  /\ op = "alloc" /\ current # NULL /\ block[current].next = NULL
  /\ op' = "idle" /\ current' = NULL
  /\ UNCHANGED <<block, owned, want>>

Mut_FreeCall(o) ==
  /\ op = "idle"
  /\ owned' = owned \ {o}
  /\ op' = "free" /\ current' = HEAP_START
  /\ UNCHANGED <<block, want>>

Mut_FreeSkip ==
  /\ op = "free" /\ current # NULL
  /\ current' = block[current].next
  /\ UNCHANGED <<block, owned, op, want>>

-----------------------------------------------------------------------------
(* (size + 3) & ~3 in unsigned arithmetic. *)
AlignUp(size) == (((size + 3) % WordMod) \div 4) * 4

(* Room for the data, another header and at least four more bytes. *)
CanSplit(avail, need) == avail >= need + HeaderSize + 4

Fits(a, need) == block[a].is_free /\ block[a].size >= need

(* The list with block a carved into `need' bytes and a free remainder. *)
Carved(a, need) ==
  LET rest == a + HeaderSize + need
  IN  [x \in DOMAIN block \cup {rest} |->
         IF x = rest
         THEN [size    |-> block[a].size - need - HeaderSize,
               is_free |-> TRUE,
               next    |-> block[a].next]
         ELSE IF x = a
         THEN [size |-> need, is_free |-> FALSE, next |-> rest]
         ELSE block[x]]

(* Block a after it has absorbed its successor. *)
Merged(a) ==
  LET n == block[a].next
  IN  [size    |-> block[a].size + HeaderSize + block[n].size,
       is_free |-> block[a].is_free,
       next    |-> block[n].next]

-----------------------------------------------------------------------------
(* memory_init: one free block that spans the heap. *)
Init ==
  /\ block = [a \in {HEAP_START} |->
                [size |-> HEAP_SIZE - HeaderSize, is_free |-> TRUE, next |-> NULL]]
  /\ owned = {}
  /\ op = "idle" /\ current = NULL /\ want = 0

(* memory_alloc(size) for size # 0; size = 0 returns at once and changes   *)
(* nothing.                                                                *)
AllocCall(size) ==
  /\ op = "idle"
  /\ op' = "alloc" /\ want' = size /\ current' = HEAP_START
  /\ UNCHANGED <<block, owned>>

AllocSkip ==
  /\ op = "alloc" /\ current # NULL
  /\ ~ Fits(current, AlignUp(want))
  /\ current' = block[current].next
  /\ UNCHANGED <<block, owned, op, want>>

AllocTake ==
  /\ op = "alloc" /\ current # NULL
  /\ Fits(current, AlignUp(want))
  /\ block' = IF CanSplit(block[current].size, AlignUp(want))
              THEN Carved(current, AlignUp(want))
              ELSE [block EXCEPT ![current].is_free = FALSE]
  /\ owned' = owned \cup {[ptr |-> current + HeaderSize, len |-> want]}
  /\ op' = "idle" /\ current' = NULL
  /\ UNCHANGED want

(* Out of memory: memory_alloc returns 0. *)
AllocFail ==
  /\ op = "alloc" /\ current = NULL
  /\ op' = "idle"
  /\ UNCHANGED <<block, owned, current, want>>

(* memory_free of a pointer the caller holds; memory_free(0) returns at    *)
(* once and changes nothing.                                               *)
FreeCall(o) ==
  /\ op = "idle"
  /\ block' = [block EXCEPT ![o.ptr - HeaderSize].is_free = TRUE]
  /\ owned' = owned \ {o}
  /\ op' = "free" /\ current' = HEAP_START
  /\ UNCHANGED want

Mergeable(a) ==
  /\ block[a].is_free
  /\ block[a].next # NULL
  /\ block[block[a].next].is_free

FreeMerge ==
  /\ op = "free" /\ current # NULL /\ Mergeable(current)
  /\ block' = [x \in DOMAIN block \ {block[current].next} |->
                 IF x = current THEN Merged(current) ELSE block[x]]
  /\ UNCHANGED <<owned, op, current, want>>

FreeSkip ==
  /\ op = "free" /\ current # NULL /\ ~ Mergeable(current)
  /\ current' = block[current].next
  /\ UNCHANGED <<block, owned, op, want>>

FreeReturn ==
  /\ op = "free" /\ current = NULL
  /\ op' = "idle"
  /\ UNCHANGED <<block, owned, current, want>>

Walk == AllocSkip \/ AllocTake \/ AllocFail \/ FreeMerge \/ FreeSkip \/ FreeReturn

Next ==
  \/ \E size \in Requests : AllocCall(size)
  \/ \E o \in owned : FreeCall(o)
  \/ Walk

Spec == Init /\ [][Next]_vars

(* A call, once made, keeps executing: nothing in memory.c waits. *)
FairSpec == Spec /\ WF_vars(Walk)

-----------------------------------------------------------------------------
(* Type invariant. *)
TypeOK ==
  /\ DOMAIN block \subseteq Addr
  /\ block \in [DOMAIN block -> Header]
  /\ owned \subseteq [ptr : Addr, len : Requests]
  /\ op \in {"idle", "alloc", "free"}
  /\ current \in DOMAIN block \cup {NULL}
  /\ want \in Nat

(* The blocks tile the heap: the list starts at HEAP_START, each block's   *)
(* `next' is the first address after it, the last block ends exactly at    *)
(* the end of the heap, and no header lies inside another block.  This is  *)
(* what splitting in memory_alloc and coalescing in memory_free rely on.   *)
HeapTiled ==
  /\ HEAP_START \in DOMAIN block
  /\ \A a \in DOMAIN block :
       /\ block[a].next = IF End(a) = HEAP_END THEN NULL ELSE End(a)
       /\ block[a].next # NULL => block[a].next \in DOMAIN block
       /\ End(a) <= HEAP_END
  /\ \A a, b \in DOMAIN block : a < b => End(a) <= b

(* What memory_alloc promises its callers: the bytes they asked for, all   *)
(* inside the heap, shared with no other caller and with no block header.  *)
OwnedDisjoint ==
  /\ \A o \in owned :
       /\ o.ptr + o.len <= HEAP_END
       /\ \A a \in DOMAIN block :
            a + HeaderSize <= o.ptr \/ o.ptr + o.len <= a
  /\ \A o, q \in owned :
       o # q => o.ptr + o.len <= q.ptr \/ q.ptr + q.len <= o.ptr

(* No byte is lost: between calls, the allocated blocks are exactly those  *)
(* some caller still holds, so a caller that returns everything gets the   *)
(* whole heap back.                                                        *)
NothingLeaked ==
  op = "idle" =>
    {a \in DOMAIN block : ~ block[a].is_free} = {o.ptr - HeaderSize : o \in owned}

(* memory_free's single pass leaves no two neighbouring free blocks, so    *)
(* between calls every maximal run of free bytes is one block.             *)
Coalesced == op = "idle" => \A a \in DOMAIN block : ~ Mergeable(a)

(* memory_alloc returns 0 only when no stretch of the heap free of         *)
(* allocated blocks could hold a header and the rounded-up request:        *)
(* fragmentation of the list itself never makes a request fail.            *)
FailsOnlyWhenFull ==
  [][ op = "alloc" /\ op' = "idle" /\ owned' = owned =>
        ~ \E p \in Addr :
            /\ p + HeaderSize + AlignUp(want) <= HEAP_END
            /\ \A a \in DOMAIN block :
                 ~ block[a].is_free =>
                   End(a) <= p \/ p + HeaderSize + AlignUp(want) <= a ]_vars

(* The heap implements HeapSpec: each successful memory_alloc hands out a  *)
(* range disjoint from all those held, memory_free takes one back, and no  *)
(* other step changes what the callers hold.                               *)
Heap == INSTANCE HeapSpec
RefinesHeap == Heap!Spec

-----------------------------------------------------------------------------
(* No request is so close to 2^32 that rounding it up wraps to 0. *)
NoWrap == \A size \in Requests : size + 3 < WordMod

(* Every byte of the heap lies in some block. *)
Covered == \A p \in Addr : \E a \in DOMAIN block : a <= p /\ p < End(a)

(* Callers and allocated blocks correspond one to one. *)
OwnersHold ==
  /\ \A o \in owned :
       /\ o.ptr - HeaderSize \in DOMAIN block
       /\ ~ block[o.ptr - HeaderSize].is_free
       /\ o.len <= block[o.ptr - HeaderSize].size
  /\ \A a \in DOMAIN block :
       ~ block[a].is_free => \E o \in owned : o.ptr = a + HeaderSize
  /\ \A o, q \in owned : o.ptr = q.ptr => o = q

(* The walk of memory_free has merged everything behind its cursor. *)
MergedBehind ==
  \A a \in DOMAIN block :
    op # "free" \/ current = NULL \/ a < current => ~ Mergeable(a)

(* The walk of memory_alloc has passed only blocks that do not fit. *)
SearchedBehind ==
  op = "alloc" =>
    /\ want \in Requests
    /\ \A a \in DOMAIN block :
         current = NULL \/ a < current => ~ Fits(a, AlignUp(want))

(* The inductive invariant: what holds in the middle of a call as well as  *)
(* between calls of memory_alloc and memory_free.                          *)
HeapInv ==
  /\ TypeOK
  /\ HeapTiled
  /\ Covered
  /\ OwnersHold
  /\ MergedBehind
  /\ SearchedBehind

(* Every call of memory_alloc and memory_free returns: the list walk ends. *)
CallsReturn == (op # "idle") ~> (op = "idle")
=============================================================================
