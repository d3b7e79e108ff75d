------------------------------ MODULE HeapSpec ------------------------------
(***************************************************************************)
(* What a heap promises (kernel/memory.h): callers hold disjoint ranges of *)
(* the heap, at least as large as they asked for.  A failed allocation     *)
(* leaves what they hold alone, which is a stuttering step here.           *)
(***************************************************************************)
EXTENDS Integers

CONSTANTS HEAP_START, HEAP_END, Requests

VARIABLE owned     \* {[ptr, len]} held by callers

Init == owned = {}

Malloc(size) ==
  \E p \in HEAP_START .. (HEAP_END - size) :
    /\ \A o \in owned : o.ptr + o.len <= p \/ p + size <= o.ptr
    /\ owned' = owned \cup {[ptr |-> p, len |-> size]}

Free(o) == owned' = owned \ {o}

Next == (\E size \in Requests : Malloc(size)) \/ (\E o \in owned : Free(o))

Spec == Init /\ [][Next]_owned
=============================================================================
