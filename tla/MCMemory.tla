------------------------------ MODULE MCMemory ------------------------------
(***************************************************************************)
(* Instance of Memory for TLC.  Addresses start at 4 so that no block is   *)
(* at NULL; the heap has room for up to five smallest blocks.              *)
(***************************************************************************)
EXTENDS Memory

(* Sizes below, at and above the split threshold. *)
MCRequests == {1, 8, 13, 24}

(* Also the sizes for which (size + 3) wraps around.  With these in place  *)
(* of MCRequests a caller is given less than it asked for.                 *)
MCRequestsWrap == {8, 24} \cup ((WordMod - 3) .. (WordMod - 1))
=============================================================================
