----------------------------- MODULE FileStore ------------------------------
(***************************************************************************)
(* What the FAT16 driver promises its callers (fs/fat16.h): each name has  *)
(* at most one file, a write stores exactly the contents it was given, a   *)
(* delete removes one file, and no operation touches the file of another   *)
(* name.  Overwriting is a Remove followed by a Put, not one step.  Once   *)
(* `broken', a delete has been cut short by a reset, nothing is promised.  *)
(***************************************************************************)
CONSTANTS FatNames, Files, Absent

VARIABLES files,    \* FAT name -> its contents, or Absent
          broken

Init == files = [n \in FatNames |-> Absent] /\ broken = FALSE

Put(n, c) == files[n] = Absent /\ files' = [files EXCEPT ![n] = c]

Remove(n) == files[n] # Absent /\ files' = [files EXCEPT ![n] = Absent]

Operate ==
  /\ ~ broken /\ UNCHANGED broken
  /\ \E n \in FatNames : Remove(n) \/ \E c \in Files : Put(n, c)

Next == Operate \/ broken'

Spec == Init /\ [][Next]_<<files, broken>>
=============================================================================
