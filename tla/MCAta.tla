------------------------------- MODULE MCAta --------------------------------
(* Addresses that differ in each of the four registers, and one beyond the *)
(* end of the disk; sectors in which a swap of bytes or words shows.       *)
EXTENDS Ata

MCLbas    == {0, 1, 2, 4, 8, 11}
MCBuffers == {[b \in Offsets |-> IF b = n THEN 0 ELSE 1] : n \in {0, 3}}
=============================================================================
