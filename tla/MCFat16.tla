------------------------------ MODULE MCFat16 -------------------------------
(***************************************************************************)
(* Instances of Fat16 for TLC.                                             *)
(***************************************************************************)
EXTENDS Fat16, TLC

CONSTANTS v1, v2

MCFatNames == {"F", "G"}

(* Two of the three names users type become the same FAT name. *)
MCFatNameOf == [x \in {"f", "f2", "g"} |-> IF x = "g" THEN "G" ELSE "F"]
MCNames == DOMAIN MCFatNameOf

(* Contents are interchangeable. *)
MCSymmetry == Permutations({v1, v2})
=============================================================================
