------------------------------ MODULE FatName -------------------------------
(***************************************************************************)
(* The names of fs/fat16.c: to_fat_name turns what a user types into the   *)
(* padded upper-case name of a directory entry, one loop iteration per     *)
(* action, and fat16_list_root turns that name back into a readable one.   *)
(***************************************************************************)
EXTENDS Integers, Sequences

CONSTANTS
  BASE,       \* bytes of the base name (8)
  EXT,        \* bytes of the extension (3)
  Chars       \* what names are made of

SP  == " "
DOT == "."

ASSUME FatNameAssumption ==
  BASE \in Nat \ {0} /\ EXT \in Nat \ {0} /\ SP \in Chars

VARIABLES
  input,       \* the name, without its terminator
  i, j,        \* next character of input (from 1) and of fat_name (from 0)
  fat_name,
  pc           \* "base", "ext" or, between calls, "done"

nameVars == <<input, i, j, fat_name, pc>>

Places == 0 .. (BASE + EXT - 1)

(* c -= 32 for lower-case letters. *)
Upper(c) == IF c = "a" THEN "A" ELSE c

FatNames == [Places -> {Upper(c) : c \in Chars}]
Spaces   == [p \in Places |-> SP]

(* input[i] && input[i] != '.' && j < 8 *)
InBase == i <= Len(input) /\ input[i] # DOT /\ j < BASE

(* A mutant: the extension follows whatever ended the base name. *)
Mut_EndBase ==
  /\ pc = "base" /\ ~ InBase
  /\ pc' = "ext" /\ i' = i + 1 /\ j' = BASE
  /\ UNCHANGED <<input, fat_name>>

NameInit == input = <<>> /\ i = 1 /\ j = 0 /\ fat_name = Spaces /\ pc = "done"

NameSet(name, phase) ==
  /\ input' = name /\ i' = 1 /\ j' = 0 /\ fat_name' = Spaces /\ pc' = phase

(* The call of to_fat_name. *)
ToFatName(name) == NameSet(name, "base")

Copy ==
  /\ fat_name' = [fat_name EXCEPT ![j] = Upper(input[i])]
  /\ i' = i + 1 /\ j' = j + 1
  /\ UNCHANGED <<input, pc>>

CopyBase ==
  /\ pc = "base" /\ InBase
  /\ Copy

(* After the base name there is an extension only if a dot comes next. *)
EndBase ==
  /\ pc = "base" /\ ~ InBase
  /\ IF i <= Len(input) /\ input[i] = DOT
     THEN pc' = "ext" /\ i' = i + 1 /\ j' = BASE
     ELSE pc' = "done" /\ UNCHANGED <<i, j>>
  /\ UNCHANGED <<input, fat_name>>

CopyExt ==
  /\ pc = "ext" /\ i <= Len(input) /\ j < BASE + EXT
  /\ Copy

EndExt ==
  /\ pc = "ext" /\ (i > Len(input) \/ j = BASE + EXT)
  /\ pc' = "done"
  /\ UNCHANGED <<input, i, j, fat_name>>

NameStep == CopyBase \/ EndBase \/ CopyExt \/ EndExt

-----------------------------------------------------------------------------
(* The characters of a part of the entry, less its padding. *)
Part(name, from, len) ==
  LET part[x \in 0 .. len] ==
        IF x = 0 THEN <<>>
        ELSE IF name[from + x - 1] # SP THEN Append(part[x - 1], name[from + x - 1])
        ELSE part[x - 1]
  IN  part[len]

(* A mutant: no dot in front of the extension. *)
Mut_Listed(name) == Part(name, 0, BASE) \o Part(name, BASE, EXT)

(* The name that fat16_list_root builds for a directory entry. *)
Listed(name) ==
  Part(name, 0, BASE) \o
  IF name[BASE] = SP THEN <<>> ELSE <<DOT>> \o Part(name, BASE, EXT)

(* Reference: the part before the first dot, cut to BASE characters, and,  *)
(* if that part was not cut, what follows the dot, cut to EXT characters.  *)
FirstDot(s) ==
  CHOOSE d \in 1 .. (Len(s) + 1) :
    /\ d <= Len(s) => s[d] = DOT
    /\ \A e \in 1 .. (d - 1) : s[e] # DOT

FatNameOf(s) ==
  LET d   == FirstDot(s)
      ext == IF d > BASE + 1 THEN <<>> ELSE SubSeq(s, d + 1, Len(s))
  IN  [p \in Places |->
         IF p < BASE THEN (IF p + 1 < d THEN Upper(s[p + 1]) ELSE SP)
         ELSE IF p - BASE < Len(ext) THEN Upper(ext[p - BASE + 1]) ELSE SP]

(* to_fat_name computes that name, for every input: also for names that    *)
(* begin or end with a dot, have several, contain spaces (cat and rm take  *)
(* the whole line), or are longer than 8.3 allows.                         *)
NameAsSpecified == pc = "done" => fat_name = FatNameOf(input)

=============================================================================
