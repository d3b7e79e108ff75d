---------------------------- MODULE ShellProofs -----------------------------
(***************************************************************************)
(* Proofs about FatName and Shell, for every size of base name, extension  *)
(* and filename buffer, every alphabet and every set of lines.             *)
(*                                                                         *)
(* The inductive invariant follows the three loops: the two of to_fat_name *)
(* have filled the places below j and seen no dot they should have stopped *)
(* at, the one of cmd_write has seen no space.  What a file holds is then  *)
(* what its user meant, unless the name did not fit into filename[32].     *)
(* What ls shows rests on how entries are named: no file that the shell    *)
(* has written has a space inside its name, so nothing is lost with the    *)
(* padding.                                                                *)
(***************************************************************************)
EXTENDS Shell, FiniteSetTheorems, WellFoundedInduction, SequenceTheorems, TLAPS

(* d is the position of the first c in s, or one past its end. *)
First(s, c, d) ==
  /\ d \in 1 .. (Len(s) + 1)
  /\ d <= Len(s) => s[d] = c
  /\ \A e \in 1 .. (d - 1) : s[e] # c

(* The base name so far, and the extension behind the dot at d. *)
Filled(s, d) ==
  [p \in Places |->
     IF p < BASE THEN (IF p + 1 < d THEN Upper(s[p + 1]) ELSE SP)
     ELSE IF p < j THEN Upper(s[p - BASE + d + 1]) ELSE SP]

NameInv ==
  /\ input \in Seq(Chars) /\ i \in 1 .. (Len(input) + 1) /\ j \in Nat
  /\ fat_name \in FatNames /\ pc \in {"base", "ext", "done"}
  /\ pc = "base" =>
       /\ j = i - 1 /\ j <= BASE /\ \A e \in 1 .. (i - 1) : input[e] # DOT
       /\ fat_name = [p \in Places |-> IF p < j THEN Upper(input[p + 1]) ELSE SP]
  /\ pc = "ext" =>
       \E d \in 1 .. Len(input) :
         /\ First(input, DOT, d) /\ d <= BASE + 1
         /\ j = BASE + (i - d - 1) /\ BASE <= j /\ j <= BASE + EXT
         /\ fat_name = Filled(input, d)
  /\ NameAsSpecified

(* The arguments of the command, as the loop of cmd_write goes over them. *)
ParseInv ==
  /\ line \in Seq(STRING) /\ \A p \in 2 .. Len(line) : line[p] \in Chars
  /\ n \in Nat
  /\ step \in {"prompt", "dispatch"} => n = 0
  /\ step # "name" => pc = "done"
  /\ step = "parse" => Says("write")
  /\ Says("write") /\ step \in {"parse", "name"} =>
       n <= Len(Args) /\ n <= NAME_LIMIT /\ \A t \in 1 .. n : Args[t] # SP
  /\ step = "name" => Says("cat") \/ Says("rm") \/ Says("write")
  /\ step = "name" /\ (Says("cat") \/ Says("rm")) => input = Args
  /\ step = "name" /\ Says("write") =>
       /\ ~ InName /\ input = SubSeq(Args, 1, n)
       /\ data = SubSeq(Args, n + (IF n < Len(Args) /\ Args[n + 1] = SP THEN 1 ELSE 0) + 1,
                        Len(Args))

(* Every file holds what its user meant, and cat has shown the file. *)
FileInv ==
  /\ DOMAIN files = FatNames /\ DOMAIN meant = FatNames
  /\ \A f \in FatNames : meant[f] \in {Unsure, files[f]}
  /\ step = "shown" /\ Says("cat") =>
       out = IF files[FatNameOf(Args)] = Absent THEN NotFound ELSE files[FatNameOf(Args)]

ShellInv == NameInv /\ ParseInv /\ FileInv

-----------------------------------------------------------------------------
(* First occurrences. *)

(* A sequence has a first occurrence of c, possibly past its end. *)
LEMMA FirstExists ==
  ASSUME NEW S, NEW s \in Seq(S), NEW c
  PROVE  \E d \in 1 .. (Len(s) + 1) : First(s, c, d)
<1> DEFINE Hits == {d \in 1 .. (Len(s) + 1) : d <= Len(s) => s[d] = c}
<1>1. Len(s) \in Nat
  OBVIOUS
<1>2. Hits \subseteq Nat /\ Len(s) + 1 \in Hits
  BY <1>1
<1>3. PICK d \in Hits : \A e \in Hits : ~ (<<e, d>> \in OpToRel(<, Nat))
  BY <1>2, NatLessThanWellFounded, WFMin, Zenon
<1>4. \A e \in Hits : ~ (e < d)
  <2> SUFFICES ASSUME NEW e \in Hits, e < d PROVE FALSE
    OBVIOUS
  <2>1. <<e, d>> \in OpToRel(<, Nat)
    BY <1>2, <1>3 DEF OpToRel
  <2> QED  BY <2>1, <1>3, Zenon
<1>5. \A e \in 1 .. (d - 1) : s[e] # c
  BY <1>1, <1>4
<1> QED  BY <1>1, <1>5 DEF First

(* ... and only one. *)
LEMMA FirstUnique ==
  ASSUME NEW S, NEW s \in Seq(S), NEW c, NEW d, NEW e, First(s, c, d), First(s, c, e)
  PROVE  d = e
<1>1. Len(s) \in Nat
  OBVIOUS
<1>2. ~ (d < e) /\ ~ (e < d)
  BY <1>1 DEF First
<1> QED  BY <1>1, <1>2 DEF First

LEMMA FirstDotIs ==
  ASSUME NEW S, NEW s \in Seq(S), NEW d, First(s, DOT, d)
  PROVE  FirstDot(s) = d
<1>1. First(s, DOT, FirstDot(s))
  BY FirstExists DEF First, FirstDot
<1> QED  BY <1>1, FirstUnique

LEMMA FirstDotFirst ==
  ASSUME NEW S, NEW s \in Seq(S)
  PROVE  First(s, DOT, FirstDot(s))
BY FirstExists DEF First, FirstDot

(* The reference definition without SubSeq. *)
LEMMA FatNameAt ==
  ASSUME NEW S, NEW s \in Seq(S), NEW d, First(s, DOT, d)
  PROVE  FatNameOf(s) =
           [p \in Places |->
              IF p < BASE THEN (IF p + 1 < d THEN Upper(s[p + 1]) ELSE SP)
              ELSE IF d <= BASE + 1 /\ p - BASE + d < Len(s)
                   THEN Upper(s[p - BASE + d + 1]) ELSE SP]
<1> DEFINE ext == IF d > BASE + 1 THEN <<>> ELSE SubSeq(s, d + 1, Len(s))
<1>1. BASE \in Nat /\ EXT \in Nat /\ Len(s) \in Nat /\ d \in 1 .. (Len(s) + 1)
  BY FatNameAssumption DEF First
<1>2. ASSUME d <= BASE + 1
      PROVE  /\ Len(ext) = IF d + 1 <= Len(s) THEN Len(s) - d ELSE 0
             /\ \A q \in 1 .. (Len(s) - d) : ext[q] = s[d + q]
  <2>1. \A q \in (d + 1) .. Len(s) : s[q] \in S
    BY <1>1
  <2>2. /\ Len(SubSeq(s, d + 1, Len(s))) = IF d + 1 <= Len(s) THEN Len(s) - (d + 1) + 1 ELSE 0
        /\ \A q \in 1 .. (Len(s) - (d + 1) + 1) : SubSeq(s, d + 1, Len(s))[q] = s[d + 1 + q - 1]
    BY <1>1, <2>1, SubSeqProperties
  <2>3. ext = SubSeq(s, d + 1, Len(s))
    BY <1>1, <1>2
  <2> QED  BY <1>1, <2>2, <2>3
<1>3. d > BASE + 1 => Len(ext) = 0
  OBVIOUS
<1>4. FirstDot(s) = d
  BY FirstDotIs
<1>5. FatNameOf(s) =
        [p \in Places |->
           IF p < BASE THEN (IF p + 1 < d THEN Upper(s[p + 1]) ELSE SP)
           ELSE IF p - BASE < Len(ext) THEN Upper(ext[p - BASE + 1]) ELSE SP]
  BY <1>4 DEF FatNameOf
<1> HIDE DEF ext
<1>6. ASSUME NEW p \in Places, ~ (p < BASE)
      PROVE  (IF p - BASE < Len(ext) THEN Upper(ext[p - BASE + 1]) ELSE SP)
             = (IF d <= BASE + 1 /\ p - BASE + d < Len(s)
                THEN Upper(s[p - BASE + d + 1]) ELSE SP)
  <2>0. p \in Int /\ p - BASE \in Nat
    BY <1>1, <1>6 DEF Places
  <2>1. CASE d <= BASE + 1 /\ p - BASE + d < Len(s)
    <3>1. Len(ext) = Len(s) - d /\ p - BASE < Len(ext) /\ p - BASE + 1 \in 1 .. (Len(s) - d)
      BY <1>1, <1>2, <2>0, <2>1
    <3>2. ext[p - BASE + 1] = s[d + (p - BASE + 1)]
      BY <1>2, <2>1, <3>1
    <3>3. d + (p - BASE + 1) = p - BASE + d + 1
      BY <1>1, <2>0
    <3> QED  BY <2>1, <3>1, <3>2, <3>3
  <2>2. CASE ~ (d <= BASE + 1 /\ p - BASE + d < Len(s))
    <3>1. ~ (p - BASE < Len(ext))
      BY <1>1, <1>2, <1>3, <2>0, <2>2
    <3> QED  BY <2>2, <3>1
  <2> QED  BY <2>1, <2>2
<1> QED  BY <1>5, <1>6

(* FatNameOf looks at no character beyond the ones that fit into an entry  *)
(* and the dot: cmd_write may cut the name at NAME_LIMIT.                  *)
LEMMA FatNameOfCut ==
  ASSUME NEW S, NEW s \in Seq(S), Len(s) > NAME_LIMIT
  PROVE  FatNameOf(SubSeq(s, 1, NAME_LIMIT)) = FatNameOf(s)
<1> DEFINE t == SubSeq(s, 1, NAME_LIMIT)
<1>1. BASE \in Nat /\ EXT \in Nat /\ NAME_LIMIT \in Nat /\ NAME_LIMIT >= BASE + 1 + EXT /\ Len(s) \in Nat
  BY FatNameAssumption, ShellAssumption
<1>2. t \in Seq(S) /\ Len(t) = NAME_LIMIT /\ \A q \in 1 .. NAME_LIMIT : t[q] = s[q]
  <2>1. \A q \in 1 .. NAME_LIMIT : s[q] \in S
    BY <1>1
  <2>2. /\ t \in Seq(S)
        /\ Len(t) = IF 1 <= NAME_LIMIT THEN NAME_LIMIT - 1 + 1 ELSE 0
        /\ \A q \in 1 .. (NAME_LIMIT - 1 + 1) : t[q] = s[1 + q - 1]
    BY <1>1, <2>1, SubSeqProperties
  <2> QED  BY <1>1, <2>2
<1> HIDE DEF t
<1>3. PICK d \in 1 .. (Len(s) + 1) : First(s, DOT, d)
  BY FirstExists
<1>4. PICK e \in 1 .. (NAME_LIMIT + 1) : First(t, DOT, e)
  BY <1>2, FirstExists
<1>5. d <= BASE + 1 \/ e <= BASE + 1 => d = e
  <2>1. d <= NAME_LIMIT => First(t, DOT, d)
    BY <1>1, <1>2, <1>3 DEF First
  <2>2. e <= NAME_LIMIT => First(s, DOT, e)
    BY <1>1, <1>2, <1>4 DEF First
  <2> QED  BY <1>1, <1>2, <1>3, <1>4, <2>1, <2>2, FirstUnique
<1>6. ASSUME NEW p \in Places
      PROVE  FatNameOf(t)[p] = FatNameOf(s)[p]
  <2>0. p \in Int /\ 0 <= p /\ p < BASE + EXT
    BY <1>1 DEF Places
  <2>1. FatNameOf(s)[p] =
          IF p < BASE THEN (IF p + 1 < d THEN Upper(s[p + 1]) ELSE SP)
          ELSE IF d <= BASE + 1 /\ p - BASE + d < Len(s) THEN Upper(s[p - BASE + d + 1]) ELSE SP
    BY <1>3, FatNameAt
  <2>2. FatNameOf(t)[p] =
          IF p < BASE THEN (IF p + 1 < e THEN Upper(t[p + 1]) ELSE SP)
          ELSE IF e <= BASE + 1 /\ p - BASE + e < Len(t) THEN Upper(t[p - BASE + e + 1]) ELSE SP
    BY <1>2, <1>4, FatNameAt
  <2>3. CASE p < BASE
    <3>1. (p + 1 < d) = (p + 1 < e)
      BY <1>1, <1>5, <2>0, <2>3
    <3>2. t[p + 1] = s[p + 1]
      BY <1>1, <1>2, <2>0, <2>3
    <3> QED  BY <2>1, <2>2, <2>3, <3>1, <3>2
  <2>4. CASE ~ (p < BASE) /\ d <= BASE + 1
    <3>1. /\ e = d /\ p - BASE + d < Len(s) /\ p - BASE + e < Len(t)
          /\ p - BASE + d + 1 \in 1 .. NAME_LIMIT
      BY <1>1, <1>2, <1>5, <2>0, <2>4
    <3>2. t[p - BASE + d + 1] = s[p - BASE + d + 1]
      BY <1>2, <3>1
    <3> QED  BY <2>1, <2>2, <2>4, <3>1, <3>2
  <2>5. CASE ~ (p < BASE) /\ ~ (d <= BASE + 1)
    <3>1. ~ (e <= BASE + 1)
      BY <1>5, <2>5
    <3> QED  BY <2>1, <2>2, <2>5, <3>1
  <2> QED  BY <2>3, <2>4, <2>5
<1>7. FatNameOf(t) = [p \in Places |-> FatNameOf(t)[p]] /\ FatNameOf(s) = [p \in Places |-> FatNameOf(s)[p]]
  BY DEF FatNameOf
<1>8. FatNameOf(t) = FatNameOf(s)
  BY <1>6, <1>7
<1> QED  BY <1>8 DEF t

LEMMA Blank == SP \in {Upper(c) : c \in Chars}
<1>1. Upper(SP) = SP
  BY DEF Upper, SP
<1>2. SP \in Chars
  BY FatNameAssumption
<1> QED  BY <1>1, <1>2

(* What FatNameOf returns is a name of the directory. *)
LEMMA FatNameType ==
  ASSUME NEW s \in Seq(Chars)
  PROVE  FatNameOf(s) \in FatNames
<1>1. PICK d \in 1 .. (Len(s) + 1) : First(s, DOT, d)
  BY FirstExists
<1>2. BASE \in Nat /\ EXT \in Nat /\ Len(s) \in Nat /\ SP \in {Upper(c) : c \in Chars}
  BY FatNameAssumption, Blank
<1>3. \A q \in 1 .. Len(s) : Upper(s[q]) \in {Upper(c) : c \in Chars}
  OBVIOUS
<1>4. ASSUME NEW p \in Places
      PROVE  (IF p < BASE THEN (IF p + 1 < d THEN Upper(s[p + 1]) ELSE SP)
              ELSE IF d <= BASE + 1 /\ p - BASE + d < Len(s)
                   THEN Upper(s[p - BASE + d + 1]) ELSE SP) \in {Upper(c) : c \in Chars}
  <2>0. p \in Int /\ 0 <= p
    BY <1>2 DEF Places
  <2>1. CASE p < BASE /\ p + 1 < d
    <3>1. p + 1 \in 1 .. Len(s)
      BY <1>2, <2>0, <2>1
    <3> QED  BY <1>3, <2>1, <3>1
  <2>2. CASE ~ (p < BASE) /\ d <= BASE + 1 /\ p - BASE + d < Len(s)
    <3>1. p - BASE + d + 1 \in 1 .. Len(s)
      BY <1>2, <2>0, <2>2
    <3> QED  BY <1>3, <2>2, <3>1
  <2> QED  BY <1>2, <2>1, <2>2
<1> QED  BY <1>1, <1>4, FatNameAt DEF FatNames

(* The empty name. *)
LEMMA EmptyName == FatNameOf(<<>>) = Spaces /\ Spaces \in FatNames
<1>1. First(<<>>, DOT, 1)
  BY DEF First
<1>2. BASE \in Nat /\ SP \in {Upper(c) : c \in Chars}
  BY FatNameAssumption, Blank
<1>3. <<>> \in Seq(Chars) /\ Len(<<>>) = 0
  OBVIOUS
<1>4. FatNameOf(<<>>) =
        [p \in Places |->
           IF p < BASE THEN (IF p + 1 < 1 THEN Upper(<<>>[p + 1]) ELSE SP)
           ELSE IF 1 <= BASE + 1 /\ p - BASE + 1 < Len(<<>>)
                THEN Upper(<<>>[p - BASE + 1 + 1]) ELSE SP]
  BY <1>1, <1>3, FatNameAt
<1>5. \A p \in Places : ~ (p + 1 < 1) /\ (~ (p < BASE) => ~ (p - BASE + 1 < Len(<<>>)))
  BY <1>2, <1>3, FatNameAssumption DEF Places
<1> QED  BY <1>2, <1>4, <1>5 DEF Spaces, FatNames

-----------------------------------------------------------------------------
(* to_fat_name. *)

(* A character of the input goes to the next place. *)
LEMMA CopyType ==
  ASSUME input \in Seq(Chars), i \in 1 .. Len(input), j \in Nat, fat_name \in FatNames, Copy
  PROVE  fat_name' \in FatNames
<1>1. Upper(input[i]) \in {Upper(c) : c \in Chars}
  OBVIOUS
<1> QED  BY <1>1 DEF Copy, FatNames

LEMMA StepCopyBase == ASSUME NameInv, CopyBase PROVE NameInv'
<1>1. /\ input \in Seq(Chars) /\ Len(input) \in Nat /\ i \in 1 .. Len(input) /\ j \in Nat /\ pc = "base"
      /\ j = i - 1 /\ j < BASE /\ input[i] # DOT /\ BASE \in Nat /\ EXT \in Nat
      /\ \A e \in 1 .. (i - 1) : input[e] # DOT
  BY FatNameAssumption DEF NameInv, CopyBase, InBase
<1>2. /\ input' = input /\ pc' = pc /\ i' = i + 1 /\ j' = j + 1
      /\ fat_name' = [fat_name EXCEPT ![j] = Upper(input[i])]
  BY DEF CopyBase, Copy
<1>3. fat_name = [p \in Places |-> IF p < j THEN Upper(input[p + 1]) ELSE SP]
  BY <1>1 DEF NameInv
<1>4. fat_name' = [p \in Places |-> IF p < j + 1 THEN Upper(input[p + 1]) ELSE SP]
  <2>1. i = j + 1
    BY <1>1
  <2>2. \A p \in Places : p \in Int
    BY <1>1 DEF Places
  <2> QED  BY <1>1, <1>2, <1>3, <2>1, <2>2
<1>5. fat_name' \in FatNames
  BY <1>1, CopyType DEF NameInv, CopyBase
<1>6. \A e \in 1 .. (i' - 1) : input[e] # DOT
  BY <1>1, <1>2
<1>7. i' \in 1 .. (Len(input') + 1) /\ j' \in Nat /\ j' = i' - 1 /\ j' <= BASE /\ pc' = "base"
  BY <1>1, <1>2
<1>8. NameAsSpecified' /\ input' \in Seq(Chars)
  BY <1>1, <1>2, <1>7 DEF NameAsSpecified
<1>9. fat_name' = [p \in Places |-> IF p < j' THEN Upper(input'[p + 1]) ELSE SP]
  BY <1>2, <1>4
<1> QED  BY <1>2, <1>5, <1>6, <1>7, <1>8, <1>9 DEF NameInv

LEMMA StepEndBase == ASSUME NameInv, EndBase PROVE NameInv'
<1>1. /\ input \in Seq(Chars) /\ Len(input) \in Nat /\ i \in 1 .. (Len(input) + 1) /\ j \in Nat /\ pc = "base"
      /\ j = i - 1 /\ j <= BASE /\ BASE \in Nat /\ EXT \in Nat
      /\ \A e \in 1 .. (i - 1) : input[e] # DOT
      /\ i <= Len(input) /\ j < BASE => input[i] = DOT
      /\ input' = input /\ fat_name' = fat_name /\ fat_name \in FatNames
  BY FatNameAssumption DEF NameInv, EndBase, InBase
<1>2. fat_name = [p \in Places |-> IF p < j THEN Upper(input[p + 1]) ELSE SP]
  BY <1>1 DEF NameInv
<1>3. \A p \in Places : p \in Int /\ 0 <= p
  BY <1>1 DEF Places
<1>4. CASE i <= Len(input) /\ input[i] = DOT
  <2>1. pc' = "ext" /\ i' = i + 1 /\ j' = BASE
    BY <1>4 DEF EndBase
  <2>2. First(input, DOT, i)
    BY <1>1, <1>4 DEF First
  <2>3. fat_name' = [p \in Places |->
                       IF p < BASE THEN (IF p + 1 < i THEN Upper(input[p + 1]) ELSE SP)
                       ELSE IF p < BASE THEN Upper(input[p - BASE + i + 1]) ELSE SP]
    BY <1>1, <1>2, <1>3
  <2>4. (\E d \in 1 .. Len(input) :
          /\ First(input, DOT, d) /\ d <= BASE + 1
          /\ j = BASE + (i - d - 1) /\ BASE <= j /\ j <= BASE + EXT
          /\ fat_name = Filled(input, d))'
    <3>1. i \in 1 .. Len(input) /\ i <= BASE + 1 /\ j' = BASE + (i' - i - 1) /\ BASE <= j' /\ j' <= BASE + EXT
      BY <1>1, <1>4, <2>1
    <3>2. fat_name' = [p \in Places |->
                       IF p < BASE THEN (IF p + 1 < i THEN Upper(input'[p + 1]) ELSE SP)
                       ELSE IF p < j' THEN Upper(input'[p - BASE + i + 1]) ELSE SP]
      BY <1>1, <2>1, <2>3
    <3> QED  BY <1>1, <2>2, <3>1, <3>2 DEF Filled, First
  <2> QED  BY <1>1, <1>4, <2>1, <2>4 DEF NameInv, NameAsSpecified
<1>5. CASE ~ (i <= Len(input) /\ input[i] = DOT)
  <2>1. pc' = "done" /\ i' = i /\ j' = j
    BY <1>5 DEF EndBase
  <2>2. PICK d \in 1 .. (Len(input) + 1) : First(input, DOT, d)
    BY <1>1, FirstExists
  <2>3. d >= i /\ (d > BASE + 1 \/ d = Len(input) + 1) /\ (j < BASE => d = i)
    BY <1>1, <1>5, <2>2 DEF First
  <2>4. \A p \in Places : p < BASE => (p < j) = (p + 1 < d)
    BY <1>1, <1>3, <2>2, <2>3
  <2>5. \A p \in Places : ~ (p < BASE) => ~ (p < j) /\ ~ (d <= BASE + 1 /\ p - BASE + d < Len(input))
    BY <1>1, <1>3, <2>2, <2>3
  <2>6. fat_name = FatNameOf(input)
    <3>1. FatNameOf(input) =
           [p \in Places |->
              IF p < BASE THEN (IF p + 1 < d THEN Upper(input[p + 1]) ELSE SP)
              ELSE IF d <= BASE + 1 /\ p - BASE + d < Len(input)
                   THEN Upper(input[p - BASE + d + 1]) ELSE SP]
      BY <1>1, <2>2, FatNameAt
    <3> QED  BY <1>2, <2>4, <2>5, <3>1
  <2> QED  BY <1>1, <2>1, <2>6 DEF NameInv, NameAsSpecified
<1> QED  BY <1>4, <1>5

LEMMA StepCopyExt == ASSUME NameInv, CopyExt PROVE NameInv'
<1>1. /\ input \in Seq(Chars) /\ Len(input) \in Nat /\ i \in 1 .. Len(input) /\ j \in Nat /\ pc = "ext"
      /\ j < BASE + EXT /\ BASE \in Nat /\ EXT \in Nat
  BY FatNameAssumption DEF NameInv, CopyExt
<1>2. PICK d \in 1 .. Len(input) :
         /\ First(input, DOT, d) /\ d <= BASE + 1
         /\ j = BASE + (i - d - 1) /\ BASE <= j /\ j <= BASE + EXT
         /\ fat_name = Filled(input, d)
  BY <1>1 DEF NameInv
<1>3. /\ input' = input /\ pc' = pc /\ i' = i + 1 /\ j' = j + 1
      /\ fat_name' = [fat_name EXCEPT ![j] = Upper(input[i])]
  BY DEF CopyExt, Copy
<1>4. \A p \in Places : p \in Int
  BY <1>1 DEF Places
<1>5. j - BASE + d + 1 = i
  BY <1>1, <1>2
<1>6. fat_name' =
        [p \in Places |->
           IF p < BASE THEN (IF p + 1 < d THEN Upper(input[p + 1]) ELSE SP)
           ELSE IF p < j + 1 THEN Upper(input[p - BASE + d + 1]) ELSE SP]
  <2>1. fat_name =
          [p \in Places |->
             IF p < BASE THEN (IF p + 1 < d THEN Upper(input[p + 1]) ELSE SP)
             ELSE IF p < j THEN Upper(input[p - BASE + d + 1]) ELSE SP]
    BY <1>2 DEF Filled
  <2>2. fat_name' = [p \in Places |-> fat_name'[p]]
    BY <1>3, <2>1
  <2>3. ASSUME NEW p \in Places
        PROVE  fat_name'[p] =
                 IF p < BASE THEN (IF p + 1 < d THEN Upper(input[p + 1]) ELSE SP)
                 ELSE IF p < j + 1 THEN Upper(input[p - BASE + d + 1]) ELSE SP
    <3>1. CASE p = j
      <4>1. fat_name'[p] = Upper(input[i]) /\ ~ (p < BASE) /\ p < j + 1
        BY <1>1, <1>2, <1>3, <2>1, <3>1
      <4> QED  BY <1>5, <3>1, <4>1
    <3>2. CASE p # j
      <4>1. fat_name'[p] = fat_name[p] /\ (p < j) = (p < j + 1)
        BY <1>1, <1>3, <1>4, <2>1, <3>2
      <4> QED  BY <2>1, <4>1
    <3> QED  BY <3>1, <3>2
  <2> QED  BY <2>2, <2>3
<1>7. /\ i' \in 1 .. (Len(input') + 1) /\ j' \in Nat /\ pc' = "ext" /\ d \in 1 .. Len(input')
      /\ j' = BASE + (i' - d - 1) /\ BASE <= j' /\ j' <= BASE + EXT
  BY <1>1, <1>2, <1>3
<1>8. fat_name' \in FatNames
  BY <1>1, CopyType DEF NameInv, CopyExt
<1>9. NameAsSpecified' /\ input' \in Seq(Chars)
  BY <1>1, <1>3, <1>7 DEF NameAsSpecified
<1>10. fat_name' =
        [p \in Places |->
           IF p < BASE THEN (IF p + 1 < d THEN Upper(input'[p + 1]) ELSE SP)
           ELSE IF p < j' THEN Upper(input'[p - BASE + d + 1]) ELSE SP]
  BY <1>3, <1>6
<1>11. (\E e \in 1 .. Len(input) :
         /\ First(input, DOT, e) /\ e <= BASE + 1
         /\ j = BASE + (i - e - 1) /\ BASE <= j /\ j <= BASE + EXT
         /\ fat_name = Filled(input, e))'
  BY <1>2, <1>3, <1>7, <1>10 DEF Filled, First
<1> QED  BY <1>7, <1>8, <1>9, <1>11 DEF NameInv

LEMMA StepEndExt == ASSUME NameInv, EndExt PROVE NameInv'
<1>1. /\ input \in Seq(Chars) /\ Len(input) \in Nat /\ i \in 1 .. (Len(input) + 1) /\ j \in Nat /\ pc = "ext"
      /\ BASE \in Nat /\ EXT \in Nat /\ (i > Len(input) \/ j = BASE + EXT)
      /\ pc' = "done" /\ input' = input /\ i' = i /\ j' = j /\ fat_name' = fat_name
  BY FatNameAssumption DEF NameInv, EndExt
<1>2. PICK d \in 1 .. Len(input) :
         /\ First(input, DOT, d) /\ d <= BASE + 1
         /\ j = BASE + (i - d - 1) /\ BASE <= j /\ j <= BASE + EXT
         /\ fat_name = Filled(input, d)
  BY <1>1 DEF NameInv
<1>3. \A p \in Places : ~ (p < BASE) => (p < j) = (d <= BASE + 1 /\ p - BASE + d < Len(input))
  BY <1>1, <1>2 DEF Places
<1>4. FatNameOf(input) =
        [p \in Places |->
           IF p < BASE THEN (IF p + 1 < d THEN Upper(input[p + 1]) ELSE SP)
           ELSE IF d <= BASE + 1 /\ p - BASE + d < Len(input)
                THEN Upper(input[p - BASE + d + 1]) ELSE SP]
  BY <1>1, <1>2, FatNameAt
<1>5. fat_name = FatNameOf(input)
  BY <1>2, <1>3, <1>4 DEF Filled
<1> QED  BY <1>1, <1>5 DEF NameInv, NameAsSpecified

LEMMA NameStepInv == ASSUME NameInv, NameStep PROVE NameInv'
BY StepCopyBase, StepEndBase, StepCopyExt, StepEndExt DEF NameStep

(* The call of to_fat_name; between calls its variables are reset. *)
LEMMA NameSetInv ==
  ASSUME input' \in Seq(Chars), i' = 1, j' = 0, fat_name' = Spaces,
         pc' = "base" \/ (pc' = "done" /\ input' = <<>>)
  PROVE  NameInv'
<1>1. fat_name' = [p \in Places |-> IF p < j' THEN Upper(input'[p + 1]) ELSE SP]
  BY FatNameAssumption DEF Spaces, Places
<1>2. NameAsSpecified'
  BY EmptyName DEF NameAsSpecified
<1>3. BASE \in Nat /\ Len(input') \in Nat
  BY FatNameAssumption
<1> QED  BY <1>1, <1>2, <1>3, EmptyName DEF NameInv

LEMMA NameKept == ASSUME NameInv, UNCHANGED nameVars PROVE NameInv'
BY DEF NameInv, nameVars, NameAsSpecified, First, Filled

-----------------------------------------------------------------------------
(* The commands. *)

LEMMA ArgsType ==
  ASSUME ParseInv, NEW word, Says(word)
  PROVE  Args \in Seq(Chars) /\ Len(Args) \in Nat /\ Len(Args) = Len(line) - 2
<1>1. line \in Seq(STRING) /\ Len(line) \in Nat /\ Len(line) >= 2
  BY DEF ParseInv, Says
<1>2. \A p \in 3 .. Len(line) : line[p] \in Chars
  BY <1>1 DEF ParseInv
<1>3. Args \in Seq(Chars) /\ Len(Args) = IF 3 <= Len(line) THEN Len(line) - 3 + 1 ELSE 0
  BY <1>1, <1>2, SubSeqProperties DEF Args
<1>4. (IF 3 <= Len(line) THEN Len(line) - 3 + 1 ELSE 0) = Len(line) - 2 /\ Len(line) - 2 \in Nat
  <2>1. \A k \in Nat : k >= 2 => (IF 3 <= k THEN k - 3 + 1 ELSE 0) = k - 2 /\ k - 2 \in Nat
    OBVIOUS
  <2> QED  BY <1>1, <2>1
<1>5. Len(Args) = Len(line) - 2
  BY <1>3, <1>4
<1> QED  BY <1>3, <1>4, <1>5

(* A line has one first word. *)
LEMMA OneWord ==
  ASSUME NEW v, NEW w, Says(v), Says(w)
  PROVE  v = w
BY DEF Says

LEMMA ShowInv ==
  ASSUME ShellInv, NEW text, Show(text), ~ Says("cat")
  PROVE  ShellInv'
<1>1. NameInv'
  BY NameKept DEF ShellInv, Show
<1>2. /\ step = "dispatch" /\ step' = "shown" /\ line' = line /\ n' = n /\ pc' = pc
      /\ files' = files /\ meant' = meant
  BY DEF Show, nameVars
<1>3. ParseInv'
  BY <1>2 DEF ShellInv, ParseInv
<1>4. ~ Says("cat")'
  BY <1>2 DEF Says
<1>5. FileInv'
  BY <1>2, <1>4 DEF ShellInv, FileInv
<1> QED  BY <1>1, <1>3, <1>5 DEF ShellInv

(* The commands that are over at once. *)
LEMMA SimpleCommandInv ==
  ASSUME ShellInv, Empty \/ Echo \/ List \/ PlainCommand \/ Unknown
  PROVE  ShellInv'
<1>1. CASE Empty
  <2>1. ~ Says("cat")
    BY <1>1 DEF Empty, Says
  <2> QED  BY <1>1, <2>1, ShowInv DEF Empty
<1>2. CASE Echo
  <2>1. ~ Says("cat")
    BY <1>2 DEF Echo, Says
  <2> QED  BY <1>2, <2>1, ShowInv DEF Echo
<1>3. CASE List
  <2>1. ~ Says("cat")
    BY <1>3 DEF List, Says
  <2> QED  BY <1>3, <2>1, ShowInv DEF List
<1>4. CASE PlainCommand
  <2>1. ~ Says("cat")
    BY <1>4 DEF PlainCommand, Plain, Says
  <2> QED  BY <1>4, <2>1, ShowInv DEF PlainCommand
<1>5. CASE Unknown
  <2>1. ~ Says("cat")
    BY <1>5 DEF Unknown
  <2> QED  BY <1>5, <2>1, ShowInv DEF Unknown
<1> QED  BY <1>1, <1>2, <1>3, <1>4, <1>5

LEMMA PromptInv == ASSUME ShellInv, Prompt PROVE ShellInv'
<1>1. NameInv'
  <2>1. <<>> \in Seq(Chars)
    OBVIOUS
  <2> QED  BY <2>1, NameSetInv DEF Prompt, NameSet
<1>2. /\ step' = "prompt" /\ line' = <<>> /\ n' = 0 /\ pc' = "done"
      /\ files' = files /\ meant' = meant
  BY DEF Prompt, NameSet
<1>3. ParseInv'
  BY <1>2 DEF ParseInv
<1>4. FileInv'
  BY <1>2 DEF ShellInv, FileInv
<1> QED  BY <1>1, <1>3, <1>4 DEF ShellInv

LEMMA TypeInv == ASSUME ShellInv, NEW l \in Lines, Type(l) PROVE ShellInv'
<1>1. NameInv'
  BY NameKept DEF ShellInv, Type
<1>2. /\ step = "prompt" /\ step' = "dispatch" /\ line' = l /\ n' = n /\ pc' = pc
      /\ files' = files /\ meant' = meant
  BY DEF Type, nameVars
<1>3. ParseInv'
  BY <1>2, LinesAssumption DEF ShellInv, ParseInv
<1>4. FileInv'
  BY <1>2 DEF ShellInv, FileInv
<1> QED  BY <1>1, <1>3, <1>4 DEF ShellInv

LEMMA PagefaultInv == ASSUME ShellInv, Pagefault PROVE ShellInv'
<1>1. NameInv'
  BY NameKept DEF ShellInv, Pagefault
<1>2. /\ step = "dispatch" /\ step' = "halted" /\ line' = line /\ n' = n /\ pc' = pc
      /\ files' = files /\ meant' = meant
  BY DEF Pagefault, nameVars
<1>3. ParseInv'
  BY <1>2 DEF ShellInv, ParseInv
<1>4. FileInv'
  BY <1>2 DEF ShellInv, FileInv
<1> QED  BY <1>1, <1>3, <1>4 DEF ShellInv

LEMMA CallFsInv == ASSUME ShellInv, CallFs PROVE ShellInv'
<1>1. Args \in Seq(Chars)
  BY ArgsType DEF CallFs, ShellInv
<1>2. NameInv'
  <2>1. input' = Args /\ i' = 1 /\ j' = 0 /\ fat_name' = Spaces /\ pc' = "base"
    BY DEF CallFs, ToFatName, NameSet
  <2>2. input' \in Seq(Chars)
    BY <1>1, <2>1
  <2>3. pc' = "base" \/ (pc' = "done" /\ input' = <<>>)
    BY <2>1
  <2> QED  BY <2>1, <2>2, <2>3, NameSetInv
<1>3. /\ step' = "name" /\ line' = line /\ n' = n /\ input' = Args
      /\ files' = files /\ meant' = meant
  BY DEF CallFs, ToFatName, NameSet
<1>4. Says("cat") \/ Says("rm")
  BY DEF CallFs
<1>5. ~ Says("write")
  BY <1>4, OneWord
<1>6. Args' = Args /\ (Says("cat")' <=> Says("cat")) /\ (Says("rm")' <=> Says("rm"))
      /\ ~ Says("write")'
  BY <1>3, <1>5 DEF Args, Says
<1>7. ParseInv'
  BY <1>3, <1>4, <1>6 DEF ShellInv, ParseInv
<1>8. FileInv'
  BY <1>3 DEF ShellInv, FileInv
<1> QED  BY <1>2, <1>7, <1>8 DEF ShellInv

LEMMA CmdWriteInv == ASSUME ShellInv, CmdWrite PROVE ShellInv'
<1>1. NameInv'
  BY NameKept DEF ShellInv, CmdWrite
<1>2. /\ step = "dispatch" /\ step' = "parse" /\ line' = line /\ n' = n /\ pc' = pc
      /\ files' = files /\ meant' = meant /\ Says("write")
  BY DEF CmdWrite, nameVars
<1>3. n = 0 /\ NAME_LIMIT \in Nat /\ Len(Args) \in Nat
  BY <1>2, ArgsType, ShellAssumption DEF ShellInv, ParseInv
<1>4. Args' = Args /\ Says("write")'
  BY <1>2 DEF Args, Says
<1>5. ParseInv'
  BY <1>2, <1>3, <1>4 DEF ShellInv, ParseInv
<1>6. FileInv'
  BY <1>2 DEF ShellInv, FileInv
<1> QED  BY <1>1, <1>5, <1>6 DEF ShellInv

LEMMA ParseCharInv == ASSUME ShellInv, ParseChar PROVE ShellInv'
<1>1. NameInv'
  BY NameKept DEF ShellInv, ParseChar
<1>2. /\ step = "parse" /\ step' = "parse" /\ line' = line /\ n' = n + 1 /\ pc' = pc
      /\ files' = files /\ meant' = meant /\ InName
  BY DEF ParseChar, nameVars
<1>3. /\ Says("write") /\ n \in Nat /\ NAME_LIMIT \in Nat /\ Len(Args) \in Nat
      /\ \A t \in 1 .. n : Args[t] # SP
  BY <1>2, ArgsType, ShellAssumption DEF ShellInv, ParseInv
<1>4. n + 1 <= Len(Args) /\ n + 1 <= NAME_LIMIT /\ \A t \in 1 .. (n + 1) : Args[t] # SP
  BY <1>2, <1>3 DEF InName
<1>5. Args' = Args /\ Says("write")'
  BY <1>2, <1>3 DEF Args, Says
<1>6. ParseInv'
  BY <1>2, <1>3, <1>4, <1>5 DEF ShellInv, ParseInv
<1>7. FileInv'
  BY <1>2 DEF ShellInv, FileInv
<1> QED  BY <1>1, <1>6, <1>7 DEF ShellInv

LEMMA ParseEndInv == ASSUME ShellInv, ParseEnd PROVE ShellInv'
<1>1. /\ step = "parse" /\ step' = "name" /\ line' = line /\ n' = n
      /\ files' = files /\ meant' = meant /\ ~ InName
      /\ data' = SubSeq(Args, n + (IF n < Len(Args) /\ Args[n + 1] = SP THEN 1 ELSE 0) + 1, Len(Args))
  BY DEF ParseEnd
<1>2. /\ Says("write") /\ n \in Nat /\ Args \in Seq(Chars) /\ Len(Args) \in Nat /\ n <= Len(Args)
  BY <1>1, ArgsType DEF ShellInv, ParseInv
<1>3. SubSeq(Args, 1, n) \in Seq(Chars)
  <2>1. \A q \in 1 .. n : Args[q] \in Chars
    BY <1>2
  <2> QED  BY <1>2, <2>1, SubSeqProperties
<1>4. NameInv' /\ input' = SubSeq(Args, 1, n)
  <2>1. input' = SubSeq(Args, 1, n) /\ i' = 1 /\ j' = 0 /\ fat_name' = Spaces /\ pc' = "base"
    BY DEF ParseEnd, ToFatName, NameSet
  <2>2. input' \in Seq(Chars)
    BY <1>3, <2>1
  <2>3. pc' = "base" \/ (pc' = "done" /\ input' = <<>>)
    BY <2>1
  <2> QED  BY <2>1, <2>2, <2>3, NameSetInv
<1>5. Args' = Args /\ Says("write")' /\ ~ Says("cat")' /\ ~ Says("rm")'
  BY <1>1, <1>2 DEF Args, Says
<1>6. ~ InName'
  BY <1>1, <1>5 DEF InName
<1>7. ParseInv'
  BY <1>1, <1>2, <1>4, <1>5, <1>6 DEF ShellInv, ParseInv
<1>8. FileInv'
  BY <1>1 DEF ShellInv, FileInv
<1> QED  BY <1>4, <1>7, <1>8 DEF ShellInv

LEMMA NamingInv == ASSUME ShellInv, Naming PROVE ShellInv'
<1>1. NameInv' /\ input' = input
  BY NameStepInv DEF ShellInv, Naming, NameStep, CopyBase, EndBase, CopyExt, EndExt, Copy
<1>2. /\ step = "name" /\ step' = step /\ line' = line /\ n' = n /\ data' = data
      /\ files' = files /\ meant' = meant
  BY DEF Naming
<1>3. Args' = Args /\ \A word : Says(word)' <=> Says(word)
  BY <1>2 DEF Args, Says
<1>4. InName' <=> InName
  BY <1>2, <1>3 DEF InName
<1>5. ParseInv'
  BY <1>1, <1>2, <1>3, <1>4 DEF ShellInv, ParseInv
<1>6. FileInv'
  BY <1>2 DEF ShellInv, FileInv
<1> QED  BY <1>1, <1>5, <1>6 DEF ShellInv

-----------------------------------------------------------------------------
(* The files. *)

(* cat and rm reach the file that their whole argument names. *)
LEMMA NamedFile ==
  ASSUME ShellInv, step = "name", pc = "done", Says("cat") \/ Says("rm")
  PROVE  fat_name = FatNameOf(Args) /\ fat_name \in FatNames
BY DEF ShellInv, NameInv, NameAsSpecified, ParseInv

(* write reaches the file that its user named, and stores the text he      *)
(* typed unless the name did not fit.                                      *)
LEMMA WrittenFile ==
  ASSUME ShellInv, step = "name", pc = "done", Says("write")
  PROVE  /\ fat_name = FatNameOf(TypedName) /\ fat_name \in FatNames
         /\ TypedFile \in {Unsure, data}
<1> DEFINE f == FirstSpace
           a == Args
<1>1. a \in Seq(Chars) /\ Len(a) \in Nat
  BY ArgsType DEF ShellInv
<1>2. /\ n \in Nat /\ n <= Len(a) /\ n <= NAME_LIMIT /\ \A t \in 1 .. n : a[t] # SP
      /\ n < Len(a) /\ n < NAME_LIMIT => a[n + 1] = SP
      /\ input = SubSeq(a, 1, n) /\ fat_name = FatNameOf(input) /\ fat_name \in FatNames
      /\ data = SubSeq(a, n + (IF n < Len(a) /\ a[n + 1] = SP THEN 1 ELSE 0) + 1, Len(a))
  BY DEF ShellInv, ParseInv, NameInv, NameAsSpecified, InName
<1>3. f \in 1 .. (Len(a) + 1) /\ (f <= Len(a) => a[f] = SP) /\ \A t \in 1 .. (f - 1) : a[t] # SP
  <2>1. \E d \in 1 .. (Len(a) + 1) : First(a, SP, d)
    BY <1>1, FirstExists
  <2> QED  BY <2>1 DEF FirstSpace, First
<1>4. TypedName = SubSeq(a, 1, f - 1) /\ TypedText = SubSeq(a, f + 1, Len(a))
  BY DEF TypedName, TypedText
<1>5. NAME_LIMIT \in Nat
  BY ShellAssumption
<1> HIDE DEF f, a
<1>6. TypedName \in Seq(Chars) /\ Len(TypedName) = f - 1
  <2>1. \A q \in 1 .. (f - 1) : a[q] \in Chars
    BY <1>1, <1>3
  <2>2. /\ SubSeq(a, 1, f - 1) \in Seq(Chars)
        /\ Len(SubSeq(a, 1, f - 1)) = IF 1 <= f - 1 THEN f - 1 - 1 + 1 ELSE 0
    BY <1>1, <1>3, <2>1, SubSeqProperties
  <2> QED  BY <1>1, <1>3, <1>4, <2>2
<1>7. CASE f - 1 <= NAME_LIMIT
  <2>1. n = f - 1
    <3>1. ~ (n < f - 1)
      BY <1>1, <1>2, <1>3, <1>5, <1>7
    <3>2. ~ (f - 1 < n)
      BY <1>1, <1>2, <1>3
    <3> QED  BY <1>1, <1>2, <1>3, <3>1, <3>2
  <2>2. data = TypedText
    <3>1. CASE n < Len(a)
      <4>1. a[n + 1] = SP /\ n + 1 + 1 = f + 1
        BY <1>1, <1>2, <1>3, <2>1, <3>1
      <4> QED  BY <1>2, <1>4, <3>1, <4>1
    <3>2. CASE ~ (n < Len(a))
      <4>1. n + 0 + 1 > Len(a) /\ f + 1 > Len(a) /\ n + 0 + 1 \in Int /\ f + 1 \in Int
        BY <1>1, <1>2, <1>3, <2>1, <3>2
      <4>2. SubSeq(a, n + 0 + 1, Len(a)) = <<>> /\ SubSeq(a, f + 1, Len(a)) = <<>>
        BY <1>1, <4>1, SubSeqEmpty
      <4> QED  BY <1>2, <1>4, <3>2, <4>2
    <3> QED  BY <3>1, <3>2
  <2>3. TypedFile = TypedText
    BY <1>1, <1>3, <1>5, <1>6, <1>7 DEF TypedFile
  <2> QED  BY <1>2, <1>4, <2>1, <2>2, <2>3
<1>8. CASE ~ (f - 1 <= NAME_LIMIT)
  <2>1. n = NAME_LIMIT
    BY <1>1, <1>2, <1>3, <1>5, <1>8
  <2>2. NAME_LIMIT >= 1
    BY ShellAssumption, FatNameAssumption
  <2>3. SubSeq(TypedName, 1, NAME_LIMIT) = SubSeq(a, 1, NAME_LIMIT)
    <3>1. /\ 1 \in 1 .. Len(a) /\ f - 1 \in 1 .. Len(a)
          /\ 1 \in 1 .. (f - 1 - 1 + 1) /\ NAME_LIMIT \in 1 .. (f - 1 - 1 + 1)
          /\ 1 + 1 - 1 = 1 /\ 1 + NAME_LIMIT - 1 = NAME_LIMIT
      BY <1>1, <1>3, <1>5, <1>8, <2>2
    <3>2. SubSeq(SubSeq(a, 1, f - 1), 1, NAME_LIMIT) = SubSeq(a, 1 + 1 - 1, 1 + NAME_LIMIT - 1)
      BY <1>1, <3>1, SubSeqOfSubSeq
    <3> QED  BY <1>4, <3>1, <3>2
  <2>4. Len(TypedName) > NAME_LIMIT
    BY <1>1, <1>3, <1>5, <1>6, <1>8
  <2>5. FatNameOf(SubSeq(TypedName, 1, NAME_LIMIT)) = FatNameOf(TypedName)
    BY <1>6, <2>4, FatNameOfCut
  <2>6. TypedFile = Unsure
    BY <2>4 DEF TypedFile
  <2> QED  BY <1>2, <2>1, <2>3, <2>5, <2>6
<1> QED  BY <1>7, <1>8

(* The call of the file system returns; files and meant change alike. *)
LEMMA FinishInv ==
  ASSUME ShellInv, pc = "done", step' = "shown", UNCHANGED <<nameVars, line, n>>,
         DOMAIN files' = FatNames, DOMAIN meant' = FatNames,
         \A f \in FatNames : meant'[f] \in {Unsure, files'[f]},
         Says("cat") => out' = IF files'[FatNameOf(Args)] = Absent
                               THEN NotFound ELSE files'[FatNameOf(Args)]
  PROVE  ShellInv'
<1>1. NameInv'
  BY NameKept DEF ShellInv
<1>2. step' = "shown" /\ line' = line /\ n' = n /\ pc' = "done"
  BY DEF nameVars
<1>3. ParseInv'
  BY <1>2 DEF ShellInv, ParseInv
<1>4. Args' = Args /\ (Says("cat")' <=> Says("cat"))
  BY <1>2 DEF Args, Says
<1>5. FatNameOf(Args)' = FatNameOf(Args)
  BY <1>4 DEF FatNameOf, FirstDot
<1>6. FileInv'
  BY <1>2, <1>4, <1>5 DEF FileInv
<1> QED  BY <1>1, <1>3, <1>6 DEF ShellInv

LEMMA FileCommandInv == ASSUME ShellInv, Cat \/ Rm \/ Write \/ WriteFails PROVE ShellInv'
<1>1. /\ DOMAIN files = FatNames /\ DOMAIN meant = FatNames
      /\ \A f \in FatNames : meant[f] \in {Unsure, files[f]}
  BY DEF ShellInv, FileInv
<1>2. CASE Cat
  <2>1. step = "name" /\ pc = "done" /\ Says("cat")
    BY <1>2 DEF Cat, Finish
  <2>2. fat_name = FatNameOf(Args)
    BY <2>1, NamedFile
  <2>3. /\ step' = "shown" /\ files' = files /\ meant' = meant /\ UNCHANGED <<nameVars, line, n>>
        /\ out' = IF files[fat_name] = Absent THEN NotFound ELSE files[fat_name]
    BY <1>2 DEF Cat, Finish
  <2> QED  BY <1>1, <2>1, <2>2, <2>3, FinishInv
<1>3. CASE Rm
  <2>1. step = "name" /\ pc = "done" /\ Says("rm") /\ ~ Says("cat")
    BY <1>3, OneWord DEF Rm, Finish
  <2>2. fat_name = FatNameOf(Args) /\ fat_name \in FatNames
    BY <2>1, NamedFile
  <2>3. /\ step' = "shown" /\ UNCHANGED <<nameVars, line, n>>
        /\ files' = [files EXCEPT ![fat_name] = Absent] /\ meant' = [meant EXCEPT ![fat_name] = Absent]
    BY <1>3, <2>2 DEF Rm, Finish
  <2>4. \A f \in FatNames : meant'[f] \in {Unsure, files'[f]}
    BY <1>1, <2>2, <2>3
  <2>5. DOMAIN files' = FatNames /\ DOMAIN meant' = FatNames
    BY <1>1, <2>3
  <2> QED  BY <2>1, <2>3, <2>4, <2>5, FinishInv
<1>4. CASE Write
  <2>1. step = "name" /\ pc = "done" /\ Says("write") /\ ~ Says("cat")
    BY <1>4, OneWord DEF Write, Finish
  <2>2. fat_name = FatNameOf(TypedName) /\ fat_name \in FatNames /\ TypedFile \in {Unsure, data}
    BY <2>1, WrittenFile
  <2>3. /\ step' = "shown" /\ UNCHANGED <<nameVars, line, n>>
        /\ files' = [files EXCEPT ![fat_name] = data] /\ meant' = [meant EXCEPT ![fat_name] = TypedFile]
    BY <1>4, <2>2 DEF Write, Finish
  <2>4. \A f \in FatNames : meant'[f] \in {Unsure, files'[f]}
    BY <1>1, <2>2, <2>3
  <2>5. DOMAIN files' = FatNames /\ DOMAIN meant' = FatNames
    BY <1>1, <2>3
  <2> QED  BY <2>1, <2>3, <2>4, <2>5, FinishInv
<1>5. CASE WriteFails
  <2>1. step = "name" /\ pc = "done" /\ Says("write") /\ ~ Says("cat")
    BY <1>5, OneWord DEF WriteFails, Finish
  <2>2. fat_name = FatNameOf(TypedName) /\ fat_name \in FatNames
    BY <2>1, WrittenFile
  <2>3. /\ step' = "shown" /\ UNCHANGED <<nameVars, line, n>>
        /\ files' = [files EXCEPT ![fat_name] = Absent] /\ meant' = [meant EXCEPT ![fat_name] = Absent]
    BY <1>5, <2>2 DEF WriteFails, Finish
  <2>4. \A f \in FatNames : meant'[f] \in {Unsure, files'[f]}
    BY <1>1, <2>2, <2>3
  <2>5. DOMAIN files' = FatNames /\ DOMAIN meant' = FatNames
    BY <1>1, <2>3
  <2> QED  BY <2>1, <2>3, <2>4, <2>5, FinishInv
<1> QED  BY <1>2, <1>3, <1>4, <1>5

LEMMA InitShellInv == Init => ShellInv
<1> SUFFICES ASSUME Init PROVE ShellInv
  OBVIOUS
<1>1. NameInv
  BY EmptyName DEF Init, NameInit, NameInv, NameAsSpecified
<1>2. ParseInv
  BY DEF Init, NameInit, ParseInv, Says
<1>3. FileInv
  BY DEF Init, FileInv
<1> QED  BY <1>1, <1>2, <1>3 DEF ShellInv

LEMMA NextShellInv == ShellInv /\ [Next]_vars => ShellInv'
<1> SUFFICES ASSUME ShellInv, [Next]_vars PROVE ShellInv'
  OBVIOUS
<1>1. CASE UNCHANGED vars
  <2>1. NameInv'
    BY <1>1, NameKept DEF ShellInv, vars
  <2>2. Args' = Args /\ \A word : Says(word)' <=> Says(word)
    BY <1>1 DEF vars, Args, Says
  <2>3. InName' <=> InName
    BY <1>1, <2>2 DEF vars, InName
  <2>4. ParseInv'
    BY <1>1, <2>2, <2>3 DEF vars, nameVars, ShellInv, ParseInv
  <2>5. FatNameOf(Args)' = FatNameOf(Args)
    BY <2>2 DEF FatNameOf, FirstDot
  <2>6. FileInv'
    BY <1>1, <2>2, <2>5 DEF vars, ShellInv, FileInv
  <2> QED  BY <2>1, <2>4, <2>6 DEF ShellInv
<1>2. CASE Next
  BY <1>2, PromptInv, TypeInv, SimpleCommandInv, PagefaultInv, CallFsInv, CmdWriteInv,
     ParseCharInv, ParseEndInv, NamingInv, FileCommandInv DEF Next
<1> QED  BY <1>1, <1>2

-----------------------------------------------------------------------------
(* The loops of to_fat_name and cmd_write keep the invariant, whatever the *)
(* sizes of names and buffers and whatever is typed.                       *)
THEOREM ShellInvariance == Spec => []ShellInv
BY InitShellInv, NextShellInv, PTL DEF Spec

(* to_fat_name computes the name that its reference definition gives, for  *)
(* every input of every length.                                            *)
THEOREM NamesAreSpecified == Spec => []NameAsSpecified
<1>1. ShellInv => NameAsSpecified
  BY DEF ShellInv, NameInv
<1> QED  BY <1>1, ShellInvariance, PTL

(* cat shows what was last written under a name, and nothing after rm or a *)
(* failed write, unless the name did not fit into cmd_write's buffer.      *)
THEOREM CatShowsLastWrite == Spec => []CatShowsWritten
<1>1. ShellInv => CatShowsWritten
  <2> SUFFICES ASSUME ShellInv, step = "shown", Says("cat"), meant[FatNameOf(Args)] # Unsure
               PROVE  out = IF meant[FatNameOf(Args)] = Absent
                            THEN NotFound ELSE meant[FatNameOf(Args)]
    BY DEF CatShowsWritten
  <2>1. FatNameOf(Args) \in FatNames
    BY ArgsType, FatNameType DEF ShellInv
  <2>2. meant[FatNameOf(Args)] = files[FatNameOf(Args)]
    BY <2>1 DEF ShellInv, FileInv
  <2> QED  BY <2>2 DEF ShellInv, FileInv
<1> QED  BY <1>1, ShellInvariance, PTL

(* A set of natural numbers has a least element. *)
LEMMA LeastMember ==
  ASSUME NEW S \in SUBSET Nat, S # {}
  PROVE  \E d \in S : \A e \in S : d <= e
<1>1. PICK d \in S : \A e \in S : ~ (<<e, d>> \in OpToRel(<, Nat))
  BY NatLessThanWellFounded, WFMin, Zenon
<1>2. \A e \in S : ~ (e < d)
  <2> SUFFICES ASSUME NEW e \in S, e < d PROVE FALSE
    OBVIOUS
  <2>1. <<e, d>> \in OpToRel(<, Nat)
    BY DEF OpToRel
  <2>. QED  BY <1>1, <2>1, Zenon
<1>. QED  BY <1>2

-----------------------------------------------------------------------------
(* The names of the directory, and how fat16_list_root writes them.        *)

(* b characters of a base name and e of an extension, each padded behind;  *)
(* no dot in the base name.                                                *)
Padded(f, b, e) ==
  /\ b \in 0 .. BASE /\ e \in 0 .. EXT
  /\ \A p \in 0 .. (BASE - 1) : IF p < b THEN f[p] \notin {SP, DOT} ELSE f[p] = SP
  /\ \A q \in 0 .. (EXT - 1) : f[BASE + q] # SP <=> q < e

WellNamed(f) == \E b \in 0 .. BASE, e \in 0 .. EXT : Padded(f, b, e)

(* Upper-case letters stay what they are, and nothing becomes a space or a *)
(* dot.                                                                    *)
LEMMA UpperFacts ==
  ASSUME NEW c
  PROVE  Upper(Upper(c)) = Upper(c) /\ (Upper(c) = SP <=> c = SP) /\ (Upper(c) = DOT <=> c = DOT)
BY DEF Upper, SP, DOT

(* The same of a part of len characters at from; the unpadded ones are in  *)
(* S.                                                                      *)
PaddedAt(name, from, len, b, S) ==
  /\ from \in Nat /\ len \in Nat /\ b \in 0 .. len
  /\ \A q \in 0 .. (len - 1) : name[from + q] # SP <=> q < b
  /\ \A q \in 0 .. (b - 1) : name[from + q] \in S

(* A part without padding at its front is cut where the padding begins.    *)
LEMMA PartIs ==
  ASSUME NEW S, NEW name, NEW from, NEW len, NEW b, PaddedAt(name, from, len, b, S)
  PROVE  /\ Part(name, from, len) \in Seq(S) /\ Len(Part(name, from, len)) = b
         /\ \A q \in 1 .. b : Part(name, from, len)[q] = name[from + q - 1]
<1> DEFINE part[x \in 0 .. len] ==
             IF x = 0 THEN <<>>
             ELSE IF name[from + x - 1] # SP THEN Append(part[x - 1], name[from + x - 1])
             ELSE part[x - 1]
           R(g) == g = [x \in 0 .. len |->
                          IF x = 0 THEN <<>>
                          ELSE IF name[from + x - 1] # SP
                               THEN Append(g[x - 1], name[from + x - 1])
                          ELSE g[x - 1]]
           Cut(x) == IF x < b THEN x ELSE b
           t == [q \in 1 .. b |-> name[from + q - 1]]
           w == [x \in 0 .. len |-> SubSeq(t, 1, Cut(x))]
<1>0. /\ from \in Nat /\ len \in Nat /\ b \in 0 .. len
      /\ \A q \in 0 .. (len - 1) : name[from + q] # SP <=> q < b
      /\ \A q \in 0 .. (b - 1) : name[from + q] \in S
  BY DEF PaddedAt
<1> USE <1>0
<1>1. Part(name, from, len) = part[len]
  BY DEF Part
<1>2. t \in Seq(S) /\ Len(t) = b /\ \A q \in 1 .. b : t[q] = name[from + q - 1]
  <2>1. b \in Nat
    OBVIOUS
  <2>2. \A q \in 1 .. b : name[from + q - 1] \in S
    <3> SUFFICES ASSUME NEW q \in 1 .. b PROVE name[from + q - 1] \in S
      OBVIOUS
    <3>1. q - 1 \in 0 .. (b - 1) /\ from + (q - 1) = from + q - 1
      BY <2>1
    <3>. QED  BY <3>1
  <2>3. t \in [1 .. b -> S]
    BY <2>2
  <2> HIDE DEF t
  <2>. QED  BY <2>1, <2>3 DEF t
<1> HIDE DEF t
<1>3. ASSUME NEW x \in 0 .. len
      PROVE  /\ Cut(x) \in Nat /\ Cut(x) <= b
             /\ SubSeq(t, 1, Cut(x)) \in Seq(S) /\ Len(SubSeq(t, 1, Cut(x))) = Cut(x)
             /\ \A q \in 1 .. Cut(x) : SubSeq(t, 1, Cut(x))[q] = t[q]
  <2>1. PICK m : m = Cut(x)
    OBVIOUS
  <2>2. m \in Nat /\ m <= b /\ b \in Nat
    BY <2>1
  <2>3. \A q \in 1 .. m : t[q] \in S
    BY <1>2, <2>2
  <2>4. /\ SubSeq(t, 1, m) \in Seq(S)
        /\ Len(SubSeq(t, 1, m)) = IF 1 <= m THEN m - 1 + 1 ELSE 0
        /\ \A q \in 1 .. (m - 1 + 1) : SubSeq(t, 1, m)[q] = t[1 + q - 1]
    BY <1>2, <2>2, <2>3, SubSeqProperties
  <2>5. /\ (IF 1 <= m THEN m - 1 + 1 ELSE 0) = m /\ m - 1 + 1 = m
        /\ \A q \in 1 .. m : 1 + q - 1 = q
    BY <2>2
  <2>. QED  BY <2>1, <2>2, <2>4, <2>5
<1>4. R(w)
  <2>1. ASSUME NEW x \in 0 .. len
        PROVE  w[x] = IF x = 0 THEN <<>>
                      ELSE IF name[from + x - 1] # SP THEN Append(w[x - 1], name[from + x - 1])
                      ELSE w[x - 1]
    <3>1. CASE x = 0
      <4>1. Len(w[x]) = 0 /\ w[x] \in Seq(S)
        BY <1>3, <3>1
      <4> HIDE DEF w
      <4>. QED  BY <3>1, <4>1, EmptySeq
    <3>2. CASE x # 0 /\ ~ (x - 1 < b)
      <4>1. /\ x - 1 \in 0 .. (len - 1) /\ from + (x - 1) = from + x - 1 /\ x - 1 \in 0 .. len
            /\ Cut(x) = Cut(x - 1)
        BY <3>2
      <4>2. name[from + x - 1] = SP
        BY <3>2, <4>1
      <4>3. w[x] = w[x - 1]
        BY <4>1
      <4>. QED  BY <3>2, <4>2, <4>3
    <3>3. CASE x # 0 /\ x - 1 < b
      <4>1. /\ x - 1 \in 0 .. (len - 1) /\ from + (x - 1) = from + x - 1 /\ x - 1 \in 0 .. len
            /\ Cut(x) = x /\ Cut(x - 1) = x - 1 /\ x \in 1 .. b /\ x - 1 \in 0 .. (b - 1)
        BY <3>3
      <4>2. name[from + x - 1] # SP /\ name[from + x - 1] \in S /\ t[x] = name[from + x - 1]
        BY <1>2, <3>3, <4>1
      <4>3. /\ w[x - 1] \in Seq(S) /\ Len(w[x - 1]) = x - 1
            /\ \A q \in 1 .. (x - 1) : w[x - 1][q] = t[q]
        BY <1>3, <4>1
      <4>4. w[x] \in Seq(S) /\ Len(w[x]) = x /\ \A q \in 1 .. x : w[x][q] = t[q]
        BY <1>3, <4>1
      <4> HIDE DEF w
      <4>5. PICK u : u = Append(w[x - 1], name[from + x - 1])
        OBVIOUS
      <4>6. /\ u \in Seq(S) /\ Len(u) = x - 1 + 1 /\ u[x - 1 + 1] = name[from + x - 1]
            /\ \A q \in 1 .. (x - 1) : u[q] = w[x - 1][q]
        BY <4>2, <4>3, <4>5, AppendProperties
      <4>7. Len(u) = x /\ \A q \in 1 .. x : u[q] = t[q]
        BY <4>1, <4>2, <4>3, <4>6
      <4>8. Len(w[x]) = Len(u) /\ \A q \in 1 .. Len(w[x]) : w[x][q] = u[q]
        BY <4>4, <4>7
      <4>9. w[x] = u
        BY <4>4, <4>6, <4>8, SeqEqual
      <4>. QED  BY <3>3, <4>2, <4>5, <4>9
    <3>. QED  BY <3>1, <3>2, <3>3
  <2>2. w = [x \in 0 .. len |-> w[x]]
    OBVIOUS
  <2> HIDE DEF w
  <2>. QED  BY <2>1, <2>2
<1>5. part = CHOOSE g : R(g)
  OBVIOUS
<1>6. R(part)
  <2> HIDE DEF part, R, w
  <2>. QED  BY <1>4, <1>5
<1> HIDE DEF part
<1> DEFINE Bad == {x \in 0 .. len : part[x] # w[x]}
<1>7. Bad = {}
  <2> SUFFICES ASSUME Bad # {} PROVE FALSE
    OBVIOUS
  <2>1. PICK x \in Bad : \A e \in Bad : x <= e
    <3>1. Bad \in SUBSET Nat
      OBVIOUS
    <3> HIDE DEF Bad
    <3>. QED  BY <3>1, LeastMember
  <2>2. /\ part[x] = IF x = 0 THEN <<>>
                     ELSE IF name[from + x - 1] # SP
                          THEN Append(part[x - 1], name[from + x - 1])
                     ELSE part[x - 1]
        /\ w[x] = IF x = 0 THEN <<>>
                     ELSE IF name[from + x - 1] # SP
                          THEN Append(w[x - 1], name[from + x - 1])
                     ELSE w[x - 1]
    <3>1. x \in 0 .. len
      OBVIOUS
    <3> HIDE DEF w
    <3>2. part[x] = IF x = 0 THEN <<>>
                     ELSE IF name[from + x - 1] # SP
                          THEN Append(part[x - 1], name[from + x - 1])
                     ELSE part[x - 1]
      BY <1>6, <3>1
    <3>3. w[x] = IF x = 0 THEN <<>>
                     ELSE IF name[from + x - 1] # SP
                          THEN Append(w[x - 1], name[from + x - 1])
                     ELSE w[x - 1]
      BY <1>4, <3>1
    <3>. QED  BY <3>2, <3>3
  <2>3. x # 0 => part[x - 1] = w[x - 1]
    <3> HIDE DEF w
    <3> SUFFICES ASSUME x # 0 PROVE part[x - 1] = w[x - 1]
      OBVIOUS
    <3>1. x - 1 \in 0 .. len /\ ~ (x <= x - 1)
      BY <2>1
    <3>2. x - 1 \notin Bad
      BY <2>1, <3>1
    <3>. QED  BY <3>1, <3>2
  <2> HIDE DEF w
  <2>. QED  BY <2>1, <2>2, <2>3
<1>8. Cut(len) = b
  OBVIOUS
<1>9. len \in 0 .. len /\ w[len] = SubSeq(t, 1, b)
  BY <1>8
<1>10. part[len] = SubSeq(t, 1, b)
  <2> HIDE DEF w
  <2>. QED  BY <1>7, <1>9
<1>11. /\ SubSeq(t, 1, b) \in Seq(S) /\ Len(SubSeq(t, 1, b)) = b
       /\ \A q \in 1 .. b : SubSeq(t, 1, b)[q] = t[q]
  BY <1>3, <1>8, <1>9
<1>. QED  BY <1>1, <1>2, <1>10, <1>11

(* The name that fat16_list_root builds: it fits into name[13], and leads  *)
(* back to the entry.                                                      *)
LEMMA ListedBack ==
  ASSUME NEW f \in FatNames, WellNamed(f)
  PROVE  FatNameOf(Listed(f)) = f /\ Len(Listed(f)) + 1 <= BASE + EXT + 2
<1> DEFINE V == {Upper(c) : c \in Chars} \cup {DOT}
<1>1. BASE \in Nat /\ EXT \in Nat /\ EXT > 0 /\ BASE > 0
  BY FatNameAssumption
<1>2. PICK b \in 0 .. BASE, e \in 0 .. EXT : Padded(f, b, e)
  BY DEF WellNamed
<1>3. /\ \A p \in 0 .. (BASE - 1) : f[p] \in V /\ Upper(f[p]) = f[p]
      /\ \A q \in 0 .. (EXT - 1) : f[BASE + q] \in V /\ Upper(f[BASE + q]) = f[BASE + q]
  <2>1. \A p \in Places : f[p] \in {Upper(c) : c \in Chars}
    BY DEF FatNames
  <2>2. \A p \in Places : f[p] \in V /\ Upper(f[p]) = f[p]
    BY <2>1, UpperFacts
  <2> HIDE DEF V
  <2>3. 0 .. (BASE - 1) \subseteq Places /\ \A q \in 0 .. (EXT - 1) : BASE + q \in Places
    BY <1>1 DEF Places
  <2>. QED  BY <2>2, <2>3
<1> HIDE DEF V
<1>4. /\ \A p \in 0 .. (BASE - 1) : f[0 + p] # SP <=> p < b
      /\ \A p \in 0 .. (b - 1) : f[0 + p] \in V /\ f[p] \notin {SP, DOT}
      /\ \A q \in 0 .. (EXT - 1) : f[BASE + q] # SP <=> q < e
      /\ \A q \in 0 .. (e - 1) : f[BASE + q] \in V
      /\ b \in Nat /\ e \in Nat /\ b <= BASE /\ e <= EXT
  BY <1>1, <1>2, <1>3 DEF Padded
<1> DEFINE base == Part(f, 0, BASE)
           ext == Part(f, BASE, EXT)
<1>5. base \in Seq(V) /\ Len(base) = b /\ \A q \in 1 .. b : base[q] = f[0 + q - 1]
  <2>1. PaddedAt(f, 0, BASE, b, V)
    BY <1>1, <1>4 DEF PaddedAt
  <2>. QED  BY <2>1, PartIs
<1>6. ext \in Seq(V) /\ Len(ext) = e /\ \A q \in 1 .. e : ext[q] = f[BASE + q - 1]
  <2>1. PaddedAt(f, BASE, EXT, e, V)
    BY <1>1, <1>4 DEF PaddedAt
  <2>. QED  BY <2>1, PartIs
<1>7. f[BASE] = SP <=> e = 0
  <2>1. 0 \in 0 .. (EXT - 1) /\ BASE + 0 = BASE
    BY <1>1
  <2>. QED  BY <1>4, <2>1
<1> HIDE DEF base, ext
<1>8. PICK s : s = Listed(f)
  OBVIOUS
<1>9. /\ s \in Seq(V) /\ Len(s) = b + (IF e = 0 THEN 0 ELSE 1 + e)
      /\ \A q \in 1 .. b : s[q] = f[q - 1]
      /\ e # 0 => s[b + 1] = DOT
      /\ e # 0 => \A q \in 1 .. e : s[b + 1 + q] = f[BASE + q - 1]
  <2>0. \A q \in 1 .. b : base[q] = f[q - 1]
    BY <1>4, <1>5
  <2>1. CASE e = 0
    <3>1. s = base \o <<>>
      BY <1>7, <1>8, <2>1 DEF Listed, base, ext
    <3>2. s = base
      BY <1>5, <3>1, ConcatEmptySeq
    <3>. QED  BY <1>4, <1>5, <2>0, <2>1, <3>2
  <2>2. CASE e # 0
    <3>1. s = base \o (<<DOT>> \o ext)
      BY <1>7, <1>8, <2>2 DEF Listed, base, ext
    <3>2. PICK d : d = <<DOT>>
      OBVIOUS
    <3>3. d \in Seq(V) /\ Len(d) = 1 /\ d[1] = DOT
      BY <3>2 DEF V
    <3>4. PICK u : u = d \o ext
      OBVIOUS
    <3>5. /\ u \in Seq(V) /\ Len(u) = 1 + e
          /\ \A q \in 1 .. (1 + e) : u[q] = IF q <= 1 THEN d[q] ELSE ext[q - 1]
      <4>1. /\ d \o ext \in Seq(V) /\ Len(d \o ext) = Len(d) + Len(ext)
            /\ \A q \in 1 .. Len(d) + Len(ext) :
                 (d \o ext)[q] = IF q <= Len(d) THEN d[q] ELSE ext[q - Len(d)]
        BY <1>6, <3>3, ConcatProperties
      <4>2. Len(d) = 1 /\ Len(ext) = e
        BY <1>6, <3>3
      <4>. QED  BY <3>4, <4>1, <4>2
    <3>6. u[1] = DOT /\ \A q \in 1 .. e : u[1 + q] = f[BASE + q - 1]
      <4>1. u[1] = DOT
        BY <1>4, <3>3, <3>5
      <4>2. ASSUME NEW q \in 1 .. e PROVE u[1 + q] = f[BASE + q - 1]
        <5>1. 1 + q \in 1 .. (1 + e) /\ ~ (1 + q <= 1) /\ 1 + q - 1 = q
          BY <1>4
        <5>. QED  BY <1>6, <3>5, <5>1
      <4>. QED  BY <4>1, <4>2
    <3>7. /\ s \in Seq(V) /\ Len(s) = b + (1 + e)
          /\ \A q \in 1 .. (b + (1 + e)) : s[q] = IF q <= b THEN base[q] ELSE u[q - b]
      <4>1. /\ base \o u \in Seq(V) /\ Len(base \o u) = Len(base) + Len(u)
            /\ \A q \in 1 .. Len(base) + Len(u) :
                 (base \o u)[q] = IF q <= Len(base) THEN base[q] ELSE u[q - Len(base)]
        BY <1>5, <3>5, ConcatProperties
      <4>2. Len(base) = b /\ Len(u) = 1 + e /\ s = base \o u
        BY <1>5, <3>1, <3>2, <3>4, <3>5
      <4>. QED  BY <4>1, <4>2
    <3>8. ASSUME NEW q \in 1 .. b PROVE s[q] = f[q - 1]
      <4>1. q \in 1 .. (b + (1 + e)) /\ q <= b
        BY <1>4
      <4>. QED  BY <2>0, <3>7, <4>1
    <3>9. ASSUME NEW q \in 1 .. (1 + e) PROVE s[b + q] = u[q]
      <4>1. b + q \in 1 .. (b + (1 + e)) /\ ~ (b + q <= b) /\ b + q - b = q
        BY <1>4
      <4>. QED  BY <3>7, <4>1
    <3>10. s[b + 1] = DOT
      <4>1. 1 \in 1 .. (1 + e)
        BY <1>4
      <4>. QED  BY <3>6, <3>9, <4>1
    <3>11. ASSUME NEW q \in 1 .. e PROVE s[b + 1 + q] = f[BASE + q - 1]
      <4>1. 1 + q \in 1 .. (1 + e) /\ b + (1 + q) = b + 1 + q
        BY <1>4
      <4>. QED  BY <3>6, <3>9, <4>1
    <3>. QED  BY <2>2, <3>7, <3>8, <3>10, <3>11
  <2>. QED  BY <2>1, <2>2
<1>10. Len(s) + 1 <= BASE + EXT + 2
  BY <1>1, <1>4, <1>9
<1>11. First(s, DOT, b + 1)
  <2>1. b + 1 \in 1 .. (Len(s) + 1) /\ (b + 1 <= Len(s) => e # 0)
    BY <1>4, <1>9
  <2>2. ASSUME NEW q \in 1 .. (b + 1 - 1) PROVE s[q] # DOT
    <3>1. q \in 1 .. b /\ q - 1 \in 0 .. (b - 1)
      BY <1>4
    <3>. QED  BY <1>4, <1>9, <3>1
  <2>3. b + 1 <= Len(s) => s[b + 1] = DOT
    BY <1>9, <2>1
  <2>. QED  BY <2>1, <2>2, <2>3 DEF First
<1>12. FatNameOf(s) =
         [p \in Places |->
            IF p < BASE THEN (IF p + 1 < b + 1 THEN Upper(s[p + 1]) ELSE SP)
            ELSE IF b + 1 <= BASE + 1 /\ p - BASE + (b + 1) < Len(s)
                 THEN Upper(s[p - BASE + (b + 1) + 1]) ELSE SP]
  BY <1>9, <1>11, FatNameAt
<1>13. ASSUME NEW p \in Places
       PROVE  FatNameOf(s)[p] = f[p]
  <2>1. p \in Nat /\ p < BASE + EXT
    BY <1>1 DEF Places
  <2>2. CASE p < BASE /\ p < b
    <3>1. p + 1 \in 1 .. b /\ p + 1 - 1 = p /\ p \in 0 .. (BASE - 1) /\ p + 1 < b + 1
      BY <1>1, <1>4, <2>1, <2>2
    <3>2. s[p + 1] = f[p] /\ Upper(f[p]) = f[p]
      BY <1>3, <1>9, <3>1
    <3>. QED  BY <1>12, <2>2, <3>1, <3>2
  <2>3. CASE p < BASE /\ ~ (p < b)
    <3>1. ~ (p + 1 < b + 1) /\ p \in 0 .. (BASE - 1) /\ 0 + p = p
      BY <1>1, <1>4, <2>1, <2>3
    <3>2. f[p] = SP
      BY <1>4, <2>3, <3>1
    <3>. QED  BY <1>12, <2>3, <3>1, <3>2
  <2>4. CASE ~ (p < BASE)
    <3>1. PICK q : q = p - BASE
      OBVIOUS
    <3>2. q \in 0 .. (EXT - 1) /\ BASE + q = p /\ q \in Nat
      BY <1>1, <2>1, <2>4, <3>1
    <3>3. FatNameOf(s)[p] = IF q + (b + 1) < Len(s) THEN Upper(s[q + (b + 1) + 1]) ELSE SP
      BY <1>1, <1>4, <1>12, <2>4, <3>1
    <3>4. CASE q < e
      <4>1. e # 0 /\ q + (b + 1) < Len(s) /\ q + 1 \in 1 .. e /\ b + 1 + (q + 1) = q + (b + 1) + 1
            /\ BASE + (q + 1) - 1 = p
        BY <1>1, <1>4, <1>9, <3>2, <3>4
      <4>2. s[q + (b + 1) + 1] = f[p] /\ Upper(f[p]) = f[p]
        BY <1>3, <1>9, <3>2, <4>1
      <4>. QED  BY <3>3, <4>1, <4>2
    <3>5. CASE ~ (q < e)
      <4>1. ~ (q + (b + 1) < Len(s)) /\ f[p] = SP
        BY <1>4, <1>9, <3>2, <3>5
      <4>. QED  BY <3>3, <4>1
    <3>. QED  BY <3>4, <3>5
  <2>. QED  BY <2>2, <2>3, <2>4
<1>14. FatNameOf(s) = f
  <2>1. FatNameOf(s) = [p \in Places |-> FatNameOf(s)[p]]
    BY DEF FatNameOf
  <2>2. f = [p \in Places |-> f[p]]
    BY DEF FatNames
  <2>. QED  BY <1>13, <2>1, <2>2
<1>. QED  BY <1>8, <1>10, <1>14

(* A name without spaces becomes an entry that is padded behind.           *)
LEMMA PaddedBehind ==
  ASSUME NEW s \in Seq(Chars), \A q \in 1 .. Len(s) : s[q] # SP
  PROVE  WellNamed(FatNameOf(s))
<1>1. BASE \in Nat /\ EXT \in Nat /\ Len(s) \in Nat
  BY FatNameAssumption
<1>2. PICK d \in 1 .. (Len(s) + 1) : First(s, DOT, d)
  BY FirstExists
<1>3. PICK f : f = FatNameOf(s)
  OBVIOUS
<1>4. f = [p \in Places |->
             IF p < BASE THEN (IF p + 1 < d THEN Upper(s[p + 1]) ELSE SP)
             ELSE IF d <= BASE + 1 /\ p - BASE + d < Len(s)
                  THEN Upper(s[p - BASE + d + 1]) ELSE SP]
  BY <1>2, <1>3, FatNameAt
<1> DEFINE b == IF d - 1 <= BASE THEN d - 1 ELSE BASE
           e == IF d <= BASE + 1 /\ d < Len(s)
                THEN (IF Len(s) - d <= EXT THEN Len(s) - d ELSE EXT) ELSE 0
<1>5. b \in 0 .. BASE /\ e \in 0 .. EXT
  BY <1>1
<1>6. ASSUME NEW p \in 0 .. (BASE - 1)
      PROVE  IF p < b THEN f[p] \notin {SP, DOT} ELSE f[p] = SP
  <2>1. p \in Places /\ p < BASE /\ (p < b <=> p + 1 < d)
    BY <1>1 DEF Places
  <2>2. f[p] = IF p + 1 < d THEN Upper(s[p + 1]) ELSE SP
    BY <1>4, <2>1
  <2> HIDE DEF b
  <2>3. CASE p + 1 < d
    <3>1. p + 1 \in 1 .. Len(s) /\ p + 1 \in 1 .. (d - 1)
      BY <1>1, <2>3
    <3>2. s[p + 1] # SP /\ s[p + 1] # DOT
      BY <1>2, <3>1 DEF First
    <3>3. Upper(s[p + 1]) # SP /\ Upper(s[p + 1]) # DOT
      BY <3>2, UpperFacts
    <3>. QED  BY <2>1, <2>2, <2>3, <3>3
  <2>. QED  BY <2>1, <2>2, <2>3
<1>7. ASSUME NEW q \in 0 .. (EXT - 1)
      PROVE  f[BASE + q] # SP <=> q < e
  <2>1. BASE + q \in Places /\ ~ (BASE + q < BASE) /\ BASE + q - BASE = q
    BY <1>1 DEF Places
  <2>2. f[BASE + q] = IF d <= BASE + 1 /\ q + d < Len(s) THEN Upper(s[q + d + 1]) ELSE SP
    <3>1. PICK p : p = BASE + q
      OBVIOUS
    <3>2. p \in Places /\ ~ (p < BASE) /\ p - BASE = q
      BY <1>1, <2>1, <3>1
    <3>3. f[p] = IF d <= BASE + 1 /\ p - BASE + d < Len(s) THEN Upper(s[p - BASE + d + 1]) ELSE SP
      BY <1>4, <3>2
    <3>. QED  BY <3>1, <3>2, <3>3
  <2>3. q < e <=> d <= BASE + 1 /\ q + d < Len(s)
    BY <1>1
  <2> HIDE DEF e
  <2>4. q + d < Len(s) => q + d + 1 \in 1 .. Len(s)
    BY <1>1
  <2>5. \A x \in 1 .. Len(s) : Upper(s[x]) # SP
    BY UpperFacts
  <2>. QED  BY <2>2, <2>3, <2>4, <2>5
<1> HIDE DEF b, e
<1>. QED  BY <1>3, <1>5, <1>6, <1>7 DEF WellNamed, Padded

-----------------------------------------------------------------------------
(* The listing of the files, which are finitely many, named without spaces *)
(* and, when ls is over, listed.                                           *)

Present(F) == {f \in FatNames : F[f] # Absent}
Listable(F) == IsFiniteSet(Present(F)) /\ \A f \in Present(F) : WellNamed(f)
ListInv == Listable(files) /\ ListedFindsFile

(* ListedFindsFile, of values. *)
ListAt(F, s, l, o) ==
  s = "shown" /\ l = <<"ls">> =>
    /\ {FatNameOf(o[m]) : m \in DOMAIN o} = {f \in FatNames : F[f] # Absent}
    /\ \A m \in DOMAIN o : Len(o[m]) + 1 <= BASE + EXT + 2

(* SetToSeq lists a finite set. *)
LEMMA SetToSeqIs ==
  ASSUME NEW S, IsFiniteSet(S)
  PROVE  {SetToSeq(S)[m] : m \in DOMAIN SetToSeq(S)} = S
<1>1. Cardinality(S) \in Nat /\ ExistsBijection(1 .. Cardinality(S), S)
  BY FS_CardinalityType
<1>2. PICK g : g = SetToSeq(S)
  OBVIOUS
<1>3. g \in [1 .. Cardinality(S) -> S] /\ IsInjective(g)
  <2>1. \E h \in [1 .. Cardinality(S) -> S] : IsInjective(h)
    BY <1>1 DEF ExistsBijection, Bijection, Injection
  <2>. QED  BY <1>2, <2>1 DEF SetToSeq
<1>4. g \in Injection(1 .. Cardinality(S), S)
  BY <1>3 DEF Injection
<1>5. IsFiniteSet(1 .. Cardinality(S)) /\ Cardinality(1 .. Cardinality(S)) = Cardinality(S)
  <2>1. Cardinality(1 .. Cardinality(S)) =
          IF 1 > Cardinality(S) THEN 0 ELSE Cardinality(S) - 1 + 1
    BY <1>1, FS_Interval
  <2>. QED  BY <1>1, <2>1, FS_Interval
<1>6. g \in Surjection(1 .. Cardinality(S), S)
  BY <1>4, <1>5, FS_Injection
<1>. QED  BY <1>2, <1>3, <1>6 DEF Surjection

(* ls lists every file under a name that leads back to it. *)
LEMMA ListInvList ==
  ASSUME Listable(files), List
  PROVE  ListedFindsFile'
<1> DEFINE P == Present(files)
           S == {Listed(f) : f \in P}
<1>1. IsFiniteSet(P) /\ \A f \in P : f \in FatNames /\ WellNamed(f)
  BY DEF Listable, Present
<1>2. out' = SetToSeq(S) /\ files' = files
  BY DEF List, Show, Present
<1>3. P = {f \in FatNames : files[f] # Absent}
  BY DEF Present
<1> HIDE DEF P
<1>4. IsFiniteSet(S)
  <2> DEFINE g == [f \in P |-> Listed(f)]
  <2>1. g \in Surjection(P, S)
    <3>1. g \in [P -> S] /\ \A s \in S : \E f \in P : g[f] = s
      OBVIOUS
    <3> HIDE DEF g, S
    <3>. QED  BY <3>1 DEF Surjection
  <2> HIDE DEF g, S
  <2>. QED  BY <1>1, <2>1, FS_Surjection
<1>5. {SetToSeq(S)[m] : m \in DOMAIN SetToSeq(S)} = S
  <2> HIDE DEF S
  <2>. QED  BY <1>4, SetToSeqIs
<1>6. PICK o : o = out'
  OBVIOUS
<1>7. {o[m] : m \in DOMAIN o} = S
  <2> HIDE DEF S
  <2>. QED  BY <1>2, <1>5, <1>6
<1>8. \A f \in P : FatNameOf(Listed(f)) = f /\ Len(Listed(f)) + 1 <= BASE + EXT + 2
  BY <1>1, ListedBack
<1>9. \A m \in DOMAIN o : \E f \in P : o[m] = Listed(f)
  BY <1>7
<1>10. \A f \in P : \E m \in DOMAIN o : o[m] = Listed(f)
  BY <1>7
<1> HIDE DEF S
<1>11. {FatNameOf(o[m]) : m \in DOMAIN o} = P
  <2>1. ASSUME NEW m \in DOMAIN o PROVE FatNameOf(o[m]) \in P
    BY <1>8, <1>9
  <2>2. ASSUME NEW f \in P PROVE \E m \in DOMAIN o : FatNameOf(o[m]) = f
    BY <1>8, <1>10
  <2>. QED  BY <2>1, <2>2
<1>12. \A m \in DOMAIN o : Len(o[m]) + 1 <= BASE + EXT + 2
  BY <1>8, <1>9
<1>13. {FatNameOf(out'[m]) : m \in DOMAIN out'} = {f \in FatNames : files'[f] # Absent}
  BY <1>2, <1>3, <1>6, <1>11
<1>14. \A m \in DOMAIN out' : Len(out'[m]) + 1 <= BASE + EXT + 2
  BY <1>6, <1>12
<1>. QED  BY <1>13, <1>14 DEF ListedFindsFile, FatNameOf, FirstDot

(* rm takes a file away, and write puts one there that is named without    *)
(* spaces: cmd_write has stopped at the first.                             *)
LEMMA ListableNext ==
  ASSUME NEW F, Listable(F), DOMAIN F = FatNames, NEW f \in FatNames, NEW d,
         WellNamed(f) \/ d = Absent
  PROVE  Listable([F EXCEPT ![f] = d])
<1> DEFINE G == [F EXCEPT ![f] = d]
<1>1. \A g \in FatNames : G[g] = IF g = f THEN d ELSE F[g]
  OBVIOUS
<1> HIDE DEF G
<1>2. Present(G) \subseteq Present(F) \cup {f}
  BY <1>1 DEF Present
<1>3. IsFiniteSet(Present(G))
  <2>1. IsFiniteSet(Present(F) \cup {f})
    BY FS_AddElement DEF Listable
  <2>. QED  BY <1>2, <2>1, FS_Subset
<1>4. ASSUME NEW g \in Present(G) PROVE WellNamed(g)
  <2>1. CASE g = f
    <3>1. d # Absent
      BY <1>1, <2>1 DEF Present
    <3>. QED  BY <2>1, <3>1
  <2>2. CASE g # f
    <3>1. g \in Present(F)
      BY <1>1, <2>2 DEF Present
    <3>. QED  BY <3>1 DEF Listable
  <2>. QED  BY <2>1, <2>2
<1>. QED  BY <1>3, <1>4 DEF Listable, G

LEMMA WrittenName ==
  ASSUME ShellInv, step = "name", pc = "done", Says("write")
  PROVE  fat_name \in FatNames /\ WellNamed(fat_name)
<1>1. /\ n \in Nat /\ n <= Len(Args) /\ \A q \in 1 .. n : Args[q] # SP
      /\ input = SubSeq(Args, 1, n) /\ fat_name = FatNameOf(input) /\ fat_name \in FatNames
  BY DEF ShellInv, ParseInv, NameInv, NameAsSpecified
<1>2. Args \in Seq(Chars) /\ Len(Args) \in Nat
  BY ArgsType DEF ShellInv
<1>3. PICK a : a = Args
  OBVIOUS
<1>4. /\ SubSeq(a, 1, n) \in Seq(Chars)
      /\ Len(SubSeq(a, 1, n)) = n
      /\ \A q \in 1 .. n : SubSeq(a, 1, n)[q] = a[q]
  <2>1. \A q \in 1 .. n : a[q] \in Chars
    BY <1>1, <1>2, <1>3
  <2>2. /\ SubSeq(a, 1, n) \in Seq(Chars)
        /\ Len(SubSeq(a, 1, n)) = IF 1 <= n THEN n - 1 + 1 ELSE 0
        /\ \A q \in 1 .. (n - 1 + 1) : SubSeq(a, 1, n)[q] = a[1 + q - 1]
    BY <1>1, <1>2, <1>3, <2>1, SubSeqProperties
  <2>3. /\ (IF 1 <= n THEN n - 1 + 1 ELSE 0) = n /\ n - 1 + 1 = n
        /\ \A q \in 1 .. n : 1 + q - 1 = q
    BY <1>1
  <2>. QED  BY <2>2, <2>3
<1>5. \A q \in 1 .. Len(SubSeq(a, 1, n)) : SubSeq(a, 1, n)[q] # SP
  BY <1>1, <1>3, <1>4
<1>6. WellNamed(FatNameOf(SubSeq(a, 1, n)))
  BY <1>4, <1>5, PaddedBehind
<1>. QED  BY <1>1, <1>3, <1>6

(* Every step keeps the files listable. *)
LEMMA NextListInv ==
  ASSUME ShellInv, ListInv, [Next]_vars
  PROVE  ListInv'
<1>1. ASSUME files' = files, step' # "shown" \/ line' # <<"ls">>
      PROVE  ListInv'
  <2>1. Listable(files')
    BY <1>1 DEF ListInv
  <2>2. ListedFindsFile'
    BY <1>1 DEF ListedFindsFile
  <2>. QED  BY <2>1, <2>2 DEF ListInv
<1>2. \A word : Says(word) => line # <<"ls">>
  <2>1. Len(<<"ls">>) = 1
    OBVIOUS
  <2>. QED  BY <2>1 DEF Says
<1>3. CASE List
  <2>1. ListedFindsFile' /\ files' = files
    BY <1>3, ListInvList DEF ListInv, List, Show
  <2>. QED  BY <2>1 DEF ListInv
<1>4. CASE \/ Prompt \/ (\E l \in Lines : Type(l)) \/ Pagefault \/ CallFs \/ CmdWrite
           \/ ParseChar \/ ParseEnd
  <2>1. files' = files /\ step' # "shown"
    BY <1>4 DEF Prompt, Type, Pagefault, CallFs, CmdWrite, ParseChar, ParseEnd
  <2>. QED  BY <1>1, <2>1
<1>5. CASE Naming
  <2>1. files' = files /\ step' = "name"
    BY <1>5 DEF Naming
  <2>. QED  BY <1>1, <2>1
<1>6. CASE Empty \/ Echo \/ PlainCommand \/ Unknown
  <2>1. line # <<"ls">>
    <3>1. CASE Empty
      <4>1. Len(line) = 0 /\ Len(<<"ls">>) = 1
        BY <3>1 DEF Empty
      <4>. QED  BY <4>1
    <3>2. CASE Echo
      BY <1>2, <3>2 DEF Echo
    <3>3. CASE PlainCommand
      <4>1. \A l \in Plain : l[1] # "ls"
        BY DEF Plain
      <4>2. <<"ls">>[1] = "ls"
        OBVIOUS
      <4>. QED  BY <3>3, <4>1, <4>2 DEF PlainCommand
    <3>4. CASE Unknown
      BY <3>4 DEF Unknown
    <3>. QED  BY <1>6, <3>1, <3>2, <3>3, <3>4
  <2>2. files' = files /\ line' = line
    BY <1>6 DEF Empty, Echo, PlainCommand, Unknown, Show
  <2>. QED  BY <1>1, <2>1, <2>2
<1>7. CASE Cat
  <2>1. files' = files /\ line' = line /\ Says("cat")
    BY <1>7 DEF Cat, Finish
  <2>. QED  BY <1>1, <1>2, <2>1
<1>8. CASE Rm \/ Write \/ WriteFails
  <2>1. /\ step = "name" /\ pc = "done" /\ line' = line
        /\ Says("rm") \/ Says("write")
    BY <1>8 DEF Rm, Write, WriteFails, Finish
  <2>2. \/ files' = [files EXCEPT ![fat_name] = Absent]
        \/ Says("write") /\ files' = [files EXCEPT ![fat_name] = data]
    BY <1>8 DEF Rm, Write, WriteFails, Finish
  <2>3. fat_name \in FatNames /\ DOMAIN files = FatNames /\ Listable(files)
    BY DEF ShellInv, NameInv, FileInv, ListInv
  <2>4. Listable(files')
    <3>1. CASE files' = [files EXCEPT ![fat_name] = Absent]
      BY <2>3, <3>1, ListableNext
    <3>2. CASE Says("write") /\ files' = [files EXCEPT ![fat_name] = data]
      <4>1. WellNamed(fat_name)
        BY <2>1, <3>2, WrittenName
      <4>. QED  BY <2>3, <3>2, <4>1, ListableNext
    <3>. QED  BY <2>2, <3>1, <3>2
  <2>5. ListedFindsFile'
    BY <1>2, <2>1 DEF ListedFindsFile
  <2>. QED  BY <2>4, <2>5 DEF ListInv
<1>9. CASE UNCHANGED vars
  <2>1. UNCHANGED <<files, step, line, out>>
    BY <1>9 DEF vars
  <2>2. PICK F, s, l, o : F = files /\ s = step /\ l = line /\ o = out
    OBVIOUS
  <2>3. files' = F /\ step' = s /\ line' = l /\ out' = o
    BY <2>1, <2>2
  <2>4. ListAt(F, s, l, o)
    BY <2>2 DEF ListInv, ListedFindsFile, ListAt
  <2>5. step' = "shown" /\ line' = <<"ls">> =>
          /\ {FatNameOf(out'[m]) : m \in DOMAIN out'} = {f \in FatNames : files'[f] # Absent}
          /\ \A m \in DOMAIN out' : Len(out'[m]) + 1 <= BASE + EXT + 2
    BY <2>3, <2>4 DEF ListAt
  <2>6. ListedFindsFile'
    BY <2>5 DEF ListedFindsFile, FatNameOf, FirstDot
  <2>. QED  BY <2>1, <2>6 DEF ListInv
<1>. QED  BY <1>3, <1>4, <1>5, <1>6, <1>7, <1>8, <1>9 DEF Next

(* Every file can be named: ls shows names that fit, differ and lead back, *)
(* whatever the sizes of names and whatever has been typed and written.    *)
THEOREM FilesFoundByListing == Spec => []ListedFindsFile
<1>1. Init => ListInv
  <2> SUFFICES ASSUME Init PROVE ListInv
    OBVIOUS
  <2>1. Present(files) = {}
    BY DEF Init, Present
  <2>2. Listable(files)
    BY <2>1, FS_EmptySet DEF Listable
  <2>3. ListedFindsFile
    BY DEF Init, ListedFindsFile
  <2>. QED  BY <2>2, <2>3 DEF ListInv
<1>2. ShellInv /\ ListInv /\ [Next]_vars => ListInv'
  BY NextListInv
<1>3. ListInv => ListedFindsFile
  BY DEF ListInv
<1>. QED  BY <1>1, <1>2, <1>3, ShellInvariance, PTL DEF Spec

=============================================================================
