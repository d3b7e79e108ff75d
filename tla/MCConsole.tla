------------------------------ MODULE MCConsole -----------------------------
(* Calls of printf as the kernel and the shell make them, literal text cut *)
(* to one character, and one for each other branch of its switch.          *)
EXTENDS Console

Num(n)  == [word |-> n % WordMod, str |-> <<"junk">>, chr |-> "junk"]
Str(s)  == [word |-> 30, str |-> s, chr |-> "junk"]
Chr(ch) == [word |-> 7, str |-> <<"junk">>, chr |-> ch]
Null    == [word |-> 0, str |-> <<"junk">>, chr |-> "junk"]

Lit(ch)      == [conv |-> "literal", chr |-> ch, width |-> 0]
Conv(c, arg) == [conv |-> c, flags |-> <<>>, width |-> 0, arg |-> arg]

ShellCalls ==
  {<<Conv("s", Str(s)), Lit(NL)>> : s \in {<<>>, <<"a", TAB, "b">>, <<"a", "b", CR, "c">>}}
  \cup {<<Lit("a"), Conv("u", Num(n)), Lit(NL)>> : n \in {0, 9, 10, 31}}
  \cup {<<Conv("d", Num(n)), Conv("s", Str(<<"a">>))>> : n \in {0, 12, -7, -15, -16}}
  \cup {<<Conv("u", Num(20)), Lit(SP), Conv("s", Str(<<"b">>)), Lit(NL)>>,
        <<Conv("x", Num(26)), Conv("%", Null), Conv("c", Chr("a"))>>,
        <<Conv("s", Null), Conv("q", Null), Conv("X", Num(15)), Conv("i", Num(3))>>}

ASSUME ShellCallsHandled == \A c \in ShellCalls : HandledCall(c)

(* fat16_list_root: printf("  %-13s %u bytes\n", name, file_size), with a  *)
(* field of 3 columns.                                                     *)
ListCalls ==
  {<<Lit(SP), [conv |-> "s", flags |-> <<"-", "3">>, width |-> 3, arg |-> Str(<<"A">>)],
     Lit(SP), Conv("u", Num(9)), Lit(NL)>>}
=============================================================================
