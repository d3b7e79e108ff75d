------------------------------ MODULE MCShell -------------------------------
(* Command lines: arguments of cat, write and rm with spaces anywhere, up  *)
(* to a length, longer ones without, and one line for each other way       *)
(* through execute_command.                                                *)
EXTENDS Shell

ArgsUpTo(spaced, longest) ==
  UNION {[1 .. m -> Chars] : m \in 0 .. spaced}
  \cup UNION {[1 .. m -> Chars \ {SP}] : m \in 0 .. longest}

MCLines ==
  {<<>>, <<"ls">>, <<"ls", "a">>, <<"diskwrite">>, <<"pagefault">>, <<"cat">>, <<"echo", SP, "a">>}
  \cup {<<"write", SP>> \o args : args \in ArgsUpTo(3, 5)}
  \cup {<<word, SP>> \o args : word \in {"cat", "rm"}, args \in ArgsUpTo(2, 4)}
=============================================================================
