------------------------------- MODULE Shell --------------------------------
(***************************************************************************)
(* The commands of shell/shell.c on the files of fs/fat16.c: how a typed   *)
(* line is taken apart, which file it reaches by way of to_fat_name, and   *)
(* what the user then sees.  Files are as FileStore has them, which Fat16  *)
(* implements.  A command word is one symbol, the rest of a line one       *)
(* symbol per character.                                                   *)
(*                                                                         *)
(* step: "prompt", "dispatch", "parse" (the loop of cmd_write), "name"     *)
(* (to_fat_name), "shown" (the command is over), "halted"                  *)
(***************************************************************************)
EXTENDS FatName, SequencesExt

CONSTANTS
  Lines,          \* what users type
  NAME_LIMIT,     \* characters that cmd_write takes for the name (31)
  MaxCommands     \* bound on the commands typed

(* filename[32] holds every name that to_fat_name does not cut. *)
ASSUME ShellAssumption ==
  NAME_LIMIT \in Nat /\ NAME_LIMIT >= BASE + 1 + EXT /\ MaxCommands \in Nat

(* A line is one symbol for its first word, and then characters. *)
ASSUME LinesAssumption ==
  \A l \in Lines : l \in Seq(STRING) /\ \A p \in 2 .. Len(l) : l[p] \in Chars

Absent   == <<"absent">>
Unsure   == <<"unsure">>
NotFound == <<"File not found">>

VARIABLES
  step, line, commands,
  n,           \* i of cmd_write
  data,        \* the text that cmd_write stores
  files,       \* FAT name -> contents, or Absent
  out,         \* what the command has printed
  meant        \* history: FAT name -> what the user has stored there

vars == <<nameVars, step, line, commands, n, data, files, out, meant>>

Init ==
  /\ NameInit
  /\ step = "prompt" /\ line = <<>> /\ commands = 0 /\ n = 0 /\ data = <<>>
  /\ files = [f \in FatNames |-> Absent] /\ out = <<>>
  /\ meant = files

(* strncmp(cmd, "<word> ", ...) == 0, and cmd + ... *)
Says(word) == Len(line) >= 2 /\ line[1] = word /\ line[2] = SP
Args == SubSeq(line, 3, Len(line))

(* shell_loop: prompt and keyboard_readline. *)
Prompt ==
  /\ step = "shown" /\ step' = "prompt"
  /\ line' = <<>> /\ out' = <<>> /\ data' = <<>> /\ n' = 0
  /\ NameSet(<<>>, "done") /\ UNCHANGED <<commands, files, meant>>

Type(l) ==
  /\ step = "prompt" /\ commands < MaxCommands
  /\ step' = "dispatch" /\ line' = l /\ commands' = commands + 1
  /\ UNCHANGED <<nameVars, n, data, files, out, meant>>

-----------------------------------------------------------------------------
(* execute_command *)
Show(text) ==
  /\ step = "dispatch" /\ step' = "shown" /\ out' = text
  /\ UNCHANGED <<nameVars, line, commands, n, data, files, meant>>

Empty == line = <<>> /\ Show(<<>>)
Echo  == Says("echo") /\ Show(Args)

(* fat16_list_root's name for every file, in whatever order: out is what   *)
(* it hands to printf.  What printf makes of it, with a "%-13s" that it    *)
(* does not know, is the subject of Console.                               *)
List ==
  /\ line = <<"ls">>
  /\ Show(SetToSeq({Listed(f) : f \in {g \in FatNames : files[g] # Absent}}))

(* The commands that leave the files alone (diskwrite: see Fat16). *)
Plain == {<<"help">>, <<"clear">>, <<"alloc">>, <<"uptime">>, <<"sleep">>,
          <<"diskwrite">>, <<"diskread">>}

PlainCommand == line \in Plain /\ Show(line)

Unknown ==
  /\ line \notin Plain \cup {<<>>, <<"ls">>, <<"pagefault">>}
  /\ ~ \E word \in {"echo", "cat", "write", "rm"} : Says(word)
  /\ Show(<<"Unknown command">> \o line)

(* isr14_handler does not return. *)
Pagefault ==
  /\ step = "dispatch" /\ line = <<"pagefault">> /\ step' = "halted"
  /\ UNCHANGED <<nameVars, line, commands, n, data, files, out, meant>>

(* cmd_cat and cmd_rm give the rest of the line to the file system. *)
CallFs ==
  /\ step = "dispatch" /\ (Says("cat") \/ Says("rm"))
  /\ step' = "name" /\ ToFatName(Args)
  /\ UNCHANGED <<line, commands, n, data, files, out, meant>>

CmdWrite ==
  /\ step = "dispatch" /\ Says("write") /\ step' = "parse"
  /\ UNCHANGED <<nameVars, line, commands, n, data, files, out, meant>>

(* args[i] && args[i] != ' ' && i < 31 *)
InName == n < Len(Args) /\ Args[n + 1] # SP /\ n < NAME_LIMIT

ParseChar ==
  /\ step = "parse" /\ InName /\ n' = n + 1
  /\ UNCHANGED <<nameVars, step, line, commands, data, files, out, meant>>

(* A mutant: the space after the name is kept. *)
Mut_ParseEnd ==
  /\ step = "parse" /\ ~ InName
  /\ data' = SubSeq(Args, n + 1, Len(Args))
  /\ step' = "name" /\ ToFatName(SubSeq(Args, 1, n))
  /\ UNCHANGED <<line, commands, n, files, out, meant>>

ParseEnd ==
  /\ step = "parse" /\ ~ InName
  /\ LET skip == IF n < Len(Args) /\ Args[n + 1] = SP THEN 1 ELSE 0
     IN  data' = SubSeq(Args, n + skip + 1, Len(Args))
  /\ step' = "name" /\ ToFatName(SubSeq(Args, 1, n))
  /\ UNCHANGED <<line, commands, n, files, out, meant>>

Naming ==
  /\ step = "name" /\ NameStep
  /\ UNCHANGED <<step, line, commands, n, data, files, out, meant>>

-----------------------------------------------------------------------------
(* The line as its user reads it: up to the first space the name, after it *)
(* the text.                                                               *)
FirstSpace ==
  CHOOSE s \in 1 .. (Len(Args) + 1) :
    (s <= Len(Args) => Args[s] = SP) /\ \A t \in 1 .. (s - 1) : Args[t] # SP

TypedName == SubSeq(Args, 1, FirstSpace - 1)
TypedText == SubSeq(Args, FirstSpace + 1, Len(Args))

(* Longer names than cmd_write has room for spill into the text. *)
TypedFile == IF Len(TypedName) > NAME_LIMIT THEN Unsure ELSE TypedText

Finish(text, newFiles, newMeant) ==
  /\ step = "name" /\ pc = "done" /\ step' = "shown"
  /\ out' = text /\ files' = newFiles /\ meant' = newMeant
  /\ UNCHANGED <<nameVars, line, commands, n, data>>

Cat ==
  /\ Says("cat")
  /\ Finish(IF files[fat_name] = Absent THEN NotFound ELSE files[fat_name], files, meant)

Rm ==
  /\ Says("rm")
  /\ Finish(IF files[fat_name] = Absent THEN NotFound ELSE <<"Deleted">>,
            [files EXCEPT ![fat_name] = Absent], [meant EXCEPT ![FatNameOf(Args)] = Absent])

Write ==
  /\ Says("write")
  /\ Finish(<<"Wrote">>, [files EXCEPT ![fat_name] = data],
            [meant EXCEPT ![FatNameOf(TypedName)] = TypedFile])

(* No cluster or no slot is left: the old file is gone all the same. *)
WriteFails ==
  /\ Says("write")
  /\ Finish(<<"ERROR">>, [files EXCEPT ![fat_name] = Absent],
            [meant EXCEPT ![FatNameOf(TypedName)] = Absent])

Next ==
  \/ Prompt \/ \E l \in Lines : Type(l)
  \/ Empty \/ Echo \/ List \/ PlainCommand \/ Unknown \/ Pagefault \/ CallFs \/ CmdWrite
  \/ ParseChar \/ ParseEnd \/ Naming
  \/ Cat \/ Rm \/ Write \/ WriteFails

Spec == Init /\ [][Next]_vars

-----------------------------------------------------------------------------
(* cat shows what was last written under a name, and nothing after rm or a *)
(* write that failed: text with several, leading or no spaces, the empty   *)
(* name, and names that become equal when cut to 8.3 included.  Names too  *)
(* long for cmd_write's filename[32] are the exception: their end becomes  *)
(* part of the text.                                                       *)
CatShowsWritten ==
  step = "shown" /\ Says("cat") /\ meant[FatNameOf(Args)] # Unsure =>
    out = IF meant[FatNameOf(Args)] = Absent THEN NotFound ELSE meant[FatNameOf(Args)]

(* Every file can be named: the names that fat16_list_root builds fit into *)
(* its name[13], are all different, and lead cat and rm back to the files. *)
ListedFindsFile ==
  step = "shown" /\ line = <<"ls">> =>
    /\ {FatNameOf(out[m]) : m \in DOMAIN out} = {f \in FatNames : files[f] # Absent}
    /\ \A m \in DOMAIN out : Len(out[m]) + 1 <= BASE + EXT + 2
=============================================================================
