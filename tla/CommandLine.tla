---------------------------- MODULE CommandLine -----------------------------
(***************************************************************************)
(* The argument loop of main (MSA.C) and what it settles before the first  *)
(* pass: the output format, the origin and entry point that go with it,    *)
(* the names of the files and the constants predefined; and done, which    *)
(* removes the output file of a run that failed.                           *)
(***************************************************************************)
EXTENDS Expressions

CONSTANT CommandLines  (* the argument lists tried, the program's name left out *)

(* An argument: an option's letter and what is attached to it, or plain    *)
(* text, never empty.  number is what a reader takes the text for, hex     *)
(* that it is written 0x; assigned that NAME=VALUE has its sign.           *)
Letters  == {"F", "O", "S", "M", "D", "other"}
Argument == [letter : Letters \cup {"plain"}, text : STRING, number : Nat, hex : BOOLEAN,
             assigned : BOOLEAN]
ASSUME CommandLinesAssumption ==
  /\ CommandLines \subseteq Seq(Argument)
  /\ \A l \in CommandLines : \A i \in DOMAIN l : l[i].letter = "plain" => l[i].text # ""

Formats == {"bin", "com", "texe", "rdf"}

VARIABLES
  argv,      (* the arguments                                               *)
  arg,       (* the one being looked at: i                                  *)
  inputname, (* the source file, "" for none                                *)
  outname,   (* the output file, "" for none                                *)
  target,    (* the output format                                           *)
  org,       (* org, kept from one pass to the next                         *)
  isOrgDef,  (* is_org_def: ORG may not change it                           *)
  entry,     (* entry_point and entry_point_def                             *)
  consts,    (* constants                                                   *)
  pc,        (* where main or assemble is                                   *)
  exit,      (* the exit code, -1 while running                             *)
  file       (* what this run has done to the output file                   *)

options == <<inputname, outname, target, org, isOrgDef, entry, consts>>
cmdline == <<argv, arg, options, pc, exit, file>>
-----------------------------------------------------------------------------
This     == argv[arg]
IsOption == This.letter # "plain"
HasNext  == arg < Len(argv)
NextArg  == argv[arg + 1]
Option(letter) ==  (* one with a value after it *)
  pc = "args" /\ arg <= Len(argv) /\ This.letter = letter /\ HasNext
Skip(n) == arg' = arg + n /\ UNCHANGED <<argv, pc, exit, file>>

(* done(1), from help or for want of an output file.                       *)
GiveUp ==
  /\ exit' = 1 /\ pc' = "exit" /\ file' = IF outname = "" THEN file ELSE "removed"
  /\ UNCHANGED <<argv, arg, options>>

(* -f: a format that has an origin of its own sets it at once, for good:   *)
(* a later bin leaves the origin and is_org_def as they are.               *)
TakeFormat ==
  /\ Option("F") /\ NextArg.text \in Formats
  /\ target' = NextArg.text
  /\ LET start == IF target' = "com" THEN 256 ELSE 0
     IN /\ org'   = IF target' = "bin" THEN org ELSE start
        /\ entry' = IF target' = "bin" THEN entry ELSE [value |-> start, def |-> target' = "com"]
  /\ isOrgDef' = (isOrgDef \/ target' # "bin")
  /\ Skip(2) /\ UNCHANGED <<inputname, outname, consts>>
UnknownFormat == Option("F") /\ NextArg.text \notin Formats /\ GiveUp

SetOutput ==
  /\ Option("O") /\ outname' = NextArg.text
  /\ Skip(2) /\ UNCHANGED <<inputname, target, org, isOrgDef, entry, consts>>
(* get_const knows no 0x, only 0X, and arguments are not put in capitals:  *)
(* it reads the 0 and then a name that is not there.                       *)
NumberRead(a) == IF a.letter = "plain" /\ ~a.hex THEN a.number ELSE 0
SetOrigin ==
  /\ Option("S") /\ org' = NumberRead(NextArg) % Word
  /\ Skip(2) /\ UNCHANGED <<inputname, outname, target, isOrgDef, entry, consts>>
SetLevel ==  (* quiet, which only says what is printed *)
  /\ Option("M")
  /\ Skip(2) /\ UNCHANGED options

(* -dNAME=VALUE, the last argument or none: get_const is given the = too,  *)
(* and reads 0.                                                            *)
Predefine ==
  /\ pc = "args" /\ arg = Len(argv) /\ This.letter = "D" /\ This.assigned
  /\ consts' = AddConst(consts, [inv |-> 0, path |-> <<This.text>>], "EXPR", 0)
  /\ Skip(1) /\ UNCHANGED <<inputname, outname, target, org, isOrgDef, entry>>
(* Anything else with a - or / in front.                                   *)
BadOption ==
  /\ pc = "args" /\ arg <= Len(argv) /\ IsOption
  /\ IF HasNext THEN This.letter \in {"D", "other"} ELSE This.letter # "D" \/ ~This.assigned
  /\ GiveUp

TakeInput ==
  /\ pc = "args" /\ arg <= Len(argv) /\ ~IsOption /\ inputname = ""
  /\ inputname' = This.text
  /\ Skip(1) /\ UNCHANGED <<outname, target, org, isOrgDef, entry, consts>>
SecondInput ==
  /\ pc = "args" /\ arg <= Len(argv) /\ ~IsOption /\ inputname # "" /\ GiveUp

NoOutput == pc = "args" /\ arg > Len(argv) /\ outname = "" /\ GiveUp

(* Defect: the origin -s gave is kept for every format.                    *)
SettleKeepsOrigin ==
  /\ pc = "args" /\ arg > Len(argv) /\ outname # ""
  /\ target' = IF target = "undef" THEN "com" ELSE target
  /\ isOrgDef' = (isOrgDef \/ target = "undef")
  /\ UNCHANGED org
  /\ entry'  = IF target = "undef" THEN [value |-> 256, def |-> TRUE] ELSE entry
  /\ consts' = AddConst(AddConst(consts, Dollar, "EXPR", entry'.value), Origin, "EXPR", org')
  /\ pc' = "main" /\ UNCHANGED <<argv, arg, inputname, outname, exit, file>>

(* No format is com; every format but bin has its origin again.  $ is      *)
(* outptr, which only a format has set, to what entry_point is set to.     *)
Settle ==
  /\ pc = "args" /\ arg > Len(argv) /\ outname # ""
  /\ target' = IF target = "undef" THEN "com" ELSE target
  /\ isOrgDef' = (isOrgDef \/ target = "undef")
  /\ org'    = CASE target' = "com" -> 256 [] target' \in {"texe", "rdf"} -> 0
                 [] target' = "bin" -> org
  /\ entry'  = IF target = "undef" THEN [value |-> 256, def |-> TRUE] ELSE entry
  /\ consts' = AddConst(AddConst(consts, Dollar, "EXPR", entry'.value), Origin, "EXPR", org')
  /\ pc' = "main" /\ UNCHANGED <<argv, arg, inputname, outname, exit, file>>

ArgumentsInit ==
  /\ argv \in CommandLines /\ arg = 1
  /\ inputname = "" /\ outname = "" /\ target = "undef" /\ org = 0
  /\ isOrgDef = FALSE
  /\ entry = [value |-> 0, def |-> FALSE] /\ consts = EmptyTable
  /\ pc = "args" /\ exit = -1 /\ file = "untouched"
ArgumentStep ==
  \/ TakeFormat \/ UnknownFormat \/ SetOutput \/ SetOrigin \/ SetLevel \/ Predefine
  \/ BadOption \/ TakeInput \/ SecondInput \/ NoOutput \/ Settle
-----------------------------------------------------------------------------
(* What the arguments say, read without the loop: each option's value is   *)
(* the argument after it, and of several the last one counts.              *)

Indices(letter) == {i \in 1..Len(argv) - 1 : argv[i].letter = letter}
Given(letter)   == argv[Max(Indices(letter)) + 1]
ValueOf(i)      == i > 1 /\ argv[i - 1].letter \in {"F", "O", "S", "M"}
Operands        == {i \in DOMAIN argv : argv[i].letter = "plain" /\ ~ValueOf(i)}
(* No option stands where another one's value is expected.                 *)
Tidy == \A i \in DOMAIN argv : ValueOf(i) => argv[i].letter = "plain"
FormatGiven == IF Indices("F") = {} THEN "com" ELSE Given("F").text
OneFormat   == \A i \in Indices("F") : argv[i + 1].text = FormatGiven

(* A .com file starts at 256, an .exe and an object at 0, a flat file      *)
(* where the last -s says, if it is written as get_const reads a number.   *)
StartsAt ==
  CASE FormatGiven = "com" -> 256
    [] FormatGiven \in {"texe", "rdf"} -> 0
    [] FormatGiven = "bin" -> IF Indices("S") = {} THEN 0 ELSE Given("S").number % Word
StartWritten == FormatGiven = "bin" /\ Indices("S") # {} => ~Given("S").hex

(* The passes start from what the last option of each kind says, a flat    *)
(* file's origin and entry point if no other format was asked for before;  *)
(* $$ says so too; and ORG may move the program only if no format but bin  *)
(* was ever asked for, which the last -f alone does not tell               *)
(* (MSA.C:220-321).                                                        *)
SetUp ==
  /\ target' = FormatGiven /\ outname' = Given("O").text
  /\ {inputname'} = IF Operands = {} THEN {""} ELSE {argv[i].text : i \in Operands}
  /\ OneFormat \/ FormatGiven # "bin" =>
       /\ StartWritten => org' = StartsAt
       /\ entry' = IF FormatGiven = "com" THEN [value |-> 256, def |-> TRUE]
                   ELSE [value |-> 0, def |-> FALSE]
  /\ isOrgDef' = (FormatGiven # "bin" \/ ~OneFormat)
  /\ consts'[Origin].value = org'
OptionsSettle == [][pc = "args" /\ pc' = "main" /\ Tidy => SetUp]_cmdline

(* DOC.TXT:101 and 136: -s 0x7c00 starts a flat file at 0x7c00, and        *)
(* -dVSEG=0xA000 predefines the constant VSEG with that value.             *)
NumbersTaken ==
  /\ FormatGiven = "bin" /\ Indices("S") # {} => org' = Given("S").number
  /\ \A i \in DOMAIN argv :
       argv[i].letter = "D" => consts'[[inv |-> 0, path |-> <<argv[i].text>>]].value = argv[i].number
OptionsAsWritten == [][pc = "args" /\ pc' = "main" /\ Tidy => NumbersTaken]_cmdline
=============================================================================
