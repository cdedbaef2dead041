-------------------------- MODULE Assembler_proofs --------------------------
(***************************************************************************)
(* Proofs about a run of the assembler, for all programs and command lines *)
(* and whatever the expressions are worth.                                 *)
(*                                                                         *)
(* Types: every variable keeps its type, the pointers, the origin and the  *)
(* entry point their 16 bits, and the table of constants is one.  The      *)
(* inductive invariant says more of the table: no import ever has the id   *)
(* of a section.                                                           *)
(*                                                                         *)
(* Places: a run leaves a file behind only if it came to its end and       *)
(* complained of nothing, and starts its passes from what its command line *)
(* says; what a pass hands to the next, and to the object, is whole.       *)
(***************************************************************************)
EXTENDS Assembler, SymbolTable_proofs, Opcodes_proofs

(* Whatever the command line, the passes start from what the last option   *)
(* of each kind says: the invariant of the loop over the arguments is the  *)
(* same statement about the arguments passed so far.                       *)
Settings == {"F", "O", "S", "M"}  (* the options that have a value *)

(* The options and operands already looked at.                             *)
Passed(letter) == {i \in Indices(letter) : i < arg}
Latest(letter) == argv[Max(Passed(letter)) + 1]
OperandsPassed == {i \in Operands : i < arg}

FormatSoFar ==
  IF Passed("F") = {} THEN target = "undef"
  ELSE target = Latest("F").text /\ target \in Formats
OutputSoFar == outname = IF Passed("O") = {} THEN "" ELSE Latest("O").text
InputSoFar  ==
  {inputname} = IF OperandsPassed = {} THEN {""} ELSE {argv[i].text : i \in OperandsPassed}
StartSoFar ==
  /\ target = "com" => entry = [value |-> 256, def |-> TRUE]
  /\ target \in {"texe", "rdf"} => entry = [value |-> 0, def |-> FALSE]
  /\ (\A i \in Passed("F") : argv[i + 1].text = "bin") =>
       /\ entry = [value |-> 0, def |-> FALSE]
       /\ org = IF Passed("S") = {} THEN 0 ELSE NumberRead(Latest("S")) % Word
FixedSoFar == isOrgDef <=> \E i \in Passed("F") : argv[i + 1].text # "bin"
(* Formats are told from "undef", the origin follows -s while every format *)
(* is bin, another one fixes it for good, and the loop never stands on     *)
(* another option's value.                                                 *)
LoopInv ==
  /\ argv \in CommandLines /\ arg \in Nat \ {0} /\ IsTable(consts)
  /\ Tidy => ~ValueOf(arg) /\ FormatSoFar /\ OutputSoFar /\ InputSoFar /\ StartSoFar /\ FixedSoFar
ArgumentsInv == pc = "args" => LoopInv

-----------------------------------------------------------------------------
LEMMA ArgumentTypes ==
  ASSUME argv \in CommandLines
  PROVE  /\ argv \in Seq(Argument) /\ Len(argv) \in Nat /\ DOMAIN argv = 1..Len(argv)
         /\ \A i \in 1..Len(argv) : /\ argv[i] \in Argument
                                    /\ argv[i].letter = "plain" => argv[i].text # ""
  <1>1. argv \in Seq(Argument)
    BY CommandLinesAssumption DEF CommandLinesAssumption
  <1>2. Len(argv) \in Nat /\ DOMAIN argv = 1..Len(argv)
    BY <1>1
  <1>3. \A i \in 1..Len(argv) : argv[i] \in Argument
    BY <1>1
  <1>4. \A i \in DOMAIN argv : argv[i].letter = "plain" => argv[i].text # ""
    BY CommandLinesAssumption DEF CommandLinesAssumption
  <1>5. QED
    BY <1>1, <1>2, <1>3, <1>4

(* Past an option and its value.                                           *)
LEMMA PastOption ==
  ASSUME argv \in CommandLines, arg \in Nat \ {0}, Tidy, ~ValueOf(arg),
         NEW L \in Settings, Option(L), Skip(2)
  PROVE  /\ ~ValueOf(arg)'
         /\ \A l \in Settings : l # L => Passed(l)' = Passed(l)
         /\ Passed(L)' = Passed(L) \cup {arg} /\ Latest(L)' = NextArg
         /\ OperandsPassed' = OperandsPassed
  <1> USE DEF Settings
  <1>n. /\ Len(argv) \in Nat /\ DOMAIN argv = 1..Len(argv)
        /\ arg \in Nat /\ arg >= 1
    <2>1. Len(argv) \in Nat /\ DOMAIN argv = 1..Len(argv)
      BY ArgumentTypes, Zenon
    <2>2. QED
      BY <2>1
  <1>0. /\ arg < Len(argv) /\ argv[arg].letter = L /\ argv' = argv /\ arg' = arg + 2
    BY DEF Option, This, HasNext, Skip
  <1>1. /\ arg \in 1..Len(argv) - 1 /\ argv[arg].letter = L /\ argv' = argv /\ arg' = arg + 2
        /\ arg + 1 \in DOMAIN argv /\ arg \in DOMAIN argv
    BY <1>n, <1>0
  <1>2. ValueOf(arg + 1) /\ argv[arg + 1].letter = "plain"
    <2>1. (arg + 1) - 1 = arg /\ arg + 1 > 1
      BY <1>n
    <2>2. ValueOf(arg + 1)
      BY <1>1, <2>1 DEF ValueOf
    <2>3. QED
      BY <1>1, <2>2 DEF Tidy
  <1>3. ~ValueOf(arg)'
    BY <1>n, <1>1, <1>2 DEF ValueOf
  <1>4. \A l \in Settings : Passed(l)' = Passed(l) \cup (IF l = L THEN {arg} ELSE {})
    BY <1>n, <1>1, <1>2 DEF Passed, Indices
  <1>5. Max(Passed(L)') = arg
    <2>1. Passed(L)' \in SUBSET Int /\ arg \in Passed(L)' /\ \A x \in Passed(L)' : x <= arg
      BY <1>4 DEF Passed, Indices
    <2>2. QED
      BY <2>1, MaxIs
  <1>6. Latest(L)' = NextArg
    BY <1>1, <1>5 DEF Latest, NextArg
  <1>7. OperandsPassed' = OperandsPassed
    BY <1>n, <1>1, <1>2 DEF OperandsPassed, Operands, ValueOf
  <1>8. QED
    BY <1>3, <1>4, <1>6, <1>7

(* Past an argument that stands alone.                                     *)
LEMMA PastOther ==
  ASSUME argv \in CommandLines, arg \in Nat \ {0}, ~ValueOf(arg), arg <= Len(argv),
         This.letter \notin Settings, Skip(1)
  PROVE  /\ ~ValueOf(arg)'
         /\ \A l \in Settings : Passed(l)' = Passed(l)
         /\ OperandsPassed' = OperandsPassed \cup (IF IsOption THEN {} ELSE {arg})
  <1> USE DEF Settings
  <1>n. /\ Len(argv) \in Nat /\ DOMAIN argv = 1..Len(argv)
        /\ arg \in Nat /\ arg >= 1
    <2>1. Len(argv) \in Nat /\ DOMAIN argv = 1..Len(argv)
      BY ArgumentTypes, Zenon
    <2>2. QED
      BY <2>1
  <1>1. /\ arg \in 1..Len(argv) /\ argv[arg].letter \notin Settings /\ argv' = argv
        /\ arg' = arg + 1 /\ arg \in DOMAIN argv
    BY <1>n DEF This, Skip
  <1>2. ~ValueOf(arg)'
    BY <1>n, <1>1 DEF ValueOf
  <1>3. \A l \in Settings : Passed(l)' = Passed(l)
    BY <1>n, <1>1 DEF Passed, Indices
  <1>4. OperandsPassed' = OperandsPassed \cup (IF IsOption THEN {} ELSE {arg})
    BY <1>n, <1>1 DEF OperandsPassed, Operands, ValueOf, IsOption, This
  <1>5. QED
    BY <1>2, <1>3, <1>4

-----------------------------------------------------------------------------
LEMMA ArgumentsStart == ArgumentsInit => ArgumentsInv
  <1> SUFFICES ASSUME ArgumentsInit PROVE LoopInv
    BY DEF ArgumentsInv
  <1>1. argv \in CommandLines /\ arg = 1 /\ IsTable(consts) /\ ~ValueOf(arg)
    <2>1. argv \in CommandLines /\ arg = 1 /\ consts = EmptyTable
      BY DEF ArgumentsInit
    <2>2. ~(arg > 1)
      BY <2>1
    <2>3. QED
      BY <2>1, <2>2, EmptyTableType, Zenon DEF ValueOf
  <1>2. Passed("F") = {} /\ Passed("O") = {} /\ Passed("S") = {}
    BY <1>1 DEF Passed, Indices
  <1>3. OperandsPassed = {}
    <2>1. DOMAIN argv = 1..Len(argv)
      BY <1>1, ArgumentTypes, Zenon
    <2>2. QED
      BY <1>1, <2>1 DEF OperandsPassed, Operands
  <1>4. target = "undef" /\ outname = "" /\ inputname = "" /\ org = 0
        /\ entry = [value |-> 0, def |-> FALSE] /\ isOrgDef = FALSE
    BY DEF ArgumentsInit
  <1>5. FormatSoFar /\ OutputSoFar
    BY <1>2, <1>4 DEF FormatSoFar, OutputSoFar
  <1>6. InputSoFar
    BY <1>3, <1>4 DEF InputSoFar
  <1>7. StartSoFar
    BY <1>2, <1>4 DEF StartSoFar
  <1>8. FixedSoFar
    BY <1>2, <1>4 DEF FixedSoFar
  <1>9. QED
    BY <1>1, <1>5, <1>6, <1>7, <1>8 DEF LoopInv

(* An option is taken with its value.                                      *)
LEMMA OptionStep ==
  ASSUME LoopInv, TakeFormat \/ SetOutput \/ SetOrigin \/ SetLevel
  PROVE  LoopInv'
  <1>1. PICK L \in Settings : L = This.letter /\ Option(L) /\ Skip(2)
    BY DEF TakeFormat, SetOutput, SetOrigin, SetLevel, Option, Settings
  <1>2. argv \in CommandLines /\ arg \in Nat \ {0} /\ IsTable(consts)
    BY DEF LoopInv
  <1>3. argv' = argv /\ arg' \in Nat \ {0} /\ consts' = consts
    BY <1>1, <1>2 DEF Skip, TakeFormat, SetOutput, SetOrigin, SetLevel, options
  <1>4. argv' \in CommandLines /\ arg' \in Nat \ {0} /\ IsTable(consts')
    BY <1>2, <1>3
  <1>5. SUFFICES ASSUME Tidy
                 PROVE  (~ValueOf(arg) /\ FormatSoFar /\ OutputSoFar /\ InputSoFar /\ StartSoFar
                         /\ FixedSoFar)'
    <2>1. Tidy' = Tidy
      BY <1>3 DEF Tidy, ValueOf
    <2>2. QED
      BY <1>4, <2>1, Zenon DEF LoopInv
  <1>6. ~ValueOf(arg) /\ FormatSoFar /\ OutputSoFar /\ InputSoFar /\ StartSoFar /\ FixedSoFar
    BY <1>5 DEF LoopInv
  <1>7. /\ ~ValueOf(arg)'
        /\ \A l \in Settings : l # L => Passed(l)' = Passed(l)
        /\ Passed(L)' = Passed(L) \cup {arg} /\ Latest(L)' = NextArg
        /\ OperandsPassed' = OperandsPassed
    BY <1>1, <1>2, <1>5, <1>6, PastOption, Zenon
  <1>8. \A l \in Settings : l # L => Passed(l)' = Passed(l) /\ Latest(l)' = Latest(l)
    BY <1>3, <1>7 DEF Latest
  <1>9. (Passed(L) \cup {arg}) # {} /\ arg \in Passed(L)'
    BY <1>7
  <1>10. InputSoFar'
    <2>1. inputname' = inputname
      BY DEF TakeFormat, SetOutput, SetOrigin, SetLevel, options
    <2>2. QED
      BY <1>3, <1>6, <1>7, <2>1 DEF InputSoFar
  <1>11. CASE TakeFormat
    <2>1. /\ L = "F" /\ NextArg.text \in Formats /\ target' = NextArg.text
          /\ outname' = outname
          /\ target' = "com" => org' = 256 /\ entry' = [value |-> 256, def |-> TRUE]
          /\ target' \in {"texe", "rdf"} => org' = 0 /\ entry' = [value |-> 0, def |-> FALSE]
          /\ target' = "bin" => org' = org /\ entry' = entry
      BY <1>1, <1>11 DEF TakeFormat, Option, Formats
    <2>2. FormatSoFar'
      BY <1>7, <1>9, <2>1 DEF FormatSoFar
    <2>3. OutputSoFar'
      BY <1>6, <1>8, <2>1 DEF OutputSoFar, Settings
    <2>4. (\A i \in Passed("F")' : argv'[i + 1].text = "bin")
            => target' = "bin" /\ \A i \in Passed("F") : argv[i + 1].text = "bin"
      BY <1>3, <1>7, <1>9, <2>1 DEF NextArg
    <2>5. StartSoFar'
      BY <1>6, <1>8, <2>1, <2>4 DEF StartSoFar, Settings
    <2>6. FixedSoFar'
      <3>1. isOrgDef' <=> (isOrgDef \/ NextArg.text # "bin")
        BY <1>11, <2>1 DEF TakeFormat
      <3>2. \A i : i \in Passed("F")' <=> i \in Passed("F") \/ i = arg
        BY <1>7, <2>1
      <3>3. argv'[arg + 1].text = NextArg.text
        BY <1>3 DEF NextArg
      <3>4. QED
        BY <1>3, <1>6, <3>1, <3>2, <3>3 DEF FixedSoFar
    <2>7. QED
      BY <1>7, <1>10, <2>2, <2>3, <2>5, <2>6
  <1>f. ASSUME L # "F", isOrgDef' = isOrgDef PROVE FixedSoFar'
    BY <1>3, <1>6, <1>8, <1>f DEF FixedSoFar, Settings
  <1>12. CASE SetOutput
    <2>1. L = "O" /\ outname' = NextArg.text /\ UNCHANGED <<target, org, isOrgDef, entry>>
      BY <1>1, <1>12 DEF SetOutput, Option
    <2>2. FormatSoFar'
      BY <1>6, <1>8, <2>1 DEF FormatSoFar, Settings
    <2>3. OutputSoFar'
      BY <1>7, <1>9, <2>1 DEF OutputSoFar
    <2>4. StartSoFar'
      BY <1>3, <1>6, <1>8, <2>1 DEF StartSoFar, Settings
    <2>5. QED
      BY <1>7, <1>10, <1>f, <2>1, <2>2, <2>3, <2>4
  <1>13. CASE SetOrigin
    <2>1. L = "S" /\ org' = NumberRead(NextArg) % Word /\ UNCHANGED <<target, outname, isOrgDef, entry>>
      BY <1>1, <1>13 DEF SetOrigin, Option
    <2>2. FormatSoFar'
      BY <1>6, <1>8, <2>1 DEF FormatSoFar, Settings
    <2>3. OutputSoFar'
      BY <1>6, <1>8, <2>1 DEF OutputSoFar, Settings
    <2>4. StartSoFar'
      BY <1>3, <1>6, <1>7, <1>8, <1>9, <2>1 DEF StartSoFar, Settings
    <2>5. QED
      BY <1>7, <1>10, <1>f, <2>1, <2>2, <2>3, <2>4
  <1>14. CASE SetLevel
    <2>1. L = "M" /\ UNCHANGED <<target, outname, org, isOrgDef, entry>>
      BY <1>1, <1>14 DEF SetLevel, Option, options
    <2>2. FormatSoFar' /\ OutputSoFar'
      BY <1>6, <1>8, <2>1 DEF FormatSoFar, OutputSoFar, Settings
    <2>3. StartSoFar'
      BY <1>3, <1>6, <1>8, <2>1 DEF StartSoFar, Settings
    <2>4. QED
      BY <1>7, <1>10, <1>f, <2>1, <2>2, <2>3
  <1>15. QED
    BY <1>11, <1>12, <1>13, <1>14

(* A constant is predefined or the source named.                           *)
LEMMA OtherStep ==
  ASSUME LoopInv, Predefine \/ TakeInput
  PROVE  LoopInv'
  <1>1. /\ pc = "args" /\ arg <= Len(argv) /\ This.letter \notin Settings /\ Skip(1)
        /\ UNCHANGED <<outname, target, org, isOrgDef, entry, argv>>
    <2>1. CASE Predefine
      <3>1. Len(argv) \in Nat
        BY ArgumentTypes, Zenon DEF LoopInv
      <3>2. QED
        BY <2>1, <3>1 DEF Predefine, Skip, Settings
    <2>2. CASE TakeInput
      BY <2>2 DEF TakeInput, Skip, Settings, IsOption
    <2>3. QED
      BY <2>1, <2>2
  <1>2. argv \in CommandLines /\ arg \in Nat \ {0} /\ IsTable(consts)
    BY DEF LoopInv
  <1>3. arg \in 1..Len(argv) /\ This \in Argument /\ (~IsOption => This.text # "")
    <2>1. Len(argv) \in Nat
      BY <1>2, ArgumentTypes, Zenon
    <2>2. arg \in 1..Len(argv)
      BY <1>1, <1>2, <2>1
    <2>3. QED
      BY <1>2, <2>2, ArgumentTypes, Zenon DEF This, IsOption
  <1>4. IsTable(consts')
    <2>1. CASE Predefine
      <3>1. This.text \in STRING
        BY <1>3 DEF Argument
      <3>2. [inv |-> 0, path |-> <<This.text>>] \in Name
        BY <3>1 DEF Name
      <3>3. 0 \in Int /\ "EXPR" \in ConstTypes
        BY DEF ConstTypes
      <3>4. consts' = AddConst(consts, [inv |-> 0, path |-> <<This.text>>], "EXPR", 0)
        BY <2>1 DEF Predefine
      <3>5. QED
        BY <1>2, <3>2, <3>3, <3>4, AddConstTable
    <2>2. CASE TakeInput
      BY <1>2, <2>2 DEF TakeInput
    <2>3. QED
      BY <2>1, <2>2
  <1>5. argv' \in CommandLines /\ arg' \in Nat \ {0} /\ IsTable(consts')
    BY <1>1, <1>2, <1>4 DEF Skip
  <1>6. SUFFICES ASSUME Tidy
                 PROVE  (~ValueOf(arg) /\ FormatSoFar /\ OutputSoFar /\ InputSoFar /\ StartSoFar
                         /\ FixedSoFar)'
    <2>1. Tidy' = Tidy
      BY <1>1 DEF Tidy, ValueOf
    <2>2. QED
      BY <1>5, <2>1, Zenon DEF LoopInv
  <1>7. ~ValueOf(arg) /\ FormatSoFar /\ OutputSoFar /\ InputSoFar /\ StartSoFar /\ FixedSoFar
    BY <1>6 DEF LoopInv
  <1>8. /\ ~ValueOf(arg)'
        /\ \A l \in Settings : Passed(l)' = Passed(l)
        /\ OperandsPassed' = OperandsPassed \cup (IF IsOption THEN {} ELSE {arg})
    BY <1>1, <1>2, <1>7, PastOther, Zenon
  <1>9. \A l \in Settings : Passed(l)' = Passed(l) /\ Latest(l)' = Latest(l)
    BY <1>1, <1>8 DEF Latest
  <1>10. FormatSoFar' /\ OutputSoFar'
    BY <1>1, <1>7, <1>9 DEF FormatSoFar, OutputSoFar, Settings
  <1>11. StartSoFar'
    BY <1>1, <1>7, <1>9 DEF StartSoFar, Settings
  <1>12. InputSoFar'
    <2>1. CASE Predefine
      <3>1. OperandsPassed' = OperandsPassed /\ inputname' = inputname
        BY <1>8, <2>1 DEF Predefine, IsOption
      <3>2. QED
        BY <1>1, <1>7, <3>1 DEF InputSoFar
    <2>2. CASE TakeInput
      <3>1. ~IsOption /\ inputname = "" /\ inputname' = argv[arg].text
        BY <2>2 DEF TakeInput, This
      <3>2. OperandsPassed = {}
        <4>1. ASSUME NEW i \in OperandsPassed PROVE FALSE
          <5>1. i \in DOMAIN argv /\ argv[i].letter = "plain"
            BY <4>1 DEF OperandsPassed, Operands
          <5>2. argv[i].text # ""
            BY <1>2, <5>1, CommandLinesAssumption DEF CommandLinesAssumption
          <5>3. argv[i].text \in {inputname}
            BY <1>7, <4>1 DEF InputSoFar
          <5>4. QED
            BY <3>1, <5>2, <5>3
        <4>2. QED
          BY <4>1
      <3>3. OperandsPassed' = {arg}
        BY <1>8, <3>1, <3>2
      <3>4. QED
        BY <1>1, <3>1, <3>3 DEF InputSoFar
    <2>3. QED
      BY <2>1, <2>2
  <1>13. FixedSoFar'
    BY <1>1, <1>7, <1>9 DEF FixedSoFar, Settings
  <1>14. QED
    BY <1>8, <1>10, <1>11, <1>12, <1>13

LEMMA ArgumentsKeep == ArgumentsInv /\ ArgumentStep => ArgumentsInv'
  <1> SUFFICES ASSUME ArgumentsInv, ArgumentStep, pc' = "args" PROVE LoopInv'
    BY DEF ArgumentsInv
  <1>1. CASE TakeFormat \/ SetOutput \/ SetOrigin \/ SetLevel
    BY <1>1, OptionStep DEF ArgumentsInv, TakeFormat, SetOutput, SetOrigin, SetLevel, Option
  <1>2. CASE Predefine \/ TakeInput
    BY <1>2, OtherStep DEF ArgumentsInv, Predefine, TakeInput
  <1>3. CASE UnknownFormat \/ BadOption \/ SecondInput \/ NoOutput \/ Settle
    BY <1>3 DEF UnknownFormat, BadOption, SecondInput, NoOutput, GiveUp, Settle
  <1>4. QED
    BY <1>1, <1>2, <1>3 DEF ArgumentStep

LEMMA ArgumentsStay == ArgumentsInv /\ UNCHANGED cmdline => ArgumentsInv'
  <1> SUFFICES ASSUME LoopInv, UNCHANGED cmdline PROVE LoopInv'
    BY DEF ArgumentsInv, cmdline
  <1>1. UNCHANGED <<argv, arg, inputname, outname, target, org, isOrgDef, entry, consts>>
    BY DEF cmdline, options
  <1>2. \A l \in Settings : Passed(l)' = Passed(l) /\ Latest(l)' = Latest(l)
    BY <1>1 DEF Passed, Latest, Indices
  <1>3. OperandsPassed' = OperandsPassed /\ Tidy' = Tidy /\ ValueOf(arg)' = ValueOf(arg)
    BY <1>1 DEF OperandsPassed, Operands, Tidy, ValueOf
  <1>4. FormatSoFar' = FormatSoFar /\ OutputSoFar' = OutputSoFar
    BY <1>1, <1>2 DEF FormatSoFar, OutputSoFar, Settings
  <1>5. InputSoFar' = InputSoFar
    BY <1>1, <1>3 DEF InputSoFar
  <1>6. StartSoFar' = StartSoFar
    BY <1>1, <1>2 DEF StartSoFar, Settings
  <1>7. FixedSoFar' <=> FixedSoFar
    BY <1>1, <1>2 DEF FixedSoFar, Settings
  <1>8. QED
    BY <1>1, <1>3, <1>4, <1>5, <1>6, <1>7 DEF LoopInv

-----------------------------------------------------------------------------
(* When the loop is over, the arguments passed are all of them.            *)
LEMMA AllPassed ==
  ASSUME LoopInv, arg > Len(argv)
  PROVE  /\ \A l \in Settings : Passed(l) = Indices(l) /\ Latest(l) = Given(l)
         /\ OperandsPassed = Operands
  <1>1. Len(argv) \in Nat /\ DOMAIN argv = 1..Len(argv) /\ arg \in Nat
    <2>1. argv \in CommandLines /\ arg \in Nat
      BY DEF LoopInv
    <2>2. QED
      BY <2>1, ArgumentTypes, Zenon
  <1>2. \A l \in Settings : Passed(l) = Indices(l)
    BY <1>1 DEF Passed, Indices
  <1>3. OperandsPassed = Operands
    BY <1>1 DEF OperandsPassed, Operands
  <1>4. QED
    BY <1>2, <1>3 DEF Latest, Given

LEMMA AddedLast ==
  ASSUME NEW tab, NEW name, name \in DOMAIN tab => tab[name] \in Entry, NEW type, NEW value
  PROVE  AddConst(tab, name, type, value)[name].value = value
  <1> DEFINE old == IF name \in DOMAIN tab THEN tab[name] ELSE Fresh
  <1>1. old \in Entry
    BY FreshType
  <1>2. AddConst(tab, name, type, value)[name] = [old EXCEPT !.type = type, !.value = value]
    BY DEF AddConst
  <1>3. QED
    BY <1>1, <1>2 DEF Entry

(* The last option of a kind, and that its value is no option.             *)
LEMMA LastIndex ==
  ASSUME argv \in CommandLines, NEW L \in Settings, Indices(L) # {}
  PROVE  Max(Indices(L)) \in Indices(L)
  <1>1. Len(argv) \in Nat
    BY ArgumentTypes, Zenon
  <1>2. Indices(L) \in SUBSET (1..Len(argv))
    BY <1>1 DEF Indices
  <1>3. QED
    BY <1>1, <1>2, MaxOfPart, Zenon

LEMMA GivenPlain ==
  ASSUME argv \in CommandLines, Tidy, NEW L \in Settings, Indices(L) # {}
  PROVE  Given(L).letter = "plain"
  <1> DEFINE i == Max(Indices(L))
  <1>1. i \in Indices(L)
    BY LastIndex
  <1> HIDE DEF i
  <1>2. Len(argv) \in Nat /\ DOMAIN argv = 1..Len(argv)
    BY ArgumentTypes, Zenon
  <1>3. i + 1 \in DOMAIN argv /\ ValueOf(i + 1)
    BY <1>1, <1>2 DEF Indices, ValueOf, Settings
  <1>4. QED
    BY <1>3 DEF Tidy, Given, i

LEMMA SettleSetsUp ==
  ASSUME LoopInv, Tidy, Settle
  PROVE  SetUp
  <1>1. arg > Len(argv) /\ outname # "" /\ argv' = argv
        /\ outname' = outname /\ inputname' = inputname
    BY DEF Settle
  <1>2. FormatSoFar /\ OutputSoFar /\ InputSoFar /\ StartSoFar /\ FixedSoFar /\ IsTable(consts)
    BY DEF LoopInv
  <1>3. /\ \A l \in Settings : Passed(l) = Indices(l) /\ Latest(l) = Given(l)
        /\ OperandsPassed = Operands
    BY <1>1, AllPassed
  <1>4. target' = FormatGiven /\ target' \in Formats
    BY <1>2, <1>3 DEF Settle, FormatSoFar, FormatGiven, Settings, Formats
  <1>5. outname' = Given("O").text
    BY <1>1, <1>2, <1>3 DEF OutputSoFar, Settings
  <1>6. {inputname'} = IF Operands = {} THEN {""} ELSE {argv[i].text : i \in Operands}
    BY <1>1, <1>2, <1>3 DEF InputSoFar
  <1>7. ASSUME OneFormat \/ FormatGiven # "bin"
        PROVE  /\ StartWritten => org' = StartsAt
               /\ entry' = IF FormatGiven = "com" THEN [value |-> 256, def |-> TRUE]
                           ELSE [value |-> 0, def |-> FALSE]
    <2>1. CASE FormatGiven = "com"
      <3>1. target' = "com" /\ StartsAt = 256
        BY <1>4, <2>1 DEF StartsAt
      <3>2. org' = 256
        BY <3>1 DEF Settle
      <3>3. entry' = [value |-> 256, def |-> TRUE]
        BY <1>2, <3>1 DEF Settle, StartSoFar
      <3>4. QED
        BY <2>1, <3>1, <3>2, <3>3
    <2>2. CASE FormatGiven \in {"texe", "rdf"}
      BY <1>2, <1>4, <2>2 DEF Settle, StartsAt, StartSoFar
    <2>3. CASE FormatGiven = "bin"
      <3>1. \A i \in Passed("F") : argv[i + 1].text = "bin"
        BY <1>3, <1>7, <2>3 DEF OneFormat, Settings
      <3>2. entry = [value |-> 0, def |-> FALSE]
            /\ org = IF Indices("S") = {} THEN 0 ELSE NumberRead(Given("S")) % Word
        BY <1>2, <1>3, <3>1 DEF StartSoFar, Settings
      <3>3. org' = org /\ entry' = entry
        BY <1>4, <2>3 DEF Settle
      <3>4. ASSUME StartWritten, Indices("S") # {} PROVE NumberRead(Given("S")) = Given("S").number
        <4>1. ~Given("S").hex
          BY <2>3, <3>4 DEF StartWritten
        <4>2. Given("S").letter = "plain"
          BY <1>1, <3>4, GivenPlain DEF Settings, LoopInv
        <4>3. QED
          BY <4>1, <4>2 DEF NumberRead
      <3>5. QED
        BY <2>3, <3>2, <3>3, <3>4 DEF StartsAt
    <2>4. QED
      BY <1>4, <2>1, <2>2, <2>3 DEF Formats
  <1>8. consts'[Origin].value = org'
    <2> DEFINE tab == AddConst(consts, Dollar, "EXPR", entry'.value)
    <2>1. Origin # Dollar
      BY DEF Origin, Dollar
    <2>2. Origin \in DOMAIN tab => tab[Origin] \in Entry
      BY <1>2, <2>1 DEF AddConst, IsTable
    <2>3. consts' = AddConst(tab, Origin, "EXPR", org')
      BY DEF Settle
    <2>4. QED
      BY <2>2, <2>3, AddedLast
  <1>9. isOrgDef' <=> FormatGiven # "bin" \/ ~OneFormat
    <2>1. isOrgDef' <=> (isOrgDef \/ target = "undef")
      BY DEF Settle
    <2>2. isOrgDef <=> \E i \in Indices("F") : argv[i + 1].text # "bin"
      BY <1>2, <1>3 DEF FixedSoFar, Settings
    <2>3. CASE Indices("F") = {}
      BY <1>2, <1>3, <2>1, <2>3 DEF FormatSoFar, FormatGiven, Settings
    <2>4. CASE Indices("F") # {}
      <3>1. target # "undef" /\ FormatGiven = target
        BY <1>2, <1>3, <2>4 DEF FormatSoFar, FormatGiven, Settings, Formats
      <3>2. \E i \in Indices("F") : argv[i + 1].text = FormatGiven
        <4>1. Max(Indices("F")) \in Indices("F")
          BY <1>1, <2>4, LastIndex DEF Settings, LoopInv
        <4>2. QED
          BY <2>4, <4>1 DEF FormatGiven, Given
      <3>3. QED
        BY <2>1, <2>2, <3>1, <3>2 DEF OneFormat
    <2>5. QED
      BY <2>3, <2>4
  <1>10. (isOrgDef \/ target = "undef") \in BOOLEAN /\ (FormatGiven # "bin" \/ ~OneFormat) \in BOOLEAN
    OBVIOUS
  <1>11. isOrgDef' = (FormatGiven # "bin" \/ ~OneFormat)
    BY <1>9, <1>10 DEF Settle
  <1>12. QED
    BY <1>4, <1>5, <1>6, <1>7, <1>8, <1>11 DEF SetUp
-----------------------------------------------------------------------------
(* A table whose imports have ids of their own, none the 0, 1 or 2 of a    *)
(* section; and what every line but IMPORT and %undef does to one: the     *)
(* names stay, and no import is added or given another id.                 *)
ImportsIn(tab) ==
  \A n \in DOMAIN tab :
    tab[n].type = "IMPORT" => tab[n].value \in Nat /\ tab[n].value >= 3 /\ n \notin {Dollar, Origin}
GoodTable(tab) == IsTable(tab) /\ {Dollar, Origin} \subseteq DOMAIN tab /\ ImportsIn(tab)
Keeps(tab, new) ==
  /\ IsTable(new) /\ DOMAIN tab \subseteq DOMAIN new
  /\ \A n \in DOMAIN new :
       new[n].type = "IMPORT" =>
         n \in DOMAIN tab /\ tab[n].type = "IMPORT" /\ new[n].value = tab[n].value

LEMMA KeepsGood ==
  ASSUME NEW tab, NEW new, GoodTable(tab), Keeps(tab, new)
  PROVE  GoodTable(new)
  BY DEF GoodTable, Keeps, ImportsIn

LEMMA KeepsOn ==
  ASSUME NEW tab, NEW mid, NEW new, Keeps(tab, mid), Keeps(mid, new)
  PROVE  Keeps(tab, new)
  BY DEF Keeps

LEMMA KeepsItself == ASSUME NEW tab, IsTable(tab) PROVE Keeps(tab, tab)
  BY DEF Keeps

LEMMA ValueKeeps ==
  ASSUME NEW tab, GoodTable(tab), NEW name \in {Dollar, Origin}, NEW v \in Int
  PROVE  Keeps(tab, [tab EXCEPT ![name].value = v])
  <1> DEFINE new == [tab EXCEPT ![name].value = v]
  <1>1. IsTable(tab) /\ name \in DOMAIN tab /\ tab[name].type # "IMPORT"
    BY DEF GoodTable, ImportsIn
  <1>2. DOMAIN new = DOMAIN tab /\ new = [n \in DOMAIN new |-> new[n]]
    BY <1>1 DEF IsTable
  <1>3. /\ \A n \in DOMAIN tab \ {name} : new[n] = tab[n]
        /\ new[name] = [tab[name] EXCEPT !.value = v]
    BY <1>1
  <1>4. tab[name] \in Entry /\ \A n \in DOMAIN tab : n \in Name /\ tab[n] \in Entry
    BY <1>1 DEF IsTable
  <1> HIDE DEF new
  <1>5. new[name] \in Entry /\ new[name].type = tab[name].type
    BY <1>3, <1>4 DEF Entry
  <1>6. Keeps(tab, new)
    BY <1>1, <1>2, <1>3, <1>4, <1>5 DEF Keeps, IsTable
  <1>7. QED
    BY <1>6 DEF new

OtherTypes == ConstTypes \ {"IMPORT"}
LEMMA AddConstKeeps ==
  ASSUME NEW tab, IsTable(tab), NEW name \in Name, NEW type \in OtherTypes, NEW v \in Int
  PROVE  Keeps(tab, AddConst(tab, name, type, v)) /\ name \in DOMAIN AddConst(tab, name, type, v)
  <1> DEFINE new == AddConst(tab, name, type, v)
  <1>1. type \in ConstTypes
    BY DEF OtherTypes
  <1>2. IsTable(new) /\ DOMAIN new = DOMAIN tab \cup {name} /\ new[name].type = type
    BY <1>1, AddConstTable
  <1>3. \A n \in DOMAIN tab : n # name => new[n] = tab[n]
    BY AddConstOthers
  <1> HIDE DEF new
  <1>4. Keeps(tab, new) /\ name \in DOMAIN new
    BY <1>2, <1>3 DEF Keeps, OtherTypes
  <1>5. QED
    BY <1>4 DEF new

LEMMA MarksKeep ==
  ASSUME NEW tab, IsTable(tab), NEW name \in DOMAIN tab
  PROVE  /\ \A s \in Sections : Keeps(tab, SetSection(tab, name, s))
         /\ \A x \in Extra : Keeps(tab, SetExtra(tab, name, x))
         /\ Keeps(tab, [tab EXCEPT ![name].export = TRUE])
  <1>1. ASSUME NEW new, new = [n \in DOMAIN tab |-> new[n]],
               \A n \in DOMAIN tab \ {name} : new[n] = tab[n],
               new[name] \in Entry, new[name].type = tab[name].type, new[name].value = tab[name].value
        PROVE  Keeps(tab, new)
    BY <1>1 DEF Keeps, IsTable
  <1>2. tab[name] \in Entry
    BY DEF IsTable
  <1>3. ASSUME NEW s \in Sections PROVE Keeps(tab, SetSection(tab, name, s))
    <2> DEFINE new == SetSection(tab, name, s)
    <2>1. /\ new = [n \in DOMAIN tab |-> new[n]]
          /\ \A n \in DOMAIN tab \ {name} : new[n] = tab[n]
          /\ new[name] = [tab[name] EXCEPT !.section = s]
      BY DEF SetSection, IsTable
    <2> HIDE DEF new
    <2>2. new[name] \in Entry /\ new[name].type = tab[name].type /\ new[name].value = tab[name].value
      BY <1>2, <1>3, <2>1 DEF Entry
    <2>3. Keeps(tab, new)
      BY <1>1, <2>1, <2>2
    <2>4. QED
      BY <2>3 DEF new
  <1>4. ASSUME NEW x \in Extra PROVE Keeps(tab, SetExtra(tab, name, x))
    <2> DEFINE new == SetExtra(tab, name, x)
    <2>1. /\ new = [n \in DOMAIN tab |-> new[n]]
          /\ \A n \in DOMAIN tab \ {name} : new[n] = tab[n]
          /\ new[name] = [tab[name] EXCEPT !.extra = x]
      BY DEF SetExtra, IsTable
    <2> HIDE DEF new
    <2>2. new[name] \in Entry /\ new[name].type = tab[name].type /\ new[name].value = tab[name].value
      BY <1>2, <1>4, <2>1 DEF Entry
    <2>3. Keeps(tab, new)
      BY <1>1, <2>1, <2>2
    <2>4. QED
      BY <2>3 DEF new
  <1>5. Keeps(tab, [tab EXCEPT ![name].export = TRUE])
    <2> DEFINE new == [tab EXCEPT ![name].export = TRUE]
    <2>1. /\ new = [n \in DOMAIN tab |-> new[n]]
          /\ \A n \in DOMAIN tab \ {name} : new[n] = tab[n]
          /\ new[name] = [tab[name] EXCEPT !.export = TRUE]
      BY DEF IsTable
    <2> HIDE DEF new
    <2>2. new[name] \in Entry /\ new[name].type = tab[name].type /\ new[name].value = tab[name].value
      BY <1>2, <2>1 DEF Entry
    <2>3. Keeps(tab, new)
      BY <1>1, <2>1, <2>2
    <2>4. QED
      BY <2>3 DEF new
  <1>6. QED
    BY <1>3, <1>4, <1>5
-----------------------------------------------------------------------------
(* Types.                                                                  *)

Assembling == {"line", "emit", "end"}
PlaceInv ==
  /\ arg \in Nat \ {0} /\ argv \in CommandLines /\ prog \in Programs
  /\ target \in Formats \cup (IF pc \in {"args", "exit"} THEN {"undef"} ELSE {})
  /\ pass \in 0..Passes /\ pc \in {"args", "main", "exit"} \cup Assembling
  /\ pc \in Assembling => pass < Passes
  /\ file \in {"untouched", "opened", "written", "removed"} /\ exit \in {-1, 0, 1, 2}
  /\ at \in Nat \ {0} /\ todo \in Seq(Chunk)
LayoutInv ==
  /\ section \in Sections /\ ptr \in [Sections -> Int]
  /\ ptr["TEXT"] \in 0..Word-1 /\ ptr["DATA"] \in 0..Word-1
  /\ org \in 0..Word-1 /\ entry \in [value : 0..Word-1, def : BOOLEAN]
TableInv ==
  /\ scope \in Name /\ IsTable(consts) /\ ImportsIn(consts)
  /\ pc \notin {"args", "exit"} => {Dollar, Origin} \subseteq DOMAIN consts
  /\ nextImport \in Nat /\ nextImport >= 3
RecordInv ==
  relocs \in Seq(Patches) /\ trace \in [0..Passes-1 -> Seq(TraceLine)]
VerdictInv ==
  errors \subseteq ErrorKinds /\ warnings \subseteq WarningKinds /\ reported \subseteq ErrorKinds
(* Once a format has an origin of its own, ORG has none to give.           *)
OriginInv == isOrgDef \in BOOLEAN /\ (target \in Formats \ {"bin"} => isOrgDef)
TypeInv == PlaceInv /\ LayoutInv /\ TableInv /\ RecordInv /\ VerdictInv /\ OriginInv

LEMMA TypeInvOK == TypeInv => TypeOK
  BY DEF TypeInv, PlaceInv, LayoutInv, TableInv, RecordInv, VerdictInv, OriginInv, TypeOK, Assembling

LEMMA OriginArguments == OriginInv /\ ArgumentStep => OriginInv'
  <1> SUFFICES ASSUME OriginInv, ArgumentStep PROVE OriginInv'
    OBVIOUS
  <1>1. \/ UNCHANGED <<target, isOrgDef>>
        \/ target' # "bin" /\ isOrgDef' = TRUE
        \/ target' = "bin" /\ isOrgDef' \in BOOLEAN
    <2>1. CASE TakeFormat
      BY <2>1, Zenon DEF TakeFormat, OriginInv
    <2>2. CASE Settle
      BY <2>2, Zenon DEF Settle, OriginInv
    <2>3. CASE UnknownFormat \/ SetOutput \/ SetOrigin \/ SetLevel \/ Predefine \/ BadOption \/ TakeInput
               \/ SecondInput \/ NoOutput
      BY <2>3 DEF UnknownFormat, SetOutput, SetOrigin, SetLevel, Predefine, BadOption, TakeInput, SecondInput,
        NoOutput, GiveUp, options
    <2>4. QED
      BY <2>1, <2>2, <2>3 DEF ArgumentStep
  <1>2. QED
    BY <1>1, Zenon DEF OriginInv

LEMMA OriginStays == OriginInv /\ UNCHANGED input => OriginInv'
  BY DEF OriginInv, input

LEMMA WordInt == 0 \in 0..Word-1 /\ \A v \in 0..Word-1 : v \in Int
  <1>1. ASSUME NEW n PROVE \A v \in 0..n : v \in Int
    OBVIOUS
  <1>2. QED
    BY <1>1 DEF Word

(* The line at hand is a statement, and what the programs are known to     *)
(* keep to.                                                                *)
LEMMA LineTypes ==
  ASSUME prog \in Programs, at \in Nat \ {0}, at <= Len(prog)
  PROVE  /\ Stmt \in Statement /\ at \in DOMAIN prog /\ Stmt.ins.cmd # "SAL"
         /\ Stmt.op = "%define" => Len(Stmt.names) = 2
         /\ Stmt.op \in {"%undef", "section", "export"} => Len(Stmt.names) = 1
         /\ Stmt.label.name \notin {"$", "$$"}
         /\ Stmt.op # "export" => \A k \in DOMAIN Stmt.names : Stmt.names[k].name \notin {"$", "$$"}
  <1>1. prog \in Seq(Statement)
    BY ProgramsAssumption DEF ProgramsAssumption
  <1>2. at \in DOMAIN prog /\ Stmt \in Statement
    BY <1>1 DEF Stmt
  <1>3. /\ Stmt.ins.cmd \notin {"SAL", "BOUND"} \cup Directives
        /\ Stmt.op = "%define" => Len(Stmt.names) = 2
        /\ Stmt.op \in {"%undef", "section", "export"} => Len(Stmt.names) = 1
        /\ \A s \in {Stmt.label} \cup (IF Stmt.op = "export" THEN {} ELSE Range(Stmt.names)) :
             s.name \notin {"$", "$$"}
    BY <1>2, ProgramsAssumption DEF ProgramsAssumption, Stmt
  <1>4. \A k \in DOMAIN Stmt.names : Stmt.names[k] \in Range(Stmt.names)
    BY DEF Range
  <1>5. QED
    BY <1>2, <1>3, <1>4

LEMMA SymTypes ==
  /\ \A s : s \in Sym => [inv |-> 0, path |-> <<s.name>>] \in Name
  /\ \A s : s \in Sym /\ s.name \notin {"$", "$$"} => [inv |-> 0, path |-> <<s.name>>] \notin {Dollar, Origin}
  <1>1. ASSUME NEW s \in Sym PROVE [inv |-> 0, path |-> <<s.name>>] \in Name
    <2>1. s.name \in STRING
      BY DEF Sym
    <2>2. <<s.name>> \in Seq(STRING)
      BY <2>1
    <2>3. QED
      BY <2>2 DEF Name
  <1>2. ASSUME NEW s \in Sym, s.name \notin {"$", "$$"}
        PROVE  [inv |-> 0, path |-> <<s.name>>] \notin {Dollar, Origin}
    <2>1. <<s.name>>[1] \notin {"$", "$$"}
      BY <1>2
    <2>2. Dollar.path[1] = "$" /\ Origin.path[1] = "$$"
      BY DEF Dollar, Origin
    <2>3. QED
      BY <2>1, <2>2
  <1>3. QED
    BY <1>1, <1>2

LEMMA SectionTypes ==
  /\ \A s \in Sections : LabelType(s) \in OtherTypes /\ SectionId(s) \in Nat
  /\ \A n : SectionNamed(n) \in Sections \cup {"unknown"}
  BY DEF LabelType, SectionId, SectionNamed, Sections, OtherTypes, ConstTypes

LEMMA Wraps == \A v \in Int : v % Word \in 0..Word-1 /\ v % Word \in Int
  <1>1. Word \in Nat /\ Word > 0
    BY DEF Word
  <1>2. \A v \in Int, w \in Nat : w > 0 => v % w \in 0..w-1
    OBVIOUS
  <1>3. QED
    BY <1>1, <1>2

LEMMA BumpType ==
  ASSUME LayoutInv, NEW sec \in Sections, NEW n \in Int
  PROVE  /\ Bump(sec, n) \in [Sections -> Int]
         /\ Bump(sec, n)["TEXT"] \in 0..Word-1 /\ Bump(sec, n)["DATA"] \in 0..Word-1
  <1>1. \A v \in Int : v % Word \in 0..Word-1 /\ v % Word \in Int
    BY Wraps
  <1>2. ptr[sec] \in Int /\ ptr[sec] + n \in Int
    BY DEF LayoutInv
  <1>3. (IF sec = "BSS" THEN ptr[sec] + n ELSE (ptr[sec] + n) % Word) \in Int
    BY <1>1, <1>2
  <1>4. sec # "BSS" => (ptr[sec] + n) % Word \in 0..Word-1
    BY <1>1, <1>2
  <1>5. QED
    BY <1>3, <1>4 DEF Bump, Past, LayoutInv, Sections

(* The table of a line whose label is defined.                             *)
LEMMA LineTable ==
  ASSUME TypeInv, pc = "line", at <= Len(prog)
  PROVE  /\ Keeps(consts, LineConsts) /\ GoodTable(LineConsts)
         /\ LineName \in Name /\ LineScope \in Name /\ LabelScope \in Name
  <1>1. GoodTable(consts) /\ scope \in Name /\ section \in Sections /\ Here \in Int
    BY DEF TypeInv, TableInv, LayoutInv, GoodTable, Here
  <1>2. Stmt.label \in Sym
    BY LineTypes DEF TypeInv, PlaceInv, Statement
  <1>3. NoScope \in Name
    BY DEF NoScope, Name
  <1>4. LineName \in Name /\ LabelScope \in Name /\ LineScope \in Name
    BY <1>1, <1>2, <1>3, QNameType DEF LineName, LabelScope, LineScope
  <1> DEFINE tab == [consts EXCEPT ![Dollar].value = Here]
             new == AddConst(tab, LineName, LabelType(section), Here)
  <1>5. Keeps(consts, tab)
    <2>1. Dollar \in {Dollar, Origin}
      OBVIOUS
    <2>2. QED
      BY <1>1, <2>1, ValueKeeps
  <1>6. Keeps(consts, LineConsts)
    <2>1. LineConsts = IF HasLabel THEN SetSection(new, LineName, section) ELSE tab
      BY DEF LineConsts
    <2> HIDE DEF tab
    <2>2. IsTable(tab) /\ LabelType(section) \in OtherTypes
      BY <1>1, <1>5, SectionTypes DEF Keeps
    <2>3. Keeps(tab, new) /\ LineName \in DOMAIN new
      BY <1>1, <1>4, <2>2, AddConstKeeps
    <2> HIDE DEF new
    <2>4. Keeps(new, SetSection(new, LineName, section))
      <3>1. IsTable(new)
        BY <2>3 DEF Keeps
      <3>2. QED
        BY <1>1, <2>3, <3>1, MarksKeep
    <2>5. QED
      BY <1>5, <2>1, <2>3, <2>4, KeepsOn
  <1>7. GoodTable(LineConsts)
    BY <1>1, <1>6, KeepsGood
  <1>8. QED
    BY <1>4, <1>6, <1>7

(* What no line but IMPORT and %undef does not keep of the table.          *)
LEMMA LinesKeep ==
  ASSUME TypeInv, LineStep
  PROVE  \/ Import \/ Undef
         \/ Keeps(consts, consts') /\ scope' \in Name /\ nextImport' = nextImport
  <1> DEFINE Kept == Keeps(consts, consts') /\ scope' \in Name /\ nextImport' = nextImport
  <1>1. GoodTable(consts) /\ IsTable(consts) /\ scope \in Name
    BY DEF TypeInv, TableInv, GoodTable, LineStep, OnLine, LabelAlone, List, Instr, NoRow, OutsideText,
           Reserve, SectionDirective, Export, Import, OrgDirective, OrgRefused, End, Equ, SyntaxError,
           Define, Undef, Exhausted
  <1>2. NoScope \in Name
    BY DEF NoScope, Name
  <1>3. ASSUME pc = "line", at <= Len(prog)
        PROVE  /\ Keeps(consts, LineConsts) /\ GoodTable(LineConsts) /\ IsTable(LineConsts)
               /\ LineName \in Name /\ LineScope \in Name /\ LabelScope \in Name
               /\ Stmt \in Statement /\ Stmt.e \in Expr
    <2>1. Stmt \in Statement
      BY <1>3, LineTypes DEF TypeInv, PlaceInv
    <2>2. Stmt.e \in Expr
      BY <2>1 DEF Statement
    <2>3. QED
      BY <1>3, <2>1, <2>2, LineTable DEF GoodTable
  <1>4. ASSUME pc = "line", at <= Len(prog), consts' = LineConsts, scope' \in {LineScope, NoScope},
               nextImport' = nextImport
        PROVE  Kept
    BY <1>2, <1>3, <1>4
  <1>5. CASE LabelAlone \/ Reserve \/ SectionDirective \/ OrgRefused \/ End \/ SyntaxError
    BY <1>4, <1>5 DEF LabelAlone, Reserve, SectionDirective, OrgRefused, End, SyntaxError, OnLine
  <1>6. CASE List \/ Instr \/ NoRow \/ OutsideText
    BY <1>4, <1>6 DEF List, Instr, NoRow, OutsideText, Starts, OnLine
  <1>7. CASE Export
    <2>1. pc = "line" /\ at <= Len(prog) /\ scope' = LineScope /\ nextImport' = nextImport
      BY <1>7 DEF Export, OnLine
    <2> DEFINE name == [inv |-> 0, path |-> <<Stmt.names[1].name>>]
    <2>2. \/ consts' = LineConsts
          \/ name \in DOMAIN LineConsts /\ consts' = [LineConsts EXCEPT ![name].export = TRUE]
      BY <1>7 DEF Export
    <2> HIDE DEF name
    <2>3. CASE consts' = LineConsts
      BY <1>4, <2>1, <2>3
    <2>4. CASE name \in DOMAIN LineConsts /\ consts' = [LineConsts EXCEPT ![name].export = TRUE]
      <3>1. Keeps(LineConsts, consts')
        BY <1>3, <2>1, <2>4, MarksKeep
      <3>2. QED
        BY <1>3, <2>1, <3>1, KeepsOn
    <2>5. QED
      BY <2>2, <2>3, <2>4
  <1>8. CASE OrgDirective
    <2>1. pc = "line" /\ at <= Len(prog) /\ scope' = LineScope /\ nextImport' = nextImport
      BY <1>8 DEF OrgDirective, OnLine
    <2> DEFINE v == Value(LineConsts, LineScope, Stmt.e) % Word
    <2>2. consts' = [LineConsts EXCEPT ![Origin].value = v]
      BY <1>8 DEF OrgDirective
    <2>3. v \in Int
      BY <1>3, <2>1, ValueType, Wraps
    <2> HIDE DEF v
    <2>4. Keeps(LineConsts, consts')
      BY <1>3, <2>1, <2>2, <2>3, ValueKeeps
    <2>5. QED
      BY <1>3, <2>1, <2>4, KeepsOn
  <1>9. CASE Equ
    <2>1. pc = "line" /\ at <= Len(prog) /\ scope' = LabelScope /\ nextImport' = nextImport
      BY <1>9 DEF Equ, OnLine, layout
    <2> DEFINE v == Value(LineConsts, scope, Stmt.e)
    <2>2. consts' = AddConst(LineConsts, LineName, "EXPR", v)
      BY <1>9 DEF Equ
    <2>3. v \in Int /\ "EXPR" \in OtherTypes
      BY <1>3, <2>1, ValueType DEF OtherTypes, ConstTypes
    <2> HIDE DEF v
    <2>4. Keeps(LineConsts, consts')
      BY <1>3, <2>1, <2>2, <2>3, AddConstKeeps
    <2>5. QED
      BY <1>3, <2>1, <2>4, KeepsOn
  <1>10. CASE Define
    <2>1. pc = "line" /\ at <= Len(prog) /\ Stmt.op = "%define" /\ scope' = scope /\ nextImport' = nextImport
      BY <1>10 DEF Define, OnLine, Directive
    <2>2. Stmt \in Statement /\ Len(Stmt.names) = 2
      BY <2>1, LineTypes DEF TypeInv, PlaceInv
    <2>3. Stmt.names[1] \in Sym /\ Stmt.names[2] \in Sym
      BY <2>2 DEF Statement
    <2> DEFINE name == [inv |-> 0, path |-> <<Stmt.names[1].name>>]
               mid  == AddConst(consts, name, "DEFINE", 0)
               body == DefineBody(Stmt.names[2])
    <2>4. name \in Name
      BY <2>3, SymTypes
    <2>5. body \in Extra
      BY <2>3, FreshType DEF DefineBody, Extra
    <2>6. consts' = IF pass > 0 THEN consts ELSE SetExtra(mid, name, body)
      BY <1>10 DEF Define
    <2> HIDE DEF name, body
    <2>7. 0 \in Int /\ "DEFINE" \in OtherTypes
      BY DEF OtherTypes, ConstTypes
    <2>8. Keeps(consts, mid) /\ name \in DOMAIN mid
      BY <1>1, <2>4, <2>7, AddConstKeeps
    <2> HIDE DEF mid
    <2>9. IsTable(mid)
      BY <2>8 DEF Keeps
    <2>10. Keeps(mid, SetExtra(mid, name, body))
      BY <2>5, <2>8, <2>9, MarksKeep
    <2>11. Keeps(consts, consts')
      BY <1>1, <2>6, <2>8, <2>10, KeepsOn, KeepsItself
    <2>12. QED
      BY <1>1, <2>1, <2>11
  <1>11. CASE Exhausted
    <2>1. consts' = consts /\ scope' = scope /\ nextImport' = nextImport
      BY <1>11 DEF Exhausted, symbols
    <2>2. QED
      BY <1>1, <2>1, KeepsItself
  <1>12. QED
    BY <1>5, <1>6, <1>7, <1>8, <1>9, <1>10, <1>11 DEF LineStep
-----------------------------------------------------------------------------
(* The names of an IMPORT, one after the other.                            *)

ImportsRead(f, st, names) ==
  f = [s \in SUBSET DOMAIN names |->
         IF s = {} THEN st ELSE ImportName(f[s \ {Max(s)}], names[Max(s)])]

LEMMA ImportFoldIs ==
  ASSUME NEW st, NEW names
  PROVE  FoldLeft(ImportName, st, names) = (CHOOSE f : ImportsRead(f, st, names))[DOMAIN names]
  BY DEF FoldLeft, MapThenFoldSet, ImportsRead

ImportAll(st, names) == FoldLeft(ImportName, st, names)

(* Within states a name takes to states, they are taken one by one.        *)
LEMMA ImportRuns ==
  ASSUME NEW S, NEW T, NEW st \in S, NEW names \in Seq(T),
         \A x \in S, s \in T : ImportName(x, s) \in S
  PROVE  \E g \in [0..Len(names) -> S] :
            /\ g[0] = st /\ ImportAll(st, names) = g[Len(names)]
            /\ \A k \in 0..Len(names)-1 : g[k + 1] = ImportName(g[k], names[k + 1])
  <1> DEFINE n == Len(names)
             F == [p \in S \X T |-> ImportName(p[1], p[2])]
             f == CHOOSE f : ImportsRead(f, st, names)
             G == {k \in 0..n : f[1..k] \in S}
  <1>1. n \in Nat /\ DOMAIN names = 1..n /\ names \in [1..n -> T]
    OBVIOUS
  <1>2. F \in [S \X T -> S]
    OBVIOUS
  <1>3. \A x \in S, s \in T : F[<<x, s>>] = ImportName(x, s)
    OBVIOUS
  <1>4. ImportAll(st, names) = f[DOMAIN names]
    BY ImportFoldIs DEF ImportAll
  <1> HIDE DEF n, F
  <1>5. \E h : ImportsRead(h, st, names)
    <2>1. PICK h \in [SUBSET (1..n) -> S] : Iterates(h, F, st, names, n)
      BY <1>1, <1>2, IterationExists
    <2>2. ASSUME NEW s \in SUBSET (1..n), s # {}
          PROVE  F[<<h[s \ {Max(s)}], names[Max(s)]>>] = ImportName(h[s \ {Max(s)}], names[Max(s)])
      <3>1. Max(s) \in 1..n /\ s \ {Max(s)} \in SUBSET (1..n)
        BY <1>1, <2>2, MaxOfPart
      <3>2. QED
        BY <1>1, <1>3, <3>1
    <2>3. ImportsRead(h, st, names)
      BY <1>1, <2>1, <2>2 DEF Iterates, ImportsRead
    <2>4. QED
      BY <2>3
  <1>6. ImportsRead(f, st, names)
    BY <1>5
  <1> HIDE DEF f
  <1>7. f[1..0] = st /\ 0 \in 0..n
    <2>1. 1..0 = {} /\ 0 \in 0..n
      BY <1>1
    <2>2. f[{}] = st
      BY <1>6 DEF ImportsRead
    <2>3. QED
      BY <2>1, <2>2
  <1>8. ASSUME NEW k \in 0..n-1
        PROVE  f[1..k+1] = ImportName(f[1..k], names[k + 1])
    <2>1. /\ 1..k+1 \in SUBSET (1..n) /\ 1..k+1 # {} /\ Max(1..k+1) = k + 1
          /\ (1..k+1) \ {k + 1} = 1..k
      BY <1>1, PrefixMax
    <2>2. QED
      BY <1>1, <1>6, <2>1 DEF ImportsRead
  <1>9. 0 \in G
    BY <1>7
  <1>10. ASSUME NEW k \in 0..n-1, k \in G PROVE k + 1 \in G
    <2>1. k + 1 \in 0..n /\ names[k + 1] \in T
      BY <1>1
    <2>2. QED
      BY <1>8, <1>10, <2>1
  <1>11. \A k \in 0..n : f[1..k] \in S
    <2>1. \A k \in 0..n : k \in G
      <3> HIDE DEF G
      <3> QED BY <1>1, <1>9, <1>10, UpTo
    <2>2. QED
      BY <2>1
  <1> DEFINE g == [k \in 0..n |-> f[1..k]]
  <1>12. g \in [0..n -> S]
    BY <1>11
  <1>13. n \in 0..n /\ \A k \in 0..n-1 : k \in 0..n /\ k + 1 \in 0..n
    BY <1>1
  <1>14. g[0] = st /\ g[n] = f[1..n]
    BY <1>7, <1>13
  <1>15. \A k \in 0..n-1 : g[k + 1] = ImportName(g[k], names[k + 1])
    BY <1>8, <1>13
  <1> HIDE DEF g
  <1>16. QED
    BY <1>1, <1>4, <1>12, <1>14, <1>15 DEF n

Tables       == UNION {[D -> Entry] : D \in SUBSET Name}
ImportStates == {st \in [tab : Tables, next : Nat, said : SUBSET (ErrorKinds \cup WarningKinds)] :
                   GoodTable(st.tab) /\ st.next >= 3}
ImportSyms   == {s \in Sym : s.name \notin {"$", "$$"}}

LEMMA TablesAre == \A tab : IsTable(tab) => tab \in Tables
  <1> SUFFICES ASSUME NEW tab, IsTable(tab) PROVE tab \in Tables
    OBVIOUS
  <1>1. tab = [n \in DOMAIN tab |-> tab[n]] /\ DOMAIN tab \in SUBSET Name
        /\ \A n \in DOMAIN tab : tab[n] \in Entry
    BY DEF IsTable
  <1>2. tab \in [DOMAIN tab -> Entry]
    BY <1>1
  <1>3. QED
    BY <1>1, <1>2 DEF Tables

(* One name: it is new and takes the next id, or the table stays.          *)
Introduces(st, s, new) ==
  LET name == Spelled(s)
  IN /\ s.kind # "local" /\ name \notin DOMAIN st.tab
     /\ DOMAIN new.tab = DOMAIN st.tab \cup {name} /\ new.next = st.next + 1
     /\ \A n \in DOMAIN st.tab : new.tab[n] = st.tab[n]
     /\ new.tab[name].type = "IMPORT" /\ new.tab[name].value = st.next
Passes1(st, s, new) ==
  new.tab = st.tab /\ new.next = st.next /\ (s.kind = "local" \/ Spelled(s) \in DOMAIN st.tab)

LEMMA AddImport ==
  ASSUME NEW tab, IsTable(tab), NEW n \in Name, NEW v \in Int
  PROVE  LET x == AddConst(tab, n, "IMPORT", v)
         IN IsTable(x) /\ DOMAIN x = DOMAIN tab \cup {n} /\ x[n].type = "IMPORT"
  <1>1. "IMPORT" \in ConstTypes
    BY DEF ConstTypes
  <1>2. \A t \in ConstTypes : /\ IsTable(AddConst(tab, n, t, v))
                              /\ DOMAIN AddConst(tab, n, t, v) = DOMAIN tab \cup {n}
                              /\ AddConst(tab, n, t, v)[n].type = t
    BY AddConstTable
  <1>3. QED
    BY <1>1, <1>2, Zenon

LEMMA ImportNameStep ==
  ASSUME NEW st \in ImportStates, NEW s \in ImportSyms
  PROVE  /\ ImportName(st, s) \in ImportStates
         /\ Introduces(st, s, ImportName(st, s)) \/ Passes1(st, s, ImportName(st, s))
  <1> DEFINE name == Spelled(s)
             new  == ImportName(st, s)
  <1>1. /\ st \in [tab : Tables, next : Nat, said : SUBSET (ErrorKinds \cup WarningKinds)]
        /\ GoodTable(st.tab) /\ st.next >= 3
    BY DEF ImportStates
  <1>2. name \in Name /\ name \notin {Dollar, Origin}
    BY SymTypes DEF ImportSyms, Spelled
  <1>3. ASSUME NEW said \in SUBSET (ErrorKinds \cup WarningKinds)
        PROVE  [st EXCEPT !.said = said] \in ImportStates
    BY <1>1, <1>3 DEF ImportStates
  <1>4. CASE s.kind = "local"
    <2>1. new = [st EXCEPT !.said = st.said \cup {"local"}]
      BY <1>4 DEF ImportName
    <2>2. st.said \cup {"local"} \in SUBSET (ErrorKinds \cup WarningKinds)
      BY <1>1 DEF ErrorKinds
    <2>3. new \in ImportStates
      BY <1>3, <2>1, <2>2
    <2>4. new.tab = st.tab /\ new.next = st.next
      BY <1>1, <2>1
    <2> HIDE DEF new
    <2>5. Passes1(st, s, new)
      BY <1>4, <2>4 DEF Passes1
    <2>6. QED
      BY <2>3, <2>5 DEF new
  <1>5. CASE s.kind # "local" /\ name \in DOMAIN st.tab
    <2>1. new = st \/ new = [st EXCEPT !.said = st.said \cup {"defined"}]
      BY <1>5 DEF ImportName, Spelled
    <2>2. st.said \cup {"defined"} \in SUBSET (ErrorKinds \cup WarningKinds)
      BY <1>1 DEF ErrorKinds
    <2>3. new \in ImportStates
      BY <1>3, <2>1, <2>2
    <2>4. new.tab = st.tab /\ new.next = st.next
      BY <1>1, <2>1
    <2> HIDE DEF new
    <2>5. Passes1(st, s, new)
      BY <1>5, <2>4 DEF Passes1
    <2>6. QED
      BY <2>3, <2>5 DEF new
  <1>6. CASE s.kind # "local" /\ name \notin DOMAIN st.tab
    <2> DEFINE tab == AddConst(st.tab, name, "IMPORT", st.next)
    <2>1. new = [st EXCEPT !.tab = tab, !.next = st.next + 1]
      BY <1>6 DEF ImportName, Spelled
    <2>2. /\ IsTable(st.tab) /\ "IMPORT" \in ConstTypes /\ st.next \in Int /\ st.next \in Nat
      BY <1>1 DEF GoodTable, ConstTypes
    <2>3. IsTable(tab) /\ DOMAIN tab = DOMAIN st.tab \cup {name} /\ tab[name].type = "IMPORT"
      <3>1. IsTable(st.tab) /\ name \in Name /\ st.next \in Int
        BY <1>2, <2>2
      <3>2. QED
        <4> HIDE DEF name
        <4> QED BY <3>1, AddImport DEF tab
    <2>4. \A n \in DOMAIN st.tab : tab[n] = st.tab[n]
      BY <1>6, AddConstOthers
    <2>5. tab[name].value = st.next
      <3>1. Fresh \in Entry
        BY FreshType
      <3>2. tab[name] = [Fresh EXCEPT !.type = "IMPORT", !.value = st.next]
        BY <1>6 DEF AddConst
      <3> HIDE DEF tab, name
      <3>3. QED
        BY <3>1, <3>2 DEF Entry
    <2> HIDE DEF tab, name
    <2>6. new.tab = tab /\ new.next = st.next + 1
      BY <1>1, <2>1
    <2>7. GoodTable(tab)
      BY <1>1, <1>2, <2>2, <2>3, <2>4, <2>5 DEF GoodTable, ImportsIn
    <2>8. tab \in Tables /\ st.next + 1 \in Nat /\ st.next + 1 >= 3
      BY <1>1, <2>2, <2>3, TablesAre
    <2>9. new \in ImportStates
      BY <1>1, <2>1, <2>7, <2>8 DEF ImportStates
    <2>10. Introduces(st, s, new)
      <3> HIDE DEF new
      <3> QED BY <1>6, <2>3, <2>4, <2>5, <2>6 DEF Introduces, name
    <2>11. QED
      BY <2>9, <2>10
  <1>7. QED
    BY <1>4, <1>5, <1>6

(* What a list of names does: the new ones among them are imports with ids *)
(* of their own, from the next one on, and no name is missing then.        *)
Adds(st, to) ==
  /\ to \in ImportStates /\ to.next >= st.next
  /\ \A n \in DOMAIN st.tab : n \in DOMAIN to.tab /\ to.tab[n] = st.tab[n]
  /\ \A n \in DOMAIN to.tab \ DOMAIN st.tab :
       to.tab[n].type = "IMPORT" /\ to.tab[n].value >= st.next /\ to.tab[n].value < to.next
  /\ \A m, n \in DOMAIN to.tab \ DOMAIN st.tab : m # n => to.tab[m].value # to.tab[n].value
Listed(names, n) == \E k \in DOMAIN names : names[k].kind # "local" /\ Spelled(names[k]) = n

LEMMA AddsOne ==
  ASSUME NEW st \in ImportStates, NEW x \in ImportStates, Adds(st, x), NEW s \in ImportSyms
  PROVE  /\ Adds(st, ImportName(x, s))
         /\ \A n \in DOMAIN x.tab : n \in DOMAIN ImportName(x, s).tab
         /\ s.kind # "local" => Spelled(s) \in DOMAIN ImportName(x, s).tab
         /\ \A n \in DOMAIN ImportName(x, s).tab : n \in DOMAIN x.tab \/ (s.kind # "local" /\ n = Spelled(s))
  <1> DEFINE new == ImportName(x, s)
  <1>1. new \in ImportStates /\ (Introduces(x, s, new) \/ Passes1(x, s, new))
    BY ImportNameStep
  <1>2. x.next \in Nat /\ st.next \in Nat /\ IsTable(x.tab) /\ \A n \in DOMAIN x.tab : x.tab[n].value \in Int
    BY DEF ImportStates, GoodTable, IsTable, Entry
  <1> HIDE DEF new
  <1>3. CASE Passes1(x, s, new)
    BY <1>1, <1>3 DEF Passes1, Adds, new
  <1>4. CASE Introduces(x, s, new)
    <2> DEFINE name == Spelled(s)
    <2>1. /\ s.kind # "local" /\ name \notin DOMAIN x.tab
          /\ DOMAIN new.tab = DOMAIN x.tab \cup {name} /\ new.next = x.next + 1
          /\ \A n \in DOMAIN x.tab : new.tab[n] = x.tab[n]
          /\ new.tab[name].type = "IMPORT" /\ new.tab[name].value = x.next
      BY <1>4 DEF Introduces
    <2> HIDE DEF name
    <2>2. new.next >= st.next
      BY <1>2, <2>1 DEF Adds
    <2>3. \A n \in DOMAIN st.tab : n \in DOMAIN new.tab /\ new.tab[n] = st.tab[n]
      BY <2>1 DEF Adds
    <2>4. \A n \in DOMAIN new.tab \ DOMAIN st.tab :
             new.tab[n].type = "IMPORT" /\ new.tab[n].value >= st.next /\ new.tab[n].value < new.next
      <3> TAKE n \in DOMAIN new.tab \ DOMAIN st.tab
      <3>1. CASE n = name
        BY <1>2, <2>1, <3>1 DEF Adds
      <3>2. CASE n # name
        <4>1. n \in DOMAIN x.tab \ DOMAIN st.tab /\ new.tab[n] = x.tab[n]
          BY <2>1, <3>2
        <4>2. x.tab[n].type = "IMPORT" /\ x.tab[n].value >= st.next /\ x.tab[n].value < x.next
          BY <4>1 DEF Adds
        <4>3. x.tab[n].value \in Int
          BY <1>2, <4>1
        <4>4. QED
          BY <1>2, <2>1, <4>1, <4>2, <4>3
      <3>3. QED
        BY <3>1, <3>2
    <2>5. \A m, n \in DOMAIN new.tab \ DOMAIN st.tab : m # n => new.tab[m].value # new.tab[n].value
      <3>1. \A n \in DOMAIN x.tab \ DOMAIN st.tab : new.tab[n].value # new.tab[name].value
        <4> TAKE n \in DOMAIN x.tab \ DOMAIN st.tab
        <4>1. x.tab[n].value < x.next /\ x.tab[n].value \in Int
          BY <1>2 DEF Adds
        <4>2. new.tab[n].value = x.tab[n].value /\ new.tab[name].value = x.next
          BY <2>1
        <4>3. QED
          BY <1>2, <4>1, <4>2
      <3>2. \A m, n \in DOMAIN x.tab \ DOMAIN st.tab : m # n => new.tab[m].value # new.tab[n].value
        BY <2>1 DEF Adds
      <3>3. \A n \in DOMAIN new.tab \ DOMAIN st.tab : n = name \/ n \in DOMAIN x.tab \ DOMAIN st.tab
        BY <2>1
      <3>4. QED
        BY <3>1, <3>2, <3>3, Zenon
    <2>6. Adds(st, new)
      BY <1>1, <2>2, <2>3, <2>4, <2>5 DEF Adds
    <2>7. QED
      BY <2>1, <2>6 DEF new, name
  <1>5. QED
    BY <1>1, <1>3, <1>4

LEMMA ImportAdds ==
  ASSUME NEW st \in ImportStates, NEW names \in Seq(ImportSyms)
  PROVE  LET to == ImportAll(st, names)
         IN /\ Adds(st, to)
            /\ \A n : Listed(names, n) => n \in DOMAIN to.tab
            /\ \A n \in DOMAIN to.tab : n \in DOMAIN st.tab \/ Listed(names, n)
  <1> DEFINE N == Len(names)
  <1>1. \A x \in ImportStates, s \in ImportSyms : ImportName(x, s) \in ImportStates
    BY ImportNameStep
  <1>2. \E g \in [0..N -> ImportStates] :
            /\ g[0] = st /\ ImportAll(st, names) = g[N]
            /\ \A k \in 0..N-1 : g[k + 1] = ImportName(g[k], names[k + 1])
    <2> HIDE DEF ImportStates, ImportSyms
    <2> QED BY <1>1, ImportRuns
  <1>p. PICK g \in [0..N -> ImportStates] :
            /\ g[0] = st /\ ImportAll(st, names) = g[N]
            /\ \A k \in 0..N-1 : g[k + 1] = ImportName(g[k], names[k + 1])
    BY <1>2
  <1> DEFINE Good(k) == /\ Adds(st, g[k])
                        /\ \A i \in 1..k : names[i].kind # "local" => Spelled(names[i]) \in DOMAIN g[k].tab
                        /\ \A n \in DOMAIN g[k].tab : n \in DOMAIN st.tab \/ Listed(names, n)
             G == {k \in 0..N : Good(k)}
  <1>3. N \in Nat /\ DOMAIN names = 1..N /\ N \in 0..N /\ 0 \in 0..N
    OBVIOUS
  <1>4. 0 \in G
    <2>1. Adds(st, st)
      BY DEF Adds, ImportStates
    <2>2. 1..0 = {}
      OBVIOUS
    <2>3. Good(0)
      BY <1>p, <2>1, <2>2
    <2> HIDE DEF Good
    <2>4. QED
      BY <1>3, <2>3
  <1>5. ASSUME NEW k \in 0..N-1, k \in G PROVE k + 1 \in G
    <2>1. k \in 0..N /\ k + 1 \in 0..N /\ k + 1 \in DOMAIN names /\ Good(k)
      BY <1>3, <1>5
    <2> DEFINE x == g[k]
               s == names[k + 1]
    <2>2. x \in ImportStates /\ s \in ImportSyms /\ g[k + 1] = ImportName(x, s) /\ Adds(st, x)
      BY <1>p, <2>1
    <2>3. /\ Adds(st, g[k + 1])
          /\ \A n \in DOMAIN x.tab : n \in DOMAIN g[k + 1].tab
          /\ s.kind # "local" => Spelled(s) \in DOMAIN g[k + 1].tab
          /\ \A n \in DOMAIN g[k + 1].tab : n \in DOMAIN x.tab \/ (s.kind # "local" /\ n = Spelled(s))
      <3> HIDE DEF x, s
      <3> QED BY <2>2, AddsOne
    <2>4. \A i \in 1..k+1 : names[i].kind # "local" => Spelled(names[i]) \in DOMAIN g[k + 1].tab
      <3> TAKE i \in 1..k+1
      <3>1. i = k + 1 \/ i \in 1..k
        BY <2>1
      <3>2. i = k + 1 => names[i] = s
        OBVIOUS
      <3>3. i \in 1..k /\ names[i].kind # "local" => Spelled(names[i]) \in DOMAIN x.tab
        BY <2>1
      <3> HIDE DEF x, s
      <3>4. QED
        BY <2>3, <3>1, <3>2, <3>3
    <2>5. \A n \in DOMAIN g[k + 1].tab : n \in DOMAIN st.tab \/ Listed(names, n)
      <3> TAKE n \in DOMAIN g[k + 1].tab
      <3>1. n \in DOMAIN x.tab \/ (s.kind # "local" /\ n = Spelled(s))
        BY <2>3
      <3>2. s.kind # "local" /\ n = Spelled(s) => Listed(names, n)
        BY <2>1 DEF Listed
      <3>3. n \in DOMAIN x.tab => n \in DOMAIN st.tab \/ Listed(names, n)
        BY <2>1
      <3>4. QED
        BY <3>1, <3>2, <3>3
    <2>6. Good(k + 1)
      BY <2>3, <2>4, <2>5
    <2> HIDE DEF Good
    <2>7. QED
      BY <2>1, <2>6
  <1>6. \A k \in 0..N : k \in G
    <2> HIDE DEF G, N
    <2> QED BY <1>3, <1>4, <1>5, UpTo
  <1>7. Good(N)
    BY <1>3, <1>6
  <1> DEFINE to == ImportAll(st, names)
  <1>8. to = g[N]
    BY <1>p
  <1> HIDE DEF to
  <1>9. /\ Adds(st, to)
        /\ \A n : Listed(names, n) => n \in DOMAIN to.tab
        /\ \A n \in DOMAIN to.tab : n \in DOMAIN st.tab \/ Listed(names, n)
    BY <1>3, <1>7, <1>8 DEF Listed
  <1>10. QED
    BY <1>9 DEF to
-----------------------------------------------------------------------------
LEMMA TypeInit == Init => TypeInv
  <1> SUFFICES ASSUME Init PROVE TypeInv
    OBVIOUS
  <1>1. PlaceInv
    <2>1. argv \in CommandLines /\ prog \in Programs
      BY JobsAssumption, ProgramsAssumption DEF JobsAssumption, Init
    <2>2. pc = "args" /\ target = "undef" /\ todo = <<>> /\ at = 1 /\ arg = 1 /\ pass = 0 /\ exit = -1
          /\ file = "untouched"
      BY DEF Init, ArgumentsInit
    <2>3. todo \in Seq(Chunk)
      BY <2>2
    <2>4. pass \in 0..Passes /\ at \in Nat \ {0} /\ arg \in Nat \ {0}
      BY <2>2 DEF Passes
    <2>5. target \in Formats \cup (IF pc \in {"args", "exit"} THEN {"undef"} ELSE {}) /\ pc \notin Assembling
      BY <2>2 DEF Assembling
    <2>6. QED
      BY <2>1, <2>2, <2>3, <2>4, <2>5 DEF PlaceInv
  <1>2. LayoutInv
    <2>1. section = "TEXT" /\ ptr = [TEXT |-> 0, DATA |-> 0, BSS |-> 0] /\ org = 0
          /\ entry = [value |-> 0, def |-> FALSE]
      BY DEF Init, ArgumentsInit
    <2>2. 0 \in 0..Word-1
      BY DEF Word
    <2>3. ptr \in [Sections -> Int] /\ section \in Sections
      BY <2>1 DEF Sections
    <2>4. QED
      BY <2>1, <2>2, <2>3 DEF LayoutInv
  <1>3. TableInv
    <2>1. NoScope \in Name
      BY DEF NoScope, Name
    <2>2. scope = NoScope /\ consts = EmptyTable /\ nextImport = 3 /\ pc = "args"
      BY DEF Init, ArgumentsInit
    <2>3. IsTable(consts) /\ DOMAIN consts = {}
      BY <2>2, EmptyTableType DEF EmptyTable
    <2>4. ImportsIn(consts)
      BY <2>3 DEF ImportsIn
    <2>5. QED
      BY <2>1, <2>2, <2>3, <2>4 DEF TableInv
  <1>4. RecordInv
    <2>1. relocs = <<>> /\ trace = [p \in 0..Passes-1 |-> <<>>]
      BY DEF Init
    <2>2. QED
      BY <2>1 DEF RecordInv
  <1>5. VerdictInv
    BY DEF VerdictInv, Init
  <1>6. OriginInv
    BY DEF OriginInv, Formats, Init, ArgumentsInit
  <1>7. QED
    BY <1>1, <1>2, <1>3, <1>4, <1>5, <1>6 DEF TypeInv

LEMMA KeepsImports ==
  ASSUME NEW tab, NEW new, ImportsIn(tab), Keeps(tab, new)
  PROVE  IsTable(new) /\ ImportsIn(new)
  BY DEF Keeps, ImportsIn

(* An argument changes the options and the constants.                      *)
LEMMA TypeArguments == TypeInv /\ Arguments => TypeInv'
  <1> SUFFICES ASSUME TypeInv, Arguments PROVE TypeInv'
    OBVIOUS
  <1>1. /\ UNCHANGED <<prog, pass, at, todo, section, ptr, scope, nextImport, relocs, trace>>
        /\ UNCHANGED <<errors, warnings, reported>> /\ ArgumentStep
    BY DEF Arguments, verdict
  <1>2. RecordInv' /\ VerdictInv' /\ OriginInv'
    BY <1>1, OriginArguments DEF TypeInv, RecordInv, VerdictInv
  <1>3. /\ argv \in CommandLines /\ arg \in Nat \ {0} /\ pc = "args" /\ org \in 0..Word-1
        /\ target \in Formats \cup {"undef"} /\ entry \in [value : 0..Word-1, def : BOOLEAN]
        /\ exit \in {-1, 0, 1, 2} /\ file \in {"untouched", "opened", "written", "removed"}
        /\ IsTable(consts) /\ ImportsIn(consts)
    BY <1>1 DEF TypeInv, PlaceInv, LayoutInv, TableInv, ArgumentStep, TakeFormat, UnknownFormat, SetOutput,
      SetOrigin, SetLevel, Predefine, BadOption, TakeInput, SecondInput, NoOutput, Settle, Option
  <1>4. ASSUME argv' = argv, arg' \in Nat \ {0}, pc' \in {"args", "main", "exit"},
               pc' = "main" => target' \in Formats, target' \in Formats \cup {"undef"},
               exit' \in {-1, 0, 1, 2}, file' \in {"untouched", "opened", "written", "removed"}
        PROVE  PlaceInv'
    BY <1>1, <1>3, <1>4 DEF TypeInv, PlaceInv, Assembling
  <1>5. ASSUME org' \in 0..Word-1, entry' \in [value : 0..Word-1, def : BOOLEAN]
        PROVE  LayoutInv'
    BY <1>1, <1>5 DEF TypeInv, LayoutInv
  <1>6. ASSUME IsTable(consts'), ImportsIn(consts'),
               pc' \notin {"args", "exit"} => {Dollar, Origin} \subseteq DOMAIN consts'
        PROVE  TableInv'
    BY <1>1, <1>6 DEF TypeInv, TableInv
  <1>7. CASE UnknownFormat \/ BadOption \/ SecondInput \/ NoOutput
    <2>1. GiveUp
      BY <1>7 DEF UnknownFormat, BadOption, SecondInput, NoOutput
    <2>2. UNCHANGED <<argv, arg, target, org, entry, consts>> /\ pc' = "exit" /\ exit' = 1
          /\ file' \in {file, "removed"}
      BY <2>1 DEF GiveUp, options
    <2>3. PlaceInv'
      BY <1>3, <1>4, <2>2
    <2>4. LayoutInv' /\ TableInv'
      BY <1>3, <1>5, <1>6, <2>2
    <2>5. QED
      BY <1>2, <2>3, <2>4 DEF TypeInv
  <1>8. ASSUME NEW n \in {1, 2}, Skip(n), target' \in Formats \cup {"undef"} PROVE PlaceInv'
    BY <1>3, <1>4, <1>8 DEF Skip
  <1>9. ASSUME consts' = consts, pc' = pc PROVE TableInv'
    BY <1>3, <1>6, <1>9
  <1>10. CASE TakeFormat
    <2>1. /\ Skip(2) /\ target' \in Formats /\ consts' = consts /\ pc' = pc
          /\ org' \in {org, 0, 256} /\ entry' \in {entry, [value |-> 0, def |-> FALSE], [value |-> 256, def |-> TRUE]}
      BY <1>10 DEF TakeFormat, Skip
    <2>2. 0 \in 0..Word-1 /\ 256 \in 0..Word-1
      BY DEF Word
    <2>2a. /\ [value |-> 0, def |-> FALSE] \in [value : 0..Word-1, def : BOOLEAN]
           /\ [value |-> 256, def |-> TRUE] \in [value : 0..Word-1, def : BOOLEAN]
      BY <2>2
    <2>2b. org' \in 0..Word-1
      BY <1>3, <2>1, <2>2
    <2>2c. entry' \in [value : 0..Word-1, def : BOOLEAN]
      BY <1>3, <2>1, <2>2a, ZenonT(60)
    <2>3. LayoutInv'
      BY <1>5, <2>2b, <2>2c
    <2>4. PlaceInv' /\ TableInv'
      BY <1>8, <1>9, <2>1
    <2>5. QED
      BY <1>2, <2>3, <2>4 DEF TypeInv
  <1>11. CASE SetOutput \/ SetLevel \/ TakeInput
    <2>1. (Skip(1) \/ Skip(2)) /\ UNCHANGED <<target, org, entry, consts, pc>>
      BY <1>11 DEF SetOutput, SetLevel, TakeInput, Skip, options
    <2>2. PlaceInv' /\ LayoutInv' /\ TableInv'
      BY <1>3, <1>5, <1>8, <1>9, <2>1
    <2>3. QED
      BY <1>2, <2>2 DEF TypeInv
  <1>12. CASE SetOrigin
    <2>1. /\ Skip(2) /\ UNCHANGED <<target, entry, consts, pc>> /\ org' = NumberRead(NextArg) % Word
          /\ arg < Len(argv)
      BY <1>12 DEF SetOrigin, Skip, Option, HasNext
    <2>2. argv[arg + 1] \in Argument
      <3>1. Len(argv) \in Nat /\ \A i \in 1..Len(argv) : argv[i] \in Argument
        BY <1>3, ArgumentTypes
      <3>2. QED
        BY <1>3, <2>1, <3>1
    <2>3. NumberRead(NextArg) \in Int
      BY <2>2 DEF NumberRead, NextArg, Argument
    <2>4. org' \in 0..Word-1
      BY <2>1, <2>3, Wraps
    <2>5. PlaceInv' /\ LayoutInv' /\ TableInv'
      BY <1>3, <1>5, <1>8, <1>9, <2>1, <2>4
    <2>6. QED
      BY <1>2, <2>5 DEF TypeInv
  <1>13. CASE Predefine
    <2> DEFINE name == [inv |-> 0, path |-> <<This.text>>]
    <2>1. /\ Skip(1) /\ UNCHANGED <<target, org, entry>> /\ pc' = "args" /\ arg = Len(argv)
          /\ consts' = AddConst(consts, name, "EXPR", 0)
      BY <1>3, <1>13 DEF Predefine, Skip
    <2>2. This.text \in STRING
      <3>1. \A i \in 1..Len(argv) : argv[i] \in Argument
        BY <1>3, ArgumentTypes
      <3>2. This \in Argument
        BY <1>3, <2>1, <3>1 DEF This
      <3>3. QED
        BY <3>2 DEF Argument
    <2>3. name \in Name
      BY <2>2 DEF Name
    <2> HIDE DEF name
    <2>4. 0 \in Int /\ "EXPR" \in OtherTypes
      BY DEF OtherTypes, ConstTypes
    <2>5. Keeps(consts, consts')
      BY <1>3, <2>1, <2>3, <2>4, AddConstKeeps
    <2>6. TableInv'
      BY <1>3, <1>6, <2>1, <2>5, KeepsImports
    <2>7. PlaceInv' /\ LayoutInv'
      BY <1>3, <1>5, <1>8, <2>1
    <2>8. QED
      BY <1>2, <2>6, <2>7 DEF TypeInv
  <1>14. CASE Settle
    <2> DEFINE mid == AddConst(consts, Dollar, "EXPR", entry'.value)
    <2>1. /\ UNCHANGED <<argv, arg, exit, file>> /\ pc' = "main" /\ target' \in Formats
          /\ org' \in {256, 0, org} /\ entry' \in {entry, [value |-> 256, def |-> TRUE]}
          /\ consts' = AddConst(mid, Origin, "EXPR", org')
      BY ZenonT(40), <1>3, <1>14 DEF Settle, Formats
    <2>2. 0 \in 0..Word-1 /\ 256 \in 0..Word-1
      BY DEF Word
    <2>2a. \A v \in 0..Word-1, d \in BOOLEAN : [value |-> v, def |-> d] \in [value : 0..Word-1, def : BOOLEAN]
      OBVIOUS
    <2>2b. org' \in 0..Word-1
      BY <1>3, <2>1, <2>2
    <2>2c. entry' \in [value : 0..Word-1, def : BOOLEAN]
      BY <1>3, <2>1, <2>2, <2>2a, ZenonT(60)
    <2>3. org' \in 0..Word-1 /\ entry' \in [value : 0..Word-1, def : BOOLEAN]
      BY <2>2b, <2>2c
    <2>4. org' \in Int /\ entry'.value \in Int /\ "EXPR" \in OtherTypes
      <3>1. \A v \in 0..Word-1 : v \in Int
        BY WordInt
      <3>2. QED
        BY <2>3, <3>1 DEF OtherTypes, ConstTypes
    <2>5. Dollar \in Name /\ Origin \in Name
      BY DollarAssumption DEF DollarAssumption, Dollar, Origin, Name
    <2>6. Keeps(consts, mid) /\ Dollar \in DOMAIN mid
      BY <1>3, <2>4, <2>5, AddConstKeeps
    <2> HIDE DEF mid
    <2>7. IsTable(mid)
      BY <2>6 DEF Keeps
    <2>8. Keeps(mid, consts') /\ Origin \in DOMAIN consts'
      BY <2>1, <2>4, <2>5, <2>7, AddConstKeeps
    <2>9. Keeps(consts, consts') /\ Dollar \in DOMAIN consts'
      BY <2>6, <2>8, KeepsOn DEF Keeps
    <2>10. TableInv'
      BY <1>3, <1>6, <2>8, <2>9, KeepsImports
    <2>11. PlaceInv' /\ LayoutInv'
      BY <1>3, <1>4, <1>5, <2>1, <2>3
    <2>12. QED
      BY <1>2, <2>10, <2>11 DEF TypeInv
  <1>15. QED
    BY <1>1, <1>7, <1>10, <1>11, <1>12, <1>13, <1>14 DEF ArgumentStep
-----------------------------------------------------------------------------
(* What a line is laid out in.                                             *)
LEMMA StatementChunks ==
  ASSUME NEW stmt \in Statement
  PROVE  Items(stmt) \in Seq(Chunk) /\ Lead(stmt) \in Seq(Chunk)
  <1>1. stmt.steps \in Seq(Chunk) /\ stmt.ins.lead \in 0..2
    <2>1. stmt.steps \in Seq(Item) /\ stmt.ins.lead \in 0..2
      BY DEF Statement, Instruction
    <2>2. \A c \in Item : c \in Chunk
      BY DEF Item
    <2>3. ASSUME NEW S, NEW T, NEW q \in Seq(S), \A c \in S : c \in T PROVE q \in Seq(T)
      BY <2>3
    <2> HIDE DEF Item, Chunk
    <2>4. QED
      BY <2>1, <2>2, <2>3
  <1>2. stmt.steps # <<>> => <<stmt.steps[1]>> \in Seq(Chunk)
    <2>1. ASSUME NEW S, NEW q \in Seq(S), q # <<>> PROVE <<q[1]>> \in Seq(S)
      BY <2>1
    <2>2. QED
      BY <1>1, <2>1
  <1>3. Items(stmt) \in Seq(Chunk)
    BY <1>1, <1>2 DEF Items
  <1>4. stmt.ins.lead \in Nat
    BY <1>1
  <1>5. Fixed(stmt.ins.lead) \in Chunk
    BY <1>4, ChunkParts
  <1>6. <<Fixed(stmt.ins.lead)>> \in Seq(Chunk) /\ <<>> \in Seq(Chunk)
    <2> HIDE DEF Fixed, Chunk
    <2> QED BY <1>5, Tuples
  <1>7. QED
    BY <1>3, <1>6 DEF Lead

LEMMA TakenChunks ==
  ASSUME NEW stmt \in Statement, stmt.ins.cmd # "SAL", NEW row \in Taken(stmt.ins)
  PROVE  Lead(stmt) \o RowChunks(row, stmt.ins.params) \in Seq(Chunk)
  <1> DEFINE lex == lookupLex(stmt.ins.cmd)
             params == stmt.ins.params
             r == RowFor(lex, stmt.ins.dist, params)
  <1>1. r # 0 /\ row = RowsOf(lex)[r]
    BY DEF Taken
  <1>2. RowsOf(lex) \in SafeRows
    BY SalByName, SafeRowsOf
  <1>3. row \in SafeRow /\ Len(row.types) = Len(params)
    <2> HIDE DEF lex
    <2> QED BY <1>1, <1>2, RowTaken
  <1>4. params \in Seq(Operand)
    BY DEF Statement, Instruction
  <1>5. RowChunks(row, params) \in Seq(Chunk)
    BY <1>3, <1>4, RowChunksType
  <1>6. QED
    BY <1>5, StatementChunks, Joined

(* Where a line leaves the loop, and what it has begun to emit.            *)
LEMMA LinesPlace ==
  ASSUME TypeInv, LineStep
  PROVE  PlaceInv'
  <1>1. PlaceInv
    BY DEF TypeInv
  <1>2. ASSUME UNCHANGED <<input, output, pass>>, pc = "line", pc' \in Assembling,
               at' \in {at, at + 1}, todo' \in Seq(Chunk)
        PROVE  PlaceInv'
    <2>1. UNCHANGED <<arg, argv, prog, target, file, exit, pass>>
      BY <1>2 DEF input, output
    <2>2. at' \in Nat \ {0}
      BY <1>1, <1>2 DEF PlaceInv
    <2>3. target \in Formats /\ pass < Passes
      BY <1>1, <1>2 DEF PlaceInv, Assembling
    <2>4. QED
      BY <1>1, <1>2, <2>1, <2>2, <2>3 DEF PlaceInv
  <1>3. todo \in Seq(Chunk)
    BY <1>1 DEF PlaceInv
  <1>4. ASSUME pc = "line", pc' \in Assembling, Done \/ Directive PROVE PlaceInv'
    BY <1>2, <1>3, <1>4 DEF Done, Directive
  <1>5. CASE LabelAlone \/ Reserve \/ SectionDirective \/ Export \/ Import \/ OrgDirective
             \/ OrgRefused \/ Equ
    <2>1. pc = "line" /\ pc' = "line" /\ Done
      BY <1>5 DEF LabelAlone, Reserve, SectionDirective, Export, Import, OrgDirective, OrgRefused, Equ, OnLine
    <2>2. QED
      BY <1>4, <2>1 DEF Assembling
  <1>6. CASE End \/ SyntaxError
    <2>1. pc = "line" /\ pc' = "end" /\ Done
      BY <1>6 DEF End, SyntaxError, OnLine
    <2>2. QED
      BY <1>4, <2>1 DEF Assembling
  <1>7. CASE Define \/ Undef
    <2>1. pc = "line" /\ pc' = "line" /\ Directive
      BY <1>7 DEF Define, Undef, OnLine, Directive
    <2>2. QED
      BY <1>4, <2>1 DEF Assembling
  <1>8. CASE List \/ Instr \/ NoRow \/ OutsideText
    <2>1. pc = "line" /\ at <= Len(prog)
      BY <1>8 DEF List, Instr, NoRow, OutsideText, OnLine
    <2>2. Stmt \in Statement /\ Stmt.ins.cmd # "SAL"
      BY <1>1, <2>1, LineTypes DEF PlaceInv
    <2>3. Items(Stmt) \in Seq(Chunk) /\ Lead(Stmt) \in Seq(Chunk)
      BY <2>2, StatementChunks
    <2>4. \A row \in Taken(Stmt.ins) : Lead(Stmt) \o RowChunks(row, Stmt.ins.params) \in Seq(Chunk)
      BY <2>2, TakenChunks
    <2>5. PICK chunks, said : chunks \in Seq(Chunk) /\ Starts(chunks, said)
      BY <1>8, <2>3, <2>4 DEF List, Instr, NoRow, OutsideText
    <2>6. QED
      BY <1>2, <2>1, <2>5 DEF Starts, Assembling
  <1>9. CASE Exhausted
    BY <1>2, <1>3, <1>9 DEF Exhausted, Assembling
  <1>10. QED
    BY <1>5, <1>6, <1>7, <1>8, <1>9 DEF LineStep

(* The pointers a line moves.                                              *)
LEMMA LinesLayout ==
  ASSUME TypeInv, LineStep
  PROVE  LayoutInv'
  <1>1. LayoutInv
    BY DEF TypeInv
  <1>2. CASE UNCHANGED layout
    BY <1>1, <1>2 DEF LayoutInv, layout
  <1>3. ASSUME pc = "line", at <= Len(prog)
        PROVE  /\ Stmt \in Statement
               /\ \A sc : Value(LineConsts, sc, Stmt.e) \in Int
    <2>1. Stmt \in Statement
      BY <1>3, LineTypes DEF TypeInv, PlaceInv
    <2>2. Stmt.e \in Expr
      BY <2>1 DEF Statement
    <2>3. IsTable(LineConsts)
      BY <1>3, LineTable DEF GoodTable
    <2>4. QED
      BY <2>1, <2>2, <2>3, ValueType
  <1>4. ASSUME NEW sec \in Sections, NEW n \in Int, ptr' = Bump(sec, n), UNCHANGED <<section, org, entry>>
        PROVE  LayoutInv'
    BY <1>1, <1>4, BumpType DEF LayoutInv
  <1>5. CASE Reserve
    <2>1. pc = "line" /\ at <= Len(prog) /\ UNCHANGED <<section, org, entry>>
          /\ ptr' = Bump("BSS", Stmt.n * Value(LineConsts, LineScope, Stmt.e))
      BY <1>5 DEF Reserve, OnLine
    <2>2. Stmt.n \in Nat /\ Value(LineConsts, LineScope, Stmt.e) \in Int
      BY <1>3, <2>1 DEF Statement
    <2> DEFINE v == Value(LineConsts, LineScope, Stmt.e)
    <2> HIDE DEF v
    <2>3. Stmt.n * v \in Int /\ "BSS" \in Sections
      BY <2>2 DEF Sections, v
    <2>4. QED
      BY <1>4, <2>1, <2>3 DEF v
  <1>6. CASE SectionDirective
    <2>1. UNCHANGED <<ptr, org, entry>> /\ section' \in Sections
      BY <1>1, <1>6, SectionTypes DEF SectionDirective, LayoutInv
    <2>2. QED
      BY <1>1, <2>1 DEF LayoutInv
  <1>7. CASE OrgDirective
    <2> DEFINE v == Value(LineConsts, LineScope, Stmt.e)
    <2>1. pc = "line" /\ at <= Len(prog) /\ UNCHANGED <<section, entry>>
          /\ org' = v % Word /\ ptr' = [ptr EXCEPT !["TEXT"] = v % Word]
      BY <1>7 DEF OrgDirective, OnLine
    <2>2. v % Word \in 0..Word-1 /\ v % Word \in Int
      BY <1>3, <2>1, Wraps
    <2> HIDE DEF v
    <2>3. QED
      BY <1>1, <2>1, <2>2 DEF LayoutInv, Sections
  <1>8. CASE End
    <2> DEFINE v == Value(LineConsts, LineScope, Stmt.e)
    <2>1. pc = "line" /\ at <= Len(prog) /\ UNCHANGED <<section, ptr, org>>
          /\ entry' \in {entry, [value |-> v % Word, def |-> TRUE]}
      BY <1>8 DEF End, OnLine
    <2>2. v % Word \in 0..Word-1
      BY <1>3, <2>1, Wraps
    <2> HIDE DEF v
    <2>3. [value |-> v % Word, def |-> TRUE] \in [value : 0..Word-1, def : BOOLEAN]
      BY <2>2
    <2>4. entry' \in [value : 0..Word-1, def : BOOLEAN]
      BY <1>1, <2>1, <2>3, Zenon DEF LayoutInv
    <2>5. QED
      BY <1>1, <2>1, <2>4 DEF LayoutInv
  <1>9. CASE SyntaxError
    <2>1. pc = "line" /\ at <= Len(prog) /\ UNCHANGED <<section, org, entry>>
          /\ ptr' = Bump(section, Stmt.ins.lead)
      BY <1>9 DEF SyntaxError, OnLine
    <2>2. Stmt.ins \in Instruction /\ section \in Sections
      BY <1>1, <1>3, <2>1 DEF Statement, LayoutInv
    <2>3. Stmt.ins.lead \in 0..2
      <3> HIDE DEF Stmt
      <3> QED BY <2>2 DEF Instruction
    <2>4. Stmt.ins.lead \in Int
      BY <2>3
    <2>5. QED
      BY <1>4, <2>1, <2>2, <2>4
  <1>10. CASE LabelAlone \/ Export \/ Import \/ OrgRefused \/ Equ \/ Define \/ Undef \/ Exhausted
    BY <1>2, <1>10 DEF LabelAlone, Export, Import, OrgRefused, Equ, Define, Undef, Exhausted, Directive
  <1>11. CASE List \/ Instr \/ NoRow \/ OutsideText
    BY <1>2, <1>11 DEF List, Instr, NoRow, OutsideText, Starts
  <1>12. QED
    BY <1>5, <1>6, <1>7, <1>8, <1>9, <1>10, <1>11 DEF LineStep

(* What an IMPORT line starts from and comes to.                           *)
LineState == [tab |-> LineConsts, next |-> nextImport, said |-> LineSaid]
LEMMA ImportEffect ==
  ASSUME TypeInv, Import
  PROVE  /\ LineState \in ImportStates /\ Stmt.names \in Seq(ImportSyms)
         /\ Keeps(consts, LineConsts) /\ scope' \in Name
         /\ target # "rdf" => consts' = LineConsts /\ nextImport' = nextImport
         /\ target = "rdf" => \E to \in ImportStates :
              /\ Adds(LineState, to) /\ consts' = to.tab /\ nextImport' = to.next
              /\ \A n : Listed(Stmt.names, n) => n \in DOMAIN to.tab
              /\ \A n \in DOMAIN to.tab : n \in DOMAIN LineConsts \/ Listed(Stmt.names, n)
  <1>1. pc = "line" /\ at <= Len(prog) /\ Stmt.op = "import" /\ scope' = LineScope
    BY DEF Import, OnLine
  <1>2. Keeps(consts, LineConsts) /\ GoodTable(LineConsts) /\ LineScope \in Name
    BY <1>1, LineTable
  <1>3. LineSaid \in SUBSET (ErrorKinds \cup WarningKinds)
    BY DEF LineSaid, ErrorKinds, WarningKinds
  <1>4. LineConsts \in Tables /\ nextImport \in Nat /\ nextImport >= 3
    BY <1>2, TablesAre DEF GoodTable, TypeInv, TableInv
  <1>5. LineState \in ImportStates
    <2> HIDE DEF LineConsts, LineSaid
    <2> QED BY <1>2, <1>3, <1>4 DEF LineState, ImportStates
  <1>6. Stmt.names \in Seq(ImportSyms)
    <2>1. Stmt \in Statement /\ \A k \in DOMAIN Stmt.names : Stmt.names[k].name \notin {"$", "$$"}
      BY <1>1, LineTypes DEF TypeInv, PlaceInv
    <2>2. Stmt.names \in Seq(Sym)
      BY <2>1 DEF Statement
    <2>3. \A k \in DOMAIN Stmt.names : Stmt.names[k] \in ImportSyms
      BY <2>1, <2>2 DEF ImportSyms
    <2> DEFINE q == Stmt.names
    <2> HIDE DEF q, Sym, ImportSyms
    <2>4. q \in Seq(ImportSyms)
      BY <2>2, <2>3 DEF q
    <2>5. QED
      BY <2>4 DEF q
  <1>7. CASE target # "rdf"
    <2>1. consts' = LineConsts /\ nextImport' = nextImport
      BY <1>7 DEF Import
    <2>2. QED
      BY <1>1, <1>2, <1>5, <1>6, <1>7, <2>1
  <1>8. CASE target = "rdf"
    <2> DEFINE to == ImportAll(LineState, Stmt.names)
    <2>1. consts' = to.tab /\ nextImport' = to.next
      BY <1>8 DEF Import, LineState, ImportAll
    <2>2. /\ Adds(LineState, to)
          /\ \A n : Listed(Stmt.names, n) => n \in DOMAIN to.tab
          /\ \A n \in DOMAIN to.tab : n \in DOMAIN LineState.tab \/ Listed(Stmt.names, n)
      BY <1>5, <1>6, ImportAdds
    <2>3. LineState.tab = LineConsts
      BY DEF LineState
    <2> HIDE DEF to
    <2>4. to \in ImportStates
      BY <2>2 DEF Adds
    <2>5. QED
      BY <1>1, <1>2, <1>5, <1>6, <1>8, <2>1, <2>2, <2>3, <2>4
  <1>9. QED
    BY <1>7, <1>8

LEMMA LinesTable ==
  ASSUME TypeInv, LineStep
  PROVE  TableInv'
  <1>1. GoodTable(consts) /\ scope \in Name /\ nextImport \in Nat /\ nextImport >= 3
    <2>1. pc = "line"
      BY DEF LineStep, OnLine, LabelAlone, List, Instr, NoRow, OutsideText, Reserve, SectionDirective, Export,
        Import, OrgDirective, OrgRefused, End, Equ, SyntaxError, Define, Undef, Exhausted
    <2>2. QED
      BY <2>1 DEF TypeInv, TableInv, GoodTable
  <1>2. ASSUME GoodTable(consts'), scope' \in Name, nextImport' \in Nat, nextImport' >= 3 PROVE TableInv'
    BY <1>2 DEF TableInv, GoodTable
  <1>3. CASE Keeps(consts, consts') /\ scope' \in Name /\ nextImport' = nextImport
    BY <1>1, <1>2, <1>3, KeepsGood
  <1>4. CASE Import
    <2>1. /\ LineState \in ImportStates /\ Keeps(consts, LineConsts) /\ scope' \in Name
          /\ target # "rdf" => consts' = LineConsts /\ nextImport' = nextImport
          /\ target = "rdf" => \E to \in ImportStates : consts' = to.tab /\ nextImport' = to.next
      BY <1>4, ImportEffect
    <2>2. CASE target # "rdf"
      BY <1>1, <1>2, <2>1, <2>2, KeepsGood
    <2>3. CASE target = "rdf"
      <3>1. PICK to \in ImportStates : consts' = to.tab /\ nextImport' = to.next
        BY <2>1, <2>3
      <3>2. GoodTable(to.tab) /\ to.next \in Nat /\ to.next >= 3
        BY DEF ImportStates
      <3>3. QED
        BY <1>2, <2>1, <3>1, <3>2
    <2>4. QED
      BY <2>2, <2>3
  <1>5. CASE Undef
    <2> DEFINE name == [inv |-> 0, path |-> <<Stmt.names[1].name>>]
    <2>1. /\ pc = "line" /\ at <= Len(prog) /\ Stmt.op = "%undef" /\ UNCHANGED <<scope, nextImport>>
          /\ consts' = RemoveConst(consts, name)
      BY <1>5 DEF Undef, OnLine, Directive
    <2>2. /\ Stmt \in Statement /\ Len(Stmt.names) = 1
          /\ \A k \in DOMAIN Stmt.names : Stmt.names[k].name \notin {"$", "$$"}
      BY <2>1, LineTypes DEF TypeInv, PlaceInv
    <2>3. Stmt.names[1] \in Sym /\ Stmt.names[1].name \notin {"$", "$$"}
      BY <2>2 DEF Statement
    <2>4. name \notin {Dollar, Origin}
      BY <2>3, SymTypes
    <2> HIDE DEF name
    <2>5. IsTable(consts') /\ DOMAIN consts' = DOMAIN consts \ {name}
          /\ \A n \in DOMAIN consts' : n \in DOMAIN consts /\ consts'[n] = consts[n]
      BY <1>1, <2>1, RemoveConstTable DEF RemoveConst, GoodTable
    <2>6. GoodTable(consts')
      BY <1>1, <2>4, <2>5 DEF GoodTable, ImportsIn
    <2>7. QED
      BY <1>1, <1>2, <2>1, <2>6
  <1>6. QED
    BY <1>3, <1>4, <1>5, LinesKeep

(* What a line puts into the trace.                                        *)
NewLine == [name |-> LineName, scope |-> scope, section |-> section, ptrs |-> <<ptr>>, equ |-> Stmt.op = "equ"]
LEMMA NewLineType ==
  ASSUME TypeInv, pc = "line", at <= Len(prog)
  PROVE  NewLine \in TraceLine
  <1>1. LineName \in Name /\ section \in Sections /\ <<ptr>> \in Seq([Sections -> Int]) /\ scope \in Name
    BY LineTable DEF LayoutInv, TypeInv, TableInv
  <1>2. (Stmt.op = "equ") \in BOOLEAN
    OBVIOUS
  <1> HIDE DEF LineName, Stmt
  <1>3. QED
    BY <1>1, <1>2 DEF TraceLine, NewLine

(* The history and the diagnostics.                                        *)
LEMMA LinesRecord ==
  ASSUME TypeInv, LineStep
  PROVE  RecordInv' /\ VerdictInv'
  <1>1. PlaceInv /\ LayoutInv /\ RecordInv /\ VerdictInv /\ scope \in Name
    BY DEF TypeInv, TableInv
  <1>2. ASSUME pc = "line", at <= Len(prog), Traced PROVE trace' \in [0..Passes-1 -> Seq(TraceLine)]
    <2> DEFINE line == NewLine
    <2>3. line \in TraceLine
      BY <1>2, NewLineType
    <2>4. pass \in 0..Passes-1
      BY <1>1, <1>2 DEF PlaceInv, Assembling, Passes
    <2>5. trace' = [trace EXCEPT ![pass] = Append(trace[pass], line)]
      BY <1>2 DEF Traced, NewLine
    <2> HIDE DEF line, TraceLine
    <2>6. trace[pass] \in Seq(TraceLine)
      BY <1>1, <2>4 DEF RecordInv
    <2>7. Append(trace[pass], line) \in Seq(TraceLine)
      BY <2>3, <2>6
    <2>8. QED
      BY <1>1, <2>4, <2>5, <2>7 DEF RecordInv
  <1>3. ASSUME NEW said, Report(said) PROVE VerdictInv'
    BY <1>1, <1>3 DEF Report, VerdictInv
  <1>4. ASSUME UNCHANGED relocs, pc = "line", at <= Len(prog), Traced PROVE RecordInv'
    BY <1>1, <1>2, <1>4 DEF RecordInv
  <1>5. CASE LabelAlone \/ Reserve \/ SectionDirective \/ Export \/ Import \/ OrgDirective
             \/ OrgRefused \/ End \/ Equ \/ SyntaxError
    <2>1. pc = "line" /\ at <= Len(prog) /\ Done /\ \E said : Report(said)
      BY <1>5 DEF LabelAlone, Reserve, SectionDirective, Export, Import, OrgDirective, OrgRefused, Equ, OnLine,
        End, SyntaxError
    <2>2. QED
      BY <1>3, <1>4, <2>1 DEF Done
  <1>6. CASE List \/ Instr \/ NoRow \/ OutsideText
    <2>1. pc = "line" /\ at <= Len(prog) /\ \E chunks, said : Starts(chunks, said)
      BY <1>6 DEF List, Instr, NoRow, OutsideText, OnLine
    <2>2. QED
      BY <1>3, <1>4, <2>1 DEF Starts
  <1>7. CASE Exhausted
    <2>1. UNCHANGED <<errors, warnings, reported, relocs, trace>>
      BY <1>7 DEF Exhausted, verdict
    <2>2. QED
      BY <1>1, <2>1 DEF RecordInv, VerdictInv
  <1>8. CASE Define \/ Undef
    <2>1. /\ pc = "line" /\ at <= Len(prog) /\ Traced
          /\ UNCHANGED <<errors, warnings, reported, relocs>>
      BY <1>8 DEF Define, Undef, Directive, OnLine, verdict
    <2>2. QED
      BY <1>1, <1>4, <2>1 DEF VerdictInv
  <1>9. QED
    BY <1>5, <1>6, <1>7, <1>8 DEF LineStep
-----------------------------------------------------------------------------
(* Emitting a chunk moves the pointer of the section and may add records;  *)
(* where one says a field is, the field is.                                *)
LEMMA ReferentIds ==
  ASSUME TypeInv
  PROVE  \A n \in DOMAIN consts : ReferentSeg(consts[n]) \in Nat
  <1>1. ASSUME NEW n \in DOMAIN consts PROVE ReferentSeg(consts[n]) \in Nat
    <2>1. consts[n] \in Entry /\ (consts[n].type = "IMPORT" => consts[n].value \in Nat)
      BY <1>1 DEF TypeInv, TableInv, IsTable, ImportsIn
    <2>2. consts[n].section \in Sections
      BY <2>1 DEF Entry
    <2>3. QED
      BY <2>1, <2>2, SectionTypes DEF ReferentSeg
  <1>2. QED
    BY <1>1

LEMMA HereOffset ==
  ASSUME TypeInv, NEW n \in {0, 1, 2}
  PROVE  Here \in Int /\ Here + n \in Offsets(section) /\ Here + n \in Int
  <1>1. ptr \in [Sections -> Int] /\ section \in Sections /\ ptr["TEXT"] \in 0..Word-1
        /\ ptr["DATA"] \in 0..Word-1
    BY DEF TypeInv, LayoutInv
  <1>2. Here \in Int
    BY <1>1 DEF Here
  <1>3. section # "BSS" => Here \in 0..Word-1
    BY <1>1 DEF Here, Sections
  <1>4. \A w \in Nat, v \in Int : (v \in 0..w-1 => v + n \in 0..w+1) /\ v + n \in Int
    <2>1. ASSUME NEW w \in Nat, NEW v \in Int PROVE (v \in 0..w-1 => v + n \in 0..w+1) /\ v + n \in Int
      <3>1. n = 0 \/ n = 1 \/ n = 2
        OBVIOUS
      <3>2. QED
        BY <2>1, <3>1
    <2>2. QED
      BY <2>1
  <1>w. Word \in Nat
    BY DEF Word
  <1> HIDE DEF Here
  <1>5. (section # "BSS" => Here + n \in 0..Word+1) /\ Here + n \in Int
    BY <1>2, <1>3, <1>4, <1>w
  <1>6. QED
    BY <1>2, <1>5 DEF Offsets

LEMMA RelocType ==
  ASSUME TypeInv, NEW n \in {0, 1, 2}, NEW width \in {2, 4}, NEW seg \in Nat, NEW rel \in BOOLEAN,
         NEW para \in BOOLEAN
  PROVE  Reloc(Here + n, width, seg, rel, para) \in Patches
  <1> DEFINE ofs == Here + n
             r == Reloc(ofs, width, seg, rel, para)
  <1>1. section \in Sections /\ ofs \in Offsets(section) /\ ofs \in Int
    BY HereOffset DEF TypeInv, LayoutInv
  <1> HIDE DEF ofs
  <1>2. r \in [sec : Sections, ofs : Int, width : {2, 4}, seg : Nat, rel : BOOLEAN, para : BOOLEAN]
    BY <1>1 DEF Reloc
  <1>3. r.ofs = ofs /\ r.sec = section
    BY DEF Reloc
  <1> HIDE DEF r
  <1>4. r \in Patches
    BY <1>1, <1>2, <1>3 DEF Patches
  <1>5. QED
    BY <1>4 DEF r, ofs

LEMMA AddRelocType ==
  ASSUME NEW list \in Seq(Patches), NEW r \in Patches
  PROVE  AddReloc(list, r) \in Seq(Patches)
  <1> HIDE DEF Patches
  <1>1. <<r>> \o list \in Seq(Patches)
    OBVIOUS
  <1>2. QED
    BY <1>1 DEF AddReloc

(* A chunk is emitted.                                                     *)
LEMMA PutTypes ==
  ASSUME TypeInv, pc = "emit", todo # <<>>, NEW size \in Int, ptr' = Bump(section, size),
         todo' = Tail(todo), TracedOn,
         UNCHANGED <<input, output, symbols, section, org, entry, pass, pc, at>>,
         relocs' \in Seq(Patches), VerdictInv'
  PROVE  TypeInv'
  <1>1. PlaceInv /\ LayoutInv /\ TableInv /\ RecordInv
    BY DEF TypeInv
  <1>2. PlaceInv'
    <2>1. todo \in Seq(Chunk)
      BY <1>1 DEF PlaceInv
    <2>2. Tail(todo) \in Seq(Chunk)
      <3> HIDE DEF Chunk
      <3> QED BY <2>1
    <2>3. UNCHANGED <<arg, argv, prog, target, file, exit, pass, pc, at>> /\ todo' \in Seq(Chunk)
      BY <2>2 DEF input, output
    <2>4. QED
      BY <1>1, <2>3 DEF PlaceInv
  <1>3. LayoutInv'
    <2>1. section \in Sections
      BY <1>1 DEF LayoutInv
    <2>2. QED
      BY <1>1, <2>1, BumpType DEF LayoutInv
  <1>4. TableInv'
    BY <1>1 DEF TableInv, symbols
  <1>o. OriginInv'
    BY OriginStays DEF TypeInv
  <1>5. RecordInv'
    <2> DEFINE lines == trace[pass]
               line  == lines[at]
               more  == [line EXCEPT !.ptrs = Append(@, ptr')]
    <2>1. pass \in 0..Passes-1 /\ trace \in [0..Passes-1 -> Seq(TraceLine)]
      BY <1>1 DEF PlaceInv, RecordInv, Assembling, Passes
    <2>2. lines \in Seq(TraceLine)
      BY <2>1
    <2>3. trace' = [trace EXCEPT ![pass] = [lines EXCEPT ![at] = more]]
      BY DEF TracedOn
    <2>4. ptr' \in [Sections -> Int]
      BY <1>3 DEF LayoutInv
    <2>5. at \in DOMAIN lines => more \in TraceLine
      <3> SUFFICES ASSUME at \in DOMAIN lines PROVE more \in TraceLine
        OBVIOUS
      <3>1. line \in TraceLine
        BY <2>2
      <3> HIDE DEF line
      <3>2. Append(line.ptrs, ptr') \in Seq([Sections -> Int])
        BY <2>4, <3>1 DEF TraceLine
      <3>3. QED
        BY <3>1, <3>2 DEF TraceLine
    <2>6. ASSUME NEW S, NEW q \in Seq(S), NEW i, NEW v, i \in DOMAIN q => v \in S
          PROVE  [q EXCEPT ![i] = v] \in Seq(S)
      <3> DEFINE n == Len(q)
                 r == [q EXCEPT ![i] = v]
      <3>1. n \in Nat /\ q \in [1..n -> S] /\ DOMAIN q = 1..n
        BY <2>6
      <3>2. r \in [1..n -> S]
        BY <2>6, <3>1
      <3>3. \A m \in Nat : \A f \in [1..m -> S] : f \in Seq(S)
        OBVIOUS
      <3> HIDE DEF n, r
      <3>4. r \in Seq(S)
        BY <3>1, <3>2, <3>3
      <3>5. QED
        BY <3>4 DEF r
    <2> HIDE DEF lines, more
    <2>7. [lines EXCEPT ![at] = more] \in Seq(TraceLine)
      BY <2>2, <2>5, <2>6
    <2>8. QED
      BY <1>1, <2>1, <2>3, <2>7 DEF RecordInv
  <1>6. QED
    BY <1>2, <1>3, <1>4, <1>5, <1>o DEF TypeInv

LEMMA TypeEmit == TypeInv /\ EmitStep => TypeInv'
  <1> SUFFICES ASSUME TypeInv, EmitStep PROVE TypeInv'
    OBVIOUS
  <1>1. VerdictInv /\ relocs \in Seq(Patches) /\ todo \in Seq(Chunk) /\ pc = "emit"
        /\ IsTable(consts) /\ scope \in Name
    BY DEF TypeInv, RecordInv, PlaceInv, TableInv, EmitStep, EmitBytes, EmitByte, RejectSeg, EmitSeg, EmitWord,
      EmitLong, EmitRel8, ShortToImport, EmitRel16, NearToImport, FarRejected, EmitFar, EmitAddress, EmitBased,
      LineEmitted, Emitting
  <1>2. ASSUME NEW said, Report(said) PROVE VerdictInv'
    BY <1>1, <1>2 DEF Report, VerdictInv
  <1>3. ASSUME UNCHANGED verdict PROVE VerdictInv'
    BY <1>1, <1>3 DEF verdict, VerdictInv
  <1>4. ASSUME NEW kind, NEW ofs, NEW width, NEW v, NEW size \in Int, Put(kind, ofs, width, v, size),
               relocs' \in Seq(Patches), todo # <<>>, (\E said : Report(said)) \/ UNCHANGED verdict
        PROVE  TypeInv'
    <2>1. VerdictInv'
      BY <1>2, <1>3, <1>4
    <2>2. QED
      BY <1>1, <1>4, <2>1, PutTypes DEF Put
  <1>e. ASSUME \E kind, ofs, width, v, size : size \in {1, 2, 3, 4} /\ Put(kind, ofs, width, v, size),
               relocs' \in Seq(Patches), todo # <<>>, (\E said : Report(said)) \/ UNCHANGED verdict
        PROVE  TypeInv'
    BY <1>4, <1>e
  <1>5. ASSUME NEW n \in {0, 1, 2}, NEW width \in {2, 4}, NEW c, c \in {consts[m] : m \in DOMAIN consts},
               NEW rel \in BOOLEAN, NEW para \in BOOLEAN, NEW list \in Seq(Patches)
        PROVE  AddReloc(list, Reloc(Here + n, width, ReferentSeg(c), rel, para)) \in Seq(Patches)
    <2>1. ReferentSeg(c) \in Nat
      BY <1>5, ReferentIds
    <2>2. Reloc(Here + n, width, ReferentSeg(c), rel, para) \in Patches
      BY <1>5, <2>1, RelocType
    <2>3. QED
      BY <1>5, <2>2, AddRelocType
  <1>6. IsRef => Ref \in {consts[m] : m \in DOMAIN consts}
    BY DEF IsRef, Ref, SingleRef, Referent, HasType
  <1>7. Here + 0 = Here
    <2>1. Here \in Int
      BY HereOffset
    <2>2. QED
      BY <2>1
  <1>8. CASE EmitBytes
    <2>1. Head(todo) \in Chunk /\ todo # <<>>
      BY <1>1, <1>8 DEF EmitBytes, Emitting
    <2>2. Next1.n \in Nat
      BY <2>1 DEF Next1, Chunk
    <2>3. ptr' = Bump(section, Next1.n) /\ Next1.n \in Int
      BY <1>8, <2>2 DEF EmitBytes
    <2>4. VerdictInv' /\ relocs' = relocs
      BY <1>3, <1>8 DEF EmitBytes
    <2>5. QED
      BY <1>1, <1>8, <2>1, <2>3, <2>4, PutTypes DEF EmitBytes
  <1>9. CASE EmitByte \/ RejectSeg \/ EmitRel8 \/ ShortToImport \/ EmitRel16 \/ FarRejected
    <2>1. /\ \E kind, ofs, width, v, size : size \in {1, 2, 3, 4} /\ Put(kind, ofs, width, v, size)
          /\ (\E said : Report(said))
          /\ relocs' = relocs /\ todo # <<>>
      BY <1>9 DEF EmitByte, RejectSeg, EmitRel8, ShortToImport, EmitRel16, FarRejected, Emitting
    <2>2. QED
      BY <1>1, <1>e, <2>1
  <1>10. CASE EmitBased
    <2>1. /\ \E kind, ofs, width, v, size : size \in {1, 2, 3, 4} /\ Put(kind, ofs, width, v, size)
          /\ (\E said : Report(said))
          /\ relocs' = relocs /\ todo # <<>>
      BY <1>10 DEF EmitBased, Emitting
    <2>2. QED
      BY <1>1, <1>e, <2>1
  <1>11. CASE EmitSeg
    <2>1. /\ \E kind, ofs, width, v, size : size \in {1, 2, 3, 4} /\ Put(kind, ofs, width, v, size)
          /\ UNCHANGED verdict /\ todo # <<>>
          /\ relocs' = AddReloc(relocs, Reloc(Here, 2, ReferentSeg(consts[SegName(Next1.e)]), FALSE, TRUE))
          /\ SegName(Next1.e) \in DOMAIN consts
      BY <1>11 DEF EmitSeg, Emitting, SegRef, HasType
    <2>2. relocs' \in Seq(Patches)
      BY <1>1, <1>5, <1>7, <2>1
    <2>3. QED
      BY <1>e, <2>1, <2>2
  <1>12. CASE EmitWord
    <2>1. /\ \E kind, ofs, width, v, size : size \in {1, 2, 3, 4} /\ Put(kind, ofs, width, v, size)
          /\ (\E said : Report(said)) /\ todo # <<>>
          /\ relocs' = IF IsRef THEN AddReloc(relocs, Reloc(Here, 2, ReferentSeg(Ref), FALSE, FALSE))
                        ELSE relocs
      BY <1>12 DEF EmitWord, Emitting
    <2>2. relocs' \in Seq(Patches)
      BY <1>1, <1>5, <1>6, <1>7, <2>1
    <2>3. QED
      BY <1>e, <2>1, <2>2
  <1>13. CASE EmitLong
    <2>1. /\ \E kind, ofs, width, v, size : size \in {1, 2, 3, 4} /\ Put(kind, ofs, width, v, size)
          /\ (\E said : Report(said))
          /\ todo # <<>>
          /\ relocs' = IF IsRef THEN AddReloc(relocs, Reloc(Here, 4, ReferentSeg(Ref), FALSE, FALSE))
                        ELSE relocs
      BY <1>13 DEF EmitLong, Emitting
    <2>2. relocs' \in Seq(Patches)
      BY <1>1, <1>5, <1>6, <1>7, <2>1
    <2>3. QED
      BY <1>e, <2>1, <2>2
  <1>14. CASE NearToImport
    <2>1. /\ \E kind, ofs, width, v, size : size \in {1, 2, 3, 4} /\ Put(kind, ofs, width, v, size)
          /\ (\E said : Report(said)) /\ todo # <<>> /\ IsRef
          /\ relocs' = AddReloc(relocs, Reloc(Here, 2, ReferentSeg(Ref), TRUE, FALSE))
      BY <1>14 DEF NearToImport, Emitting, ImportRef
    <2>2. relocs' \in Seq(Patches)
      BY <1>1, <1>5, <1>6, <1>7, <2>1
    <2>3. QED
      BY <1>e, <2>1, <2>2
  <1>15. CASE EmitFar
    <2> DEFINE mid == AddReloc(relocs, Reloc(Here, 2, ReferentSeg(Ref), FALSE, FALSE))
    <2>1. /\ \E kind, ofs, width, v, size : size \in {1, 2, 3, 4} /\ Put(kind, ofs, width, v, size)
          /\ (\E said : Report(said)) /\ todo # <<>> /\ IsRef
          /\ relocs' = AddReloc(mid, Reloc(Here + 2, 2, ReferentSeg(Ref), FALSE, TRUE))
      BY <1>15 DEF EmitFar, Emitting
    <2>2. mid \in Seq(Patches)
      BY <1>1, <1>5, <1>6, <1>7, <2>1
    <2> HIDE DEF mid
    <2>3. relocs' \in Seq(Patches)
      BY <1>5, <1>6, <2>1, <2>2
    <2>4. QED
      BY <1>e, <2>1, <2>3
  <1>16. CASE EmitAddress
    <2>1. /\ \E kind, ofs, width, v, size : size \in {1, 2, 3, 4} /\ Put(kind, ofs, width, v, size)
          /\ (\E said : Report(said)) /\ todo # <<>>
          /\ relocs' \in {relocs, AddReloc(relocs, Reloc(Here + 1, 2, ReferentSeg(Ref), FALSE, FALSE))}
          /\ relocs' # relocs => IsRef
      BY <1>16 DEF EmitAddress, Emitting
    <2>2. IsRef => AddReloc(relocs, Reloc(Here + 1, 2, ReferentSeg(Ref), FALSE, FALSE)) \in Seq(Patches)
      BY <1>1, <1>5, <1>6
    <2>3. relocs' \in Seq(Patches)
      BY <1>1, <2>1, <2>2
    <2>4. QED
      BY <1>e, <2>1, <2>3
  <1>17. CASE LineEmitted
    <2>1. /\ pc' = "line" /\ at' = at + 1
          /\ UNCHANGED <<input, output, symbols, verdict, layout, pass, todo, relocs, image, trace>>
      BY <1>17 DEF LineEmitted
    <2>2. PlaceInv'
      BY <1>1, <2>1 DEF TypeInv, PlaceInv, input, output, Assembling
    <2>3. LayoutInv' /\ RecordInv' /\ VerdictInv'
      BY <2>1 DEF TypeInv, LayoutInv, RecordInv, VerdictInv, layout, verdict
    <2>4. TableInv' /\ OriginInv'
      BY <1>1, <2>1, OriginStays DEF TypeInv, TableInv, symbols
    <2>5. QED
      BY <2>2, <2>3, <2>4 DEF TypeInv
  <1>18. QED
    BY <1>8, <1>9, <1>10, <1>11, <1>12, <1>13, <1>14, <1>15, <1>16, <1>17 DEF EmitStep

LEMMA LineKeepsInput == LineStep => UNCHANGED input
  <1>1. LabelAlone \/ Reserve \/ SectionDirective \/ Export \/ Import \/ OrgDirective \/ OrgRefused \/ Equ
          \/ End \/ SyntaxError => Done
    BY DEF LabelAlone, Reserve, SectionDirective, Export, Import, OrgDirective, OrgRefused, Equ, End, SyntaxError
  <1>2. Define \/ Undef => Directive
    BY DEF Define, Undef
  <1>3. List \/ Instr \/ NoRow \/ OutsideText => \E chunks, said : Starts(chunks, said)
    BY DEF List, Instr, NoRow, OutsideText
  <1>4. QED
    BY <1>1, <1>2, <1>3 DEF LineStep, Done, Directive, Starts, Exhausted
LEMMA TypeLine == TypeInv /\ LineStep => TypeInv'
  BY LinesPlace, LinesLayout, LinesTable, LinesRecord, LineKeepsInput, OriginStays DEF TypeInv

LEMMA TypeMain == TypeInv /\ MainStep => TypeInv'
  <1> SUFFICES ASSUME TypeInv, MainStep PROVE TypeInv'
    OBVIOUS
  <1>1. PlaceInv /\ LayoutInv /\ TableInv /\ RecordInv /\ VerdictInv
    BY DEF TypeInv
  <1>o. OriginInv'
    BY OriginStays DEF TypeInv, MainStep, StartPass, CannotOpen, NoSource, EndPass, Exit
  <1>2. CASE StartPass
    <2>1. /\ pc = "main" /\ pass < Passes /\ pc' = "line" /\ at' = 1 /\ file' = "opened"
          /\ UNCHANGED <<prog, argv, arg, target, exit, consts, pass, todo, org, entry, trace>>
          /\ ptr' = [TEXT |-> org, DATA |-> 0, BSS |-> 0] /\ section' = "TEXT" /\ relocs' = <<>>
          /\ nextImport' = 3 /\ scope' = NoScope
          /\ errors' = {} /\ warnings' = {} /\ reported' = reported \cup EntrySaid
      BY <1>2 DEF StartPass, input
    <2>2. PlaceInv'
      BY <1>1, <2>1 DEF PlaceInv, Assembling
    <2>3. LayoutInv'
      <3>1. 0 \in 0..Word-1 /\ \A v \in 0..Word-1 : v \in Int
        BY WordInt
      <3>2. QED
        BY <1>1, <2>1, <3>1 DEF LayoutInv, Sections
    <2>4. TableInv'
      <3>1. NoScope \in Name
        BY DEF NoScope, Name
      <3>2. QED
        BY <1>1, <2>1, <3>1 DEF TableInv
    <2>5. RecordInv'
      BY <1>1, <2>1 DEF RecordInv
    <2>6. VerdictInv'
      BY <1>1, <2>1 DEF VerdictInv, EntrySaid, ErrorKinds
    <2>7. QED
      BY <1>o, <2>2, <2>3, <2>4, <2>5, <2>6 DEF TypeInv
  <1>3. ASSUME UNCHANGED <<prog, argv, arg, target, at, todo, scope, consts, nextImport, section, ptr, org,
                           entry, relocs, trace>>,
               VerdictInv', pc \notin {"args", "exit"}, pc' \in {"main", "exit"}, pass' \in 0..Passes,
               exit' \in {exit, 0, 1, 2}, file' \in {file, "opened", "written", "removed"}
        PROVE  TypeInv'
    <2>1. PlaceInv'
      BY <1>1, <1>3 DEF PlaceInv, Assembling
    <2>2. LayoutInv' /\ RecordInv'
      BY <1>1, <1>3 DEF LayoutInv, RecordInv
    <2>3. TableInv'
      BY <1>1, <1>3 DEF TableInv
    <2>4. QED
      BY <1>3, <1>o, <2>1, <2>2, <2>3 DEF TypeInv
  <1>4. pass \in 0..Passes /\ Passes \in 0..Passes
    BY <1>1 DEF PlaceInv, Passes
  <1>5. ASSUME NEW said, Report(said) PROVE VerdictInv'
    BY <1>1, <1>5 DEF Report, VerdictInv
  <1>6. CASE CannotOpen
    <2>1. VerdictInv'
      BY <1>5, <1>6 DEF CannotOpen
    <2>2. QED
      BY <1>3, <1>4, <1>6, <2>1 DEF CannotOpen, input, symbols, layout
  <1>7. CASE NoSource
    <2>1. VerdictInv'
      BY <1>5, <1>7 DEF NoSource
    <2>2. QED
      BY <1>3, <1>4, <1>7, <2>1 DEF NoSource, input, symbols, layout
  <1>8. CASE EndPass
    <2>1. VerdictInv'
      BY <1>1, <1>8 DEF EndPass, VerdictInv, verdict
    <2>2. pass + 1 \in 0..Passes
      BY <1>1, <1>8 DEF EndPass, PlaceInv, Assembling, Passes
    <2>3. QED
      BY <1>3, <1>8, <2>1, <2>2 DEF EndPass, input, symbols, layout
  <1>9. CASE Exit
    <2>1. VerdictInv'
      BY <1>1, <1>9 DEF Exit, VerdictInv, verdict
    <2>2. QED
      BY <1>3, <1>4, <1>9, <2>1 DEF Exit, input, symbols, layout
  <1>10. QED
    BY <1>2, <1>6, <1>7, <1>8, <1>9 DEF MainStep

LEMMA TypesKept == TypeInv /\ [Next]_vars => TypeInv'
  <1>1. TypeInv /\ UNCHANGED vars => TypeInv'
    <2> SUFFICES ASSUME TypeInv, UNCHANGED vars PROVE TypeInv'
      OBVIOUS
    <2>1. UNCHANGED <<input, output, symbols, verdict, layout, pass, pc, at, todo, relocs, trace>>
      BY DEF vars
    <2>2. PlaceInv'
      BY <2>1 DEF TypeInv, PlaceInv, input, output
    <2>3. LayoutInv' /\ TableInv'
      BY <2>1 DEF TypeInv, LayoutInv, TableInv, layout, symbols
    <2>4. RecordInv' /\ VerdictInv' /\ OriginInv'
      BY <2>1, OriginStays DEF TypeInv, RecordInv, VerdictInv, verdict
    <2>5. QED
      BY <2>2, <2>3, <2>4 DEF TypeInv
  <1>2. QED
    BY <1>1, TypeArguments, TypeLine, TypeEmit, TypeMain DEF Next

(* Everything has its type, and the pointers, the origin and the entry     *)
(* point their 16 bits, whatever the program: no line, chunk or option     *)
(* leaves one without (MSA.C:54-75).                                       *)
THEOREM TypesHold == Spec => []TypeOK
  <1>1. Spec => []TypeInv
    BY TypeInit, TypesKept, PTL DEF Spec
  <1>2. QED
    BY <1>1, TypeInvOK, PTL
-----------------------------------------------------------------------------
(* Where the program is settles what it has done to the file: nothing      *)
(* before the passes, opened while one lasts, written after one.           *)
FileInv ==
  /\ pc \in {"args", "main", "exit"} \cup Assembling
  /\ pc # "exit" => exit = -1
  /\ pc = "args" => pass = 0 /\ file = "untouched"
  /\ pc = "main" /\ pass = Passes => file = "written"
  /\ pc \in Assembling => file = "opened"
  /\ OutputOnlyIfClean

LEMMA FileInit == Init => FileInv
  BY DEF Init, ArgumentsInit, FileInv, Assembling, OutputOnlyIfClean, Passes

(* An option is looked at, or the loop ends; help ends the program.        *)
LEMMA FileArguments == FileInv /\ Arguments => FileInv'
  <1> SUFFICES ASSUME FileInv, ArgumentStep, UNCHANGED <<pass, errors, warnings>>
               PROVE  FileInv'
    BY DEF Arguments, verdict
  <1> USE DEF FileInv, Assembling, OutputOnlyIfClean, Passes
  <1>1. ASSUME pc = "args", GiveUp PROVE FileInv'
    <2>1. pc' = "exit" /\ exit' = 1 /\ file' \in {"untouched", "removed"}
      BY <1>1 DEF GiveUp
    <2>2. QED
      BY <2>1
  <1>2. ASSUME pc = "args", NEW n, Skip(n) PROVE FileInv'
    BY <1>2 DEF Skip
  <1>3. CASE TakeFormat
    BY <1>2, <1>3 DEF TakeFormat, Option
  <1>4. CASE UnknownFormat
    BY <1>1, <1>4 DEF UnknownFormat, Option
  <1>5. CASE SetOutput
    BY <1>2, <1>5 DEF SetOutput, Option
  <1>6. CASE SetOrigin
    BY <1>2, <1>6 DEF SetOrigin, Option
  <1>7. CASE SetLevel
    BY <1>2, <1>7 DEF SetLevel, Option
  <1>8. CASE Predefine
    BY <1>2, <1>8 DEF Predefine
  <1>9. CASE BadOption
    BY <1>1, <1>9 DEF BadOption
  <1>10. CASE TakeInput
    BY <1>2, <1>10 DEF TakeInput
  <1>11. CASE SecondInput
    BY <1>1, <1>11 DEF SecondInput
  <1>12. CASE NoOutput
    BY <1>1, <1>12 DEF NoOutput
  <1>13. CASE Settle
    <2>1. pc' = "main" /\ pass' = 0 /\ exit' = -1 /\ file' = "untouched"
      BY <1>13 DEF Settle
    <2>2. QED
      BY <2>1
  <1>14. QED
    BY <1>3, <1>4, <1>5, <1>6, <1>7, <1>8, <1>9, <1>10, <1>11, <1>12, <1>13 DEF ArgumentStep

(* A step within a pass leaves the file, the pass and the exit code alone. *)
Inside == pc \in Assembling /\ pc' \in Assembling /\ UNCHANGED <<exit, file, pass>>
LEMMA FileInside == FileInv /\ Inside => FileInv'
  BY DEF FileInv, Inside, Assembling, OutputOnlyIfClean

LEMMA LinesInside == LineStep => Inside
  <1> SUFFICES ASSUME LineStep PROVE Inside
    OBVIOUS
  <1> USE DEF Inside, Assembling, OnLine, Done, output
  <1>1. CASE LabelAlone \/ Reserve \/ SectionDirective \/ Export \/ Import \/ OrgDirective
             \/ OrgRefused \/ Equ
    BY <1>1 DEF LabelAlone, Reserve, SectionDirective, Export, Import, OrgDirective, OrgRefused, Equ
  <1>2. CASE List \/ Instr \/ NoRow \/ OutsideText
    BY <1>2 DEF List, Instr, NoRow, OutsideText, Starts
  <1>3. CASE End \/ SyntaxError
    BY <1>3 DEF End, SyntaxError
  <1>4. CASE Define \/ Undef \/ Exhausted
    BY <1>4 DEF Define, Undef, Exhausted, Directive
  <1>5. QED
    BY <1>1, <1>2, <1>3, <1>4 DEF LineStep

LEMMA ChunksInside == EmitStep => Inside
  <1> SUFFICES ASSUME EmitStep PROVE Inside
    OBVIOUS
  <1> USE DEF Inside, Assembling, output
  <1>1. ASSUME pc = "emit", NEW kind, NEW ofs, NEW width, NEW v, NEW size,
               Put(kind, ofs, width, v, size)
        PROVE  Inside
    BY <1>1 DEF Put
  <1>2. CASE EmitByte \/ RejectSeg \/ EmitSeg \/ EmitWord \/ EmitLong
    BY <1>1, <1>2 DEF EmitByte, RejectSeg, EmitSeg, EmitWord, EmitLong, Emitting
  <1>3. CASE EmitRel8 \/ ShortToImport \/ EmitRel16 \/ NearToImport
    BY <1>1, <1>3 DEF EmitRel8, ShortToImport, EmitRel16, NearToImport, Emitting
  <1>4. CASE FarRejected \/ EmitFar \/ EmitAddress \/ EmitBased
    BY <1>1, <1>4 DEF FarRejected, EmitFar, EmitAddress, EmitBased, Emitting
  <1>5. CASE EmitBytes \/ LineEmitted
    BY <1>5 DEF EmitBytes, LineEmitted, Emitting
  <1>6. QED
    BY <1>2, <1>3, <1>4, <1>5 DEF EmitStep

(* A pass opens the file and writes it; main removes it if anything was    *)
(* complained of.                                                          *)
LEMMA FileMain == FileInv /\ MainStep => FileInv'
  <1> SUFFICES ASSUME FileInv, MainStep PROVE FileInv'
    OBVIOUS
  <1> USE DEF FileInv, Assembling, OutputOnlyIfClean, Passes
  <1>1. CASE StartPass
    BY <1>1 DEF StartPass
  <1>2. CASE CannotOpen
    BY <1>2 DEF CannotOpen
  <1>3. CASE NoSource
    BY <1>3 DEF NoSource
  <1>4. CASE EndPass
    BY <1>4 DEF EndPass
  <1>5. CASE Exit
    BY <1>5 DEF Exit, verdict
  <1>6. QED
    BY <1>1, <1>2, <1>3, <1>4, <1>5 DEF MainStep

LEMMA FileKept == FileInv /\ [Next]_vars => FileInv'
  <1>1. FileInv /\ UNCHANGED vars => FileInv'
    BY DEF FileInv, OutputOnlyIfClean, vars, output, verdict
  <1>2. QED
    BY <1>1, FileArguments, FileInside, LinesInside, ChunksInside, FileMain DEF Next

(* Exit code 0 and a written file go together, and no run leaves one that  *)
(* a pass had only opened (done and the pass loop, MSA.C:158-166, 322-354).*)
THEOREM OutputClean == Spec => []OutputOnlyIfClean
  <1>1. FileInv => OutputOnlyIfClean
    BY DEF FileInv
  <1>2. QED
    BY <1>1, FileInit, FileKept, PTL DEF Spec

-----------------------------------------------------------------------------
(* The passes start from what the last option of each kind says, whatever  *)
(* the order of the options (the argument loop of main, MSA.C:220-321).    *)
THEOREM OptionsHold == Spec => OptionsSettle
  <1>1. Init => ArgumentsInv
    BY ArgumentsStart DEF Init
  <1>2. ASSUME ArgumentsInv, [Next]_vars
        PROVE  ArgumentsInv' /\ [pc = "args" /\ pc' = "main" /\ Tidy => SetUp]_cmdline
    <2>1. CASE Arguments
      <3>1. ArgumentStep
        BY <2>1 DEF Arguments
      <3>2. pc = "args" /\ pc' = "main" => Settle /\ LoopInv
        BY <1>2, <3>1 DEF ArgumentsInv, ArgumentStep, TakeFormat, UnknownFormat, SetOutput,
          SetOrigin, SetLevel, Predefine, BadOption, TakeInput, SecondInput, NoOutput, Option,
          Skip, GiveUp
      <3>3. QED
        BY <1>2, <3>1, <3>2, ArgumentsKeep, SettleSetsUp
    <2>2. CASE LineStep \/ EmitStep
      <3>1. pc # "args" /\ pc' # "args"
        BY <2>2, LinesInside, ChunksInside DEF Inside, Assembling
      <3>2. QED
        BY <3>1 DEF ArgumentsInv
    <2>3. CASE MainStep
      <3>1. pc # "args" /\ pc' # "args"
        BY <2>3 DEF MainStep, StartPass, CannotOpen, NoSource, EndPass, Exit
      <3>2. QED
        BY <3>1 DEF ArgumentsInv
    <2>4. CASE UNCHANGED vars
      <3>1. UNCHANGED cmdline
        BY <2>4 DEF vars, input, output, symbols, layout, cmdline, options
      <3>2. ArgumentsInv'
        BY <1>2, <3>1, ArgumentsStay
      <3>3. QED
        BY <3>1, <3>2
    <2>5. QED
      BY <1>2, <2>1, <2>2, <2>3, <2>4 DEF Next
  <1>3. QED
    BY <1>1, <1>2, PTL DEF Spec, OptionsSettle
-----------------------------------------------------------------------------
(* Imports keep their ids.                                                 *)

(* An id, once given, stays: no line, option or pass gives it anew.        *)
LEMMA IdsStay ==
  ASSUME TypeInv, [Next]_vars, NEW n \in DOMAIN consts \cap DOMAIN consts',
         consts[n].type = "IMPORT", consts'[n].type = "IMPORT"
  PROVE  consts'[n].value = consts[n].value
  <1>1. CASE Keeps(consts, consts')
    BY <1>1 DEF Keeps
  <1>2. CASE consts' = consts
    BY <1>2
  <1>3. CASE Arguments
    <2>1. IsTable(consts) /\ argv \in CommandLines /\ arg \in Nat \ {0}
      BY DEF TypeInv, TableInv, PlaceInv
    <2>2. CASE Predefine
      <3>1. consts' = AddConst(consts, [inv |-> 0, path |-> <<This.text>>], "EXPR", 0)
        BY <2>2 DEF Predefine
      <3>2. n # [inv |-> 0, path |-> <<This.text>>]
        BY <3>1 DEF AddConst
      <3>3. consts'[n] = consts[n]
        BY <3>1, <3>2, AddConstOthers
      <3>4. QED
        BY <3>3
    <2>3. CASE Settle
      <3> DEFINE mid == AddConst(consts, Dollar, "EXPR", entry'.value)
      <3>1. consts' = AddConst(mid, Origin, "EXPR", org')
        BY <2>3 DEF Settle
      <3>2. n # Origin
        <4> HIDE DEF mid
        <4> QED BY <3>1 DEF AddConst
      <3>3. consts'[n] = mid[n] /\ n \in DOMAIN mid
        BY <3>1, <3>2 DEF AddConst
      <3>4. n # Dollar
        BY <3>3 DEF AddConst
      <3>5. mid[n] = consts[n]
        BY <3>4, AddConstOthers
      <3>6. QED
        BY <3>3, <3>5
    <2>4. CASE ~Predefine /\ ~Settle
      <3>1. consts' = consts
        BY <1>3, <2>4 DEF Arguments, ArgumentStep, TakeFormat, UnknownFormat, SetOutput, SetOrigin, SetLevel,
          BadOption, TakeInput, SecondInput, NoOutput, GiveUp, options
      <3>2. QED
        BY <1>2, <3>1
    <2>5. QED
      BY <2>2, <2>3, <2>4
  <1>4. CASE LineStep
    <2>1. CASE Import
      <3>1. Keeps(consts, LineConsts) /\ DOMAIN consts \subseteq DOMAIN LineConsts
        BY <2>1, ImportEffect DEF Keeps
      <3>2. consts' = LineConsts \/ \A m \in DOMAIN LineConsts : consts'[m] = LineConsts[m]
        <4>1. LineState.tab = LineConsts
          BY DEF LineState
        <4>2. QED
          BY <2>1, <4>1, ImportEffect DEF Adds
      <3>3. consts'[n] = LineConsts[n] /\ n \in DOMAIN LineConsts
        BY <3>1, <3>2
      <3>4. QED
        BY <3>1, <3>3 DEF Keeps
    <2>2. CASE Undef
      <3>1. consts'[n] = consts[n]
        BY <2>2 DEF Undef, RemoveConst
      <3>2. QED
        BY <3>1
    <2>3. QED
      BY <1>1, <1>4, <2>1, <2>2, LinesKeep
  <1>5. CASE EmitStep
    BY <1>2, <1>5 DEF EmitStep, EmitBytes, EmitByte, RejectSeg, EmitSeg, EmitWord, EmitLong, EmitRel8,
      ShortToImport, EmitRel16, NearToImport, FarRejected, EmitFar, EmitAddress, EmitBased, LineEmitted, Put,
      symbols
  <1>6. CASE MainStep
    BY <1>2, <1>6 DEF MainStep, StartPass, CannotOpen, NoSource, EndPass, Exit, symbols
  <1>7. CASE UNCHANGED vars
    BY <1>2, <1>7 DEF vars, symbols
  <1>8. QED
    BY <1>3, <1>4, <1>5, <1>6, <1>7 DEF Next

(* An import keeps the id it was given, through both passes, whatever is   *)
(* defined, imported again or undefined meanwhile (ASSEMBLR.C:875).        *)
THEOREM ImportIdsKept == Spec => ImportsKeepIds
  <1>1. TypeInv /\ [Next]_vars =>
          [\A n \in DOMAIN consts \cap DOMAIN consts' :
             consts[n].type = "IMPORT" /\ consts'[n].type = "IMPORT" =>
               consts'[n].value = consts[n].value]_vars
    BY IdsStay
  <1>2. QED
    BY <1>1, TypeInit, TypesKept, PTL DEF Spec, ImportsKeepIds
-----------------------------------------------------------------------------
(* Where a pass is: no line before the one at hand ends it, and a line     *)
(* that emits neither ends it nor imports.                                 *)
Stops(i) == prog[i].op = "end" \/ (prog[i].op = "instr" /\ lookupLex(prog[i].ins.cmd) = "NONE")
Clear(n) == \A j \in DOMAIN prog : j < n => ~Stops(j)
ReachInv ==
  /\ pc \in {"line", "emit"} => Clear(at)
  /\ pc = "emit" => at \in DOMAIN prog /\ ~Stops(at) /\ prog[at].op # "import"

(* The ways a line goes on.                                                *)
Moves1 == pc' = "line" /\ at' = at + 1 /\ ~Stops(at)
Emits  == pc' = "emit" /\ at' = at /\ ~Stops(at) /\ Stmt.op # "import"
Halts  == pc' = "end" /\ Stops(at) /\ Stmt.op # "import"
LEMMA LineWays ==
  ASSUME TypeInv, LineStep
  PROVE  /\ pc = "line" /\ UNCHANGED <<prog, pass, target, isOrgDef, inputname>>
         /\ \/ at \in DOMAIN prog /\ (Moves1 \/ Emits \/ Halts)
            \/ pc' = "end" /\ at > Len(prog) /\ UNCHANGED <<consts, nextImport, scope>>
  <1>1. CASE Exhausted
    BY <1>1 DEF Exhausted, input, symbols
  <1>2. ASSUME pc = "line", at <= Len(prog) PROVE at \in DOMAIN prog
    BY <1>2, LineTypes DEF TypeInv, PlaceInv
  <1>3. CASE LabelAlone \/ Reserve \/ SectionDirective \/ Export \/ Import \/ OrgDirective
             \/ OrgRefused \/ Equ
    <2>1. pc = "line" /\ at <= Len(prog) /\ Stmt.op \notin {"end", "instr"} /\ Done /\ pc' = "line"
      BY <1>3 DEF LabelAlone, Reserve, SectionDirective, Export, Import, OrgDirective, OrgRefused, Equ, OnLine
    <2>2. QED
      BY <1>2, <2>1 DEF Done, input, Moves1, Stops, Stmt
  <1>4. CASE Define \/ Undef
    <2>1. pc = "line" /\ at <= Len(prog) /\ Stmt.op \notin {"end", "instr"} /\ Directive /\ pc' = "line"
      BY <1>4 DEF Define, Undef, OnLine, Directive
    <2>2. QED
      BY <1>2, <2>1 DEF Directive, input, Moves1, Stops, Stmt
  <1>5. CASE End \/ SyntaxError
    <2>1. pc = "line" /\ at <= Len(prog) /\ Done /\ pc' = "end" /\ Stmt.op \in {"end", "instr"}
          /\ (Stmt.op = "instr" => Lex = "NONE")
      BY <1>5 DEF End, SyntaxError, OnLine
    <2>2. QED
      BY <1>2, <2>1 DEF Done, input, Halts, Stops, Stmt, Lex
  <1>6. CASE List \/ Instr \/ NoRow \/ OutsideText
    <2>1. /\ pc = "line" /\ at <= Len(prog) /\ Stmt.op \in {"db", "dw", "dd", "instr"}
          /\ (Stmt.op = "instr" => Lex # "NONE")
          /\ \E chunks, said : Starts(chunks, said)
      BY <1>6 DEF List, Instr, NoRow, OutsideText, OnLine
    <2>2. pc' = "emit" /\ at' = at /\ UNCHANGED <<input, pass>>
      BY <2>1 DEF Starts
    <2>3. QED
      BY <1>2, <2>1, <2>2 DEF input, Emits, Stops, Stmt, Lex
  <1>7. QED
    BY <1>1, <1>3, <1>4, <1>5, <1>6 DEF LineStep

(* Emitting a chunk leaves the line; the last one done, the next is read.  *)
LEMMA EmitWays ==
  ASSUME EmitStep
  PROVE  /\ pc = "emit" /\ UNCHANGED <<prog, pass, target, isOrgDef, inputname, consts, nextImport, scope, entry,
                                       org, object>>
         /\ \/ pc' = "emit" /\ at' = at
            \/ pc' = "line" /\ at' = at + 1
  <1>1. CASE LineEmitted
    BY <1>1 DEF LineEmitted, input, symbols, output, layout
  <1>2. CASE EmitBytes
    BY <1>2 DEF EmitBytes, Emitting, input, symbols, output
  <1>3. CASE EmitByte \/ RejectSeg \/ EmitSeg \/ EmitWord \/ EmitLong \/ EmitRel8 \/ ShortToImport
    \/ EmitRel16 \/ NearToImport \/ FarRejected \/ EmitFar \/ EmitAddress \/ EmitBased
    <2>1. pc = "emit" /\ \E kind, ofs, width, v, size : Put(kind, ofs, width, v, size)
      BY <1>3 DEF EmitByte, RejectSeg, EmitSeg, EmitWord, EmitLong, EmitRel8,
        ShortToImport, EmitRel16, NearToImport, FarRejected, EmitFar, EmitAddress, EmitBased, Emitting
    <2>2. QED
      BY <2>1 DEF Put, input, symbols, output
  <1>4. QED
    BY <1>1, <1>2, <1>3 DEF EmitStep

LEMMA Further ==
  ASSUME prog \in Seq(Statement), NEW n \in Nat, Clear(n), n \in DOMAIN prog => ~Stops(n)
  PROVE  Clear(n + 1)
  <1>1. ASSUME NEW j \in DOMAIN prog, j < n + 1, Stops(j) PROVE FALSE
    <2>1. CASE j = n
      BY <1>1, <2>1
    <2>2. CASE j # n
      <3>1. j \in Nat
        BY <1>1
      <3>2. QED
        BY <1>1, <2>2, <3>1 DEF Clear
    <2>3. QED
      BY <2>1, <2>2
  <1>2. QED
    BY <1>1 DEF Clear

LEMMA ReachKept ==
  ASSUME TypeInv, ReachInv, [Next]_vars
  PROVE  ReachInv'
  <1>1. prog \in Seq(Statement) /\ at \in Nat
    BY ProgramsAssumption DEF ProgramsAssumption, TypeInv, PlaceInv
  <1>2. ASSUME prog' = prog
        PROVE  \A n : Clear(n)' = Clear(n) /\ Stops(n)' = Stops(n)
    BY <1>2 DEF Clear, Stops
  <1>3. CASE LineStep
    <2>1. /\ prog' = prog /\ pc = "line"
          /\ \/ at \in DOMAIN prog /\ (Moves1 \/ Emits \/ Halts)
             \/ pc' = "end"
      BY <1>3, LineWays
    <2>2. CASE pc' = "end"
      BY <2>2 DEF ReachInv
    <2>3. CASE Moves1
      <3>1. Clear(at + 1) /\ at' = at + 1 /\ pc' = "line"
        BY <1>1, <2>1, <2>3, Further DEF ReachInv, Moves1
      <3>2. QED
        BY <1>2, <2>1, <3>1 DEF ReachInv, Clear, Stops
    <2>4. CASE Emits /\ at \in DOMAIN prog
      BY <2>1, <2>4 DEF ReachInv, Clear, Stops, Emits, Stmt
    <2>5. QED
      BY <2>1, <2>2, <2>3, <2>4 DEF Halts
  <1>4. CASE EmitStep
    <2>1. pc = "emit" /\ prog' = prog /\ ((pc' = "emit" /\ at' = at) \/ (pc' = "line" /\ at' = at + 1))
      BY <1>4, EmitWays
    <2>2. Clear(at + 1)
      BY <1>1, <2>1, Further DEF ReachInv
    <2>3. QED
      BY <2>1, <2>2 DEF ReachInv, Clear, Stops
  <1>5. CASE MainStep
    <2>1. pc' \notin {"line", "emit"} \/ (pc' = "line" /\ at' = 1 /\ prog' = prog)
      BY <1>5 DEF MainStep, StartPass, CannotOpen, NoSource, EndPass, Exit, input
    <2>2. \A j \in DOMAIN prog : ~(j < 1)
      BY <1>1
    <2>3. QED
      BY <2>1, <2>2 DEF ReachInv, Clear
  <1>6. CASE Arguments
    <2>1. pc' \notin {"line", "emit"}
      BY <1>6 DEF Arguments, ArgumentStep, TakeFormat, UnknownFormat, SetOutput, SetOrigin, SetLevel,
        Predefine, BadOption, TakeInput, SecondInput, NoOutput, Settle, GiveUp, Skip, Option
    <2>2. QED
      BY <2>1 DEF ReachInv
  <1>7. CASE UNCHANGED vars
    BY <1>7 DEF ReachInv, Clear, Stops, vars, input
  <1>8. QED
    BY <1>3, <1>4, <1>5, <1>6, <1>7 DEF Next
-----------------------------------------------------------------------------
(* Two imports have two ids.  Pass 0 gives them out in turn, and of pass 1 *)
(* every name it meets is there already, if no %undef took it away: so     *)
(* its ids, which start at 3 again, are never given.                       *)
NoUndef       == \A i \in DOMAIN prog : prog[i].op # "%undef"
Reached(i)    == Clear(i)
Introduced(i) ==
  prog[i].op = "import" /\ target = "rdf" =>
    \A k \in DOMAIN prog[i].names :
      prog[i].names[k].kind # "local" => Spelled(prog[i].names[k]) \in DOMAIN consts
IsImport(n) == n \in DOMAIN consts /\ consts[n].type = "IMPORT"
FirstInv ==
  /\ pc \in {"args", "main"} /\ pass = 0 => \A n : ~IsImport(n)
  /\ pass = 0 => \A n : IsImport(n) => consts[n].value < nextImport
IntroducedInv ==
  /\ pass = 0 /\ pc \in {"line", "emit"} => \A i \in DOMAIN prog : i < at => Introduced(i)
  /\ (pass = 0 /\ pc = "end") \/ pass = 1 => \A i \in DOMAIN prog : Reached(i) => Introduced(i)
ApartInv == \A m, n : IsImport(m) /\ IsImport(n) /\ m # n => consts[m].value # consts[n].value
IdsInv == NoUndef => FirstInv /\ IntroducedInv /\ ApartInv

(* What a line does to the imports of the table.                           *)
LEMMA LineImports ==
  ASSUME TypeInv, LineStep, ~Undef
  PROVE  /\ DOMAIN consts \subseteq DOMAIN consts' /\ nextImport' >= nextImport /\ nextImport' \in Nat
         /\ \A n : IsImport(n)' =>
              \/ IsImport(n) /\ consts'[n].value = consts[n].value
              \/ /\ ~IsImport(n) /\ target = "rdf" /\ at \in DOMAIN prog /\ Stmt.op = "import"
                 /\ n \notin DOMAIN consts /\ Listed(Stmt.names, n)
                 /\ consts'[n].value >= nextImport /\ consts'[n].value < nextImport'
         /\ \A m, n : IsImport(m)' /\ IsImport(n)' /\ ~IsImport(m) /\ ~IsImport(n) /\ m # n =>
                consts'[m].value # consts'[n].value
         /\ Stmt.op = "import" /\ target = "rdf" /\ at \in DOMAIN prog =>
              \A n : Listed(Stmt.names, n) => n \in DOMAIN consts'
  <1> DEFINE Goal ==
         /\ DOMAIN consts \subseteq DOMAIN consts' /\ nextImport' >= nextImport /\ nextImport' \in Nat
         /\ \A n : IsImport(n)' =>
              \/ IsImport(n) /\ consts'[n].value = consts[n].value
              \/ /\ ~IsImport(n) /\ target = "rdf" /\ at \in DOMAIN prog /\ Stmt.op = "import"
                 /\ n \notin DOMAIN consts /\ Listed(Stmt.names, n)
                 /\ consts'[n].value >= nextImport /\ consts'[n].value < nextImport'
         /\ \A m, n : IsImport(m)' /\ IsImport(n)' /\ ~IsImport(m) /\ ~IsImport(n) /\ m # n =>
                consts'[m].value # consts'[n].value
         /\ Stmt.op = "import" /\ target = "rdf" /\ at \in DOMAIN prog =>
              \A n : Listed(Stmt.names, n) => n \in DOMAIN consts'
  <1>1. nextImport \in Nat
    BY DEF TypeInv, TableInv
  <1>2. CASE ~Import
    <2>1. Keeps(consts, consts') /\ nextImport' = nextImport
      BY <1>2, LinesKeep
    <2>2. at \in DOMAIN prog => Stmt.op # "import" \/ pc' = "end"
      BY <1>2 DEF LineStep, OnLine, LabelAlone, List, Instr, NoRow, OutsideText, Reserve, SectionDirective, Export,
        OrgDirective, OrgRefused, End, Equ, SyntaxError, Define, Undef, Exhausted
    <2>3. pc' = "end" /\ at \in DOMAIN prog => Stmt.op # "import"
      BY LineWays DEF Moves1, Emits, Halts, TypeInv, PlaceInv
    <2>4. Goal
      BY <1>1, <2>1, <2>2, <2>3 DEF Keeps, IsImport
    <2>5. QED
      BY <2>4
  <1>3. CASE Import
    <2>1. /\ LineState \in ImportStates /\ Keeps(consts, LineConsts)
          /\ target # "rdf" => consts' = LineConsts /\ nextImport' = nextImport
          /\ target = "rdf" => \E to \in ImportStates :
               /\ Adds(LineState, to) /\ consts' = to.tab /\ nextImport' = to.next
               /\ \A n : Listed(Stmt.names, n) => n \in DOMAIN to.tab
               /\ \A n \in DOMAIN to.tab : n \in DOMAIN LineConsts \/ Listed(Stmt.names, n)
      BY <1>3, ImportEffect
    <2>2. CASE target # "rdf"
      <3>1. Goal
        BY <1>1, <2>1, <2>2 DEF Keeps, IsImport
      <3>2. QED
        BY <3>1
    <2>3. CASE target = "rdf"
      <3>1. PICK to \in ImportStates :
               /\ Adds(LineState, to) /\ consts' = to.tab /\ nextImport' = to.next
               /\ \A n : Listed(Stmt.names, n) => n \in DOMAIN to.tab
               /\ \A n \in DOMAIN to.tab : n \in DOMAIN LineConsts \/ Listed(Stmt.names, n)
        BY <2>1, <2>3
      <3>2. LineState.tab = LineConsts /\ LineState.next = nextImport
        BY DEF LineState
      <3>3. /\ to.next >= nextImport /\ to.next \in Nat
            /\ \A n \in DOMAIN LineConsts : n \in DOMAIN to.tab /\ to.tab[n] = LineConsts[n]
            /\ \A n \in DOMAIN to.tab \ DOMAIN LineConsts :
                 to.tab[n].type = "IMPORT" /\ to.tab[n].value >= nextImport /\ to.tab[n].value < to.next
            /\ \A m, n \in DOMAIN to.tab \ DOMAIN LineConsts : m # n => to.tab[m].value # to.tab[n].value
        <4> HIDE DEF LineState, LineConsts
        <4> QED BY <3>1, <3>2 DEF Adds, ImportStates
      <3>4. /\ DOMAIN consts \subseteq DOMAIN LineConsts
            /\ \A n \in DOMAIN LineConsts : LineConsts[n].type = "IMPORT" =>
                  IsImport(n) /\ LineConsts[n].value = consts[n].value
        BY <2>1 DEF Keeps, IsImport
      <3>5. at \in DOMAIN prog /\ Stmt.op = "import"
        BY <1>3, LineTypes DEF Import, OnLine, TypeInv, PlaceInv
      <3> HIDE DEF LineConsts, Stmt
      <3>6. ASSUME NEW n, IsImport(n)'
            PROVE  \/ n \in DOMAIN LineConsts /\ IsImport(n) /\ consts'[n].value = consts[n].value
                   \/ /\ ~IsImport(n) /\ n \in DOMAIN to.tab \ DOMAIN LineConsts
                      /\ n \notin DOMAIN consts /\ Listed(Stmt.names, n)
                      /\ consts'[n].value >= nextImport /\ consts'[n].value < nextImport'
        <4>1. n \in DOMAIN to.tab /\ to.tab[n].type = "IMPORT"
          BY <3>1, <3>6 DEF IsImport
        <4>2. CASE n \in DOMAIN LineConsts
          BY <3>1, <3>3, <3>4, <4>1, <4>2
        <4>3. CASE n \notin DOMAIN LineConsts
          BY <3>1, <3>3, <3>4, <4>1, <4>3 DEF IsImport
        <4>4. QED
          BY <4>2, <4>3
      <3>7. Goal
        <4>1. DOMAIN consts \subseteq DOMAIN consts' /\ nextImport' >= nextImport /\ nextImport' \in Nat
          BY <3>1, <3>3, <3>4
        <4>2. \A m, n : IsImport(m)' /\ IsImport(n)' /\ ~IsImport(m) /\ ~IsImport(n) /\ m # n =>
                consts'[m].value # consts'[n].value
          BY <3>1, <3>3, <3>6
        <4>3. QED
          BY <2>3, <3>1, <3>5, <3>6, <4>1, <4>2
      <3>8. QED
        BY <3>7
    <2>4. QED
      BY <2>2, <2>3
  <1>4. QED
    BY <1>2, <1>3

LEMMA IdsInit == Init => IdsInv
  <1> SUFFICES ASSUME Init PROVE FirstInv /\ IntroducedInv /\ ApartInv
    BY DEF IdsInv
  <1>1. pc = "args" /\ pass = 0 /\ DOMAIN consts = {}
    BY DEF Init, ArgumentsInit, EmptyTable
  <1>2. \A n : ~IsImport(n)
    BY <1>1 DEF IsImport
  <1>3. QED
    BY <1>1, <1>2 DEF FirstInv, IntroducedInv, ApartInv

LEMMA LineIds ==
  ASSUME TypeInv, ReachInv, IdsInv, LineStep, NoUndef
  PROVE  (FirstInv /\ IntroducedInv /\ ApartInv)'
  <1>1. /\ pc = "line" /\ UNCHANGED <<prog, pass, target>> /\ pc' \in {"line", "emit", "end"}
        /\ \/ at \in DOMAIN prog /\ (Moves1 \/ Emits \/ Halts)
           \/ pc' = "end" /\ at > Len(prog)
    BY LineWays DEF Moves1, Emits, Halts
  <1>2. ~Undef
    BY LineTypes DEF NoUndef, Undef, OnLine, Stmt, TypeInv, PlaceInv
  <1>3. /\ DOMAIN consts \subseteq DOMAIN consts' /\ nextImport' >= nextImport /\ nextImport' \in Nat
        /\ \A n : IsImport(n)' =>
              \/ IsImport(n) /\ consts'[n].value = consts[n].value
              \/ /\ ~IsImport(n) /\ target = "rdf" /\ at \in DOMAIN prog /\ Stmt.op = "import"
                 /\ n \notin DOMAIN consts /\ Listed(Stmt.names, n)
                 /\ consts'[n].value >= nextImport /\ consts'[n].value < nextImport'
        /\ \A m, n : IsImport(m)' /\ IsImport(n)' /\ ~IsImport(m) /\ ~IsImport(n) /\ m # n =>
                consts'[m].value # consts'[n].value
        /\ Stmt.op = "import" /\ target = "rdf" /\ at \in DOMAIN prog =>
              \A n : Listed(Stmt.names, n) => n \in DOMAIN consts'
    BY <1>2, LineImports
  <1>4. FirstInv /\ IntroducedInv /\ ApartInv /\ nextImport \in Nat
        /\ \A n : IsImport(n) => consts[n].value \in Int
    BY DEF IdsInv, TypeInv, TableInv, ImportsIn, IsImport
  <1>t. prog \in Seq(Statement) /\ at \in Nat
    BY ProgramsAssumption DEF ProgramsAssumption, TypeInv, PlaceInv
  <1>5. \A i \in DOMAIN prog : Introduced(i) => Introduced(i)'
    BY <1>1, <1>3 DEF Introduced
  <1>6. ASSUME NEW i \in DOMAIN prog, i = at
        PROVE  Introduced(i)'
    <2>1. ASSUME prog[i].op = "import", target = "rdf", NEW k \in DOMAIN prog[i].names,
                 prog[i].names[k].kind # "local"
          PROVE  Spelled(prog[i].names[k]) \in DOMAIN consts'
      <3>1. Listed(Stmt.names, Spelled(prog[i].names[k]))
        BY <1>6, <2>1 DEF Listed, Stmt
      <3>2. QED
        BY <1>3, <1>6, <2>1, <3>1 DEF Stmt
    <2>2. QED
      BY <1>1, <2>1 DEF Introduced
  <1>7. \A i : Reached(i)' = Reached(i)
    BY <1>1 DEF Reached, Clear, Stops
  <1>8. FirstInv'
    <2>1. ASSUME pass = 0, NEW n, IsImport(n)' PROVE consts'[n].value < nextImport'
      <3>1. CASE IsImport(n) /\ consts'[n].value = consts[n].value
        <4>1. consts[n].value < nextImport /\ consts[n].value \in Int
          BY <1>4, <2>1, <3>1 DEF FirstInv
        <4>2. QED
          BY <1>3, <1>4, <3>1, <4>1
      <3>2. QED
        BY <1>3, <2>1, <3>1
    <2>2. QED
      BY <1>1, <2>1 DEF FirstInv
  <1>9. IntroducedInv'
    <2>1. CASE pass = 0
      <3>1. \A i \in DOMAIN prog : i < at => Introduced(i)'
        BY <1>1, <1>4, <1>5, <2>1 DEF IntroducedInv
      <3>2. CASE at \in DOMAIN prog /\ Moves1
        <4>1. \A i \in DOMAIN prog : i < at + 1 => i < at \/ i = at
          BY <1>t
        <4>2. pc' = "line" /\ at' = at + 1
          BY <3>2 DEF Moves1
        <4>3. \A i \in DOMAIN prog : i < at' => Introduced(i)'
          BY <1>6, <3>1, <3>2, <4>1, <4>2
        <4>4. QED
          BY <1>1, <2>1, <4>2, <4>3 DEF IntroducedInv
      <3>3. CASE Emits
        BY <1>1, <2>1, <3>1, <3>3 DEF IntroducedInv, Emits
      <3>4. CASE at \in DOMAIN prog /\ Halts
        <4>1. ASSUME NEW i \in DOMAIN prog, Reached(i) PROVE Introduced(i)'
          <5>1. ~(at < i)
            BY <3>4, <4>1 DEF Reached, Clear, Halts
          <5>2. i < at \/ i = at
            BY <1>t, <5>1
          <5>3. QED
            BY <1>6, <3>1, <3>4, <5>2
        <4>2. pc' = "end"
          BY <3>4 DEF Halts
        <4>3. QED
          BY <1>1, <1>7, <2>1, <4>1, <4>2 DEF IntroducedInv
      <3>5. CASE pc' = "end" /\ at > Len(prog)
        <4>1. \A i \in DOMAIN prog : i < at
          BY <1>t, <3>5
        <4>2. QED
          BY <1>1, <2>1, <3>1, <3>5, <4>1 DEF IntroducedInv
      <3>6. QED
        BY <1>1, <3>2, <3>3, <3>4, <3>5
    <2>2. CASE pass = 1
      <3>1. \A i \in DOMAIN prog : Reached(i) => Introduced(i)'
        BY <1>4, <1>5, <2>2 DEF IntroducedInv
      <3>2. QED
        BY <1>1, <1>7, <2>2, <3>1 DEF IntroducedInv
    <2>3. CASE pass \notin {0, 1}
      BY <1>1, <2>3 DEF IntroducedInv
    <2>4. QED
      BY <2>1, <2>2, <2>3
  <1>10. ApartInv'
    <2>1. pass = 0 \/ \A n : IsImport(n)' => IsImport(n) /\ consts'[n].value = consts[n].value
      <3>1. CASE pass = 0
        BY <3>1
      <3>2. CASE pass # 0
        <4>1. pass = 1
          BY <1>1, <3>2 DEF TypeInv, PlaceInv, Assembling, Passes
        <4>2. ASSUME at \in DOMAIN prog, target = "rdf", Stmt.op = "import", NEW n, Listed(Stmt.names, n)
              PROVE  n \in DOMAIN consts
          <5>1. Introduced(at)
            BY <1>1, <1>4, <4>1, <4>2 DEF IntroducedInv, ReachInv, Reached
          <5>2. PICK k \in DOMAIN Stmt.names : Stmt.names[k].kind # "local" /\ Spelled(Stmt.names[k]) = n
            BY <4>2 DEF Listed
          <5>3. QED
            BY <4>2, <5>1, <5>2 DEF Introduced, Stmt
        <4>3. QED
          BY <1>3, <4>2
      <3>3. QED
        BY <3>1, <3>2
    <2>2. ASSUME NEW m, NEW n, IsImport(m)', IsImport(n)', m # n PROVE consts'[m].value # consts'[n].value
      <3>1. CASE IsImport(m) /\ IsImport(n)
        BY <1>3, <1>4, <2>2, <3>1 DEF ApartInv
      <3>2. CASE ~IsImport(m) /\ ~IsImport(n)
        BY <1>3, <2>2, <3>2
      <3>3. ASSUME NEW x, NEW y, IsImport(x), IsImport(x)', ~IsImport(y), IsImport(y)'
            PROVE  consts'[x].value # consts'[y].value
        <4>1. pass = 0
          BY <2>1, <3>3
        <4>2. consts'[x].value = consts[x].value /\ consts[x].value < nextImport /\ consts[x].value \in Int
          BY <1>3, <1>4, <3>3, <4>1 DEF FirstInv
        <4>3. consts'[y].value >= nextImport
          BY <1>3, <3>3
        <4>4. QED
          BY <1>4, <4>2, <4>3
      <3>4. QED
        BY <2>2, <3>1, <3>2, <3>3
    <2>3. QED
      BY <2>2 DEF ApartInv
  <1>11. QED
    BY <1>8, <1>9, <1>10

LEMMA NoImportAdded ==
  ASSUME NEW tab, \A n \in DOMAIN tab : tab[n].type # "IMPORT", NEW name, NEW v
  PROVE  \A n \in DOMAIN AddConst(tab, name, "EXPR", v) : AddConst(tab, name, "EXPR", v)[n].type # "IMPORT"
  BY DEF AddConst

(* What leaves the table as it is.                                         *)
LEMMA SameTableIds ==
  ASSUME FirstInv, IntroducedInv, ApartInv, UNCHANGED <<prog, target, consts>>,
         pass' = 0 => pass = 0 /\ UNCHANGED nextImport /\ (pc' \in {"args", "main"} => pc \in {"args", "main"}),
         pass' = 0 /\ pc' \in {"line", "emit"} => \A i \in DOMAIN prog : i < at' => Introduced(i),
         (pass' = 0 /\ pc' = "end") \/ pass' = 1 => \A i \in DOMAIN prog : Reached(i) => Introduced(i)
  PROVE  (FirstInv /\ IntroducedInv /\ ApartInv)'
  <1>1. /\ \A n : IsImport(n)' = IsImport(n)
        /\ \A i : Reached(i)' = Reached(i) /\ Introduced(i)' = Introduced(i)
    BY DEF IsImport, Reached, Clear, Stops, Introduced
  <1>2. FirstInv'
    BY <1>1 DEF FirstInv
  <1>3. IntroducedInv'
    BY <1>1 DEF IntroducedInv
  <1>4. ApartInv'
    BY <1>1 DEF ApartInv
  <1>5. QED
    BY <1>2, <1>3, <1>4

LEMMA LineIdsInv == TypeInv /\ ReachInv /\ IdsInv /\ LineStep => IdsInv'
  <1> SUFFICES ASSUME TypeInv, ReachInv, IdsInv, LineStep, NoUndef' PROVE (FirstInv /\ IntroducedInv /\ ApartInv)'
    BY DEF IdsInv
  <1>1. NoUndef
    BY LineWays DEF NoUndef
  <1>2. QED
    BY <1>1, LineIds

LEMMA EmitIds == TypeInv /\ ReachInv /\ IdsInv /\ EmitStep => IdsInv'
  <1> SUFFICES ASSUME TypeInv, ReachInv, IdsInv, EmitStep, NoUndef' PROVE (FirstInv /\ IntroducedInv /\ ApartInv)'
    BY DEF IdsInv
  <1>1. pc = "emit" /\ UNCHANGED <<prog, pass, target, consts, nextImport>>
        /\ ((pc' = "emit" /\ at' = at) \/ (pc' = "line" /\ at' = at + 1))
    BY EmitWays
  <1>2. FirstInv /\ IntroducedInv /\ ApartInv
    BY <1>1 DEF IdsInv, NoUndef
  <1>3. prog \in Seq(Statement) /\ at \in Nat
    BY ProgramsAssumption DEF ProgramsAssumption, TypeInv, PlaceInv
  <1>4. ASSUME pass = 0, NEW i \in DOMAIN prog, i < at' PROVE Introduced(i)
    <2>1. CASE i < at
      BY <1>1, <1>2, <1>4, <2>1 DEF IntroducedInv
    <2>2. CASE ~(i < at)
      <3>1. i = at
        BY <1>1, <1>3, <1>4, <2>2
      <3>2. prog[i].op # "import"
        BY <1>1, <3>1 DEF ReachInv
      <3>3. QED
        BY <3>2 DEF Introduced
    <2>3. QED
      BY <2>1, <2>2
  <1>5. pass = 1 => \A i \in DOMAIN prog : Reached(i) => Introduced(i)
    BY <1>2 DEF IntroducedInv
  <1>6. QED
    BY <1>1, <1>2, <1>4, <1>5, SameTableIds

LEMMA MainIds == TypeInv /\ ReachInv /\ IdsInv /\ MainStep => IdsInv'
  <1> SUFFICES ASSUME TypeInv, ReachInv, IdsInv, MainStep, NoUndef' PROVE (FirstInv /\ IntroducedInv /\ ApartInv)'
    BY DEF IdsInv
  <1>1. UNCHANGED <<prog, target, consts>>
    BY DEF MainStep, StartPass, CannotOpen, NoSource, EndPass, Exit, input, symbols
  <1>2. FirstInv /\ IntroducedInv /\ ApartInv
    BY <1>1 DEF IdsInv, NoUndef
  <1>3. pass \in 0..2 /\ (pc = "end" => pass < 2)
    BY DEF TypeInv, PlaceInv, Assembling, Passes
  <1>4. CASE StartPass
    <2>1. pc = "main" /\ pc' = "line" /\ pass' = pass /\ pass < 2 /\ at' = 1 /\ nextImport' = 3
      BY <1>4 DEF StartPass, Passes
    <2>2. \A n : IsImport(n)' = IsImport(n)
      BY <1>1 DEF IsImport
    <2>3. \A i : Reached(i)' = Reached(i) /\ Introduced(i)' = Introduced(i)
      BY <1>1 DEF Reached, Clear, Stops, Introduced
    <2>4. FirstInv'
      BY <1>2, <2>1, <2>2 DEF FirstInv
    <2>5. \A i \in DOMAIN prog : ~(i < 1)
      BY ProgramsAssumption DEF ProgramsAssumption, TypeInv, PlaceInv
    <2>6. IntroducedInv'
      BY <1>1, <1>2, <2>1, <2>3, <2>5 DEF IntroducedInv
    <2>7. ApartInv'
      BY <1>1, <1>2, <2>2 DEF ApartInv
    <2>8. QED
      BY <2>4, <2>6, <2>7
  <1>5. CASE EndPass
    <2>1. pc = "end" /\ pass' = pass + 1 /\ pc' = "main"
      BY <1>5 DEF EndPass
    <2>2. pass' # 0
      BY <1>3, <2>1
    <2>3. pass' = 1 => \A i \in DOMAIN prog : Reached(i) => Introduced(i)
      <3>1. pass' = 1 => pass = 0
        BY <1>3, <2>1
      <3>2. QED
        BY <1>2, <2>1, <3>1 DEF IntroducedInv
    <2>4. QED
      BY <1>1, <1>2, <2>1, <2>2, <2>3, SameTableIds
  <1>6. CASE CannotOpen \/ NoSource \/ Exit
    <2>1. /\ pc = "main" /\ pc' \in {"main", "exit"} /\ nextImport' = nextImport
          /\ pass' = pass \/ pass' = 2
      BY <1>6 DEF CannotOpen, NoSource, Exit, symbols, Passes
    <2>2. pass' = 1 => \A i \in DOMAIN prog : Reached(i) => Introduced(i)
      BY <1>2, <2>1 DEF IntroducedInv
    <2>3. QED
      BY <1>1, <1>2, <2>1, <2>2, SameTableIds
  <1>7. QED
    BY <1>4, <1>5, <1>6 DEF MainStep

(* The arguments add no import, and nothing has been imported before them. *)
LEMMA ArgumentIds == TypeInv /\ FileInv /\ IdsInv /\ Arguments => IdsInv'
  <1> SUFFICES ASSUME TypeInv, FileInv, IdsInv, Arguments, NoUndef' PROVE (FirstInv /\ IntroducedInv /\ ApartInv)'
    BY DEF IdsInv
  <1>1. pc = "args" /\ UNCHANGED <<prog, pass>> /\ pc' \in {"args", "main", "exit"}
    BY DEF Arguments, ArgumentStep, TakeFormat, UnknownFormat, SetOutput, SetOrigin, SetLevel,
      Predefine, BadOption, TakeInput, SecondInput, NoOutput, Settle, GiveUp, Skip, Option
  <1>2. \A n : ~IsImport(n)
    BY <1>1 DEF IdsInv, FirstInv, FileInv, NoUndef
  <1>3. IsTable(consts) /\ argv \in CommandLines /\ arg \in Nat \ {0}
    BY DEF TypeInv, TableInv, PlaceInv
  <1>4. \A n : ~IsImport(n)'
    <2>1. CASE Predefine
      <3> DEFINE name == [inv |-> 0, path |-> <<This.text>>]
      <3>1. consts' = AddConst(consts, name, "EXPR", 0)
        BY <2>1 DEF Predefine
      <3>2. QED
        BY <1>2, <3>1, NoImportAdded DEF IsImport
    <2>2. CASE Settle
      <3> DEFINE mid == AddConst(consts, Dollar, "EXPR", entry'.value)
      <3>1. consts' = AddConst(mid, Origin, "EXPR", org')
        BY <2>2 DEF Settle
      <3>2. \A n \in DOMAIN mid : mid[n].type # "IMPORT"
        BY <1>2, NoImportAdded DEF IsImport
      <3> HIDE DEF mid
      <3>3. QED
        BY <3>1, <3>2, NoImportAdded DEF IsImport
    <2>3. CASE ~Predefine /\ ~Settle
      <3>1. consts' = consts
        BY <2>3 DEF Arguments, ArgumentStep, TakeFormat, UnknownFormat, SetOutput, SetOrigin, SetLevel,
          BadOption, TakeInput, SecondInput, NoOutput, GiveUp, options
      <3>2. QED
        BY <1>2, <3>1 DEF IsImport
    <2>4. QED
      BY <2>1, <2>2, <2>3
  <1>5. pass' = 0
    BY <1>1 DEF FileInv
  <1>6. QED
    BY <1>1, <1>4, <1>5 DEF FirstInv, IntroducedInv, ApartInv

LEMMA ReachInit == Init => ReachInv
  BY DEF Init, ArgumentsInit, ReachInv

LEMMA IdsKept == TypeInv /\ FileInv /\ ReachInv /\ IdsInv /\ [Next]_vars => IdsInv'
  <1> SUFFICES ASSUME TypeInv, FileInv, ReachInv, IdsInv, [Next]_vars PROVE IdsInv'
    OBVIOUS
  <1>1. CASE UNCHANGED vars
    <2>1. IdsInv' = IdsInv
      BY <1>1 DEF vars, input, symbols, IdsInv, NoUndef, FirstInv, IntroducedInv, ApartInv, IsImport, Introduced,
        Reached, Clear, Stops
    <2>2. QED
      BY <2>1
  <1>2. QED
    BY <1>1, LineIdsInv, EmitIds, MainIds, ArgumentIds DEF Next

(* No import has the id of a section and two imports have two ids, however *)
(* the program is laid out: pass 1 gives ids from 3 on again, but to no    *)
(* name (ASSEMBLR.C:479, 863-881).                                         *)
THEOREM ImportIdsApart == Spec => []ImportIdsUnique
  <1>1. TypeInv /\ FileInv /\ ReachInv /\ IdsInv /\ [Next]_vars =>
          TypeInv' /\ FileInv' /\ ReachInv' /\ IdsInv'
    <2> SUFFICES ASSUME TypeInv, FileInv, ReachInv, IdsInv, [Next]_vars
                 PROVE  TypeInv' /\ FileInv' /\ ReachInv' /\ IdsInv'
      OBVIOUS
    <2>1. TypeInv' /\ ReachInv'
      BY TypesKept, ReachKept
    <2>2. FileInv'
      BY FileKept
    <2>3. IdsInv'
      BY IdsKept
    <2>4. QED
      BY <2>1, <2>2, <2>3
  <1>2. TypeInv /\ IdsInv => ImportIdsUnique
    BY DEF TypeInv, TableInv, ImportsIn, IdsInv, NoUndef, ApartInv, IsImport, ImportIdsUnique
  <1>3. Init => TypeInv /\ FileInv /\ ReachInv /\ IdsInv
    BY TypeInit, FileInit, ReachInit, IdsInit
  <1>4. QED
    BY <1>1, <1>2, <1>3, PTL DEF Spec
-----------------------------------------------------------------------------
(* The header of an .exe.  Its origin stays 0 and its entry point what the *)
(* first END says: another line can end the pass, but only a line in error *)
(* or the last; and no line before it is an END.                           *)
StartExpr == LET ends == With(prog, "end") IN IF ends = {} THEN <<>> ELSE prog[Min(ends)].e
ExeInv ==
  target = "texe" =>
    /\ pc = "args" => entry.value = 0
    /\ pc \in {"main"} \cup Assembling \/ pass = Passes => org = 0
    /\ StartExpr = <<>> => entry.value = 0
    /\ (pc = "end" \/ pass = Passes) /\ errors = {} /\ StartExpr # <<>> =>
         entry.value = Value(consts, scope, StartExpr) % Word
    /\ pass = Passes /\ errors = {} => object.exe = Pages(CodeSize)

LEMMA FirstEnd ==
  ASSUME prog \in Seq(Statement), NEW n \in Nat, Clear(n)
  PROVE  /\ n \in DOMAIN prog /\ prog[n].op = "end" => StartExpr = prog[n].e
         /\ n > Len(prog) => StartExpr = <<>>
  <1> DEFINE ends == With(prog, "end")
  <1>1. ends = {i \in DOMAIN prog : prog[i].op = "end"}
    BY DEF With
  <1>2. \A j \in ends : ~(j < n)
    BY <1>1 DEF Clear, Stops
  <1>3. ends \in SUBSET Nat /\ \A j \in ends : j \in 1..Len(prog)
    BY <1>1
  <1>4. StartExpr = IF ends = {} THEN <<>> ELSE prog[Min(ends)].e
    BY DEF StartExpr
  <1>5. ASSUME n \in DOMAIN prog, prog[n].op = "end" PROVE StartExpr = prog[n].e
    <2>1. n \in ends
      BY <1>1, <1>5
    <2> HIDE DEF ends
    <2>2. Min(ends) \in ends /\ \A x \in ends : Min(ends) <= x
      BY <1>3, <2>1, MinOfNaturals
    <2> DEFINE m == Min(ends)
    <2>a. m \in ends /\ m <= n
      BY <2>1, <2>2
    <2>b. m \in Nat
      BY <1>3, <2>a
    <2>c. ~(m < n)
      BY <1>2, <2>a
    <2> HIDE DEF m
    <2>3. m = n
      BY <2>a, <2>b, <2>c
    <2>4. Min(ends) = n
      BY <2>3 DEF m
    <2>5. QED
      BY <1>4, <2>1, <2>4
  <1>6. ASSUME n > Len(prog) PROVE StartExpr = <<>>
    <2> HIDE DEF ends
    <2>1. ends = {}
      BY <1>2, <1>3, <1>6
    <2>2. QED
      BY <1>4, <2>1
  <1>7. QED
    BY <1>5, <1>6

LEMMA SizeRange ==
  ASSUME TypeInv
  PROVE  ptr["TEXT"] \in Nat /\ CodeSize \in Nat /\ (org = 0 => CodeSize = ptr["TEXT"])
  <1>1. \A w \in Nat : \A p, o \in 0..w-1 : p \in Nat /\ (p - o) % w \in Nat /\ (o = 0 => (p - o) % w = p)
    OBVIOUS
  <1>2. Word \in Nat
    BY DEF Word
  <1>3. ptr["TEXT"] \in 0..Word-1 /\ org \in 0..Word-1
    BY DEF TypeInv, LayoutInv
  <1>4. QED
    BY <1>1, <1>2, <1>3, Zenon DEF CodeSize

(* What a line of an .exe does to the origin and the entry point.          *)
LEMMA LineEntry ==
  ASSUME TypeInv, ReachInv, LineStep, target = "texe"
  PROVE  /\ pc = "line" /\ UNCHANGED <<prog, target, org, object, pass>> /\ pc' \in {"line", "emit", "end"}
         /\ \/ entry' = entry /\ (pc' = "end" => errors' # {} \/ StartExpr = <<>>)
            \/ StartExpr = <<>> /\ entry' = entry
            \/ StartExpr # <<>> /\ entry'.value = Value(consts', scope', StartExpr) % Word
  <1>1. pc = "line" /\ prog \in Seq(Statement) /\ at \in Nat \ {0} /\ Clear(at)
    BY LineWays, ProgramsAssumption DEF ProgramsAssumption, TypeInv, PlaceInv, ReachInv
  <1>2. CASE End
    <2>1. /\ at \in DOMAIN prog /\ Stmt.op = "end" /\ pc' = "end"
          /\ consts' = LineConsts /\ scope' = LineScope
          /\ entry' = IF Stmt.e = <<>> THEN entry
                      ELSE [value |-> Value(LineConsts, LineScope, Stmt.e) % Word, def |-> TRUE]
          /\ UNCHANGED <<prog, target, org, object, pass>>
      BY <1>1, <1>2 DEF End, OnLine, Done, input, output
    <2>2. StartExpr = Stmt.e
      BY <1>1, <2>1, FirstEnd DEF Stmt
    <2> HIDE DEF StartExpr, LineConsts, LineScope, Stmt
    <2>3. QED
      BY <1>1, <2>1, <2>2
  <1>3. CASE Exhausted
    <2>1. at > Len(prog) /\ pc' = "end" /\ UNCHANGED <<prog, target, org, object, pass, entry>>
      BY <1>3 DEF Exhausted, input, output, layout
    <2>2. StartExpr = <<>>
      BY <1>1, <2>1, FirstEnd
    <2>3. QED
      BY <1>1, <2>1, <2>2
  <1>4. CASE SyntaxError
    <2>1. /\ "syntax" \in errors' /\ pc' = "end"
          /\ UNCHANGED <<prog, target, org, object, pass, entry>>
      BY <1>4 DEF SyntaxError, Report, ErrorKinds, Done, input, output
    <2>2. QED
      BY <1>1, <2>1
  <1>5. CASE LabelAlone \/ Reserve \/ SectionDirective \/ Export \/ Import \/ OrgDirective \/ OrgRefused \/ Equ
    <2>0. isOrgDef
      BY DEF TypeInv, OriginInv, Formats
    <2>1. pc' = "line" /\ UNCHANGED <<prog, target, org, object, pass, entry>>
      BY <1>5, <2>0 DEF LabelAlone, Reserve, SectionDirective, Export, Import, OrgDirective, OrgRefused, Equ, OnLine,
        Done, input, output, layout
    <2>2. QED
      BY <1>1, <2>1
  <1>6. CASE List \/ Instr \/ NoRow \/ OutsideText
    <2>1. \E chunks, said : Starts(chunks, said)
      BY <1>6 DEF List, Instr, NoRow, OutsideText
    <2>2. pc' = "emit" /\ UNCHANGED <<prog, target, org, object, pass, entry>>
      BY <2>1 DEF Starts, input, output, layout
    <2>3. QED
      BY <1>1, <2>2
  <1>7. CASE Define \/ Undef
    <2>1. pc' = "line" /\ UNCHANGED <<prog, target, org, object, pass, entry>>
      BY <1>7 DEF Define, Undef, Directive, OnLine, input, output, layout
    <2>2. QED
      BY <1>1, <2>1
  <1>8. QED
    BY <1>2, <1>3, <1>4, <1>5, <1>6, <1>7 DEF LineStep

LEMMA ExeLine == TypeInv /\ ReachInv /\ ExeInv /\ LineStep => ExeInv'
  <1> SUFFICES ASSUME TypeInv, ReachInv, ExeInv, LineStep, target' = "texe" PROVE ExeInv'
    BY DEF ExeInv
  <1>1. target = "texe"
    BY LineWays
  <1>2. /\ pc = "line" /\ UNCHANGED <<prog, target, org, object, pass>> /\ pc' \in {"line", "emit", "end"}
        /\ \/ entry' = entry /\ (pc' = "end" => errors' # {} \/ StartExpr = <<>>)
           \/ StartExpr = <<>> /\ entry' = entry
           \/ StartExpr # <<>> /\ entry'.value = Value(consts', scope', StartExpr) % Word
    BY <1>1, LineEntry
  <1>3. pass # Passes /\ pass' # Passes
    BY <1>2 DEF TypeInv, PlaceInv, Assembling, Passes
  <1>4. StartExpr' = StartExpr
    BY <1>2 DEF StartExpr
  <1>5. org = 0 /\ (StartExpr = <<>> => entry.value = 0)
    BY <1>1, <1>2 DEF ExeInv, Assembling
  <1>6. Value(consts, scope, StartExpr)' = Value(consts', scope', StartExpr)
    BY <1>4
  <1> HIDE DEF StartExpr
  <1>7. QED
    BY <1>2, <1>3, <1>4, <1>5, <1>6 DEF ExeInv

LEMMA ExeEmit == TypeInv /\ ExeInv /\ EmitStep => ExeInv'
  <1> SUFFICES ASSUME TypeInv, ExeInv, EmitStep, target' = "texe" PROVE ExeInv'
    BY DEF ExeInv
  <1>1. /\ pc = "emit" /\ pc' \in {"emit", "line"}
        /\ UNCHANGED <<prog, pass, target, consts, scope, entry, org, object>>
    BY EmitWays
  <1>2. pass # Passes
    BY <1>1 DEF TypeInv, PlaceInv, Assembling, Passes
  <1>3. StartExpr' = StartExpr
    BY <1>1 DEF StartExpr
  <1> HIDE DEF StartExpr
  <1>4. QED
    BY <1>1, <1>2, <1>3 DEF ExeInv, Assembling

LEMMA ExeMain == TypeInv /\ FileInv /\ ExeInv /\ MainStep => ExeInv'
  <1> SUFFICES ASSUME TypeInv, FileInv, ExeInv, MainStep, target' = "texe" PROVE ExeInv'
    BY DEF ExeInv
  <1>1. UNCHANGED <<prog, target, consts, org, entry>>
    BY DEF MainStep, StartPass, CannotOpen, NoSource, EndPass, Exit, input, symbols, layout
  <1>2. StartExpr' = StartExpr
    BY <1>1 DEF StartExpr
  <1>3. pc \in {"main", "end"} /\ org = 0 /\ (StartExpr = <<>> => entry.value = 0)
    BY <1>1 DEF MainStep, StartPass, CannotOpen, NoSource, EndPass, Exit, ExeInv, Assembling
  <1>4. CASE StartPass
    <2>1. pc' = "line" /\ pass' = pass /\ pass < Passes /\ Passes = 2 /\ pass \in 0..2
      BY <1>4 DEF StartPass, TypeInv, PlaceInv, Passes
    <2> HIDE DEF StartExpr
    <2>2. QED
      BY <1>1, <1>2, <1>3, <2>1 DEF ExeInv
  <1>5. CASE EndPass
    <2>1. /\ pc = "end" /\ pc' = "main" /\ pass' = pass + 1 /\ UNCHANGED <<errors, scope, ptr>>
          /\ object' = Flat(Bytes("TEXT", org, CodeSize))
      BY <1>1, <1>5 DEF EndPass, symbols, verdict, layout
    <2>2. CodeSize \in Nat
      BY SizeRange
    <2>3. Len(Bytes("TEXT", org, CodeSize)) = CodeSize
      <3> HIDE DEF CodeSize
      <3>1. QED
        BY <2>2 DEF Bytes
    <2>4. object'.exe = Pages(CodeSize)
      <3> HIDE DEF CodeSize
      <3>1. QED
        BY <1>1, <2>1, <2>3 DEF Flat
    <2>5. CodeSize' = CodeSize /\ \A n : Pages(n)' = Pages(n)
      BY <1>1, <2>1 DEF CodeSize, Pages
    <2>6. Pages(CodeSize)' = Pages(CodeSize)
      BY <1>1, <2>1 DEF CodeSize, Pages
    <2>7. errors = {} /\ StartExpr # <<>> => entry.value = Value(consts, scope, StartExpr) % Word
      BY <1>1, <2>1 DEF ExeInv
    <2> HIDE DEF StartExpr, CodeSize
    <2>8. QED
      BY <1>1, <1>2, <1>3, <2>1, <2>4, <2>6, <2>7 DEF ExeInv
  <1>6. CASE NoSource \/ CannotOpen
    <2>1. errors' # {}
      BY <1>6 DEF NoSource, CannotOpen, Report, ErrorKinds
    <2> HIDE DEF StartExpr
    <2>2. QED
      BY <1>1, <1>2, <1>3, <1>6, <2>1 DEF ExeInv, NoSource, CannotOpen
  <1>7. CASE Exit
    <2>1. pass = Passes /\ pc' = "exit" /\ UNCHANGED <<pass, object, scope, ptr, errors>>
      BY <1>7 DEF Exit, symbols, layout, verdict
    <2>2. Pages(CodeSize)' = Pages(CodeSize)
      BY <1>1, <2>1 DEF CodeSize, Pages
    <2> HIDE DEF StartExpr, CodeSize
    <2>3. QED
      BY <1>1, <1>2, <1>3, <2>1, <2>2 DEF ExeInv
  <1>8. QED
    BY <1>4, <1>5, <1>6, <1>7 DEF MainStep

LEMMA ExeArguments == TypeInv /\ FileInv /\ ExeInv /\ Arguments => ExeInv'
  <1> SUFFICES ASSUME TypeInv, FileInv, ExeInv, Arguments, target' = "texe" PROVE ExeInv'
    BY DEF ExeInv
  <1>1. pc = "args" /\ UNCHANGED <<prog, pass>> /\ pc' \in {"args", "main", "exit"}
    BY DEF Arguments, ArgumentStep, TakeFormat, UnknownFormat, SetOutput, SetOrigin, SetLevel,
      Predefine, BadOption, TakeInput, SecondInput, NoOutput, Settle, GiveUp, Skip, Option
  <1>2. pass = 0 /\ pass' # Passes
    BY <1>1 DEF FileInv, Passes
  <1>3. entry'.value = 0
    <2>1. CASE TakeFormat
      BY <2>1 DEF TakeFormat
    <2>2. CASE ~TakeFormat
      <3>1. target = "texe" /\ entry' = entry
        BY <2>2 DEF Arguments, ArgumentStep, UnknownFormat, SetOutput, SetOrigin, SetLevel,
          Predefine, BadOption, TakeInput, SecondInput, NoOutput, Settle, GiveUp, options
      <3>2. QED
        BY <1>1, <3>1 DEF ExeInv
    <2>3. QED
      BY <2>1, <2>2
  <1>4. pc' = "main" => org' = 0
    <2>1. CASE Settle
      BY <2>1 DEF Settle
    <2>2. CASE ~Settle
      <3>1. pc' # "main"
        BY <1>1, <2>2 DEF Arguments, ArgumentStep, TakeFormat, UnknownFormat, SetOutput, SetOrigin, SetLevel,
          Predefine, BadOption, TakeInput, SecondInput, NoOutput, GiveUp, Skip, Option
      <3>2. QED
        BY <3>1
    <2>3. QED
      BY <2>1, <2>2
  <1>5. QED
    BY <1>1, <1>2, <1>3, <1>4 DEF ExeInv, Assembling

(* A length is the full pages before the last and what the last holds.    *)
LEMMA PageRange ==
  ASSUME NEW n \in Nat
  PROVE  /\ n % 512 \in 0..511
         /\ n % 512 = 0 => 512 * (n \div 512) \in n..n + 511
         /\ n % 512 # 0 => 512 * (n \div 512 + 1) \in n..n + 511
  OBVIOUS

HoldPages(exe, n) ==
  exe.last \in 0..511 /\ n % 512 = exe.last /\ 512 * exe.pages \in n..n + 511
LEMMA PagesHold ==
  ASSUME NEW n \in Nat, NEW exe, exe = Pages(n)
  PROVE  HoldPages(exe, n)
  <1>1. exe.last = n % 512 /\ exe.pages = n \div 512 + (IF n % 512 = 0 THEN 0 ELSE 1)
    BY DEF Pages
  <1>2. n \div 512 \in Nat /\ n % 512 \in Nat
    OBVIOUS
  <1>3. CASE n % 512 = 0
    <2>1. exe.pages = n \div 512
      BY <1>1, <1>2, <1>3
    <2>2. 512 * (n \div 512) \in n..n + 511 /\ n % 512 \in 0..511
      BY <1>3, PageRange
    <2>3. QED
      BY <1>1, <2>1, <2>2 DEF HoldPages
  <1>4. CASE n % 512 # 0
    <2>1. exe.pages = n \div 512 + 1
      BY <1>1, <1>2, <1>4
    <2>2. 512 * (n \div 512 + 1) \in n..n + 511 /\ n % 512 \in 0..511
      BY <1>4, PageRange
    <2>3. QED
      BY <1>1, <2>1, <2>2 DEF HoldPages
  <1>5. QED
    BY <1>3, <1>4

(* Whatever an .exe is assembled from, the header written last, over that  *)
(* of pass 0, has its size in pages and the address the first END names    *)
(* (write_exe_header, MSA.C:126-156, 336-343).                             *)
THEOREM ExeHeaderRight == Spec => []ExeHeaderFresh
  <1>1. Init => TypeInv /\ FileInv /\ ReachInv /\ ExeInv
    <2>1. Init => ExeInv
      BY DEF Init, ArgumentsInit, ExeInv
    <2>2. QED
      BY <2>1, TypeInit, FileInit, ReachInit
  <1>2. TypeInv /\ FileInv /\ ReachInv /\ ExeInv /\ [Next]_vars =>
          TypeInv' /\ FileInv' /\ ReachInv' /\ ExeInv'
    <2>1. ExeInv /\ UNCHANGED vars => ExeInv'
      <3> SUFFICES ASSUME ExeInv, UNCHANGED vars PROVE ExeInv'
        OBVIOUS
      <3>1. UNCHANGED <<prog, target, pc, pass, org, entry, errors, consts, scope, object, ptr>>
        BY DEF vars, input, output, symbols, verdict, layout
      <3>2. StartExpr' = StartExpr /\ Pages(CodeSize)' = Pages(CodeSize)
        BY <3>1 DEF StartExpr, Pages, CodeSize
      <3> HIDE DEF StartExpr, CodeSize
      <3>3. QED
        BY <3>1, <3>2 DEF ExeInv
    <2>2. QED
      BY <2>1, TypesKept, FileKept, ReachKept, ExeLine, ExeEmit, ExeMain, ExeArguments DEF Next
  <1>3. TypeInv => ptr["TEXT"] \in Nat
    BY SizeRange
  <1>4. TypeInv /\ FileInv /\ ExeInv => ExeHeaderFresh
    <2> SUFFICES ASSUME TypeInv, FileInv, ExeInv, Delivered, target = "texe"
                 PROVE  /\ object.exe.ip = (IF StartExpr = <<>> THEN 0
                                            ELSE Value(consts, scope, StartExpr) % Word)
                        /\ object.exe.last \in 0..511 /\ ptr["TEXT"] % 512 = object.exe.last
                        /\ 512 * object.exe.pages \in ptr["TEXT"]..ptr["TEXT"] + 511
      BY DEF ExeHeaderFresh, StartExpr
    <2>1. pass = Passes /\ errors = {}
      BY DEF FileInv, OutputOnlyIfClean, Delivered
    <2>2. /\ org = 0 /\ object.exe = Pages(CodeSize)
          /\ entry.value = (IF StartExpr = <<>> THEN 0 ELSE Value(consts, scope, StartExpr) % Word)
      BY <2>1 DEF ExeInv
    <2>3. CodeSize = ptr["TEXT"]
      BY <2>2, SizeRange
    <2>4. object.exe = Pages(ptr["TEXT"])
      BY <2>2, <2>3, Zenon
    <2> HIDE DEF StartExpr
    <2>5. object.exe.ip = entry.value
      BY <2>4 DEF Pages
    <2>6. HoldPages(object.exe, ptr["TEXT"])
      BY <1>3, <2>4, PagesHold, Zenon
    <2>7. QED
      BY <2>2, <2>5, <2>6, Zenon DEF HoldPages
  <1>5. QED
    BY <1>1, <1>2, <1>4, PTL DEF Spec
-----------------------------------------------------------------------------
(* Where the records lie.  A record lies between where its chunk began and *)
(* where it ended, and what is emitted later lies behind it unless a       *)
(* pointer went back; so all that need be known of the records is that     *)
(* they are apart and that the pointers of now are behind them.            *)
LiesApart(r, s) == s.sec # r.sec \/ s.ofs + s.width <= r.ofs \/ r.ofs + r.width <= s.ofs
Filed(list, p) ==
  /\ \A i \in DOMAIN list : list[i].ofs + list[i].width <= p[list[i].sec]
  /\ \A i, j \in DOMAIN list : i = j \/ LiesApart(list[i], list[j])
PatchInv == /\ pass = 0 => relocs = <<>>
            /\ NeverBack => Filed(relocs, ptr)

(* The trace grows by a line when one is read and, while one is emitted,   *)
(* ends with it and with the pointers of now.                              *)
EndsAt(t, p) == t.ptrs # <<>> /\ t.ptrs[Len(t.ptrs)] = p
TraceInv ==
  /\ \A p \in 0..Passes-1 : p > pass \/ (p = pass /\ pc \in {"args", "main"}) => trace[p] = <<>>
  /\ pc = "line" => Len(trace[pass]) = at - 1
  /\ pc = "emit" => Len(trace[pass]) = at /\ EndsAt(trace[pass][at], ptr)

(* Pointers further on are behind the records too.                         *)
LEMMA FiledBehind ==
  ASSUME NEW list \in Seq(Patches), NEW p \in [Sections -> Int], NEW q \in [Sections -> Int],
         Filed(list, p), Within(p, q)
  PROVE  Filed(list, q)
  <1> SUFFICES ASSUME NEW i \in DOMAIN list PROVE list[i].ofs + list[i].width <= q[list[i].sec]
    BY DEF Filed
  <1>1. list[i].sec \in Sections /\ list[i].ofs \in Int /\ list[i].width \in Int
    <2>1. list[i] \in Patches
      OBVIOUS
    <2>2. QED
      BY <2>1 DEF Patches
  <1>2. \A x, y, z \in Int : x <= y /\ y <= z => x <= z
    OBVIOUS
  <1>3. p[list[i].sec] \in Int /\ q[list[i].sec] \in Int /\ list[i].ofs + list[i].width \in Int
    BY <1>1
  <1>4. list[i].ofs + list[i].width <= p[list[i].sec] /\ p[list[i].sec] <= q[list[i].sec]
    BY <1>1 DEF Filed, Within
  <1>5. QED
    BY <1>2, <1>3, <1>4

(* A record behind the others is filed before them.                        *)
LEMMA FileOne ==
  ASSUME NEW list \in Seq(Patches), NEW p \in [Sections -> Int], Filed(list, p),
         NEW r \in Patches, NEW q \in [Sections -> Int], Within(p, q),
         p[r.sec] <= r.ofs, r.ofs + r.width <= q[r.sec]
  PROVE  Filed(<<r>> \o list, q)
  <1> DEFINE all == <<r>> \o list
  <1>1. Filed(list, q)
    BY FiledBehind
  <1>2. /\ \A i \in DOMAIN all : i = 1 \/ (i - 1 \in DOMAIN list /\ all[i] = list[i - 1])
        /\ all[1] = r
    <2>1. ASSUME NEW S, NEW l \in Seq(S), NEW x \in S
          PROVE  /\ \A i \in DOMAIN (<<x>> \o l) : i = 1 \/ (i - 1 \in DOMAIN l /\ (<<x>> \o l)[i] = l[i - 1])
                 /\ (<<x>> \o l)[1] = x /\ DOMAIN (<<x>> \o l) \subseteq Int
      BY <2>1
    <2> HIDE DEF Patches
    <2>2. QED
      BY <2>1
  <1>i. DOMAIN all \subseteq Int
    <2>1. ASSUME NEW S, NEW l \in Seq(S), NEW x \in S PROVE DOMAIN (<<x>> \o l) \subseteq Int
      BY <2>1
    <2> HIDE DEF Patches
    <2>2. QED
      BY <2>1
  <1> HIDE DEF all
  <1>3. ASSUME NEW i \in DOMAIN list PROVE LiesApart(list[i], r) /\ LiesApart(r, list[i])
    <2>1. list[i].sec \in Sections /\ list[i].ofs \in Int /\ list[i].width \in Int
      <3>1. list[i] \in Patches
        OBVIOUS
      <3>2. QED
        BY SMTT(30), <3>1 DEF Patches
    <2>2. r.sec \in Sections /\ r.ofs \in Int
      BY DEF Patches
    <2>3. CASE list[i].sec = r.sec
      <3>1. list[i].ofs + list[i].width <= p[r.sec] /\ p[r.sec] \in Int
        BY <1>3, <2>2, <2>3 DEF Filed
      <3>2. \A x, y, z \in Int : x <= y /\ y <= z => x <= z
        OBVIOUS
      <3>3. list[i].ofs + list[i].width \in Int
        BY <2>1
      <3>4. list[i].ofs + list[i].width <= r.ofs
        BY <2>2, <3>1, <3>2, <3>3
      <3>5. QED
        BY <3>4 DEF LiesApart
    <2>4. CASE list[i].sec # r.sec
      BY <2>4 DEF LiesApart
    <2>5. QED
      BY <2>3, <2>4
  <1>4. ASSUME NEW i \in DOMAIN all PROVE all[i].ofs + all[i].width <= q[all[i].sec]
    BY <1>1, <1>2, <1>4 DEF Filed
  <1>5. ASSUME NEW i \in DOMAIN all, NEW j \in DOMAIN all, i # j PROVE LiesApart(all[i], all[j])
    <2>1. CASE i = 1
      BY <1>2, <1>3, <1>5, <2>1
    <2>2. CASE j = 1
      BY <1>2, <1>3, <1>5, <2>2
    <2>3. CASE i # 1 /\ j # 1
      <3>1. i - 1 \in DOMAIN list /\ j - 1 \in DOMAIN list /\ all[i] = list[i - 1] /\ all[j] = list[j - 1]
        BY <1>2, <1>5, <2>3
      <3>2. i - 1 # j - 1
        BY <1>5, <1>i
      <3>3. QED
        BY <1>1, <3>1, <3>2 DEF Filed
    <2>4. QED
      BY <2>1, <2>2, <2>3
  <1>6. QED
    BY <1>4, <1>5 DEF Filed, all

(* Pointers behind every one of lines q, and q in order.                   *)
AllBehind(q, p) == \A i \in DOMAIN q : \A k \in DOMAIN q[i].ptrs : Within(q[i].ptrs[k], p)
InOrder(q) ==
  \A i \in DOMAIN q : \A k \in DOMAIN q[i].ptrs :
    \A j \in DOMAIN q : \A l \in DOMAIN q[j].ptrs :
      i < j \/ (i = j /\ k < l) => Within(q[i].ptrs[k], q[j].ptrs[l])
LEMMA NeverBackIs == NeverBack <=> AllBehind(trace[1], ptr) /\ InOrder(trace[1])
  BY DEF NeverBack, AllBehind, InOrder

(* If no pointer has gone back when a line is read, none had before.       *)
LEMMA BehindLine ==
  ASSUME NEW q \in Seq(TraceLine), NEW t \in TraceLine, NEW p, t.ptrs = <<p>>, NEW now,
         AllBehind(Append(q, t), now), InOrder(Append(q, t))
  PROVE  AllBehind(q, p) /\ InOrder(q) /\ Within(p, now)
  <1> DEFINE n == Len(q)
             r == Append(q, t)
  <1>1. n \in Nat /\ DOMAIN q = 1..n /\ DOMAIN r = 1..n+1 /\ r[n + 1] = t /\ \A i \in 1..n : r[i] = q[i]
    <2>1. ASSUME NEW S, NEW l \in Seq(S), NEW x \in S
          PROVE  /\ Len(l) \in Nat /\ DOMAIN l = 1..Len(l) /\ DOMAIN Append(l, x) = 1..Len(l)+1
                 /\ Append(l, x)[Len(l) + 1] = x /\ \A i \in 1..Len(l) : Append(l, x)[i] = l[i]
      BY <2>1
    <2> HIDE DEF TraceLine
    <2>2. QED
      BY <2>1
  <1> HIDE DEF n, r
  <1>2. n + 1 \in DOMAIN r /\ 1 \in DOMAIN r[n + 1].ptrs /\ r[n + 1].ptrs[1] = p
        /\ \A i \in DOMAIN q : i \in DOMAIN r /\ r[i] = q[i] /\ i < n + 1
    <2>1. n + 1 \in 1..n+1 /\ \A i \in 1..n : i \in 1..n+1 /\ i < n + 1
      BY <1>1
    <2>2. \A x : DOMAIN <<x>> = {1} /\ <<x>>[1] = x
      OBVIOUS
    <2>3. QED
      BY <1>1, <2>1, <2>2
  <1>3. AllBehind(r, now) /\ InOrder(r)
    BY DEF r
  <1>4. AllBehind(q, p)
    BY <1>2, <1>3 DEF AllBehind, InOrder
  <1>5. InOrder(q)
    BY <1>2, <1>3 DEF InOrder
  <1>6. Within(p, now)
    BY <1>2, <1>3 DEF AllBehind
  <1>7. QED
    BY <1>4, <1>5, <1>6

(* The same of a chunk: p is where the line has come to, and now where it  *)
(* comes to with the chunk.                                                *)
LastLine(q, i, p) == i \in DOMAIN q /\ i = Len(q) /\ q[i].ptrs # <<>> /\ q[i].ptrs[Len(q[i].ptrs)] = p
ChunkAdded(q, i, now, r) ==
  DOMAIN r = DOMAIN q /\ r[i].ptrs = Append(q[i].ptrs, now) /\ \A j \in DOMAIN q \ {i} : r[j] = q[j]
LEMMA BehindChunk ==
  ASSUME NEW q \in Seq(TraceLine), NEW i, NEW p \in [Sections -> Int], NEW now \in [Sections -> Int], NEW r,
         LastLine(q, i, p), ChunkAdded(q, i, now, r), AllBehind(r, now), InOrder(r)
  PROVE  AllBehind(q, p) /\ InOrder(q) /\ Within(p, now)
  <1>0. /\ i \in DOMAIN q /\ i = Len(q) /\ q[i].ptrs # <<>> /\ q[i].ptrs[Len(q[i].ptrs)] = p
        /\ DOMAIN r = DOMAIN q /\ r[i].ptrs = Append(q[i].ptrs, now) /\ \A j \in DOMAIN q \ {i} : r[j] = q[j]
    BY DEF LastLine, ChunkAdded
  <1> DEFINE s == q[i].ptrs
             m == Len(s)
  <1>1. s \in Seq([Sections -> Int]) /\ q[i] \in TraceLine
    <2>1. q[i] \in TraceLine
      BY <1>0
    <2>2. QED
      BY <2>1 DEF TraceLine
  <1>2. /\ m \in Nat /\ m \in DOMAIN s /\ DOMAIN s = 1..m
        /\ \A k \in DOMAIN s : k \in DOMAIN Append(s, now) /\ Append(s, now)[k] = s[k]
    <2>1. ASSUME NEW S, NEW l \in Seq(S), l # <<>>, NEW x \in S
          PROVE  /\ Len(l) \in Nat /\ Len(l) \in DOMAIN l /\ DOMAIN l = 1..Len(l)
                 /\ \A k \in DOMAIN l : k \in DOMAIN Append(l, x) /\ Append(l, x)[k] = l[k]
      BY <2>1
    <2>2. s # <<>>
      BY <1>0
    <2> HIDE DEF s
    <2>3. QED
      BY <1>1, <2>1, <2>2
  <1>3. DOMAIN r = DOMAIN q /\ r[i].ptrs = Append(s, now) /\ \A j \in DOMAIN q \ {i} : r[j] = q[j]
    BY <1>0
  <1>4. \A j \in DOMAIN q : j \in Nat /\ j <= i
    <2>1. ASSUME NEW S, NEW l \in Seq(S) PROVE \A j \in DOMAIN l : j \in Nat /\ j <= Len(l)
      BY <2>1
    <2> HIDE DEF TraceLine
    <2>2. QED
      BY <1>0, <2>1
  <1> HIDE DEF s, m
  <1>5. \A j \in DOMAIN q : j \in DOMAIN r /\ \A k \in DOMAIN q[j].ptrs : k \in DOMAIN r[j].ptrs /\ r[j].ptrs[k] = q[j].ptrs[k]
    BY <1>0, <1>2, <1>3 DEF s
  <1>6. InOrder(q)
    <2> SUFFICES ASSUME NEW g \in DOMAIN q, NEW k \in DOMAIN q[g].ptrs, NEW j \in DOMAIN q,
                        NEW l \in DOMAIN q[j].ptrs, g < j \/ (g = j /\ k < l)
                 PROVE  Within(q[g].ptrs[k], q[j].ptrs[l])
      BY DEF InOrder
    <2>1. /\ g \in DOMAIN r /\ k \in DOMAIN r[g].ptrs /\ r[g].ptrs[k] = q[g].ptrs[k]
          /\ j \in DOMAIN r /\ l \in DOMAIN r[j].ptrs /\ r[j].ptrs[l] = q[j].ptrs[l]
      BY <1>5
    <2>2. Within(r[g].ptrs[k], r[j].ptrs[l])
      BY <2>1, Zenon DEF InOrder
    <2>3. QED
      BY <2>1, <2>2
  <1>7. i \in DOMAIN q /\ m \in DOMAIN q[i].ptrs /\ q[i].ptrs[m] = p /\ q[i].ptrs = s
    BY <1>0, <1>2 DEF s, m
  <1>8. Within(p, now)
    <2>1. i \in DOMAIN r /\ m \in DOMAIN r[i].ptrs /\ r[i].ptrs[m] = p
      BY <1>5, <1>7
    <2>2. QED
      BY <2>1, Zenon DEF AllBehind
  <1>9. ASSUME NEW j \in DOMAIN q, NEW k \in DOMAIN q[j].ptrs PROVE Within(q[j].ptrs[k], p)
    <2>1. CASE j < i \/ (j = i /\ k < m)
      BY <1>6, <1>7, <1>9, <2>1 DEF InOrder
    <2>2. CASE ~(j < i \/ (j = i /\ k < m))
      <3>1. j = i
        BY <1>4, <1>7, <1>9, <2>2
      <3>2. k \in 1..m
        BY <1>2, <1>7, <1>9, <3>1
      <3>3. k = m
        BY <1>2, <2>2, <3>1, <3>2
      <3>4. q[j].ptrs[k] = p
        BY <1>7, <3>1, <3>3
      <3>5. QED
        BY <3>4 DEF Within
    <2>3. QED
      BY <2>1, <2>2
  <1>10. QED
    BY <1>6, <1>8, <1>9 DEF AllBehind

(* A chunk that does not take the pointer back does not wrap it.           *)
LEMMA WrapFree == \A a \in 0..Word-1, k \in 1..4 : a <= (a + k) % Word => (a + k) % Word = a + k
  <1>1. \A w \in Nat : \A a \in 0..w-1, k \in 1..4 : w > 4 /\ a <= (a + k) % w => (a + k) % w = a + k
    OBVIOUS
  <1>2. Word \in Nat /\ Word > 4
    BY DEF Word
  <1>3. QED
    BY <1>1, <1>2
LEMMA NoWrap ==
  ASSUME NEW sec \in Sections, NEW n \in 1..4, NEW p \in [Sections -> Int], sec # "BSS" => p[sec] \in 0..Word-1,
         NEW q, q = Past(p, sec, n), Within(p, q)
  PROVE  q[sec] = p[sec] + n
  <1>1. q[sec] = IF sec = "BSS" THEN p[sec] + n ELSE (p[sec] + n) % Word
    BY DEF Past
  <1>2. p[sec] <= q[sec]
    BY Zenon DEF Within
  <1>3. CASE sec = "BSS"
    BY <1>1, <1>3
  <1>4. CASE sec # "BSS"
    <2>1. q[sec] = (p[sec] + n) % Word /\ p[sec] \in 0..Word-1
      BY <1>1, <1>4
    <2>2. QED
      BY <1>2, <2>1, WrapFree, Zenon
  <1>5. QED
    BY <1>3, <1>4
-----------------------------------------------------------------------------
(* What a line of the program does to the trace and to the records.        *)
LEMMA LineTraced ==
  ASSUME TypeInv, LineStep
  PROVE  /\ pc = "line" /\ UNCHANGED <<pass, relocs>>
         /\ \/ /\ NewLine \in TraceLine /\ trace' = [trace EXCEPT ![pass] = Append(trace[pass], NewLine)]
               /\ \/ pc' = "line" /\ at' = at + 1
                  \/ pc' = "emit" /\ UNCHANGED <<at, ptr>>
                  \/ pc' = "end"
            \/ pc' = "end" /\ UNCHANGED <<trace, ptr>>
  <1>1. ASSUME pc = "line", at <= Len(prog), Traced
        PROVE  NewLine \in TraceLine /\ trace' = [trace EXCEPT ![pass] = Append(trace[pass], NewLine)]
    BY <1>1, NewLineType DEF Traced, NewLine
  <1>2. CASE LabelAlone \/ Reserve \/ SectionDirective \/ Export \/ Import \/ OrgDirective
             \/ OrgRefused \/ End \/ Equ \/ SyntaxError
    <2>1. pc = "line" /\ at <= Len(prog) /\ Done /\ pc' \in {"line", "end"}
      BY <1>2 DEF LabelAlone, Reserve, SectionDirective, Export, Import, OrgDirective, OrgRefused, Equ, OnLine,
        End, SyntaxError
    <2>2. QED
      BY <1>1, <2>1 DEF Done
  <1>3. CASE List \/ Instr \/ NoRow \/ OutsideText
    <2>1. pc = "line" /\ at <= Len(prog) /\ \E chunks, said : Starts(chunks, said)
      BY <1>3 DEF List, Instr, NoRow, OutsideText, OnLine
    <2>2. QED
      BY <1>1, <2>1 DEF Starts, layout
  <1>4. CASE Exhausted
    BY <1>4 DEF Exhausted, layout
  <1>5. CASE Define \/ Undef
    <2>1. pc = "line" /\ at <= Len(prog) /\ Directive /\ pc' = "line"
      BY <1>5 DEF Define, Undef, Directive, OnLine
    <2>2. QED
      BY <1>1, <2>1 DEF Directive
  <1>6. QED
    BY <1>2, <1>3, <1>4, <1>5 DEF LineStep

(* What emitting does to them: a record there may be lies within the size  *)
(* bytes of the chunk, and of two, those of a far pointer, so does each.   *)
Places(list, new, p) ==
  \/ new = list
  \/ \E r \in Patches, n \in 1..4, o \in 0..4 :
       /\ new = <<r>> \o list /\ r.sec = section /\ r.ofs = ptr[section] + o /\ o + r.width <= n
       /\ p = Past(ptr, section, n)
  \/ \E r, s \in Patches :
       /\ new = <<s>> \o (<<r>> \o list) /\ r.sec = section /\ s.sec = section
       /\ r.ofs = ptr[section] /\ r.width = 2 /\ s.ofs = ptr[section] + 2 /\ s.width = 2
       /\ p = Past(ptr, section, 4)
LEMMA ChunkTraced ==
  ASSUME TypeInv, EmitStep
  PROVE  /\ pc = "emit" /\ UNCHANGED pass
         /\ \/ /\ TracedOn /\ pc' = "emit" /\ UNCHANGED at
               /\ pass = 0 => relocs' = relocs
               /\ Places(relocs, relocs', ptr')
            \/ UNCHANGED <<trace, ptr, relocs>> /\ pc' = "line" /\ at' = at + 1
  <1>1. relocs \in Seq(Patches) /\ pc = "emit" /\ pass < Passes /\ Passes = 2
    BY DEF TypeInv, RecordInv, PlaceInv, EmitStep, EmitBytes, EmitByte, RejectSeg, EmitSeg, EmitWord,
      EmitLong, EmitRel8, ShortToImport, EmitRel16, NearToImport, FarRejected, EmitFar, EmitAddress, EmitBased,
      LineEmitted, Emitting, Assembling, Passes
  <1>2. ASSUME NEW n \in {0, 1, 2}, NEW width \in {2, 4}, NEW c, c \in {consts[m] : m \in DOMAIN consts},
               NEW rel \in BOOLEAN, NEW para \in BOOLEAN
        PROVE  Reloc(Here + n, width, ReferentSeg(c), rel, para) \in Patches
    <2>1. ReferentSeg(c) \in Nat
      BY <1>2, ReferentIds
    <2>2. QED
      BY <1>2, <2>1, RelocType
  <1>3. \A list, r : AddReloc(list, r) = list \/ (pass # 0 /\ AddReloc(list, r) = <<r>> \o list)
    BY <1>1 DEF AddReloc
  <1>4. ASSUME NEW n \in {0, 1, 2}, NEW width \in {2, 4}, NEW c, c \in {consts[m] : m \in DOMAIN consts},
               NEW rel \in BOOLEAN, NEW para \in BOOLEAN, NEW size \in 1..4, n + width <= size,
               ptr' = Bump(section, size),
               relocs' = AddReloc(relocs, Reloc(Here + n, width, ReferentSeg(c), rel, para))
        PROVE  (pass = 0 => relocs' = relocs) /\ Places(relocs, relocs', ptr')
    <2> DEFINE r == Reloc(Here + n, width, ReferentSeg(c), rel, para)
    <2>1. r \in Patches
      BY <1>2, <1>4
    <2>2. r.sec = section /\ r.ofs = ptr[section] + n /\ r.width = width
      BY DEF Reloc, Here
    <2>3. ptr' = Past(ptr, section, size) /\ n \in 0..4
      BY <1>4 DEF Bump
    <2> HIDE DEF r
    <2>4. QED
      BY <1>3, <1>4, <2>1, <2>2, <2>3 DEF Places, r
  <1>5. IsRef => Ref \in {consts[m] : m \in DOMAIN consts}
    BY DEF IsRef, Ref, SingleRef, Referent, HasType
  <1>6. Here + 0 = Here
    <2>1. Here \in Int
      BY HereOffset
    <2>2. QED
      BY <2>1
  <1>w. ASSUME NEW width \in {2, 4}, NEW c, c \in {consts[m] : m \in DOMAIN consts},
               NEW rel \in BOOLEAN, NEW para \in BOOLEAN, ptr' = Bump(section, width),
               relocs' = AddReloc(relocs, Reloc(Here, width, ReferentSeg(c), rel, para))
        PROVE  (pass = 0 => relocs' = relocs) /\ Places(relocs, relocs', ptr')
    <2>1. 0 + width <= width /\ width \in 1..4 /\ 0 \in {0, 1, 2}
      BY <1>w
    <2>2. relocs' = AddReloc(relocs, Reloc(Here + 0, width, ReferentSeg(c), rel, para))
      BY <1>6, <1>w
    <2>3. QED
      BY <1>4, <1>w, <2>1, <2>2
  <1>7. ASSUME relocs' = relocs PROVE (pass = 0 => relocs' = relocs) /\ Places(relocs, relocs', ptr')
    BY <1>7 DEF Places
  <1>8. CASE LineEmitted
    BY <1>1, <1>8 DEF LineEmitted, layout
  <1>9. ASSUME EmitStep, ~LineEmitted PROVE TracedOn /\ pc' = "emit" /\ UNCHANGED <<at, pass>>
    <2>1. CASE EmitBytes
      BY <1>1, <2>1 DEF EmitBytes
    <2>2. CASE EmitByte \/ RejectSeg \/ EmitSeg \/ EmitWord \/ EmitLong \/ EmitRel8 \/ ShortToImport
      \/ EmitRel16 \/ NearToImport \/ FarRejected \/ EmitFar \/ EmitAddress \/ EmitBased
      <3>1. \E kind, ofs, width, v, size : Put(kind, ofs, width, v, size)
        BY <2>2 DEF EmitByte, RejectSeg, EmitSeg, EmitWord, EmitLong, EmitRel8,
          ShortToImport, EmitRel16, NearToImport, FarRejected, EmitFar, EmitAddress, EmitBased, Emitting
      <3>2. QED
        BY <1>1, <3>1 DEF Put
    <2>3. QED
      BY <1>9, <2>1, <2>2 DEF EmitStep
  <1>10. ASSUME EmitBytes \/ EmitByte \/ RejectSeg \/ EmitRel8 \/ ShortToImport \/ EmitRel16 \/ FarRejected
                \/ EmitBased
         PROVE  (pass = 0 => relocs' = relocs) /\ Places(relocs, relocs', ptr')
    <2>1. relocs' = relocs
      BY <1>10 DEF EmitBytes, EmitByte, RejectSeg, EmitRel8, ShortToImport, EmitRel16, FarRejected, EmitBased
    <2>2. QED
      BY <1>7, <2>1
  <1>11. ASSUME EmitSeg PROVE (pass = 0 => relocs' = relocs) /\ Places(relocs, relocs', ptr')
    <2>1. /\ relocs' = AddReloc(relocs, Reloc(Here, 2, ReferentSeg(consts[SegName(Next1.e)]), FALSE, TRUE))
          /\ SegName(Next1.e) \in DOMAIN consts /\ ptr' = Bump(section, 2)
      BY <1>11 DEF EmitSeg, SegRef, HasType, Put
    <2>2. QED
      BY <1>w, <2>1
  <1>12. ASSUME EmitWord PROVE (pass = 0 => relocs' = relocs) /\ Places(relocs, relocs', ptr')
    <2>1. /\ relocs' = IF IsRef THEN AddReloc(relocs, Reloc(Here, 2, ReferentSeg(Ref), FALSE, FALSE)) ELSE relocs
          /\ ptr' = Bump(section, 2)
      BY <1>12 DEF EmitWord, Put
    <2>2. CASE IsRef
      BY <1>w, <1>5, <2>1, <2>2
    <2>3. QED
      BY <1>7, <2>1, <2>2
  <1>13. ASSUME EmitLong PROVE (pass = 0 => relocs' = relocs) /\ Places(relocs, relocs', ptr')
    <2>1. /\ relocs' = IF IsRef THEN AddReloc(relocs, Reloc(Here, 4, ReferentSeg(Ref), FALSE, FALSE)) ELSE relocs
          /\ ptr' = Bump(section, 4)
      BY <1>13 DEF EmitLong, Put
    <2>2. CASE IsRef
      BY <1>w, <1>5, <2>1, <2>2
    <2>3. QED
      BY <1>7, <2>1, <2>2
  <1>14. ASSUME NearToImport PROVE (pass = 0 => relocs' = relocs) /\ Places(relocs, relocs', ptr')
    <2>1. /\ relocs' = AddReloc(relocs, Reloc(Here, 2, ReferentSeg(Ref), TRUE, FALSE)) /\ IsRef
          /\ ptr' = Bump(section, 2)
      BY <1>14 DEF NearToImport, ImportRef, Put
    <2>2. QED
      BY <1>w, <1>5, <2>1
  <1>15. ASSUME EmitAddress PROVE (pass = 0 => relocs' = relocs) /\ Places(relocs, relocs', ptr')
    <2>1. /\ \/ relocs' = relocs
             \/ relocs' = AddReloc(relocs, Reloc(Here + 1, 2, ReferentSeg(Ref), FALSE, FALSE)) /\ IsRef
          /\ ptr' = Bump(section, 3)
      BY <1>15 DEF EmitAddress, Put
    <2>2. CASE IsRef /\ relocs' = AddReloc(relocs, Reloc(Here + 1, 2, ReferentSeg(Ref), FALSE, FALSE))
      <3>1. 1 + 2 <= 3 /\ 3 \in 1..4 /\ 1 \in {0, 1, 2} /\ 2 \in {2, 4}
        OBVIOUS
      <3>2. QED
        BY <1>4, <1>5, <2>1, <2>2, <3>1
    <2>3. QED
      BY <1>7, <2>1, <2>2
  <1>16. ASSUME EmitFar PROVE (pass = 0 => relocs' = relocs) /\ Places(relocs, relocs', ptr')
    <2> DEFINE r == Reloc(Here + 0, 2, ReferentSeg(Ref), FALSE, FALSE)
               s == Reloc(Here + 2, 2, ReferentSeg(Ref), FALSE, TRUE)
    <2>1. /\ relocs' = AddReloc(AddReloc(relocs, r), s) /\ IsRef /\ ptr' = Past(ptr, section, 4)
      BY <1>6, <1>16 DEF EmitFar, Put, Bump
    <2>2. r \in Patches /\ s \in Patches
      BY <1>2, <1>5, <2>1
    <2>3. /\ r.sec = section /\ s.sec = section /\ r.width = 2 /\ s.width = 2
          /\ r.ofs = ptr[section] /\ s.ofs = ptr[section] + 2
      BY <1>6 DEF Reloc, Here
    <2> HIDE DEF r, s
    <2>4. relocs' = relocs \/ (pass # 0 /\ relocs' = <<s>> \o (<<r>> \o relocs))
      <3>1. CASE target = "rdf" /\ pass = Passes - 1
        <4>1. pass # 0
          BY <1>1, <3>1
        <4>2. QED
          BY <2>1, <3>1, <4>1 DEF AddReloc
      <3>2. CASE ~(target = "rdf" /\ pass = Passes - 1)
        BY <2>1, <3>2 DEF AddReloc
      <3>3. QED
        BY <3>1, <3>2
    <2>5. QED
      BY <2>1, <2>2, <2>3, <2>4 DEF Places
  <1>17. QED
    BY <1>1, <1>8, <1>9, <1>10, <1>11, <1>12, <1>13, <1>14, <1>15, <1>16 DEF EmitStep

LEMMA TraceLineKept == TypeInv /\ TraceInv /\ LineStep => TraceInv'
  <1> SUFFICES ASSUME TypeInv, TraceInv, LineStep PROVE TraceInv'
    OBVIOUS
  <1>1. /\ pc = "line" /\ pass' = pass /\ pass \in 0..Passes-1 /\ at \in Nat
        /\ trace[pass] \in Seq(TraceLine) /\ DOMAIN trace = 0..Passes-1
    BY LineTraced DEF TypeInv, PlaceInv, RecordInv, Assembling, Passes
  <1>2. CASE pc' = "end" /\ UNCHANGED trace
    BY <1>1, <1>2 DEF TraceInv
  <1>3. ASSUME NewLine \in TraceLine, trace' = [trace EXCEPT ![pass] = Append(trace[pass], NewLine)],
               \/ pc' = "line" /\ at' = at + 1
               \/ pc' = "emit" /\ UNCHANGED <<at, ptr>>
               \/ pc' = "end"
        PROVE  TraceInv'
    <2> DEFINE q == trace[pass]
               r == Append(q, NewLine)
    <2>1. Len(r) = Len(q) + 1 /\ r[Len(q) + 1] = NewLine /\ Len(q) \in Nat
      <3>1. ASSUME NEW S, NEW l \in Seq(S), NEW x \in S
            PROVE  Len(Append(l, x)) = Len(l) + 1 /\ Append(l, x)[Len(l) + 1] = x /\ Len(l) \in Nat
        BY <3>1
      <3> HIDE DEF TraceLine, NewLine
      <3>2. QED
        BY <1>1, <1>3, <3>1
    <2>2. Len(q) = at - 1
      BY <1>1 DEF TraceInv
    <2>3. Len(r) = at /\ r[at] = NewLine
      BY <1>1, <2>1, <2>2
    <2> HIDE DEF q, r
    <2>4. trace'[pass] = r /\ \A p \in 0..Passes-1 : p # pass => trace'[p] = trace[p]
      BY <1>1, <1>3 DEF q, r
    <2>5. \A p \in 0..Passes-1 : p > pass \/ (p = pass /\ pc' \in {"args", "main"}) => trace'[p] = <<>>
      <3>1. \A p \in 0..Passes-1 : p > pass => p # pass
        BY <1>1 DEF Passes
      <3>2. pc' \notin {"args", "main"}
        BY <1>3
      <3>3. QED
        BY <2>4, <3>1, <3>2 DEF TraceInv
    <2>6. pc' = "line" => Len(trace'[pass]) = at' - 1
      BY <1>1, <1>3, <2>3, <2>4
    <2>7. pc' = "emit" => Len(trace'[pass]) = at' /\ EndsAt(trace'[pass][at'], ptr')
      <3>1. NewLine.ptrs = <<ptr>> /\ \A x : <<x>> # <<>> /\ <<x>>[Len(<<x>>)] = x
        BY DEF NewLine
      <3>2. EndsAt(NewLine, ptr)
        BY <3>1 DEF EndsAt
      <3>3. ASSUME pc' = "emit" PROVE trace'[pass][at'] = NewLine /\ ptr' = ptr /\ Len(trace'[pass]) = at'
        BY <1>3, <2>3, <2>4, <3>3
      <3> HIDE DEF NewLine
      <3>4. QED
        BY <3>2, <3>3
    <2>8. QED
      BY <1>1, <2>5, <2>6, <2>7 DEF TraceInv
  <1>4. QED
    BY <1>2, <1>3, LineTraced

LEMMA TraceChunkKept == TypeInv /\ TraceInv /\ EmitStep => TraceInv'
  <1> SUFFICES ASSUME TypeInv, TraceInv, EmitStep PROVE TraceInv'
    OBVIOUS
  <1>1. /\ pc = "emit" /\ pass' = pass /\ pass \in 0..Passes-1 /\ at \in Nat \ {0}
        /\ trace[pass] \in Seq(TraceLine) /\ DOMAIN trace = 0..Passes-1
    BY ChunkTraced DEF TypeInv, PlaceInv, RecordInv, Assembling, Passes
  <1>2. Len(trace[pass]) = at /\ EndsAt(trace[pass][at], ptr)
    BY <1>1 DEF TraceInv
  <1>3. CASE UNCHANGED <<trace, ptr>> /\ pc' = "line" /\ at' = at + 1
    <2>1. at' - 1 = at
      BY <1>1, <1>3
    <2>2. QED
      BY <1>1, <1>2, <1>3, <2>1 DEF TraceInv
  <1>4. CASE TracedOn /\ pc' = "emit" /\ UNCHANGED at
    <2> DEFINE q == trace[pass]
               r == [q EXCEPT ![at].ptrs = Append(@, ptr')]
    <2>1. trace' = [trace EXCEPT ![pass] = r]
      BY <1>1, <1>4 DEF TracedOn
    <2>2. at \in DOMAIN q /\ q[at] \in TraceLine
      <3>1. ASSUME NEW S, NEW l \in Seq(S), Len(l) = at PROVE at \in DOMAIN l /\ l[at] \in S
        BY <1>1, <3>1
      <3> HIDE DEF TraceLine
      <3>2. QED
        BY <1>1, <1>2, <3>1
    <2>3. Len(r) = Len(q)
      BY <1>1
    <2>4. r[at].ptrs = Append(q[at].ptrs, ptr')
      BY <2>2 DEF TraceLine
    <2> HIDE DEF q, r
    <2>5. trace'[pass] = r /\ \A p \in 0..Passes-1 : p # pass => trace'[p] = trace[p]
      BY <1>1, <2>1
    <2>6. \A p \in 0..Passes-1 : p > pass \/ (p = pass /\ pc' \in {"args", "main"}) => trace'[p] = <<>>
      <3>1. \A p \in 0..Passes-1 : p > pass => p # pass
        BY <1>1 DEF Passes
      <3>2. pc' \notin {"args", "main"}
        BY <1>4
      <3>3. QED
        BY <2>5, <3>1, <3>2 DEF TraceInv
    <2>7. EndsAt(r[at], ptr')
      <3>1. q[at].ptrs \in Seq([Sections -> Int]) /\ ptr' \in [Sections -> Int]
        BY <2>2, TypeEmit DEF TraceLine, TypeInv, LayoutInv
      <3>2. ASSUME NEW S, NEW l \in Seq(S), NEW x \in S
            PROVE  Append(l, x) # <<>> /\ Append(l, x)[Len(Append(l, x))] = x
        BY <3>2
      <3>3. /\ Append(q[at].ptrs, ptr') # <<>>
            /\ Append(q[at].ptrs, ptr')[Len(Append(q[at].ptrs, ptr'))] = ptr'
        BY ZenonT(40), <3>1, <3>2
      <3>4. QED
        BY <2>4, <3>3 DEF EndsAt
    <2>8. QED
      BY <1>1, <1>2, <1>4, <2>3, <2>5, <2>6, <2>7 DEF TraceInv, q
  <1>5. QED
    BY <1>3, <1>4, ChunkTraced

LEMMA TraceMain == TypeInv /\ TraceInv /\ MainStep => TraceInv'
  <1> SUFFICES ASSUME TypeInv, TraceInv, MainStep PROVE TraceInv'
    OBVIOUS
  <1>1. trace' = trace /\ pass \in 0..2 /\ Passes = 2 /\ DOMAIN trace = 0..Passes-1
    BY DEF MainStep, StartPass, CannotOpen, NoSource, EndPass, Exit, TypeInv, PlaceInv, RecordInv, Passes
  <1>2. CASE StartPass
    <2>1. pc' = "line" /\ at' = 1 /\ pass' = pass /\ pass \in 0..Passes-1 /\ trace[pass] = <<>>
      <3>1. pass < 2
        BY <1>1, <1>2 DEF StartPass
      <3>2. pass \in 0..Passes-1
        BY <1>1, <3>1
      <3>3. QED
        BY <1>2, <3>2 DEF StartPass, TraceInv
    <2>2. Len(<<>>) = 1 - 1
      OBVIOUS
    <2>3. QED
      BY <1>1, <2>1, <2>2 DEF TraceInv
  <1>3. CASE CannotOpen \/ Exit
    <2>1. pc' = "exit" /\ pass' = pass
      BY <1>3 DEF CannotOpen, Exit
    <2>2. QED
      BY <1>1, <2>1 DEF TraceInv
  <1>4. CASE NoSource \/ EndPass
    <2>1. pc' = "main" /\ (pass' = 2 \/ pass' = pass + 1)
      BY <1>1, <1>4 DEF NoSource, EndPass
    <2>2. \A p \in 0..1 : p > pass' \/ p = pass' => p > pass
      BY <1>1, <2>1
    <2>3. QED
      BY <1>1, <2>1, <2>2 DEF TraceInv
  <1>5. QED
    BY <1>2, <1>3, <1>4 DEF MainStep

LEMMA TraceKept == TypeInv /\ TraceInv /\ [Next]_vars => TraceInv'
  <1> SUFFICES ASSUME TypeInv, TraceInv, [Next]_vars PROVE TraceInv'
    OBVIOUS
  <1>1. CASE Arguments
    <2>1. UNCHANGED <<pass, trace>> /\ pc = "args" /\ pc' \in {"args", "main", "exit"}
      BY <1>1 DEF Arguments, ArgumentStep, TakeFormat, UnknownFormat, SetOutput, SetOrigin, SetLevel,
        Predefine, BadOption, TakeInput, SecondInput, NoOutput, Settle, GiveUp, Skip, Option
    <2>2. QED
      BY <2>1 DEF TraceInv
  <1>2. CASE UNCHANGED vars
    <2>1. UNCHANGED <<pass, trace, pc, at, ptr>>
      BY <1>2 DEF vars, layout
    <2>2. QED
      BY <2>1 DEF TraceInv
  <1>3. QED
    BY <1>1, <1>2, TraceLineKept, TraceChunkKept, TraceMain DEF Next

(* The records stay filed.                                                 *)
LEMMA PatchLine == TypeInv /\ TraceInv /\ PatchInv /\ LineStep => PatchInv'
  <1> SUFFICES ASSUME TypeInv, TraceInv, PatchInv, LineStep PROVE PatchInv'
    OBVIOUS
  <1>1. /\ pc = "line" /\ UNCHANGED <<pass, relocs>> /\ pass \in {0, 1} /\ relocs \in Seq(Patches)
        /\ ptr \in [Sections -> Int] /\ ptr' \in [Sections -> Int]
    <2>1. pass \in 0..2 /\ pass < 2
      BY LineTraced DEF TypeInv, PlaceInv, Assembling, Passes
    <2>2. pass \in {0, 1}
      BY <2>1
    <2>3. QED
      BY <2>2, LineTraced, TypeLine DEF TypeInv, RecordInv, LayoutInv
  <1>2. CASE pass = 0
    <2>1. relocs' = <<>>
      BY <1>1, <1>2 DEF PatchInv
    <2>2. QED
      BY <2>1 DEF PatchInv, Filed
  <1>3. CASE pass = 1
    <2> SUFFICES ASSUME NeverBack' PROVE Filed(relocs, ptr')
      BY <1>1, <1>3 DEF PatchInv
    <2>1. AllBehind(trace'[1], ptr') /\ InOrder(trace'[1])
      BY DEF NeverBack, AllBehind, InOrder
    <2>2. CASE UNCHANGED <<trace, ptr>>
      <3>1. NeverBack
        BY <2>1, <2>2 DEF NeverBack, AllBehind, InOrder
      <3>2. QED
        BY <2>2, <3>1 DEF PatchInv
    <2>3. CASE NewLine \in TraceLine /\ trace' = [trace EXCEPT ![pass] = Append(trace[pass], NewLine)]
      <3>1. trace[1] \in Seq(TraceLine) /\ trace'[1] = Append(trace[1], NewLine) /\ NewLine.ptrs = <<ptr>>
        BY <1>1, <1>3, <2>3 DEF TypeInv, RecordInv, Passes, NewLine
      <3> HIDE DEF NewLine
      <3>2. AllBehind(trace[1], ptr) /\ InOrder(trace[1]) /\ Within(ptr, ptr')
        BY <2>1, <2>3, <3>1, BehindLine
      <3>3. Filed(relocs, ptr)
        BY <3>2, NeverBackIs DEF PatchInv
      <3>4. QED
        BY <1>1, <3>2, <3>3, FiledBehind
    <2>4. QED
      BY <2>2, <2>3, LineTraced
  <1>4. QED
    BY <1>1, <1>2, <1>3

LEMMA PatchChunk == TypeInv /\ TraceInv /\ PatchInv /\ EmitStep => PatchInv'
  <1> SUFFICES ASSUME TypeInv, TraceInv, PatchInv, EmitStep PROVE PatchInv'
    OBVIOUS
  <1>1. /\ pc = "emit" /\ UNCHANGED pass /\ pass \in {0, 1} /\ relocs \in Seq(Patches)
        /\ ptr \in [Sections -> Int] /\ ptr' \in [Sections -> Int] /\ section \in Sections
        /\ (section # "BSS" => ptr[section] \in 0..Word-1)
    <2>1. pass \in 0..2 /\ pass < 2
      BY ChunkTraced DEF TypeInv, PlaceInv, Assembling, Passes
    <2>2. pass \in {0, 1}
      BY <2>1
    <2>3. section = "BSS" \/ section = "TEXT" \/ section = "DATA"
      BY DEF TypeInv, LayoutInv, Sections
    <2>4. section # "BSS" => ptr[section] \in 0..Word-1
      BY <2>3 DEF TypeInv, LayoutInv
    <2>5. QED
      BY <2>2, <2>4, ChunkTraced, TypeEmit DEF TypeInv, RecordInv, LayoutInv
  <1>2. CASE pass = 0
    <2>1. relocs' = <<>>
      BY <1>1, <1>2, ChunkTraced DEF PatchInv
    <2>2. QED
      BY <1>1, <1>2, <2>1 DEF PatchInv, Filed
  <1>3. CASE pass = 1
    <2> SUFFICES ASSUME NeverBack' PROVE Filed(relocs', ptr')
      BY <1>1, <1>3 DEF PatchInv
    <2>1. AllBehind(trace'[1], ptr') /\ InOrder(trace'[1])
      BY DEF NeverBack, AllBehind, InOrder
    <2>2. CASE UNCHANGED <<trace, ptr, relocs>>
      <3>1. NeverBack
        BY <2>1, <2>2 DEF NeverBack, AllBehind, InOrder
      <3>2. QED
        BY <2>2, <3>1 DEF PatchInv
    <2>3. CASE TracedOn /\ Places(relocs, relocs', ptr')
      <3> DEFINE q == trace[1]
                 r == [q EXCEPT ![at].ptrs = Append(@, ptr')]
      <3>1. q \in Seq(TraceLine) /\ Len(q) = at /\ EndsAt(q[at], ptr) /\ trace'[1] = r
        BY <1>1, <1>3, <2>3 DEF TypeInv, RecordInv, Passes, TraceInv, TracedOn
      <3>2. at \in DOMAIN q
        <4>1. ASSUME NEW S, NEW l \in Seq(S), NEW n \in Nat \ {0}, Len(l) = n PROVE n \in DOMAIN l
          BY <4>1
        <4>2. at \in Nat \ {0}
          BY DEF TypeInv, PlaceInv
        <4> HIDE DEF TraceLine, q
        <4>3. QED
          BY <3>1, <4>1, <4>2
      <3>3. AllBehind(r, ptr') /\ InOrder(r)
        BY <2>1, <3>1
      <3> HIDE DEF q, r
      <3>4. q[at].ptrs # <<>> /\ q[at].ptrs[Len(q[at].ptrs)] = ptr /\ at = Len(q)
        BY <3>1 DEF EndsAt
      <3>5. DOMAIN r = DOMAIN q /\ r[at].ptrs = Append(q[at].ptrs, ptr') /\ \A j \in DOMAIN q \ {at} : r[j] = q[j]
        <4>1. q[at] \in TraceLine
          BY <3>1, <3>2
        <4>2. QED
          BY <3>2, <4>1 DEF r, TraceLine
      <3>6. AllBehind(q, ptr) /\ InOrder(q) /\ Within(ptr, ptr')
        <4> PICK l : l = q
          OBVIOUS
        <4> PICK m : m = r
          OBVIOUS
        <4> PICK old : old = ptr
          OBVIOUS
        <4> PICK now : now = ptr'
          OBVIOUS
        <4>1. l \in Seq(TraceLine) /\ old \in [Sections -> Int] /\ now \in [Sections -> Int]
          BY <1>1, <3>1
        <4>2. LastLine(l, at, old)
          BY <3>2, <3>4 DEF LastLine
        <4>3. ChunkAdded(l, at, now, m)
          BY <3>5 DEF ChunkAdded
        <4>4. AllBehind(m, now) /\ InOrder(m)
          BY <3>3
        <4>5. AllBehind(l, old) /\ InOrder(l) /\ Within(old, now)
          BY <4>1, <4>2, <4>3, <4>4, BehindChunk
        <4>6. QED
          BY <4>5
      <3>7. Filed(relocs, ptr)
        BY <3>6, NeverBackIs DEF PatchInv, q
      <3>8. CASE relocs' = relocs
        BY <1>1, <3>6, <3>7, <3>8, FiledBehind
      <3>9. ASSUME NEW n \in 1..4, ptr' = Past(ptr, section, n) PROVE ptr'[section] = ptr[section] + n
        BY <1>1, <3>6, <3>9, NoWrap
      <3>i. ptr[section] \in Int /\ ptr'[section] \in Int
        BY <1>1
      <3>10. ASSUME NEW d \in Patches, NEW n \in 1..4, NEW o \in 0..4, relocs' = <<d>> \o relocs, d.sec = section,
                    d.ofs = ptr[section] + o, o + d.width <= n, ptr' = Past(ptr, section, n)
             PROVE  Filed(relocs', ptr')
        <4>1. ptr'[section] = ptr[section] + n /\ d.width \in Int
          BY <3>9, <3>10 DEF Patches
        <4>2. ptr[section] <= d.ofs /\ d.ofs + d.width <= ptr'[section]
          BY <3>i, <3>10, <4>1
        <4>3. QED
          BY <1>1, <3>6, <3>7, <3>10, <4>2, FileOne
      <3>11. ASSUME NEW d \in Patches, NEW e \in Patches, relocs' = <<e>> \o (<<d>> \o relocs), d.sec = section,
                    e.sec = section, d.ofs = ptr[section], d.width = 2, e.ofs = ptr[section] + 2, e.width = 2,
                    ptr' = Past(ptr, section, 4)
             PROVE  Filed(relocs', ptr')
        <4> DEFINE mid == [ptr EXCEPT ![section] = @ + 2]
        <4>1. mid \in [Sections -> Int] /\ mid[section] = ptr[section] + 2
              /\ \A s \in Sections : s # section => mid[s] = ptr[s]
          BY <1>1, <3>i
        <4>2. ptr'[section] = ptr[section] + 4
          BY <3>9, <3>11
        <4> HIDE DEF mid
        <4>3. Within(ptr, mid)
          BY SMTT(30), <1>1, <4>1 DEF Within
        <4>4. Within(mid, ptr')
          <5>1. ASSUME NEW s \in Sections PROVE mid[s] <= ptr'[s]
            <6>1. CASE s = section
              BY <3>i, <4>1, <4>2, <6>1
            <6>2. CASE s # section
              <7>1. ptr[s] <= ptr'[s]
                BY <3>6 DEF Within
              <7>2. QED
                BY <4>1, <6>2, <7>1
            <6>3. QED
              BY <6>1, <6>2
          <5>2. QED
            BY <5>1 DEF Within
        <4>5. ptr[d.sec] <= d.ofs /\ d.ofs + d.width <= mid[d.sec]
          BY <3>i, <3>11, <4>1
        <4>6. Filed(<<d>> \o relocs, mid)
          BY <1>1, <3>7, <4>1, <4>3, <4>5, FileOne
        <4>7. <<d>> \o relocs \in Seq(Patches)
          <5> HIDE DEF Patches
          <5>1. QED
            BY <1>1
        <4>8. mid[e.sec] <= e.ofs /\ e.ofs + e.width <= ptr'[e.sec]
          BY <3>i, <3>11, <4>1, <4>2
        <4>9. QED
          BY <1>1, <3>11, <4>1, <4>4, <4>6, <4>7, <4>8, FileOne
      <3>12. QED
        BY Zenon, <2>3, <3>8, <3>10, <3>11 DEF Places
    <2>4. QED
      BY <2>2, <2>3, ChunkTraced
  <1>4. QED
    BY <1>1, <1>2, <1>3

LEMMA PatchKept == TypeInv /\ TraceInv /\ PatchInv /\ [Next]_vars => PatchInv'
  <1> SUFFICES ASSUME TypeInv, TraceInv, PatchInv, [Next]_vars PROVE PatchInv'
    OBVIOUS
  <1>1. ASSUME UNCHANGED <<relocs, ptr, trace>>, pass' = 0 => pass = 0 PROVE PatchInv'
    <2>1. NeverBack' = NeverBack
      BY <1>1 DEF NeverBack
    <2>2. QED
      BY <1>1, <2>1 DEF PatchInv
  <1>2. CASE Arguments
    BY <1>1, <1>2 DEF Arguments
  <1>3. CASE UNCHANGED vars
    BY <1>1, <1>3 DEF vars, layout
  <1>4. CASE StartPass
    <2>1. relocs' = <<>>
      BY <1>4 DEF StartPass
    <2>2. QED
      BY <2>1 DEF PatchInv, Filed
  <1>5. CASE CannotOpen \/ NoSource \/ EndPass \/ Exit
    <2>1. UNCHANGED <<relocs, ptr, trace>> /\ (pass' = pass \/ pass' = Passes \/ pass' = pass + 1)
      BY <1>5 DEF CannotOpen, NoSource, EndPass, Exit, layout
    <2>2. pass \in 0..2 /\ Passes = 2
      BY DEF TypeInv, PlaceInv, Passes
    <2>3. pass' = 0 => pass = 0
      BY <2>1, <2>2
    <2>4. QED
      BY <1>1, <2>1, <2>3
  <1>6. QED
    BY <1>2, <1>3, <1>4, <1>5, PatchLine, PatchChunk DEF Next, MainStep

(* The sections of an object are as long as the pointers say.              *)
SizeInv ==
  target = "rdf" =>
    /\ pc \in {"main"} \cup Assembling \/ pass = Passes => org = 0
    /\ pass = Passes /\ errors = {} =>
         Len(object.code) = ptr["TEXT"] /\ Len(object.data) = ptr["DATA"]

LEMMA SizeArguments == TypeInv /\ FileInv /\ SizeInv /\ Arguments => SizeInv'
  <1> SUFFICES ASSUME TypeInv, FileInv, SizeInv, Arguments, target' = "rdf" PROVE SizeInv'
    BY DEF SizeInv
  <1>1. pc = "args" /\ UNCHANGED pass /\ pc' \in {"args", "main", "exit"}
    BY DEF Arguments, ArgumentStep, TakeFormat, UnknownFormat, SetOutput, SetOrigin, SetLevel,
      Predefine, BadOption, TakeInput, SecondInput, NoOutput, Settle, GiveUp, Skip, Option
  <1>2. pass' # Passes
    BY <1>1 DEF FileInv, Passes
  <1>3. CASE Settle
    <2>1. org' = 0
      BY <1>3 DEF Settle
    <2>2. QED
      BY <1>2, <2>1 DEF SizeInv
  <1>4. CASE ~Settle
    <2>1. pc' \notin {"main"} \cup Assembling
      BY <1>1, <1>4 DEF Arguments, ArgumentStep, TakeFormat, UnknownFormat, SetOutput, SetOrigin, SetLevel,
        Predefine, BadOption, TakeInput, SecondInput, NoOutput, GiveUp, Skip, Option, Assembling
    <2>2. QED
      BY <1>2, <2>1 DEF SizeInv
  <1>5. QED
    BY <1>3, <1>4

LEMMA SizeSteps == TypeInv /\ SizeInv /\ (LineStep \/ EmitStep) => SizeInv'
  <1> SUFFICES ASSUME TypeInv, SizeInv, LineStep \/ EmitStep, target' = "rdf" PROVE SizeInv'
    BY DEF SizeInv
  <1>1. target = "rdf" /\ UNCHANGED pass /\ pc \in {"line", "emit"}
    BY LineWays, EmitWays
  <1>2. org' = org
    <2>0. isOrgDef
      BY <1>1 DEF TypeInv, OriginInv, Formats
    <2>1. CASE LineStep
      BY <1>1, <2>0, <2>1 DEF LineStep, LabelAlone, Reserve, SectionDirective, Export, Import, OrgDirective,
        OrgRefused, End, Equ, SyntaxError, List, Instr, NoRow, OutsideText, Starts, Define, Undef, Directive,
        Exhausted, layout
    <2>2. QED
      BY SMTT(30), <2>1, EmitWays
  <1>3. pass' # Passes /\ org = 0
    BY <1>1 DEF TypeInv, PlaceInv, Assembling, Passes, SizeInv
  <1>4. QED
    BY <1>2, <1>3 DEF SizeInv

LEMMA SizeMain == TypeInv /\ SizeInv /\ MainStep => SizeInv'
  <1> SUFFICES ASSUME TypeInv, SizeInv, MainStep, target' = "rdf" PROVE SizeInv'
    BY DEF SizeInv
  <1>1. target = "rdf" /\ UNCHANGED <<org, target>> /\ pc \in {"main", "end"} /\ org = 0
    BY DEF MainStep, StartPass, CannotOpen, NoSource, EndPass, Exit, input, layout, SizeInv, Assembling
  <1>2. CASE StartPass
    <2>1. pass \in 0..2 /\ pass < 2 /\ pass' = pass
      BY <1>2 DEF StartPass, TypeInv, PlaceInv, Passes, verdict
    <2>2. pass' # 2
      BY <2>1
    <2>3. QED
      BY <1>1, <2>2 DEF SizeInv, Passes
  <1>3. CASE CannotOpen \/ NoSource
    <2>1. errors' # {}
      BY <1>3 DEF NoSource, CannotOpen, Report, ErrorKinds
    <2>2. QED
      BY <1>1, <2>1 DEF SizeInv
  <1>4. CASE EndPass
    <2>1. object' = Object /\ ptr' = ptr
      BY <1>1, <1>4 DEF EndPass, layout
    <2>2. CodeSize = ptr["TEXT"] /\ ptr["TEXT"] \in Nat /\ ptr["DATA"] \in Nat
      BY <1>1, SizeRange DEF TypeInv, LayoutInv
    <2>3. \A sec, first : \A n \in Nat : Len(Bytes(sec, first, n)) = n
      BY DEF Bytes
    <2>4. object'.code = Bytes("TEXT", 0, CodeSize) /\ object'.data = Bytes("DATA", 0, ptr["DATA"])
      BY <2>1 DEF Object
    <2> HIDE DEF CodeSize
    <2>5. Len(object'.code) = ptr'["TEXT"] /\ Len(object'.data) = ptr'["DATA"]
      BY <2>1, <2>2, <2>3, <2>4
    <2>6. QED
      BY <1>1, <2>5 DEF SizeInv
  <1>5. CASE Exit
    <2>1. UNCHANGED <<pass, errors, object, ptr>>
      BY <1>5 DEF Exit, verdict, layout
    <2>2. QED
      BY <1>1, <2>1 DEF SizeInv
  <1>6. QED
    BY <1>2, <1>3, <1>4, <1>5 DEF MainStep

LEMMA SizeKept == TypeInv /\ FileInv /\ SizeInv /\ [Next]_vars => SizeInv'
  <1> SUFFICES ASSUME TypeInv, FileInv, SizeInv, [Next]_vars PROVE SizeInv'
    OBVIOUS
  <1>1. CASE UNCHANGED vars
    <2>1. UNCHANGED <<target, pc, pass, org, errors, object, ptr>>
      BY <1>1 DEF vars, input, output, verdict, layout
    <2>2. QED
      BY <2>1 DEF SizeInv
  <1>2. QED
    BY <1>1, SizeArguments, SizeSteps, SizeMain DEF Next

(* Where a record lies something was emitted, a record being made with the *)
(* chunk it patches.                                                       *)
SitedInv ==
  /\ \E S : image \in Seq(S)
  /\ \A i \in DOMAIN relocs : \E k \in DOMAIN image : image[k].sec = relocs[i].sec

LEMMA SitedChunk == TypeInv /\ SitedInv /\ EmitStep => SitedInv'
  <1> SUFFICES ASSUME TypeInv, SitedInv, EmitStep PROVE SitedInv'
    OBVIOUS
  <1>1. CASE UNCHANGED <<relocs, image>>
    BY <1>1 DEF SitedInv
  <1>2. ASSUME NEW x, image' = Append(image, x), x.sec = section PROVE SitedInv'
    <2>1. PICK S : image \in Seq(S)
      BY DEF SitedInv
    <2>2. /\ image' \in Seq(S \cup {x}) /\ image'[Len(image) + 1] = x /\ Len(image) + 1 \in DOMAIN image'
          /\ \A k \in DOMAIN image : k \in DOMAIN image' /\ image'[k] = image[k]
      BY <1>2, <2>1
    <2>3. \A i \in DOMAIN relocs' : relocs'[i].sec = section \/ \E j \in DOMAIN relocs : relocs'[i] = relocs[j]
      <3>1. relocs \in Seq(Patches)
        BY DEF TypeInv, RecordInv
      <3>2. ASSUME NEW T, NEW l \in Seq(T), NEW r \in T, NEW i \in DOMAIN (<<r>> \o l)
            PROVE  (<<r>> \o l)[i] = r \/ \E j \in DOMAIN l : (<<r>> \o l)[i] = l[j]
        <4>1. CASE i = 1
          BY <3>2, <4>1
        <4>2. CASE i # 1
          <5>1. i - 1 \in DOMAIN l /\ (<<r>> \o l)[i] = l[i - 1]
            BY <3>2, <4>2
          <5>2. QED
            BY <5>1
        <4>3. QED
          BY <4>1, <4>2
      <3>3. ASSUME NEW T, NEW l \in Seq(T), NEW r \in T PROVE <<r>> \o l \in Seq(T)
        BY <3>3
      <3> HIDE DEF Patches
      <3>4. relocs' = relocs \/ Places(relocs, relocs', ptr')
        BY ChunkTraced
      <3> DEFINE Grown(l) == \A i \in DOMAIN l : l[i].sec = section \/ \E j \in DOMAIN relocs : l[i] = relocs[j]
      <3>5. Grown(relocs)
        OBVIOUS
      <3>6. ASSUME NEW l \in Seq(Patches), Grown(l), NEW r \in Patches, r.sec = section
            PROVE  <<r>> \o l \in Seq(Patches) /\ Grown(<<r>> \o l)
        <4>1. <<r>> \o l \in Seq(Patches)
          BY <3>3, <3>6
        <4>2. \A i \in DOMAIN (<<r>> \o l) : (<<r>> \o l)[i] = r \/ \E j \in DOMAIN l : (<<r>> \o l)[i] = l[j]
          BY <3>2, <3>6
        <4>3. QED
          BY <3>6, <4>1, <4>2
      <3> HIDE DEF Grown
      <3>7. ASSUME relocs' = relocs PROVE Grown(relocs')
        BY <3>5, <3>7
      <3>8. ASSUME \E r \in Patches : r.sec = section /\ relocs' = <<r>> \o relocs
            PROVE  Grown(relocs')
        BY <3>1, <3>5, <3>6, <3>8
      <3>9. ASSUME \E r, s \in Patches : r.sec = section /\ s.sec = section /\ relocs' = <<s>> \o (<<r>> \o relocs)
            PROVE  Grown(relocs')
        BY <3>1, <3>5, <3>6, <3>9
      <3>10. Grown(relocs')
        <4>1. ASSUME Places(relocs, relocs', ptr')
              PROVE  \/ relocs' = relocs
                     \/ \E r \in Patches : r.sec = section /\ relocs' = <<r>> \o relocs
                     \/ \E r, s \in Patches : r.sec = section /\ s.sec = section /\ relocs' = <<s>> \o (<<r>> \o relocs)
          BY <4>1, Zenon DEF Places
        <4>2. QED
          BY <3>4, <3>7, <3>8, <3>9, <4>1, Zenon
      <3>11. QED
        BY <3>10 DEF Grown
    <2>4. QED
      BY <1>2, <2>2, <2>3 DEF SitedInv
  <1>3. CASE EmitBytes \/ LineEmitted
    BY <1>1, <1>3 DEF EmitBytes, LineEmitted
  <1>4. ASSUME NEW kind, NEW ofs, NEW width, NEW v, NEW size, Put(kind, ofs, width, v, size) PROVE SitedInv'
    BY <1>2, <1>4 DEF Put
  <1>5. CASE EmitByte \/ RejectSeg \/ EmitSeg \/ EmitWord \/ EmitLong \/ EmitRel8 \/ ShortToImport
             \/ EmitRel16 \/ NearToImport \/ FarRejected \/ EmitFar \/ EmitAddress \/ EmitBased
    BY <1>4, <1>5 DEF EmitByte, RejectSeg, EmitSeg, EmitWord, EmitLong, EmitRel8,
      ShortToImport, EmitRel16, NearToImport, FarRejected, EmitFar, EmitAddress, EmitBased
  <1>6. QED
    BY <1>3, <1>5 DEF EmitStep

LEMMA SitedKept == TypeInv /\ SitedInv /\ [Next]_vars => SitedInv'
  <1> SUFFICES ASSUME TypeInv, SitedInv, [Next]_vars PROVE SitedInv'
    OBVIOUS
  <1>1. ASSUME UNCHANGED <<relocs, image>> PROVE SitedInv'
    BY <1>1 DEF SitedInv
  <1>2. CASE LineStep
    <2>1. LabelAlone \/ Reserve \/ SectionDirective \/ Export \/ Import \/ OrgDirective \/ OrgRefused \/ Equ
            \/ End \/ SyntaxError => Done
      BY DEF LabelAlone, Reserve, SectionDirective, Export, Import, OrgDirective, OrgRefused, Equ, End, SyntaxError
    <2>2. Define \/ Undef => Directive
      BY DEF Define, Undef
    <2>3. List \/ Instr \/ NoRow \/ OutsideText => \E chunks, said : Starts(chunks, said)
      BY DEF List, Instr, NoRow, OutsideText
    <2>4. QED
      BY <1>1, <1>2, <2>1, <2>2, <2>3 DEF LineStep, Done, Directive, Starts, Exhausted
  <1>3. CASE StartPass
    <2>1. image' = <<>> /\ relocs' = <<>>
      BY <1>3 DEF StartPass
    <2>2. QED
      BY <2>1 DEF SitedInv
  <1>4. CASE Arguments \/ CannotOpen \/ NoSource \/ EndPass \/ Exit \/ UNCHANGED vars
    BY <1>1, <1>4 DEF Arguments, CannotOpen, NoSource, EndPass, Exit, vars
  <1>5. QED
    BY <1>2, <1>3, <1>4, SitedChunk DEF Next, MainStep

(* Unless a pointer went back or data was emitted in .bss, every record of *)
(* an object patches bytes of its code or of its data, and no byte twice,  *)
(* however many there are and whatever the program (add_reloc and its      *)
(* callers, ASSEMBLR.C:39-160, RDF.C:140-204).                             *)
THEOREM RelocsApart == Spec => []RelocsPatchable
  <1>1. Init => TypeInv /\ FileInv /\ TraceInv /\ PatchInv /\ SizeInv /\ SitedInv
    <2>1. ASSUME Init PROVE TraceInv
      <3>1. pc = "args" /\ trace = [p \in 0..Passes-1 |-> <<>>]
        BY <2>1 DEF Init, ArgumentsInit
      <3>2. QED
        BY <3>1 DEF TraceInv
    <2>2. Init => PatchInv
      <3>1. \A p : Filed(<<>>, p)
        BY DEF Filed
      <3>2. QED
        BY <3>1 DEF Init, ArgumentsInit, PatchInv
    <2>4. Init => SizeInv
      BY DEF Init, ArgumentsInit, SizeInv, Assembling
    <2>5. Init => SitedInv
      <3>1. <<>> \in Seq({})
        OBVIOUS
      <3>2. QED
        BY <3>1 DEF Init, SitedInv
    <2>6. QED
      BY <2>1, <2>2, <2>4, <2>5, TypeInit, FileInit
  <1>2. TypeInv /\ FileInv /\ TraceInv /\ PatchInv /\ SizeInv /\ SitedInv /\ [Next]_vars =>
          TypeInv' /\ FileInv' /\ TraceInv' /\ PatchInv' /\ SizeInv' /\ SitedInv'
    BY TypesKept, FileKept, TraceKept, PatchKept, SizeKept, SitedKept
  <1>3. ASSUME TypeInv, FileInv, PatchInv, SizeInv, SitedInv PROVE RelocsPatchable
    <2> SUFFICES ASSUME Delivered, target = "rdf", NeverBack, OnlyReserved, NEW i \in DOMAIN relocs
                 PROVE  /\ \/ relocs[i].sec = "TEXT" /\ relocs[i].ofs + relocs[i].width <= Len(object.code)
                           \/ relocs[i].sec = "DATA" /\ relocs[i].ofs + relocs[i].width <= Len(object.data)
                        /\ \A j \in DOMAIN relocs :
                             \/ i = j \/ relocs[j].sec # relocs[i].sec
                             \/ relocs[j].ofs + relocs[j].width <= relocs[i].ofs
                             \/ relocs[i].ofs + relocs[i].width <= relocs[j].ofs
      BY DEF RelocsPatchable
    <2>1. pass = Passes /\ errors = {}
      BY <1>3 DEF FileInv, OutputOnlyIfClean, Delivered
    <2>2. Len(object.code) = ptr["TEXT"] /\ Len(object.data) = ptr["DATA"]
      BY <1>3, <2>1 DEF SizeInv
    <2>3. Filed(relocs, ptr)
      BY <1>3 DEF PatchInv
    <2>4. relocs[i].ofs + relocs[i].width <= ptr[relocs[i].sec]
      BY <2>3 DEF Filed
    <2>5. \A j \in DOMAIN relocs : i = j \/ LiesApart(relocs[i], relocs[j])
      BY <2>3 DEF Filed
    <2>6. relocs[i].sec = "TEXT" \/ relocs[i].sec = "DATA"
      <3>1. relocs[i] \in Patches
        BY <1>3 DEF TypeInv, RecordInv
      <3>2. relocs[i].sec \in Sections
        BY <3>1 DEF Patches
      <3>3. relocs[i].sec # "BSS"
        BY <1>3 DEF SitedInv, OnlyReserved
      <3>4. QED
        BY <3>2, <3>3 DEF Sections
    <2>7. QED
      BY <2>2, <2>4, <2>5, <2>6 DEF LiesApart
  <1>4. QED
    BY <1>1, <1>2, <1>3, PTL DEF Spec
=============================================================================
