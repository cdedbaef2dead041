------------------------ MODULE Preprocessor_proofs ------------------------
(* The preprocessor keeps its types, its stacks their discipline, and its  *)
(* input names their owners, for every program and every limit.            *)
EXTENDS Preprocessor, SymbolTable_proofs, FiniteSetTheorems,
        SequenceTheorems

-----------------------------------------------------------------------------
(* Facts about sequences.                                                  *)

LEMMA FunctionIsSeq ==
  ASSUME NEW S, NEW n \in Nat, NEW f \in [1..n -> S]
  PROVE  f \in Seq(S) /\ Len(f) = n
  BY SeqDef

LEMMA FrontLast ==
  ASSUME NEW S, NEW s \in Seq(S), s # <<>>
  PROVE  /\ Len(s) \in Nat \ {0}
         /\ Last(s) = s[Len(s)] /\ Last(s) \in S
         /\ Front(s) \in Seq(S) /\ Len(Front(s)) = Len(s) - 1
         /\ \A i \in 1..Len(s) - 1 : Front(s)[i] = s[i]
  <1>1. PICK n \in Nat : Len(s) = n + 1
    BY EmptySeq
  <1>2. Last(s) = s[Len(s)] /\ Last(s) \in S
    BY <1>1, ElementOfSeq DEF Last
  <1>3. Front(s) = SubSeq(s, 1, n)
    BY <1>1 DEF Front
  <1>4. \A i \in 1..n : s[i] \in S
    BY <1>1, ElementOfSeq
  <1>5. SubSeq(s, 1, n) \in Seq(S) /\ Len(SubSeq(s, 1, n)) = n
    BY <1>4, SubSeqProperties
  <1>6. \A i \in 1..n : SubSeq(s, 1, n)[i] = s[i]
    BY <1>1
  <1>7. QED
    BY <1>1, <1>2, <1>3, <1>5, <1>6

-----------------------------------------------------------------------------
(* Facts about lines and expansions.                                       *)

LEMMA LineTypes == NoLine \in Line /\ Sentinel \notin Line /\ NoScope \in Name
  <1>1. "" \in STRING
    BY NoTextAssumption DEF NoTextAssumption
  <1>2. "" # SentinelText
    BY DEF SentinelText
  <1>3. \A op \in STRING \ {SentinelText} : [op |-> op, label |-> NoSym, args |-> <<>>] \in Line
    BY NoSymType DEF Line
  <1>4. NoLine \in Line
    BY <1>1, <1>2, <1>3, Zenon DEF NoLine, LabelLine
  <1>5. QED
    BY <1>4 DEF Sentinel, Line, NoScope, Name

LEMMA SubstituteSymType ==
  ASSUME NEW s \in Sym, NEW args \in Seq(Sym), NEW id \in Nat
  PROVE  SubstituteSym(s, args, id) \in Sym
  <1>1. CASE s.kind = "fresh"
    BY <1>1 DEF SubstituteSym, Sym, SymKinds
  <1>2. CASE s.kind = "param"
    BY <1>2, NoSymType DEF SubstituteSym
  <1>3. CASE s.kind \notin {"fresh", "param"}
    BY <1>3 DEF SubstituteSym
  <1>4. QED
    BY <1>1, <1>2, <1>3

LEMMA SubstituteType ==
  ASSUME NEW l \in Line, NEW args \in Seq(Sym), NEW id \in Nat
  PROVE  Substitute(l, args, id) \in Line
  <1> DEFINE new == [i \in DOMAIN l.args |-> SubstituteSym(l.args[i], args, id)]
  <1>1. l.label \in Sym /\ l.args \in Seq(Sym)
    BY DEF Line
  <1>2. DOMAIN l.args = 1..Len(l.args) /\ Len(l.args) \in Nat
    BY <1>1, LenProperties
  <1>3. new \in [1..Len(l.args) -> Sym]
    BY <1>1, <1>2, SubstituteSymType
  <1>4. new \in Seq(Sym)
    BY <1>2, <1>3, FunctionIsSeq
  <1>5. SubstituteSym(l.label, args, id) \in Sym
    BY <1>1, SubstituteSymType
  <1>6. Substitute(l, args, id) =
          [op |-> l.op, label |-> SubstituteSym(l.label, args, id), args |-> new]
    BY DEF Substitute
  <1> HIDE DEF new
  <1>7. QED
    BY <1>4, <1>5, <1>6 DEF Line

(* An expansion is a sentinel with the macro's lines above it.             *)
LEMMA ExpansionType ==
  ASSUME NEW macro \in Extra, NEW args \in Seq(Sym), NEW id \in Nat
  PROVE  LET e == Expansion(macro, args, id)
         IN  /\ e \in Seq(Line \cup {Sentinel})
             /\ Len(e) = Len(macro.lines) + 1 /\ Len(macro.lines) \in Nat
             /\ e[1] = Sentinel
             /\ \A i \in 2..Len(e) : e[i] \in Line
  <1> DEFINE n    == Len(macro.lines)
             body == [i \in DOMAIN macro.lines |-> Substitute(macro.lines[i], args, id)]
             down == Reverse(body)
  <1>1. macro.lines \in Seq(Line)
    BY DEF Extra
  <1>2. n \in Nat /\ DOMAIN macro.lines = 1..n
    BY <1>1, LenProperties
  <1>3. body \in [1..n -> Line]
    BY <1>1, <1>2, SubstituteType
  <1>4. body \in Seq(Line) /\ Len(body) = n
    BY <1>2, <1>3, FunctionIsSeq
  <1> HIDE DEF body, n
  <1>5. down \in [1..n -> Line]
    <2>1. down = [i \in 1..n |-> body[n - i + 1]]
      BY <1>4 DEF Reverse
    <2>2. \A i \in 1..n : n - i + 1 \in 1..n
      BY <1>2
    <2>3. QED
      BY <1>3, <2>1, <2>2
  <1>6. down \in Seq(Line) /\ Len(down) = n
    BY <1>2, <1>5, FunctionIsSeq
  <1>7. Expansion(macro, args, id) = <<Sentinel>> \o down
    BY DEF Expansion, body
  <1> HIDE DEF down, n
  <1> DEFINE L == Line \cup {Sentinel}
  <1>8. down \in Seq(L) /\ <<Sentinel>> \in Seq(L) /\ Len(<<Sentinel>>) = 1
    BY <1>6
  <1> HIDE DEF L
  <1>9. /\ <<Sentinel>> \o down \in Seq(L)
        /\ Len(<<Sentinel>> \o down) = 1 + n
        /\ \A i \in 1..1 + n : (<<Sentinel>> \o down)[i] =
                    IF i <= 1 THEN <<Sentinel>>[i] ELSE down[i - 1]
    BY <1>6, <1>8, ConcatProperties
  <1>10. \A i \in 2..1 + n : i - 1 \in 1..n /\ ~ (i <= 1)
    BY <1>2
  <1>11. \A i \in 2..1 + n : (<<Sentinel>> \o down)[i] \in Line
    BY <1>2, <1>5, <1>9, <1>10
  <1>12. (<<Sentinel>> \o down)[1] = Sentinel
    BY <1>2, <1>9
  <1>13. QED
    BY <1>2, <1>7, <1>9, <1>11, <1>12 DEF L, n
-----------------------------------------------------------------------------
(* The inductive invariant: beside the types, every file in hand or        *)
(* suspended is one of the program's and is read no further than its end.  *)

FilesInv ==
  /\ src \in Sources
  /\ pc \in {"read", "line"} => file.name \in DOMAIN src /\ file.pos <= Len(Text)
  /\ \A i \in DOMAIN incl :
       LET f == incl[i].file IN f.name \in DOMAIN src /\ f.pos <= Len(src[f.name])
  /\ includeDepth = Len(incl)
  /\ pc \in {"read", "line", "close"} => pass < Passes

TypeInv == TypeOK /\ FilesInv

(* What reading needs to know of the file in hand.                         *)
LEMMA TextFacts ==
  ASSUME TypeInv, pc \in {"read", "line"}
  PROVE  /\ Text \in Seq(Line) /\ Len(Text) \in Nat
         /\ file \in [name : STRING, pos : Nat] /\ file.pos <= Len(Text)
         /\ \A i \in 1..Len(Text) : Text[i] \in Line /\ Text[i].label.kind # "unique"
  <1>1. file.name \in DOMAIN src /\ file.pos <= Len(Text) /\ src \in Sources
    BY DEF TypeInv, FilesInv
  <1>2. Text \in Seq(Line)
    BY <1>1 DEF TypeInv, TypeOK, Text
  <1>3. DOMAIN Text = 1..Len(Text) /\ Len(Text) \in Nat
    BY <1>2, LenProperties
  <1>4. \A i \in 1..Len(Text) : Text[i] \in Line
    BY <1>2, ElementOfSeq
  <1>5. \A i \in 1..Len(Text) : Text[i].label.kind # "unique"
    BY <1>1, <1>3, SourcesAssumption DEF SourcesAssumption, Text
  <1>6. QED
    BY <1>1, <1>2, <1>3, <1>4, <1>5 DEF TypeInv, TypeOK

LEMMA FirstUnreadRange ==
  ASSUME TypeInv, pc \in {"read", "line"}, NEW ops
  PROVE  FirstUnread(ops) \in file.pos + 1..Len(Text) + 1
  <1> DEFINE hits == {i \in file.pos + 1..Len(Text) : \E op \in ops : IsDirective(Text[i], op)}
  <1>1. file.pos \in Nat /\ Len(Text) \in Nat /\ file.pos <= Len(Text)
    BY TextFacts
  <1>2. hits \in SUBSET Nat
    BY <1>1
  <1>3. hits # {} => Min(hits) \in hits
    BY <1>2, MinOfNaturals
  <1>4. FirstUnread(ops) = IF hits = {} THEN Len(Text) + 1 ELSE Min(hits)
    BY DEF FirstUnread
  <1>5. \A i \in hits : i \in file.pos + 1..Len(Text)
    OBVIOUS
  <1> HIDE DEF hits
  <1>6. QED
    BY <1>1, <1>3, <1>4, <1>5

LEMMA ReadToFacts ==
  ASSUME TypeInv, pc \in {"read", "line"},
         NEW i \in file.pos + 1..Len(Text) + 1, ReadTo(i)
  PROVE  /\ file' \in [name : STRING, pos : Nat] /\ file'.name = file.name
         /\ file'.pos <= Len(Text) /\ linenr' \in Nat
  <1>1. file \in [name : STRING, pos : Nat] /\ file.pos <= Len(Text) /\ Len(Text) \in Nat
    BY TextFacts
  <1>2. linenr \in Nat
    BY DEF TypeInv, TypeOK
  <1> DEFINE end == IF i > Len(Text) THEN Len(Text) ELSE i
  <1>3. file' = [file EXCEPT !.pos = end] /\ linenr' = linenr + (end - file.pos)
    BY DEF ReadTo
  <1>4. end \in Nat /\ end <= Len(Text) /\ file.pos <= end /\ file.pos \in Nat
    BY <1>1
  <1> HIDE DEF end
  <1>5. linenr' \in Nat
    BY <1>2, <1>3, <1>4
  <1>6. QED
    BY <1>1, <1>3, <1>4, <1>5
-----------------------------------------------------------------------------
(* Every step keeps the types.                                             *)

LEMMA TypeInit == Init => TypeInv
  <1> SUFFICES ASSUME Init PROVE TypeInv
    OBVIOUS
  <1>1. \A f \in DOMAIN src : src[f] \in Seq(Line)
    BY SourcesAssumption DEF Init, SourcesAssumption
  <1>2. line \in Line /\ lastGlobal \in Name /\ file \in [name : STRING, pos : Nat]
    BY LineTypes, NamesAssumption DEF Init, NamesAssumption
  <1>3. IsTable(consts)
    BY EmptyTableType DEF Init
  <1>4. inputname \in Strings /\ freed \subseteq Strings
    BY LimitsAssumption DEF Init, Strings, LimitsAssumption
  <1>5. pending \in Seq(Line \cup {Sentinel}) /\ saves \in Seq(Name) /\ incl \in Seq(Frame)
    BY EmptySeq DEF Init
  <1>6. stream \in [0..Passes-1 -> Seq([op : STRING, label : Name, args : Seq(Name)])]
    BY EmptySeq DEF Init
  <1>7. /\ pass \in 0..Passes /\ pc \in PC /\ includeDepth \in Nat /\ linenr \in Nat
        /\ invocId \in Nat /\ stop \in BOOLEAN /\ errors \subseteq ErrorKinds
    BY DEF Init, PC, Passes
  <1>8. TypeOK
    BY <1>1, <1>2, <1>3, <1>4, <1>5, <1>6, <1>7 DEF TypeOK
  <1>9. FilesInv
    BY EmptySeq DEF Init, FilesInv
  <1>10. QED
    BY <1>8, <1>9 DEF TypeInv

LEMMA DeliverFacts ==
  ASSUME TypeInv, NEW l \in Line, Deliver(l)
  PROVE  line' \in Line /\ pc' \in PC \ {"read"} /\ linenr' \in Nat
  BY DEF TypeInv, TypeOK, Deliver, PC

LEMMA ReadTypes ==
  ASSUME TypeInv, Read
  PROVE  TypeInv'
  <1> USE DEF TypeInv, TypeOK, FilesInv, Text, readVars, macroVars
  <1>1. CASE EndExpansion
    <2>1. pending' \in Seq(Line \cup {Sentinel})
      BY <1>1, FrontLast DEF EndExpansion
    <2>2. lastGlobal' \in Name /\ saves' \in Seq(Name)
      BY <1>1, FrontLast DEF EndExpansion
    <2>3. QED
      BY <1>1, <2>1, <2>2 DEF EndExpansion
  <1>2. CASE ReadPending
    <2>0. /\ pending # <<>> /\ Last(pending) # Sentinel /\ pending' = Front(pending)
          /\ pending \in Seq(Line \cup {Sentinel})
      BY <1>2 DEF ReadPending
    <2>1. pending' \in Seq(Line \cup {Sentinel}) /\ Last(pending) \in Line
      <3> HIDE DEF TypeInv, TypeOK, FilesInv
      <3>1. Last(pending) \in Line \cup {Sentinel} /\ Front(pending) \in Seq(Line \cup {Sentinel})
        BY <2>0, FrontLast
      <3>2. QED
        BY <2>0, <3>1
    <2>2. line' \in Line /\ pc' \in PC \ {"read"} /\ linenr' \in Nat
      BY <1>2, <2>1, DeliverFacts DEF ReadPending
    <2>3. QED
      BY <1>2, <2>1, <2>2 DEF ReadPending, PC
  <1>3. CASE ReadFile
    <2>1. /\ Text \in Seq(Line) /\ Len(Text) \in Nat /\ file.pos + 1 \in 1..Len(Text)
          /\ Text[file.pos + 1] \in Line
      <3>1. pc = "read" /\ file.pos < Len(Text)
        BY <1>3 DEF ReadFile
      <3> HIDE DEF TypeInv, TypeOK, FilesInv, Text
      <3>2. /\ Text \in Seq(Line) /\ Len(Text) \in Nat /\ file.pos \in Nat
            /\ \A i \in 1..Len(Text) : Text[i] \in Line
        BY <3>1, TextFacts
      <3>3. file.pos + 1 \in 1..Len(Text)
        BY <3>1, <3>2
      <3>4. QED
        BY <3>2, <3>3
    <2>2. line' \in Line /\ pc' \in PC \ {"read"} /\ linenr' \in Nat
      BY <1>3, <2>1, DeliverFacts DEF ReadFile
    <2>3. /\ file' \in [name : STRING, pos : Nat]
          /\ file'.name = file.name /\ file'.pos <= Len(Text)
      BY <1>3, <2>1 DEF ReadFile
    <2>4. QED
      BY <1>3, <2>1, <2>2, <2>3 DEF ReadFile, PC
  <1>4. CASE PopInclude
    <2>1. /\ Len(incl) \in Nat \ {0} /\ Last(incl) \in Frame /\ Last(incl) = incl[Len(incl)]
          /\ incl' \in Seq(Frame) /\ Len(incl') = Len(incl) - 1
          /\ \A i \in 1..Len(incl) - 1 : incl'[i] = incl[i]
      BY <1>4, FrontLast DEF PopInclude
    <2>2. includeDepth' = Len(incl') /\ includeDepth' \in Nat
      BY <1>4, <2>1 DEF PopInclude
    <2>3. /\ file' \in [name : STRING, pos : Nat] /\ linenr' \in Nat
          /\ inputname' \in Strings /\ freed' \subseteq Strings
      BY <1>4, <2>1 DEF PopInclude, Frame
    <2>4. DOMAIN incl = 1..Len(incl) /\ DOMAIN incl' = 1..Len(incl')
      BY <2>1, LenProperties
    <2>5. \A i \in DOMAIN incl' : i \in DOMAIN incl /\ incl'[i] = incl[i]
      BY <2>1, <2>4
    <2>6. file'.name \in DOMAIN src /\ file'.pos <= Len(src[file'.name])
      <3>1. file' = incl[Len(incl)].file /\ Len(incl) \in DOMAIN incl
        BY <1>4, <2>1, <2>4 DEF PopInclude
      <3>2. \A i \in DOMAIN incl : incl[i].file.name \in DOMAIN src
                               /\ incl[i].file.pos <= Len(src[incl[i].file.name])
        OBVIOUS
      <3> HIDE DEF TypeInv
      <3>3. QED
        BY <3>1, <3>2
    <2>7. QED
      BY <1>4, <2>1, <2>2, <2>3, <2>5, <2>6 DEF PopInclude, AtEndOfFile
  <1>5. CASE EndOfSource
    BY <1>5 DEF EndOfSource, AtEndOfFile, PC
  <1>6. QED
    BY <1>1, <1>2, <1>3, <1>4, <1>5 DEF Read

LEMMA ExpansionOfMacroType ==
  ASSUME TypeInv, pc = "line", IsMacro(line.op)
  PROVE  consts[Command(line.op)].extra \in Extra
  BY DEF TypeInv, TypeOK, IsMacro, HasType, IsTable, Entry

(* The operand a directive is recognised by.                               *)
LEMMA OperandType ==
  ASSUME TypeInv, NEW op \in Operative, Directive(op)
  PROVE  /\ pc = "line" /\ line.args # <<>>
         /\ line.args[1] \in Sym /\ RawName(line.args[1]) \in Name
  <1>1. pc = "line" /\ line.args # <<>>
    BY DEF Directive, IsDirective
  <1>2. line.args \in Seq(Sym)
    BY DEF TypeInv, TypeOK, Line
  <1>3. line.args[1] \in Sym
    BY <1>1, <1>2, EmptySeq, ElementOfSeq
  <1>4. QED
    BY <1>1, <1>3, LineTypes, QNameType DEF RawName

LEMMA ArgcType == ASSUME TypeInv PROVE Argc \in Nat /\ ArgcErrors \subseteq ErrorKinds
  <1>1. line.args \in Seq(Sym)
    BY DEF TypeInv, TypeOK, Line
  <1>2. ASSUME Len(line.args) > 1 PROVE line.args[2].n \in Nat
    <2>1. 2 \in 1..Len(line.args)
      BY <1>1, <1>2, LenProperties
    <2>2. line.args[2] \in Sym
      BY <1>1, <2>1, ElementOfSeq
    <2>3. QED
      BY <2>2 DEF Sym
  <1>3. QED
    BY <1>2 DEF Argc, ArgcErrors, ErrorKinds

LEMMA SlurpArguments ==
  ASSUME TypeInv, SlurpMacro
  PROVE  /\ RawName(line.args[1]) \in Name
         /\ MacroBody(Argc, SubSeq(Text, file.pos + 1, FirstUnread({"%macro", "%endmacro"}) - 1))
              \in Extra
  <1> DEFINE end  == FirstUnread({"%macro", "%endmacro"})
             body == SubSeq(Text, file.pos + 1, end - 1)
  <1>1. Directive("%macro") /\ pc = "line"
    BY DEF SlurpMacro, Directive
  <1>2. end \in file.pos + 1..Len(Text) + 1
    BY <1>1, FirstUnreadRange
  <1>3. RawName(line.args[1]) \in Name /\ Argc \in Nat
    BY <1>1, OperandType, ArgcType DEF Operative
  <1>4. body \in Seq(Line)
    BY <1>1, <1>2, TextFacts, SubSeqProperties
  <1>5. QED
    BY <1>3, <1>4, NoSymType DEF MacroBody, NoExtra, Extra

LEMMA DefineArguments ==
  ASSUME TypeInv, DefineDirective
  PROVE  /\ RawName(line.args[1]) \in Name
         /\ HasBody => DefineBody(line.args[2]) \in Extra
  <1>1. RawName(line.args[1]) \in Name
    BY OperandType DEF DefineDirective, Operative
  <1>2. ASSUME HasBody PROVE DefineBody(line.args[2]) \in Extra
    <2>1. line.args \in Seq(Sym)
      BY DEF TypeInv, TypeOK, Line
    <2>2. 2 \in 1..Len(line.args)
      BY <1>2, <2>1, LenProperties DEF HasBody
    <2>3. line.args[2] \in Sym
      BY <2>1, <2>2, ElementOfSeq
    <2>4. QED
      BY <2>3, FreshType DEF DefineBody, NoExtra, Extra
  <1>3. QED
    BY <1>1, <1>2

LEMMA DirectiveTypes ==
  ASSUME TypeInv, Preprocess, ~InvokeMacro
  PROVE  TypeInv'
  <1> USE DEF TypeInv, TypeOK, FilesInv, Text, readVars
  <1>1. CASE SlurpMacro
    <2> DEFINE end  == FirstUnread({"%macro", "%endmacro"})
               body == SubSeq(Text, file.pos + 1, end - 1)
               name == RawName(line.args[1])
    <2>1. Directive("%macro") /\ pc = "line" /\ ReadTo(end)
      BY <1>1 DEF SlurpMacro, Directive
    <2>2. end \in file.pos + 1..Len(Text) + 1
      BY <2>1, FirstUnreadRange
    <2>3. /\ file' \in [name : STRING, pos : Nat] /\ file'.name = file.name
          /\ file'.pos <= Len(Text) /\ linenr' \in Nat
      BY <2>1, <2>2, ReadToFacts
    <2>4. ArgcErrors \subseteq ErrorKinds
      BY ArgcType
    <2>5. name \in Name /\ MacroBody(Argc, body) \in Extra
      BY <1>1, SlurpArguments
    <2>6. IsTable(SetExtra(AddConst(consts, name, "MACRO", 0), name, MacroBody(Argc, body)))
      <3> DEFINE x == MacroBody(Argc, body)
      <3>1. x \in Extra /\ name \in Name /\ "MACRO" \in ConstTypes /\ IsTable(consts) /\ 0 \in Int
        BY <2>5 DEF ConstTypes
      <3> HIDE DEF x, name, TypeInv
      <3>2. IsTable(SetExtra(AddConst(consts, name, "MACRO", 0), name, x))
        BY <3>1, RegisterTable
      <3>3. QED
        BY <3>2 DEF x
    <2>7. IsTable(consts')
      BY <1>1, <2>6 DEF SlurpMacro
    <2>8. errors' \subseteq ErrorKinds
      BY <1>1, <2>4 DEF SlurpMacro, ErrorKinds
    <2>9. QED
      BY <2>1, <2>3, <2>7, <2>8 DEF Directive, ReadTo, PC
  <1>2. CASE SkipMacro
    <2> DEFINE end == FirstUnread(BodyEnds)
    <2>1. Directive("%macro") /\ pc = "line" /\ ReadTo(end)
      BY <1>2 DEF SkipMacro, Directive
    <2>2. end \in file.pos + 1..Len(Text) + 1
      BY <2>1, FirstUnreadRange
    <2>3. /\ file' \in [name : STRING, pos : Nat] /\ file'.name = file.name
          /\ file'.pos <= Len(Text) /\ linenr' \in Nat
      BY <2>1, <2>2, ReadToFacts
    <2>4. ArgcErrors \subseteq ErrorKinds
      BY ArgcType
    <2>5. QED
      BY <1>2, <2>1, <2>3, <2>4 DEF SkipMacro, Directive, ReadTo, PC
  <1>3. CASE EndMacroDirective
    BY <1>3 DEF EndMacroDirective, Directive, Report, ErrorKinds, PC
  <1>4. CASE UnknownDirective
    BY <1>4 DEF UnknownDirective, macroVars, Report, ErrorKinds, PC
  <1>5. CASE IncludeDirective
    <2> DEFINE frame == [file |-> file, linenr |-> linenr, name |-> inputname]
               path  == line.args[1].name
    <2>1. path \in STRING /\ path \in DOMAIN src
      BY <1>5, OperandType DEF IncludeDirective, Operative, Sym
    <2>2. includeDepth \in Nat /\ includeDepth < IncludeMax /\ IncludeMax \in Nat
      BY <1>5, LimitsAssumption DEF IncludeDirective, LimitsAssumption
    <2>3. includeDepth + 1 \in Strings
      BY <2>2 DEF Strings
    <2>4. /\ incl' = Append(incl, frame) /\ file' = [name |-> path, pos |-> 0]
          /\ linenr' = 0 /\ includeDepth' = includeDepth + 1
          /\ inputname' = includeDepth + 1 /\ freed' \subseteq freed
          /\ pc = "line" /\ pc' = "read"
      BY <1>5 DEF IncludeDirective, Directive
    <2>5. frame \in Frame /\ incl \in Seq(Frame)
      BY DEF Frame
    <2>6. /\ incl' \in Seq(Frame) /\ Len(incl') = Len(incl) + 1
          /\ \A i \in 1..Len(incl) : incl'[i] = incl[i]
          /\ incl'[Len(incl) + 1] = frame
      BY <2>4, <2>5, AppendProperties
    <2>7. Len(incl) \in Nat /\ DOMAIN incl = 1..Len(incl) /\ DOMAIN incl' = 1..Len(incl) + 1
      BY <2>5, <2>6, LenProperties
    <2>8. file.name \in DOMAIN src /\ file.pos <= Len(src[file.name])
      BY <2>4
    <2>9. \A i \in DOMAIN incl : incl[i].file.name \in DOMAIN src
                               /\ incl[i].file.pos <= Len(src[incl[i].file.name])
      OBVIOUS
    <2>10. ASSUME NEW i \in DOMAIN incl'
           PROVE  incl'[i].file.name \in DOMAIN src
                  /\ incl'[i].file.pos <= Len(src[incl'[i].file.name])
      <3> HIDE DEF TypeInv
      <3>1. CASE i \in 1..Len(incl)
        BY <2>6, <2>7, <2>9, <3>1
      <3>2. CASE i = Len(incl) + 1
        BY <2>6, <2>8, <3>2
      <3>3. QED
        BY <2>7, <3>1, <3>2
    <2>11. src[path] \in Seq(Line)
      BY <2>1
    <2>12. 0 <= Len(src[path])
      <3> HIDE DEF path, TypeInv
      <3>1. QED
        BY <2>11, LenProperties
    <2>13. includeDepth' = Len(incl')
      BY <2>4, <2>6
    <2>14. UNCHANGED <<src, pass, line, pending, saves, invocId, lastGlobal, stop, stream,
                       consts, errors>>
      BY <1>5 DEF IncludeDirective, Directive
    <2>15. FilesInv'
      BY <2>1, <2>4, <2>10, <2>12, <2>13, <2>14
    <2>16. /\ file' \in [name : STRING, pos : Nat] /\ linenr' \in Nat /\ includeDepth' \in Nat
           /\ inputname' \in Strings /\ freed' \subseteq Strings /\ incl' \in Seq(Frame)
           /\ pc' \in PC
      BY <2>1, <2>2, <2>3, <2>4, <2>6 DEF PC
    <2>17. TypeOK'
      BY <2>14, <2>16
    <2>18. QED
      BY <2>15, <2>17
  <1>6. CASE IncludeFails
    BY <1>6 DEF IncludeFails, Directive, Report, ErrorKinds, PC
  <1>7. CASE DefineDirective
    <2> DEFINE name == RawName(line.args[1])
    <2>1. name \in Name
      BY <1>7, DefineArguments
    <2>2. HasBody => DefineBody(line.args[2]) \in Extra
      BY <1>7, DefineArguments
    <2>3. IsTable(consts')
      <3>1. CASE HasBody /\ pass = 0
        <4> DEFINE body == DefineBody(line.args[2])
        <4>1. body \in Extra /\ "DEFINE" \in ConstTypes /\ 0 \in Int
          BY <2>2, <3>1 DEF ConstTypes
        <4>2. consts' = SetExtra(AddConst(consts, name, "DEFINE", 0), name, body)
          BY <1>7, <3>1 DEF DefineDirective
        <4>3. IsTable(consts)
          OBVIOUS
        <4> HIDE DEF body, name, TypeInv
        <4>4. QED
          BY <2>1, <4>1, <4>2, <4>3, RegisterTable
      <3>2. CASE ~ (HasBody /\ pass = 0)
        BY <1>7, <3>2 DEF DefineDirective
      <3>3. QED
        BY <3>1, <3>2
    <2>4. errors' \subseteq ErrorKinds
      BY <1>7 DEF DefineDirective, Report, ErrorKinds
    <2>5. QED
      BY <1>7, <2>3, <2>4 DEF DefineDirective, Directive, PC
  <1>8. CASE UndefDirective
    <2>1. IsTable(consts')
      BY <1>8, RemoveConstTable DEF UndefDirective
    <2>2. QED
      BY <1>8, <2>1 DEF UndefDirective, Directive, PC
  <1>9. QED
    BY <1>1, <1>2, <1>3, <1>4, <1>5, <1>6, <1>7, <1>8 DEF Preprocess

LEMMA LabelLineType == ASSUME TypeInv PROVE LabelLine(line.label) \in Line
  <1>1. "" \in STRING /\ "" # SentinelText
    BY NoTextAssumption DEF NoTextAssumption, SentinelText
  <1>2. line.label \in Sym
    BY DEF TypeInv, TypeOK, Line
  <1>3. \A op \in STRING \ {SentinelText} : [op |-> op, label |-> line.label, args |-> <<>>] \in Line
    BY <1>2 DEF Line
  <1>4. QED
    BY <1>1, <1>3, Zenon DEF LabelLine

(* The lines a macro call can stack: an expansion, or nothing, and the     *)
(* call's own label above it.                                              *)
LEMMA StackedType ==
  ASSUME TypeInv, NEW below \in Seq(Line \cup {Sentinel}),
         NEW label, label = (IF line.label = NoSym THEN <<>> ELSE <<LabelLine(line.label)>>)
  PROVE  below \o label \in Seq(Line \cup {Sentinel})
  <1>1. LabelLine(line.label) \in Line
    BY LabelLineType
  <1>2. label \in Seq(Line \cup {Sentinel})
    <2>1. CASE line.label = NoSym
      BY <2>1, EmptySeq
    <2>2. CASE line.label # NoSym
      <3> DEFINE l == LabelLine(line.label)
                 L == Line \cup {Sentinel}
      <3>1. label = <<l>> /\ l \in L
        BY <1>1, <2>2
      <3> HIDE DEF l, L
      <3>2. label \in Seq(L)
        BY <3>1
      <3>3. QED
        BY <3>2 DEF L
    <2>3. QED
      BY <2>1, <2>2
  <1>3. QED
    BY <1>2, ConcatProperties

LEMMA InvokeArguments ==
  ASSUME TypeInv, InvokeMacro
  PROVE  /\ consts[Command(line.op)].extra \in Extra
         /\ (IF Len(line.args) > ArgMax THEN SubSeq(line.args, 1, ArgMax) ELSE line.args) \in Seq(Sym)
         /\ invocId + 1 \in Nat
  <1>1. consts[Command(line.op)].extra \in Extra
    BY ExpansionOfMacroType DEF InvokeMacro
  <1>2. line.args \in Seq(Sym) /\ invocId + 1 \in Nat
    BY DEF TypeInv, TypeOK, Line
  <1>3. CASE Len(line.args) > ArgMax
    <2>1. \A i \in 1..ArgMax : line.args[i] \in Sym
      BY <1>2, <1>3, LimitsAssumption, ElementOfSeq, LenProperties DEF LimitsAssumption
    <2>2. QED
      BY <1>1, <1>2, <1>3, <2>1, SubSeqProperties, LimitsAssumption DEF LimitsAssumption
  <1>4. CASE ~ (Len(line.args) > ArgMax)
    BY <1>1, <1>2, <1>4
  <1>5. QED
    BY <1>3, <1>4

LEMMA InvokeTypes ==
  ASSUME TypeInv, InvokeMacro
  PROVE  TypeInv'
  <1> DEFINE macro == consts[Command(line.op)].extra
             args  == IF Len(line.args) > ArgMax THEN SubSeq(line.args, 1, ArgMax) ELSE line.args
             id    == invocId + 1
             label == IF line.label = NoSym THEN <<>> ELSE <<LabelLine(line.label)>>
  <1>1. macro \in Extra /\ args \in Seq(Sym) /\ id \in Nat
    BY InvokeArguments
  <1>2. lastGlobal \in Name /\ saves \in Seq(Name)
    BY DEF TypeInv, TypeOK
  <1>3. pending \in Seq(Line \cup {Sentinel})
    BY DEF TypeInv, TypeOK
  <1>4. Expansion(macro, args, id) \in Seq(Line \cup {Sentinel})
    BY <1>1, ExpansionType
  <1> HIDE DEF macro, args, id
  <1>5. pending \o Expansion(macro, args, id) \in Seq(Line \cup {Sentinel})
    BY <1>3, <1>4, ConcatProperties
  <1>6. /\ pending \o label \in Seq(Line \cup {Sentinel})
        /\ (pending \o Expansion(macro, args, id)) \o label \in Seq(Line \cup {Sentinel})
    BY <1>3, <1>5, StackedType
  <1> HIDE DEF label
  <1>7. MacroScope(id) \in Name /\ Append(saves, lastGlobal) \in Seq(Name)
    BY <1>1, <1>2, AppendProperties DEF MacroScope, Name
  <1>8. /\ pending' \in Seq(Line \cup {Sentinel}) /\ errors' \subseteq ErrorKinds
        /\ saves' \in Seq(Name) /\ lastGlobal' \in Name /\ invocId' \in Nat
    <2>1. \/ /\ pending' = pending \o label
             /\ errors' \in {errors \cup {"macro arg count"}, errors \cup {"macro recursion"}}
             /\ UNCHANGED <<saves, lastGlobal, invocId>>
          \/ /\ invocId' = id /\ saves' = Append(saves, lastGlobal)
             /\ lastGlobal' = MacroScope(id) /\ UNCHANGED errors
             /\ pending' = (pending \o Expansion(macro, args, id)) \o label
      BY DEF InvokeMacro, macro, args, id, label, Report
    <2>2. errors \subseteq ErrorKinds /\ invocId \in Nat
      BY DEF TypeInv, TypeOK
    <2>3. QED
      BY ZenonT(40), <1>1, <1>2, <1>6, <1>7, <2>1, <2>2 DEF ErrorKinds
  <1>9. /\ UNCHANGED <<src, pass, line, readVars, linenr, consts, stop, stream>>
        /\ pc = "line" /\ pc' = "read"
    BY DEF InvokeMacro
  <1>10. QED
    BY <1>8, <1>9 DEF TypeInv, TypeOK, FilesInv, Text, readVars, PC

LEMMA StatementArguments ==
  ASSUME TypeInv, Statement
  PROVE  /\ pass \in 0..Passes-1
         /\ ScopeAfterLabel \in Name /\ LabelName \in Name
         /\ Len(stream[pass]) \in Int
  <1>1. line.label \in Sym /\ lastGlobal \in Name
    BY DEF TypeInv, TypeOK, Line
  <1>2. ScopeAfterLabel \in Name /\ LabelName \in Name
    BY <1>1, QNameType, LineTypes DEF ScopeAfterLabel, LabelName, RawName
  <1>3. pass \in 0..Passes-1
    <2>1. pass \in 0..Passes
      BY DEF TypeInv, TypeOK
    <2>2. pass < Passes
      BY DEF TypeInv, FilesInv, Statement
    <2>3. QED
      BY <2>1, <2>2 DEF Passes
  <1>4. stream[pass] \in Seq([op : STRING, label : Name, args : Seq(Name)])
    BY <1>3 DEF TypeInv, TypeOK
  <1>5. QED
    BY <1>2, <1>3, <1>4, LenProperties

LEMMA StatementTypes ==
  ASSUME TypeInv, Statement
  PROVE  TypeInv'
  <1>1. line.label \in Sym /\ line.args \in Seq(Sym) /\ line.op \in STRING
    BY DEF TypeInv, TypeOK, Line
  <1>2. lastGlobal \in Name /\ pass \in 0..Passes-1 /\ IsTable(consts)
    BY StatementArguments DEF TypeInv, TypeOK
  <1>3. ScopeAfterLabel \in Name /\ LabelName \in Name
    BY StatementArguments
  <1>4. Resolved \in [op : STRING, label : Name, args : Seq(Name)]
    <2> DEFINE names == [i \in DOMAIN line.args |-> QName(line.args[i], ScopeAfterLabel)]
    <2>1. DOMAIN line.args = 1..Len(line.args) /\ Len(line.args) \in Nat
      BY <1>1, LenProperties
    <2>2. \A i \in 1..Len(line.args) : QName(line.args[i], ScopeAfterLabel) \in Name
      BY <1>1, <1>3, QNameType, ElementOfSeq
    <2>3. names \in [1..Len(line.args) -> Name]
      BY <2>1, <2>2
    <2>4. names \in Seq(Name)
      BY <2>1, <2>3, FunctionIsSeq
    <2> HIDE DEF names
    <2>5. QED
      BY <1>1, <1>3, <2>4 DEF Resolved, names
  <1>5. /\ stream[pass] \in Seq([op : STRING, label : Name, args : Seq(Name)])
        /\ stream \in [0..Passes-1 -> Seq([op : STRING, label : Name, args : Seq(Name)])]
    BY <1>2 DEF TypeInv, TypeOK
  <1>6. Len(stream[pass]) \in Int
    BY <1>5, LenProperties
  <1>7. IsTable(consts')
    <2>1. IsTable(AddConst(consts, LabelName, "LABEL", Len(stream[pass])))
      BY <1>2, <1>3, <1>6, AddConstTable DEF ConstTypes
    <2>2. QED
      BY <1>2, <2>1 DEF Statement
  <1>8. lastGlobal' \in Name
    BY <1>3, LineTypes DEF Statement
  <1>9. stream' \in [0..Passes-1 -> Seq([op : STRING, label : Name, args : Seq(Name)])]
    <2>1. Append(stream[pass], Resolved) \in Seq([op : STRING, label : Name, args : Seq(Name)])
      BY <1>4, <1>5, AppendProperties
    <2>2. stream' = [stream EXCEPT ![pass] = Append(stream[pass], Resolved)]
      BY DEF Statement
    <2>3. QED
      BY <1>5, <2>1, <2>2
  <1>10. errors' \subseteq ErrorKinds /\ stop' \in BOOLEAN
    <2>1. errors \subseteq ErrorKinds
      BY DEF TypeInv, TypeOK
    <2>2. errors' \subseteq errors \cup {"no parent", "syntax error"}
      BY DEF Statement
    <2>3. stop' \in BOOLEAN
      BY DEF Statement
    <2>4. QED
      BY <2>1, <2>2, <2>3 DEF ErrorKinds
  <1>11. /\ UNCHANGED <<src, pass, line, readVars, linenr, macroVars>>
         /\ pc = "line" /\ pc' = "read"
    BY DEF Statement
  <1>12. QED
    BY <1>7, <1>8, <1>9, <1>10, <1>11 DEF TypeInv, TypeOK, FilesInv, Text, readVars, macroVars, PC

LEMMA PassTypes ==
  ASSUME TypeInv, StartPass \/ OpenFails \/ CloseSource
  PROVE  TypeInv'
  <1> USE DEF TypeInv, TypeOK, FilesInv, Text, PC
  <1>1. CASE StartPass
    <2>1. /\ Main \in STRING /\ NoScope \in Name
          /\ pending' \in Seq(Line \cup {Sentinel}) /\ saves' \in Seq(Name)
      BY <1>1, NamesAssumption, LineTypes, EmptySeq DEF StartPass, NamesAssumption
    <2>2. Main \in DOMAIN src /\ src[Main] \in Seq(Line) /\ 0 <= Len(src[Main])
      BY <1>1, LenProperties DEF StartPass
    <2>3. QED
      BY <1>1, <2>1, <2>2 DEF StartPass
  <1>2. CASE OpenFails
    BY <1>2 DEF OpenFails, ErrorKinds, readVars, macroVars
  <1>3. CASE CloseSource
    <2>1. \A i \in DOMAIN incl : incl[i].name \in Strings
      <3>1. \A i \in 1..Len(incl) : incl[i] \in Frame
        BY ElementOfSeq
      <3>2. QED
        BY <3>1, LenProperties DEF Frame
    <2>2. freed' \subseteq Strings /\ inputname' \in Strings
      <3>1. /\ freed' = freed \cup {incl[i].name : i \in DOMAIN incl}
                              \cup (IF inputname # 0 THEN {inputname} ELSE {})
            /\ inputname' = 0
        BY <1>3 DEF CloseSource
      <3>2. freed \subseteq Strings /\ inputname \in Strings
        OBVIOUS
      <3>3. 0 \in Strings
        BY LimitsAssumption DEF Strings, LimitsAssumption
      <3> HIDE DEF TypeInv
      <3>4. QED
        BY <2>1, <3>1, <3>2, <3>3
    <2>3. incl' \in Seq(Frame) /\ includeDepth' \in Nat /\ includeDepth' = Len(incl')
      BY <1>3, EmptySeq DEF CloseSource
    <2>4. pass' \in 0..Passes /\ pc' \in {"main", "exit"}
      BY <1>3 DEF CloseSource, Passes
    <2>5. /\ UNCHANGED <<src, line, file, linenr, macroVars, lastGlobal, consts, stop, errors, stream>>
          /\ incl' = <<>>
      BY <1>3 DEF CloseSource
    <2>6. TypeOK'
      BY <2>2, <2>3, <2>4, <2>5 DEF macroVars
    <2>7. FilesInv'
      BY <2>3, <2>4, <2>5, EmptySeq
    <2>8. QED
      BY <2>6, <2>7
  <1>4. QED
    BY <1>1, <1>2, <1>3

LEMMA TypeStep == TypeInv /\ [Next]_vars => TypeInv'
  <1> SUFFICES ASSUME TypeInv, [Next]_vars PROVE TypeInv'
    OBVIOUS
  <1>1. CASE UNCHANGED vars
    BY <1>1 DEF vars, readVars, macroVars, TypeInv, TypeOK, FilesInv, Text
  <1>2. CASE StartPass \/ OpenFails \/ CloseSource
    BY <1>2, PassTypes
  <1>3. CASE Read
    BY <1>3, ReadTypes
  <1>4. CASE Preprocess
    BY <1>4, DirectiveTypes, InvokeTypes
  <1>5. CASE Statement
    BY <1>5, StatementTypes
  <1>6. QED
    BY <1>1, <1>2, <1>3, <1>4, <1>5 DEF Next

LEMMA TypeAlways == Spec => []TypeInv
  BY TypeInit, TypeStep, PTL DEF Spec

(* The variables keep their types, for every set of programs and every     *)
(* limit: no step of the reader reads outside the file in hand, looks a    *)
(* missing constant up or leaves a stack that is not one.                  *)
THEOREM TypeCorrect == Spec => []TypeOK
  <1>1. TypeInv => TypeOK
    BY DEF TypeInv
  <1>2. QED
    BY <1>1, TypeAlways, PTL

-----------------------------------------------------------------------------
(* The discipline of the reader's stacks, and what rests on it: the scope  *)
(* of local labels and the life of the input names.                        *)

Marks(s)  == {i \in DOMAIN s : s[i] = Sentinel}
StackLine == Line \cup {Sentinel}

(* A "unique" label waits above the sentinel of the expansion that made it.*)
Covered(s) ==
  \A i \in DOMAIN s : s[i].label.kind = "unique" => \E j \in 1..i : s[j] = Sentinel

LEMMA MarksFinite ==
  ASSUME NEW s \in Seq(StackLine)
  PROVE  IsFiniteSet(Marks(s)) /\ Cardinality(Marks(s)) \in Nat
  <1>1. Len(s) \in Nat /\ DOMAIN s = 1..Len(s)
    BY LenProperties
  <1>2. IsFiniteSet(1..Len(s)) /\ Marks(s) \in SUBSET (1..Len(s))
    BY <1>1, FS_Interval DEF Marks
  <1>3. QED
    BY <1>2, FS_Subset, FS_CardinalityType

LEMMA PopMarks ==
  ASSUME NEW s \in Seq(StackLine), s # <<>>
  PROVE  /\ Cardinality(Marks(Front(s))) =
              IF Last(s) = Sentinel THEN Cardinality(Marks(s)) - 1 ELSE Cardinality(Marks(s))
         /\ Covered(s) => Covered(Front(s))
  <1> DEFINE n == Len(s)
             t == Front(s)
  <1>1. /\ n \in Nat \ {0} /\ Last(s) = s[n] /\ t \in Seq(StackLine) /\ Len(t) = n - 1
        /\ \A i \in 1..n - 1 : t[i] = s[i]
    BY FrontLast
  <1>2. DOMAIN s = 1..n /\ DOMAIN t = 1..n - 1
    BY <1>1, LenProperties
  <1> HIDE DEF n, t
  <1>3. Marks(t) = Marks(s) \ {n}
    BY <1>1, <1>2 DEF Marks
  <1>4. n \in Marks(s) <=> Last(s) = Sentinel
    BY <1>1, <1>2 DEF Marks
  <1>5. IsFiniteSet(Marks(s))
    BY MarksFinite
  <1>6. Cardinality(Marks(t)) = IF n \in Marks(s) THEN Cardinality(Marks(s)) - 1
                                                  ELSE Cardinality(Marks(s))
    BY <1>3, <1>5, FS_RemoveElement
  <1>7. ASSUME Covered(s) PROVE Covered(t)
    <2>1. ASSUME NEW i \in DOMAIN t, t[i].label.kind = "unique"
          PROVE  \E j \in 1..i : t[j] = Sentinel
      <3>1. i \in 1..n - 1 /\ i \in DOMAIN s /\ t[i] = s[i]
        BY <1>1, <1>2
      <3>2. PICK j \in 1..i : s[j] = Sentinel
        BY <1>7, <2>1, <3>1 DEF Covered
      <3>3. t[j] = s[j]
        BY <1>1, <3>1
      <3>4. QED
        BY <3>2, <3>3
    <2>2. QED
      BY <2>1 DEF Covered
  <1>8. QED
    BY <1>4, <1>6, <1>7 DEF t

(* A line other than the sentinel adds no mark.                            *)
LEMMA PushLine ==
  ASSUME NEW s \in Seq(StackLine), NEW l \in Line
  PROVE  /\ Marks(s \o <<l>>) = Marks(s)
         /\ Covered(s) /\ (l.label.kind = "unique" => Marks(s) # {}) => Covered(s \o <<l>>)
  <1> DEFINE n == Len(s)
             t == s \o <<l>>
  <1>1. l \in StackLine /\ l # Sentinel
    BY LineTypes DEF StackLine
  <1>2. <<l>> \in Seq(StackLine) /\ Len(<<l>>) = 1 /\ <<l>>[1] = l
    BY <1>1
  <1>3. /\ t \in Seq(StackLine) /\ Len(t) = n + 1
        /\ \A i \in 1..n + 1 : t[i] = IF i <= n THEN s[i] ELSE <<l>>[i - n]
    BY <1>2, ConcatProperties
  <1>4. n \in Nat /\ DOMAIN s = 1..n /\ DOMAIN t = 1..n + 1
    BY <1>3, LenProperties
  <1> HIDE DEF n, t
  <1>5. (\A i \in 1..n : t[i] = s[i]) /\ t[n + 1] = l
    BY <1>2, <1>3, <1>4
  <1>6. Marks(t) = Marks(s)
    BY <1>1, <1>4, <1>5 DEF Marks
  <1>7. ASSUME Covered(s), l.label.kind = "unique" => Marks(s) # {}
        PROVE  Covered(t)
    <2>1. ASSUME NEW i \in DOMAIN t, t[i].label.kind = "unique"
          PROVE  \E j \in 1..i : t[j] = Sentinel
      <3>1. CASE i \in 1..n
        <4>1. PICK j \in 1..i : s[j] = Sentinel
          BY <1>4, <1>5, <1>7, <2>1, <3>1 DEF Covered
        <4>2. t[j] = s[j]
          BY <1>4, <1>5, <3>1
        <4>3. QED
          BY <4>1, <4>2
      <3>2. CASE i = n + 1
        <4>1. PICK j \in 1..n : s[j] = Sentinel
          BY <1>4, <1>5, <1>7, <2>1, <3>2 DEF Marks
        <4>2. t[j] = s[j] /\ j \in 1..i
          BY <1>4, <1>5, <3>2
        <4>3. QED
          BY <4>1, <4>2
      <3>3. QED
        BY <1>4, <2>1, <3>1, <3>2
    <2>2. QED
      BY <2>1 DEF Covered
  <1>8. QED
    BY <1>6, <1>7 DEF t

(* An expansion adds its own mark, below all its lines.                    *)
LEMMA PushExpansion ==
  ASSUME NEW s \in Seq(StackLine), NEW e \in Seq(StackLine), Len(e) \in Nat \ {0}, e[1] = Sentinel,
         \A i \in 2..Len(e) : e[i] \in Line
  PROVE  /\ Cardinality(Marks(s \o e)) = Cardinality(Marks(s)) + 1
         /\ Marks(s \o e) # {}
         /\ Covered(s) => Covered(s \o e)
  <1> DEFINE n == Len(s)
             m == Len(e)
             t == s \o e
  <1>1. /\ t \in Seq(StackLine) /\ Len(t) = n + m
        /\ \A i \in 1..n + m : t[i] = IF i <= n THEN s[i] ELSE e[i - n]
    BY ConcatProperties
  <1>2. n \in Nat /\ m \in Nat \ {0} /\ DOMAIN s = 1..n /\ DOMAIN t = 1..n + m
    BY <1>1, LenProperties
  <1> HIDE DEF n, t
  <1>3. \A i \in 1..n : t[i] = s[i]
    BY <1>1, <1>2
  <1>4. t[n + 1] = Sentinel
    BY <1>1, <1>2
  <1>5. \A i \in n + 2..n + m : t[i] # Sentinel
    <2>1. ASSUME NEW i \in n + 2..n + m PROVE t[i] # Sentinel
      <3>1. i - n \in 2..m /\ i \in 1..n + m /\ ~ (i <= n)
        BY <1>2
      <3>2. t[i] = e[i - n] /\ e[i - n] \in Line
        BY <1>1, <3>1
      <3>3. QED
        BY <3>2, LineTypes
    <2>2. QED
      BY <2>1
  <1> HIDE DEF m
  <1>6. Marks(t) = Marks(s) \cup {n + 1} /\ n + 1 \notin Marks(s)
    BY <1>2, <1>3, <1>4, <1>5 DEF Marks
  <1>7. Cardinality(Marks(t)) = Cardinality(Marks(s)) + 1
    BY <1>6, MarksFinite, FS_AddElement
  <1>8. ASSUME Covered(s) PROVE Covered(t)
    <2>1. ASSUME NEW i \in DOMAIN t, t[i].label.kind = "unique"
          PROVE  \E j \in 1..i : t[j] = Sentinel
      <3>1. CASE i \in 1..n
        <4>1. PICK j \in 1..i : s[j] = Sentinel
          BY <1>2, <1>3, <1>8, <2>1, <3>1 DEF Covered
        <4>2. t[j] = s[j]
          BY <1>2, <1>3, <3>1
        <4>3. QED
          BY <4>1, <4>2
      <3>2. CASE i \in n + 1..n + m
        BY <1>2, <1>4, <3>2
      <3>3. QED
        BY <1>2, <2>1, <3>1, <3>2
    <2>2. QED
      BY <2>1 DEF Covered
  <1>9. QED
    BY <1>6, <1>7, <1>8 DEF t
-----------------------------------------------------------------------------
(* The recursion guard counts the sentinels.                               *)
StackInv ==
  /\ Cardinality(Marks(pending)) = Len(saves)
  /\ Len(saves) <= MacroMax
  /\ includeDepth <= IncludeMax

(* A label of an expansion waits above the expansion's sentinel, so none   *)
(* is left to set the scope when the last scope has been restored.         *)
ScopeInv ==
  /\ ScopeClosed
  /\ saves # <<>> => saves[1].inv = 0
  /\ Covered(pending)
  /\ pc = "line" /\ saves = <<>> => line.label.kind # "unique"

(* inputname and the frames hold the strings 0, 1, ... in order.           *)
NamesInv ==
  /\ \A i \in DOMAIN incl : incl[i].name = i - 1
  /\ inputname = Len(incl)
  /\ 0 \notin freed => freed \cap 0..Len(incl) = {}

CloseInv == pc = "close" => stop \/ incl = <<>>

(* A sequence without elements has no marks, so no line that waits above   *)
(* nothing but plain lines is covered.                                     *)
LEMMA NoMarks ==
  ASSUME TypeInv, StackInv
  PROVE  /\ pending \in Seq(StackLine) /\ saves \in Seq(Name) /\ Len(saves) \in Nat
         /\ saves = <<>> <=> Marks(pending) = {}
  <1>1. pending \in Seq(StackLine) /\ saves \in Seq(Name) /\ Len(saves) \in Nat
    BY LenProperties DEF TypeInv, TypeOK, StackLine
  <1>2. saves = <<>> <=> Len(saves) = 0
    BY <1>1, EmptySeq
  <1>3. IsFiniteSet(Marks(pending)) /\ (Cardinality(Marks(pending)) = 0 <=> Marks(pending) = {})
    BY <1>1, MarksFinite, FS_EmptySet
  <1>4. QED
    BY <1>1, <1>2, <1>3 DEF StackInv

LEMMA EmptyMarks == Cardinality(Marks(<<>>)) = 0 /\ Covered(<<>>)
  <1>1. Marks(<<>>) = {} /\ Covered(<<>>)
    BY EmptySeq DEF Marks, Covered
  <1>2. QED
    BY <1>1, FS_EmptySet

(* What a pop leaves, in terms of the guard's counter.                     *)
LEMMA PopStack ==
  ASSUME TypeInv, StackInv, ScopeInv, pending # <<>>, pending' = Front(pending)
  PROVE  /\ Last(pending) \in StackLine /\ Covered(pending')
         /\ Cardinality(Marks(pending')) =
              IF Last(pending) = Sentinel THEN Len(saves) - 1 ELSE Len(saves)
         /\ Last(pending) = Sentinel => saves # <<>>
         /\ saves = <<>> => Last(pending).label.kind # "unique"
  <1>1. pending \in Seq(StackLine)
    BY NoMarks
  <1>2. /\ Len(pending) \in Nat \ {0} /\ Last(pending) = pending[Len(pending)]
        /\ Last(pending) \in StackLine
    BY <1>1, FrontLast
  <1>3. DOMAIN pending = 1..Len(pending) /\ Len(pending) \in DOMAIN pending
    BY <1>1, <1>2, LenProperties
  <1>4. Last(pending) = Sentinel => saves # <<>>
    BY <1>2, <1>3, NoMarks DEF Marks
  <1>5. saves = <<>> => Last(pending).label.kind # "unique"
    <2>1. ASSUME saves = <<>>, Last(pending).label.kind = "unique" PROVE FALSE
      <3>1. PICK j \in 1..Len(pending) : pending[j] = Sentinel
        BY <1>2, <1>3, <2>1 DEF ScopeInv, Covered
      <3>2. QED
        BY <1>3, <2>1, <3>1, NoMarks DEF Marks
    <2>2. QED
      BY <2>1
  <1>6. QED
    BY <1>1, <1>2, <1>4, <1>5, PopMarks DEF StackInv, ScopeInv

LEMMA StackScopeInit == Init => StackInv /\ ScopeInv
  <1> SUFFICES ASSUME Init PROVE StackInv /\ ScopeInv
    OBVIOUS
  <1>1. StackInv
    BY EmptyMarks, EmptySeq, LimitsAssumption DEF Init, StackInv, LimitsAssumption
  <1>2. ScopeInv
    BY EmptyMarks, EmptySeq DEF Init, ScopeInv, ScopeClosed, NoScope
  <1>3. QED
    BY <1>1, <1>2

(* Steps that touch neither expansions nor scope and read no line.         *)
LEMMA QuietStep ==
  ASSUME StackInv, ScopeInv, UNCHANGED <<pending, saves, lastGlobal>>,
         pc' # "line", includeDepth' <= IncludeMax
  PROVE  StackInv' /\ ScopeInv'
  BY DEF StackInv, ScopeInv, ScopeClosed

LEMMA ReadStackScope ==
  ASSUME TypeInv, TypeInv', StackInv, ScopeInv, Read
  PROVE  StackInv' /\ ScopeInv'
  <1>1. CASE EndExpansion
    <2>1. /\ pending # <<>> /\ Last(pending) = Sentinel /\ pending' = Front(pending)
          /\ UNCHANGED <<pc, line, includeDepth>>
      BY <1>1 DEF EndExpansion, readVars
    <2>2. saves # <<>> /\ Cardinality(Marks(pending')) = Len(saves) - 1 /\ Covered(pending')
      BY <2>1, PopStack
    <2>3. lastGlobal' = Last(saves) /\ saves' = Front(saves)
      BY <1>1, <2>2 DEF EndExpansion
    <2>4. /\ Len(saves) \in Nat \ {0} /\ Last(saves) = saves[Len(saves)]
          /\ saves' \in Seq(Name) /\ Len(saves') = Len(saves) - 1
          /\ \A i \in 1..Len(saves) - 1 : saves'[i] = saves[i]
      BY <2>2, <2>3, NoMarks, FrontLast
    <2>5. StackInv'
      BY <2>1, <2>2, <2>4, LimitsAssumption DEF StackInv, LimitsAssumption
    <2>6. saves' = <<>> => lastGlobal'.inv = 0
      <3>1. ASSUME saves' = <<>> PROVE Len(saves) = 1
        BY <2>4, <3>1
      <3>2. QED
        BY <2>2, <2>3, <2>4, <3>1 DEF ScopeInv
    <2>7. saves' # <<>> => saves'[1].inv = 0
      <3>1. ASSUME saves' # <<>> PROVE 1 \in 1..Len(saves) - 1
        <4>1. Len(saves') # 0
          BY <2>4, <3>1, EmptySeq
        <4>2. QED
          BY <2>4, <4>1
      <3>2. QED
        BY <2>2, <2>4, <3>1 DEF ScopeInv
    <2>8. pc' # "line"
      BY <1>1, <2>1 DEF EndExpansion
    <2>9. QED
      BY <2>2, <2>5, <2>6, <2>7, <2>8 DEF ScopeInv, ScopeClosed
  <1>2. CASE ReadPending
    <2>1. /\ pending # <<>> /\ Last(pending) # Sentinel /\ pending' = Front(pending)
          /\ Deliver(Last(pending))
          /\ UNCHANGED <<includeDepth, saves, lastGlobal>>
      BY <1>2 DEF ReadPending, readVars
    <2>2. /\ Cardinality(Marks(pending')) = Len(saves) /\ Covered(pending')
          /\ saves = <<>> => Last(pending).label.kind # "unique"
      BY <2>1, PopStack
    <2>3. StackInv'
      BY <2>1, <2>2 DEF StackInv
    <2>4. pc' = "line" => line' = Last(pending)
      BY <2>1 DEF Deliver
    <2>5. QED
      BY <2>1, <2>2, <2>3, <2>4 DEF ScopeInv, ScopeClosed
  <1>3. CASE ReadFile
    <2>1. /\ Deliver(Text[file.pos + 1]) /\ pc = "read"
          /\ UNCHANGED <<includeDepth, pending, saves, lastGlobal>>
      BY <1>3 DEF ReadFile, macroVars
    <2>2. Text[file.pos + 1].label.kind # "unique"
      <3>1. file.pos + 1 \in 1..Len(Text)
        BY <1>3, <2>1, TextFacts DEF ReadFile
      <3>2. QED
        BY <2>1, <3>1, TextFacts
    <2>3. pc' = "line" => line' = Text[file.pos + 1]
      BY <2>1 DEF Deliver
    <2>4. QED
      BY <2>1, <2>2, <2>3 DEF StackInv, ScopeInv, ScopeClosed
  <1>4. CASE PopInclude
    <2>1. /\ UNCHANGED <<pending, saves, lastGlobal>> /\ pc' = "read"
          /\ includeDepth' = includeDepth - 1
      BY <1>4 DEF PopInclude, AtEndOfFile, macroVars
    <2>2. includeDepth' <= IncludeMax
      BY <2>1, LimitsAssumption DEF StackInv, TypeInv, TypeOK, LimitsAssumption
    <2>3. QED
      BY <2>1, <2>2, QuietStep
  <1>5. CASE EndOfSource
    BY <1>5, QuietStep DEF EndOfSource, macroVars, readVars, StackInv
  <1>6. QED
    BY <1>1, <1>2, <1>3, <1>4, <1>5 DEF Read

LEMMA InvokeStackScope ==
  ASSUME TypeInv, TypeInv', StackInv, ScopeInv, InvokeMacro
  PROVE  StackInv' /\ ScopeInv'
  <1> DEFINE macro == consts[Command(line.op)].extra
             args  == IF Len(line.args) > ArgMax THEN SubSeq(line.args, 1, ArgMax) ELSE line.args
             id    == invocId + 1
             e     == Expansion(macro, args, id)
             label == IF line.label = NoSym THEN <<>> ELSE <<LabelLine(line.label)>>
  <1>1. /\ pending \in Seq(StackLine) /\ saves \in Seq(Name) /\ Len(saves) \in Nat
        /\ saves = <<>> <=> Marks(pending) = {}
    BY NoMarks
  <1>2. LabelLine(line.label) \in Line
    BY LabelLineType
  <1>3. ASSUME NEW s \in Seq(StackLine), Covered(s),
               line.label.kind = "unique" => Marks(s) # {}
        PROVE  Marks(s \o label) = Marks(s) /\ Covered(s \o label)
    <2>1. CASE line.label = NoSym
      <3>1. s \o label = s
        BY <1>3, <2>1, ConcatEmptySeq
      <3>2. QED
        BY <1>3, <3>1
    <2>2. CASE line.label # NoSym
      <3> DEFINE l == LabelLine(line.label)
      <3>1. label = <<l>> /\ l \in Line /\ l.label = line.label
        BY <1>2, <2>2 DEF LabelLine
      <3> HIDE DEF l, label
      <3>2. QED
        BY <1>3, <3>1, PushLine
    <2>3. QED
      BY <2>1, <2>2
  <1>4. /\ e \in Seq(StackLine) /\ Len(e) \in Nat \ {0} /\ e[1] = Sentinel
        /\ \A i \in 2..Len(e) : e[i] \in Line
    <2>1. macro \in Extra /\ args \in Seq(Sym) /\ id \in Nat
      BY InvokeArguments
    <2> HIDE DEF macro, args, id
    <2>2. /\ e \in Seq(Line \cup {Sentinel})
          /\ Len(e) = Len(macro.lines) + 1 /\ Len(macro.lines) \in Nat
          /\ e[1] = Sentinel /\ \A i \in 2..Len(e) : e[i] \in Line
      BY <2>1, ExpansionType
    <2> HIDE DEF e
    <2>3. QED
      BY <2>2 DEF StackLine
  <1>5. /\ pc = "line" /\ pc' = "read"
        /\ UNCHANGED <<line, includeDepth>>
    BY DEF InvokeMacro, readVars
  <1>6. Covered(pending) /\ (saves = <<>> => line.label.kind # "unique")
    BY <1>5 DEF ScopeInv
  <1> HIDE DEF e
  <1>7. \/ /\ pending' = pending \o label
           /\ UNCHANGED <<saves, lastGlobal>>
        \/ /\ Len(saves) < MacroMax
           /\ saves' = Append(saves, lastGlobal)
           /\ pending' = (pending \o e) \o label
    BY Zenon DEF InvokeMacro, e, Report
  <1> HIDE DEF macro, args, id, label
  <1>8. CASE pending' = pending \o label /\ UNCHANGED <<saves, lastGlobal>>
    <2>1. Marks(pending') = Marks(pending) /\ Covered(pending')
      BY <1>1, <1>3, <1>6, <1>8
    <2>2. QED
      BY <1>5, <1>8, <2>1 DEF StackInv, ScopeInv, ScopeClosed
  <1>9. CASE /\ Len(saves) < MacroMax
             /\ saves' = Append(saves, lastGlobal)
             /\ pending' = (pending \o e) \o label
    <2>1. /\ pending \o e \in Seq(StackLine)
          /\ Cardinality(Marks(pending \o e)) = Cardinality(Marks(pending)) + 1
          /\ Marks(pending \o e) # {} /\ Covered(pending \o e)
      BY <1>1, <1>4, <1>6, PushExpansion, ConcatProperties
    <2>2. Cardinality(Marks(pending')) = Cardinality(Marks(pending)) + 1 /\ Covered(pending')
      BY <1>3, <1>9, <2>1
    <2>3. /\ Len(saves') = Len(saves) + 1 /\ saves' # <<>>
          /\ saves'[1] = IF saves = <<>> THEN lastGlobal ELSE saves[1]
      <3>1. lastGlobal \in Name
        BY DEF TypeInv, TypeOK
      <3>2. /\ Len(saves') = Len(saves) + 1
            /\ \A i \in 1..Len(saves) : saves'[i] = saves[i]
            /\ saves'[Len(saves) + 1] = lastGlobal
        BY <1>1, <1>9, <3>1, AppendProperties
      <3>3. saves # <<>> => 1 \in 1..Len(saves)
        BY <1>1, EmptySeq
      <3>4. saves' # <<>>
        BY <1>1, <3>2, EmptySeq
      <3>5. QED
        BY <3>2, <3>3, <3>4, EmptySeq
    <2>4. StackInv'
      BY <1>1, <1>5, <1>9, <2>2, <2>3, LimitsAssumption DEF StackInv, LimitsAssumption
    <2>5. QED
      BY <1>5, <2>2, <2>3, <2>4 DEF ScopeInv, ScopeClosed
  <1>10. QED
    BY <1>7, <1>8, <1>9

LEMMA StatementStackScope ==
  ASSUME TypeInv, StackInv, ScopeInv, Statement
  PROVE  StackInv' /\ ScopeInv'
  <1>1. /\ pc = "line" /\ pc' = "read" /\ UNCHANGED <<pending, saves, includeDepth>>
        /\ lastGlobal' \in {NoScope, ScopeAfterLabel}
    BY DEF Statement, macroVars, readVars
  <1>2. saves = <<>> => ScopeAfterLabel.inv = 0
    BY <1>1 DEF ScopeInv, ScopeClosed, ScopeAfterLabel, RawName, QName
  <1>3. saves = <<>> => lastGlobal'.inv = 0
    BY <1>1, <1>2 DEF NoScope
  <1>4. QED
    BY <1>1, <1>3 DEF StackInv, ScopeInv, ScopeClosed

LEMMA StackScopeStep ==
  TypeInv /\ TypeInv' /\ StackInv /\ ScopeInv /\ [Next]_vars => StackInv' /\ ScopeInv'
  <1> SUFFICES ASSUME TypeInv, TypeInv', StackInv, ScopeInv, [Next]_vars
               PROVE  StackInv' /\ ScopeInv'
    OBVIOUS
  <1>1. CASE UNCHANGED vars
    BY <1>1 DEF vars, readVars, macroVars, StackInv, ScopeInv, ScopeClosed
  <1>2. CASE StartPass
    <2>1. StackInv'
      BY <1>2, EmptyMarks, EmptySeq, LimitsAssumption DEF StartPass, StackInv, LimitsAssumption
    <2>2. ScopeInv'
      BY <1>2, EmptyMarks DEF StartPass, ScopeInv, ScopeClosed, NoScope
    <2>3. QED
      BY <2>1, <2>2
  <1>3. CASE OpenFails
    BY <1>3, QuietStep DEF OpenFails, readVars, macroVars, StackInv
  <1>4. CASE Read
    BY <1>4, ReadStackScope
  <1>5. CASE Preprocess /\ ~InvokeMacro /\ ~IncludeDirective /\ ~UnknownDirective
    <2>1. UNCHANGED <<pending, saves, lastGlobal, includeDepth>> /\ pc' = "read"
      BY <1>5 DEF Preprocess, SlurpMacro, SkipMacro, EndMacroDirective, IncludeFails,
                  DefineDirective, UndefDirective, Directive, ReadTo, readVars
    <2>2. QED
      BY <2>1, QuietStep DEF StackInv
  <1>6. CASE UnknownDirective
    BY <1>6, QuietStep DEF UnknownDirective, readVars, macroVars, StackInv
  <1>7. CASE IncludeDirective
    <2>1. UNCHANGED <<pending, saves, lastGlobal>> /\ pc' = "read"
      BY <1>7 DEF IncludeDirective, Directive
    <2>2. includeDepth' <= IncludeMax
      <3>1. includeDepth < IncludeMax /\ includeDepth' = includeDepth + 1
        BY <1>7 DEF IncludeDirective
      <3>2. includeDepth \in Nat /\ IncludeMax \in Nat
        BY LimitsAssumption DEF TypeInv, TypeOK, LimitsAssumption
      <3>3. QED
        BY <3>1, <3>2
    <2>3. QED
      BY <2>1, <2>2, QuietStep
  <1>8. CASE InvokeMacro
    BY <1>8, InvokeStackScope
  <1>9. CASE Statement
    BY <1>9, StatementStackScope
  <1>10. CASE CloseSource
    <2>1. UNCHANGED <<pending, saves, lastGlobal>> /\ pc' # "line" /\ includeDepth' = 0
      BY <1>10 DEF CloseSource, macroVars
    <2>2. QED
      BY <2>1, QuietStep, LimitsAssumption DEF LimitsAssumption
  <1>11. QED
    BY <1>1, <1>2, <1>3, <1>4, <1>5, <1>6, <1>7, <1>8, <1>9, <1>10 DEF Next, Preprocess

LEMMA StackScopeAlways == Spec => [](TypeInv /\ StackInv /\ ScopeInv)
  BY TypeAlways, StackScopeInit, StackScopeStep, PTL DEF Spec

(* The recursion guard counts exactly the expansions in flight and the     *)
(* include counter the files suspended; neither stack outgrows its guard,  *)
(* whatever refers to what in the program.                                 *)
THEOREM StacksGuarded == Spec => []StackDiscipline
  <1>1. TypeInv /\ StackInv => StackDiscipline
    BY DEF TypeInv, FilesInv, StackInv, StackDiscipline, Sentinels, Marks
  <1>2. QED
    BY <1>1, StackScopeAlways, PTL

(* No local label outside every expansion binds to an expansion's scope.   *)
THEOREM ScopesRestored == Spec => []ScopeClosed
  <1>1. ScopeInv => ScopeClosed
    BY DEF ScopeInv
  <1>2. QED
    BY <1>1, StackScopeAlways, PTL
-----------------------------------------------------------------------------
(* The input names.                                                        *)

LEMMA NamesInit == Init => NamesInv /\ CloseInv
  BY EmptySeq DEF Init, NamesInv, CloseInv

LEMMA NamesStep ==
  TypeInv /\ TypeInv' /\ NamesInv /\ CloseInv /\ [Next]_vars => NamesInv' /\ CloseInv'
  <1> SUFFICES ASSUME TypeInv, TypeInv', NamesInv, CloseInv, [Next]_vars
               PROVE  NamesInv' /\ CloseInv'
    OBVIOUS
  <1>1. /\ incl \in Seq(Frame) /\ Len(incl) \in Nat /\ DOMAIN incl = 1..Len(incl)
        /\ incl' \in Seq(Frame) /\ Len(incl') \in Nat /\ DOMAIN incl' = 1..Len(incl')
        /\ includeDepth = Len(incl)
    BY LenProperties DEF TypeInv, TypeOK, FilesInv
  <1>2. CASE UNCHANGED vars
    BY <1>2 DEF vars, readVars, NamesInv, CloseInv
  <1>3. CASE StartPass \/ OpenFails
    BY <1>3 DEF StartPass, OpenFails, readVars, NamesInv, CloseInv
  <1>4. CASE EndExpansion \/ ReadPending \/ ReadFile
    BY <1>4 DEF EndExpansion, ReadPending, ReadFile, Deliver, readVars, NamesInv, CloseInv
  <1>5. CASE EndOfSource
    BY <1>5 DEF EndOfSource, readVars, NamesInv, CloseInv
  <1>6. CASE PopInclude
    <2>1. /\ incl # <<>> /\ incl' = Front(incl) /\ inputname' = Last(incl).name
          /\ freed' = freed \cup {inputname} /\ pc' = "read"
      BY <1>6 DEF PopInclude, AtEndOfFile
    <2>2. /\ Len(incl) \in Nat \ {0} /\ Last(incl) = incl[Len(incl)]
          /\ Len(incl') = Len(incl) - 1
          /\ \A i \in 1..Len(incl) - 1 : incl'[i] = incl[i]
      BY Zenon, <1>1, <2>1, FrontLast
    <2>3. (\A i \in 1..Len(incl) : incl[i].name = i - 1) /\ inputname = Len(incl)
      BY <1>1 DEF NamesInv
    <2>4. inputname' = Len(incl')
      BY <2>1, <2>2, <2>3
    <2>5. \A i \in 1..Len(incl') : incl'[i].name = i - 1
      BY <2>2, <2>3
    <2>6. 0 \notin freed' => freed' \cap 0..Len(incl') = {}
      BY <2>1, <2>2, <2>3 DEF NamesInv
    <2>7. QED
      BY <1>1, <2>1, <2>4, <2>5, <2>6 DEF NamesInv, CloseInv
  <1>7. CASE IncludeDirective
    <2> DEFINE frame == [file |-> file, linenr |-> linenr, name |-> inputname]
    <2>1. /\ incl' = Append(incl, frame) /\ inputname' = includeDepth + 1
          /\ freed' = freed \ {includeDepth + 1} /\ pc' = "read"
      BY <1>7 DEF IncludeDirective, Directive
    <2>2. frame \in Frame /\ frame.name = inputname
      BY DEF Frame, TypeInv, TypeOK
    <2> HIDE DEF frame
    <2>3. /\ Len(incl') = Len(incl) + 1
          /\ \A i \in 1..Len(incl) : incl'[i] = incl[i]
          /\ incl'[Len(incl) + 1] = frame
      BY <1>1, <2>1, <2>2, AppendProperties
    <2>4. (\A i \in 1..Len(incl) : incl[i].name = i - 1) /\ inputname = Len(incl)
      BY <1>1 DEF NamesInv
    <2>5. \A i \in 1..Len(incl') : incl'[i].name = i - 1
      BY <1>1, <2>2, <2>3, <2>4
    <2>6. 0 \notin freed' => freed' \cap 0..Len(incl') = {}
      BY <1>1, <2>1, <2>3 DEF NamesInv
    <2>7. QED
      BY <1>1, <2>1, <2>3, <2>5, <2>6 DEF NamesInv, CloseInv
  <1>8. CASE Preprocess /\ ~InvokeMacro /\ ~IncludeDirective /\ ~UnknownDirective
    <2>1. UNCHANGED <<incl, inputname, freed>> /\ pc' = "read"
      BY <1>8 DEF Preprocess, SlurpMacro, SkipMacro, EndMacroDirective, IncludeFails,
                  DefineDirective, UndefDirective, Directive, ReadTo, readVars
    <2>2. QED
      BY <2>1 DEF NamesInv, CloseInv
  <1>9. CASE UnknownDirective \/ InvokeMacro \/ Statement
    <2>1. UNCHANGED <<incl, inputname, freed>> /\ pc' = "read"
      BY <1>9 DEF UnknownDirective, InvokeMacro, Statement, readVars
    <2>2. QED
      BY <2>1 DEF NamesInv, CloseInv
  <1>10. CASE CloseSource
    <2>1. /\ freed' = freed \cup {incl[i].name : i \in DOMAIN incl}
                            \cup (IF inputname # 0 THEN {inputname} ELSE {})
          /\ inputname' = 0 /\ incl' = <<>> /\ pc' # "close"
      BY <1>10 DEF CloseSource
    <2>2. Len(incl') = 0
      BY <2>1, EmptySeq
    <2>3. 0 \notin freed' => 0 \notin freed
      BY <2>1
    <2>4. 0 \notin freed' => freed' \cap 0..Len(incl') = {}
      BY <2>2
    <2>5. QED
      BY <1>1, <2>1, <2>2, <2>4 DEF NamesInv, CloseInv
  <1>11. QED
    BY <1>2, <1>3, <1>4, <1>5, <1>6, <1>7, <1>8, <1>9, <1>10 DEF Next, Read, Preprocess

LEMMA NamesAlways == Spec => [](TypeInv /\ NamesInv /\ CloseInv)
  BY TypeAlways, NamesInit, NamesStep, PTL DEF Spec

(* inputname and the suspended files hold distinct strings, and none that  *)
(* has been freed while the argv string is alive.                          *)
THEOREM HeldNamesLive == Spec => []NamesLive
  <1> DEFINE held == {incl[i].name : i \in DOMAIN incl} \cup {inputname}
  <1>1. ASSUME TypeInv, NamesInv PROVE NamesLive
    <2>1. Len(incl) \in Nat /\ DOMAIN incl = 1..Len(incl)
      BY <1>1, LenProperties DEF TypeInv, TypeOK
    <2>2. (\A i \in 1..Len(incl) : incl[i].name = i - 1) /\ inputname = Len(incl)
      BY <1>1, <2>1 DEF NamesInv
    <2>3. held = 0..Len(incl)
      <3>1. ASSUME NEW x \in 0..Len(incl) PROVE x \in held
        <4>1. CASE x = Len(incl)
          BY <2>2, <4>1
        <4>2. CASE x # Len(incl)
          <5> DEFINE n == Len(incl)
          <5>1. n \in Nat /\ x \in 0..n /\ x # n
            BY Zenon, <2>1, <4>2
          <5> HIDE DEF n
          <5>2. x + 1 \in 1..n /\ x = (x + 1) - 1
            BY <5>1
          <5>3. x + 1 \in DOMAIN incl /\ incl[x + 1].name = x
            BY <2>1, <2>2, <5>2 DEF n
          <5>4. QED
            BY <5>3
        <4>3. QED
          BY <4>1, <4>2
      <3>2. ASSUME NEW x \in held PROVE x \in 0..Len(incl)
        BY <2>1, <2>2
      <3>3. QED
        BY <3>1, <3>2
    <2>4. Cardinality(0..Len(incl)) = Len(incl) + 1
      BY <2>1, FS_Interval
    <2> HIDE DEF held
    <2>5. Cardinality(held) = Len(incl) + 1 /\ (0 \notin freed => held \cap freed = {})
      BY <1>1, <2>3, <2>4 DEF NamesInv
    <2>6. QED
      BY <2>5 DEF NamesLive, held
  <1>2. QED
    BY <1>1, NamesAlways, PTL

(* The name main() owns is freed only by a pass that END or an unknown     *)
(* command stopped inside an included file.                                *)
THEOREM ArgvFreedByStop == Spec => ArgvFreedOnlyByStop
  <1>1. ASSUME TypeInv, NamesInv, CloseInv, [Next]_vars
        PROVE  [0 \in freed' => 0 \in freed \/ (stop /\ incl # <<>>)]_vars
    <2>1. CASE UNCHANGED vars
      BY <2>1
    <2>2. CASE CloseSource
      <3>1. /\ freed' = freed \cup {incl[i].name : i \in DOMAIN incl}
                              \cup (IF inputname # 0 THEN {inputname} ELSE {})
            /\ stop \/ incl = <<>>
        BY <1>1, <2>2 DEF CloseSource, CloseInv
      <3>2. incl = <<>> => DOMAIN incl = {}
        BY EmptySeq
      <3>3. QED
        BY <3>1, <3>2
    <2>3. CASE PopInclude
      <3>1. incl # <<>> /\ incl \in Seq(Frame) /\ inputname = Len(incl)
            /\ freed' = freed \cup {inputname}
        BY <1>1, <2>3 DEF PopInclude, NamesInv, TypeInv, TypeOK
      <3>2. inputname # 0
        BY <3>1, EmptySeq
      <3>3. QED
        BY <3>1, <3>2
    <2>4. CASE IncludeDirective
      BY <2>4 DEF IncludeDirective
    <2>5. CASE Preprocess /\ ~InvokeMacro /\ ~IncludeDirective /\ ~UnknownDirective
      <3>1. UNCHANGED freed
        BY <2>5 DEF Preprocess, SlurpMacro, SkipMacro, EndMacroDirective, IncludeFails,
                    DefineDirective, UndefDirective, Directive, ReadTo, readVars
      <3>2. QED
        BY <3>1
    <2>6. CASE UnknownDirective \/ InvokeMacro \/ Statement \/ StartPass \/ OpenFails
      <3>1. UNCHANGED freed
        BY <2>6 DEF UnknownDirective, InvokeMacro, Statement, StartPass, OpenFails, readVars
      <3>2. QED
        BY <3>1
    <2>7. CASE EndExpansion \/ ReadPending \/ ReadFile \/ EndOfSource
      <3>1. UNCHANGED freed
        BY <2>7 DEF EndExpansion, ReadPending, ReadFile, EndOfSource, readVars
      <3>2. QED
        BY <3>1
    <2>8. QED
      BY <1>1, <2>1, <2>2, <2>3, <2>4, <2>5, <2>6, <2>7 DEF Next, Read, Preprocess
  <1>2. QED
    BY <1>1, NamesAlways, PTL DEF Spec, ArgvFreedOnlyByStop
-----------------------------------------------------------------------------
(* The payloads of the constant table.                                     *)

LEMMA PayloadStep ==
  TypeInv /\ ExtraMatchesType /\ [Next]_vars => ExtraMatchesType'
  <1> SUFFICES ASSUME TypeInv, ExtraMatchesType, [Next]_vars PROVE ExtraMatchesType'
    OBVIOUS
  <1>1. IsTable(consts)
    BY DEF TypeInv, TypeOK
  <1>2. ASSUME UNCHANGED consts PROVE ExtraMatchesType'
    BY <1>2 DEF ExtraMatchesType
  <1>3. (ExtraMatchesType <=> PayloadsOf(consts)) /\ (ExtraMatchesType' <=> PayloadsOf(consts'))
    BY DEF ExtraMatchesType, PayloadsOf
  <1>4. CASE SlurpMacro
    <2> DEFINE name == RawName(line.args[1])
               body == SubSeq(Text, file.pos + 1, FirstUnread({"%macro", "%endmacro"}) - 1)
               x    == MacroBody(Argc, body)
    <2>1. \/ UNCHANGED consts
          \/ consts' = SetExtra(AddConst(consts, name, "MACRO", 0), name, x)
      BY <1>4 DEF SlurpMacro
    <2>2. name \in Name /\ x \in Extra /\ "MACRO" \in ConstTypes /\ 0 \in Int
      BY <1>4, SlurpArguments DEF ConstTypes
    <2>3. x.tag = "macro"
      BY DEF MacroBody, NoExtra
    <2> HIDE DEF name, x
    <2>4. PayloadsOf(SetExtra(AddConst(consts, name, "MACRO", 0), name, x))
      BY <1>1, <1>3, <2>2, <2>3, RegisterPayload
    <2>5. QED
      BY <1>2, <1>3, <2>1, <2>4
  <1>5. CASE DefineDirective
    <2> DEFINE name == RawName(line.args[1])
               x    == DefineBody(line.args[2])
    <2>1. \/ UNCHANGED consts
          \/ HasBody /\ consts' = SetExtra(AddConst(consts, name, "DEFINE", 0), name, x)
      BY <1>5 DEF DefineDirective
    <2>2. name \in Name /\ (HasBody => x \in Extra) /\ "DEFINE" \in ConstTypes /\ 0 \in Int
      BY <1>5, DefineArguments DEF ConstTypes
    <2>3. x.tag = "text"
      BY DEF DefineBody, NoExtra
    <2> HIDE DEF name, x
    <2>4. HasBody => PayloadsOf(SetExtra(AddConst(consts, name, "DEFINE", 0), name, x))
      BY <1>1, <1>3, <2>2, <2>3, RegisterPayload
    <2>5. QED
      BY <1>2, <1>3, <2>1, <2>4
  <1>6. CASE UndefDirective
    <2>1. consts' = RemoveConst(consts, RawName(line.args[1]))
      BY <1>6 DEF UndefDirective
    <2>2. \A n \in DOMAIN consts' : n \in DOMAIN consts /\ consts'[n] = consts[n]
      BY <1>1, <2>1, RemoveConstTable
    <2>3. QED
      BY <2>2 DEF ExtraMatchesType
  <1>7. CASE Statement
    <2> DEFINE name  == LabelName
               value == Len(stream[pass])
    <2>1. consts' = consts \/ consts' = AddConst(consts, name, "LABEL", value)
      BY <1>7 DEF Statement
    <2>2. /\ name \in Name /\ value \in Int /\ "LABEL" \in ConstTypes
          /\ "LABEL" \notin {"MACRO", "DEFINE"}
      BY <1>7, StatementArguments DEF ConstTypes
    <2> HIDE DEF name, value
    <2>3. PayloadsOf(AddConst(consts, name, "LABEL", value))
      BY <1>1, <1>3, <2>2, AddConstPayload
    <2>4. QED
      BY <1>2, <1>3, <2>1, <2>3
  <1>8. CASE UNCHANGED vars
    BY <1>2, <1>8 DEF vars
  <1>9. CASE Preprocess /\ ~SlurpMacro /\ ~DefineDirective /\ ~UndefDirective
    <2>1. UNCHANGED consts
      BY <1>9 DEF Preprocess, SkipMacro, EndMacroDirective, UnknownDirective, IncludeFails,
                  IncludeDirective, InvokeMacro
    <2>2. QED
      BY SMTT(30), <1>2, <2>1
  <1>10. CASE Read \/ StartPass \/ OpenFails \/ CloseSource
    <2>1. UNCHANGED consts
      BY <1>10 DEF Read, EndExpansion, ReadPending, ReadFile, PopInclude, EndOfSource,
                   StartPass, OpenFails, CloseSource
    <2>2. QED
      BY SMTT(30), <1>2, <2>1
  <1>11. QED
    BY <1>4, <1>5, <1>6, <1>7, <1>8, <1>9, <1>10 DEF Next

(* A name dispatched on as a macro or a %define leads to such a payload,   *)
(* however many kinds of definition it went through.                       *)
THEOREM PayloadsMatch == Spec => []ExtraMatchesType
  <1>1. Init => ExtraMatchesType
    BY DEF Init, ExtraMatchesType, EmptyTable
  <1>2. QED
    BY <1>1, TypeAlways, PayloadStep, PTL DEF Spec
-----------------------------------------------------------------------------
(* Which line of the file is in hand.  A program that calls no macro never *)
(* stacks a line, whatever it defines: every macro of the table is one of  *)
(* its %macro lines, so no line that is read is a call of it.              *)
MacrosOf(tab, names) == \A n \in DOMAIN tab : tab[n].type = "MACRO" => n \in names
InFile ==
  /\ pending = <<>>
  /\ pc \in {"read", "line"} => linenr = file.pos
  /\ pc = "line" => line \in LinesOf(src)
  /\ \A i \in DOMAIN incl : incl[i].linenr = incl[i].file.pos
  /\ MacrosOf(consts, MacroNames(src))
LineInv == CallFree(src) => InFile

LEMMA RegisterMacros ==
  ASSUME NEW tab, IsTable(tab), NEW names, MacrosOf(tab, names), NEW name \in Name,
         NEW type \in ConstTypes, NEW value \in Int, NEW x \in Extra, type = "MACRO" => name \in names
  PROVE  MacrosOf(SetExtra(AddConst(tab, name, type, value), name, x), names)
  <1> DEFINE mid == AddConst(tab, name, type, value)
  <1>1. MacrosOf(mid, names)
    BY DEF MacrosOf, AddConst
  <1> HIDE DEF mid
  <1>2. MacrosOf(SetExtra(mid, name, x), names)
    BY <1>1 DEF MacrosOf, SetExtra
  <1>3. QED
    BY <1>2 DEF mid

LEMMA LabelMacros ==
  ASSUME NEW tab, NEW names, MacrosOf(tab, names), NEW name, NEW value
  PROVE  MacrosOf(AddConst(tab, name, "LABEL", value), names)
  BY DEF MacrosOf, AddConst

LEMMA LineInit == Init => LineInv
  BY DEF Init, LineInv, InFile, MacrosOf, EmptyTable

LEMMA ReadLine ==
  ASSUME TypeInv, InFile, Read
  PROVE  InFile'
  <1> USE DEF InFile
  <1>1. CASE EndExpansion \/ ReadPending
    BY <1>1 DEF EndExpansion, ReadPending
  <1>2. CASE ReadFile
    <2>1. /\ pc = "read" /\ file.pos < Len(Text) /\ Deliver(Text[file.pos + 1])
          /\ file' = [file EXCEPT !.pos = @ + 1]
          /\ UNCHANGED <<src, incl, pending, consts>>
      BY <1>2 DEF ReadFile, macroVars
    <2>2. /\ file \in [name : STRING, pos : Nat] /\ Len(Text) \in Nat /\ Text \in Seq(Line)
          /\ file.name \in DOMAIN src
      BY <2>1, TextFacts DEF TypeInv, FilesInv
    <2>3. file'.pos = file.pos + 1
      BY <2>1, <2>2
    <2>4. Text[file.pos + 1] \in LinesOf(src)
      <3>1. file.pos + 1 \in DOMAIN Text
        BY <2>1, <2>2
      <3>2. QED
        BY <2>2, <3>1 DEF LinesOf, Text
    <2>5. pc' = "close" \/ (pc' = "line" /\ line' \in LinesOf(src) /\ linenr' = linenr + 1)
      BY <2>1, <2>4 DEF Deliver
    <2>6. QED
      BY <2>1, <2>3, <2>5
  <1>3. CASE PopInclude
    <2>1. /\ pc = "read" /\ file' = Last(incl).file /\ linenr' = Last(incl).linenr /\ incl' = Front(incl)
          /\ incl # <<>> /\ UNCHANGED <<src, pc, line, pending, consts>>
      BY <1>3 DEF PopInclude, AtEndOfFile, macroVars
    <2>2. /\ Len(incl) \in Nat \ {0} /\ Last(incl) = incl[Len(incl)]
          /\ Len(incl') = Len(incl) - 1 /\ incl' \in Seq(Frame)
          /\ \A i \in 1..Len(incl) - 1 : incl'[i] = incl[i]
      BY <2>1, FrontLast DEF TypeInv, TypeOK
    <2>3. DOMAIN incl = 1..Len(incl) /\ DOMAIN incl' = 1..Len(incl')
      BY <2>2, LenProperties DEF TypeInv, TypeOK
    <2>4. linenr' = file'.pos
      BY <2>1, <2>2, <2>3
    <2>5. \A i \in DOMAIN incl' : incl'[i].linenr = incl'[i].file.pos
      BY <2>2, <2>3
    <2>6. QED
      BY <2>1, <2>4, <2>5
  <1>4. CASE EndOfSource
    BY <1>4 DEF EndOfSource, readVars, macroVars
  <1>5. QED
    BY <1>1, <1>2, <1>3, <1>4 DEF Read

LEMMA DirectiveLine ==
  ASSUME TypeInv, InFile, CallFree(src), Preprocess
  PROVE  InFile'
  <1>1. pc = "line" /\ linenr = file.pos /\ line \in LinesOf(src) /\ IsTable(consts)
    BY DEF Preprocess, SlurpMacro, SkipMacro, EndMacroDirective, UnknownDirective, IncludeDirective,
      IncludeFails, DefineDirective, UndefDirective, InvokeMacro, Directive, InFile, TypeInv, TypeOK
  <1>2. ASSUME NEW op, Directive(op)
        PROVE  pc' = "read" /\ UNCHANGED <<src, line, pending>>
    BY <1>2 DEF Directive
  <1>3. ASSUME NEW i \in file.pos + 1..Len(Text) + 1, ReadTo(i)
        PROVE  linenr' = file'.pos /\ UNCHANGED incl
    <2> DEFINE end == IF i > Len(Text) THEN Len(Text) ELSE i
    <2>1. file \in [name : STRING, pos : Nat] /\ Len(Text) \in Nat
      BY <1>1, TextFacts
    <2>2. file' = [file EXCEPT !.pos = end] /\ linenr' = linenr + (end - file.pos) /\ UNCHANGED incl
      BY <1>3 DEF ReadTo
    <2>3. end \in Nat
      BY <2>1
    <2> HIDE DEF end
    <2>4. file'.pos = end
      BY <2>1, <2>2
    <2>5. QED
      BY <1>1, <2>1, <2>2, <2>3, <2>4
  <1>4. CASE SlurpMacro
    <2> DEFINE name == RawName(line.args[1])
               end  == FirstUnread({"%macro", "%endmacro"})
               x    == MacroBody(Argc, SubSeq(Text, file.pos + 1, end - 1))
    <2>1. /\ Directive("%macro") /\ ReadTo(end)
          /\ \/ UNCHANGED consts
             \/ consts' = SetExtra(AddConst(consts, name, "MACRO", 0), name, x)
      BY <1>4 DEF SlurpMacro
    <2>2. end \in file.pos + 1..Len(Text) + 1 /\ name \in Name /\ x \in Extra
          /\ "MACRO" \in ConstTypes /\ 0 \in Int
      BY <1>1, <1>4, FirstUnreadRange, SlurpArguments DEF ConstTypes
    <2>3. IsDirective(line, "%macro")
      BY <2>1 DEF Directive
    <2>4. name \in MacroNames(src)
      BY <1>1, <2>3 DEF MacroNames
    <2>5. linenr' = file'.pos /\ UNCHANGED incl /\ pc' = "read" /\ UNCHANGED <<src, line, pending>>
      BY <1>2, <1>3, <2>1, <2>2
    <2> HIDE DEF name, x, end
    <2>6. MacrosOf(SetExtra(AddConst(consts, name, "MACRO", 0), name, x), MacroNames(src))
      BY <1>1, <2>2, <2>4, RegisterMacros DEF InFile
    <2>7. QED
      BY <2>1, <2>5, <2>6 DEF InFile
  <1>5. CASE SkipMacro
    <2>1. Directive("%macro") /\ ReadTo(FirstUnread(BodyEnds)) /\ UNCHANGED consts
      BY <1>5 DEF SkipMacro
    <2>2. FirstUnread(BodyEnds) \in file.pos + 1..Len(Text) + 1
      BY <1>1, FirstUnreadRange
    <2>3. linenr' = file'.pos /\ UNCHANGED incl
      BY <1>3, <2>1, <2>2
    <2>4. QED
      BY <1>2, <2>1, <2>3 DEF InFile
  <1>6. CASE EndMacroDirective \/ IncludeFails
    <2>1. pc' = "read" /\ UNCHANGED <<src, line, pending, readVars, linenr, consts>>
      BY <1>6 DEF EndMacroDirective, IncludeFails, Directive
    <2>2. QED
      BY <1>1, <2>1 DEF InFile, readVars
  <1>7. CASE UnknownDirective
    BY <1>1, <1>7 DEF UnknownDirective, InFile, readVars, macroVars
  <1>8. CASE IncludeDirective
    <2>1. /\ pc' = "read" /\ UNCHANGED <<src, line, pending, consts>>
          /\ incl' = Append(incl, [file |-> file, linenr |-> linenr, name |-> inputname])
          /\ file' = [name |-> line.args[1].name, pos |-> 0] /\ linenr' = 0
      BY <1>8 DEF IncludeDirective, Directive
    <2>2. /\ incl \in Seq(Frame) /\ [file |-> file, linenr |-> linenr, name |-> inputname] \in Frame
      BY DEF TypeInv, TypeOK, Frame
    <2>3. /\ Len(incl) \in Nat /\ DOMAIN incl = 1..Len(incl) /\ DOMAIN incl' = 1..Len(incl) + 1
          /\ incl'[Len(incl) + 1] = [file |-> file, linenr |-> linenr, name |-> inputname]
          /\ \A i \in 1..Len(incl) : incl'[i] = incl[i]
      BY <2>1, <2>2, LenProperties, AppendProperties
    <2>4. \A i \in DOMAIN incl' : incl'[i].linenr = incl'[i].file.pos
      <3>1. ASSUME NEW i \in 1..Len(incl) + 1 PROVE incl'[i].linenr = incl'[i].file.pos
        <4>1. CASE i = Len(incl) + 1
          BY <1>1, <2>3, <4>1
        <4>2. CASE i # Len(incl) + 1
          BY <2>3, <4>2 DEF InFile
        <4>3. QED
          BY <4>1, <4>2
      <3>2. QED
        BY <2>3, <3>1
    <2>5. linenr' = file'.pos
      BY <2>1
    <2>6. QED
      BY <2>1, <2>4, <2>5 DEF InFile
  <1>9. CASE DefineDirective
    <2> DEFINE name == RawName(line.args[1])
               x    == DefineBody(line.args[2])
    <2>1. /\ Directive("%define") /\ UNCHANGED <<readVars, linenr>>
          /\ \/ UNCHANGED consts
             \/ HasBody /\ consts' = SetExtra(AddConst(consts, name, "DEFINE", 0), name, x)
      BY <1>9 DEF DefineDirective
    <2>2. name \in Name /\ (HasBody => x \in Extra) /\ "DEFINE" \in ConstTypes /\ 0 \in Int
      BY <1>9, DefineArguments DEF ConstTypes
    <2> HIDE DEF name, x
    <2>3. HasBody => MacrosOf(SetExtra(AddConst(consts, name, "DEFINE", 0), name, x), MacroNames(src))
      BY <1>1, <2>2, RegisterMacros DEF InFile
    <2>4. MacrosOf(consts', MacroNames(src))
      BY <2>1, <2>3 DEF InFile
    <2>5. QED
      BY <1>1, <1>2, <2>1, <2>4 DEF InFile, readVars
  <1>10. CASE UndefDirective
    <2>1. /\ Directive("%undef") /\ UNCHANGED <<readVars, linenr>>
          /\ consts' = RemoveConst(consts, RawName(line.args[1]))
      BY <1>10 DEF UndefDirective
    <2>2. \A n \in DOMAIN consts' : n \in DOMAIN consts /\ consts'[n] = consts[n]
      BY <1>1, <2>1, RemoveConstTable
    <2>3. MacrosOf(consts', MacroNames(src))
      BY <2>2 DEF InFile, MacrosOf
    <2>4. QED
      BY <1>1, <1>2, <2>1, <2>3 DEF InFile, readVars
  <1>11. CASE InvokeMacro
    <2>1. line.op \notin Directives /\ line.op # "" /\ HasType(consts, Command(line.op), {"MACRO"})
      BY <1>11 DEF InvokeMacro, IsMacro
    <2>2. Command(line.op) \in MacroNames(src)
      BY <2>1 DEF HasType, InFile, MacrosOf
    <2>3. ~Calls(src, line)
      BY <1>1 DEF CallFree
    <2>4. QED
      BY <2>1, <2>2, <2>3 DEF Calls
  <1>12. QED
    BY SMTT(30), <1>4, <1>5, <1>6, <1>7, <1>8, <1>9, <1>10, <1>11 DEF Preprocess

LEMMA LineKept ==
  ASSUME TypeInv, LineInv, [Next]_vars
  PROVE  LineInv'
  <1> SUFFICES ASSUME CallFree(src') PROVE InFile'
    BY DEF LineInv
  <1>1. UNCHANGED src
    BY Zenon DEF Next, StartPass, OpenFails, Read, EndExpansion, ReadPending, ReadFile, PopInclude, EndOfSource,
      Preprocess, SlurpMacro, SkipMacro, EndMacroDirective, UnknownDirective, IncludeDirective, IncludeFails,
      DefineDirective, UndefDirective, Directive, InvokeMacro, Statement, CloseSource, vars
  <1>2. CallFree(src) /\ InFile
    <2>1. CallFree(src)
      BY <1>1
    <2>2. QED
      BY <2>1 DEF LineInv
  <1>3. CASE StartPass
    BY <1>2, <1>3 DEF StartPass, InFile, macroVars
  <1>4. CASE OpenFails
    BY <1>2, <1>4 DEF OpenFails, InFile, readVars, macroVars
  <1>5. CASE Statement
    <2>1. /\ pc = "line" /\ pc' = "read" /\ UNCHANGED <<src, line, readVars, linenr, macroVars>>
          /\ consts' = consts \/ consts' = AddConst(consts, LabelName, "LABEL", Len(stream[pass]))
      BY <1>5 DEF Statement
    <2>2. MacrosOf(consts', MacroNames(src))
      BY <1>2, <2>1, LabelMacros DEF InFile
    <2>3. QED
      BY <1>2, <2>1, <2>2 DEF InFile, readVars, macroVars
  <1>6. CASE CloseSource
    <2>1. /\ pc' \in {"main", "exit"} /\ incl' = <<>> /\ UNCHANGED <<src, pending, consts>>
      BY <1>6 DEF CloseSource, macroVars
    <2>2. DOMAIN incl' = {}
      BY <2>1
    <2>3. QED
      BY <1>2, <2>1, <2>2 DEF InFile
  <1>7. CASE UNCHANGED vars
    BY <1>2, <1>7 DEF vars, InFile, readVars, macroVars
  <1>8. QED
    BY <1>2, <1>3, <1>4, <1>5, <1>6, <1>7, ReadLine, DirectiveLine DEF Next

(* Of a program that calls no macro, linenr is the line of the file in     *)
(* hand, however files include each other and wherever a body is skipped   *)
(* (pp_macro_slurp, pp_skip_macro_body, pp_next_line, MACRO.C:152-382).    *)
THEOREM LinesAttributed == Spec => []Attribution
  <1>1. LineInv => Attribution
    BY DEF LineInv, InFile, Attribution
  <1>2. QED
    BY <1>1, LineInit, LineKept, TypeAlways, PTL DEF Spec
=============================================================================
