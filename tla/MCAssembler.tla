---------------------------- MODULE MCAssembler ----------------------------
(* A model of Assembler for TLC: every program of up to three lines of a   *)
(* repertoire whose lines refer to, size, move and export one another's    *)
(* symbols, and chosen longer ones, each built as a flat file and as an    *)
(* object; a few built with every format; and one built with every command *)
(* line.                                                                   *)
EXTENDS TwoPasses

CONSTANTS Lines,   (* the repertoire                                        *)
          MaxLines (* the length of the programs made of it                 *)

G(n) == [kind |-> "global", name |-> n, n |-> 0]
L(n) == [kind |-> "local",  name |-> n, n |-> 0]
N(i) == [kind |-> "number", name |-> "", n |-> i]

T(op, s)    == [op |-> op, sym |-> s]
One(s)      == <<T("+", s)>>
Sum(s, t)   == <<T("+", s), T("+", t)>>
Diff(s, t)  == <<T("+", s), T("-", t)>>
Ratio(s, t) == <<T("+", s), T("/", t)>>
Minus(s)    == <<T("-", s)>>

AX       == [kind |-> "reg", reg |-> "AX", size |-> "", seg |-> "", e |-> <<>>]
CL       == [AX EXCEPT !.reg = "CL"]
Imm(e)   == [kind |-> "imm", reg |-> "", size |-> "", seg |-> "", e |-> e]
Mem(e)   == [Imm(e) EXCEPT !.kind = "mem"]
Bytewise(e) == [Mem(e) EXCEPT !.size = "BYTE"]
InES(e)  == [Mem(e) EXCEPT !.seg = "ES"]
BX(e)    == Mem(<<T("+", G("BX"))>> \o e)

Plain == [label |-> NoSym, op |-> "", ins |-> NoInstruction, steps |-> <<>>, names |-> <<>>,
          e |-> <<>>, n |-> 0]
Label(s)       == [Plain EXCEPT !.label = s]
Ins(cmd, ps)   == [Plain EXCEPT !.op = "instr", !.ins.cmd = cmd, !.ins.params = ps]
To(cmd, d, s)  == [Ins(cmd, <<Imm(One(s))>>) EXCEPT !.ins.dist = d]
Locked(line)   == [line EXCEPT !.ins.lead = 1]
Nop            == Ins("NOP", <<>>)
Items1(op, f, es) == [Plain EXCEPT !.op = op, !.steps = [i \in DOMAIN es |-> Part(f, es[i])]]
DB(es)         == Items1("db", "byte", es)
DW(es)         == Items1("dw", "word", es)
DD(es)         == Items1("dd", "long", es)
Quoted(n)      == [Plain EXCEPT !.op = "db", !.steps = <<Fixed(n)>>]
Res(unit, e)   == [Plain EXCEPT !.op = "res", !.n = unit, !.e = e]
Naming(op, ns) == [Plain EXCEPT !.op = op, !.names = ns]
Valued(op, e)  == [Plain EXCEPT !.op = op, !.e = e]
By(s, line)    == [line EXCEPT !.label = s]

(* The lines of the repertoire.                                            *)
CodeLines == {
  By(G("f"), Nop),
  By(L(".x"), To("JNZ", "", L(".x"))),
  To("JMP", "", G("f")),
  To("JMP", "SHORT", G("v")),
  Ins("MOV", <<AX, Imm(One(G("v")))>>),
  Ins("MOV", <<AX, Mem(One(G("v")))>>),
  Ins("MOV", <<AX, BX(One(G("v")))>>),
  To("CALL", "FAR", G("f")) }
DataLines == {
  Naming("section", <<G(".DATA")>>),
  By(G("v"), DW(<<One(G("f")), One(G("v"))>>)),
  By(G("v"), Res(2, One(G("k")))),
  By(G("k"), Valued("equ", One(G("$")))),
  DW(<<One(G("SEGv"))>>),
  DD(<<One(G("f"))>>),
  Naming("import", <<G("f"), G("p")>>),
  Naming("export", <<G("v")>>) }
MCLines == CodeLines \cup DataLines

(* Longer programs: the directives that end, move and rename things, and   *)
(* what each of them is refused for.                                       *)
Chosen == {
  <<Valued("org", One(N(300))), By(G("f"), Nop), DW(<<One(G("$$")), One(G("f"))>>)>>,
  <<Valued("org", Minus(N(16))), Label(G("f")), Valued("end", Minus(N(1)))>>,
  <<By(G("f"), Quoted(2)), Valued("org", One(N(40))), DW(<<One(G("f"))>>)>>,
  <<Nop, Valued("end", <<>>), Nop>>,
  <<Naming("%define", <<G("d"), G("c")>>), Naming("%define", <<G("c"), N(7)>>), DB(<<One(G("d"))>>),
    Naming("export", <<G("d")>>)>>,
  <<Naming("%define", <<G("c"), G("c")>>), DB(<<One(G("c")), One(N(300))>>)>>,
  <<Naming("%define", <<G("c"), N(7)>>), DB(<<One(G("c"))>>), Naming("%undef", <<G("c")>>)>>,
  <<Naming("%define", <<G("c"), G("v")>>), Ins("MOV", <<AX, BX(One(G("c")))>>),
    By(G("f"), DW(<<One(G("f"))>>)), Res(1, One(N(0))), By(G("v"), DB(<<One(N(1))>>))>>,
  <<To("JMP", "SHORT", G("p")), Naming("import", <<G("p")>>)>>,
  <<Naming("import", <<G("p"), G("q"), L(".z")>>), Naming("export", <<L(".z")>>)>>,
  <<Naming("import", <<G("p"), G("q")>>), Naming("section", <<G(".DATA")>>),
    DW(<<One(G("q")), One(G("p")), Sum(G("p"), N(2))>>), Naming("export", <<G("q")>>),
    Naming("import", <<G("q"), G("r")>>)>>,
  <<Naming("import", <<G("p")>>), To("CALL", "", G("p")), To("JMP", "FAR", G("p")),
    To("JMP", "FAR", N(9))>>,
  <<Label(G("f")), Quoted(126), To("JNZ", "", G("f"))>>,
  <<Label(G("f")), Quoted(125), To("JNZ", "", G("f"))>>,
  <<To("LOOP", "", G("f")), Quoted(127), Label(G("f"))>>,
  <<To("LOOP", "", G("f")), Quoted(128), Label(G("f"))>>,
  <<To("CALL", "NEAR", G("f")), By(L(".x"), Nop), By(G("f"), Nop), By(L(".x"), To("JE", "", L(".x")))>>,
  <<Naming("section", <<G(".BSS")>>), By(G("b"), Res(2, One(N(3)))), By(G("c"), Res(4, One(N(1)))),
    Naming("section", <<G(".DATA")>>), By(G("d"), DW(<<One(G("b")), One(G("c")), Diff(G("c"), G("b"))>>)),
    DD(<<One(G("c"))>>), Naming("section", <<G(".TEXT")>>),
    Ins("ENTER", <<Imm(One(G("d"))), Imm(Minus(N(1)))>>)>>,
  <<Naming("section", <<G(".DATA")>>), DB(<<One(N(1)), One(N(2))>>), By(G("t"), DW(<<One(N(5))>>)),
    Naming("section", <<G(".TEXT")>>), Ins("MOV", <<BX(One(G("t"))), AX>>),
    Ins("PUSH", <<BX(Sum(G("t"), N(126)))>>), Ins("POP", <<BX(Minus(N(2)))>>),
    By(G("f"), DW(<<One(G("f"))>>))>>,
  <<Naming("section", <<G(".STACK")>>), Nop>>,
  <<Naming("section", <<G(".BSS")>>), By(G("b"), Res(2, Minus(N(3)))), Naming("section", <<G(".DATA")>>),
    DW(<<One(G("b"))>>)>>,
  <<Naming("section", <<G(".BSS")>>), By(G("b"), DW(<<One(G("t")), One(N(1))>>)),
    Naming("section", <<G(".DATA")>>), By(G("t"), DW(<<One(G("b"))>>))>>,
  <<Nop, By(G("f"), DW(<<One(G("$")), Diff(G("$"), G("f"))>>)), By(L(".x"), To("JMP", "", G("$")))>>,
  <<Naming("section", <<G(".BSS")>>), Locked(Nop), By(G("b"), DW(<<One(G("b"))>>))>>,
  <<Ins("INC", <<Bytewise(One(G("v")))>>), Naming("section", <<G(".DATA")>>),
    By(G("v"), DB(<<One(N(1))>>))>>,
  <<To("CALL", "FAR", G("f")), By(G("f"), Nop)>>,
  <<DD(<<One(N(1)), One(N(2)), One(N(3))>>), By(G("k"), Valued("equ", One(N(5)))), DD(<<One(G("k"))>>)>>,
  <<Locked(Ins("HLT", <<>>)), Nop>>,
  <<By(G("f"), Locked(Ins("XCHG", <<AX>>))), To("JNZ", "", G("f"))>>,
  <<Locked(Ins("ADD", <<InES(One(G("w"))), AX>>)), Ins("CMP", <<InES(One(G("w"))), Imm(One(G("w")))>>),
    Ins("SHL", <<Bytewise(One(G("w"))), CL>>), Naming("section", <<G(".DATA")>>), Quoted(3),
    By(G("w"), DW(<<One(N(0))>>))>>,
  <<Naming("%define", <<G("c"), L(".y")>>), DB(<<One(G("c"))>>), Label(G("f")), By(L(".y"), DB(<<One(G("c"))>>))>>,
  <<Valued("org", Sum(G("$"), N(16))), DW(<<One(N(1))>>)>>,
  <<By(L(".x"), Valued("equ", One(N(4)))), DB(<<One(L(".x"))>>)>>,
  <<By(L(".x"), Nop), DW(<<One(L(".y"))>>)>>,
  <<By(G("k"), Valued("equ", Ratio(N(9), G("$")))), DW(<<Ratio(N(9), G("f"))>>), By(G("f"), Nop)>>,
  <<By(G("SEGt"), DW(<<One(N(1))>>)), DW(<<One(G("SEGt"))>>)>> }

(* What the formats tell apart: the entry point, and the size of the code. *)
Ended == {
  <<By(G("f"), Quoted(3)), Valued("end", One(G("f"))), Label(G("f"))>>,
  <<By(G("f"), Quoted(3)), Valued("end", Sum(G("f"), N(5)))>>,
  <<Quoted(511), By(G("g"), To("JMP", "", G("f"))), By(G("f"), Nop), Valued("end", One(G("f")))>>,
  <<Quoted(511), By(G("f"), Nop), Valued("end", One(G("f")))>>,
  <<Ins("MOV", <<AX, BX(One(G("v")))>>), Quoted(508), By(G("v"), Quoted(1)), Valued("end", Minus(N(2)))>> }

Sequences  == UNION {[1..n -> Lines] : n \in 1..MaxLines}
FlatPrograms == {p \in Sequences : Len(p) < MaxLines} \cup Chosen \cup Ended
MCPrograms == Sequences \cup Chosen \cup Ended

(* Command lines.                                                          *)
Opt(l)  == [letter |-> l, text |-> "", number |-> 0, hex |-> FALSE, assigned |-> FALSE]
Word1(t) == [Opt("plain") EXCEPT !.text = t]
Num(n)  == [Opt("plain") EXCEPT !.text = "number", !.number = n]
Hex(n)  == [Num(n) EXCEPT !.hex = TRUE]
Defn(s, n) == [Opt("D") EXCEPT !.text = s, !.number = n, !.assigned = TRUE]
F(f)    == <<Opt("F"), Word1(f)>>
S(n)    == <<Opt("S"), n>>
Build(f) == F(f) \o <<Opt("O"), Word1("out"), Word1("x.asm")>>
OneOutput == <<Opt("O"), Word1("out"), Word1("x.asm")>>
MCCommandLines == {Build(f) : f \in Formats} \cup {
  OneOutput, <<Word1("x.asm")>> \o F("texe") \o <<Opt("O"), Word1("out")>>,
  F("com") \o F("bin") \o OneOutput, F("bin") \o F("texe") \o OneOutput,
  F("rdf") \o S(Num(512)) \o F("bin") \o OneOutput,
  S(Num(256)) \o Build("bin"), Build("bin") \o S(Num(31744)), Build("bin") \o S(Hex(31744)),
  S(Num(256)) \o Build("rdf"), Build("texe") \o S(Num(65552)), S(Num(65552)) \o Build("bin"),
  S(Num(512)) \o OneOutput, S(Num(512)) \o S(Num(16)) \o Build("bin"),
  Build("com") \o S(Num(512)) \o <<Defn("m", 3)>>,
  <<Opt("M"), Word1("quiet")>> \o Build("rdf"), Build("bin") \o <<Defn("m", 3)>>,
  <<Defn("m", 3)>> \o Build("bin"), Build("bin") \o <<Word1("y.asm")>>,
  <<Opt("O"), Word1("a"), Opt("O"), Word1("b"), Word1("x.asm")>>,
  F("exe") \o OneOutput, Build("bin") \o F("obj"), <<Opt("other")>>, Build("bin") \o <<Opt("other")>>,
  F("rdf") \o <<Word1("x.asm")>>, F("bin") \o <<Opt("O"), Word1("out")>>, <<>>,
  Build("bin") \o <<Opt("F")>>, Build("bin") \o <<Opt("D")>>,
  <<Opt("O"), Opt("F"), Word1("rdf"), Word1("x.asm")>> }

Small  == <<Valued("org", One(N(128))), By(G("f"), DW(<<One(G("f")), One(G("$$"))>>))>>
Endless == {<<Nop, Valued("end", <<>>), Nop>>, <<By(G("f"), Nop)>>}
Small2 == <<By(G("f"), DW(<<One(G("m")), One(G("$$"))>>))>>
MCJobs ==
  {[argv |-> Build("rdf"), prog |-> p] : p \in MCPrograms}
    \cup {[argv |-> Build("bin"), prog |-> p] : p \in FlatPrograms}
    \cup {[argv |-> Build(f), prog |-> p] : f \in {"com", "texe"}, p \in Ended \cup Endless \cup {Small}}
    \cup {[argv |-> a, prog |-> p] : a \in MCCommandLines, p \in {Small, Small2}}
AllPrograms == MCPrograms \cup {Small, Small2}

(* A label of another section in a byte instruction, and in .bss.          *)
Unlike == <<Ins("INC", <<Bytewise(One(G("v")))>>), Naming("section", <<G(".DATA")>>),
            By(G("v"), DB(<<One(N(1))>>)), Naming("section", <<G(".BSS")>>), DW(<<One(G("v"))>>)>>
UnlikeJobs == {[argv |-> Build("rdf"), prog |-> Unlike]}
UnlikePrograms == {Unlike}

(* The options as the manual writes their numbers.                         *)
Written == S(Hex(31744)) \o Build("bin") \o <<Defn("m", 5)>>
WrittenLines    == {Written}
WrittenJobs     == {[argv |-> Written, prog |-> Small2]}
WrittenPrograms == {Small2}

MCPlacements == {[code |-> 0, data |-> 16, import |-> 4096], [code |-> 512, data |-> 2048, import |-> 96]}
MCSegOf    == [n \in {"SEGv", "SEGt"} |-> IF n = "SEGv" THEN "v" ELSE "t"]
MCRegLike  == [n \in {"BX"} |-> n]
MCSpelling == [n \in {"f", "v", "k", "p", "q", "r", "t", "b", "c", "d", "g", "w", "SEGt"} |->
                 CASE n = "f" -> <<70>> [] n = "v" -> <<86, 65, 82>> [] n = "k" -> <<75>>
                   [] n = "p" -> <<80, 49>> [] n = "q" -> <<81>> [] n = "r" -> <<82>>
                   [] n = "t" -> <<84>> [] n = "b" -> <<66>> [] n = "c" -> <<67>>
                   [] n = "d" -> <<68>> [] n = "g" -> <<71>> [] n = "w" -> <<87>>
                   [] n = "SEGt" -> <<83, 69, 71, 84>>]
=============================================================================
