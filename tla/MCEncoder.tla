----------------------------- MODULE MCEncoder -----------------------------
(* A model of Encoder for TLC: every word of the lexicon that begins an    *)
(* instruction with no operand and with every one, the words that take two *)
(* with every pair, and chosen lines with prefixes, addresses and numbers. *)
EXTENDS Encoder

G(n) == [kind |-> "global", name |-> n, n |-> 0]
N(i) == [kind |-> "number", name |-> "", n |-> i]
Plus(s)  == [op |-> "+", sym |-> s]
Minus(s) == [op |-> "-", sym |-> s]
Terms(ss) == [i \in DOMAIN ss |-> Plus(ss[i])]

Reg(r)    == [kind |-> "reg", reg |-> r, size |-> "", seg |-> "", e |-> <<>>]
Imm(ss)   == [kind |-> "imm", reg |-> "", size |-> "", seg |-> "", e |-> Terms(ss)]
Neg(i)    == [Imm(<<>>) EXCEPT !.e = <<Minus(N(i))>>]
Mem(size, seg, e) == [kind |-> "mem", reg |-> "", size |-> size, seg |-> seg, e |-> e]

At(v, t, sec) == [Fresh EXCEPT !.type = t, !.value = v, !.section = sec]
MCSymbols ==
  LET table == [code |-> At(4, "LABEL", "TEXT"), data |-> At(130, "DATA", "DATA"),
                room |-> At(2, "BSS", "BSS"), ext |-> At(3, "IMPORT", "TEXT"),
                SIZE |-> At(40, "LABEL", "TEXT"), five |-> At(5, "EXPR", "TEXT")]
  IN [x \in {[inv |-> 0, path |-> <<n>>] : n \in DOMAIN table} |-> table[x.path[1]]]
MCSegOf   == [n \in {"SEGcode", "SEGext"} |-> IF n = "SEGcode" THEN "code" ELSE "ext"]
MCRegLike == [n \in {"BX", "BP", "SI", "DI", "SIZE", "BXNAME"} |->
                IF n = "SIZE" THEN "SI" ELSE IF n = "BXNAME" THEN "BX" ELSE n]

Registers1 == {"AL", "CL", "BH", "AX", "DX", "SP", "CS", "DS", "ES", "SS"}
Addresses == {
  Mem("BYTE", "", Terms(<<G("data")>>)), Mem("", "ES", Terms(<<G("ext")>>)),
  Mem("WORD", "", Terms(<<G("BP"), G("DI"), N(127)>>)), Mem("BYTE", "", Terms(<<G("BX")>>)) }
Immediates == {Imm(<<N(5)>>), Imm(<<G("code")>>), Imm(<<G("ext")>>)}
Operands1  == {Reg(r) : r \in Registers1} \cup Addresses \cup Immediates

(* Words no instruction begins with: those the lexicon spells otherwise,   *)
(* those that have no row, and one it does not know.                       *)
Strange == {"AAA", "JLG", "LOOPE", "NEAR", "HLT"}
Words   == (DOMAIN instr86 \ {"LOOPE", "REPNZ"}) \cup {"LOPOPE", "REPE", "REPZ", "RETN"} \cup Strange
TakesTwo == {w \in DOMAIN instr86 : \E i \in DOMAIN instr86[w] : Len(instr86[w][i].types) = 2}

Cmd(ws, ps) == [words |-> ws, params |-> ps]
Plain ==
  {Cmd(<<w>>, <<>>) : w \in Words}
    \cup {Cmd(<<w>>, <<o>>) : w \in Words \ PrefixWords, o \in Operands1}
    \cup {Cmd(<<w>>, <<o, p>>) : w \in TakesTwo, o \in Operands1, p \in Operands1}

(* The forms of an address, in the operand of one word and one byte form.  *)
Places == {
  <<G("SI")>>, <<G("DI"), N(1)>>, <<G("BP")>>, <<G("BX"), G("SI")>>, <<G("BX"), G("DI"), N(128)>>,
  <<G("BP"), G("SI"), G("data")>>, <<G("data"), N(2)>>, <<G("code"), G("five")>>, <<N(300)>>,
  <<G("BX"), G("ext")>>, <<G("SI"), G("BX")>>, <<G("SIZE")>>, <<G("BX"), G("SIZE")>>,
  <<G("BXNAME"), G("five")>>, <<G("room")>>, <<G("nowhere")>>, <<G("BP"), G("BXNAME")>> }
Indexed == {Terms(p) : p \in Places}
  \cup {<<Plus(G("BX")), Minus(N(i))>> : i \in {128, 129, 300}}
  \cup {<<Plus(G("DI")), [op |-> "*", sym |-> N(3)]>>}
Addressed ==
  {Cmd(<<"INC">>, <<Mem("WORD", "", e)>>) : e \in Indexed}
    \cup {Cmd(<<"MOV">>, <<Mem("", s, e), Reg("DX")>>) : s \in {"", "CS"}, e \in Indexed}
    \cup {Cmd(<<"ADD">>, <<Reg("BH"), Mem("BYTE", "SS", e)>>) : e \in Indexed}
    \cup {Cmd(<<"MOV">>, <<Mem("", "DS", e), Imm(<<G("data")>>)>>) : e \in Indexed}

Prefixing == {<<"LOCK">>, <<"REP">>, <<"REPE">>, <<"REPNE">>, <<"REPNZ">>, <<"LOCK", "REP">>,
              <<"LOCK", "REPNZ">>}
Lead ==
  {Cmd(p \o ws, <<>>) : p \in Prefixing, ws \in { <<>>, <<"CMPSB">> }}
    \cup {Cmd(p \o <<"INC">>, <<Mem("WORD", "ES", Terms(<<G("data")>>))>>) : p \in Prefixing}
    \cup {Cmd(<<"INC">>, <<Mem("", s, Terms(<<G("code")>>))>>) : s \in {"CS", "DS", "SS", "XS"}}

Targets1 == Addresses \cup {Reg("BX"), Neg(130), Imm(<<N(131)>>), Imm(<<N(132)>>), Imm(<<N(65000)>>),
              Imm(<<G("SEGcode")>>), Imm(<<G("SEGext")>>), Imm(<<G("room")>>),
              Imm(<<G("nowhere")>>)} \cup Immediates
Distances ==
  {Cmd(<<w, d>>, <<o>>) : w \in {"JMP", "CALL", "JE"}, d \in {"SHORT", "NEAR", "FAR"}, o \in Targets1}
    \cup {Cmd(<<w>>, <<o>>) : w \in {"JMP", "CALL", "JNZ", "LOOP", "RET", "INT", "PUSH"}, o \in Targets1}
    \cup {Cmd(<<"MOV">>, <<Reg(r), o>>) : r \in {"AX", "AL", "SI"}, o \in Targets1}
    \cup {Cmd(<<"CMP">>, <<Mem("", "", Terms(<<G("room")>>)), o>>) : o \in Targets1}

(* The lines of the violation of EncodesAsWritten.                         *)
OrLines == {l \in Plain : l.words = <<"OR">>}

MCBefore == <<144, 204, 240>>
MCLines == Plain \cup Addressed \cup Lead \cup Distances
MCStale == {Cmd(<<>>, <<>>), Cmd(<<"POPF">>, <<>>), Cmd(<<"DEC">>, <<Reg("CX")>>)}
=============================================================================
