------------------------------ MODULE Opcodes -------------------------------
(***************************************************************************)
(* The lexicon of LEX.C, the instruction table of TABLES.C, the operand    *)
(* types and address forms of MISC.C and the matching of ASSEMBLR.C: which *)
(* row an instruction is assembled with, and what the row emits.           *)
(*                                                                         *)
(* A mnemonic has the rows the scan from its prescan index reaches, which  *)
(* stops at the first row of another one.                                  *)
(***************************************************************************)
EXTENDS Expressions

CONSTANT RegLike  (* the names that begin with an index or base register,   *)
                  (* each with that register                                *)
ASSUME RegLikeAssumption == \A n \in DOMAIN RegLike : RegLike[n] \in {"BX", "BP", "SI", "DI"}

Reg8   == <<"AL", "CL", "DL", "BL", "AH", "CH", "DH", "BH">>
Reg16  == <<"AX", "CX", "DX", "BX", "SP", "BP", "SI", "DI">>
SegReg == <<"ES", "CS", "SS", "DS">>
Number(r, regs) == SelectInSeq(regs, LAMBDA x : x = r) - 1

(* An operand as it is written: a register; brackets around an address,    *)
(* with BYTE, WORD or nothing before and a segment inside; an expression.  *)
Operand == [kind : {"reg", "mem", "imm"}, reg : STRING, size : {"", "BYTE", "WORD"},
            seg : STRING, e : Expr]

(* get_type: a register is a type of its own, AL that of ACC_8 and AX that *)
(* of ACC_16; brackets alone are a word.                                   *)
Type(o) ==
  CASE o.kind = "reg" -> o.reg
    [] o.kind = "mem" -> IF o.size = "BYTE" THEN "MEM_8" ELSE "MEM_16"
    [] o.kind = "imm" -> "IMM"

(* match_params, for one operand.                                          *)
Fits(type, want) ==
  CASE want = "RM_8"    -> type = "MEM_8"  \/ type \in Range(Reg8)
    [] want = "RM_16"   -> type = "MEM_16" \/ type \in Range(Reg16)
    [] want = "REG_8"   -> type \in Range(Reg8)
    [] want = "REG_16"  -> type \in Range(Reg16)
    [] want = "REG_SEG" -> type \in Range(SegReg)
    [] OTHER            -> type = want
-----------------------------------------------------------------------------
(* What a row emits, entry by entry; operands are numbered from 0 as in    *)
(* the source.  An "RM" entry addresses operand a; its reg field is n, or  *)
(* the number in regs of operand r when n is -1; wide forms relocate.      *)
Entry0 == [cmd |-> "OP", n |-> 0, a |-> 0, r |-> 0, regs |-> <<>>, wide |-> FALSE]
Op(b)     == [Entry0 EXCEPT !.n = b]
Imm8(p)   == [Entry0 EXCEPT !.cmd = "IMM8",  !.a = p]
Imm16(p)  == [Entry0 EXCEPT !.cmd = "IMM16", !.a = p]
Rel8      == [Entry0 EXCEPT !.cmd = "REL8"]
Rel16     == [Entry0 EXCEPT !.cmd = "REL16"]
FarPtr    == [Entry0 EXCEPT !.cmd = "FAR_PTR"]
PlusReg(b, p, regs) == [Entry0 EXCEPT !.cmd = "PLUSREG", !.n = b, !.a = p, !.regs = regs]
RmLine(n, a, wide)   == [Entry0 EXCEPT !.cmd = "RM", !.n = n, !.a = a, !.wide = wide]
Rm(a, r, regs, wide) == [RmLine(-1, a, wide) EXCEPT !.r = r, !.regs = regs]

Row(types, ops)      == [dist |-> "", types |-> types, ops |-> ops]
DistRow(d, types, ops) == [Row(types, ops) EXCEPT !.dist = d]
Alone(ops)           == <<Row(<<>>, ops)>>

(* Row groups that repeat from mnemonic to mnemonic: opcode b takes bytes  *)
(* and b + 1 words.                                                        *)
FromRm(b) == << Row(<<"REG_8", "RM_8">>,   <<Op(b), Rm(1, 0, Reg8, FALSE)>>),
                Row(<<"REG_16", "RM_16">>, <<Op(b + 1), Rm(1, 0, Reg16, TRUE)>>) >>
ToRm(b)   == << Row(<<"RM_8", "REG_8">>,   <<Op(b), Rm(0, 1, Reg8, FALSE)>>),
                Row(<<"RM_16", "REG_16">>, <<Op(b + 1), Rm(0, 1, Reg16, TRUE)>>) >>
AccImm(b) == << Row(<<"AL", "IMM">>, <<Op(b), Imm8(1)>>),
                Row(<<"AX", "IMM">>, <<Op(b + 1), Imm16(1)>>) >>
RmImm(b, n) == << Row(<<"RM_8", "IMM">>,  <<Op(b), RmLine(n, 0, FALSE), Imm8(1)>>),
                  Row(<<"RM_16", "IMM">>, <<Op(b + 1), RmLine(n, 0, TRUE), Imm16(1)>>) >>
OneRm(b, n)  == << Row(<<"RM_8">>,  <<Op(b), RmLine(n, 0, FALSE)>>),
                   Row(<<"RM_16">>, <<Op(b + 1), RmLine(n, 0, TRUE)>>) >>
(* NEG and NOT take the 8-bit form for words too.                          *)
NarrowRm(b, n) == << Row(<<"RM_8">>,  <<Op(b), RmLine(n, 0, FALSE)>>),
                     Row(<<"RM_16">>, <<Op(b + 1), RmLine(n, 0, FALSE)>>) >>
FromFirst(acc, b, n) == AccImm(acc) \o FromRm(b + 2) \o ToRm(b) \o RmImm(128, n)
ToFirst(acc, b, n)   == AccImm(acc) \o ToRm(b) \o FromRm(b + 2) \o RmImm(128, n)
ByCL(n)   == << Row(<<"RM_8", "CL">>,  <<Op(210), RmLine(n, 0, FALSE)>>),
                Row(<<"RM_16", "CL">>, <<Op(211), RmLine(n, 0, TRUE)>>) >>
(* Defect: an element of each row is missing.                              *)
ShiftImmShort(n) ==
  << Row(<<"RM_8", "IMM">>,  <<Op(192), RmLine(n, 2, FALSE), Op(0)>>),
     Row(<<"RM_16", "IMM">>, <<Op(193), RmLine(n, 2, TRUE), Op(0)>>) >>
ShiftImm(n) == << Row(<<"RM_8", "IMM">>,  <<Op(192), RmLine(n, 0, FALSE), Imm8(1)>>),
                  Row(<<"RM_16", "IMM">>, <<Op(193), RmLine(n, 0, TRUE), Imm8(1)>>) >>
(* The SAL rows are an element short: what addresses the operand is the    *)
(* code of IMM8, 2, and what follows it one plain entry.                   *)
SalImm    == << Row(<<"RM_8", "IMM">>,  <<Op(192), RmLine(4, 2, FALSE), Op(0)>>),
                Row(<<"RM_16", "IMM">>, <<Op(193), RmLine(4, 2, TRUE), Op(0)>>) >>
PlusRow(b)  == << Row(<<"REG_16">>, <<PlusReg(b, 0, Reg16)>>) >>
Jump8(b)    == << Row(<<"IMM">>, <<Op(b), Rel8>>) >>
Stack(r, b) == << Row(<<r>>, <<Op(b)>>) >>
Pointer(b)  == << Row(<<"REG_16", "MEM_16">>, <<Op(b), Rm(1, 0, Reg16, TRUE)>>) >>

Simple ==  (* no operands, one byte *)
  [AAS |-> 63, CBW |-> 152, CWD |-> 153, CLC |-> 248, CLD |-> 252, CLI |-> 250, CMC |-> 245,
   CMPSB |-> 166, CMPSW |-> 167, DAA |-> 39, DAS |-> 47, INSB |-> 108, INSW |-> 109,
   HALT |-> 244, INT3 |-> 204, INTO |-> 206, IRET |-> 207, LAHF |-> 159, LEAVE |-> 201,
   MOVSB |-> 164, MOVSW |-> 165, NOP |-> 144, OUTSB |-> 110, OUTSW |-> 111, LODSB |-> 172,
   LODSW |-> 173, POPA |-> 97, POPF |-> 157, PUSHA |-> 96, PUSHF |-> 156, REP |-> 243,
   REPNZ |-> 242, SAHF |-> 158, SALC |-> 214, SCASB |-> 174, SCASW |-> 175, STC |-> 249,
   STD |-> 253, STI |-> 251, STOSB |-> 170, STOSW |-> 171, WAIT |-> 155, XLATB |-> 215]
Branch ==  (* a byte of displacement *)
  [JCXZ |-> 227, JA |-> 119, JAE |-> 115, JB |-> 114, JBE |-> 118, JC |-> 114, JE |-> 116,
   JG |-> 127, JGE |-> 125, JL |-> 124, JLE |-> 126, JNA |-> 118, JNAE |-> 114, JNB |-> 115,
   JNBE |-> 119, JNC |-> 115, JNE |-> 117, JNG |-> 126, JNGE |-> 124, JNL |-> 125,
   JNLE |-> 127, JNO |-> 113, JNP |-> 123, JNS |-> 121, JNZ |-> 117, JO |-> 112, JP |-> 122,
   JPE |-> 122, JPO |-> 123, JS |-> 120, JZ |-> 116, LOOP |-> 226, LOOPE |-> 225,
   LOOPNE |-> 224, LOOPZ |-> 225, LOOPNZ |-> 224]
Arithmetic ==
  [ADC |-> FromFirst(20, 16, 2), ADD |-> Alone(<<Op(55)>>) \o FromFirst(4, 0, 0),
   AND |-> FromFirst(36, 32, 4), SBB |-> FromFirst(28, 24, 3), CMP |-> ToFirst(60, 56, 7),
   OR  |-> ToFirst(10, 8, 1),    SUB |-> ToFirst(44, 40, 5),   XOR |-> ToFirst(52, 48, 6),
   TEST |-> ToRm(132) \o RmImm(246, 0),
   INC |-> PlusRow(64) \o OneRm(254, 0), DEC |-> PlusRow(72) \o OneRm(254, 1),
   MUL |-> OneRm(246, 4), IMUL |-> OneRm(246, 5), DIV |-> OneRm(246, 6), IDIV |-> OneRm(246, 7),
   NEG |-> NarrowRm(246, 3), NOT |-> NarrowRm(246, 2)]
Shifts ==
  [RCL1 |-> OneRm(208, 2), RCL |-> ByCL(2) \o ShiftImm(2),
   RCR1 |-> OneRm(208, 3), RCR |-> ByCL(3) \o ShiftImm(3),
   ROL1 |-> OneRm(208, 0), ROL |-> ByCL(0) \o ShiftImm(0),
   ROR1 |-> OneRm(208, 1), ROR |-> ByCL(1) \o ShiftImm(1),
   SAL1 |-> OneRm(208, 4), SAL |-> ByCL(4) \o SalImm,
   SAR1 |-> OneRm(208, 7), SAR |-> ByCL(7) \o ShiftImm(7),
   SHL1 |-> OneRm(208, 4), SHL |-> ByCL(4) \o ShiftImm(4),
   SHR1 |-> OneRm(208, 5), SHR |-> ByCL(5) \o ShiftImm(5)]
Moves ==
  [MOV |-> << Row(<<"IMM", "AL">>, <<Op(162), Imm8(1)>>),
              Row(<<"IMM", "AX">>, <<Op(163), Imm16(1)>>),
              Row(<<"REG_8", "IMM">>,  <<PlusReg(176, 0, Reg8), Imm8(1)>>),
              Row(<<"REG_16", "IMM">>, <<PlusReg(184, 0, Reg16), Imm16(1)>>) >>
           \o ToRm(136) \o FromRm(138) \o RmImm(198, 0)
           \o << Row(<<"RM_16", "REG_SEG">>, <<Op(140), Rm(0, 1, SegReg, TRUE)>>),
                 Row(<<"REG_SEG", "RM_16">>, <<Op(142), Rm(1, 0, SegReg, TRUE)>>) >>,
   XCHG |-> << Row(<<"AX", "REG_16">>, <<PlusReg(144, 1, Reg16)>>) >> \o ToRm(134) \o FromRm(134),
   LDS |-> Pointer(197), LES |-> Pointer(196), LEA |-> Pointer(141),
   BOUND |-> << Row(<<"REG_16", "MEM_16">>, <<Op(98), Rm(0, 1, Reg16, TRUE)>>) >>,
   OUT |-> << Row(<<"IMM", "AL">>, <<Op(230), Imm8(0)>>), Row(<<"IMM", "AX">>, <<Op(231), Imm8(0)>>),
              Row(<<"DX", "AL">>, <<Op(238)>>), Row(<<"DX", "AX">>, <<Op(239)>>) >>,
   POP |-> PlusRow(88) \o << Row(<<"RM_16">>, <<Op(143), RmLine(0, 0, TRUE)>>) >>
           \o Stack("DS", 31) \o Stack("ES", 7) \o Stack("SS", 23),
   PUSH |-> << Row(<<"RM_16">>, <<Op(255), RmLine(6, 0, TRUE)>>) >> \o PlusRow(80)
           \o Stack("CS", 14) \o Stack("DS", 30) \o Stack("ES", 6) \o Stack("SS", 22)
           \o << Row(<<"IMM">>, <<Op(106), Imm16(0)>>) >>]
Transfers ==
  [CALL |-> << DistRow("NEAR", <<"IMM">>, <<Op(232), Rel16>>),
               DistRow("FAR", <<"MEM_16">>, <<Op(255), RmLine(3, 0, TRUE)>>),
               DistRow("FAR", <<"IMM">>, <<Op(154), FarPtr>>),
               Row(<<"IMM">>, <<Op(232), Rel16>>),
               Row(<<"RM_16">>, <<Op(255), RmLine(2, 0, TRUE)>>) >>,
   JMP  |-> << DistRow("FAR", <<"MEM_16">>, <<Op(255), RmLine(5, 0, TRUE)>>),
               DistRow("FAR", <<"IMM">>, <<Op(234), FarPtr>>),
               DistRow("SHORT", <<"IMM">>, <<Op(235), Rel8>>),
               Row(<<"IMM">>, <<Op(233), Rel16>>),
               DistRow("NEAR", <<"IMM">>, <<Op(233), Rel16>>),
               Row(<<"RM_16">>, <<Op(255), RmLine(4, 0, TRUE)>>) >>,
   RET  |-> Alone(<<Op(195)>>) \o << Row(<<"IMM">>, <<Op(194), Imm16(0)>>) >>,
   RETF |-> Alone(<<Op(203)>>) \o << Row(<<"IMM">>, <<Op(202), Imm16(0)>>) >>,
   INT  |-> << Row(<<"IMM">>, <<Op(205), Imm8(0)>>) >>,
   ENTER |-> << Row(<<"IMM", "IMM">>, <<Op(200), Imm16(0), Imm8(1)>>) >>,
   AAD  |-> Alone(<<Op(213), Op(10)>>) \o << Row(<<"IMM">>, <<Op(213), Imm8(0)>>) >>,
   AAM  |-> Alone(<<Op(212), Op(10)>>) \o << Row(<<"IMM">>, <<Op(212), Imm8(0)>>) >>,
   CLTS |-> Alone(<<Op(15), Op(6)>>)]

InRows ==  (* IN is a word of TLA+ *)
  << Row(<<"AL", "IMM">>, <<Op(228), Imm8(1)>>), Row(<<"AX", "IMM">>, <<Op(229), Imm8(1)>>),
     Row(<<"AL", "DX">>, <<Op(236)>>), Row(<<"AX", "DX">>, <<Op(237)>>) >>

instr86 ==
  [m \in DOMAIN Simple \cup DOMAIN Branch \cup DOMAIN Arithmetic \cup DOMAIN Shifts
           \cup DOMAIN Moves \cup DOMAIN Transfers \cup {"IN"} |->
     CASE m \in DOMAIN Simple     -> Alone(<<Op(Simple[m])>>)
       [] m \in DOMAIN Branch     -> Jump8(Branch[m])
       [] m \in DOMAIN Arithmetic -> Arithmetic[m]
       [] m \in DOMAIN Shifts     -> Shifts[m]
       [] m \in DOMAIN Moves      -> Moves[m]
       [] m \in DOMAIN Transfers  -> Transfers[m]
       [] m = "IN"                -> InRows]

(* The words of the lexicon that are not spelled as their mnemonic.        *)
Aliases == [LOPOPE |-> "LOOPE", REPE |-> "REP", REPZ |-> "REP", REPNE |-> "REPNZ",
            RETN |-> "RET", SEGMENT |-> "SECTION"]
Directives == {"DB", "DW", "DD", "EXPORT", "IMPORT", "ORG", "EQU", "END", "SECTION",
               "RESB", "RESW", "RESD"}
(* Words that are known, but are the first one of no row.                  *)
RowLess == {"AAA", "JLG", "SHORT", "NEAR", "FAR", "SEG", "CS:", "DS:", "ES:", "SS:"}
Lexemes == DOMAIN instr86 \cup Directives \cup RowLess
ByTheirName == Lexemes \ {"LOOPE"}
lookupLex(w) ==
  IF w \in DOMAIN Aliases THEN Aliases[w] ELSE IF w \in ByTheirName THEN w ELSE "NONE"

(* The rows of lex that take the operands, SHORT, NEAR or FAR matched too. *)
RowsOf(lex) == IF lex \in DOMAIN instr86 THEN instr86[lex] ELSE <<>>
Matches(row, dist, params) ==
  /\ row.dist = dist /\ Len(row.types) = Len(params)
  /\ \A k \in DOMAIN params : Fits(Type(params[k]), row.types[k])
RowFor(lex, dist, params) ==
  SelectInSeq(RowsOf(lex), LAMBDA row : Matches(row, dist, params))
-----------------------------------------------------------------------------
(* get_address.                                                            *)

RmOf(base) ==
  Number(base, << <<"BX", "SI">>, <<"BX", "DI">>, <<"BP", "SI">>, <<"BP", "DI">>,
                  <<"SI">>, <<"DI">>, <<"BP">>, <<"BX">> >>)
(* The register the name of term i begins with, and whether it is all of   *)
(* the name: what is left of the name is passed over with the rest.        *)
Like(e, i)  == IF i <= Len(e) /\ e[i].op = "+" /\ e[i].sym.kind = "global"
                  /\ e[i].sym.name \in DOMAIN RegLike
               THEN RegLike[e[i].sym.name] ELSE ""
Whole(e, i) == Like(e, i) = e[i].sym.name
Paired(e)   == Like(e, 1) \in {"BX", "BP"} /\ Whole(e, 1) /\ Like(e, 2) \in {"SI", "DI"}

(* The part of an address the registers take: rm, and the displacement.    *)
Based(e) ==
  LET used == IF Paired(e) THEN 2 ELSE 1
  IN [rm |-> RmOf([i \in 1..used |-> Like(e, i)]),
      disp |-> IF Whole(e, used) THEN SubSeq(e, used + 1, Len(e)) ELSE <<>>]

(* The modrm byte's mod and rm and the displacement of operand o; src is   *)
(* the expression a direct address came from.  A displacement below 0x80   *)
(* is given one byte.                                                      *)
Address(tab, sc, o) ==
  LET With(mod, rm, disp, src) == [mod |-> mod, rm |-> rm, disp |-> disp, src |-> src]
  IN CASE o.kind = "reg" -> With(3, IF o.reg \in Range(Reg8) THEN Number(o.reg, Reg8)
                                    ELSE Number(o.reg, Reg16), <<>>, <<>>)
       [] o.kind = "mem" /\ Like(o.e, 1) = "" -> With(0, 6, o.e, o.e)
       [] o.kind = "mem" /\ Like(o.e, 1) # "" ->
            LET b == Based(o.e)
            IN CASE b.disp # <<>> ->
                      With(IF Value(tab, sc, b.disp) < 128 THEN 1 ELSE 2, b.rm, b.disp, <<>>)
                 [] b.disp = <<>> -> With(IF b.rm = 6 THEN 1 ELSE 0, b.rm, <<>>, <<>>)
(* Defect: a word of displacement is cut to a byte.                        *)
DispSizeOne(ad) == IF ad.mod = 0 /\ ad.rm = 6 THEN 2 ELSE IF ad.mod = 3 THEN 0 ELSE 1
(* build_address: the bytes of the displacement.                           *)
DispSize(ad) == IF ad.mod = 0 /\ ad.rm = 6 THEN 2 ELSE IF ad.mod = 3 THEN 0 ELSE ad.mod
-----------------------------------------------------------------------------
(* An instruction as the chunks it is laid out in, its bytes not told      *)
(* apart: "bytes" n fixed ones, "addr" [e] and "based" [BX+e] a modrm byte *)
(* and a displacement, the other forms a field with the value of e.  wide  *)
(* tells the 16-bit forms, whose address is relocated, from the 8-bit ones.*)
Forms == {"bytes", "byte", "word", "long", "rel8", "rel16", "far", "addr", "based"}
Chunk == [form : Forms, e : Expr, n : Nat, wide : BOOLEAN]
Part(form, e) == [form |-> form, e |-> e, n |-> 0, wide |-> TRUE]
Fixed(n)      == [form |-> "bytes", e |-> <<>>, n |-> n, wide |-> TRUE]

(* The text of a register operand is a name like any other to get_const.   *)
Text(o) == IF o.kind # "reg" THEN o.e
           ELSE <<[op |-> "+", sym |-> [kind |-> "global", name |-> o.reg, n |-> 0]]>>
Override(o) == o.kind = "mem" /\ o.seg # ""

RmChunk(o, wide) ==
  CASE o.kind = "reg" -> Fixed(1)
    [] o.kind = "mem" /\ Like(o.e, 1) = "" -> [Part("addr", o.e) EXCEPT !.wide = wide]
    [] OTHER -> LET b == Based(o.e)
                IN IF b.disp # <<>> THEN Part("based", b.disp)
                   ELSE Fixed(IF b.rm = 6 THEN 2 ELSE 1)
EntryChunks(entry, params) ==
  LET o == params[entry.a + 1]
  IN CASE entry.cmd \in {"OP", "PLUSREG"} -> <<Fixed(1)>>
       [] entry.cmd = "IMM8"    -> <<Part("byte", Text(o))>>
       [] entry.cmd = "IMM16"   -> <<Part("word", Text(o))>>
       [] entry.cmd = "REL8"    -> <<Part("rel8", Text(o))>>
       [] entry.cmd = "REL16"   -> <<Part("rel16", Text(o))>>
       [] entry.cmd = "FAR_PTR" -> <<Part("far", Text(o))>>
       [] entry.cmd = "RM" -> (IF Override(o) THEN <<Fixed(1)>> ELSE <<>>) \o <<RmChunk(o, entry.wide)>>
RowChunks(row, params) ==
  FlattenSeq([i \in DOMAIN row.ops |-> EntryChunks(row.ops[i], params)])
=============================================================================
