------------------------------ MODULE Decoder -------------------------------
(***************************************************************************)
(* What an 8086 takes bytes for, with the 186's additions the documentation*)
(* names: the reference the instruction table is checked against.  Written *)
(* from the processor's opcode map, not from the assembler.                *)
(***************************************************************************)
EXTENDS Integers, Sequences, TLC

R8 == <<"AL", "CL", "DL", "BL", "AH", "CH", "DH", "BH">>
R16 == <<"AX", "CX", "DX", "BX", "SP", "BP", "SI", "DI">>
SR == <<"ES", "CS", "SS", "DS">>
Bases == << {"BX", "SI"}, {"BX", "DI"}, {"BP", "SI"}, {"BP", "DI"},
            {"SI"}, {"DI"}, {"BP"}, {"BX"} >>
PrefixName == 38 :> "ES" @@ 46 :> "CS" @@ 54 :> "SS" @@ 62 :> "DS" @@
              240 :> "LOCK" @@ 242 :> "REPNZ" @@ 243 :> "REP"

(* Operand codes: E and G the modrm byte's rm and reg, I an immediate, S   *)
(* one that is sign-extended, J a displacement, A a far pointer, O an      *)
(* offset, b of a byte and w of a word; M memory only, Sw a segment        *)
(* register; any other code is a register.                                 *)
Ins(op, codes) == [op |-> op, codes |-> codes]
Alu    == <<"ADD", "OR", "ADC", "SBB", "AND", "SUB", "XOR", "CMP">>
AluForms == << <<"Eb", "Gb">>, <<"Ew", "Gw">>, <<"Gb", "Eb">>, <<"Gw", "Ew">>,
               <<"AL", "Ib">>, <<"AX", "Iw">> >>
Conditions == <<"JO", "JNO", "JB", "JAE", "JE", "JNE", "JBE", "JA",
                "JS", "JNS", "JP", "JNP", "JL", "JGE", "JLE", "JG">>
Shift  == <<"ROL", "ROR", "RCL", "RCR", "SHL", "SHR", "SAL2", "SAR">>
Unary  == <<"TEST", "TEST2", "NOT", "NEG", "MUL", "IMUL", "DIV", "IDIV">>
Group5 == <<"INC", "DEC", "CALL", "CALLF", "JMP", "JMPF", "PUSH", "none">>
Single ==
  39 :> "DAA" @@ 47 :> "DAS" @@ 55 :> "AAA" @@ 63 :> "AAS" @@ 96 :> "PUSHA" @@ 97 :> "POPA" @@
  108 :> "INSB" @@ 109 :> "INSW" @@ 110 :> "OUTSB" @@ 111 :> "OUTSW" @@ 144 :> "NOP" @@
  152 :> "CBW" @@ 153 :> "CWD" @@ 155 :> "WAIT" @@ 156 :> "PUSHF" @@ 157 :> "POPF" @@
  158 :> "SAHF" @@ 159 :> "LAHF" @@ 164 :> "MOVSB" @@ 165 :> "MOVSW" @@ 166 :> "CMPSB" @@
  167 :> "CMPSW" @@ 170 :> "STOSB" @@ 171 :> "STOSW" @@ 172 :> "LODSB" @@ 173 :> "LODSW" @@
  174 :> "SCASB" @@ 175 :> "SCASW" @@ 195 :> "RET" @@ 201 :> "LEAVE" @@ 203 :> "RETF" @@
  204 :> "INT3" @@ 206 :> "INTO" @@ 207 :> "IRET" @@ 214 :> "SALC" @@ 215 :> "XLATB" @@
  244 :> "HLT" @@ 245 :> "CMC" @@ 248 :> "CLC" @@ 249 :> "STC" @@ 250 :> "CLI" @@
  251 :> "STI" @@ 252 :> "CLD" @@ 253 :> "STD"
Special ==
  98 :> Ins("BOUND", <<"Gw", "Mw">>) @@ 104 :> Ins("PUSH", <<"Iw">>) @@
  106 :> Ins("PUSH", <<"Sb">>) @@ 132 :> Ins("TEST", <<"Eb", "Gb">>) @@
  133 :> Ins("TEST", <<"Ew", "Gw">>) @@ 134 :> Ins("XCHG", <<"Eb", "Gb">>) @@
  135 :> Ins("XCHG", <<"Ew", "Gw">>) @@ 136 :> Ins("MOV", <<"Eb", "Gb">>) @@
  137 :> Ins("MOV", <<"Ew", "Gw">>) @@ 138 :> Ins("MOV", <<"Gb", "Eb">>) @@
  139 :> Ins("MOV", <<"Gw", "Ew">>) @@ 140 :> Ins("MOV", <<"Ew", "Sw">>) @@
  141 :> Ins("LEA", <<"Gw", "Mw">>) @@ 142 :> Ins("MOV", <<"Sw", "Ew">>) @@
  143 :> Ins("POP", <<"Ew">>) @@ 154 :> Ins("CALLF", <<"Ap">>) @@
  160 :> Ins("MOV", <<"AL", "Ob">>) @@ 161 :> Ins("MOV", <<"AX", "Ow">>) @@
  162 :> Ins("MOV", <<"Ob", "AL">>) @@ 163 :> Ins("MOV", <<"Ow", "AX">>) @@
  168 :> Ins("TEST", <<"AL", "Ib">>) @@ 169 :> Ins("TEST", <<"AX", "Iw">>) @@
  194 :> Ins("RET", <<"Iw">>) @@ 196 :> Ins("LES", <<"Gw", "Mw">>) @@
  197 :> Ins("LDS", <<"Gw", "Mw">>) @@ 198 :> Ins("MOV", <<"Eb", "Ib">>) @@
  199 :> Ins("MOV", <<"Ew", "Iw">>) @@ 200 :> Ins("ENTER", <<"Iw", "Ib">>) @@
  202 :> Ins("RETF", <<"Iw">>) @@ 205 :> Ins("INT", <<"Ib">>) @@
  212 :> Ins("AAM", <<"Ib">>) @@ 213 :> Ins("AAD", <<"Ib">>) @@
  224 :> Ins("LOOPNE", <<"Jb">>) @@ 225 :> Ins("LOOPE", <<"Jb">>) @@
  226 :> Ins("LOOP", <<"Jb">>) @@ 227 :> Ins("JCXZ", <<"Jb">>) @@
  228 :> Ins("IN", <<"AL", "Ib">>) @@ 229 :> Ins("IN", <<"AX", "Ib">>) @@
  230 :> Ins("OUT", <<"Ib", "AL">>) @@ 231 :> Ins("OUT", <<"Ib", "AX">>) @@
  232 :> Ins("CALL", <<"Jw">>) @@ 233 :> Ins("JMP", <<"Jw">>) @@
  234 :> Ins("JMPF", <<"Ap">>) @@ 235 :> Ins("JMP", <<"Jb">>) @@
  236 :> Ins("IN", <<"AL", "DX">>) @@ 237 :> Ins("IN", <<"AX", "DX">>) @@
  238 :> Ins("OUT", <<"DX", "AL">>) @@ 239 :> Ins("OUT", <<"DX", "AX">>)

(* The instruction that starts with byte o; m is the byte after it.        *)
Opcode(o, m) ==
  LET reg == ((m \div 8) % 8) + 1
      Wide(bw) == IF o % 2 = 0 THEN <<"Eb">> ELSE <<"Ew">>
  IN CASE o < 64 /\ o % 8 < 6 -> Ins(Alu[(o \div 8) + 1], AluForms[(o % 8) + 1])
       [] o \in {6, 14, 22, 30} -> Ins("PUSH", <<SR[(o \div 8) + 1]>>)
       [] o \in {7, 23, 31}     -> Ins("POP", <<SR[(o \div 8) + 1]>>)
       [] o \in 64..71   -> Ins("INC", <<R16[o - 63]>>)
       [] o \in 72..79   -> Ins("DEC", <<R16[o - 71]>>)
       [] o \in 80..87   -> Ins("PUSH", <<R16[o - 79]>>)
       [] o \in 88..95   -> Ins("POP", <<R16[o - 87]>>)
       [] o \in 112..127 -> Ins(Conditions[o - 111], <<"Jb">>)
       [] o \in {128, 129, 131} -> Ins(Alu[reg], CASE o = 128 -> <<"Eb", "Ib">>
                                                   [] o = 129 -> <<"Ew", "Iw">>
                                                   [] o = 131 -> <<"Ew", "Sb">>)
       [] o \in 145..151 -> Ins("XCHG", <<"AX", R16[o - 143]>>)
       [] o \in 176..183 -> Ins("MOV", <<R8[o - 175], "Ib">>)
       [] o \in 184..191 -> Ins("MOV", <<R16[o - 183], "Iw">>)
       [] o \in {192, 193} -> Ins(Shift[reg], Wide(o) \o <<"Ib">>)
       [] o \in {208, 209} -> Ins(Shift[reg], Wide(o) \o <<"1">>)
       [] o \in {210, 211} -> Ins(Shift[reg], Wide(o) \o <<"CL">>)
       [] o \in {246, 247} -> Ins(Unary[reg], Wide(o) \o (IF reg > 1 THEN <<>>
                                              ELSE IF o = 246 THEN <<"Ib">> ELSE <<"Iw">>))
       [] o \in {254, 255} -> Ins(Group5[reg], Wide(o))
       [] o = 15 /\ m = 6 -> Ins("CLTS", <<>>)
       [] o \in DOMAIN Single  -> Ins(Single[o], <<>>)
       [] o \in DOMAIN Special -> Special[o]
       [] OTHER -> Ins("none", <<>>)
(* The names an instruction also goes by.                                  *)
Synonyms == [HALT |-> "HLT", JC |-> "JB", JNAE |-> "JB", JNB |-> "JAE", JNC |-> "JAE",
             JNA |-> "JBE", JNBE |-> "JA", JZ |-> "JE", JNZ |-> "JNE", JPE |-> "JP", JPO |-> "JNP",
             JNGE |-> "JL", JNL |-> "JGE", JNG |-> "JLE", JNLE |-> "JG", LOOPZ |-> "LOOPE",
             LOPOPE |-> "LOOPE", LOOPNZ |-> "LOOPNE", RETN |-> "RET", SAL |-> "SHL", RCL1 |-> "RCL",
             RCR1 |-> "RCR", ROL1 |-> "ROL", ROR1 |-> "ROR", SAL1 |-> "SHL", SAR1 |-> "SAR",
             SHL1 |-> "SHL", SHR1 |-> "SHR", REPE |-> "REP", REPZ |-> "REP", REPNE |-> "REPNZ"]
Canonical(w) == IF w \in DOMAIN Synonyms THEN Synonyms[w] ELSE w
ByOne == {"RCL1", "RCR1", "ROL1", "ROR1", "SAL1", "SAR1", "SHL1", "SHR1"}
-----------------------------------------------------------------------------
PrefixCount(b) ==  (* how many bytes in front are prefixes *)
  CHOOSE n \in 0..Len(b) : /\ \A i \in 1..n : b[i] \in DOMAIN PrefixName
                           /\ n = Len(b) \/ b[n + 1] \notin DOMAIN PrefixName
Byte(b, i)   == IF i \in 1..Len(b) THEN b[i] ELSE 0
Word2(b, i)  == Byte(b, i) + 256 * Byte(b, i + 1)
Extended(b, i) == (IF Byte(b, i) < 128 THEN Byte(b, i) ELSE Byte(b, i) - 256) % 65536

(* An operand: a register; memory, its registers and the displacement n; a *)
(* number n; a place n; a far pointer.  at and size say which bytes hold n.*)
Arg(kind, regs, n, width, at, size) ==
  [kind |-> kind, regs |-> regs, n |-> n, width |-> width, at |-> at, size |-> size]

UsesModrm(codes) == \E i \in 1..Len(codes) :
                      codes[i] \in {"Eb", "Ew", "Gb", "Gw", "Sw", "Mw"}
ModrmSize(m) ==
  LET mod == m \div 64 IN
  IF mod = 3 THEN 1 ELSE IF mod = 0 /\ m % 8 = 6 THEN 3 ELSE mod + 1
FieldSize(code) ==
  CASE code \in {"Ib", "Sb", "Jb"} -> 1
    [] code \in {"Iw", "Jw", "Ob", "Ow"} -> 2
    [] code = "Ap" -> 4
    [] OTHER -> 0

(* The operand at modrm byte i, width bytes wide.                          *)
Memory(b, i, width) ==
  LET m == Byte(b, i) mod == m \div 64 rm == m % 8 size == ModrmSize(m) - 1
      disp == CASE size = 0 -> 0 [] size = 1 -> Extended(b, i + 1) [] size = 2 -> Word2(b, i + 1)
  IN IF mod = 3 THEN Arg("reg", {IF width = 1 THEN R8[rm + 1] ELSE R16[rm + 1]}, 0, 0, 0, 0)
     ELSE Arg("mem", IF mod = 0 /\ rm = 6 THEN {} ELSE Bases[rm + 1], disp, width, i + 1, size)

(* The bytes b as an instruction of a machine that has them at offset ofs. *)
Decode(b, ofs) ==
  LET n     == PrefixCount(b)
      o     == n + 1
      ins   == IF n = Len(b) THEN Ins("none", <<>>) ELSE Opcode(b[o], Byte(b, o + 1))
      reg   == ((Byte(b, o + 1) \div 8) % 8) + 1
      first == o + 1 + (IF UsesModrm(ins.codes) THEN ModrmSize(Byte(b, o + 1))
                        ELSE IF ins.op = "CLTS" THEN 1 ELSE 0)
      at[k \in 1..Len(ins.codes) + 1] ==  (* where the k-th operand's field is *)
        IF k = 1 THEN first ELSE at[k - 1] + FieldSize(ins.codes[k - 1])
      end   == IF n = Len(b) THEN n ELSE at[Len(ins.codes) + 1] - 1
      Read1(k) ==
        LET c == ins.codes[k] i == at[k] IN
        CASE c = "Eb" -> Memory(b, o + 1, 1)
          [] c \in {"Ew", "Mw"} -> Memory(b, o + 1, 2)
          [] c = "Gb" -> Arg("reg", {R8[reg]}, 0, 0, 0, 0)
          [] c = "Gw" -> Arg("reg", {R16[reg]}, 0, 0, 0, 0)
          [] c = "Sw" -> Arg("reg", {SR[((reg - 1) % 4) + 1]}, 0, 0, 0, 0)
          [] c = "Ib" -> Arg("imm", {}, Byte(b, i), 1, i, 1)
          [] c = "Sb" -> Arg("imm", {}, Extended(b, i), 2, i, 1)
          [] c = "Iw" -> Arg("imm", {}, Word2(b, i), 2, i, 2)
          [] c = "1"  -> Arg("imm", {}, 1, 1, 0, 0)
          [] c = "Jb" -> Arg("rel", {}, (ofs + i + Extended(b, i)) % 65536, 2, i, 1)
          [] c = "Jw" -> Arg("rel", {}, (ofs + i + 1 + Word2(b, i)) % 65536, 2, i, 2)
          [] c = "Ap" -> Arg("far", {}, Word2(b, i), 2, i, 4)
          [] c \in {"Ob", "Ow"} -> Arg("mem", {}, Word2(b, i), IF c = "Ob" THEN 1 ELSE 2, i, 2)
          [] OTHER -> Arg("reg", {c}, 0, 0, 0, 0)
  IN [prefixes |-> {PrefixName[b[i]] : i \in 1..n}, op |-> ins.op, size |-> end,
      args |-> [k \in 1..Len(ins.codes) |-> Read1(k)]]
=============================================================================
