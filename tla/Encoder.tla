------------------------------ MODULE Encoder -------------------------------
(***************************************************************************)
(* One instruction line on its way through split_line (MISC.C), the match  *)
(* with the instruction table and do_instruction (ASSEMBLR.C), on the last *)
(* pass of an RDOFF2 build: the bytes it adds to outprog and the           *)
(* relocation records.  Assembler has the passes, the sections and the     *)
(* other targets; here an instruction is bytes.                            *)
(*                                                                         *)
(* A line is words - LOCK, REP and the like, the mnemonic, SHORT, NEAR or  *)
(* FAR - and operands.  Prefixed, part of get_address, inserts a segment   *)
(* prefix before bytes already emitted.                                    *)
(***************************************************************************)
EXTENDS Opcodes, Decoder

CONSTANTS
  Lines,       (* the lines, each [words, params]                           *)
  Symbols,     (* the constant table                                        *)
  Before,      (* the bytes outprog already has                             *)
  Stale        (* texts a longer line may have left in the line buffer      *)

SourceLine  == [words : Seq(STRING), params : Seq(Operand)]
PrefixWords == {"LOCK", "REP", "REPE", "REPZ", "REPNE", "REPNZ"}
ASSUME LinesAssumption ==  (* operands follow a mnemonic *)
  \A l \in Lines : /\ l \in SourceLine /\ l.words # <<>>
                   /\ Last(l.words) \in PrefixWords => l.params = <<>>
ASSUME SymbolsAssumption == IsTable(Symbols)
ASSUME BeforeAssumption  == Before \in Seq(0..255)
ASSUME StaleAssumption   == Stale \subseteq SourceLine

VARIABLES
  line,   (* the line                                                       *)
  cur,    (* what split_line made of it: a t_line                           *)
  pc,     (* where assemble is with it                                      *)
  todo,   (* the entries of the row that are left                           *)
  out,    (* outprog up to outptr                                           *)
  old,    (* old_outptr                                                     *)
  relocs, (* the records of the line                                        *)
  said    (* what the line was complained of for                            *)
vars == <<line, cur, pc, todo, out, old, relocs, said>>

Split == [lock : BOOLEAN, rep : {"", "REP", "REPNZ"}, cmd : STRING, dist : STRING,
          params : Seq(Operand)]
-----------------------------------------------------------------------------
(* split_line.                                                             *)

(* What follows LOCK or REP is a blank only if the line goes on.           *)
GoesOn(words) == Len(words) > 1 \/ line.params # <<>>
Locked        == Head(line.words) = "LOCK" /\ GoesOn(line.words)
AfterLock     == IF Locked THEN Tail(line.words) ELSE line.words
Rep(words) ==
  CASE words = <<>> -> ""
    [] words # <<>> /\ Head(words) \in {"REPNZ", "REPNE"} -> "REPNZ"
    [] words # <<>> /\ Head(words) \in {"REP", "REPZ", "REPE"} /\ GoesOn(words) -> "REP"
    [] OTHER -> ""
Cut(words, params, lock, rep) ==
  [lock |-> lock, rep |-> rep, cmd |-> IF words = <<>> THEN "" ELSE Head(words),
   dist |-> IF Len(words) > 1 /\ words[2] \in {"SHORT", "NEAR", "FAR"} THEN words[2] ELSE "",
   params |-> params]

SplitLine ==
  /\ pc = "split"
  /\ LET rep == Rep(AfterLock)
         ws  == IF rep = "" THEN AfterLock ELSE Tail(AfterLock)
     IN (* REPNZ alone: six characters on is past the end of the line.      *)
        IF rep = "REPNZ" /\ ~GoesOn(AfterLock)
        THEN \E s \in Stale : cur' = Cut(s.words, s.params, Locked, rep)
        ELSE cur' = Cut(ws, line.params, Locked, rep)
  /\ pc' = "prefix"
  /\ UNCHANGED <<line, todo, out, old, relocs, said>>

(* Defect: REP before LOCK's byte, and one of them lost.                   *)
EmitOnePrefix ==
  /\ pc = "prefix"
  /\ out' = out \o (CASE cur.rep = "REP" -> <<243>> [] cur.rep = "REPNZ" -> <<242>>
                      [] OTHER -> IF cur.lock THEN <<240>> ELSE <<>>)
  /\ pc' = IF cur.cmd = "" THEN "done" ELSE "match"
  /\ UNCHANGED <<line, cur, todo, old, relocs, said>>

EmitPrefixes ==
  /\ pc = "prefix"
  /\ out' = out \o (IF cur.lock THEN <<240>> ELSE <<>>)
                \o (CASE cur.rep = "REP" -> <<243>> [] cur.rep = "REPNZ" -> <<242>>
                      [] OTHER -> <<>>)
  /\ pc' = IF cur.cmd = "" THEN "done" ELSE "match"
  /\ UNCHANGED <<line, cur, todo, old, relocs, said>>

(* An unknown command ends the pass, one no row takes only the line.       *)
lex == lookupLex(cur.cmd)
NoMatch ==
  /\ pc = "match" /\ RowFor(lex, cur.dist, cur.params) = 0
  /\ said' = said \cup {"syntax"} /\ pc' = "done"
  /\ UNCHANGED <<line, cur, todo, out, old, relocs>>
TakeRow ==
  /\ pc = "match" /\ RowFor(lex, cur.dist, cur.params) # 0
  /\ todo' = RowsOf(lex)[RowFor(lex, cur.dist, cur.params)].ops
  /\ old' = Len(out) /\ pc' = "emit"
  /\ UNCHANGED <<line, cur, out, relocs, said>>
-----------------------------------------------------------------------------
(* do_instruction, an entry of the row at a time.                          *)

Entry1     == Head(todo)
Doing(cmd) == pc = "emit" /\ todo # <<>> /\ Entry1.cmd = cmd /\ todo' = Tail(todo)
Param(k)   == cur.params[k + 1]
Here       == Len(out)
Operand1   == Text(Param(Entry1.a))
Lookup     == GetConst(Symbols, NoScope, Operand1)
Ref        == Referent(Symbols, NoScope, Operand1)
IsRef      == SingleRef(Symbols, NoScope, Operand1)
ToImport   == IsRef /\ Ref.type = "IMPORT"

(* Defect: a byte is not cut to eight bits.                                *)
LowUncut(v, size) == IF size = 1 THEN <<v>> ELSE <<v % 256, v \div 256>>

Low(v, size) == IF size = 0 THEN <<>>
                ELSE IF size = 1 THEN <<v % 256>> ELSE <<v % 256, (v \div 256) % 256>>
Reloc(ofs, rel, para) ==
  [ofs |-> ofs, width |-> 2, seg |-> ReferentSeg(Ref), rel |-> rel, para |-> para]
Put(bytes)  == out' = out \o bytes
Same0       == UNCHANGED <<line, cur, pc, old>>

EmitOp ==
  /\ Doing("OP") /\ Put(<<Entry1.n>>)
  /\ Same0 /\ UNCHANGED <<relocs, said>>
EmitPlusReg ==
  /\ Doing("PLUSREG") /\ Put(<<Entry1.n + Number(Type(Param(Entry1.a)), Entry1.regs)>>)
  /\ Same0 /\ UNCHANGED <<relocs, said>>
EmitImm8 ==
  /\ Doing("IMM8") /\ Put(Low(Lookup.value, 1)) /\ said' = said \cup Lookup.said
  /\ Same0 /\ UNCHANGED relocs
EmitImm16 ==
  /\ Doing("IMM16") /\ ~SegRef(Symbols, Operand1)
  /\ relocs' = relocs \cup (IF IsRef THEN {Reloc(Here, FALSE, FALSE)} ELSE {})
  /\ Put(Low(Lookup.value, 2)) /\ said' = said \cup Lookup.said
  /\ Same0
EmitSeg ==
  /\ Doing("IMM16") /\ SegRef(Symbols, Operand1)
  /\ LET c == Symbols[SegName(Operand1)]
     IN relocs' = relocs \cup {[ofs |-> Here, width |-> 2, seg |-> ReferentSeg(c),
                                rel |-> FALSE, para |-> TRUE]}
  /\ Put(<<0, 0>>) /\ UNCHANGED said /\ Same0

EmitRel8 ==
  /\ Doing("REL8") /\ ~ToImport
  /\ LET disp == Lookup.value - (Here + 1)
     IN /\ Put(Low(disp, 1))
        /\ said' = said \cup Lookup.said \cup (IF disp \in -128..127 THEN {} ELSE {"range"})
  /\ Same0 /\ UNCHANGED relocs
ShortToImport ==
  /\ Doing("REL8") /\ ToImport
  /\ Put(<<0>>) /\ said' = said \cup {"short"}
  /\ Same0 /\ UNCHANGED relocs
EmitRel16 ==
  /\ Doing("REL16") /\ ~ToImport
  /\ Put(Low(Lookup.value - (Here + 2), 2)) /\ said' = said \cup Lookup.said
  /\ Same0 /\ UNCHANGED relocs
NearToImport ==
  /\ Doing("REL16") /\ ToImport
  /\ relocs' = relocs \cup {Reloc(Here, TRUE, FALSE)}
  /\ Put(Low(-(Here + 2), 2)) /\ UNCHANGED said /\ Same0

EmitFar ==
  /\ Doing("FAR_PTR") /\ IsRef
  /\ relocs' = relocs \cup {Reloc(Here, FALSE, FALSE), Reloc(Here + 2, FALSE, TRUE)}
  /\ Put(<<0, 0, 0, 0>>) /\ UNCHANGED said /\ Same0
FarRejected ==
  /\ Doing("FAR_PTR") /\ ~IsRef
  /\ Put(<<0, 0, 0, 0>>) /\ said' = said \cup {"far"}
  /\ Same0 /\ UNCHANGED relocs

(* get_address puts a segment prefix where the instruction began, and the  *)
(* four bytes from there one further.                                      *)
SegPrefix == [ES |-> 38, CS |-> 46, SS |-> 54, DS |-> 62]
Prefixed(o) ==
  LET b == IF o.seg \in DOMAIN SegPrefix THEN SegPrefix[o.seg] ELSE 144
  IN IF ~Override(o) THEN out
     ELSE [k \in 1..Len(out) + 1 |-> IF k = old + 1 THEN b
                                     ELSE IF k \in old + 2..old + 5 THEN out[k - 1] ELSE out[k]]

(* do_rm_op.                                                               *)
RegField(e) ==
  IF e.n >= 0 THEN e.n
  ELSE IF Type(Param(e.r)) \in Range(e.regs) THEN Number(Type(Param(e.r)), e.regs) ELSE 0
RegWrong(e) == e.n < 0 /\ Type(Param(e.r)) \notin Range(e.regs)

(* Defect: the record is placed before the prefix moves the operand.       *)
EmitRmRelocFirst ==
  /\ Doing("RM") /\ Entry1.a < Len(cur.params)
  /\ LET o     == Param(Entry1.a)
         ad    == Address(Symbols, NoScope, o)
         disp  == GetConst(Symbols, NoScope, ad.disp)
     IN /\ out' = Prefixed(o) \o <<ad.mod * 64 + RegField(Entry1) * 8 + ad.rm>>
                              \o Low(disp.value, DispSize(ad))
        /\ relocs' = relocs \cup
             (IF Entry1.wide /\ ad.src # <<>> /\ SingleRef(Symbols, NoScope, ad.src)
              THEN {Reloc(Here + 1, FALSE, FALSE)} ELSE {})
        /\ said' = said \cup disp.said \cup (IF RegWrong(Entry1) THEN {"reg"} ELSE {})
             \cup (IF Override(o) /\ o.seg \notin DOMAIN SegPrefix THEN {"segment"} ELSE {})
  /\ Same0

EmitRm ==
  /\ Doing("RM") /\ Entry1.a < Len(cur.params)
  /\ LET o     == Param(Entry1.a)
         ad    == Address(Symbols, NoScope, o)
         disp  == GetConst(Symbols, NoScope, ad.disp)
         start == Prefixed(o)
     IN /\ out' = start \o <<ad.mod * 64 + RegField(Entry1) * 8 + ad.rm>>
                        \o Low(disp.value, DispSize(ad))
        /\ relocs' = relocs \cup
             (IF Entry1.wide /\ ad.src # <<>> /\ SingleRef(Symbols, NoScope, ad.src)
              THEN {Reloc(Len(start) + 1, FALSE, FALSE)} ELSE {})
        /\ said' = said \cup disp.said \cup (IF RegWrong(Entry1) THEN {"reg"} ELSE {})
             \cup (IF Override(o) /\ o.seg \notin DOMAIN SegPrefix THEN {"segment"} ELSE {})
  /\ Same0
(* param[2] is past the end of the array: what is there is no string.      *)
Crash ==
  /\ pc = "emit" /\ todo # <<>> /\ Entry1.cmd = "RM" /\ Entry1.a >= Len(cur.params)
  /\ pc' = "crash"
  /\ UNCHANGED <<line, cur, todo, out, old, relocs, said>>

Finish ==
  /\ pc = "emit" /\ todo = <<>> /\ pc' = "done"
  /\ UNCHANGED <<line, cur, todo, out, old, relocs, said>>
-----------------------------------------------------------------------------
Init ==
  /\ line \in Lines /\ cur = Cut(<<>>, <<>>, FALSE, "")
  /\ pc = "split" /\ todo = <<>> /\ out = Before /\ old = Len(Before)
  /\ relocs = {} /\ said = {}

Emit == EmitOp \/ EmitPlusReg \/ EmitImm8 \/ EmitImm16 \/ EmitSeg \/ EmitRel8 \/ ShortToImport
          \/ EmitRel16 \/ NearToImport \/ EmitFar \/ FarRejected \/ EmitRm \/ Crash \/ Finish
Next == SplitLine \/ EmitPrefixes \/ NoMatch \/ TakeRow \/ Emit

Spec     == Init /\ [][Next]_vars
-----------------------------------------------------------------------------
(* What the line says, read without the table or get_address.              *)

Written      == SelectSeq(line.words, LAMBDA w : w \notin PrefixWords)
WrittenFar   == Len(Written) > 1 /\ Written[2] = "FAR"
WrittenOp    == IF Written = <<>> THEN "none"
                ELSE Canonical(Head(Written)) \o (IF WrittenFar THEN "F" ELSE "")
WrittenPrefixes ==
  {Canonical(w) : w \in Range(line.words) \cap PrefixWords}
    \cup {o.seg : o \in {p \in Range(line.params) : Override(p)}}
IsBase(t)    == t.op = "+" /\ t.sym.kind = "global" /\ t.sym.name \in {"BX", "BP", "SI", "DI"}
Registers(o) == {t.sym.name : t \in {x \in Range(o.e) : IsBase(x)}}
Offset(o)    == Value(Symbols, NoScope, SelectSeq(o.e, LAMBDA t : ~IsBase(t)))

(* The decoded operand a is the written operand o.                         *)
Means(a, o) ==
  CASE o.kind = "reg" -> a.kind = "reg" /\ a.regs = {o.reg}
    [] o.kind = "mem" -> /\ a.kind = "mem" /\ a.regs = Registers(o) /\ a.n = Offset(o) % 65536
                         /\ a.width = IF o.size = "BYTE" THEN 1 ELSE 2
    [] o.kind = "imm" /\ a.kind = "imm" ->
         a.n = IF SegRef(Symbols, o.e) THEN 0
               ELSE Value(Symbols, NoScope, o.e) % (IF a.width = 1 THEN 256 ELSE 65536)
    [] o.kind = "imm" /\ a.kind # "imm" ->
         \/ a.kind = "rel" /\ a.n = Value(Symbols, NoScope, o.e) % 65536
         \/ a.kind = "far" /\ a.n = 0 /\ SingleRef(Symbols, NoScope, o.e)
Means1(a, n) == a.kind = "imm" /\ a.n = n

(* The operands the line leaves unwritten, and those that may change place.*)
SameArgs(args, ps) ==
  /\ Len(args) = Len(ps) /\ \A k \in DOMAIN ps : Means(args[k], ps[k])
InOrder(d) == IF Head(Written) \in {"XCHG", "TEST"} /\ ~SameArgs(d.args, line.params)
              THEN Reverse(d.args) ELSE d.args
Operands(d) ==
  CASE Head(Written) \in ByOne ->
         SameArgs(Front(d.args), line.params) /\ Means1(Last(d.args), 1)
    [] Head(Written) \in {"AAM", "AAD"} /\ line.params = <<>> ->
         Len(d.args) = 1 /\ Means1(d.args[1], 10)
    [] OTHER -> SameArgs(InOrder(d), line.params)
(* XCHG AX, AX is NOP.                                                     *)
IsNop == Written = <<"XCHG">> /\ \A o \in Range(line.params) : o.reg = "AX"

Emitted == SubSeq(out, Len(Before) + 1, Len(out))
Decoded == Decode(Emitted, Len(Before))
AsWritten ==
  /\ Before \o Emitted = out /\ Decoded.size = Len(Emitted)
  /\ Decoded.prefixes = WrittenPrefixes
  /\ \/ Written = <<>> /\ Decoded.op = "none"
     \/ IsNop /\ Decoded.op = "NOP"
     \/ Written # <<>> /\ Decoded.op = WrittenOp /\ Operands(Decoded)
Accepted == pc = "done" /\ said = {}

(* The lines the code is known to get wrong: rows with another             *)
(* instruction's opcode; a name that begins like a register in brackets; a *)
(* displacement below -128 given one byte; REPNZ alone, which reads what   *)
(* an earlier line left.                                                   *)
WrongRows == [OR |-> { <<"AL", "IMM">>, <<"AX", "IMM">> }, PUSH |-> { <<"IMM">> }, ADD |-> { <<>> }]
WrongRow ==
  /\ Written # <<>> /\ Head(Written) \in DOMAIN WrongRows
  /\ [k \in DOMAIN line.params |-> Type(line.params[k])] \in WrongRows[Head(Written)]
InBrackets == {o \in Range(line.params) : o.kind = "mem"}
TakenForRegister ==
  \E o \in InBrackets : \E t \in Range(o.e) :
    t.sym.kind = "global" /\ t.sym.name \in DOMAIN RegLike /\ RegLike[t.sym.name] # t.sym.name
FarBelow   == \E o \in InBrackets : Registers(o) # {} /\ Offset(o) < -128
RepnzAlone == Last(line.words) \in {"REPNE", "REPNZ"} /\ line.params = <<>>
KnownWrong == WrongRow \/ TakenForRegister \/ FarBelow \/ RepnzAlone
-----------------------------------------------------------------------------
(* The variables are of their types.                                       *)
TypeOK ==
  /\ line \in SourceLine /\ cur \in Split /\ pc \in {"split", "prefix", "match", "emit", "done", "crash"}
  /\ out \in Seq(0..255) /\ old \in 0..Len(out)
  /\ said \subseteq {"syntax", "undefined", "deep", "parent", "zero", "range", "short", "far",
                     "reg", "segment"}

(* A line taken without a complaint becomes the instruction it says: the   *)
(* processor reads the bytes as that mnemonic, with those prefixes and     *)
(* those operands, and reads all of them, after bytes left as they were.   *)
(* It relates the lexicon, the table, match_params, get_address,           *)
(* build_address and the order do_instruction emits in.                    *)
DecodesBack == Accepted /\ ~KnownWrong => AsWritten

(* The same without exceptions: MSA2 "targets the Intel 8086 instruction   *)
(* set" (DOC.TXT:28).                                                      *)
EncodesAsWritten == Accepted => AsWritten

(* A relocation record lies on the operand that names the symbol, where    *)
(* the processor finds it after every prefix and opcode byte, and every    *)
(* operand that names one symbol and has a word to be patched has its      *)
(* record.  The byte forms, and NEG and NOT of words, have none.           *)
Unrelocated(a) == a.width = 1 \/ WrittenOp \in {"NEG", "NOT"}
Wanted(a, o) ==
  LET at == Len(Before) + a.at - 1
      R(ofs, c, rel, para) ==
        [ofs |-> ofs, width |-> 2, seg |-> ReferentSeg(c), rel |-> rel, para |-> para]
  IN IF o.kind = "imm" /\ a.kind = "imm" /\ a.size = 2 /\ SegRef(Symbols, o.e)
     THEN {R(at, Symbols[SegName(o.e)], FALSE, TRUE)}
     ELSE IF ~SingleRef(Symbols, NoScope, o.e) THEN {}
     ELSE LET c == Referent(Symbols, NoScope, o.e) IN
       CASE a.kind = "imm" /\ a.size = 2 -> {R(at, c, FALSE, FALSE)}
         [] a.kind = "mem" /\ a.size = 2 /\ ~Unrelocated(a) -> {R(at, c, FALSE, FALSE)}
         [] a.kind = "rel" /\ c.type = "IMPORT" -> {R(at, c, TRUE, FALSE)}
         [] a.kind = "far" -> {R(at, c, FALSE, FALSE), R(at + 2, c, FALSE, TRUE)}
         [] OTHER -> {}
RelocsOnOperand ==
  Accepted /\ ~KnownWrong /\ Len(Decoded.args) = Len(line.params)
    => relocs = UNION {Wanted(InOrder(Decoded)[k], line.params[k]) : k \in DOMAIN line.params}

(* The chunks Assembler lays the instruction out in are as long as its     *)
(* bytes: where do_instruction leaves outptr (ASSEMBLR.C:312).             *)
ChunkSize(c) ==
  CASE c.form = "bytes" -> c.n
    [] c.form \in {"byte", "rel8"} -> 1
    [] c.form \in {"word", "rel16"} -> 2
    [] c.form = "far" -> 4
    [] c.form = "addr" -> 3
    [] c.form = "based" -> IF Value(Symbols, NoScope, c.e) < 128 THEN 2 ELSE 3
Longer(n, c)  == n + ChunkSize(c)
Size(chunks)  == FoldLeft(Longer, 0, chunks)
ChunksMeasure ==
  pc = "done" /\ RowFor(lex, cur.dist, cur.params) # 0 =>
    LET chunks == RowChunks(RowsOf(lex)[RowFor(lex, cur.dist, cur.params)], cur.params)
    IN Len(out) - old = Size(chunks)

(* Of all rows only those of SAL with a count lead past the operands.      *)
OnlySalCrashes == pc = "crash" => cur.cmd = "SAL"
=============================================================================
