----------------------------- MODULE Statements -----------------------------
(***************************************************************************)
(* A line of a program as split_line (MISC.C) hands it to assemble, and    *)
(* what its shape alone settles: the section a name stands for, the chunks *)
(* it is laid out in.                                                      *)
(***************************************************************************)
EXTENDS Opcodes

Ops == {"", "instr", "db", "dw", "dd", "res", "section", "export", "import",
        "org", "end", "equ", "%define", "%undef"}
(* An instruction: how many bytes LOCK and REP put in front of it, its     *)
(* word, SHORT, NEAR or FAR, its operands.                                 *)
Instruction   == [lead : 0..2, cmd : STRING, dist : {"", "SHORT", "NEAR", "FAR"},
                  params : Seq(Operand)]
NoInstruction == [lead |-> 0, cmd |-> "", dist |-> "", params |-> <<>>]
Item == {c \in Chunk : c.form \in {"bytes", "byte", "word", "long"}}
(* steps: the items of DB, DW and DD; names: what EXPORT, IMPORT, SECTION, *)
(* %define and %undef name; n: the unit of RESB, RESW or RESD.             *)
Statement == [label : Sym, op : Ops, ins : Instruction, steps : Seq(Item), names : Seq(Sym),
              e : Expr, n : Nat]

SectionNamed(n) ==
  CASE n \in {".TEXT", ".CODE", "TEXT", "CODE"} -> "TEXT"
    [] n \in {".DATA", "DATA"} -> "DATA"
    [] n \in {".BSS", "BSS"} -> "BSS"
    [] OTHER -> "unknown"
LabelType(s) == CASE s = "TEXT" -> "LABEL" [] s = "DATA" -> "DATA" [] s = "BSS" -> "BSS"

(* The first row of the table that takes an instruction, if any does.      *)
Taken(ins) ==
  LET lex == lookupLex(ins.cmd)
      row == RowFor(lex, ins.dist, ins.params)
  IN IF row = 0 THEN {} ELSE {RowsOf(lex)[row]}

(* split_line keeps a DD list from being one parameter, so only its first  *)
(* item reaches the command.                                               *)
Items(stmt) ==
  IF stmt.op = "dd" /\ stmt.steps # <<>> THEN <<stmt.steps[1]>> ELSE stmt.steps
(* A value in width bytes.                                                 *)
Cut(v, width) == CASE width = 1 -> v % 256 [] width = 2 -> v % Word [] width = 4 -> v
(* LOCK and REP are emitted before the command is looked up.               *)
Lead(stmt) == IF stmt.ins.lead = 0 THEN <<>> ELSE <<Fixed(stmt.ins.lead)>>
-----------------------------------------------------------------------------
(* What the shape of a program p settles, for the properties to speak of.  *)

(* The lines whose name the .names after them hang under: an EQU without a *)
(* name is one as well, of no name.                                        *)
Anchors(l) == l.label.kind \notin {"none", "local"} \/ (l.op = "equ" /\ l.label.kind = "none")

Numeral(e)  == \A t \in Range(e) : t.sym.kind = "number"
Spelled(s)  == [inv |-> 0, path |-> <<s.name>>]
With(p, op) == {i \in DOMAIN p : p[i].op = op}
(* The qualified names of the lines, NoScope where there is none.          *)
NameLine(st, l) ==
  LET name == IF l.label.kind = "none" THEN NoScope ELSE QName(l.label, st.scope)
  IN [names |-> Append(st.names, name),
      scope |-> IF l.op = "section" THEN NoScope
                ELSE IF Anchors(l) THEN name ELSE st.scope]
NamesOf(p) == FoldLeft(NameLine, [names |-> <<>>, scope |-> NoScope], p).names
(* EQU values, labels, %defines and imports share one table.               *)
DistinctNames(p) ==
  LET names   == NamesOf(p)
      Apart(op) == {Spelled(s) : s \in UNION {Range(p[i].names) : i \in With(p, op)}}
      Defined == {Spelled(p[i].names[1]) : i \in With(p, "%define")}
  IN /\ \A i, j \in DOMAIN names : names[i] = names[j] => i = j \/ names[i] = NoScope
     /\ Range(names) \cap (Apart("%define") \cup Apart("import")) \subseteq {NoScope}
     /\ Defined \cap Apart("import") = {}
(* A size pass 0 already knows: numbers, $, and names of lines before i.   *)
KnownBefore(p, e, i) ==
  \A t \in Range(e) :
    \/ t.sym.kind = "number"
    \/ /\ t.sym.kind = "global"
       /\ t.sym.name = "$" \/ \E j \in 1..i-1 : p[j].label = t.sym
(* A program whose second pass has no reason to differ from the first.     *)
Steady(p) ==
  /\ DistinctNames(p) /\ With(p, "%undef") = {}
  /\ \A i \in With(p, "org") : i = 1 /\ Numeral(p[i].e) /\ p[i].label = NoSym
  /\ \A i \in With(p, "res") : KnownBefore(p, p[i].e, i)
  /\ \A i \in With(p, "instr") :
       \A row \in Taken(p[i].ins) : \A c \in Range(RowChunks(row, p[i].ins.params)) :
         c.form = "based" => KnownBefore(p, c.e, i)
=============================================================================
