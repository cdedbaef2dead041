---------------------------- MODULE Expressions -----------------------------
(***************************************************************************)
(* The expression evaluator of MISC.C and the symbol references of         *)
(* ASSEMBLR.C: what an operand is worth with the symbols known, and which  *)
(* operands the linker has to finish.                                      *)
(*                                                                         *)
(* An expression is a sequence of terms, each an operation and what it is  *)
(* applied to; they are applied from left to right, as get_const does.     *)
(* Overflow of the 32 bits of a value is left out.                         *)
(***************************************************************************)
EXTENDS SymbolTable, SequencesExt

CONSTANTS
  SegOf,            (* the names spelled SEG<name>, each with that <name>   *)
  GetConstMaxDepth  (* GET_CONST_MAX_DEPTH                                  *)
ASSUME DepthAssumption == GetConstMaxDepth \in Nat

(* The provers do not know that a string literal is a string.              *)
ASSUME DollarAssumption == "$" \in STRING /\ "$$" \in STRING

Word   == 65536                           (* the 16 bits of an offset *)
Dollar == [inv |-> 0, path |-> <<"$">>]   (* the constants $ and $$     *)
Origin == [inv |-> 0, path |-> <<"$$">>]

Linkable == {"LABEL", "DATA", "BSS", "IMPORT"}

Operations == {"+", "-", "*", "/", "%"}
Term == [op : Operations, sym : Sym]
Expr == Seq(Term)

NoParent(s, sc) == s.kind = "local" /\ sc = NoScope

(* What get_const reads for symbol s inside d %defines, body being what    *)
(* the text of a %define is worth: one is evaluated where it is used, up   *)
(* to GET_CONST_MAX_DEPTH of them inside one another.                      *)
Say(v, said) == [value |-> v, said |-> said]
SymRead(tab, sc, d, s, body) ==
  LET name   == QName(s, sc)
      orphan == IF NoParent(s, sc) THEN {"parent"} ELSE {}
      what   == IF s.kind = "number" THEN "number"
                ELSE IF name \notin DOMAIN tab THEN "unknown" ELSE tab[name].type
  IN CASE what = "number"  -> Say(s.n, {})
       [] what = "unknown" -> Say(0, orphan \cup {"undefined"})
       [] what = "IMPORT"  -> Say(0, orphan)
       [] what = "DEFINE"  -> IF d = GetConstMaxDepth THEN Say(0, orphan \cup {"deep"})
                              ELSE Say(body.value, orphan \cup body.said)
       [] OTHER -> Say(tab[name].value, orphan)
Read(tab, sc, sym) ==
  LET read[d \in 0..GetConstMaxDepth] ==
        [s \in Sym |-> SymRead(tab, sc, d, s, read[d + 1][tab[QName(s, sc)].extra.text])]
  IN read[0][sym]

(* C divides towards zero.                                                 *)
Abs(x)     == IF x < 0 THEN -x ELSE x
Quot(v, x) == IF (v < 0) = (x < 0) THEN Abs(v) \div Abs(x) ELSE -(Abs(v) \div Abs(x))
Apply(op, v, x) ==
  CASE op = "+" -> v + x
    [] op = "-" -> v - x
    [] op = "*" -> v * x
    [] op = "/" -> Quot(v, x)
    [] op = "%" -> v - x * Quot(v, x)

(* get_const, one term on: what is divided by zero stays as it is; an      *)
(* unknown name ends the evaluation there, with the value 0.               *)
Unknown(tab, sc, t) == t.sym.kind # "number" /\ QName(t.sym, sc) \notin DOMAIN tab
TermRead(tab, sc, st, t) ==
  LET x == Read(tab, sc, t.sym)
  IN CASE st.ended -> st
       [] ~st.ended /\ Unknown(tab, sc, t) ->
            [value |-> 0, said |-> st.said \cup x.said, ended |-> TRUE]
       [] ~st.ended /\ ~Unknown(tab, sc, t) /\ t.op \in {"/", "%"} /\ x.value = 0 ->
            [st EXCEPT !.said = @ \cup x.said \cup {"zero"}]
       [] OTHER -> [st EXCEPT !.value = Apply(t.op, @, x.value),
                              !.said = @ \cup x.said]
Unread == [value |-> 0, said |-> {}, ended |-> FALSE]
GetConst(tab, sc, e) ==
  LET Step(st, t) == TermRead(tab, sc, st, t) IN FoldLeft(Step, Unread, e)
Value(tab, sc, e) == GetConst(tab, sc, e).value

IsName(e) == Len(e) = 1 /\ e[1].op = "+" /\ e[1].sym.kind \notin {"number", "none"}

(* single_symbol_ref: e is one symbol and the linker can place it.         *)
SingleRef(tab, sc, e) == IsName(e) /\ HasType(tab, QName(e[1].sym, sc), Linkable)
Referent(tab, sc, e)  == tab[QName(e[1].sym, sc)]

(* is_seg_of_form and seg_of_symbol look at the spelling only.             *)
IsSegForm(e) ==
  /\ e # <<>> /\ e[1].op = "+"
  /\ e[1].sym.kind = "global" /\ e[1].sym.name \in DOMAIN SegOf
SegName(e)   == [inv |-> 0, path |-> <<SegOf[e[1].sym.name]>>]
SegRef(tab, e) == IsSegForm(e) /\ IsName(e) /\ HasType(tab, SegName(e), Linkable)

SectionId(s)   == CASE s = "TEXT" -> 0 [] s = "DATA" -> 1 [] s = "BSS" -> 2
ReferentSeg(c) == IF c.type = "IMPORT" THEN c.value ELSE SectionId(c.section)
=============================================================================
