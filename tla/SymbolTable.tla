---------------------------- MODULE SymbolTable ----------------------------
(***************************************************************************)
(* The constant table of EXPR.C: labels, EQU values, imports, %define      *)
(* bodies and %macro bodies share one linked list keyed by name.  A table  *)
(* is a function from the names present to their entries; the order of the *)
(* list (newest first) is abstracted, and so is the 16-bit hash that only  *)
(* speeds the string comparison up.                                        *)
(*                                                                         *)
(* Source text is abstracted to symbols and lines:                         *)
(*   a symbol  is an operand or label as it is written;                    *)
(*   a line    is a command or directive with its label and its operands.  *)
(***************************************************************************)
EXTENDS Integers, Sequences

(* How an operand or a label is written: "global" NAME, "local" .NAME,     *)
(* "fresh" %%NAME in a macro body, "unique" @@n.NAME (a substituted %%NAME),*)
(* "param" %n, "number" n, "none" for an absent label or empty text.       *)
SymKinds == {"none", "global", "local", "fresh", "unique", "param", "number"}
(* The provers do not know that a string literal is a string.              *)
ASSUME NoTextAssumption == "" \in STRING

Sym   == [kind : SymKinds, name : STRING, n : Nat]
NoSym == [kind |-> "none", name |-> "", n |-> 0]

(* MACRO_END_SENTINEL is a reserved text: no line of a program spells it.  *)
SentinelText == "%%MACRO_END%%"
Line == [op : STRING \ {SentinelText}, label : Sym, args : Seq(Sym)]

(* A qualified name, the key of the table.  inv is the id of the macro     *)
(* expansion whose @@<id> prefix the name carries, 0 for none; path is the *)
(* rest of the name, one element a dotted part.                            *)
Name    == [inv : Nat, path : Seq(STRING)]
NoScope == [inv |-> 0, path |-> <<>>]

ConstTypes == {"EXPR", "LABEL", "DATA", "BSS", "IMPORT", "DEFINE", "MACRO"}
Sections   == {"TEXT", "DATA", "BSS"}

(* The payload a t_constant's extra pointer leads to: nothing, the body    *)
(* text of a %define, or a t_macrobody.                                    *)
Extra   == [tag : {"none", "text", "macro"}, argc : Nat, lines : Seq(Line), text : Sym]
NoExtra == [tag |-> "none", argc |-> 0, lines |-> <<>>, text |-> NoSym]
DefineBody(s)      == [NoExtra EXCEPT !.tag = "text", !.text = s]
MacroBody(n, body) == [NoExtra EXCEPT !.tag = "macro", !.argc = n, !.lines = body]

Entry == [type : ConstTypes, value : Int, section : Sections,
          export : BOOLEAN, extra : Extra]
Fresh == [type |-> "EXPR", value |-> 0, section |-> "TEXT",
          export |-> FALSE, extra |-> NoExtra]

IsTable(t) ==
  /\ t = [n \in DOMAIN t |-> t[n]]
  /\ \A n \in DOMAIN t : n \in Name /\ t[n] \in Entry
EmptyTable == [n \in {} |-> Fresh]

(* qualify_label: a local name hangs under the scope in force.             *)
QName(s, scope) ==
  IF s.kind = "local"
  THEN [scope EXCEPT !.path = Append(@, s.name)]
  ELSE [inv  |-> IF s.kind = "unique" THEN s.n ELSE 0, path |-> <<s.name>>]

HasType(tab, name, types) == name \in DOMAIN tab /\ tab[name].type \in types

(* add_const: an existing entry keeps its export flag, section and extra.  *)
AddConst(tab, name, type, value) ==
  [n \in DOMAIN tab \cup {name} |->
     IF n # name THEN tab[n]
     ELSE [(IF name \in DOMAIN tab THEN tab[name] ELSE Fresh)
             EXCEPT !.type = type, !.value = value]]

(* add_const's "Constant %s changed" message, a warning of level 2.        *)
ConstChanged(tab, name, type, value, pass) ==
  /\ name \in DOMAIN tab
  /\ tab[name].value # value
  /\ \/ pass = 0 /\ type = "LABEL"
     \/ pass > 0 /\ type = "EXPR"

SetExtra(tab, name, x)   == [tab EXCEPT ![name].extra = x]
SetSection(tab, name, s) == [tab EXCEPT ![name].section = s]

RemoveConst(tab, name) == [n \in DOMAIN tab \ {name} |-> tab[n]]
=============================================================================
