--------------------------- MODULE MCPreprocessor ---------------------------
(* A model of Preprocessor for TLC: every program of up to three items in   *)
(* the main file and one of a few included files.  An item is one line, or *)
(* a whole %macro definition.                                              *)
EXTENDS Preprocessor

G(n)  == [kind |-> "global", name |-> n, n |-> 0]
L(n)  == [kind |-> "local",  name |-> n, n |-> 0]
U(n)  == [kind |-> "fresh",  name |-> n, n |-> 0]
P(i)  == [kind |-> "param",  name |-> "", n |-> i]
N(i)  == [kind |-> "number", name |-> "", n |-> i]

Do(op, args)        == [op |-> op, label |-> NoSym, args |-> args]
At(label, op, args) == [op |-> op, label |-> label, args |-> args]
Macro(n, argc, body) ==
  <<Do("%macro", <<G(n), N(argc)>>)>> \o body \o <<Do("%endmacro", <<>>)>>
Item(l) == <<l>>

MCKeywords == {"NOP", "JMP", "SECTION", "END"}

Flat(items) == FoldLeft(LAMBDA a, b : a \o b, <<>>, items)
Programs(mains, incs) ==
  {[f \in {"main", "inc"} |-> IF f = "main" THEN m ELSE i] : m \in mains, i \in incs}
UpTo(S, k) == UNION {{Flat(q) : q \in [1..n -> S]} : n \in 1..k}

Bodies == {
  <<At(U(".x"), "NOP", <<>>), Do("JMP", <<U(".x")>>)>>,
  <<At(L(".x"), "JMP", <<P(1)>>), At(G("h"), "", <<>>), At(L(".x"), "", <<>>)>>,
  <<Do("A", <<>>), Do("NOP", <<>>), Do("A", <<>>)>>,
  <<Do("NOP", <<>>), Do("END", <<>>), Do("NOP", <<>>)>>,
  <<At(L(".x"), "B", <<U(".x")>>), Do("JMP", <<L(".x")>>)>>,
  <<At(L(".x"), "SECTION", <<>>), Do("JMP", <<L(".x")>>)>>,
  <<Do("NOP", <<>>), Do("%include", <<G("inc")>>), Do("JMP", <<L(".x")>>)>> }

Includes == {
  <<>>,
  <<At(G("g"), "NOP", <<>>), At(L(".x"), "NOP", <<>>)>>,
  <<Do("%include", <<G("main")>>), Do("NOP", <<>>)>>,
  <<Do("A", <<>>), Do("END", <<>>), Do("NOP", <<>>)>>,
  Macro("B", 1, <<At(P(1), "NOP", <<>>), Do("A", <<>>)>>) }

Items == {Macro("A", 0, b) : b \in Bodies} \cup {
  Item(Do("A", <<>>)),
  Item(Do("B", <<G("g")>>)),
  Item(At(L(".x"), "JMP", <<L(".x")>>)),
  Item(At(G("f"), "SECTION", <<>>)),
  Item(Do("%include", <<G("inc")>>)) }

Odd == {
  Item(Do("%include", <<>>)),
  Item(Do("%include", <<G("")>>)),
  Item(Do("%include", <<G("none")>>)),
  Item(Do("%endmacro", <<>>)),
  Item(Do("%endmacrox", <<>>)),
  Macro("A", 0, <<Do("NOP", <<>>), Do("%endmacrox", <<>>), Do("JMP", <<L(".x")>>)>>),
  Item(Do("%unknown", <<>>)),
  Item(Do("%undef", <<G("A")>>)),
  Item(Do("%define", <<G("A")>>)),
  Item(Do("%define", <<G("A"), N(1)>>)),
  Item(Do("%macro", <<G("A"), N(7)>>)),
  Item(At(G("A"), "NOP", <<>>)),
  Item(At(G("f"), "A", <<>>)),
  Item(Do("A", <<G("g")>>)),
  Macro("A", 7, <<>>),
  Macro("JMP", 1, <<Do("NOP", <<>>), Do("NOP", <<P(1)>>)>>) }

MCSources ==
  Programs(UpTo(Items, 3), Includes)
    \cup Programs({o \o m : o \in Odd \cup {<<>>}, m \in UpTo(Items, 2)}, {<<>>})
    \cup Programs({m \o o \o n : m, n \in Items, o \in Odd}, {<<>>})
    \cup {[f \in {"other"} |-> <<>>]}
-----------------------------------------------------------------------------
(* The reference: the program as the manual describes it, an included file *)
(* pasted in the place of its %include, a macro's body in the place of its *)
(* call, just after the call's own label.  A file that a body includes is  *)
(* pasted there too (DOC.TXT), or waits until the outermost expansion is   *)
(* over, the file opened last first, as pp_next_line() has it.             *)
Write(l, st) ==
  LET scope == IF l.label.kind \in {"none", "local"} THEN st.scope ELSE RawName(l.label)
  IN  [st EXCEPT
         !.out = Append(@, [op |-> l.op,
                            label |-> IF l.label = NoSym THEN NoScope ELSE QName(l.label, st.scope),
                            args |-> [i \in DOMAIN l.args |-> QName(l.args[i], scope)]]),
         !.scope = IF l.op = "SECTION" THEN NoScope ELSE scope,
         !.ended = l.op = "END"]

RECURSIVE Paste(_, _)
Paste(lines, st) ==
  IF lines = <<>> \/ st.ended THEN st
  ELSE LET l == Head(lines)
           rest == Tail(lines)
       IN  CASE l.op = "%macro" ->
                  LET e == Min({i \in DOMAIN rest : rest[i].op = "%endmacro"})
                  IN  Paste(SubSeq(rest, e + 1, Len(rest)),
                            [st EXCEPT !.macros = (l.args[1].name :> SubSeq(rest, 1, e - 1)) @@ @])
             [] l.op = "%include" /\ st.late /\ st.depth > 0 ->
                  Paste(rest, [st EXCEPT !.waiting = src[l.args[1].name] \o @])
             [] l.op = "%include" -> Paste(rest, Paste(src[l.args[1].name], st))
             [] l.op \in Directives \ {"%macro", "%include"} -> Paste(rest, st)
             [] l.op \in DOMAIN st.macros ->
                  LET at   == IF l.label = NoSym THEN st ELSE Write(LabelLine(l.label), st)
                      id   == at.ids + 1
                      body == st.macros[l.op]
                      end  == Paste([i \in DOMAIN body |-> Substitute(body[i], l.args, id)],
                                    [at EXCEPT !.ids = id, !.depth = @ + 1,
                                               !.scope = MacroScope(id)])
                      over == [end EXCEPT !.scope = at.scope, !.depth = at.depth]
                  IN  IF at.depth > 0 THEN Paste(rest, over)
                      ELSE Paste(end.waiting \o rest, [over EXCEPT !.waiting = <<>>])
             [] OTHER -> Paste(rest, Write(l, st))

Pasted(late) ==
  Paste(src[Main], [out |-> <<>>, macros |-> << >>, scope |-> NoScope, ids |-> 0,
                    depth |-> 0, late |-> late, waiting |-> <<>>, ended |-> FALSE]).out

FirstPassClean == pass = 1 /\ pc = "main" /\ errors = {}

(* After a first pass without errors the assembler has seen the program as *)
(* the manual pastes it together.                                          *)
AsDocumented == FirstPassClean => stream[0] = Pasted(FALSE)

(* A call with a label of its own.                                         *)
LabelledCall(s) == \E l \in LinesOf(s) : l.label # NoSym /\ Calls(s, l)

(* After a first pass without errors, in a program without such a call,    *)
(* the assembler has seen every body and every file in its place, a file   *)
(* that a body includes after the outermost expansion, and every scope     *)
(* back in force at an expansion's end, a SECTION in its body included.    *)
PastedInPlace == LabelledCall(src) \/ (FirstPassClean => stream[0] = Pasted(TRUE))
-----------------------------------------------------------------------------
(* Small sets of programs for the runs that show one behaviour each.       *)
Program(main, inc) == [f \in {"main", "inc"} |-> IF f = "main" THEN main ELSE inc]

(* END in an included file, with a line after it.                          *)
EndInInclude == Programs(UpTo(Items \ {Macro("A", 0, b) : b \in Bodies}, 3),
                         {<<>>, <<Do("NOP", <<>>), Do("END", <<>>), Do("NOP", <<>>)>>})

(* A macro of two lines, called with and without a label of its own.       *)
LabelledCalls ==
  LET def   == Macro("A", 0, <<Do("NOP", <<>>), Do("NOP", <<>>)>>)
      lines == {At(G("f"), "NOP", <<>>), At(L(".x"), "NOP", <<>>), Do("JMP", <<L(".x")>>),
                Do("A", <<>>), At(G("g"), "A", <<>>)}
  IN  {Program(def \o q, <<>>) : q \in UNION {[1..n -> lines] : n \in 1..4}}
=============================================================================
