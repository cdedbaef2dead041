-------------------------- MODULE TwoPasses_proofs --------------------------
(***************************************************************************)
(* Proofs that the two passes do what one pass would that knew every       *)
(* symbol from the start: pass 1 finds the table as it leaves it.          *)
(***************************************************************************)
EXTENDS TwoPasses, Passes_proofs

(* What pass 1 may still do to the table: move $ and mark an export.       *)
SameBut(t1, t2) ==
  /\ DOMAIN t2 = DOMAIN t1
  /\ \A n \in DOMAIN t1 :
       /\ t2[n].type = t1[n].type /\ t2[n].section = t1[n].section /\ t2[n].extra = t1[n].extra
       /\ n # Dollar => t2[n].value = t1[n].value

LEMMA SameItself == \A t : SameBut(t, t)
  BY DEF SameBut

LEMMA SameOnAndOn ==
  ASSUME NEW t1, NEW t2, NEW t3, SameBut(t1, t2), SameBut(t2, t3)
  PROVE  SameBut(t1, t3)
  BY DEF SameBut

(* To give a constant the type and value it has is to leave it.            *)
LEMMA AddsNothing ==
  ASSUME NEW tab, IsTable(tab), NEW n \in DOMAIN tab
  PROVE  /\ AddConst(tab, n, tab[n].type, tab[n].value) = tab
         /\ SetSection(tab, n, tab[n].section) = tab
  <1>1. tab = [m \in DOMAIN tab |-> tab[m]] /\ tab[n] \in Entry
    BY DEF IsTable
  <1>2. [tab[n] EXCEPT !.type = tab[n].type, !.value = tab[n].value] = tab[n]
        /\ [tab[n] EXCEPT !.section = tab[n].section] = tab[n]
    BY <1>1 DEF Entry
  <1>3. DOMAIN tab \cup {n} = DOMAIN tab
    OBVIOUS
  <1>4. AddConst(tab, n, tab[n].type, tab[n].value) = tab
    BY <1>1, <1>2, <1>3 DEF AddConst
  <1>5. SetSection(tab, n, tab[n].section) = tab
    BY <1>1, <1>2 DEF SetSection
  <1>6. QED
    BY <1>4, <1>5

LEMMA DollarMoves ==
  ASSUME NEW tab, IsTable(tab), Dollar \in DOMAIN tab, NEW v \in Int
  PROVE  LET new == [tab EXCEPT ![Dollar].value = v]
         IN /\ IsTable(new) /\ SameBut(tab, new) /\ new[Dollar].value = v
            /\ \A n \in DOMAIN tab \ {Dollar} : new[n] = tab[n]
  <1> DEFINE e == [tab[Dollar] EXCEPT !.value = v]
             new == [tab EXCEPT ![Dollar].value = v]
  <1>1. tab[Dollar] \in Entry /\ tab = [n \in DOMAIN tab |-> tab[n]] /\ \A n \in DOMAIN tab : n \in Name /\ tab[n] \in Entry
    BY DEF IsTable
  <1>2. /\ e \in Entry /\ e.type = tab[Dollar].type /\ e.section = tab[Dollar].section
        /\ e.extra = tab[Dollar].extra /\ e.value = v
    BY <1>1 DEF Entry
  <1>3. new = [tab EXCEPT ![Dollar] = e]
    OBVIOUS
  <1> HIDE DEF e, new
  <1>4. DOMAIN new = DOMAIN tab /\ new[Dollar] = e /\ \A n \in DOMAIN tab \ {Dollar} : new[n] = tab[n]
    BY <1>3
  <1>5. new = [n \in DOMAIN new |-> new[n]]
    BY <1>3
  <1>6. IsTable(new)
    BY <1>1, <1>2, <1>4, <1>5 DEF IsTable
  <1>7. SameBut(tab, new)
    BY <1>2, <1>4 DEF SameBut
  <1>8. QED
    BY <1>2, <1>4, <1>6, <1>7 DEF new

LEMMA MarkMoves ==
  ASSUME NEW tab, IsTable(tab), NEW n \in DOMAIN tab
  PROVE  SameBut(tab, [tab EXCEPT ![n].export = TRUE])
  <1> DEFINE e == [tab[n] EXCEPT !.export = TRUE]
             new == [tab EXCEPT ![n].export = TRUE]
  <1>1. tab[n] \in Entry
    BY DEF IsTable
  <1>2. e.type = tab[n].type /\ e.section = tab[n].section /\ e.extra = tab[n].extra /\ e.value = tab[n].value
    BY <1>1 DEF Entry
  <1>3. new = [tab EXCEPT ![n] = e]
    OBVIOUS
  <1> HIDE DEF e, new
  <1>4. DOMAIN new = DOMAIN tab /\ new[n] = e /\ \A m \in DOMAIN tab \ {n} : new[m] = tab[m]
    BY <1>3
  <1>5. SameBut(tab, new)
    BY <1>2, <1>4 DEF SameBut
  <1>6. QED
    BY <1>5 DEF new

(* The table has the line at hand as it is: its label where it begins, its *)
(* EQU, its imports; an ORG has been obeyed.                               *)
HasLine ==
  /\ HasLabel => /\ LineName \in DOMAIN consts /\ consts[LineName].type = LabelType(section)
                 /\ consts[LineName].value = Here /\ consts[LineName].section = section
  /\ Stmt.op = "equ" => LineName \in DOMAIN consts /\ consts[LineName].type = "EXPR"
  /\ Stmt.op = "import" /\ target = "rdf" =>
       \A n : Listed(Stmt.names, n) => n \in DOMAIN consts
  /\ Stmt.op = "org" /\ ~isOrgDef =>
       consts[Origin].value = Value(LineConsts, LineScope, Stmt.e) % Word

(* The table a line is read with is then the table with $ moved.           *)
LEMMA LineConstsIs ==
  ASSUME TypeInv, pc = "line", at <= Len(prog), HasLine
  PROVE  LineConsts = [consts EXCEPT ![Dollar].value = Here]
  <1> DEFINE tab == [consts EXCEPT ![Dollar].value = Here]
             n == LineName
  <1>1. IsTable(consts) /\ Dollar \in DOMAIN consts /\ Here \in Int
    BY DEF TypeInv, TableInv, LayoutInv, Here
  <1>2. IsTable(tab) /\ DOMAIN tab = DOMAIN consts /\ \A m \in DOMAIN consts \ {Dollar} : tab[m] = consts[m]
    <2> PICK h : h = Here
      OBVIOUS
    <2>1. h \in Int
      BY <1>1
    <2>2. IsTable([consts EXCEPT ![Dollar].value = h])
          /\ \A m \in DOMAIN consts \ {Dollar} : [consts EXCEPT ![Dollar].value = h][m] = consts[m]
      BY <1>1, <2>1, DollarMoves
    <2>3. QED
      BY <2>2
  <1>3. CASE ~HasLabel
    BY <1>3 DEF LineConsts
  <1>4. CASE HasLabel
    <2>1. n \in DOMAIN tab /\ tab[n].type = LabelType(section) /\ tab[n].value = Here /\ tab[n].section = section
      <3>1. n # Dollar
        BY <1>4, LineNameApart DEF HasLabel
      <3> HIDE DEF tab, n
      <3>2. n \in DOMAIN consts /\ consts[n].type = LabelType(section) /\ consts[n].value = Here /\ consts[n].section = section
        BY <1>4 DEF HasLine, n
      <3>3. QED
        BY <1>2, <3>1, <3>2
    <2>2. LineConsts = SetSection(AddConst(tab, n, LabelType(section), Here), n, section)
      BY <1>4 DEF LineConsts
    <2> HIDE DEF tab, n
    <2>3. AddConst(tab, n, tab[n].type, tab[n].value) = tab /\ SetSection(tab, n, tab[n].section) = tab
      BY <1>2, <2>1, AddsNothing
    <2>4. LineConsts = tab
      BY <2>1, <2>2, <2>3
    <2>5. QED
      BY <2>4 DEF tab
  <1>5. QED
    BY <1>3, <1>4

LEMMA LineKeepsTable ==
  ASSUME TypeInv, LineStep, ~Undef, at <= Len(prog), pass > 0, HasLine, "changed" \notin warnings'
  PROVE  SameBut(consts, consts') /\ (Stmt.op \notin {"%define", "export"} => consts' = LineConsts)
  <1>p. at \in DOMAIN prog /\ pc = "line"
    <2>1. pc = "line"
      BY LineWays
    <2>2. QED
      BY <2>1, LineTypes DEF TypeInv, PlaceInv
  <1>x. ~Exhausted
    <2>1. at \in Nat /\ Len(prog) \in Nat
      BY ProgramsAssumption DEF ProgramsAssumption, TypeInv, PlaceInv
    <2>2. QED
      BY <2>1 DEF Exhausted
  <1> PICK tab : tab = LineConsts
    OBVIOUS
  <1>1. /\ IsTable(consts) /\ Dollar \in DOMAIN consts /\ Here \in Int
        /\ tab = [consts EXCEPT ![Dollar].value = Here]
    BY <1>p, LineConstsIs DEF TypeInv, TableInv, LayoutInv, Here
  <1>2. /\ IsTable(tab) /\ SameBut(consts, tab) /\ DOMAIN tab = DOMAIN consts
        /\ \A n \in DOMAIN consts \ {Dollar} : tab[n] = consts[n]
    <2> PICK h : h = Here
      OBVIOUS
    <2> DEFINE new == [consts EXCEPT ![Dollar].value = h]
    <2>1. h \in Int /\ tab = new
      BY <1>1
    <2>2. IsTable(new) /\ SameBut(consts, new) /\ \A n \in DOMAIN consts \ {Dollar} : new[n] = consts[n]
      BY <1>1, <2>1, DollarMoves
    <2>3. DOMAIN new = DOMAIN consts
      OBVIOUS
    <2>4. QED
      BY <2>1, <2>2, <2>3
  <1>3. CASE LabelAlone \/ List \/ Instr \/ NoRow \/ OutsideText \/ Reserve \/ SectionDirective \/ OrgRefused
             \/ End \/ SyntaxError
    <2>1. consts' = tab
      BY <1>3 DEF LabelAlone, List, Instr, NoRow, OutsideText, Reserve, SectionDirective, OrgRefused, End,
                  SyntaxError, Starts, OnLine
    <2>2. QED
      BY <1>2, <2>1
  <1>4. CASE Export
    <2> DEFINE name == [inv |-> 0, path |-> <<Stmt.names[1].name>>]
    <2>1. /\ Stmt.op = "export"
          /\ consts' = tab \/ (name \in DOMAIN tab /\ consts' = [tab EXCEPT ![name].export = TRUE])
      BY <1>4 DEF Export, OnLine
    <2> HIDE DEF name
    <2>2. SameBut(tab, consts')
      BY <1>2, <2>1, MarkMoves, SameItself
    <2>3. QED
      BY <1>2, <2>1, <2>2, SameOnAndOn
  <1>5. CASE Import
    <2>1. Stmt.op = "import" /\ IsTable(consts')
      <3>1. TypeInv'
        BY TypeLine
      <3>2. QED
        BY <1>5, <3>1 DEF Import, OnLine, TypeInv, TableInv
    <2>2. CASE target # "rdf"
      <3>1. consts' = tab
        BY <1>5, <2>2, ImportEffect
      <3>2. QED
        BY <1>2, <3>1
    <2>3. CASE target = "rdf"
      <3>1. PICK to \in ImportStates : Adds(LineState, to) /\ consts' = to.tab
        BY <1>5, <2>3, ImportEffect
      <3>2. LineState.tab = tab
        BY DEF LineState
      <3> PICK st : st = LineState
        OBVIOUS
      <3>3. /\ \A n \in DOMAIN tab : n \in DOMAIN consts' /\ consts'[n] = tab[n]
            /\ \A n \in DOMAIN consts' \ DOMAIN tab : consts'[n].type = "IMPORT"
        BY <3>1, <3>2 DEF Adds
      <3>4. ASSUME NEW n \in DOMAIN consts', n \notin DOMAIN tab PROVE FALSE
        <4>1. IsImport(n)'
          BY <3>3, <3>4 DEF IsImport
        <4>2. ~IsImport(n) /\ ~Listed(Stmt.names, n)
          BY <1>2, <2>1, <2>3, <3>4 DEF IsImport, HasLine
        <4>3. QED
          BY <4>1, <4>2, LineImports
      <3>5. DOMAIN consts' = DOMAIN tab
        BY <3>3, <3>4
      <3>6. consts' = tab
        BY <1>2, <2>1, <3>3, <3>5 DEF IsTable
      <3>7. QED
        BY <1>2, <3>6
    <2>4. QED
      BY <2>2, <2>3
  <1>6. CASE OrgDirective
    <2> DEFINE v == Value(LineConsts, LineScope, Stmt.e) % Word
    <2>1. Stmt.op = "org" /\ ~isOrgDef /\ consts' = [tab EXCEPT ![Origin].value = v]
      BY <1>6 DEF OrgDirective, OnLine
    <2>2. consts[Origin].value = v
      BY <2>1 DEF HasLine
    <2> HIDE DEF v
    <2>3. Origin \in DOMAIN tab /\ tab[Origin].value = v
      <3>1. Origin # Dollar
        <4>1. Dollar.path[1] = "$" /\ Origin.path[1] = "$$"
          BY DEF Dollar, Origin
        <4>2. QED
          BY <4>1
      <3>2. Origin \in DOMAIN consts
        BY <1>p DEF TypeInv, TableInv
      <3>3. QED
        BY <1>2, <2>2, <3>1, <3>2
    <2>4. tab[Origin] \in Entry /\ tab = [n \in DOMAIN tab |-> tab[n]]
      BY <1>2, <2>3 DEF IsTable
    <2>5. [tab[Origin] EXCEPT !.value = v] = tab[Origin]
      BY <2>3, <2>4 DEF Entry
    <2> PICK e : e = tab[Origin]
      OBVIOUS
    <2>6. consts' = [tab EXCEPT ![Origin] = e]
      BY <2>1, <2>5
    <2>7. consts' = tab
      BY <2>4, <2>6
    <2>8. QED
      BY <1>2, <2>7
  <1>7. CASE Equ
    <2> DEFINE v == Value(LineConsts, scope, Stmt.e)
               name == LineName
    <2>1. /\ Stmt.op = "equ" /\ consts' = AddConst(tab, name, "EXPR", v)
          /\ ConstChanged(tab, name, "EXPR", v, pass) => "changed" \in warnings'
      <3>1. Stmt.op = "equ" /\ consts' = AddConst(tab, name, "EXPR", v)
        BY <1>7 DEF Equ, OnLine
      <3>2. ASSUME ConstChanged(tab, name, "EXPR", v, pass) PROVE "changed" \in warnings'
        <4>1. PICK said : Report(said) /\ "changed" \in said
          BY <1>7, <3>2 DEF Equ
        <4>2. "changed" \in WarningKinds
          BY DEF WarningKinds
        <4>3. QED
          BY <4>1, <4>2 DEF Report
      <3>3. QED
        BY <3>1, <3>2
    <2>2. name \in DOMAIN consts /\ consts[name].type = "EXPR"
      BY <2>1 DEF HasLine
    <2> HIDE DEF v, name
    <2>3. name \in DOMAIN tab /\ tab[name].type = "EXPR"
      BY <1>2, <2>2 DEF SameBut
    <2>4. tab[name].value = v
      BY <2>1, <2>3 DEF ConstChanged
    <2>5. AddConst(tab, name, tab[name].type, tab[name].value) = tab
      BY <1>2, <2>3, AddsNothing
    <2>6. consts' = tab
      BY <2>1, <2>3, <2>4, <2>5
    <2>7. QED
      BY <1>2, <2>6
  <1>8. CASE Define
    <2>1. Stmt.op = "%define" /\ consts' = consts
      BY <1>8 DEF Define, OnLine
    <2>2. QED
      BY <2>1, SameItself
  <1>9. QED
    BY <1>x, <1>3, <1>4, <1>5, <1>6, <1>7, <1>8 DEF LineStep

-----------------------------------------------------------------------------
(* What a line leaves of the sections, of an EQU without a name and of $$, *)
(* which is the origin.                                                    *)
LEMMA Unspelled ==
  NoScope # Dollar /\ NoScope # Origin /\ \A s \in Sym : Spelled(s) # NoScope
  <1>1. \A a : Len(<<a>>) = 1 /\ Len(<<>>) = 0
    OBVIOUS
  <1>2. \A a : NoScope # [inv |-> 0, path |-> <<a>>]
    <2>1. SUFFICES ASSUME NEW a, NoScope = [inv |-> 0, path |-> <<a>>] PROVE FALSE
      OBVIOUS
    <2>2. NoScope.path = <<a>> /\ NoScope.path = <<>>
      BY <2>1 DEF NoScope
    <2>3. QED
      BY <1>1, <2>2
  <1>3. QED
    BY <1>2 DEF Dollar, Origin, Spelled

LEMMA LineRest ==
  ASSUME TypeInv, Steady(prog), LineStep, at <= Len(prog)
  PROVE  /\ \A n \in DOMAIN consts :
              n \in DOMAIN consts' /\ (~HasLabel \/ n # LineName => consts'[n].section = consts[n].section)
         /\ HasLabel => consts'[LineName].section = section
         /\ HasType(consts, NoScope, {"EXPR"}) \/ (Stmt.op = "equ" /\ Stmt.label.kind = "none") =>
              HasType(consts', NoScope, {"EXPR"})
         /\ ~OrgDirective => org' = org /\ Stays(consts, consts', Origin)
         /\ OrgDirective => /\ Origin \in DOMAIN consts' /\ consts'[Origin].value = org'
                            /\ org' = Value(LineConsts, LineScope, Stmt.e) % Word
         /\ Stmt.op = "org" /\ ~isOrgDef => OrgDirective
  <1>1. pc = "line" /\ at \in DOMAIN prog /\ Stmt = prog[at] /\ prog \in Programs /\ Stmt \in Statement
    <2>1. pc = "line"
      BY LineWays
    <2>2. QED
      BY <2>1, LineTypes DEF TypeInv, PlaceInv, Stmt
  <1>2. ~Undef /\ (Stmt.op = "%define" => ~HasLabel)
    <2>1. Stmt.op # "%undef" /\ (Stmt.op = "%define" => Stmt.label = NoSym)
      BY <1>1, SteadyLine, ProgramsAssumption DEF ProgramsAssumption
    <2>2. NoSym.kind = "none"
      BY DEF NoSym
    <2>3. QED
      BY <2>1, <2>2 DEF Undef, OnLine, HasLabel
  <1>x. ~Exhausted
    <2>1. at \in Nat /\ Len(prog) \in Nat
      BY ProgramsAssumption DEF ProgramsAssumption, TypeInv, PlaceInv
    <2>2. QED
      BY <2>1 DEF Exhausted
  <1>3. Stmt.op = "%define" => Spelled(Stmt.names[1]) # Origin /\ Spelled(Stmt.names[1]) # NoScope
    <2> SUFFICES ASSUME Stmt.op = "%define"
                 PROVE  Spelled(Stmt.names[1]) # Origin /\ Spelled(Stmt.names[1]) # NoScope
      OBVIOUS
    <2>1. Len(Stmt.names) = 2 /\ \A k \in DOMAIN Stmt.names : Stmt.names[k].name \notin {"$", "$$"}
      BY <1>1, LineTypes DEF TypeInv, PlaceInv
    <2>2. Stmt.names \in Seq(Sym)
      BY <1>1 DEF Statement
    <2>3. Stmt.names[1] \in Sym /\ Stmt.names[1].name \notin {"$", "$$"}
      BY <2>1, <2>2
    <2>4. QED
      BY <2>3, SymTypes, Unspelled DEF Spelled
  <1> PICK tab : tab = LineConsts
    OBVIOUS
  <1> PICK name : name = LineName
    OBVIOUS
  <1>4. /\ \A n \in DOMAIN consts \ {Dollar, name} : n \in DOMAIN tab /\ tab[n] = consts[n]
        /\ ~HasLabel => \A n \in DOMAIN consts \ {Dollar} : n \in DOMAIN tab /\ tab[n] = consts[n]
        /\ \A n \in DOMAIN consts : n \in DOMAIN tab
        /\ \A n \in DOMAIN consts : ~HasLabel \/ n # name => tab[n].section = consts[n].section
        /\ HasLabel => name \in DOMAIN tab /\ tab[name].section = section
    BY <1>1, LineDefines, LineSections
  <1>5. Stmt.label.kind # "none" => name # Origin /\ name # NoScope
    BY <1>1, LineNameApart
  <1>6. Stmt.label.kind = "none" => name = NoScope /\ ~HasLabel
    BY DEF LineName, HasLabel
  <1>7. \A n \in DOMAIN consts :
          n \in DOMAIN consts' /\ (~HasLabel \/ n # name => consts'[n].section = consts[n].section)
    <2>1. CASE Stmt.op = "%define"
      <3>1. \A n : Marked(consts, consts', n)
        BY <1>2, <2>1, LineMarks
      <3>2. QED
        BY <3>1 DEF Marked
    <2>2. CASE Stmt.op # "%define"
      <3>1. \A n : Marked(tab, consts', n)
        BY <1>2, <2>2, LineMarks
      <3>2. QED
        BY <1>4, <3>1 DEF Marked
    <2>3. QED
      BY <2>1, <2>2
  <1>8. HasLabel => consts'[name].section = section
    <2> SUFFICES ASSUME HasLabel PROVE consts'[name].section = section
      OBVIOUS
    <2>1. \A n : Marked(tab, consts', n)
      BY <1>2, LineMarks
    <2>2. QED
      BY <1>4, <2>1 DEF Marked
  <1>9. ASSUME NEW n \in {NoScope, Origin}, n # Origin \/ ~OrgDirective, Stmt.op # "equ" \/ n # name
        PROVE  Stays(consts, consts', n)
    <2>1. n # Dollar
      <3>1. Dollar.path[1] = "$" /\ Origin.path[1] = "$$"
        BY DEF Dollar, Origin
      <3>2. QED
        BY <3>1, Unspelled
    <2>2. CASE Stmt.op = "%define"
      <3>1. n # Spelled(Stmt.names[1])
        BY <1>3, <2>2
      <3>2. QED
        BY <1>2, <2>2, <3>1, LineLeaves
    <2>3. CASE Stmt.op # "%define"
      <3>1. Stays(tab, consts', n)
        BY <1>2, <1>9, <2>3, LineLeaves
      <3>2. n \in DOMAIN consts => n \in DOMAIN tab /\ tab[n] = consts[n]
        BY <1>4, <1>5, <1>6, <2>1
      <3>3. QED
        BY <3>1, <3>2 DEF Stays
    <2>4. QED
      BY <2>2, <2>3
  <1>10. HasType(consts, NoScope, {"EXPR"}) \/ (Stmt.op = "equ" /\ Stmt.label.kind = "none") =>
           HasType(consts', NoScope, {"EXPR"})
    <2>1. CASE Stmt.op = "equ" /\ name = NoScope
      BY <1>2, <2>1, LineLeaves DEF HasType
    <2>2. CASE Stmt.op # "equ" \/ name # NoScope
      <3>1. Stays(consts, consts', NoScope)
        BY <1>9, <2>2, Unspelled
      <3>2. ~(Stmt.op = "equ" /\ Stmt.label.kind = "none")
        BY <1>6, <2>2
      <3>3. QED
        BY <3>1, <3>2 DEF HasType, Stays
    <2>3. QED
      BY <2>1, <2>2
  <1>11. ~OrgDirective => org' = org
    BY <1>2, <1>x DEF LineStep, LabelAlone, List, Instr, NoRow, OutsideText, Reserve, SectionDirective, Export, Import,
       OrgRefused, End, Equ, SyntaxError, Define, Starts, Directive, layout
  <1>12. ~OrgDirective => Stays(consts, consts', Origin)
    <2>1. Stmt.op # "equ" \/ Origin # name
      BY <1>5, <1>6, Unspelled
    <2>2. QED
      BY <1>9, <2>1
  <1>13. OrgDirective => /\ Origin \in DOMAIN consts' /\ consts'[Origin].value = org'
                         /\ org' = Value(LineConsts, LineScope, Stmt.e) % Word
    <2> SUFFICES ASSUME OrgDirective
                 PROVE  /\ Origin \in DOMAIN consts' /\ consts'[Origin].value = org'
                        /\ org' = Value(LineConsts, LineScope, Stmt.e) % Word
      OBVIOUS
    <2> PICK v : v = Value(LineConsts, LineScope, Stmt.e) % Word
      OBVIOUS
    <2>1. org' = v /\ consts' = [tab EXCEPT ![Origin].value = v]
      BY DEF OrgDirective
    <2>2. Origin \in DOMAIN tab /\ IsTable(tab)
      <3>1. Origin \in DOMAIN consts
        BY <1>1 DEF TypeInv, TableInv
      <3>2. IsTable(LineConsts)
        BY <1>1, LineTable DEF GoodTable
      <3>3. QED
        BY <1>4, <3>1, <3>2
    <2>3. tab[Origin] \in Entry
      BY <2>2 DEF IsTable
    <2>4. [tab[Origin] EXCEPT !.value = v].value = v
      BY <2>3 DEF Entry
    <2>5. consts'[Origin].value = v /\ Origin \in DOMAIN consts'
      BY <2>1, <2>2, <2>4
    <2>6. QED
      BY <2>1, <2>5
  <1>14. Stmt.op = "org" /\ ~isOrgDef => OrgDirective
    BY <1>x DEF LineStep, LabelAlone, List, Instr, NoRow, OutsideText, Reserve, SectionDirective, Export, Import,
       OrgRefused, End, Equ, SyntaxError, Define, Undef, OnLine
  <1>15. QED
    BY <1>7, <1>8, <1>10, <1>11, <1>12, <1>13, <1>14

-----------------------------------------------------------------------------
(* Pass 1 goes over the lines pass 0 has found: its line at hand is one of *)
(* them, and begins as it did there.                                       *)
InPass0 ==
  /\ at \in DOMAIN trace'[0] /\ BeginAlike(at, NewLine, trace'[0][at])
  /\ \A j \in DOMAIN trace'[0] :
       /\ j \in DOMAIN prog /\ trace'[0][j].name = NamesOf(prog)[j]
       /\ j # at \/ pass = 1 => j \in DOMAIN trace[0] /\ trace'[0][j] = trace[0][j]

LEMMA LineFound ==
  ASSUME TypeInv, ReachInv, PassesInv, ChainedInv, LineInv, DollarInv, Steady(prog), LineStep, at <= Len(prog),
         pass > 0 => "changed" \notin warnings'
  PROVE  InPass0
  <1>1. /\ pc = "line" /\ at \in DOMAIN prog /\ prog \in Programs /\ 0..Passes-1 = {0, 1} /\ pass \in {0, 1}
        /\ DOMAIN trace = {0, 1} /\ \A p \in {0, 1} : trace[p] \in Seq(TraceLine)
        /\ Stmt = prog[at]
    <2>1. pc = "line"
      BY LineWays
    <2>2. 0..2-1 = {0, 1} /\ 0..2 = {0, 1, 2}
      OBVIOUS
    <2>3. pass \in {0, 1}
      BY <2>1, <2>2 DEF TypeInv, PlaceInv, Passes, Assembling
    <2>4. QED
      BY <2>1, <2>2, <2>3, LineTypes DEF TypeInv, PlaceInv, RecordInv, Passes, Stmt
  <1>2. /\ NewLine \in TraceLine /\ Joins(consts, trace[pass], at, NewLine) /\ Len(trace[pass]) = at - 1
        /\ Chain(consts', trace'[0])
    BY <1>1, LineChains
  <1>3. UNCHANGED <<prog, pass, target, isOrgDef>> /\ trace' = [trace EXCEPT ![pass] = Append(trace[pass], NewLine)]
    BY <1>2, LineGoes
  <1> PICK nl : nl = NewLine
    OBVIOUS
  <1>4. nl.ptrs = <<ptr>> /\ Len(nl.ptrs) = 1 /\ Labelled(at, nl)
    <2>1. NewLine.ptrs = <<ptr>> /\ Labelled(at, NewLine)
      BY <1>1 DEF NewLine, Labelled, LineName
    <2>2. QED
      BY <2>1
  <1> PICK q : q = trace[pass]
    OBVIOUS
  <1> PICK c : c = Append(q, nl)
    OBVIOUS
  <1>5. /\ c \in Seq(TraceLine) /\ c[at] = nl /\ at \in DOMAIN c /\ Chain(consts, c)
        /\ \A j \in DOMAIN c : j # at => j \in DOMAIN q /\ c[j] = q[j]
    <2>1. ASSUME NEW x \in Seq(TraceLine), NEW i \in DOMAIN prog, NEW y \in TraceLine, Len(x) = i - 1,
                 Chain(consts, x), Len(y.ptrs) = 1, Labelled(i, y), Joins(consts, x, i, y)
          PROVE  /\ Append(x, y) \in Seq(TraceLine) /\ Append(x, y)[i] = y /\ DOMAIN Append(x, y) = DOMAIN x \cup {i}
                 /\ \A j \in DOMAIN x : Append(x, y)[j] = x[j]
                 /\ Chain(consts, Append(x, y))
      BY <1>1, <2>1, ChainGrows
    <2>2. q \in Seq(TraceLine) /\ Chain(consts, q)
      BY <1>1 DEF ChainedInv
    <2>3. at \in DOMAIN prog /\ nl \in TraceLine /\ Len(q) = at - 1 /\ Len(nl.ptrs) = 1 /\ Labelled(at, nl)
          /\ Joins(consts, q, at, nl)
      BY <1>1, <1>2, <1>4
    <2>4. /\ c \in Seq(TraceLine) /\ c[at] = nl /\ DOMAIN c = DOMAIN q \cup {at}
          /\ \A j \in DOMAIN q : c[j] = q[j]
          /\ Chain(consts, c)
      BY <2>1, <2>2, <2>3
    <2>5. QED
      BY <2>4
  <1>6. \A j \in DOMAIN trace'[0] : j \in DOMAIN prog /\ trace'[0][j].name = NamesOf(prog)[j]
    <2>1. trace'[0] \in Seq(TraceLine)
      <3>1. TypeInv'
        BY TypeLine
      <3>2. 0 \in 0..Passes-1
        BY <1>1
      <3>3. QED
        BY <3>1, <3>2 DEF TypeInv, RecordInv
    <2>2. \A j \in DOMAIN trace'[0] : j \in DOMAIN prog
      <3> PICK x : x = trace'[0]
        OBVIOUS
      <3>1. Chain(consts', x)
        BY <1>2
      <3>2. QED
        BY <3>1 DEF Chain
    <2>3. QED
      BY <1>1, <1>2, <2>1, <2>2, ChainNames
  <1>7. CASE pass = 0
    <2>1. trace'[0] = c /\ trace[0] = q
      BY <1>1, <1>3, <1>7
    <2>2. BeginAlike(at, nl, nl)
      BY DEF BeginAlike
    <2>3. QED
      BY <1>5, <1>6, <1>7, <2>1, <2>2 DEF InPass0
  <1>8. CASE pass = 1
    <2> PICK r : r = trace[0]
      OBVIOUS
    <2>1. trace'[0] = r /\ r \in Seq(TraceLine) /\ Chain(consts, r) /\ RanOut(r)
      BY <1>1, <1>3, <1>8 DEF ChainedInv, PassesInv
    <2>2. at \in DOMAIN r
      <3>1. at \in Nat /\ at > 0 /\ Len(r) \in Nat /\ DOMAIN r = 1..Len(r) /\ at <= Len(prog) /\ Len(prog) \in Nat
        BY <2>1, ProgramsAssumption DEF ProgramsAssumption, TypeInv, PlaceInv
      <3>2. Clear(at)
        BY <1>1 DEF ReachInv
      <3>3. ~(Len(r) < at)
        <4>1. SUFFICES ASSUME Len(r) < at PROVE FALSE
          OBVIOUS
        <4>2. Len(r) # Len(prog)
          BY <3>1, <4>1
        <4>3. Len(r) \in DOMAIN prog /\ Stops(Len(r))
          BY <2>1, <4>2 DEF RanOut
        <4>4. QED
          BY <3>2, <4>1, <4>3 DEF Clear
      <3>4. QED
        BY <3>1, <3>3
    <2>3. BeginAlike(at, c[at], r[at])
      <3>1. IsTable(consts) /\ Dollar \in DOMAIN consts
        BY <1>1 DEF TypeInv, TableInv
      <3>2. QED
        BY <1>1, <1>5, <2>1, <2>2, <3>1, OneLayout
    <2>4. QED
      BY <1>5, <1>6, <1>8, <2>1, <2>2, <2>3 DEF InPass0
  <1>9. QED
    BY <1>1, <1>7, <1>8

(* What pass 0 has found out: the section of each label, an EQU without a  *)
(* name, the origin and the ORG that set it.                               *)
SectionsOf(tab, q) ==
  \A j \in DOMAIN q : prog[j].label.kind # "none" /\ ~q[j].equ => tab[q[j].name].section = q[j].section
UnnamedOf(tab, q) ==
  \A j \in DOMAIN q : prog[j].op = "equ" /\ prog[j].label.kind = "none" => HasType(tab, NoScope, {"EXPR"})
OriginIs(tab, o) == Origin \in DOMAIN tab /\ tab[Origin].value = o
OrgOf(tab, o, q) ==
  1 \in DOMAIN q /\ prog[1].op = "org" /\ ~isOrgDef => o = Value(tab, NoScope, prog[1].e) % Word
Seen(tab, o, q) == SectionsOf(tab, q) /\ UnnamedOf(tab, q) /\ OriginIs(tab, o) /\ OrgOf(tab, o, q)
Underway == pc \notin {"args", "exit"} \/ pass > 0
SeenInv  == steady /\ Settled /\ Underway => Seen(consts, org, trace[0])

LEMMA OrgAlike ==
  ASSUME prog \in Programs, Steady(prog), NEW t1, NEW t2, IsTable(t1), IsTable(t2), NEW o, NEW q, OrgOf(t1, o, q),
         \A j \in DOMAIN q : j \in DOMAIN prog
  PROVE  OrgOf(t2, o, q)
  <1> SUFFICES ASSUME 1 \in DOMAIN q, prog[1].op = "org", ~isOrgDef
               PROVE  o = Value(t2, NoScope, prog[1].e) % Word
    BY DEF OrgOf
  <1>1. prog[1].e \in Expr /\ Numeral(prog[1].e) /\ o = Value(t1, NoScope, prog[1].e) % Word
    BY SteadyLine DEF OrgOf
  <1>2. Value(t1, NoScope, prog[1].e) = Value(t2, NoScope, prog[1].e)
    BY <1>1, NumeralAlike
  <1>3. QED
    BY <1>1, <1>2

LEMMA LineSees ==
  ASSUME TypeInv, ReachInv, PassesInv, ChainedInv, LineInv, DollarInv, Steady(prog), LineStep, at <= Len(prog),
         pass > 0 => "changed" \notin warnings', Seen(consts, org, trace[0])
  PROVE  Seen(consts', org', trace'[0])
  <1>1. /\ pc = "line" /\ at \in DOMAIN prog /\ prog \in Programs /\ Stmt = prog[at] /\ pass \in {0, 1}
        /\ 0..Passes-1 = {0, 1} /\ IsTable(consts) /\ IsTable(consts')
    <2>1. pc = "line"
      BY LineWays
    <2>2. 0..2-1 = {0, 1} /\ 0..2 = {0, 1, 2}
      OBVIOUS
    <2>3. pass \in {0, 1}
      BY <2>1, <2>2 DEF TypeInv, PlaceInv, Passes, Assembling
    <2>4. IsTable(consts')
      BY TypeLine DEF TypeInv, TableInv
    <2>5. QED
      BY <2>1, <2>2, <2>3, <2>4, LineTypes DEF TypeInv, PlaceInv, TableInv, Passes, Stmt
  <1>2. InPass0
    BY LineFound
  <1> PICK nl : nl = NewLine
    OBVIOUS
  <1> PICK r : r = trace'[0]
    OBVIOUS
  <1> PICK q : q = trace[0]
    OBVIOUS
  <1> PICK name : name = LineName
    OBVIOUS
  <1> PICK names : names = NamesOf(prog)
    OBVIOUS
  <1>3. /\ at \in DOMAIN r
        /\ r[at].name = name /\ r[at].section = section /\ (r[at].equ <=> Stmt.op = "equ")
        /\ \A j \in DOMAIN r : /\ j \in DOMAIN prog /\ r[j].name = names[j]
                               /\ j # at => j \in DOMAIN q /\ r[j] = q[j]
    <2>1. NewLine.name = name /\ NewLine.section = section /\ (NewLine.equ <=> Stmt.op = "equ")
      BY DEF NewLine
    <2>2. QED
      BY <1>2, <2>1 DEF InPass0, BeginAlike
  <1>4. /\ \A n \in DOMAIN consts :
             n \in DOMAIN consts' /\ (~HasLabel \/ n # name => consts'[n].section = consts[n].section)
        /\ HasLabel => consts'[name].section = section
        /\ HasType(consts, NoScope, {"EXPR"}) \/ (Stmt.op = "equ" /\ Stmt.label.kind = "none") =>
             HasType(consts', NoScope, {"EXPR"})
        /\ ~OrgDirective => org' = org /\ Stays(consts, consts', Origin)
        /\ OrgDirective => /\ Origin \in DOMAIN consts' /\ consts'[Origin].value = org'
                           /\ org' = Value(LineConsts, LineScope, Stmt.e) % Word
        /\ Stmt.op = "org" /\ ~isOrgDef => OrgDirective
    BY LineRest
  <1>5. /\ DOMAIN names = DOMAIN prog
        /\ \A i \in DOMAIN prog : prog[i].label.kind # "none" => names[i] # NoScope
        /\ \A i, j \in DOMAIN names : names[i] = names[j] => i = j \/ names[i] = NoScope
    <2>1. DistinctNames(prog)
      BY DEF Steady
    <2>2. QED
      BY <1>1, <2>1, NamesApart DEF DistinctNames
  <1>6. SectionsOf(consts', r)
    <2>1. ASSUME NEW j \in DOMAIN r, prog[j].label.kind # "none", ~r[j].equ
          PROVE  consts'[r[j].name].section = r[j].section
      <3>1. CASE j = at
        <4>1. HasLabel
          BY <1>1, <1>3, <2>1, <3>1 DEF HasLabel
        <4>2. QED
          BY <1>3, <1>4, <3>1, <4>1
      <3>2. CASE j # at
        <4>1. j \in DOMAIN q /\ r[j] = q[j] /\ j \in DOMAIN prog
          BY <1>3, <3>2
        <4>2. EntriesOf(consts, q)
          BY <1>1 DEF ChainedInv
        <4>3. q[j].name \in DOMAIN consts /\ consts[q[j].name].section = q[j].section
          BY <2>1, <4>1, <4>2 DEF EntriesOf, EntryOf, Seen, SectionsOf
        <4>4. r[j].name # name
          <5>1. names[j] # names[at]
            BY <1>1, <1>5, <2>1, <3>2, <4>1
          <5>2. QED
            BY <1>3, <5>1
        <4>5. QED
          BY <1>4, <4>1, <4>3, <4>4
      <3>3. QED
        BY <3>1, <3>2
    <2>2. QED
      BY <2>1 DEF SectionsOf
  <1>7. UnnamedOf(consts', r)
    <2>1. ASSUME NEW j \in DOMAIN r, prog[j].op = "equ", prog[j].label.kind = "none"
          PROVE  HasType(consts', NoScope, {"EXPR"})
      <3>1. CASE j = at
        BY <1>1, <1>4, <2>1, <3>1
      <3>2. CASE j # at
        <4>1. HasType(consts, NoScope, {"EXPR"})
          BY <1>3, <2>1, <3>2 DEF Seen, UnnamedOf
        <4>2. QED
          BY <1>4, <4>1
      <3>3. QED
        BY <3>1, <3>2
    <2>2. QED
      BY <2>1 DEF UnnamedOf
  <1>8. OriginIs(consts', org')
    BY <1>4 DEF Seen, OriginIs, Stays
  <1>9. OrgOf(consts', org', r)
    <2>1. \A j \in DOMAIN r : j \in DOMAIN prog
      BY <1>3
    <2>2. CASE OrgDirective
      <3>1. Stmt.op = "org"
        BY <2>2 DEF OrgDirective, OnLine
      <3>2. at = 1 /\ Stmt.label.kind = "none"
        <4>1. at = 1 /\ Stmt.label = NoSym
          BY <1>1, <3>1, SteadyLine
        <4>2. NoSym.kind = "none"
          BY DEF NoSym
        <4>3. QED
          BY <4>1, <4>2
      <3>3. LineScope = NoScope
        <4>1. Joins(consts, trace[pass], at, NewLine) /\ NewLine.scope = scope
          BY LineChains DEF NewLine
        <4>2. scope = NoScope
          BY <3>2, <4>1 DEF Joins, Opens
        <4>3. QED
          BY <3>2, <4>2 DEF LineScope, HasLabel
      <3>4. IsTable(LineConsts)
        BY <1>1, LineTable DEF GoodTable
      <3>5. OrgOf(LineConsts, org', r)
        <4>1. org' = Value(LineConsts, NoScope, prog[1].e) % Word
          BY <1>1, <1>4, <2>2, <3>2, <3>3
        <4>2. QED
          BY <4>1 DEF OrgOf
      <3>6. QED
        BY <1>1, <2>1, <3>4, <3>5, OrgAlike
    <2>3. CASE ~OrgDirective
      <3>1. OrgOf(consts, org, r)
        <4>1. SUFFICES ASSUME 1 \in DOMAIN r, prog[1].op = "org", ~isOrgDef
                       PROVE  org = Value(consts, NoScope, prog[1].e) % Word
          BY DEF OrgOf
        <4>2. at # 1
          BY <1>1, <1>4, <2>3, <4>1
        <4>3. 1 \in DOMAIN q
          BY <1>3, <4>1, <4>2
        <4>4. QED
          BY <4>1, <4>3 DEF Seen, OrgOf
      <3>2. org' = org
        BY <1>4, <2>3
      <3>3. OrgOf(consts', org, r)
        BY <1>1, <2>1, <3>1, OrgAlike
      <3>4. QED
        BY <3>2, <3>3
    <2>4. QED
      BY <2>2, <2>3
  <1>10. QED
    BY <1>6, <1>7, <1>8, <1>9 DEF Seen

LEMMA SeenStays ==
  ASSUME UNCHANGED <<prog, target, isOrgDef, consts, org>>, SameLines, Seen(consts, org, trace[0])
  PROVE  Seen(consts, org, trace[0])'
  <1> PICK q : q = trace[0]
    OBVIOUS
  <1> PICK r : r = trace'[0]
    OBVIOUS
  <1>1. /\ DOMAIN r = DOMAIN q
        /\ \A j \in DOMAIN q : r[j].name = q[j].name /\ r[j].equ = q[j].equ /\ r[j].section = q[j].section
    BY DEF SameLines
  <1>2. SectionsOf(consts, q) /\ UnnamedOf(consts, q) /\ OriginIs(consts, org) /\ OrgOf(consts, org, q)
    BY DEF Seen
  <1>3. SectionsOf(consts, trace[0])'
    BY <1>1, <1>2 DEF SectionsOf
  <1>4. UnnamedOf(consts, trace[0])'
    BY <1>1, <1>2 DEF UnnamedOf
  <1>5. OriginIs(consts, org)' /\ OrgOf(consts, org, trace[0])'
    BY <1>1, <1>2 DEF OriginIs, OrgOf
  <1>6. QED
    BY <1>3, <1>4, <1>5 DEF Seen

LEMMA SeenInit == Init => SeenInv
  <1>1. ~(0 > 0)
    OBVIOUS
  <1>2. QED
    BY <1>1 DEF Init, ArgumentsInit, SeenInv, Underway

LEMMA SeenArguments == TypeInv /\ FileInv /\ LaidInv /\ Arguments => SeenInv'
  <1> SUFFICES ASSUME TypeInv, FileInv, LaidInv, Arguments, steady', Underway'
               PROVE  Seen(consts, org, trace[0])'
    BY DEF SeenInv
  <1>1. /\ pc = "args" /\ UNCHANGED <<prog, steady, pass, trace>> /\ pass = 0
        /\ pc' \in {"args", "exit"} \/ Settle
    BY DEF Arguments, ArgumentStep, TakeFormat, UnknownFormat, SetOutput, SetOrigin, SetLevel,
      Predefine, BadOption, TakeInput, SecondInput, NoOutput, Settle, GiveUp, Skip, Option, FileInv
  <1>2. Settle
    <2>1. ~(0 > 0)
      OBVIOUS
    <2>2. QED
      BY <1>1, <2>1 DEF Underway
  <1>3. trace'[0] = <<>>
    <2>1. PassesInv
      BY <1>1 DEF LaidInv, Settled
    <2>2. 0 \in 0..2-1
      OBVIOUS
    <2>3. QED
      BY <1>1, <2>1, <2>2 DEF PassesInv, Passes
  <1>4. OriginIs(consts', org')
    <2> PICK v : v = entry'.value
      OBVIOUS
    <2> PICK o : o = org'
      OBVIOUS
    <2> DEFINE mid == AddConst(consts, Dollar, "EXPR", v)
    <2>1. consts' = AddConst(mid, Origin, "EXPR", o)
      BY <1>2 DEF Settle
    <2>2. IsTable(consts) /\ Dollar \in Name /\ v \in Int /\ Origin \in Name /\ o \in Int
      <3>1. entry' \in [value : 0..Word-1, def : BOOLEAN] /\ org' \in 0..Word-1
        BY TypeArguments DEF TypeInv, LayoutInv
      <3>2. v \in Int /\ o \in Int
        BY <3>1, WordInt
      <3>3. QED
        BY <3>2, DollarAssumption DEF DollarAssumption, Dollar, Origin, Name, TypeInv, TableInv
    <2>3. IsTable(mid)
      BY <2>2, AddConstKeeps DEF mid, Keeps, OtherTypes, ConstTypes
    <2> HIDE DEF mid
    <2>4. Origin \in DOMAIN consts' /\ consts'[Origin].value = o
      <3> DEFINE base == IF Origin \in DOMAIN mid THEN mid[Origin] ELSE Fresh
      <3>1. base \in Entry
        BY <2>3, FreshType DEF IsTable
      <3>2. Origin \in DOMAIN consts' /\ consts'[Origin] = [base EXCEPT !.type = "EXPR", !.value = o]
        BY <2>1 DEF AddConst
      <3> HIDE DEF base
      <3>3. QED
        BY <3>1, <3>2 DEF Entry
    <2>5. QED
      BY <2>4 DEF OriginIs
  <1>5. \A j : j \notin DOMAIN <<>>
    OBVIOUS
  <1>6. QED
    BY <1>3, <1>4, <1>5 DEF Seen, SectionsOf, UnnamedOf, OrgOf

LEMMA SeenLine == TypeInv /\ ReachInv /\ LaidInv /\ SeenInv /\ LineStep => SeenInv'
  <1> SUFFICES ASSUME TypeInv, ReachInv, LaidInv, SeenInv, LineStep, steady', Settled'
               PROVE  Seen(consts, org, trace[0])'
    BY DEF SeenInv
  <1>1. /\ pc = "line" /\ UNCHANGED <<prog, pass, target, isOrgDef>> /\ pc' \in {"line", "emit", "end"}
        /\ steady' = steady /\ errors \subseteq errors' /\ warnings \subseteq warnings'
    BY LineWays, StepsSay DEF Moves1, Emits, Halts
  <1>2. pass \in {0, 1}
    BY <1>1 DEF TypeInv, PlaceInv, Passes, Assembling
  <1>3. Settled /\ (pass > 0 => "changed" \notin warnings')
    BY <1>1, <1>2 DEF Settled
  <1>4. Steady(prog) /\ PassesInv /\ ChainedInv /\ LineInv /\ DollarInv /\ Seen(consts, org, trace[0])
    BY <1>1, <1>3 DEF LaidInv, SeenInv, Underway
  <1>5. CASE at <= Len(prog)
    <2>1. Seen(consts', org', trace'[0])
      BY <1>3, <1>4, <1>5, LineSees
    <2>2. QED
      BY <1>1, <2>1 DEF Seen, SectionsOf, UnnamedOf, OriginIs, OrgOf
  <1>6. CASE ~(at <= Len(prog))
    <2>1. Exhausted
      BY <1>6 DEF LineStep, OnLine, LabelAlone, List, Instr, NoRow, OutsideText, Reserve, SectionDirective, Export,
        Import, OrgDirective, OrgRefused, End, Equ, SyntaxError, Define, Undef
    <2>2. UNCHANGED <<prog, target, isOrgDef, consts, org, trace>>
      BY <1>1, <2>1 DEF Exhausted, symbols, layout
    <2>3. SameLines
      BY <2>2 DEF SameLines
    <2>4. QED
      BY <1>4, <2>2, <2>3, SeenStays
  <1>7. QED
    BY <1>5, <1>6

LEMMA SeenEmit == TypeInv /\ LaidInv /\ SeenInv /\ EmitStep => SeenInv'
  <1> SUFFICES ASSUME TypeInv, LaidInv, SeenInv, EmitStep, steady', Settled'
               PROVE  Seen(consts, org, trace[0])'
    BY DEF SeenInv
  <1>1. /\ pc = "emit" /\ UNCHANGED <<prog, pass, target, isOrgDef, consts, org>> /\ pc' \in {"line", "emit"}
        /\ steady' = steady /\ errors \subseteq errors' /\ warnings \subseteq warnings'
    BY EmitGoes, StepsSay
  <1>2. pass \in {0, 1} /\ at \in Nat /\ at > 0
    BY <1>1 DEF TypeInv, PlaceInv, Passes, Assembling
  <1>3. Settled
    BY <1>1, <1>2 DEF Settled
  <1>4. ChunkInv /\ Seen(consts, org, trace[0])
    BY <1>1, <1>3 DEF LaidInv, SeenInv, Underway
  <1>5. at \in DOMAIN trace[pass]
    <2>1. Len(trace[pass]) = at
      BY <1>1, <1>4 DEF ChunkInv
    <2>2. trace[pass] \in Seq(TraceLine)
      <3>1. 0..2-1 = {0, 1}
        OBVIOUS
      <3>2. QED
        BY <1>2, <3>1 DEF TypeInv, RecordInv, Passes
    <2>3. QED
      BY <1>2, <2>1, <2>2
  <1>6. SameLines
    BY <1>2, <1>5, GlobalsEmit
  <1>7. QED
    BY <1>1, <1>4, <1>6, SeenStays

(* A step of main has complained of nothing more, or ends the program.     *)
LEMMA MainSettled ==
  ASSUME TypeInv, MainStep, Settled'
  PROVE  Settled /\ steady' = steady /\ UNCHANGED <<prog, target, isOrgDef, consts, org, trace>> /\ Underway
  <1>1. UNCHANGED <<prog, target, isOrgDef, consts, org, trace>> /\ steady' = steady /\ pc \in {"main", "end"}
    BY DEF MainStep, StartPass, CannotOpen, NoSource, EndPass, Exit, input, symbols, layout
  <1>2. pass \in {0, 1, 2} /\ Passes = 2
    BY DEF TypeInv, PlaceInv, Passes
  <1>3. CASE StartPass
    <2>1. pass < 2 /\ pc = "main"
      BY <1>2, <1>3 DEF StartPass
    <2>2. pass \in {0, 1}
      BY <1>2, <2>1
    <2>3. QED
      BY <1>1, <2>1, <2>2 DEF Settled, Underway
  <1>4. CASE CannotOpen
    <2>1. "open" \in errors' /\ pass' = pass /\ pc = "main" /\ pc' = "exit"
      BY <1>4 DEF CannotOpen, Report, ErrorKinds
    <2>2. QED
      BY <1>1, <2>1 DEF Settled, Underway
  <1>5. CASE NoSource
    <2>1. "source" \in errors' /\ pass' = 2
      BY <1>2, <1>5 DEF NoSource, Report, ErrorKinds
    <2>2. QED
      BY <2>1 DEF Settled
  <1>6. CASE EndPass
    <2>1. pass' = pass + 1 /\ UNCHANGED <<errors, warnings>> /\ pass \in {0, 1}
      BY <1>2, <1>6 DEF EndPass, verdict, TypeInv, PlaceInv, Assembling
    <2>2. QED
      BY <1>1, <2>1 DEF Settled, Underway
  <1>7. CASE Exit
    <2>1. pass' = pass /\ UNCHANGED <<errors, warnings>> /\ pass = 2
      BY <1>2, <1>7 DEF Exit, verdict
    <2>2. QED
      BY <1>1, <2>1 DEF Settled, Underway
  <1>8. QED
    BY <1>3, <1>4, <1>5, <1>6, <1>7 DEF MainStep

LEMMA SeenKept == TypeInv /\ FileInv /\ ReachInv /\ LaidInv /\ SeenInv /\ [Next]_vars => SeenInv'
  <1> SUFFICES ASSUME TypeInv, FileInv, ReachInv, LaidInv, SeenInv, [Next]_vars PROVE SeenInv'
    OBVIOUS
  <1>1. CASE MainStep
    <2> SUFFICES ASSUME steady', Settled' PROVE Seen(consts, org, trace[0])'
      BY DEF SeenInv
    <2>1. Settled /\ steady' = steady /\ UNCHANGED <<prog, target, isOrgDef, consts, org, trace>> /\ Underway
      BY <1>1, MainSettled
    <2>2. Seen(consts, org, trace[0]) /\ SameLines
      BY <2>1 DEF SeenInv, SameLines
    <2>3. QED
      BY <2>1, <2>2, SeenStays
  <1>2. CASE UNCHANGED vars
    BY <1>2 DEF vars, input, output, symbols, verdict, layout, SeenInv, Settled, Underway, Seen, SectionsOf,
                UnnamedOf, OriginIs, OrgOf
  <1>3. QED
    BY <1>1, <1>2, SeenArguments, SeenLine, SeenEmit DEF Next

-----------------------------------------------------------------------------
(* So pass 1 finds the table as it leaves it.                              *)
LEMMA LineThere ==
  ASSUME TypeInv, ReachInv, IdsInv, PassesInv, ChainedInv, LineInv, DollarInv, Steady(prog),
         Seen(consts, org, trace[0]), LineStep, at <= Len(prog), pass = 1, "changed" \notin warnings'
  PROVE  HasLine
  <1>1. /\ pc = "line" /\ at \in DOMAIN prog /\ prog \in Programs /\ Stmt = prog[at] /\ IsTable(consts)
        /\ 0 \in 0..Passes-1 /\ UNCHANGED <<prog, pass, target, isOrgDef>> /\ Dollar \in DOMAIN consts
    <2>1. pc = "line" /\ UNCHANGED <<prog, pass, target, isOrgDef>>
      BY LineWays
    <2>2. 0 \in 0..2-1
      OBVIOUS
    <2>3. QED
      BY <2>1, <2>2, LineTypes DEF TypeInv, PlaceInv, TableInv, Passes, Stmt
  <1>2. InPass0
    BY LineFound
  <1> PICK q : q = trace[0]
    OBVIOUS
  <1> PICK t : t = q[at]
    OBVIOUS
  <1>3. /\ at \in DOMAIN q /\ EntryOf(consts, at, t)
        /\ t.name = LineName /\ t.section = section /\ (t.equ <=> Stmt.op = "equ")
        /\ t.ptrs[1] = ptr \/ (~isOrgDef /\ Stmt.op = "org")
    <2>1. at \in DOMAIN q /\ trace'[0][at] = q[at] /\ BeginAlike(at, NewLine, q[at])
      BY <1>2 DEF InPass0
    <2>2. EntriesOf(consts, q)
      BY <1>1 DEF ChainedInv
    <2>3. NewLine.name = LineName /\ NewLine.section = section /\ (NewLine.equ <=> Stmt.op = "equ")
          /\ NewLine.ptrs[1] = ptr
      BY DEF NewLine
    <2>4. QED
      BY <1>1, <2>1, <2>2, <2>3 DEF BeginAlike, EntriesOf
  <1>4. ASSUME HasLabel
        PROVE  /\ LineName \in DOMAIN consts /\ consts[LineName].type = LabelType(section)
               /\ consts[LineName].value = Here /\ consts[LineName].section = section
    <2>1. Stmt.label.kind # "none" /\ Stmt.op # "equ"
      BY <1>4 DEF HasLabel
    <2>2. Stmt.op # "org"
      <3>1. NoSym.kind = "none"
        BY DEF NoSym
      <3>2. QED
        BY <1>1, <2>1, <3>1, SteadyLine
    <2>3. /\ t.name \in DOMAIN consts /\ consts[t.name].type = LabelType(t.section)
          /\ consts[t.name].value = Began(t)
      BY <1>1, <1>3, <2>1 DEF EntryOf
    <2>4. consts[t.name].section = t.section
      BY <1>1, <1>3, <2>1 DEF Seen, SectionsOf
    <2>5. Began(t) = Here
      BY <1>3, <2>2 DEF Began, Here
    <2>6. QED
      BY <1>3, <2>3, <2>4, <2>5
  <1>5. ASSUME Stmt.op = "equ" PROVE LineName \in DOMAIN consts /\ consts[LineName].type = "EXPR"
    <2>1. CASE Stmt.label.kind = "none"
      <3>1. LineName = NoScope
        BY <2>1 DEF LineName
      <3>2. HasType(consts, NoScope, {"EXPR"})
        BY <1>1, <1>3, <1>5, <2>1 DEF Seen, UnnamedOf
      <3>3. QED
        BY <3>1, <3>2 DEF HasType
    <2>2. CASE Stmt.label.kind # "none"
      BY <1>1, <1>3, <1>5, <2>2 DEF EntryOf
    <2>3. QED
      BY <2>1, <2>2
  <1>6. ASSUME Stmt.op = "import", target = "rdf" PROVE \A n : Listed(Stmt.names, n) => n \in DOMAIN consts
    <2>1. NoUndef
      BY <1>1, SteadyLine DEF NoUndef
    <2>2. Reached(at)
      BY <1>1 DEF ReachInv, Reached
    <2>3. Introduced(at)
      BY <1>1, <2>1, <2>2 DEF IdsInv, IntroducedInv
    <2>4. QED
      BY <1>1, <1>6, <2>3 DEF Introduced, Listed
  <1>7. ASSUME Stmt.op = "org", ~isOrgDef
        PROVE  consts[Origin].value = Value(LineConsts, LineScope, Stmt.e) % Word
    <2>1. at = 1 /\ Stmt.label.kind = "none"
      <3>1. at = 1 /\ Stmt.label = NoSym
        BY <1>1, <1>7, SteadyLine
      <3>2. NoSym.kind = "none"
        BY DEF NoSym
      <3>3. QED
        BY <3>1, <3>2
    <2>2. LineScope = NoScope
      <3>1. Joins(consts, trace[pass], at, NewLine) /\ NewLine.scope = scope
        BY LineChains DEF NewLine
      <3>2. scope = NoScope
        BY <2>1, <3>1 DEF Joins, Opens
      <3>3. QED
        BY <2>1, <3>2 DEF LineScope, HasLabel
    <2>3. consts[Origin].value = org /\ OrgOf(consts, org, q)
      BY DEF Seen, OriginIs
    <2>4. /\ IsTable(LineConsts) /\ prog[1].e \in Expr /\ Numeral(prog[1].e)
          /\ org = Value(consts, NoScope, prog[1].e) % Word
      BY <1>1, <1>3, <1>7, <2>1, <2>3, LineTable, SteadyLine DEF GoodTable, OrgOf
    <2>5. Value(LineConsts, NoScope, prog[1].e) = Value(consts, NoScope, prog[1].e)
      BY <1>1, <2>4, NumeralAlike
    <2>6. QED
      BY <1>1, <2>1, <2>2, <2>3, <2>4, <2>5
  <1>8. QED
    BY <1>4, <1>5, <1>6, <1>7 DEF HasLine

(* What a complaint-free line of pass 1 leaves of the table.               *)
LEMMA TableStays ==
  ASSUME TypeInv, ReachInv, IdsInv, LaidInv, SeenInv, LineStep, pass = 1, steady', Settled'
  PROVE  SameBut(consts, consts')
  <1>1. /\ pc = "line" /\ pass' = 1 /\ pc' \in {"line", "emit", "end"} /\ steady' = steady
        /\ errors \subseteq errors' /\ warnings \subseteq warnings'
    BY LineWays, StepsSay DEF Moves1, Emits, Halts
  <1>2. Settled /\ "changed" \notin warnings'
    BY <1>1 DEF Settled
  <1>3. Steady(prog) /\ PassesInv /\ ChainedInv /\ LineInv /\ DollarInv /\ Seen(consts, org, trace[0])
    BY <1>1, <1>2 DEF LaidInv, SeenInv, Underway
  <1>4. CASE at <= Len(prog)
    <2>1. HasLine
      BY <1>2, <1>3, <1>4, LineThere
    <2>2. ~Undef
      <3>1. prog \in Programs /\ at \in DOMAIN prog /\ Stmt = prog[at]
        BY <1>4, LineTypes DEF TypeInv, PlaceInv, Stmt
      <3>2. Stmt.op # "%undef"
        BY <1>3, <3>1, SteadyLine
      <3>3. QED
        BY <3>2 DEF Undef, OnLine
    <2>3. pass > 0
      OBVIOUS
    <2>4. QED
      BY <1>2, <1>4, <2>1, <2>2, <2>3, LineKeepsTable
  <1>5. CASE ~(at <= Len(prog))
    <2>1. Exhausted
      BY <1>5 DEF LineStep, OnLine, LabelAlone, List, Instr, NoRow, OutsideText, Reserve, SectionDirective, Export,
        Import, OrgDirective, OrgRefused, End, Equ, SyntaxError, Define, Undef
    <2>2. consts' = consts
      BY <2>1 DEF Exhausted, symbols
    <2>3. QED
      BY <2>2, SameItself
  <1>6. QED
    BY <1>4, <1>5

-----------------------------------------------------------------------------
(* An expression is worth the same with either table, $ being at b.        *)
WithDollar(tab, b) == [tab EXCEPT ![Dollar].value = b]

LEMMA ValueAlike ==
  ASSUME NEW t1, NEW t2, IsTable(t1), IsTable(t2), SameBut(t1, t2), Dollar \in DOMAIN t1, NEW b \in Int,
         NEW sc, NEW e \in Expr
  PROVE  /\ GetConst(WithDollar(t2, b), sc, e) = GetConst(WithDollar(t1, b), sc, e)
         /\ Value(WithDollar(t2, b), sc, e) = Value(WithDollar(t1, b), sc, e)
         /\ SingleRef(t2, sc, e) <=> SingleRef(t1, sc, e)
         /\ SegRef(t2, e) <=> SegRef(t1, e)
  <1> DEFINE u1 == [t1 EXCEPT ![Dollar].value = b]
             u2 == [t2 EXCEPT ![Dollar].value = b]
  <1>1. Dollar \in DOMAIN t2 /\ DOMAIN t1 = DOMAIN t2
    BY DEF SameBut
  <1>2. /\ IsTable(u1) /\ SameBut(t1, u1) /\ u1[Dollar].value = b
        /\ \A n \in DOMAIN t1 \ {Dollar} : u1[n] = t1[n]
    BY DollarMoves
  <1>3. /\ IsTable(u2) /\ SameBut(t2, u2) /\ u2[Dollar].value = b
        /\ \A n \in DOMAIN t2 \ {Dollar} : u2[n] = t2[n]
    BY <1>1, DollarMoves
  <1>4. WithDollar(t1, b) = u1 /\ WithDollar(t2, b) = u2
    BY DEF WithDollar
  <1> HIDE DEF u1, u2
  <1>5. AlikeOn(Sym, u1, u2, sc)
    <2> SUFFICES ASSUME NEW s \in Sym, NEW n, n = QName(s, sc)
                 PROVE  /\ n \in DOMAIN u1 <=> n \in DOMAIN u2
                        /\ n \in DOMAIN u1 =>
                             /\ u1[n].type = u2[n].type /\ u1[n].value = u2[n].value
                             /\ u1[n].type = "DEFINE" =>
                                  u1[n].extra.text = u2[n].extra.text /\ u1[n].extra.text \in Sym
      BY DEF AlikeOn
    <2>1. n \in DOMAIN u1 <=> n \in DOMAIN u2
      BY <1>1, <1>2, <1>3 DEF SameBut
    <2>2. ASSUME n \in DOMAIN u1
          PROVE  /\ u1[n].type = u2[n].type /\ u1[n].extra = u2[n].extra
                 /\ u1[n].value = u2[n].value /\ u1[n].extra.text \in Sym
      <3>1. n \in DOMAIN t1 /\ n \in DOMAIN t2
        BY <1>1, <1>2, <2>2 DEF SameBut
      <3>2. u1[n].type = t1[n].type /\ u2[n].type = t2[n].type /\ t2[n].type = t1[n].type
            /\ u1[n].extra = t1[n].extra /\ u2[n].extra = t2[n].extra /\ t2[n].extra = t1[n].extra
        BY <1>2, <1>3, <3>1 DEF SameBut
      <3>3. u1[n].value = u2[n].value
        <4>1. CASE n = Dollar
          BY <1>2, <1>3, <4>1
        <4>2. CASE n # Dollar
          BY <1>2, <1>3, <3>1, <4>2 DEF SameBut
        <4>3. QED
          BY <4>1, <4>2
      <3>4. u1[n].extra.text \in Sym
        <4>1. u1[n] \in Entry
          BY <1>2, <2>2 DEF IsTable
        <4>2. QED
          BY <4>1 DEF Entry, Extra
      <3>5. QED
        BY <3>2, <3>3, <3>4
    <2>3. QED
      BY <2>1, <2>2
  <1>6. \A k \in DOMAIN e : e[k].sym \in Sym
    BY ExprSyms
  <1>7. GetConst(u1, sc, e) = GetConst(u2, sc, e)
    BY <1>2, <1>3, <1>5, <1>6, GetConstAlike
  <1>8. SingleRef(t2, sc, e) <=> SingleRef(t1, sc, e)
    BY <1>1 DEF SingleRef, HasType, SameBut
  <1>9. SegRef(t2, e) <=> SegRef(t1, e)
    BY <1>1 DEF SegRef, HasType, SameBut
  <1>10. QED
    BY <1>4, <1>7, <1>8, <1>9 DEF Value

(* The value of one term that is added.                                    *)
LEMMA OneTerm ==
  ASSUME NEW tab, IsTable(tab), NEW sc, NEW e \in Expr, Len(e) = 1, e[1].op = "+",
         ~Unknown(tab, sc, e[1])
  PROVE  /\ Value(tab, sc, e) = 0 + Read(tab, sc, e[1].sym).value
         /\ GetConst(tab, sc, e).said = Read(tab, sc, e[1].sym).said
  <1>1. PICK r : Reckons(r, tab, sc, e) /\ GetConst(tab, sc, e) = r[Len(e)]
    BY GetConstRuns
  <1>2. 0 \in 0..1-1 /\ 0 + 1 = 1
    OBVIOUS
  <1>3. r[0] = Unread /\ r[1] = TermRead(tab, sc, r[0], e[1])
    BY <1>1, <1>2 DEF Reckons
  <1> PICK x : x = Read(tab, sc, e[1].sym)
    OBVIOUS
  <1>4. Unread.ended = FALSE /\ Unread.value = 0 /\ Unread.said = {} /\ Unread \in Evaluations
    BY UnreadType DEF Unread
  <1>5. TermRead(tab, sc, Unread, e[1])
          = [Unread EXCEPT !.value = Apply("+", Unread.value, x.value), !.said = Unread.said \cup x.said]
    BY <1>4 DEF TermRead
  <1>6. /\ TermRead(tab, sc, Unread, e[1]).value = Apply("+", Unread.value, x.value)
        /\ TermRead(tab, sc, Unread, e[1]).said = x.said
    <2>1. Unread.said \cup x.said = x.said
      BY <1>4
    <2>2. QED
      BY <1>4, <1>5, <2>1 DEF Evaluations
  <1>7. Apply("+", Unread.value, x.value) = 0 + x.value
    BY <1>4 DEF Apply
  <1>8. QED
    BY <1>1, <1>3, <1>6, <1>7 DEF Value

LEMMA ReadOne ==
  ASSUME NEW tab, NEW sc, NEW s \in Sym
  PROVE  \E b : Read(tab, sc, s) = SymRead(tab, sc, 0, s, b)
  <1> DEFINE f == CHOOSE f : Reads(f, tab, sc)
  <1>1. Reads(f, tab, sc)
    BY ReadsExists
  <1>2. Read(tab, sc, s) = f[0][s]
    BY ReadIs
  <1> HIDE DEF f
  <1>3. 0 \in 0..GetConstMaxDepth
    BY DepthAssumption DEF DepthAssumption
  <1>4. f[0] = LevelRead(f, tab, sc, 0)
    BY <1>1, <1>3 DEF Reads
  <1>5. f[0][s] = SymRead(tab, sc, 0, s, f[0 + 1][tab[QName(s, sc)].extra.text])
    BY <1>4 DEF LevelRead
  <1>6. QED
    BY <1>2, <1>5

(* A number is worth itself, an import nothing.                            *)
LEMMA NumberValue ==
  ASSUME NEW tab, IsTable(tab), NEW sc, NEW e \in Expr, IsNumber(e)
  PROVE  Value(tab, sc, e) = e[1].sym.n /\ e[1].sym.n \in Int
  <1>1. Len(e) = 1 /\ e[1].op = "+" /\ e[1].sym.kind = "number"
    BY DEF IsNumber
  <1>2. 1 \in DOMAIN e
    BY <1>1 DEF Expr
  <1>3. e[1].sym \in Sym
    BY <1>2, ExprSyms
  <1>4. ~Unknown(tab, sc, e[1])
    BY <1>1 DEF Unknown
  <1>5. PICK b : Read(tab, sc, e[1].sym) = SymRead(tab, sc, 0, e[1].sym, b)
    BY <1>3, ReadOne
  <1>6. SymRead(tab, sc, 0, e[1].sym, b).value = e[1].sym.n
    BY <1>1 DEF SymRead, Say
  <1>7. e[1].sym.n \in Nat
    BY <1>3 DEF Sym
  <1>8. Value(tab, sc, e) = 0 + e[1].sym.n
    BY <1>1, <1>4, <1>5, <1>6, OneTerm
  <1>9. QED
    BY <1>7, <1>8

LEMMA ImportValue ==
  ASSUME NEW tab, IsTable(tab), NEW sc, NEW e \in Expr, SingleRef(tab, sc, e),
         Referent(tab, sc, e).type = "IMPORT"
  PROVE  Value(tab, sc, e) = 0
  <1>1. /\ Len(e) = 1 /\ e[1].op = "+" /\ e[1].sym.kind # "number"
        /\ QName(e[1].sym, sc) \in DOMAIN tab /\ tab[QName(e[1].sym, sc)].type = "IMPORT"
    BY DEF SingleRef, IsName, HasType, Referent
  <1>2. 1 \in DOMAIN e
    BY <1>1 DEF Expr
  <1>3. e[1].sym \in Sym
    BY <1>2, ExprSyms
  <1>4. ~Unknown(tab, sc, e[1])
    BY <1>1 DEF Unknown
  <1>5. PICK b : Read(tab, sc, e[1].sym) = SymRead(tab, sc, 0, e[1].sym, b)
    BY <1>3, ReadOne
  <1>6. SymRead(tab, sc, 0, e[1].sym, b).value = 0
    BY <1>1 DEF SymRead, Say
  <1>7. QED
    BY <1>1, <1>4, <1>5, <1>6, OneTerm

-----------------------------------------------------------------------------
(* What is emitted for an operand holds what the operand is worth.         *)
Kinds == {"abs", "rel", "seg", "far", "based"}
Piece == [line : Nat, sec : Sections, ofs : Int, width : {1, 2, 4}, kind : Kinds, wide : BOOLEAN,
          e : Expr, scope : Name, value : Int]
PieceNow(kind, ofs, width, v) ==
  [line |-> at, sec |-> section, ofs |-> ofs, width |-> width, kind |-> kind,
   wide |-> Next1.wide, e |-> Next1.e, scope |-> scope, value |-> v]
Resolved(c, v, linked) ==
  \/ c.kind \in {"seg", "far"}
  \/ c.width = 4 /\ ~linked /\ ~IsNumber(c.e)
  \/ c.kind = "abs" /\ c.value = Cut(v, c.width)
  \/ c.kind = "based" /\ (v < -128 \/ Signed(c.value, c.width) % Word = v % Word)
  \/ c.kind = "rel" /\ (c.ofs + c.width + Signed(c.value, c.width)) % Word = v % Word

LEMMA CutShort ==
  /\ \A v \in Int : Cut(v, 1) \in Int /\ Cut(v, 2) \in Int /\ Cut(v, 4) = v
  /\ \A v \in -128..127 : Signed(Cut(v, 1), 1) = v
  /\ \A v \in Int : Signed(Cut(v, 2), 2) % Word = v % Word
  /\ \A v, o \in Int : (o + 2 + Signed(Cut(v - (o + 2), 2), 2)) % Word = v % Word
  <1>1. /\ \A v \in Int : Cut(v, 1) = v % 256 /\ Cut(v, 2) = v % 65536 /\ Cut(v, 4) = v
        /\ \A v \in Int : Signed(v, 2) = v /\ Signed(v, 1) = IF v >= 128 THEN v - 256 ELSE v
        /\ Word = 65536
    BY DEF Cut, Signed, Word
  <1>2. \A v \in Int : v % 256 \in Int /\ v % 65536 \in Int
    OBVIOUS
  <1>3. \A v \in -128..127 : v \in Int /\ (IF v % 256 >= 128 THEN (v % 256) - 256 ELSE v % 256) = v
    OBVIOUS
  <1>4. \A v \in Int : (v % 65536) % 65536 = v % 65536
    OBVIOUS
  <1>5. \A v, o \in Int : v - (o + 2) \in Int /\ (o + 2 + ((v - (o + 2)) % 65536)) % 65536 = v % 65536
    OBVIOUS
  <1>6. \A v \in -128..127 : Signed(Cut(v, 1), 1) = v
    <2> TAKE v \in -128..127
    <2>1. v \in Int /\ v % 256 \in Int /\ (IF v % 256 >= 128 THEN (v % 256) - 256 ELSE v % 256) = v
      BY <1>2, <1>3
    <2>2. Cut(v, 1) = v % 256
      BY <1>1, <2>1
    <2>3. Signed(v % 256, 1) = IF v % 256 >= 128 THEN (v % 256) - 256 ELSE v % 256
      BY <1>1, <2>1
    <2>4. QED
      BY <2>1, <2>2, <2>3
  <1>7. \A v \in Int : Signed(Cut(v, 2), 2) % Word = v % Word
    BY <1>1, <1>2, <1>4
  <1>8. \A v, o \in Int : (o + 2 + Signed(Cut(v - (o + 2), 2), 2)) % Word = v % Word
    <2> TAKE v, o \in Int
    <2> PICK d : d = v - (o + 2)
      OBVIOUS
    <2>1. d \in Int /\ d % 65536 \in Int /\ (o + 2 + (d % 65536)) % 65536 = v % 65536
      BY <1>2, <1>5
    <2>2. Cut(d, 2) = d % 65536 /\ Signed(d % 65536, 2) = d % 65536
      BY <1>1, <2>1
    <2>3. QED
      BY <1>1, <2>1, <2>2
  <1>9. QED
    BY <1>1, <1>2, <1>6, <1>7, <1>8

(* A chunk is put down as it is.                                           *)
LEMMA PieceType ==
  ASSUME TypeInv, todo # <<>>, NEW kind \in Kinds, NEW ofs \in Int, NEW width \in {1, 2, 4}, NEW v \in Int
  PROVE  PieceNow(kind, ofs, width, v) \in Piece
  <1>1. todo \in Seq(Chunk) /\ at \in Nat /\ section \in Sections /\ scope \in Name
    BY DEF TypeInv, PlaceInv, LayoutInv, TableInv
  <1>2. Next1 \in Chunk
    <2>1. \A S : \A q \in Seq(S) : q # <<>> => Head(q) \in S
      OBVIOUS
    <2>2. QED
      BY <1>1, <2>1 DEF Next1
  <1>3. Next1.wide \in BOOLEAN /\ Next1.e \in Expr
    BY <1>2 DEF Chunk
  <1>4. QED
    BY <1>1, <1>3 DEF PieceNow, Piece

(* The chunk that comes holds what it is for, unless it is complained of.  *)
Adds1(kind, ofs, width, v) ==
  /\ kind \in Kinds /\ ofs \in Int /\ width \in {1, 2, 4} /\ v \in Int /\ todo # <<>>
  /\ image' = Append(image, PieceNow(kind, ofs, width, v))
  /\ pass = 1 /\ errors' \cup warnings' = {} => Resolved(PieceNow(kind, ofs, width, v), Lookup, IsRef)

LEMMA EmitsPiece ==
  ASSUME TypeInv, EmitStep
  PROVE  image' = image \/ \E kind, ofs, width, v : Adds1(kind, ofs, width, v)
  <1>1. /\ IsTable(consts) /\ Here \in Int /\ Here + 1 \in Int /\ Here + 2 \in Int /\ pc = "emit"
    <2>1. \A a \in Int : a + 1 \in Int /\ a + 2 \in Int
      OBVIOUS
    <2>2. Here \in Int
      BY HereOffset
    <2>3. QED
      BY <2>1, <2>2, EmitGoes DEF TypeInv, TableInv
  <1>2. todo # <<>> => Next1.e \in Expr /\ Lookup \in Int
    <2> SUFFICES ASSUME todo # <<>> PROVE Next1.e \in Expr /\ Lookup \in Int
      OBVIOUS
    <2>1. \A S : \A q \in Seq(S) : q # <<>> => Head(q) \in S
      OBVIOUS
    <2>2. todo \in Seq(Chunk)
      BY DEF TypeInv, PlaceInv
    <2>3. Next1 \in Chunk
      BY <2>1, <2>2 DEF Next1
    <2>4. Next1.e \in Expr
      BY <2>3 DEF Chunk
    <2>5. QED
      BY <1>1, <2>4, ValueType DEF Lookup
  <1>3. ASSUME NEW kind, NEW ofs, NEW width, NEW v, NEW size, Put(kind, ofs, width, v, size)
        PROVE  image' = Append(image, PieceNow(kind, ofs, width, v))
    BY <1>3 DEF Put, PieceNow
  <1>4. ASSUME NEW kind, NEW ofs, NEW width, NEW v
        PROVE  LET c == PieceNow(kind, ofs, width, v)
               IN c.kind = kind /\ c.ofs = ofs /\ c.width = width /\ c.value = v /\ c.e = Next1.e
    BY DEF PieceNow
  <1>5. ASSUME NEW kind \in {"seg", "far"}, todo # <<>>, Put(kind, Here, 2, 0, 2) \/ Put(kind, Here, 2, 0, 4)
        PROVE  Adds1(kind, Here, 2, 0)
    BY <1>1, <1>3, <1>4, <1>5 DEF Adds1, Resolved, Kinds
  <1>6. ASSUME NEW ofs \in Int, NEW width \in {1, 2}, NEW size, todo # <<>>,
               Put("abs", ofs, width, Cut(Lookup, width), size)
        PROVE  Adds1("abs", ofs, width, Cut(Lookup, width))
    <2>1. Cut(Lookup, width) \in Int
      BY <1>2, <1>6, CutShort
    <2>2. QED
      BY <1>1, <1>3, <1>4, <1>6, <2>1 DEF Adds1, Resolved, Kinds
  <1>7. CASE EmitBytes \/ LineEmitted
    BY <1>7 DEF EmitBytes, LineEmitted
  <1>8. CASE EmitByte \/ EmitWord
    <2>1. todo # <<>>
      BY <1>8 DEF EmitByte, EmitWord, Emitting
    <2>2. \E width \in {1, 2} : Put("abs", Here, width, Cut(Lookup, width), width)
      BY <1>8 DEF EmitByte, EmitWord
    <2>3. QED
      BY <1>1, <1>6, <2>1, <2>2
  <1>9. CASE EmitAddress
    <2>1. todo # <<>> /\ Put("abs", Here + 1, 2, Cut(Lookup, 2), 3)
      BY <1>9 DEF EmitAddress, Emitting
    <2>2. QED
      BY <1>1, <1>6, <2>1
  <1>10. CASE RejectSeg \/ EmitSeg \/ FarRejected \/ EmitFar
    <2>1. todo # <<>>
      BY <1>10 DEF RejectSeg, EmitSeg, FarRejected, EmitFar, Emitting
    <2>2. \E kind \in {"seg", "far"} : Put(kind, Here, 2, 0, 2) \/ Put(kind, Here, 2, 0, 4)
      BY <1>10 DEF RejectSeg, EmitSeg, FarRejected, EmitFar
    <2>3. QED
      BY <1>5, <2>1, <2>2
  <1>11. CASE EmitLong
    <2> DEFINE e == Next1.e
               digits == e # <<>> /\ e[1].op = "+" /\ e[1].sym.kind = "number"
               v == IF IsRef THEN Lookup ELSE IF digits THEN e[1].sym.n ELSE 0
    <2>1. todo # <<>> /\ Put("abs", Here, 4, v, 4)
      BY <1>11 DEF EmitLong, Emitting
    <2>2. v \in Int
      <3>1. digits => e[1].sym.n \in Int
        <4> SUFFICES ASSUME digits PROVE e[1].sym.n \in Int
          OBVIOUS
        <4>1. e \in Seq(Term) /\ e # <<>>
          BY <1>2, <2>1 DEF Expr
        <4>2. \A S : \A q \in Seq(S) : q # <<>> => 1 \in DOMAIN q
          OBVIOUS
        <4>3. e[1].sym \in Sym
          BY <1>2, <2>1, <4>1, <4>2, ExprSyms
        <4>4. QED
          BY <4>3 DEF Sym
      <3>2. QED
        BY <1>2, <2>1, <3>1
    <2>3. Resolved(PieceNow("abs", Here, 4, v), Lookup, IsRef)
      <3>1. CASE IsRef
        <4>1. v = Lookup /\ Cut(Lookup, 4) = Lookup
          BY <1>2, <2>1, <3>1, CutShort
        <4> HIDE DEF v
        <4>2. QED
          BY <1>4, <4>1 DEF Resolved
      <3>2. CASE ~IsRef /\ IsNumber(e)
        <4>1. e # <<>> /\ digits
          <5>1. Len(e) = 1 /\ Len(<<>>) = 0
            BY <3>2 DEF IsNumber
          <5>2. QED
            BY <3>2, <5>1 DEF IsNumber
        <4>2. v = e[1].sym.n
          BY <3>2, <4>1
        <4>3. Value(consts, scope, e) = e[1].sym.n
          BY <1>1, <1>2, <2>1, <3>2, NumberValue
        <4>4. Cut(Lookup, 4) = Lookup
          BY <1>2, <2>1, CutShort
        <4> HIDE DEF v
        <4>5. v = Cut(Lookup, 4)
          BY <4>2, <4>3, <4>4 DEF Lookup
        <4>6. QED
          BY <1>4, <4>5 DEF Resolved
      <3>3. CASE ~IsRef /\ ~IsNumber(e)
        <4> HIDE DEF v
        <4> QED BY <1>4, <3>3 DEF Resolved
      <3>4. QED
        BY <3>1, <3>2, <3>3
    <2> HIDE DEF v
    <2>4. Adds1("abs", Here, 4, v)
      BY <1>1, <1>3, <2>1, <2>2, <2>3 DEF Adds1, Kinds
    <2>5. QED
      BY <2>4
  <1>12. CASE EmitRel8
    <2> DEFINE disp == Lookup - (Here + 1)
    <2>1. todo # <<>> /\ Put("rel", Here, 1, Cut(disp, 1), 1)
          /\ (pass > 0 /\ disp \notin -128..127 => "range" \in warnings')
      <3>1. todo # <<>> /\ Put("rel", Here, 1, Cut(disp, 1), 1)
        BY <1>12 DEF EmitRel8, Emitting
      <3>2. ASSUME pass > 0, disp \notin -128..127 PROVE "range" \in warnings'
        <4>1. PICK said : Report(said) /\ "range" \in said
          BY <1>12, <3>2 DEF EmitRel8
        <4>2. "range" \in WarningKinds
          BY DEF WarningKinds
        <4>3. QED
          BY <4>1, <4>2 DEF Report
      <3>3. QED
        BY <3>1, <3>2
    <2>2. disp \in Int /\ Cut(disp, 1) \in Int
      <3>1. \A a, b \in Int : a - b \in Int
        OBVIOUS
      <3>2. disp \in Int
        BY <1>1, <1>2, <2>1, <3>1
      <3>3. QED
        BY <3>2, CutShort
    <2>3. ASSUME pass = 1, errors' \cup warnings' = {}
          PROVE  Resolved(PieceNow("rel", Here, 1, Cut(disp, 1)), Lookup, IsRef)
      <3>1. disp \in -128..127
        BY <2>1, <2>3
      <3>2. Signed(Cut(disp, 1), 1) = disp
        BY <3>1, CutShort
      <3>3. Here + 1 + disp = Lookup
        <4>1. \A a, b \in Int : b + 1 + (a - (b + 1)) = a
          OBVIOUS
        <4>2. QED
          BY <1>1, <1>2, <2>1, <4>1
      <3> HIDE DEF disp
      <3>4. QED
        BY <1>4, <3>2, <3>3 DEF Resolved
    <2> HIDE DEF disp
    <2>4. Adds1("rel", Here, 1, Cut(disp, 1))
      BY <1>1, <1>3, <2>1, <2>2, <2>3 DEF Adds1, Kinds
    <2>5. QED
      BY <2>4
  <1>13. CASE ShortToImport
    <2>1. todo # <<>> /\ Put("rel", Here, 1, 0, 1) /\ Report(Qualified \cup (IF pass > 0 THEN {"short"} ELSE {}))
      BY <1>13 DEF ShortToImport, Emitting
    <2>2. pass = 1 => errors' # {}
      <3>1. "short" \in ErrorKinds
        BY DEF ErrorKinds
      <3>2. QED
        BY <2>1, <3>1 DEF Report
    <2>3. Adds1("rel", Here, 1, 0)
      BY <1>1, <1>3, <2>1, <2>2 DEF Adds1, Kinds
    <2>4. QED
      BY <2>3
  <1>14. CASE EmitRel16 \/ NearToImport
    <2>1. todo # <<>>
      BY <1>14 DEF EmitRel16, NearToImport, Emitting
    <2>2. Put("rel", Here, 2, Cut(Lookup - (Here + 2), 2), 2)
      <3>1. CASE EmitRel16
        BY <3>1 DEF EmitRel16
      <3>2. CASE NearToImport
        <4>1. Put("rel", Here, 2, Cut(-(Here + 2), 2), 2)
          BY <3>2 DEF NearToImport
        <4>2. Lookup = 0
          BY <1>1, <1>2, <2>1, <3>2, ImportValue DEF NearToImport, ImportRef, IsRef, Ref, Lookup
        <4>3. \A a \in Int : 0 - a = -a
          OBVIOUS
        <4>4. Lookup - (Here + 2) = -(Here + 2)
          BY <1>1, <4>2, <4>3
        <4>5. QED
          BY <4>1, <4>4
      <3>3. QED
        BY <1>14, <3>1, <3>2
    <2> DEFINE disp == Lookup - (Here + 2)
    <2>3. Cut(disp, 2) \in Int /\ (Here + 2 + Signed(Cut(disp, 2), 2)) % Word = Lookup % Word
      <3>1. \A a, b \in Int : a - b \in Int
        OBVIOUS
      <3>2. disp \in Int
        BY <1>1, <1>2, <2>1, <3>1
      <3>3. QED
        BY <1>1, <1>2, <2>1, <3>2, CutShort
    <2>4. Resolved(PieceNow("rel", Here, 2, Cut(disp, 2)), Lookup, IsRef)
      <3> HIDE DEF disp
      <3> QED BY <1>4, <2>3 DEF Resolved
    <2>5. Adds1("rel", Here, 2, Cut(disp, 2))
      <3>1. Put("rel", Here, 2, Cut(disp, 2), 2)
        BY <2>2
      <3> HIDE DEF disp
      <3>2. QED
        BY <1>1, <1>3, <2>1, <2>3, <2>4, <3>1 DEF Adds1, Kinds
    <2>6. QED
      BY <2>5
  <1>15. CASE EmitBased
    <2> DEFINE size == IF Lookup < 128 THEN 1 ELSE 2
    <2>1. todo # <<>> /\ Put("based", Here + 1, size, Cut(Lookup, size), 1 + size)
      BY <1>15 DEF EmitBased, Emitting
    <2>2. /\ size \in {1, 2} /\ Cut(Lookup, size) \in Int
          /\ Lookup < -128 \/ Signed(Cut(Lookup, size), size) % Word = Lookup % Word
      <3>1. CASE Lookup < 128
        <4>1. Lookup < -128 \/ Lookup \in -128..127
          <5>1. \A a \in Int : a < 128 => a < -128 \/ a \in -128..127
            OBVIOUS
          <5>2. QED
            BY <1>2, <2>1, <3>1, <5>1
        <4>2. size = 1
          BY <3>1
        <4> HIDE DEF size
        <4>3. QED
          BY <1>2, <2>1, <4>1, <4>2, CutShort
      <3>2. CASE ~(Lookup < 128)
        <4>1. size = 2
          BY <3>2
        <4> HIDE DEF size
        <4>2. QED
          BY <1>2, <2>1, <4>1, CutShort
      <3>3. QED
        BY <3>1, <3>2
    <2> HIDE DEF size
    <2>3. Resolved(PieceNow("based", Here + 1, size, Cut(Lookup, size)), Lookup, IsRef)
      BY <1>4, <2>2 DEF Resolved
    <2>4. Adds1("based", Here + 1, size, Cut(Lookup, size))
      BY <1>1, <1>3, <2>1, <2>2, <2>3 DEF Adds1, Kinds
    <2>5. QED
      BY <2>4
  <1>16. QED
    BY <1>7, <1>8, <1>9, <1>10, <1>11, <1>12, <1>13, <1>14, <1>15 DEF EmitStep

-----------------------------------------------------------------------------
(* What pass 1 has emitted holds what the table makes of it.               *)
PieceHolds(tab, q, c) ==
  /\ c.line \in DOMAIN q
  /\ Resolved(c, Value(WithDollar(tab, Began(q[c.line])), c.scope, c.e), SingleRef(tab, c.scope, c.e))
AllHold(tab, q, im) == \A i \in DOMAIN im : PieceHolds(tab, q, im[i])
InImage  == pass = Passes \/ (pass = 1 /\ pc \in Assembling)
ImageInv ==
  /\ image \in Seq(Piece)
  /\ steady /\ Settled /\ InImage => AllHold(consts, trace[1], image)

(* It does so on and on: $ was where its line began.                       *)
BeginsOn(q, r) ==
  \A j \in DOMAIN q : j \in DOMAIN r /\ Began(r[j]) = Began(q[j]) /\ Began(q[j]) \in Int
LEMMA HoldsOn ==
  ASSUME NEW t1, NEW t2, IsTable(t1), IsTable(t2), SameBut(t1, t2), Dollar \in DOMAIN t1,
         NEW q, NEW r, BeginsOn(q, r), NEW im \in Seq(Piece), AllHold(t1, q, im)
  PROVE  AllHold(t2, r, im)
  <1> SUFFICES ASSUME NEW i \in DOMAIN im PROVE PieceHolds(t2, r, im[i])
    BY DEF AllHold
  <1> PICK c : c = im[i]
    OBVIOUS
  <1>1. c \in Piece /\ PieceHolds(t1, q, c)
    <2>1. ASSUME NEW S, NEW x \in Seq(S), NEW j \in DOMAIN x PROVE x[j] \in S
      BY <2>1
    <2>2. c \in Piece
      BY <2>1
    <2>3. QED
      BY <2>2 DEF AllHold
  <1>2. c.e \in Expr
    BY <1>1 DEF Piece
  <1>3. c.line \in DOMAIN q /\ c.line \in DOMAIN r /\ Began(r[c.line]) = Began(q[c.line])
    BY <1>1 DEF PieceHolds, BeginsOn
  <1> PICK b : b = Began(q[c.line])
    OBVIOUS
  <1>4. b \in Int
    BY <1>3 DEF BeginsOn
  <1>5. /\ Value(WithDollar(t2, b), c.scope, c.e) = Value(WithDollar(t1, b), c.scope, c.e)
        /\ SingleRef(t2, c.scope, c.e) <=> SingleRef(t1, c.scope, c.e)
    BY <1>2, <1>4, ValueAlike
  <1>6. Resolved(c, Value(WithDollar(t1, b), c.scope, c.e), SingleRef(t1, c.scope, c.e))
    BY <1>1 DEF PieceHolds
  <1>7. Resolved(c, Value(WithDollar(t2, b), c.scope, c.e), SingleRef(t2, c.scope, c.e))
    BY <1>5, <1>6 DEF Resolved
  <1>8. QED
    BY <1>3, <1>7 DEF PieceHolds

(* Where the lines of pass 1 began.                                        *)
LEMMA TraceTyped ==
  ASSUME TypeInv
  PROVE  /\ DOMAIN trace = {0, 1} /\ trace[1] \in Seq(TraceLine)
         /\ \A j \in DOMAIN trace[1] :
              /\ trace[1][j] \in TraceLine
              /\ trace[1][j].ptrs # <<>> => Began(trace[1][j]) \in Int
  <1>1. DOMAIN trace = {0, 1} /\ trace[1] \in Seq(TraceLine)
    <2>1. 0..2-1 = {0, 1}
      OBVIOUS
    <2>2. QED
      BY <2>1 DEF TypeInv, RecordInv, Passes
  <1>2. ASSUME NEW j \in DOMAIN trace[1]
        PROVE  trace[1][j] \in TraceLine /\ (trace[1][j].ptrs # <<>> => Began(trace[1][j]) \in Int)
    <2> PICK t : t = trace[1][j]
      OBVIOUS
    <2>1. ASSUME NEW S, NEW x \in Seq(S), NEW k \in DOMAIN x PROVE x[k] \in S
      BY <2>1
    <2>2. t \in TraceLine
      BY <1>1, <1>2, <2>1
    <2>3. t.ptrs \in Seq([Sections -> Int]) /\ t.section \in Sections
      BY <2>2 DEF TraceLine
    <2>4. ASSUME t.ptrs # <<>> PROVE Began(t) \in Int
      <3>1. \A S : \A x \in Seq(S) : x # <<>> => x[1] \in S
        OBVIOUS
      <3>2. t.ptrs[1] \in [Sections -> Int]
        BY <2>3, <2>4, <3>1
      <3>3. QED
        BY <2>3, <3>2 DEF Began
    <2>5. QED
      BY <2>2, <2>4
  <1>3. QED
    BY <1>1, <1>2

LEMMA LineImage == LineStep => image' = image
  <1>1. CASE LabelAlone \/ Reserve \/ SectionDirective \/ Export \/ Import \/ OrgDirective
             \/ OrgRefused \/ End \/ Equ \/ SyntaxError
    BY <1>1 DEF LabelAlone, Reserve, SectionDirective, Export, Import, OrgDirective, OrgRefused, Equ,
        End, SyntaxError, Done
  <1>2. CASE List \/ Instr \/ NoRow \/ OutsideText
    BY <1>2 DEF List, Instr, NoRow, OutsideText, Starts
  <1>3. CASE Exhausted \/ Define \/ Undef
    BY <1>3 DEF Exhausted, Define, Undef, Directive
  <1>4. QED
    BY <1>1, <1>2, <1>3 DEF LineStep

LEMMA LineBegins ==
  ASSUME TypeInv, LineStep, pass = 1, Chain(consts, trace[1])
  PROVE  BeginsOn(trace[1], trace'[1])
  <1>1. \A j \in DOMAIN trace[1] : Began(trace[1][j]) \in Int
    BY TraceTyped DEF Chain
  <1>2. trace'[1] = trace[1] \/ trace'[1] = Append(trace[1], NewLine)
    <2>1. trace' = trace \/ trace' = [trace EXCEPT ![pass] = Append(trace[pass], NewLine)]
      BY LineTraced
    <2>2. 1 \in DOMAIN trace
      BY TraceTyped
    <2>3. QED
      BY <2>1, <2>2
  <1>3. ASSUME NEW S, NEW q \in Seq(S), NEW x
        PROVE  \A j \in DOMAIN q : j \in DOMAIN Append(q, x) /\ Append(q, x)[j] = q[j]
    BY <1>3
  <1>4. \A j \in DOMAIN trace[1] : j \in DOMAIN trace'[1] /\ trace'[1][j] = trace[1][j]
    BY <1>2, <1>3, TraceTyped
  <1>5. QED
    BY <1>1, <1>4 DEF BeginsOn

LEMMA EmitBegins ==
  ASSUME TypeInv, EmitStep, pass = 1, Chain(consts, trace[1]), at \in DOMAIN trace[1]
  PROVE  BeginsOn(trace[1], trace'[1])
  <1>1. \A j \in DOMAIN trace[1] : Began(trace[1][j]) \in Int /\ trace[1][j].ptrs # <<>>
    BY TraceTyped DEF Chain
  <1>2. trace' = trace \/ TracedOn
    BY EmitGoes
  <1>3. CASE trace' = trace
    BY <1>1, <1>3 DEF BeginsOn
  <1>4. CASE TracedOn
    <2> PICK q : q = trace[1]
      OBVIOUS
    <2> PICK x : x = Append(q[at].ptrs, ptr')
      OBVIOUS
    <2> PICK u : u = [q[at] EXCEPT !.ptrs = x]
      OBVIOUS
    <2>1. trace' = [trace EXCEPT ![1] = [q EXCEPT ![at] = u]]
      BY <1>4 DEF TracedOn
    <2>2. trace'[1] = [q EXCEPT ![at] = u]
      BY <2>1, TraceTyped
    <2>3. q[at] \in TraceLine /\ q[at].ptrs # <<>>
      BY <1>1, TraceTyped
    <2>4. u.ptrs = x /\ u.section = q[at].section /\ q[at].ptrs \in Seq([Sections -> Int])
      BY <2>3 DEF TraceLine
    <2>5. ASSUME NEW S, NEW y \in Seq(S), y # <<>>, NEW z PROVE Append(y, z)[1] = y[1]
      BY <2>5
    <2>6. u.ptrs[1] = q[at].ptrs[1]
      BY <2>3, <2>4, <2>5
    <2>7. Began(u) = Began(q[at])
      BY <2>4, <2>6 DEF Began
    <2>8. QED
      BY <1>1, <2>2, <2>7 DEF BeginsOn
  <1>5. QED
    BY <1>2, <1>3, <1>4

LEMMA ImageInit == Init => ImageInv
  <1> SUFFICES ASSUME Init PROVE ImageInv
    OBVIOUS
  <1>1. image = <<>> /\ pass = 0
    BY DEF Init
  <1>2. ~InImage
    <2>1. 0 # 2 /\ 0 # 1
      OBVIOUS
    <2>2. QED
      BY <1>1, <2>1 DEF InImage, Passes
  <1>3. <<>> \in Seq(Piece)
    OBVIOUS
  <1>4. QED
    BY <1>1, <1>2, <1>3 DEF ImageInv

LEMMA ImageLine ==
  TypeInv /\ ReachInv /\ IdsInv /\ LaidInv /\ SeenInv /\ ImageInv /\ LineStep => ImageInv'
  <1> SUFFICES ASSUME TypeInv, ReachInv, IdsInv, LaidInv, SeenInv, ImageInv, LineStep PROVE ImageInv'
    OBVIOUS
  <1>1. /\ pc = "line" /\ pass' = pass /\ steady' = steady /\ pc' \in {"line", "emit", "end"}
        /\ errors \subseteq errors' /\ warnings \subseteq warnings'
    BY LineWays, StepsSay DEF Moves1, Emits, Halts
  <1>2. image' = image
    BY LineImage
  <1>3. ASSUME (steady /\ Settled /\ InImage)' PROVE AllHold(consts', trace'[1], image')
    <2>1. pass = 1
      <3>1. pass < Passes /\ pass \in 0..Passes
        BY <1>1 DEF TypeInv, PlaceInv, Assembling
      <3>2. pass # Passes
        BY <3>1 DEF Passes
      <3>3. QED
        BY <1>1, <1>3, <3>2 DEF InImage
    <2>2. Settled /\ InImage /\ steady
      BY <1>1, <1>3, <2>1 DEF Settled, InImage, Assembling
    <2>3. ChainedInv /\ AllHold(consts, trace[1], image) /\ image \in Seq(Piece)
      BY <2>2 DEF LaidInv, ImageInv
    <2>4. Chain(consts, trace[1])
      <3>1. 1 \in 0..2-1
        OBVIOUS
      <3>2. QED
        BY <2>3, <3>1 DEF ChainedInv, Passes
    <2>5. SameBut(consts, consts')
      BY <1>3, <2>1, TableStays
    <2>6. IsTable(consts) /\ IsTable(consts') /\ Dollar \in DOMAIN consts
      <3>1. TypeInv'
        BY TypeLine
      <3>2. QED
        BY <1>1, <3>1 DEF TypeInv, TableInv
    <2>7. BeginsOn(trace[1], trace'[1])
      BY <2>1, <2>4, LineBegins
    <2>8. QED
      BY <1>2, <2>3, <2>5, <2>6, <2>7, HoldsOn
  <1>4. QED
    BY <1>2, <1>3 DEF ImageInv

LEMMA ImageEmit == TypeInv /\ LaidInv /\ ImageInv /\ EmitStep => ImageInv'
  <1> SUFFICES ASSUME TypeInv, LaidInv, ImageInv, EmitStep PROVE ImageInv'
    OBVIOUS
  <1>1. /\ pc = "emit" /\ UNCHANGED <<pass, steady, consts>> /\ pc' \in {"line", "emit"}
        /\ errors \subseteq errors' /\ warnings \subseteq warnings'
    BY EmitGoes, StepsSay
  <1>2. image \in Seq(Piece)
    BY DEF ImageInv
  <1>3. ASSUME NEW kind, NEW ofs, NEW width, NEW v, Adds1(kind, ofs, width, v)
        PROVE  PieceNow(kind, ofs, width, v) \in Piece /\ image' = Append(image, PieceNow(kind, ofs, width, v))
    BY <1>3, PieceType DEF Adds1
  <1>4. image' \in Seq(Piece)
    <2>1. ASSUME NEW S, NEW q \in Seq(S), NEW x \in S PROVE Append(q, x) \in Seq(S)
      BY <2>1
    <2>2. QED
      BY <1>2, <1>3, <2>1, EmitsPiece
  <1>5. ASSUME (steady /\ Settled /\ InImage)' PROVE AllHold(consts', trace'[1], image')
    <2>1. pass = 1
      <3>1. pass < Passes /\ pass \in 0..Passes
        BY <1>1 DEF TypeInv, PlaceInv, Assembling
      <3>2. pass # Passes
        BY <3>1 DEF Passes
      <3>3. QED
        BY <1>1, <1>5, <3>2 DEF InImage
    <2>2. Settled /\ InImage /\ steady /\ errors' \cup warnings' = {}
      BY <1>1, <1>5, <2>1 DEF Settled, InImage, Assembling
    <2>3. ChainedInv /\ ChunkInv /\ AllHold(consts, trace[1], image)
      BY <2>2 DEF LaidInv, ImageInv
    <2>4. Chain(consts, trace[1]) /\ at \in DOMAIN trace[1] /\ consts[Dollar].value = Began(trace[1][at])
      <3>1. 1 \in 0..2-1
        OBVIOUS
      <3>2. Chain(consts, trace[1])
        BY <2>3, <3>1 DEF ChainedInv, Passes
      <3>3. Len(trace[1]) = at /\ consts[Dollar].value = Began(trace[1][at])
        BY <1>1, <2>1, <2>3 DEF ChunkInv
      <3>4. at \in Nat /\ at > 0 /\ DOMAIN trace[1] = 1..Len(trace[1])
        BY TraceTyped DEF TypeInv, PlaceInv
      <3>5. at \in DOMAIN trace[1]
        BY <3>3, <3>4
      <3>6. QED
        BY <3>2, <3>3, <3>5
    <2>5. BeginsOn(trace[1], trace'[1])
      BY <2>1, <2>4, EmitBegins
    <2>6. IsTable(consts) /\ Dollar \in DOMAIN consts
      BY <1>1 DEF TypeInv, TableInv
    <2>7. AllHold(consts, trace'[1], image)
      BY <1>2, <2>3, <2>5, <2>6, SameItself, HoldsOn
    <2>8. ASSUME NEW kind, NEW ofs, NEW width, NEW v, Adds1(kind, ofs, width, v)
          PROVE  AllHold(consts, trace'[1], image')
      <3> PICK c : c = PieceNow(kind, ofs, width, v)
        OBVIOUS
      <3>1. image' = Append(image, c) /\ Resolved(c, Lookup, IsRef)
        BY <2>1, <2>2, <2>8 DEF Adds1
      <3>2. c.line = at /\ c.scope = scope /\ c.e = Next1.e
        BY DEF PieceNow
      <3>3. at \in DOMAIN trace'[1] /\ Began(trace'[1][at]) = consts[Dollar].value
        BY <2>4, <2>5 DEF BeginsOn
      <3>4. WithDollar(consts, consts[Dollar].value) = consts
        <4>1. consts[Dollar] \in Entry /\ consts = [n \in DOMAIN consts |-> consts[n]]
          BY <2>6 DEF IsTable
        <4>2. [consts[Dollar] EXCEPT !.value = consts[Dollar].value] = consts[Dollar]
          BY <4>1 DEF Entry
        <4> PICK x : x = consts[Dollar]
          OBVIOUS
        <4>3. WithDollar(consts, consts[Dollar].value) = [consts EXCEPT ![Dollar] = x]
          BY <4>2 DEF WithDollar
        <4>4. QED
          BY <4>1, <4>3
      <3>5. PieceHolds(consts, trace'[1], c)
        <4>1. Value(WithDollar(consts, Began(trace'[1][at])), scope, Next1.e) = Lookup
          BY <3>3, <3>4 DEF Lookup
        <4>2. SingleRef(consts, scope, Next1.e) <=> IsRef
          BY DEF IsRef
        <4>3. Resolved(c, Value(WithDollar(consts, Began(trace'[1][at])), scope, Next1.e), SingleRef(consts, scope, Next1.e))
          BY <3>1, <4>1, <4>2 DEF Resolved
        <4>4. QED
          BY <3>2, <3>3, <4>3 DEF PieceHolds
      <3>6. ASSUME NEW S, NEW q \in Seq(S), NEW x, NEW j \in DOMAIN Append(q, x)
            PROVE  (j \in DOMAIN q /\ Append(q, x)[j] = q[j]) \/ Append(q, x)[j] = x
        BY <3>6
      <3>7. ASSUME NEW j \in DOMAIN image' PROVE PieceHolds(consts, trace'[1], image'[j])
        <4>1. (j \in DOMAIN image /\ image'[j] = image[j]) \/ image'[j] = c
          BY <1>2, <3>1, <3>6, <3>7
        <4>2. QED
          BY <2>7, <3>5, <4>1 DEF AllHold
      <3>8. QED
        BY <3>7 DEF AllHold
    <2>9. QED
      BY <1>1, <2>7, <2>8, EmitsPiece
  <1>6. QED
    BY <1>4, <1>5 DEF ImageInv

LEMMA ImageMain == TypeInv /\ ImageInv /\ MainStep => ImageInv'
  <1> SUFFICES ASSUME TypeInv, ImageInv, MainStep PROVE ImageInv'
    OBVIOUS
  <1>1. pass \in {0, 1, 2} /\ Passes = 2 /\ (pc \in Assembling => pass < Passes)
    BY DEF TypeInv, PlaceInv, Passes
  <1>2. CASE StartPass
    <2>1. image' = <<>>
      BY <1>2 DEF StartPass
    <2>2. \A j : j \notin DOMAIN <<>>
      OBVIOUS
    <2>3. <<>> \in Seq(Piece)
      OBVIOUS
    <2>4. QED
      BY <2>1, <2>2, <2>3 DEF ImageInv, AllHold
  <1>3. CASE ~StartPass
    <2>1. image' = image
      BY <1>3 DEF MainStep, CannotOpen, NoSource, EndPass, Exit
    <2>2. ASSUME (steady /\ Settled /\ InImage)' PROVE AllHold(consts', trace'[1], image')
      <3>1. Settled /\ steady' = steady /\ UNCHANGED <<consts, trace>>
        BY <2>2, MainSettled
      <3>2. InImage
        <4>1. CASE CannotOpen
          BY <2>2, <4>1 DEF CannotOpen, InImage, Assembling
        <4>2. CASE NoSource
          <5>1. "source" \in errors' /\ pass' = 2
            BY <1>1, <4>2 DEF NoSource, Report, ErrorKinds
          <5>2. QED
            BY <2>2, <5>1 DEF Settled
        <4>3. CASE EndPass
          <5>1. pc = "end" /\ pass' = pass + 1 /\ pc' = "main" /\ pc \in Assembling
            BY <4>3 DEF EndPass, Assembling
          <5>2. pass = 1
            BY <1>1, <2>2, <5>1 DEF InImage, Assembling
          <5>3. QED
            BY <5>1, <5>2 DEF InImage
        <4>4. CASE Exit
          BY <4>4 DEF Exit, InImage
        <4>5. QED
          BY <1>3, <4>1, <4>2, <4>3, <4>4 DEF MainStep
      <3>3. QED
        BY <2>1, <2>2, <3>1, <3>2 DEF ImageInv
    <2>3. QED
      BY <2>1, <2>2 DEF ImageInv
  <1>4. QED
    BY <1>2, <1>3

LEMMA ImageArguments == FileInv /\ ImageInv /\ Arguments => ImageInv'
  <1> SUFFICES ASSUME FileInv, ImageInv, Arguments PROVE ImageInv'
    OBVIOUS
  <1>1. pc = "args" /\ UNCHANGED <<pass, image>> /\ pass = 0
    BY DEF Arguments, ArgumentStep, TakeFormat, UnknownFormat, SetOutput, SetOrigin, SetLevel,
      Predefine, BadOption, TakeInput, SecondInput, NoOutput, Settle, GiveUp, Skip, Option, FileInv
  <1>2. ~InImage'
    <2>1. 0 # 2 /\ 0 # 1
      OBVIOUS
    <2>2. QED
      BY <1>1, <2>1 DEF InImage, Passes
  <1>3. QED
    BY <1>1, <1>2 DEF ImageInv

LEMMA ImageKept ==
  TypeInv /\ FileInv /\ ReachInv /\ IdsInv /\ LaidInv /\ SeenInv /\ ImageInv /\ [Next]_vars => ImageInv'
  <1> SUFFICES ASSUME TypeInv, FileInv, ReachInv, IdsInv, LaidInv, SeenInv, ImageInv, [Next]_vars PROVE ImageInv'
    OBVIOUS
  <1>1. CASE UNCHANGED vars
    BY <1>1 DEF vars, input, output, symbols, verdict, layout, ImageInv, Settled, InImage, AllHold, PieceHolds
  <1>2. QED
    BY <1>1, ImageLine, ImageEmit, ImageMain, ImageArguments DEF Next

(* In the object of a steady program that was assembled without complaint  *)
(* every field but a segment or a far pointer holds what its operand is    *)
(* worth in the end, $ being where its line begins, and every displacement *)
(* leads there (OP_CMD_REL8, REL16, ASSEMBLR.C:377-416): forward references*)
(* included.                                                               *)
THEOREM ReferencesRight == Spec => []ReferencesResolved
  <1> DEFINE Inv == TypeInv /\ FileInv /\ ReachInv /\ IdsInv /\ LaidInv /\ SeenInv /\ ImageInv
  <1>1. Init => Inv
    BY TypeInit, FileInit, ReachInit, IdsInit, LaidInit, SeenInit, ImageInit
  <1>2. Inv /\ [Next]_vars => Inv'
    BY TypesKept, FileKept, ReachKept, IdsKept, LaidKept, SeenKept, ImageKept
  <1>3. Inv => ReferencesResolved
    <2> SUFFICES ASSUME Inv, Delivered, steady, NEW i \in DOMAIN image
                 PROVE  LET c == image[i]
                            v == Value([consts EXCEPT ![Dollar].value = Began(trace[1][c.line])], c.scope, c.e)
                        IN \/ c.kind \in {"seg", "far"}
                           \/ c.width = 4 /\ ~IsLinked(c) /\ ~IsNumber(c.e)
                           \/ c.kind = "abs" /\ c.value = Cut(v, c.width)
                           \/ c.kind = "based" /\ (v < -128 \/ Signed(c.value, c.width) % Word = v % Word)
                           \/ c.kind = "rel" /\ (c.ofs + c.width + Signed(c.value, c.width)) % Word = v % Word
      BY DEF ReferencesResolved
    <2>1. Settled /\ InImage
      BY DEF FileInv, OutputOnlyIfClean, Delivered, Settled, InImage
    <2>2. PieceHolds(consts, trace[1], image[i])
      BY <2>1 DEF ImageInv, AllHold
    <2>3. QED
      BY <2>2 DEF PieceHolds, Resolved, WithDollar, IsLinked
  <1>4. QED
    BY <1>1, <1>2, <1>3, PTL DEF Spec
=============================================================================
