----------------------------- MODULE Assembler -----------------------------
(***************************************************************************)
(* The two passes of MSA.C and ASSEMBLR.C over the lines the preprocessor  *)
(* delivers: the symbols each line defines, the bytes it emits into the    *)
(* text, data and bss sections, the relocation records of an RDOFF2        *)
(* object, and the verdict main exits with.                                *)
(*                                                                         *)
(* Pass 0 finds the symbols and pass 1 emits with them: what the first     *)
(* pass leaves behind (symbols, the origin, import ids) and what the       *)
(* second starts afresh (pointers, scope, diagnostics) decide whether the  *)
(* two lay the program out alike.                                          *)
(*                                                                         *)
(* CommandLine settles what main starts from, Opcodes what an instruction  *)
(* is laid out in, Rdoff what an object is on disk.                        *)
(***************************************************************************)
EXTENDS CommandLine, Statements, Rdoff

CONSTANTS
  Programs,         (* the programs, each a sequence of statements          *)
  Jobs,             (* the command lines and programs tried together        *)
  Placements,       (* where a linker may put a module                      *)
  OpenFails         (* whether opening the output file may fail             *)

Passes == 2
ErrorKinds == {"deep", "parent", "outside", "section", "local", "target",
               "defined", "org", "syntax", "seg", "short", "far", "entry", "open", "source", "zero"}
WarningKinds == {"undefined", "changed", "range"}

(* No program renames the assembler's own $ and $$, or omits what %define  *)
(* needs, which the preprocessor reports; a line whose first word is a     *)
(* directive of the preprocessor has no label.  Encoder has the            *)
(* instructions whose rows are wrong.                                      *)
ASSUME ProgramsAssumption ==
  /\ Programs \subseteq Seq(Statement)
  /\ \A p \in Programs : \A i \in DOMAIN p :
       /\ p[i].ins.cmd \notin {"SAL", "BOUND"} \cup Directives
       /\ p[i].op = "%define" => Len(p[i].names) = 2
       /\ p[i].op \in {"%undef", "section", "export"} => Len(p[i].names) = 1
       /\ p[i].op \in {"%define", "%undef"} => p[i].label = NoSym
       /\ \A s \in {p[i].label} \cup (IF p[i].op = "export" THEN {} ELSE Range(p[i].names)) :
            s.name \notin {"$", "$$"}
ASSUME JobsAssumption == Jobs \subseteq [argv : CommandLines, prog : Programs]
ASSUME PlacementsAssumption == Placements \subseteq [code : Nat, data : Nat, import : Nat]

VARIABLES
  prog,        (* the lines, directives expanded                            *)
  pass,        (* 0 or 1 while assembling, Passes at the end                *)
  at,          (* the line being handled                                    *)
  todo,        (* the chunks it has still to emit                           *)
  section,     (* cur_section                                               *)
  ptr,         (* outptr, dataptr and bss_amount                            *)
  scope,       (* last_global                                               *)
  nextImport,  (* next_import_id                                            *)
  relocs,      (* relocs, newest first                                      *)
  errors,      (* what the errors counted since the pass began were about   *)
  warnings,    (* the same for warnings                                     *)
  object,      (* what the pass that ended last wrote                       *)
  image,       (* the chunks this pass put into outprog and dataprog        *)
  trace,       (* history: for each pass, where each line and chunk began   *)
  reported,    (* history: every error printed                              *)
  steady       (* whether the program gives pass 1 no reason to differ      *)

input  == <<prog, steady, argv, arg, inputname, outname, target, isOrgDef>>
output == <<object, exit, file>>
symbols == <<scope, consts, nextImport>>
verdict == <<errors, warnings, reported>>
layout  == <<section, ptr, org, entry>>
vars == <<input, output, symbols, verdict, layout, pass, pc, at, todo, relocs, image, trace>>
-----------------------------------------------------------------------------
(* What evaluating e complains of: a division by zero on every pass,       *)
(* anything else only on the second.                                       *)
Complaints(tab, sc, e) ==
  GetConst(tab, sc, e).said \cap (IF pass = 0 THEN {"zero"} ELSE ErrorKinds \cup WarningKinds)
-----------------------------------------------------------------------------
(* The line loop of assemble.                                              *)

Stmt == prog[at]
Here == ptr[section]
Past(offsets, sec, n) ==
  [offsets EXCEPT ![sec] = IF sec = "BSS" THEN @ + n ELSE (@ + n) % Word]
Bump(sec, n) == Past(ptr, sec, n)

(* Errors and warnings of a set of complaints.                             *)
Report(said) ==
  /\ errors'   = errors \cup (said \cap ErrorKinds)
  /\ warnings' = warnings \cup (said \cap WarningKinds)
  /\ reported' = reported \cup (said \cap ErrorKinds)

OnLine(op) == pc = "line" /\ at <= Len(prog) /\ Stmt.op = op

(* NAME EQU v has a name but no address label.                             *)
HasLabel == Stmt.label.kind # "none" /\ Stmt.op # "equ"
LineName == IF Stmt.label.kind = "none" THEN NoScope ELSE QName(Stmt.label, scope)
(* Defect: a line with a label leaves $ where the line before had it.      *)
LineConstsOldDollar ==
  IF HasLabel
  THEN SetSection(AddConst(consts, LineName, LabelType(section), Here), LineName, section)
  ELSE [consts EXCEPT ![Dollar].value = Here]

(* The table once $ is set and the line's label defined.                   *)
LineConsts ==
  LET tab == [consts EXCEPT ![Dollar].value = Here]
  IN IF HasLabel
     THEN SetSection(AddConst(tab, LineName, LabelType(section), Here), LineName, section)
     ELSE tab
LabelScope == IF Anchors(Stmt) THEN LineName ELSE scope
LineScope  == IF HasLabel THEN LabelScope ELSE scope
LineSaid ==
  IF ~HasLabel THEN {}
  ELSE (IF NoParent(Stmt.label, scope) /\ pass > 0 THEN {"parent"} ELSE {}) \cup
       (IF ConstChanged(consts, LineName, LabelType(section), Here, pass)
        THEN {"changed"} ELSE {})

Traced ==
  trace' = [trace EXCEPT ![pass] = Append(@, [name |-> LineName, scope |-> scope, section |-> section,
                                              ptrs |-> <<ptr>>, equ |-> Stmt.op = "equ"])]
(* How far the line has come with the chunk it has emitted.                *)
TracedOn == trace' = [trace EXCEPT ![pass][at].ptrs = Append(@, ptr')]
Done == at' = at + 1 /\ Traced /\ UNCHANGED <<input, output, pass, todo, relocs, image>>

LabelAlone ==
  /\ OnLine("")
  /\ consts' = LineConsts /\ scope' = LineScope /\ Report(LineSaid)
  /\ Done /\ UNCHANGED <<pc, layout, nextImport>>

(* A line that emits starts on its chunks.                                 *)
Starts(chunks, said) ==
  /\ consts' = LineConsts /\ scope' = LineScope /\ Report(LineSaid \cup said)
  /\ todo' = chunks /\ pc' = "emit" /\ Traced
  /\ UNCHANGED <<input, output, pass, at, relocs, image, layout, nextImport>>
List == (\E op \in {"db", "dw", "dd"} : OnLine(op)) /\ Starts(Items(Stmt), {})

Lex  == lookupLex(Stmt.ins.cmd)
Instr ==
  /\ OnLine("instr") /\ Lex # "NONE" /\ section = "TEXT"
  /\ \E row \in Taken(Stmt.ins) : Starts(Lead(Stmt) \o RowChunks(row, Stmt.ins.params), {})
NoRow ==
  /\ OnLine("instr") /\ Lex # "NONE" /\ section = "TEXT" /\ Taken(Stmt.ins) = {}
  /\ Starts(Lead(Stmt), {"syntax"})
OutsideText ==
  /\ OnLine("instr") /\ Lex # "NONE" /\ section # "TEXT"
  /\ Starts(Lead(Stmt), {"outside"})

(* RESB, RESW, RESD: bss_amount grows, whatever the section.               *)
Reserve ==
  /\ OnLine("res")
  /\ consts' = LineConsts /\ scope' = LineScope
  /\ ptr' = Bump("BSS", Stmt.n * Value(LineConsts, LineScope, Stmt.e))
  /\ Report(LineSaid \cup Complaints(LineConsts, LineScope, Stmt.e))
  /\ Done /\ UNCHANGED <<pc, section, org, entry, nextImport>>

SectionDirective ==
  /\ OnLine("section")
  /\ LET s == SectionNamed(Stmt.names[1].name)
     IN /\ section' = IF s = "unknown" THEN section ELSE s
        /\ Report(LineSaid \cup (IF s = "unknown" THEN {"section"} ELSE {}))
  /\ consts' = LineConsts /\ scope' = NoScope
  /\ Done /\ UNCHANGED <<pc, ptr, org, entry, nextImport>>

(* Defect: only the first pass marks exports.                              *)
ExportFirstPass ==
  /\ OnLine("export")
  /\ LET name == [inv |-> 0, path |-> <<Stmt.names[1].name>>]
     IN /\ consts' = IF pass > 0 \/ name \notin DOMAIN LineConsts
                     THEN LineConsts ELSE [LineConsts EXCEPT ![name].export = TRUE]
        /\ Report(LineSaid)
  /\ scope' = LineScope
  /\ Done /\ UNCHANGED <<pc, layout, nextImport>>

(* EXPORT looks the name up as it is spelled.                              *)
Export ==
  /\ OnLine("export")
  /\ LET sym  == Stmt.names[1]
         name == [inv |-> 0, path |-> <<sym.name>>]
     IN /\ consts' = IF sym.kind = "local" \/ name \notin DOMAIN LineConsts
                     THEN LineConsts ELSE [LineConsts EXCEPT ![name].export = TRUE]
        /\ Report(LineSaid \cup (IF sym.kind = "local" THEN {"local"} ELSE {}))
  /\ scope' = LineScope
  /\ Done /\ UNCHANGED <<pc, layout, nextImport>>

(* Defect: an import met again is given the next id.                       *)
ImportAgain(st, sym) ==
  [st EXCEPT !.tab = AddConst(@, [inv |-> 0, path |-> <<sym.name>>], "IMPORT", st.next),
             !.next = @ + 1]

(* IMPORT takes a list; a name a former pass imported keeps its id.        *)
ImportName(st, sym) ==
  LET name == [inv |-> 0, path |-> <<sym.name>>]
  IN CASE sym.kind = "local" -> [st EXCEPT !.said = @ \cup {"local"}]
       [] sym.kind # "local" /\ name \notin DOMAIN st.tab ->
            [st EXCEPT !.tab = AddConst(@, name, "IMPORT", st.next), !.next = @ + 1]
       [] OTHER -> IF HasType(st.tab, name, {"IMPORT"}) \/ pass > 0 THEN st
                   ELSE [st EXCEPT !.said = @ \cup {"defined"}]
(* Defect: the next line's imports start from the same id.                 *)
ImportSameId ==
  /\ OnLine("import") /\ target = "rdf"
  /\ LET st == [tab |-> LineConsts, next |-> nextImport, said |-> LineSaid]
         to == FoldLeft(ImportName, st, Stmt.names)
     IN consts' = to.tab /\ Report(to.said)
  /\ scope' = LineScope /\ nextImport' = nextImport
  /\ Done /\ UNCHANGED <<pc, layout>>

Import ==
  /\ OnLine("import")
  /\ LET st == [tab |-> LineConsts, next |-> nextImport, said |-> LineSaid]
         to == IF target = "rdf" THEN FoldLeft(ImportName, st, Stmt.names)
               ELSE [st EXCEPT !.said = @ \cup {"target"}]
     IN consts' = to.tab /\ nextImport' = to.next /\ Report(to.said)
  /\ scope' = LineScope
  /\ Done /\ UNCHANGED <<pc, layout>>

(* Defect: the origin is not cut to a word.                                *)
OrgUnwrapped ==
  /\ OnLine("org") /\ ~isOrgDef
  /\ LET v == Value(LineConsts, LineScope, Stmt.e)
     IN /\ org' = v /\ ptr' = [ptr EXCEPT !["TEXT"] = v]
        /\ consts' = [LineConsts EXCEPT ![Origin].value = v]
  /\ Report(LineSaid \cup Complaints(LineConsts, LineScope, Stmt.e))
  /\ scope' = LineScope
  /\ Done /\ UNCHANGED <<pc, section, entry, nextImport>>

(* ORG: refused when a format was asked for that has an origin of its own. *)
OrgDirective ==
  /\ OnLine("org") /\ ~isOrgDef
  /\ LET v == Value(LineConsts, LineScope, Stmt.e) % Word
     IN /\ org' = v /\ ptr' = [ptr EXCEPT !["TEXT"] = v]
        /\ consts' = [LineConsts EXCEPT ![Origin].value = v]
  /\ Report(LineSaid \cup Complaints(LineConsts, LineScope, Stmt.e))
  /\ scope' = LineScope
  /\ Done /\ UNCHANGED <<pc, section, entry, nextImport>>
OrgRefused ==
  /\ OnLine("org") /\ isOrgDef
  /\ consts' = LineConsts /\ scope' = LineScope /\ Report(LineSaid \cup {"org"})
  /\ Done /\ UNCHANGED <<pc, layout, nextImport>>

End ==
  /\ OnLine("end")
  /\ consts' = LineConsts /\ scope' = LineScope
  /\ entry' = IF Stmt.e = <<>> THEN entry
              ELSE [value |-> Value(LineConsts, LineScope, Stmt.e) % Word, def |-> TRUE]
  /\ Report(LineSaid \cup Complaints(LineConsts, LineScope, Stmt.e))
  /\ pc' = "end"
  /\ Done /\ UNCHANGED <<section, ptr, org, nextImport>>

Equ ==
  /\ OnLine("equ")
  /\ LET v == Value(LineConsts, scope, Stmt.e)
     IN /\ consts' = AddConst(LineConsts, LineName, "EXPR", v)
        /\ Report(Complaints(LineConsts, scope, Stmt.e)
             \cup (IF NoParent(Stmt.label, scope) /\ pass > 0 THEN {"parent"} ELSE {})
             \cup (IF ConstChanged(LineConsts, LineName, "EXPR", v, pass)
                   THEN {"changed"} ELSE {}))
  /\ scope' = LabelScope
  /\ Done /\ UNCHANGED <<pc, layout, nextImport>>

(* A command no table knows stops the pass, after LOCK and REP before it.  *)
SyntaxError ==
  /\ OnLine("instr") /\ Lex = "NONE"
  /\ consts' = LineConsts /\ scope' = LineScope /\ Report(LineSaid \cup {"syntax"})
  /\ ptr' = Bump(section, Stmt.ins.lead) /\ pc' = "end"
  /\ Done /\ UNCHANGED <<section, org, entry, nextImport>>

(* %define and %undef are handled before the line is split: no $, no label.*)
(* A %define counts on pass 0, an %undef on every pass.                    *)
Directive == at' = at + 1 /\ Traced /\ UNCHANGED <<input, output, verdict, layout, pass, pc, todo,
                                                   scope, nextImport, relocs, image>>
Define ==
  /\ OnLine("%define")
  /\ LET name == [inv |-> 0, path |-> <<Stmt.names[1].name>>]
     IN consts' = IF pass > 0 THEN consts
                  ELSE SetExtra(AddConst(consts, name, "DEFINE", 0), name,
                                DefineBody(Stmt.names[2]))
  /\ Directive
Undef ==
  /\ OnLine("%undef")
  /\ consts' = RemoveConst(consts, [inv |-> 0, path |-> <<Stmt.names[1].name>>])
  /\ Directive

(* Defect: the end of the source is missed by a line.                      *)
ExhaustedLate ==
  /\ pc = "line" /\ at > Len(prog) + 1
  /\ pc' = "end"
  /\ UNCHANGED <<input, output, symbols, verdict, layout, pass, at, todo, relocs, image, trace>>

Exhausted ==
  /\ pc = "line" /\ at > Len(prog)
  /\ pc' = "end"
  /\ UNCHANGED <<input, output, symbols, verdict, layout, pass, at, todo, relocs, image, trace>>
-----------------------------------------------------------------------------
(* do_instruction and the DB, DW and DD loops, one chunk at a time.        *)

Next1 == Head(todo)
Emitting(form) == pc = "emit" /\ todo # <<>> /\ Next1.form = form

Lookup    == Value(consts, scope, Next1.e)
IsRef     == SingleRef(consts, scope, Next1.e)
Ref       == Referent(consts, scope, Next1.e)
ImportRef == IsRef /\ Ref.type = "IMPORT"
Said      == Complaints(consts, scope, Next1.e)
(* What single_symbol_ref complains of where get_const is not called.      *)
Qualified == IF pass > 0 /\ IsName(Next1.e) /\ NoParent(Next1.e[1].sym, scope)
             THEN {"parent"} ELSE {}

Reloc(ofs, width, seg, rel, para) ==
  [sec |-> section, ofs |-> ofs, width |-> width, seg |-> seg, rel |-> rel, para |-> para]
(* add_reloc and add_segreloc keep records of the last pass only.          *)
AddReloc(list, r) ==
  IF target = "rdf" /\ pass = Passes - 1 THEN <<r>> \o list ELSE list

(* width bytes of value v land at offset ofs, as kind; size bytes in all.  *)
Put(kind, ofs, width, v, size) ==
  /\ ptr' = Bump(section, size)
  /\ image' = Append(image, [line |-> at, sec |-> section, ofs |-> ofs, width |-> width, kind |-> kind,
                             wide |-> Next1.wide, e |-> Next1.e, scope |-> scope,
                             value |-> v])
  /\ todo' = Tail(todo) /\ TracedOn
  /\ UNCHANGED <<input, output, symbols, section, org, entry, pass, pc, at>>

EmitBytes ==
  /\ Emitting("bytes")
  /\ ptr' = Bump(section, Next1.n) /\ todo' = Tail(todo) /\ TracedOn
  /\ UNCHANGED <<input, output, symbols, verdict, section, org, entry, pass, pc, at,
                 relocs, image>>

EmitByte ==
  /\ Emitting("byte")
  /\ Put("abs", Here, 1, Cut(Lookup, 1), 1) /\ Report(Said) /\ UNCHANGED relocs

(* emit_word_with_reloc: SEG of a symbol has the linker fill a segment in. *)
RejectSeg ==
  /\ Emitting("word") /\ target # "rdf" /\ IsSegForm(Next1.e)
  /\ Put("seg", Here, 2, 0, 2) /\ Report({"seg"}) /\ UNCHANGED relocs
EmitSeg ==
  /\ Emitting("word") /\ target = "rdf" /\ SegRef(consts, Next1.e)
  /\ relocs' = AddReloc(relocs, Reloc(Here, 2, ReferentSeg(consts[SegName(Next1.e)]),
                                      FALSE, TRUE))
  /\ Put("seg", Here, 2, 0, 2) /\ UNCHANGED verdict
EmitWord ==
  /\ Emitting("word")
  /\ IF target = "rdf" THEN ~SegRef(consts, Next1.e) ELSE ~IsSegForm(Next1.e)
  /\ relocs' = IF IsRef THEN AddReloc(relocs, Reloc(Here, 2, ReferentSeg(Ref), FALSE, FALSE))
               ELSE relocs
  /\ Put("abs", Here, 2, Cut(Lookup, 2), 2) /\ Report(Said)

(* A DD item that is no symbol is read as a number: up to what is no digit.*)
EmitLong ==
  /\ Emitting("long")
  /\ relocs' = IF IsRef THEN AddReloc(relocs, Reloc(Here, 4, ReferentSeg(Ref), FALSE, FALSE))
               ELSE relocs
  /\ LET e      == Next1.e
         digits == e # <<>> /\ e[1].op = "+" /\ e[1].sym.kind = "number"
     IN Put("abs", Here, 4, IF IsRef THEN Lookup ELSE IF digits THEN e[1].sym.n ELSE 0, 4)
  /\ Report(IF IsRef THEN Said ELSE Qualified)

(* Defect: the displacement is counted from its own byte.                  *)
EmitRel8FromHere ==
  /\ Emitting("rel8") /\ ~ImportRef
  /\ LET disp == Lookup - Here
     IN /\ Put("rel", Here, 1, Cut(disp, 1), 1)
        /\ Report(Said \cup (IF pass > 0 /\ disp \notin -128..127 THEN {"range"} ELSE {}))
  /\ UNCHANGED relocs

(* OP_CMD_REL8: a displacement from the next byte.                         *)
EmitRel8 ==
  /\ Emitting("rel8") /\ ~ImportRef
  /\ LET disp == Lookup - (Here + 1)
     IN /\ Put("rel", Here, 1, Cut(disp, 1), 1)
        /\ Report(Said \cup (IF pass > 0 /\ disp \notin -128..127 THEN {"range"} ELSE {}))
  /\ UNCHANGED relocs
ShortToImport ==
  /\ Emitting("rel8") /\ ImportRef
  /\ Put("rel", Here, 1, 0, 1) /\ Report(Qualified \cup (IF pass > 0 THEN {"short"} ELSE {}))
  /\ UNCHANGED relocs

(* OP_CMD_REL16: the displacement, or minus the next offset for a linker   *)
(* to add the import to.                                                   *)
EmitRel16 ==
  /\ Emitting("rel16") /\ ~ImportRef
  /\ Put("rel", Here, 2, Cut(Lookup - (Here + 2), 2), 2) /\ Report(Said)
  /\ UNCHANGED relocs
NearToImport ==
  /\ Emitting("rel16") /\ ImportRef
  /\ relocs' = AddReloc(relocs, Reloc(Here, 2, ReferentSeg(Ref), TRUE, FALSE))
  /\ Put("rel", Here, 2, Cut(-(Here + 2), 2), 2) /\ Report(Qualified)

(* OP_CMD_FAR_PTR: four zero bytes, and both halves to the linker.         *)
FarRejected ==
  /\ Emitting("far") /\ (target = "rdf" => ~IsRef)
  /\ Put("far", Here, 2, 0, 4)
  /\ Report((IF pass > 0 THEN {"far"} ELSE {}) \cup (IF target = "rdf" THEN Qualified ELSE {}))
  /\ UNCHANGED relocs
(* Defect: the segment's record patches the offset's place.                *)
EmitFarOnePlace ==
  /\ Emitting("far") /\ target = "rdf" /\ IsRef
  /\ relocs' = AddReloc(AddReloc(relocs, Reloc(Here, 2, ReferentSeg(Ref), FALSE, FALSE)),
                        Reloc(Here, 2, ReferentSeg(Ref), FALSE, TRUE))
  /\ Put("far", Here, 2, 0, 4) /\ Report(Qualified)

EmitFar ==
  /\ Emitting("far") /\ target = "rdf" /\ IsRef
  /\ relocs' = AddReloc(AddReloc(relocs, Reloc(Here, 2, ReferentSeg(Ref), FALSE, FALSE)),
                        Reloc(Here + 2, 2, ReferentSeg(Ref), FALSE, TRUE))
  /\ Put("far", Here, 2, 0, 4) /\ Report(Qualified)

(* Defect: the record is put at the modrm byte.                            *)
EmitAddressAtModrm ==
  /\ Emitting("addr")
  /\ relocs' = IF IsRef /\ Next1.wide
               THEN AddReloc(relocs, Reloc(Here, 2, ReferentSeg(Ref), FALSE, FALSE))
               ELSE relocs
  /\ Put("abs", Here + 1, 2, Cut(Lookup, 2), 3) /\ Report(Said)

(* do_rm_op with [e]: a modrm byte and a displacement word, which only the *)
(* 16-bit forms have the linker patch.                                     *)
EmitAddress ==
  /\ Emitting("addr")
  /\ relocs' = IF IsRef /\ Next1.wide
               THEN AddReloc(relocs, Reloc(Here + 1, 2, ReferentSeg(Ref), FALSE, FALSE))
               ELSE relocs
  /\ Put("abs", Here + 1, 2, Cut(Lookup, 2), 3) /\ Report(Said)

(* do_rm_op with [BX+e]: a displacement below 0x80 takes one byte, any     *)
(* other a word.                                                           *)
EmitBased ==
  /\ Emitting("based")
  /\ LET size == IF Lookup < 128 THEN 1 ELSE 2
     IN Put("based", Here + 1, size, Cut(Lookup, size), 1 + size)
  /\ Report(Said) /\ UNCHANGED relocs

LineEmitted ==
  /\ pc = "emit" /\ todo = <<>>
  /\ pc' = "line" /\ at' = at + 1
  /\ UNCHANGED <<input, output, symbols, verdict, layout, pass, todo, relocs, image, trace>>
-----------------------------------------------------------------------------
(* The pass loop of main.                                                  *)

(* check_entry_point complains before the pass's count of errors is reset. *)
EntrySaid ==
  IF pass > 0 /\ \/ target = "com" /\ entry.value # 256
                 \/ target = "texe" /\ ~entry.def
  THEN {"entry"} ELSE {}
(* Defect: the data pointer runs on into the second pass.                  *)
StartPassKeepsData ==
  /\ pc = "main" /\ pass < Passes /\ inputname # ""
  /\ reported' = reported \cup EntrySaid
  /\ errors' = {} /\ warnings' = {}
  /\ ptr' = [ptr EXCEPT !["TEXT"] = org, !["BSS"] = 0] /\ section' = "TEXT"
  /\ relocs' = <<>> /\ image' = <<>>
  /\ nextImport' = 3 /\ scope' = NoScope
  /\ at' = 1 /\ pc' = "line" /\ file' = "opened"
  /\ UNCHANGED <<input, object, exit, consts, pass, todo, org, entry, trace>>

StartPass ==
  /\ pc = "main" /\ pass < Passes /\ inputname # ""
  /\ reported' = reported \cup EntrySaid
  /\ errors' = {} /\ warnings' = {}
  /\ ptr' = [TEXT |-> org, DATA |-> 0, BSS |-> 0] /\ section' = "TEXT"
  /\ relocs' = <<>> /\ image' = <<>>
  /\ nextImport' = 3 /\ scope' = NoScope
  /\ at' = 1 /\ pc' = "line" /\ file' = "opened"
  /\ UNCHANGED <<input, object, exit, consts, pass, todo, org, entry, trace>>

(* The output file cannot be opened: done(2).                              *)
CannotOpen ==
  /\ OpenFails /\ pc = "main" /\ pass < Passes
  /\ Report({"open"}) /\ exit' = 2 /\ pc' = "exit" /\ file' = "removed"
  /\ UNCHANGED <<input, symbols, layout, pass, at, todo, relocs, object, image, trace>>

(* There is no source: assemble returns at once, what is written is empty, *)
(* and there is no second pass.                                            *)
NoSource ==
  /\ pc = "main" /\ pass < Passes /\ inputname = ""
  /\ Report({"source"}) /\ file' = "written" /\ pass' = Passes
  /\ UNCHANGED <<input, object, exit, symbols, layout, pc, at, todo, relocs, image, trace>>

(* The size bytes of section sec from offset first on; what no field       *)
(* covers is opcode, left as it may be.                                    *)
Extent(c) == IF c.kind = "far" THEN 4 ELSE c.width
Bytes(sec, first, size) ==
  LET Byte1(o) ==
        LET over == {i \in DOMAIN image : /\ image[i].sec = sec /\ image[i].ofs <= o
                                          /\ o < image[i].ofs + Extent(image[i])}
            c    == image[Max(over)]
        IN IF over = {} THEN 144 ELSE (c.value \div 256^(o - c.ofs)) % 256
  IN [i \in 1..size |-> Byte1((first + i - 1) % Word)]

(* write_exe_header: the size in pages of 512 bytes, and the entry point.  *)
Pages(size) ==
  [last |-> size % 512, pages |-> size \div 512 + (IF size % 512 = 0 THEN 0 ELSE 1),
   ip |-> entry.value]
NoPages == [last |-> 0, pages |-> 0, ip |-> 0]

(* write_rdf, or the flat image: every symbol that is an import, every     *)
(* other one that is exported.                                             *)
CodeSize == (ptr["TEXT"] - org) % Word
Object ==
  [imports |-> {[name |-> n, id |-> consts[n].value] : n \in
                  {m \in DOMAIN consts : consts[m].type = "IMPORT"}},
   globals |-> {[name |-> n, seg |-> SectionId(consts[n].section), ofs |-> consts[n].value] :
                  n \in {m \in DOMAIN consts : consts[m].export /\ consts[m].type # "IMPORT"}},
   code    |-> Bytes("TEXT", 0, CodeSize),
   data    |-> Bytes("DATA", 0, ptr["DATA"]),
   bss     |-> ptr["BSS"],
   relocs  |-> relocs,
   exe     |-> NoPages]
Flat(code) == [imports |-> {}, globals |-> {}, code |-> code, data |-> <<>>, bss |-> 0,
               relocs |-> <<>>, exe |-> IF target = "texe" THEN Pages(Len(code)) ELSE NoPages]
(* Defect: the header of the first pass is left standing.                  *)
EndPassOldHeader ==
  /\ pc = "end"
  /\ object' = IF target = "rdf" THEN Object
               ELSE [Flat(Bytes("TEXT", org, CodeSize)) EXCEPT
                       !.exe = IF pass = 0 THEN @ ELSE object.exe]
  /\ file' = "written" /\ pass' = pass + 1 /\ pc' = "main"
  /\ UNCHANGED <<input, symbols, verdict, layout, at, todo, relocs, image, trace, exit>>

EndPass ==
  /\ pc = "end"
  /\ object' = IF target = "rdf" THEN Object ELSE Flat(Bytes("TEXT", org, CodeSize))
  /\ file' = "written" /\ pass' = pass + 1 /\ pc' = "main"
  /\ UNCHANGED <<input, symbols, verdict, layout, at, todo, relocs, image, trace, exit>>

(* Defect: only errors have the file removed.                              *)
ExitKeepsWarned ==
  /\ pc = "main" /\ pass = Passes
  /\ exit' = IF errors # {} THEN 2 ELSE IF warnings # {} THEN 1 ELSE 0
  /\ file' = IF exit' < 2 THEN file ELSE "removed"
  /\ pc' = "exit"
  /\ UNCHANGED <<input, object, symbols, verdict, layout, pass, at, todo, relocs, image, trace>>

(* done removes the file unless there was nothing to complain of.          *)
Exit ==
  /\ pc = "main" /\ pass = Passes
  /\ exit' = IF errors # {} THEN 2 ELSE IF warnings # {} THEN 1 ELSE 0
  /\ file' = IF exit' = 0 THEN file ELSE "removed"
  /\ pc' = "exit"
  /\ UNCHANGED <<input, object, symbols, verdict, layout, pass, at, todo, relocs, image, trace>>
-----------------------------------------------------------------------------
Init ==
  /\ \E j \in Jobs : argv = j.argv /\ prog = j.prog
  /\ steady = Steady(prog)
  /\ ArgumentsInit
  /\ pass = 0 /\ at = 1 /\ todo = <<>>
  /\ section = "TEXT" /\ ptr = [TEXT |-> 0, DATA |-> 0, BSS |-> 0]
  /\ scope = NoScope /\ nextImport = 3 /\ relocs = <<>>
  /\ errors = {} /\ warnings = {} /\ reported = {}
  /\ object = Flat(<<>>)
  /\ image = <<>> /\ trace = [p \in 0..Passes-1 |-> <<>>]

Arguments ==
  /\ ArgumentStep
  /\ UNCHANGED <<prog, steady, pass, at, todo, section, ptr, scope, nextImport, relocs, verdict,
                 object, image, trace>>
LineStep ==
  \/ LabelAlone \/ List \/ Instr \/ NoRow \/ OutsideText \/ Reserve \/ SectionDirective \/ Export
  \/ Import \/ OrgDirective \/ OrgRefused \/ End \/ Equ \/ SyntaxError
  \/ Define \/ Undef \/ Exhausted
EmitStep ==
  \/ EmitBytes \/ EmitByte \/ RejectSeg \/ EmitSeg \/ EmitWord \/ EmitLong
  \/ EmitRel8 \/ ShortToImport \/ EmitRel16 \/ NearToImport
  \/ FarRejected \/ EmitFar \/ EmitAddress \/ EmitBased \/ LineEmitted
MainStep == StartPass \/ CannotOpen \/ NoSource \/ EndPass \/ Exit
Next == Arguments \/ LineStep \/ EmitStep \/ MainStep

Spec     == Init /\ [][Next]_vars
FairSpec == Spec /\ WF_vars(Next)
-----------------------------------------------------------------------------
(* What the properties speak of.                                           *)

Delivered == pc = "exit" /\ exit = 0
Signed(v, width) == IF width = 1 /\ v >= 128 THEN v - 256 ELSE v
IsLinked(c) == SingleRef(consts, c.scope, c.e)
Target(c)   == Referent(consts, c.scope, c.e)

(* The relocation records chunk c calls for, with the final symbols.       *)
Patch(c, ofs, seg, rel, para) ==
  [sec |-> c.sec, ofs |-> ofs, width |-> c.width, seg |-> seg, rel |-> rel, para |-> para]
Links(c) ==
  CASE c.kind = "seg" -> {Patch(c, c.ofs, ReferentSeg(consts[SegName(c.e)]), FALSE, TRUE)}
    [] c.kind = "abs" /\ c.width > 1 /\ IsLinked(c) ->
         {Patch(c, c.ofs, ReferentSeg(Target(c)), FALSE, FALSE)}
    [] c.kind = "rel" /\ IsLinked(c) /\ Target(c).type = "IMPORT" ->
         {Patch(c, c.ofs, ReferentSeg(Target(c)), TRUE, FALSE)}
    [] c.kind = "far" -> {Patch(c, c.ofs, ReferentSeg(Target(c)), FALSE, FALSE),
                          Patch(c, c.ofs + 2, ReferentSeg(Target(c)), FALSE, TRUE)}
    [] OTHER -> {}
-----------------------------------------------------------------------------
(* An offset in .text or .data is one of a field of at most four bytes     *)
(* that begins within 16 bits; what RESB is given may be negative, and     *)
(* lowers bss_amount.                                                      *)
Offsets(sec) == IF sec = "BSS" THEN Int ELSE 0..Word+1
TraceLine == [name : Name, scope : Name, section : Sections, ptrs : Seq([Sections -> Int]), equ : BOOLEAN]
Began(t)  == t.ptrs[1][t.section]
Patches   == {r \in [sec : Sections, ofs : Int, width : {2, 4}, seg : Nat, rel : BOOLEAN,
                     para : BOOLEAN] : r.ofs \in Offsets(r.sec)}
(* Types, the diagnostics each pass may hold, and the 16 bits of outptr,   *)
(* dataptr, org and entry_point (MSA.C:54-75).                             *)
TypeOK ==
  /\ arg \in Nat \ {0}
  /\ target \in Formats \cup (IF pc \in {"args", "exit"} THEN {"undef"} ELSE {})
  /\ isOrgDef \in BOOLEAN
  /\ pass \in 0..Passes /\ pc \in {"args", "main", "line", "emit", "end", "exit"}
  /\ file \in {"untouched", "opened", "written", "removed"}
  /\ at \in Nat \ {0} /\ todo \in Seq(Chunk)
  /\ section \in Sections /\ ptr \in [Sections -> Int]
  /\ ptr["TEXT"] \in 0..Word-1 /\ ptr["DATA"] \in 0..Word-1
  /\ org \in 0..Word-1 /\ entry \in [value : 0..Word-1, def : BOOLEAN]
  /\ scope \in Name /\ IsTable(consts)
  /\ pc \notin {"args", "exit"} => {Dollar, Origin} \subseteq DOMAIN consts
  /\ nextImport \in Nat /\ relocs \in Seq(Patches)
  /\ errors \subseteq ErrorKinds /\ warnings \subseteq WarningKinds
  /\ reported \subseteq ErrorKinds /\ exit \in {-1, 0, 1, 2}
  /\ trace \in [0..Passes-1 -> Seq(TraceLine)]

(* The two passes agree where every line but ORG begins, and every chunk   *)
(* of it: what a line of pass 1 reads of a label further down, pass 0's    *)
(* offset, is where pass 1 puts it (main resets the pointers and the       *)
(* section, MSA.C:328-331, and assemble the scope, ASSEMBLR.C:480).        *)
PassesLayOutAlike ==
  Delivered /\ steady =>
    /\ Len(trace[0]) = Len(trace[1])
    /\ \A i \in DOMAIN trace[0] : prog[i].op = "org" \/ trace[0][i] = trace[1][i]

(* Whatever is emitted for an operand holds the operand's final value, $   *)
(* being where its line begins, and a displacement leads to it             *)
(* (OP_CMD_REL8, REL16, ASSEMBLR.C:377-416): forward references included,  *)
(* which pass 1 resolves with the symbols of pass 0.  Left out: a [BX-n]   *)
(* below -128 and a DD item that is neither a number nor a label, which    *)
(* the code cuts short.                                                    *)
IsNumber(e) == Len(e) = 1 /\ e[1].op = "+" /\ e[1].sym.kind = "number"
ReferencesResolved ==
  Delivered /\ steady =>
    \A i \in DOMAIN image :
      LET c == image[i]
          v == Value([consts EXCEPT ![Dollar].value = Began(trace[1][c.line])], c.scope, c.e)
      IN \/ c.kind \in {"seg", "far"}
         \/ c.width = 4 /\ ~IsLinked(c) /\ ~IsNumber(c.e)
         \/ c.kind = "abs" /\ c.value = Cut(v, c.width)
         \/ c.kind = "based" /\ (v < -128 \/ Signed(c.value, c.width) % Word = v % Word)
         \/ c.kind = "rel" /\ (c.ofs + c.width + Signed(c.value, c.width)) % Word = v % Word

(* Linked at any bases, every field of the object says where its symbol    *)
(* has come to be: a word or double word its address, a call of an import  *)
(* or a jump within the section the way to it, SEG and the second half of  *)
(* a far pointer its paragraph; every other field is as it was emitted,    *)
(* and each record is about one field.  It relates add_reloc and its       *)
(* callers (ASSEMBLR.C:39-160), write_rdf and both passes.  A record of    *)
(* what is emitted in .bss counts, though there is no field to judge: it   *)
(* and the byte forms of [e] are what RecordsWhereBytes is about, the      *)
(* first half of a far pointer to a label of this module FarOffsetKept.    *)
Leads(m, place, c, v, width) ==
  (Base(m, place, SectionId(c.sec)) + c.ofs + width + Signed(v, width)) % Word
LinksRight ==
  Delivered /\ steady /\ target = "rdf" =>
    LET m == ReadRdf(WriteRdf(object))
        placed == {i \in DOMAIN image : image[i].sec # "BSS"}
        Moved(place, c) ==  (* the address of the symbol of c *)
          Base(m, place, ReferentSeg(Target(c)))
            + (IF Target(c).type = "IMPORT" THEN 0 ELSE Target(c).value)
        Para(place, name) == Paragraph(place, ReferentSeg(consts[name]))
    IN /\ m.fixups = Cardinality(UNION {Links(c) : c \in {x \in Range(image) : x.wide}})
       /\ \A place \in Placements, i \in placed :
            LET c == image[i]
                field == LinkedField(m, place, SectionId(c.sec), c.ofs, c.width)
            IN CASE c.kind = "seg" -> field = Para(place, SegName(c.e))
                 [] c.kind = "abs" /\ c.width > 1 /\ c.wide /\ IsLinked(c) -> field = Moved(place, c)
                 [] c.kind = "rel" /\ IsLinked(c) ->
                      \/ Target(c).type # "IMPORT" /\ Target(c).section # c.sec
                      \/ Leads(m, place, c, field, c.width) = Moved(place, c) % Word
                 [] c.kind = "far" ->
                      /\ Target(c).type = "IMPORT" => field = Moved(place, c)
                      /\ LinkedField(m, place, SectionId(c.sec), c.ofs + 2, 2)
                           = Para(place, QName(c.e[1].sym, c.scope))
                 [] OTHER -> field = c.value

(* Whoever reads the file by its specification reads the object that was   *)
(* written: the header ends where its size says, each record and name      *)
(* where its length says, and the segments follow (RDF.C:46-204, which     *)
(* reckons every size apart from what it writes).                          *)
ObjectReadable ==
  Delivered /\ target = "rdf" =>
    LET m == ReadRdf(WriteRdf(object))
        Chars(name) == Front(Asciiz(name))
    IN /\ m.whole
       /\ m.imports = {[id |-> i.id, name |-> Chars(i.name)] : i \in object.imports}
       /\ m.globals = {[seg |-> g.seg, ofs |-> g.ofs, name |-> Chars(g.name)] : g \in object.globals}
       /\ m.fixups = Len(relocs)
       /\ m.relocs = {[segment |-> SectionId(r.sec), ofs |-> r.ofs, width |-> r.width,
                       seg |-> r.seg, rel |-> r.rel, para |-> r.para] : r \in Range(relocs)}
       /\ m.bss = ptr["BSS"] /\ Len(m.code) = ptr["TEXT"] /\ Len(m.data) = ptr["DATA"]
       /\ \A i \in {k \in DOMAIN image : image[k].sec # "BSS"} :
            LET c == image[i]
                p == [code |-> 0, data |-> 0, import |-> 0]
            IN LinkedField([m EXCEPT !.relocs = {}], p, SectionId(c.sec), c.ofs, c.width) = c.value

(* The header of an .exe, written with what pass 0 knew and again after    *)
(* each pass, is that of the program delivered, moved or not: the pages    *)
(* hold its code and it starts where the first END says, or at 0 if there  *)
(* is none or it says nothing (MSA.C:126-166, 336-343).                    *)
ExeHeaderFresh ==
  Delivered /\ target = "texe" =>
    LET ends  == With(prog, "end")
        start == IF ends = {} THEN <<>> ELSE prog[Min(ends)].e
        exe   == object.exe
    IN /\ exe.ip = (IF start = <<>> THEN 0 ELSE Value(consts, scope, start) % Word)
       /\ exe.last \in 0..511 /\ ptr["TEXT"] % 512 = exe.last
       /\ 512 * exe.pages \in ptr["TEXT"]..ptr["TEXT"] + 511

(* A file is left behind by a run that complained of nothing, and only by  *)
(* one that came to its end; no other leaves one half written (done,       *)
(* MSA.C:158-166).                                                         *)
OutputOnlyIfClean ==
  pc = "exit" =>
    /\ exit = 0 <=> file = "written"
    /\ file # "opened"
    /\ exit = 0 => pass = Passes /\ errors \cup warnings = {}

(* No pointer ever went back in pass 1: none ran over its 16 bits, and no  *)
(* RESB took bytes away.                                                   *)
Within(p, q) == \A s \in Sections : p[s] <= q[s]
NeverBack ==
  \A i \in DOMAIN trace[1] : \A k \in DOMAIN trace[1][i].ptrs :
    /\ Within(trace[1][i].ptrs[k], ptr)
    /\ \A j \in DOMAIN trace[1] : \A l \in DOMAIN trace[1][j].ptrs :
         i < j \/ (i = j /\ k < l) => Within(trace[1][i].ptrs[k], trace[1][j].ptrs[l])

(* Nothing but RESB, RESW and RESD is met in .bss.                         *)
OnlyReserved == \A i \in DOMAIN image : image[i].sec # "BSS"

(* The records of an object patch bytes of its code or of its data, each   *)
(* byte at most once (add_reloc and its callers, ASSEMBLR.C:39-160),       *)
(* unless a pointer went back or data was emitted in .bss, which has no    *)
(* bytes: RecordsWhereBytes is about that.                                 *)
RelocsPatchable ==
  Delivered /\ target = "rdf" /\ NeverBack /\ OnlyReserved =>
    \A i \in DOMAIN relocs :
      LET r == relocs[i]
      IN /\ \/ r.sec = "TEXT" /\ r.ofs + r.width <= Len(object.code)
            \/ r.sec = "DATA" /\ r.ofs + r.width <= Len(object.data)
         /\ \A j \in DOMAIN relocs :
              \/ i = j \/ relocs[j].sec # r.sec
              \/ relocs[j].ofs + relocs[j].width <= r.ofs
              \/ r.ofs + r.width <= relocs[j].ofs

(* No import takes the 0, 1 or 2 of a section, and two never share an id,  *)
(* though next_import_id starts at 3 again in pass 1 (ASSEMBLR.C:479), as  *)
(* long as no %undef takes an import out of the table between.             *)
ImportIdsUnique ==
  /\ \A n \in DOMAIN consts : consts[n].type = "IMPORT" => consts[n].value \notin 0..2
  /\ (\A i \in DOMAIN prog : prog[i].op # "%undef") =>
       \A m, n \in DOMAIN consts :
         consts[m].type = "IMPORT" /\ consts[n].type = "IMPORT" /\ m # n =>
           consts[m].value # consts[n].value

(* A label EXPORTed before or after its line is a global of the object, at *)
(* the offset the object has it at (ASSEMBLR.C:848, RDF.C:164).            *)
ExportsComplete ==
  Delivered /\ steady /\ target = "rdf" =>
    \A i \in DOMAIN prog, k \in DOMAIN trace[1] :
      /\ prog[i].op = "export" /\ Spelled(prog[i].names[1]) = trace[1][k].name
      /\ ~trace[1][k].equ
      /\ \A j \in 1..i : prog[j].op # "end"
      => [name |-> trace[1][k].name, seg |-> SectionId(trace[1][k].section),
          ofs |-> Began(trace[1][k])] \in object.globals

(* An import keeps the id it was given: words already emitted and relocs   *)
(* already recorded name it (ASSEMBLR.C:875).                              *)
ImportsKeepIds ==
  [][\A n \in DOMAIN consts \cap DOMAIN consts' :
       consts[n].type = "IMPORT" /\ consts'[n].type = "IMPORT" =>
         consts'[n].value = consts[n].value]_vars

(* Every run of the assembler ends with an exit code.                      *)
Termination == <>(pc = "exit")

(* Claims of the documentation and of the code's own messages.             *)

(* DOC.TXT, "Constant X changed": a name defined with different values     *)
(* across passes is reported, and a report keeps the exit code from being 0*)
MovesReported ==
  pc = "exit" /\ pass = Passes =>
    \A i \in DOMAIN trace[0] \cap DOMAIN trace[1] :
      /\ trace[0][i].name = trace[1][i].name /\ trace[0][i].name # NoScope
      /\ ~trace[0][i].equ /\ Began(trace[0][i]) # Began(trace[1][i])
      => exit # 0

(* out_msg at level 0 is an error, and main exits with 2 after an error.   *)
ErrorsFail == pc = "exit" /\ reported # {} => exit = 2

(* DOC.TXT, -f rdf: references to labels between sections produce          *)
(* RDFREC_RELOC records; ASSEMBLR.C:184 and MSA2.H:159: there is none for  *)
(* .bss, which has no backing bytes to patch.                              *)
RecordsWhereBytes ==
  Delivered /\ target = "rdf" =>
    /\ \A i \in DOMAIN image :
         /\ image[i].sec # "BSS" /\ IsLinked(image[i])
         /\ Target(image[i]).section # image[i].sec
         => Links(image[i]) \subseteq Range(relocs)
    /\ \A r \in Range(relocs) : r.sec \in {"TEXT", "DATA"}

(* DOC.TXT, "Labels, DB, DW and DD": a DD line is a list of values.        *)
ListsWhole ==
  Delivered =>
    LET longs == {i \in DOMAIN image : image[i].width = 4}
    IN Cardinality(longs) >=
         FoldLeft(LAMBDA n, s : IF s.op = "dd" THEN n + Len(s.steps) ELSE n, 0, prog)

(* DOC.TXT, "JMP/CALL FAR": the symbol may be local, and the RELOC on the  *)
(* offset slot resolves it: the linker adds the section's base to the slot.*)
FarOffsetKept ==
  Delivered =>
    \A i \in DOMAIN image :
      image[i].kind = "far" /\ Target(image[i]).type # "IMPORT" =>
        image[i].value = Target(image[i]).value
=============================================================================
