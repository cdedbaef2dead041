---------------------------- MODULE Preprocessor ----------------------------
(***************************************************************************)
(* The line reader and preprocessor of MACRO.C, with the directive half of *)
(* assemble()'s read loop (ASSEMBLR.C) that drives it.  Every line of the  *)
(* source is met twice, once a pass: the first pass registers %define and  *)
(* %macro bodies in the constant table, the second finds them there.       *)
(*                                                                         *)
(* A program is a function from the names of the files that can be opened  *)
(* to their lines, as strip_line() leaves them.  The three stacks of the   *)
(* code (pending lines, saved scopes, include frames) are sequences whose  *)
(* last element is the top.                                                *)
(***************************************************************************)
EXTENDS SymbolTable, SequencesExt

CONSTANTS
  Sources,     (* the programs to read                                     *)
  Main,        (* the file named on the command line                       *)
  MacroMax,    (* MACRO_RECURSION_MAX: expansions in flight                *)
  IncludeMax,  (* INCLUDE_MAX_DEPTH: files suspended by %include           *)
  ArgMax,      (* positional arguments of a %macro                         *)
  Keywords     (* the commands lookupLex() knows                           *)

ASSUME LimitsAssumption ==
  /\ MacroMax \in Nat \ {0}
  /\ IncludeMax \in Nat \ {0}
  /\ ArgMax \in Nat

(* No program spells an @@<id> name: only an expansion makes one.          *)
ASSUME SourcesAssumption ==
  \A s \in Sources : \A f \in DOMAIN s :
    /\ f \in STRING
    /\ s[f] \in Seq(Line) /\ \A i \in DOMAIN s[f] : s[f][i].label.kind # "unique"

ASSUME NamesAssumption == Main \in STRING /\ Keywords \subseteq STRING

VARIABLES
  src,          (* the program, fixed once chosen                          *)
  pass,         (* 0 or 1 while assembling, Passes at the end              *)
  pc,           (* where assemble() is, see PC                             *)
  line,         (* the line in hand                                        *)
  file,         (* current_file: its name and the lines read so far        *)
  incl,         (* include_stack_head                                      *)
  includeDepth, (* include_depth                                           *)
  linenr,
  inputname,    (* which string inputname points to, see Strings           *)
  freed,        (* the strings that have been freed                        *)
  pending,      (* macro_stack_head: lines waiting to be read              *)
  saves,        (* macro_save_head: scopes to restore                      *)
  lastGlobal,   (* last_global                                             *)
  invocId,      (* macro_invocation_id                                     *)
  consts,       (* constants                                               *)
  stop,         (* assemble()'s stop flag                                  *)
  errors,       (* the kinds of error reported in this pass                *)
  stream        (* history: the statements delivered, pass by pass         *)

readVars == <<file, incl, includeDepth, inputname, freed>>
macroVars == <<pending, saves, invocId>>
vars == <<src, pass, pc, line, readVars, linenr, macroVars, lastGlobal, consts,
          stop, errors, stream>>

Passes == 2

(* "main": in main()'s pass loop; "read": in pp_next_line(); "line": a line *)
(* is in hand; "close": the loop of assemble() is left; "exit": no source.  *)
PC == {"main", "read", "line", "close", "exit"}

(* inputname points to the argv string, 0, or to the copy of a path that   *)
(* pp_include() made when it went d files deep, d.                         *)
Strings == 0..IncludeMax

(* "%endmacrox" stands for a line that only begins with %ENDMACRO.         *)
Directives ==
  {"%macro", "%endmacro", "%endmacrox", "%include", "%define", "%undef", "%unknown"}

(* What the skipping of a body and the line loop take for its end; the     *)
(* slurping of one wants the whole word.                                   *)
BodyEnds == {"%endmacro", "%endmacrox"}

(* These four are recognised with an operand, and unknown without one.     *)
Operative == {"%macro", "%include", "%define", "%undef"}
IsDirective(l, op) ==
  l.op = op /\ (op \in Operative => l.args # <<>> /\ l.args[1] # NoSym)

ErrorKinds == {
  "cannot open input", "macro argc", "nested macro", "macro without endmacro",
  "endmacro without macro", "unknown directive", "include without path",
  "include too deep", "cannot open include", "define without body",
  "macro arg count", "macro recursion", "no parent", "syntax error"}

Sentinel     == [op |-> SentinelText, label |-> NoSym, args |-> <<>>]
LabelLine(s) == [op |-> "", label |-> s, args |-> <<>>]
NoLine       == LabelLine(NoSym)
MacroScope(id) == [inv |-> id, path |-> <<>>]

(* Keys of names the code does not qualify.                                *)
RawName(s)  == QName(s, NoScope)
Command(op) == [inv |-> 0, path |-> <<op>>]

Frame == [file : [name : STRING, pos : Nat], linenr : Nat, name : Strings]

Text == src[file.name]

TypeOK ==
  /\ \A f \in DOMAIN src : src[f] \in Seq(Line)
  /\ pass \in 0..Passes /\ pc \in PC
  /\ line \in Line
  /\ file \in [name : STRING, pos : Nat]
  /\ incl \in Seq(Frame) /\ includeDepth \in Nat
  /\ linenr \in Nat
  /\ inputname \in Strings /\ freed \subseteq Strings
  /\ pending \in Seq(Line \cup {Sentinel}) /\ saves \in Seq(Name)
  /\ lastGlobal \in Name /\ invocId \in Nat
  /\ IsTable(consts)
  /\ stop \in BOOLEAN
  /\ errors \subseteq ErrorKinds
  /\ stream \in [0..Passes-1 -> Seq([op : STRING, label : Name, args : Seq(Name)])]
-----------------------------------------------------------------------------
Report(kind) == errors' = errors \cup {kind}

(* pp_next_line() hands a line to assemble(), whose loop test comes after: *)
(* once stop is set the line is read, and dropped.                         *)
Deliver(l) ==
  \/ /\ ~stop
     /\ pc' = "line" /\ line' = l /\ linenr' = linenr + 1
  \/ /\ stop
     /\ pc' = "close" /\ UNCHANGED <<line, linenr>>

(* Mutant of StartPass: pp_reset_pass() is not called.                     *)
StartPassNoReset ==
  /\ pc = "main" /\ pass < Passes /\ Main \in DOMAIN src
  /\ pc' = "read"
  /\ file' = [name |-> Main, pos |-> 0]
  /\ linenr' = 0 /\ stop' = FALSE /\ lastGlobal' = NoScope
  /\ errors' = {}
  /\ UNCHANGED <<src, pass, line, incl, includeDepth, inputname, freed, consts,
                 stream, macroVars>>

(* A pass begins: errors are forgotten, assemble() opens the source and    *)
(* pp_reset_pass() clears what the last pass left of its expansions.       *)
StartPass ==
  /\ pc = "main" /\ pass < Passes /\ Main \in DOMAIN src
  /\ pc' = "read"
  /\ file' = [name |-> Main, pos |-> 0]
  /\ linenr' = 0 /\ stop' = FALSE /\ lastGlobal' = NoScope
  /\ pending' = <<>> /\ saves' = <<>> /\ invocId' = 0
  /\ errors' = {}
  /\ UNCHANGED <<src, pass, line, incl, includeDepth, inputname, freed, consts, stream>>

(* pp_open_source() fails: main() gives up after this pass.                *)
OpenFails ==
  /\ pc = "main" /\ pass < Passes /\ Main \notin DOMAIN src
  /\ pc' = "exit" /\ errors' = {"cannot open input"}
  /\ UNCHANGED <<src, pass, line, readVars, linenr, macroVars, lastGlobal, consts,
                 stop, stream>>

(* Mutants of EndExpansion: the saved scope is not popped; it is popped    *)
(* and not restored.                                                       *)
EndExpansionKeepsSave ==
  /\ pc = "read" /\ pending # <<>> /\ Last(pending) = Sentinel
  /\ pending' = Front(pending)
  /\ IF saves # <<>> THEN lastGlobal' = Last(saves) ELSE UNCHANGED lastGlobal
  /\ UNCHANGED <<src, pass, pc, line, readVars, linenr, saves, invocId, consts, stop,
                 errors, stream>>

EndExpansionKeepsScope ==
  /\ pc = "read" /\ pending # <<>> /\ Last(pending) = Sentinel
  /\ pending' = Front(pending)
  /\ saves' = IF saves # <<>> THEN Front(saves) ELSE saves
  /\ UNCHANGED <<src, pass, pc, line, readVars, linenr, lastGlobal, invocId, consts,
                 stop, errors, stream>>

(* pp_next_line(): a sentinel ends an expansion, its scope is restored and *)
(* reading goes on.                                                        *)
EndExpansion ==
  /\ pc = "read" /\ pending # <<>> /\ Last(pending) = Sentinel
  /\ pending' = Front(pending)
  /\ IF saves # <<>>
     THEN lastGlobal' = Last(saves) /\ saves' = Front(saves)
     ELSE UNCHANGED <<lastGlobal, saves>>
  /\ UNCHANGED <<src, pass, pc, line, readVars, linenr, invocId, consts, stop,
                 errors, stream>>

(* pp_next_line(): lines of an expansion come before the file's.           *)
ReadPending ==
  /\ pc = "read" /\ pending # <<>> /\ Last(pending) # Sentinel
  /\ pending' = Front(pending)
  /\ Deliver(Last(pending))
  /\ UNCHANGED <<src, pass, readVars, saves, invocId, lastGlobal, consts, stop,
                 errors, stream>>

ReadFile ==
  /\ pc = "read" /\ pending = <<>> /\ file.pos < Len(Text)
  /\ file' = [file EXCEPT !.pos = @ + 1]
  /\ Deliver(Text[file.pos + 1])
  /\ UNCHANGED <<src, pass, incl, includeDepth, inputname, freed, macroVars,
                 lastGlobal, consts, stop, errors, stream>>

AtEndOfFile == pc = "read" /\ pending = <<>> /\ file.pos = Len(Text)

(* Mutants of PopInclude: the counter goes down twice; inputname keeps     *)
(* pointing to the freed copy; the saved name is freed instead of it; the  *)
(* outermost frame is never popped.                                        *)
PopIncludeAs(depth, name, gone) ==
  /\ AtEndOfFile /\ incl # <<>>
  /\ file' = Last(incl).file /\ linenr' = Last(incl).linenr /\ incl' = Front(incl)
  /\ includeDepth' = depth /\ inputname' = name /\ freed' = freed \cup {gone}
  /\ UNCHANGED <<src, pass, pc, line, macroVars, lastGlobal, consts, stop, errors, stream>>

PopIncludeTwice      == PopIncludeAs(includeDepth - 2, Last(incl).name, inputname)
PopIncludeKeepsName  == PopIncludeAs(includeDepth - 1, inputname, inputname)
PopIncludeFreesSaved == PopIncludeAs(includeDepth - 1, Last(incl).name, Last(incl).name)
PopIncludeOffByOne   ==
  includeDepth > 1 /\ PopIncludeAs(includeDepth - 1, Last(incl).name, inputname)

(* pp_next_line(): the including file resumes and the path's copy is freed. *)
PopInclude ==
  /\ AtEndOfFile /\ incl # <<>>
  /\ file' = Last(incl).file
  /\ linenr' = Last(incl).linenr
  /\ freed' = freed \cup {inputname}
  /\ inputname' = Last(incl).name
  /\ incl' = Front(incl) /\ includeDepth' = includeDepth - 1
  /\ UNCHANGED <<src, pass, pc, line, macroVars, lastGlobal, consts, stop, errors, stream>>

EndOfSource ==
  /\ AtEndOfFile /\ incl = <<>>
  /\ pc' = "close"
  /\ UNCHANGED <<src, pass, line, readVars, linenr, macroVars, lastGlobal, consts,
                 stop, errors, stream>>

(* The end of assemble(): pp_close_source() closes and frees every include *)
(* frame that is left, saved name included, then assemble() frees a path   *)
(* that inputname still points to.  Freeing the argv string is undefined:  *)
(* the run may go on or end there.                                         *)
CloseSource ==
  /\ pc = "close"
  /\ freed' = freed \cup {incl[i].name : i \in DOMAIN incl}
                    \cup (IF inputname # 0 THEN {inputname} ELSE {})
  /\ inputname' = 0 /\ incl' = <<>> /\ includeDepth' = 0
  /\ \/ pc' = "main" /\ pass' = pass + 1
     \/ 0 \in freed' /\ pc' = "exit" /\ UNCHANGED pass
  /\ UNCHANGED <<src, line, file, linenr, macroVars, lastGlobal, consts, stop, errors, stream>>
-----------------------------------------------------------------------------
(* Every directive reads the next line when it is done.                    *)
Directive(op) ==
  /\ pc = "line" /\ IsDirective(line, op)
  /\ pc' = "read"
  /\ UNCHANGED <<src, pass, line, saves, invocId, lastGlobal, stop, stream, pending>>

(* The first unread line of the file with one of these directives, or one  *)
(* past its end.                                                           *)
FirstUnread(ops) ==
  LET hits == {i \in file.pos + 1..Len(Text) : \E op \in ops : IsDirective(Text[i], op)}
  IN  IF hits = {} THEN Len(Text) + 1 ELSE Min(hits)

ReadTo(i) ==
  LET end == IF i > Len(Text) THEN Len(Text) ELSE i
  IN  /\ file' = [file EXCEPT !.pos = end]
      /\ linenr' = linenr + (end - file.pos)
      /\ UNCHANGED <<incl, includeDepth, inputname, freed>>

(* The argument count of a %macro line, 0 when it has none; one above the  *)
(* limit is reported and taken for 0.                                      *)
ArgcTooBig == Len(line.args) > 1 /\ line.args[2].n > ArgMax
Argc       == IF Len(line.args) > 1 /\ ~ArgcTooBig THEN line.args[2].n ELSE 0
ArgcErrors == IF ArgcTooBig THEN {"macro argc"} ELSE {}

(* %macro NAME N, first pass: pp_macro_slurp() takes the body from the     *)
(* file, up to the word %ENDMACRO, and gives up at another %macro or at    *)
(* the file's end.                                                         *)
SlurpMacro ==
  LET end  == FirstUnread({"%macro", "%endmacro"})
      name == RawName(line.args[1])
  IN  /\ Directive("%macro") /\ pass = 0
      /\ ReadTo(end)
      /\ \/ /\ end <= Len(Text) /\ Text[end].op = "%endmacro"
            /\ consts' = SetExtra(AddConst(consts, name, "MACRO", 0), name,
                                  MacroBody(Argc, SubSeq(Text, file.pos + 1, end - 1)))
            /\ errors' = errors \cup ArgcErrors
         \/ /\ end <= Len(Text) /\ Text[end].op = "%macro"
            /\ errors' = errors \cup ArgcErrors \cup {"nested macro"}
            /\ UNCHANGED consts
         \/ /\ end > Len(Text)
            /\ errors' = errors \cup ArgcErrors \cup {"macro without endmacro"}
            /\ UNCHANGED consts

(* Mutant of SkipMacro: the skipped lines are not counted.                 *)
SkipMacroUncounted ==
  LET end == FirstUnread(BodyEnds)
  IN  /\ Directive("%macro") /\ pass > 0
      /\ file' = [file EXCEPT !.pos = IF end > Len(Text) THEN Len(Text) ELSE end]
      /\ errors' = errors \cup ArgcErrors
      /\ UNCHANGED <<incl, includeDepth, inputname, freed, linenr, consts>>

(* %macro, second pass: pp_skip_macro_body() passes over the lines up to   *)
(* one that begins with %ENDMACRO; nothing is registered.                  *)
SkipMacro ==
  /\ Directive("%macro") /\ pass > 0
  /\ ReadTo(FirstUnread(BodyEnds))
  /\ errors' = errors \cup ArgcErrors
  /\ UNCHANGED consts

EndMacroDirective ==
  /\ \E op \in BodyEnds : Directive(op)
  /\ Report("endmacro without macro")
  /\ UNCHANGED <<readVars, linenr, consts>>

UnknownDirective ==
  /\ pc = "line" /\ line.op \in Directives
  /\ \A op \in Directives \ {"%unknown"} : ~IsDirective(line, op)
  /\ pc' = "read" /\ Report("unknown directive")
  /\ UNCHANGED <<src, pass, line, readVars, linenr, macroVars, lastGlobal, consts,
                 stop, stream>>

(* %include: pp_include() suspends the current file, unless there is no    *)
(* path, the files are nested too deep, or the file cannot be opened.      *)
IncludeFails ==
  /\ Directive("%include")
  /\ \/ line.args[1].name = "" /\ Report("include without path")
     \/ /\ line.args[1].name # ""
        /\ includeDepth >= IncludeMax /\ Report("include too deep")
     \/ /\ line.args[1].name # "" /\ includeDepth < IncludeMax
        /\ line.args[1].name \notin DOMAIN src /\ Report("cannot open include")
  /\ UNCHANGED <<readVars, linenr, consts>>

IncludeDirective ==
  /\ Directive("%include") /\ line.args[1].name # ""
  /\ includeDepth < IncludeMax /\ line.args[1].name \in DOMAIN src
  /\ incl' = Append(incl, [file |-> file, linenr |-> linenr, name |-> inputname])
  /\ file' = [name |-> line.args[1].name, pos |-> 0]
  /\ linenr' = 0
  /\ includeDepth' = includeDepth + 1
  /\ inputname' = includeDepth + 1
  /\ freed' = freed \ {includeDepth + 1}
  /\ UNCHANGED <<consts, errors>>

(* The text after a %define's name, if there is any.                       *)
HasBody == Len(line.args) > 1 /\ line.args[2] # NoSym

(* Mutant of DefineDirective: an entry that exists keeps its payload.      *)
DefineKeepsExtra ==
  /\ Directive("%define")
  /\ \/ ~HasBody /\ Report("define without body") /\ UNCHANGED consts
     \/ HasBody /\ pass > 0 /\ UNCHANGED <<consts, errors>>
     \/ /\ HasBody /\ pass = 0
        /\ consts' = AddConst(consts, RawName(line.args[1]), "DEFINE", 0)
        /\ UNCHANGED errors
  /\ UNCHANGED <<readVars, linenr>>

(* %define NAME body: registered on the first pass only.                   *)
DefineDirective ==
  /\ Directive("%define")
  /\ \/ ~HasBody /\ Report("define without body") /\ UNCHANGED consts
     \/ HasBody /\ pass > 0 /\ UNCHANGED <<consts, errors>>
     \/ /\ HasBody /\ pass = 0
        /\ LET name == RawName(line.args[1])
           IN  consts' = SetExtra(AddConst(consts, name, "DEFINE", 0), name,
                                  DefineBody(line.args[2]))
        /\ UNCHANGED errors
  /\ UNCHANGED <<readVars, linenr>>

(* %undef NAME: the entry goes, whatever its type, on both passes.         *)
UndefDirective ==
  /\ Directive("%undef")
  /\ consts' = RemoveConst(consts, RawName(line.args[1]))
  /\ UNCHANGED <<readVars, linenr, errors>>
-----------------------------------------------------------------------------
(* macro_substitute(): %n becomes an argument, %%NAME becomes @@id.NAME.   *)
SubstituteSym(s, args, id) ==
  CASE s.kind = "fresh" -> [s EXCEPT !.kind = "unique", !.n = id]
    [] s.kind = "param" -> IF s.n \in DOMAIN args THEN args[s.n] ELSE NoSym
    [] OTHER            -> s

Substitute(l, args, id) ==
  [op    |-> l.op,
   label |-> SubstituteSym(l.label, args, id),
   args  |-> [i \in DOMAIN l.args |-> SubstituteSym(l.args[i], args, id)]]

IsMacro(op) == op # "" /\ HasType(consts, Command(op), {"MACRO"})

(* Mutant of Expansion: the body is stacked first line first.              *)
ExpansionForwards(macro, args, id) ==
  <<Sentinel>> \o [i \in DOMAIN macro.lines |-> Substitute(macro.lines[i], args, id)]

(* What pp_macro_invoke() stacks: the sentinel, and above it the body, its *)
(* first line on top.                                                      *)
Expansion(macro, args, id) ==
  <<Sentinel>> \o Reverse([i \in DOMAIN macro.lines |-> Substitute(macro.lines[i], args, id)])

(* assemble() meets a macro's name in command position: pp_macro_invoke()  *)
(* stacks a sentinel and the body above it and makes @@id the scope, or    *)
(* reports why it does not; then the line's own label, if any, is stacked  *)
(* on top as a line of its own.                                            *)
InvokeMacro ==
  /\ pc = "line" /\ line.op \notin Directives /\ IsMacro(line.op)
  /\ pc' = "read"
  /\ LET macro == consts[Command(line.op)].extra
         args  == IF Len(line.args) > ArgMax THEN SubSeq(line.args, 1, ArgMax) ELSE line.args
         id    == invocId + 1
         label == IF line.label = NoSym THEN <<>> ELSE <<LabelLine(line.label)>>
     IN  \/ /\ Len(args) # macro.argc
            /\ Report("macro arg count")
            /\ pending' = pending \o label
            /\ UNCHANGED <<saves, lastGlobal, invocId>>
         \/ /\ Len(args) = macro.argc /\ Len(saves) >= MacroMax
            /\ Report("macro recursion")
            /\ pending' = pending \o label
            /\ UNCHANGED <<saves, lastGlobal, invocId>>
         \/ /\ Len(args) = macro.argc /\ Len(saves) < MacroMax
            /\ invocId' = id
            /\ saves' = Append(saves, lastGlobal)
            /\ lastGlobal' = MacroScope(id)
            /\ pending' = pending \o Expansion(macro, args, id) \o label
            /\ UNCHANGED errors
  /\ UNCHANGED <<src, pass, line, readVars, linenr, consts, stop, stream>>
-----------------------------------------------------------------------------
(* The scope a label leaves in force: a label that is not local becomes    *)
(* the parent of the local ones after it.                                  *)
ScopeAfterLabel ==
  IF line.label.kind \in {"none", "local"} THEN lastGlobal ELSE RawName(line.label)

LabelName == IF line.label = NoSym THEN NoScope ELSE QName(line.label, lastGlobal)

(* What the assembler makes of a statement's names.                        *)
Resolved ==
  [op    |-> line.op,
   label |-> LabelName,
   args  |-> [i \in DOMAIN line.args |-> QName(line.args[i], ScopeAfterLabel)]]

(* A plain line: the label is defined, SECTION drops the scope, END and an *)
(* unknown command stop the pass.  Here a label's value is the number of   *)
(* statements before it.                                                   *)
Statement ==
  LET known   == line.op \in Keywords \cup {""}
      orphan  == /\ pass > 0
                 /\ \/ line.label.kind = "local" /\ lastGlobal = NoScope
                    \/ /\ ScopeAfterLabel = NoScope
                       /\ \E i \in DOMAIN line.args : line.args[i].kind = "local"
  IN  /\ pc = "line" /\ line.op \notin Directives /\ ~IsMacro(line.op)
      /\ pc' = "read"
      /\ consts' = IF line.label = NoSym THEN consts
                   ELSE AddConst(consts, LabelName, "LABEL", Len(stream[pass]))
      /\ lastGlobal' = IF line.op = "SECTION" THEN NoScope ELSE ScopeAfterLabel
      /\ stop' = (line.op = "END" \/ ~known)
      /\ errors' = errors \cup (IF orphan THEN {"no parent"} ELSE {})
                          \cup (IF known THEN {} ELSE {"syntax error"})
      /\ stream' = [stream EXCEPT ![pass] = Append(@, Resolved)]
      /\ UNCHANGED <<src, pass, line, readVars, linenr, macroVars>>
-----------------------------------------------------------------------------
Init ==
  /\ src \in Sources
  /\ pass = 0 /\ pc = "main" /\ line = NoLine
  /\ file = [name |-> Main, pos |-> 0] /\ incl = <<>> /\ includeDepth = 0
  /\ linenr = 0 /\ inputname = 0 /\ freed = {}
  /\ pending = <<>> /\ saves = <<>> /\ lastGlobal = NoScope /\ invocId = 0
  /\ consts = EmptyTable
  /\ stop = FALSE /\ errors = {}
  /\ stream = [p \in 0..Passes-1 |-> <<>>]

Read == EndExpansion \/ ReadPending \/ ReadFile \/ PopInclude \/ EndOfSource

Preprocess ==
  \/ SlurpMacro \/ SkipMacro \/ EndMacroDirective \/ UnknownDirective
  \/ IncludeDirective \/ IncludeFails \/ DefineDirective \/ UndefDirective
  \/ InvokeMacro

Next == StartPass \/ OpenFails \/ Read \/ Preprocess \/ Statement \/ CloseSource

(* The program is a single thread that never waits.                        *)
Spec == Init /\ [][Next]_vars
FairSpec == Spec /\ WF_vars(Next)
-----------------------------------------------------------------------------
(* Properties.                                                             *)

Sentinels == {i \in DOMAIN pending : pending[i] = Sentinel}

(* Each expansion in flight has one sentinel to end it and one saved scope,*)
(* so the recursion guard that counts saved scopes counts expansions; the  *)
(* include counter is the length of the include stack.  Neither stack      *)
(* outgrows its guard, however macros and files refer to each other.       *)
StackDiscipline ==
  /\ Cardinality(Sentinels) = Len(saves)
  /\ Len(saves) <= MacroMax
  /\ includeDepth = Len(incl)
  /\ includeDepth <= IncludeMax

(* Outside every expansion no @@<id> scope is in force: a local label of   *)
(* the file never binds to an expansion that is over (the restore of       *)
(* last_global in pp_next_line).                                           *)
ScopeClosed == saves = <<>> => lastGlobal.inv = 0

(* The include frames and inputname hold distinct strings, and, as long as *)
(* the argv string is not freed, none of them has been: no message prints  *)
(* a freed name and no name is freed twice.                                *)
NamesLive ==
  LET held == {incl[i].name : i \in DOMAIN incl} \cup {inputname}
  IN  /\ Cardinality(held) = Len(incl) + 1
      /\ 0 \notin freed => held \cap freed = {}

(* The argv string is freed only when the pass was stopped by END or an    *)
(* unknown command while a file was still suspended by %include.           *)
ArgvFreedOnlyByStop ==
  [][0 \in freed' => 0 \in freed \/ (stop /\ incl # <<>>)]_vars

(* "the pop path always restores whatever was saved" (pp_include): the     *)
(* name on the command line belongs to main() and is never freed.          *)
ArgvNeverFreed == 0 \notin freed

(* A constant table entry that is dispatched on as a macro or a %define    *)
(* has a payload of that kind behind its extra pointer, whatever other     *)
(* definitions the same name went through (add_const keeps extra).         *)
ExtraMatchesType ==
  \A n \in DOMAIN consts :
    /\ consts[n].type = "MACRO"  => consts[n].extra.tag = "macro"
    /\ consts[n].type = "DEFINE" => consts[n].extra.tag = "text"

LinesOf(s) == UNION {{s[f][i] : i \in DOMAIN s[f]} : f \in DOMAIN s}

(* The names the program gives to %macro, and the lines that may call one: *)
(* a macro comes before a command of its name (ASSEMBLR.C:628).            *)
MacroNames(s) == {RawName(m.args[1]) : m \in {l \in LinesOf(s) : IsDirective(l, "%macro")}}
Calls(s, l)   == l.op \notin Directives \cup {""} /\ Command(l.op) \in MacroNames(s)
CallFree(s)   == \A l \in LinesOf(s) : ~Calls(s, l)

(* Without macro calls, linenr is the line of the file in hand, through    *)
(* %include and back and over the bodies that either pass skips; and every *)
(* suspended file will get its own line back.                              *)
Attribution ==
  CallFree(src) =>
    /\ pc = "line" => linenr = file.pos
    /\ \A i \in DOMAIN incl : incl[i].linenr = incl[i].file.pos

(* Every %macro has its %endmacro in its file before another %macro, no    *)
(* body holds a line that begins with %ENDMACRO and goes on, which would   *)
(* end it on pass 1 only, no name is %macro'd twice, labelled or given to  *)
(* %define or %undef, and none is a command's, which pass 0 would take a   *)
(* call for that stands above the definition and pass 1 would expand.      *)
MacroLines(s) ==
  UNION {{<<f, i>> : i \in {j \in DOMAIN s[f] : IsDirective(s[f][j], "%macro")}} : f \in DOMAIN s}
StableMacros(s) ==
  /\ \A m \in MacroLines(s) :
       \E e \in DOMAIN s[m[1]] :
         /\ e > m[2] /\ s[m[1]][e].op = "%endmacro"
         /\ \A i \in m[2]+1..e-1 : s[m[1]][i].op \notin BodyEnds \cup {"%macro"}
  /\ \A m, k \in MacroLines(s) :
       m # k => s[m[1]][m[2]].args[1] # s[k[1]][k[2]].args[1]
  /\ \A m \in MacroLines(s), l \in LinesOf(s) :
       LET name == s[m[1]][m[2]].args[1]
       IN  /\ l.op \in {"%undef", "%define"} => l.args = <<>> \/ l.args[1] # name
           /\ l.label # name
  /\ MacroNames(s) \cap {Command(k) : k \in Keywords} = {}

(* Both passes deliver the same statements under the same names: bodies    *)
(* come from the first pass, expansion ids start again, nothing is left    *)
(* over from a pass that END stopped in the middle of an expansion.        *)
PassesAgree ==
  StableMacros(src) =>
    /\ IsPrefix(stream[1], stream[0])
    /\ pass = Passes => stream[1] = stream[0]

(* Cyclic %includes and self-invoking macros end: the depth guards leave   *)
(* nothing to wait for, and both passes run to their end.                  *)
Termination == <>(pass = Passes \/ pc = "exit")
=============================================================================
