------------------------------ MODULE OnePass -------------------------------
(***************************************************************************)
(* What the two passes amount to: an assembler that knows every symbol     *)
(* from the start goes over the program once, a whole line at a time.  A   *)
(* line's label is what was known of it, its fields follow one another     *)
(* from where it begins, and each holds what its operand is worth.         *)
(*                                                                         *)
(* It promises this of programs it says nothing about: a complaint, or a   *)
(* program whose sizes depend on what comes later, silences it.            *)
(***************************************************************************)
EXTENDS Statements

VARIABLES
  prog,    (* the lines                                                     *)
  phase,   (* "before", "working", "silent" or "delivered"                  *)
  known,   (* the symbols                                                   *)
  at,      (* the line to be laid out                                       *)
  section, (* the section it goes to                                        *)
  ptr,     (* how far each section has come                                 *)
  scope,   (* the global label last met                                     *)
  fields   (* what has been laid out, opcode bytes left out                 *)
vars == <<prog, phase, known, at, section, ptr, scope, fields>>
-----------------------------------------------------------------------------
(* Where an n-byte field of chunk c begins within it, and the size of both.*)
FieldStart(c) == IF c.form \in {"addr", "based"} THEN 1 ELSE 0
FieldSize(c, v) ==
  CASE c.form = "bytes" -> 0
    [] c.form \in {"byte", "rel8"} -> 1
    [] c.form \in {"word", "rel16", "addr", "far"} -> 2
    [] c.form = "long" -> 4
    [] c.form = "based" -> IF v < 128 THEN 1 ELSE 2
ChunkSize(c, v) ==
  CASE c.form = "bytes" -> c.n
    [] c.form = "far" -> 4
    [] OTHER -> FieldStart(c) + FieldSize(c, v)

-----------------------------------------------------------------------------
(* Below, tab holds the symbols, $ the start of the line among them, and   *)
(* sc is the scope its operands are read in.                               *)

(* A DD item that is no label is the number it begins with, or 0.          *)
Digits(e) == IF e # <<>> /\ e[1].op = "+" /\ e[1].sym.kind = "number" THEN e[1].sym.n ELSE 0
(* What the field of chunk c holds when v is what its operand is worth and *)
(* next the offset of the byte after it: the segment and the far pointer   *)
(* are left to the linker.                                                 *)
Holds(tab, sc, c, v, next) ==
  CASE c.form \in {"byte", "word", "addr", "based"} ->
         IF c.form = "word" /\ SegRef(tab, c.e) THEN 0 ELSE Cut(v, FieldSize(c, v))
    [] c.form \in {"rel8", "rel16"} -> Cut(v - next, FieldSize(c, v))
    [] c.form = "far" -> 0
    [] c.form = "long" -> IF SingleRef(tab, sc, c.e) THEN v ELSE Digits(c.e)
(* A chunk without an operand, or with one that is worth something.        *)
Certain(tab, sc, c) ==
  \/ c.form = "bytes" \/ GetConst(tab, sc, c.e).said = {}
  \/ c.form = "word" /\ SegRef(tab, c.e)
  \/ c.form = "long" /\ ~SingleRef(tab, sc, c.e)

Chunks(stmt) ==
  CASE stmt.op \in {"db", "dw", "dd"} -> Items(stmt)
    [] stmt.op = "instr" ->
         IF Taken(stmt.ins) = {} THEN Lead(stmt)
         ELSE Lead(stmt) \o RowChunks(CHOOSE row \in Taken(stmt.ins) : TRUE, stmt.ins.params)
    [] OTHER -> <<>>
(* What has been laid out, and how far, once chunk c is behind what st has *)
(* laid out in section sec.                                                *)
Lay(tab, sc, sec, st, c) ==
  LET v    == Value(tab, sc, c.e)
      ofs  == st.ofs + FieldStart(c)
      size == FieldSize(c, v)
      end  == st.ofs + ChunkSize(c, v)
  IN [ofs    |-> IF sec = "BSS" THEN end ELSE end % Word,
      fields |-> IF c.form = "bytes" THEN st.fields
                 ELSE Append(st.fields, [sec |-> sec, ofs |-> ofs, width |-> size,
                                         value |-> Holds(tab, sc, c, v, ofs + size)])]
(* The fields of the chunks, one after the other from offset here on, and  *)
(* where they end.                                                         *)
LaidOut(tab, sc, chunks, sec, here) ==
  LET laid[k \in 0..Len(chunks)] ==
        IF k = 0 THEN [ofs |-> here, fields |-> <<>>]
        ELSE Lay(tab, sc, sec, laid[k - 1], chunks[k])
  IN laid[Len(chunks)]

(* What a line says of its name is what was known.                         *)
Foreseen(tab, stmt, sc, sec, here) ==
  LET name == QName(stmt.label, sc)
  IN stmt.label.kind # "none" =>
       IF stmt.op = "equ"
       THEN HasType(tab, name, {"EXPR"}) /\ tab[name].value = Value(tab, sc, stmt.e)
       ELSE /\ HasType(tab, name, {LabelType(sec)})
            /\ tab[name].section = sec /\ tab[name].value = here
-----------------------------------------------------------------------------
(* Nothing has been laid out.                                              *)
Blank ==
  /\ known = EmptyTable /\ at = 1 /\ section = "TEXT" /\ scope = NoScope /\ fields = <<>>
  /\ ptr = [s \in Sections |-> 0]

Begin ==
  /\ phase = "before" /\ phase' = "working"
  /\ IsTable(known') /\ {Dollar, Origin} \subseteq DOMAIN known'
  /\ at' = 1 /\ section' = "TEXT" /\ scope' = NoScope /\ fields' = <<>>
  /\ ptr' = [TEXT |-> known'[Origin].value, DATA |-> 0, BSS |-> 0]
  /\ UNCHANGED prog

LayLine ==
  /\ phase = "working" /\ at <= Len(prog) /\ (at > 1 => prog[at - 1].op # "end")
  /\ LET stmt  == prog[at]
         here  == ptr[section]
         tab   == [known EXCEPT ![Dollar].value = here]
         name  == IF stmt.label.kind = "none" THEN NoScope ELSE QName(stmt.label, scope)
         sc    == IF Anchors(stmt) THEN name ELSE scope
         chunks == Chunks(stmt)
         laid  == LaidOut(tab, sc, chunks, section, here)
     IN /\ Foreseen(tab, stmt, scope, section, here)
        /\ \A i \in DOMAIN chunks : Certain(tab, sc, chunks[i])
        /\ fields' = fields \o laid.fields
        /\ ptr' = IF stmt.op = "res"
                  THEN [ptr EXCEPT !["BSS"] = @ + stmt.n * Value(tab, sc, stmt.e)]
                  ELSE [ptr EXCEPT ![section] = laid.ofs]
        /\ section' = IF stmt.op = "section" THEN SectionNamed(stmt.names[1].name) ELSE section
        /\ scope' = IF stmt.op = "section" THEN NoScope ELSE sc
  /\ at' = at + 1
  /\ UNCHANGED <<prog, phase, known>>

(* Only a program laid out to its end is delivered.                        *)
Deliver ==
  /\ phase = "working" /\ phase' = "delivered"
  /\ at > Len(prog) \/ (at > 1 /\ prog[at - 1].op = "end")
  /\ UNCHANGED <<prog, known, at, section, ptr, scope, fields>>

FallSilent ==
  /\ phase \in {"before", "working"} /\ phase' = "silent" /\ Blank' /\ UNCHANGED prog

Init == phase = "before" /\ Blank
Next == Begin \/ LayLine \/ Deliver \/ FallSilent
Spec == Init /\ [][Next]_vars
=============================================================================
