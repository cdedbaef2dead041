------------------------- MODULE Refinement_proofs --------------------------
(***************************************************************************)
(* The proof that Assembler implements OnePass: every step of the two      *)
(* passes is a step of the one, or leaves what it speaks of as it was.     *)
(*                                                                         *)
(* What the one pass knows is the table pass 0 has left (Found); pass 1    *)
(* does not change it, so an operand is worth the same to both.  A line is *)
(* laid out by the step that ends it, and until then WorkInv says how much *)
(* of it there is.                                                         *)
(***************************************************************************)
EXTENDS TwoPasses_proofs

(* Both modules extend Statements: what one says of a line the other does. *)
LEMMA SameNames ==
  /\ OneGo!Sections = Sections /\ OneGo!NoScope = NoScope /\ OneGo!Dollar = Dollar /\ OneGo!Origin = Origin
  /\ OneGo!EmptyTable = EmptyTable /\ OneGo!Word = Word
  /\ \A s, sc : OneGo!QName(s, sc) = QName(s, sc)
  /\ \A tab, n, types : OneGo!HasType(tab, n, types) <=> HasType(tab, n, types)
  /\ \A sec : OneGo!LabelType(sec) = LabelType(sec) /\ OneGo!SectionNamed(sec) = SectionNamed(sec)
  /\ \A v, width : OneGo!Cut(v, width) = Cut(v, width)
  BY DEF
       Sections, OneGo!Sections, NoScope, OneGo!NoScope, Dollar, OneGo!Dollar, Origin, OneGo!Origin,
       EmptyTable, OneGo!EmptyTable, Word, OneGo!Word, QName, OneGo!QName, HasType, OneGo!HasType,
       LabelType, OneGo!LabelType, SectionNamed, OneGo!SectionNamed, Cut, OneGo!Cut, Fresh,
       OneGo!Fresh, NoExtra, OneGo!NoExtra, NoSym, OneGo!NoSym

LEMMA SameTables ==
  \A tab : OneGo!IsTable(tab) <=> IsTable(tab)
  BY SMTT(30) DEF
       IsTable, OneGo!IsTable, Name, OneGo!Name, Entry, OneGo!Entry, ConstTypes, OneGo!ConstTypes,
       Sections, OneGo!Sections, Extra, OneGo!Extra, Line, OneGo!Line, Sym, OneGo!Sym, SentinelText,
       OneGo!SentinelText, SymKinds, OneGo!SymKinds

LEMMA SameWorth ==
  ASSUME NEW tab, NEW sc, NEW e
  PROVE  OneGo!GetConst(tab, sc, e) = GetConst(tab, sc, e)
  BY DEF
       GetConst, OneGo!GetConst, TermRead, OneGo!TermRead, FoldLeft,
       OneGo!FoldLeft, Unread, OneGo!Unread, Read, OneGo!Read, Unknown, OneGo!Unknown, Apply,
       OneGo!Apply, MapThenFoldSet, OneGo!MapThenFoldSet, Max, OneGo!Max, Sym, OneGo!Sym, SymRead,
       OneGo!SymRead, QName, OneGo!QName, Quot, OneGo!Quot, SymKinds, OneGo!SymKinds, NoParent,
       OneGo!NoParent, Say, OneGo!Say, Abs, OneGo!Abs, NoScope, OneGo!NoScope

LEMMA SameReferences ==
  /\ \A tab, sc, e : OneGo!SingleRef(tab, sc, e) <=> SingleRef(tab, sc, e)
  /\ \A tab, e : OneGo!SegRef(tab, e) <=> SegRef(tab, e)
  BY DEF
       SingleRef, OneGo!SingleRef, SegRef, OneGo!SegRef, IsName, OneGo!IsName, HasType, OneGo!HasType,
       QName, OneGo!QName, Linkable, OneGo!Linkable, IsSegForm, OneGo!IsSegForm, SegName, OneGo!SegName

LEMMA SameRows ==
  OneGo!instr86 = instr86
  BY Zenon DEF
       instr86, OneGo!instr86, Simple, OneGo!Simple, Branch, OneGo!Branch, Arithmetic,
       OneGo!Arithmetic, Shifts, OneGo!Shifts, Moves, OneGo!Moves, Transfers, OneGo!Transfers, Alone,
       OneGo!Alone, Op, OneGo!Op, Jump8, OneGo!Jump8, InRows, OneGo!InRows, FromFirst, OneGo!FromFirst,
       ToFirst, OneGo!ToFirst, ToRm, OneGo!ToRm, RmImm, OneGo!RmImm, PlusRow, OneGo!PlusRow, OneRm,
       OneGo!OneRm, NarrowRm, OneGo!NarrowRm, ByCL, OneGo!ByCL, ShiftImm, OneGo!ShiftImm, SalImm,
       OneGo!SalImm, Row, OneGo!Row, Imm8, OneGo!Imm8, Imm16, OneGo!Imm16, PlusReg, OneGo!PlusReg,
       Reg8, OneGo!Reg8, Reg16, OneGo!Reg16, FromRm, OneGo!FromRm, Rm, OneGo!Rm, SegReg, OneGo!SegReg,
       Pointer, OneGo!Pointer, RmLine, OneGo!RmLine, Stack, OneGo!Stack, DistRow, OneGo!DistRow, Rel16,
       OneGo!Rel16, FarPtr, OneGo!FarPtr, Rel8, OneGo!Rel8, Entry0, OneGo!Entry0, AccImm, OneGo!AccImm

LEMMA SameLexicon ==
  \A w : OneGo!lookupLex(w) = lookupLex(w) /\ OneGo!RowsOf(w) = RowsOf(w)
  BY SameRows DEF
       lookupLex, OneGo!lookupLex, RowsOf, OneGo!RowsOf, Aliases, OneGo!Aliases, ByTheirName,
       OneGo!ByTheirName, Lexemes, OneGo!Lexemes, Directives, OneGo!Directives, RowLess, OneGo!RowLess

LEMMA SameTaken ==
  ASSUME NEW ins PROVE OneGo!Taken(ins) = Taken(ins)
  <1> PICK lex : lex = lookupLex(ins.cmd)
    OBVIOUS
  <1> PICK rows : rows = RowsOf(lex)
    OBVIOUS
  <1>1. OneGo!lookupLex(ins.cmd) = lex /\ OneGo!RowsOf(lex) = rows
    BY SameLexicon
  <1>2. OneGo!SelectInSeq(rows, LAMBDA row : OneGo!Matches(row, ins.dist, ins.params))
          = SelectInSeq(rows, LAMBDA row : Matches(row, ins.dist, ins.params))
    BY DEF
       SelectInSeq, OneGo!SelectInSeq, Matches, OneGo!Matches, Min, OneGo!Min, Fits, OneGo!Fits, Type,
       OneGo!Type, Range, OneGo!Range, Reg8, OneGo!Reg8, Reg16, OneGo!Reg16, SegReg, OneGo!SegReg
  <1>3. OneGo!RowFor(lex, ins.dist, ins.params) = RowFor(lex, ins.dist, ins.params)
    BY <1>1, <1>2 DEF RowFor, OneGo!RowFor
  <1>4. QED
    BY <1>1, <1>3 DEF Taken, OneGo!Taken

LEMMA SameChunks ==
  ASSUME NEW row, NEW params PROVE OneGo!RowChunks(row, params) = RowChunks(row, params)
  BY Zenon DEF
       RowChunks, OneGo!RowChunks, FlattenSeq, OneGo!FlattenSeq, EntryChunks, OneGo!EntryChunks, Fixed,
       OneGo!Fixed, Part, OneGo!Part, Text, OneGo!Text, Override, OneGo!Override, RmChunk,
       OneGo!RmChunk, Like, OneGo!Like, Based, OneGo!Based, Paired, OneGo!Paired, RmOf, OneGo!RmOf,
       Whole, OneGo!Whole, Number, OneGo!Number, SelectInSeq, OneGo!SelectInSeq, Min, OneGo!Min

LEMMA SameItems ==
  ASSUME NEW l
  PROVE  OneGo!Items(l) = Items(l) /\ OneGo!Lead(l) = Lead(l)
  BY DEF Items, OneGo!Items, Lead, OneGo!Lead, Fixed, OneGo!Fixed

LEMMA SameAnchors == ASSUME NEW l PROVE OneGo!Anchors(l) <=> Anchors(l)
  BY DEF Anchors, OneGo!Anchors

(* The chunks laid out one after the other: [k] is what the first k of     *)
(* them make.                                                              *)
NoneLaid(here) == [ofs |-> here, fields |-> <<>>]
Laid(tab, sc, sec, st, c) == OneGo!Lay(tab, sc, sec, st, c)
LaidBy(tab, sc, chunks, sec, here) ==
  CHOOSE f : f = [k \in 0..Len(chunks) |->
                    IF k = 0 THEN [ofs |-> here, fields |-> <<>>]
                    ELSE OneGo!Lay(tab, sc, sec, f[k - 1], chunks[k])]
LEMMA LaidByRuns ==
  ASSUME NEW tab, NEW sc, NEW chunks, Len(chunks) \in Nat, NEW sec, NEW here
  PROVE  /\ OneGo!LaidOut(tab, sc, chunks, sec, here) = LaidBy(tab, sc, chunks, sec, here)[Len(chunks)]
         /\ LaidBy(tab, sc, chunks, sec, here)[0] = NoneLaid(here)
         /\ \A k \in 1..Len(chunks) :
              LaidBy(tab, sc, chunks, sec, here)[k]
                = Laid(tab, sc, sec, LaidBy(tab, sc, chunks, sec, here)[k - 1], chunks[k])
  <1> PICK n : n = Len(chunks)
    OBVIOUS
  <1> PICK base : base = [ofs |-> here, fields |-> <<>>]
    OBVIOUS
  <1> DEFINE Goes(f, m) == f = [k \in 0..m |-> IF k = 0 THEN base
                                               ELSE OneGo!Lay(tab, sc, sec, f[k - 1], chunks[k])]
             G == {m \in 0..n : \E f : Goes(f, m)}
  <1>1. n \in Nat
    OBVIOUS
  <1>2. 0 \in G
    <2> PICK g : g = [k \in 0..0 |-> base]
      OBVIOUS
    <2>1. 0 \in 0..n /\ \A k \in 0..0 : k = 0
      BY <1>1
    <2>2. Goes(g, 0)
      BY <2>1
    <2> HIDE DEF Goes
    <2>3. QED
      BY <2>1, <2>2
  <1>3. ASSUME NEW m \in 0..n-1, m \in G PROVE m + 1 \in G
    <2>1. PICK f : Goes(f, m)
      BY <1>3
    <2> DEFINE g == [k \in 0..m+1 |-> IF k = m + 1 THEN OneGo!Lay(tab, sc, sec, f[m], chunks[m + 1]) ELSE f[k]]
    <2>2. m \in Nat /\ m + 1 \in 0..n /\ m + 1 # 0 /\ (m + 1) - 1 = m
      BY <1>1
    <2>3. \A k \in 0..m+1 : k # m + 1 => k \in 0..m /\ (k # 0 => k - 1 \in 0..m)
      BY <2>2
    <2>4. ASSUME NEW k \in 0..m+1
          PROVE  g[k] = IF k = 0 THEN base ELSE OneGo!Lay(tab, sc, sec, g[k - 1], chunks[k])
      <3>1. CASE k = m + 1
        <4>1. g[k] = OneGo!Lay(tab, sc, sec, f[m], chunks[m + 1]) /\ m \in 0..m+1 /\ m # m + 1
          BY <2>2, <3>1
        <4>2. g[m] = f[m]
          BY <4>1
        <4> HIDE DEF g
        <4>3. QED
          BY <2>2, <3>1, <4>1, <4>2
      <3>2. CASE k # m + 1
        <4>1. k \in 0..m /\ g[k] = f[k] /\ (k # 0 => k - 1 \in 0..m)
          BY <2>3, <3>2
        <4>2. k # 0 => k - 1 \in 0..m+1 /\ k - 1 # m + 1
          BY <2>2, <4>1
        <4>3. k # 0 => g[k - 1] = f[k - 1]
          BY <4>2
        <4> HIDE DEF g
        <4>4. QED
          BY <2>1, <4>1, <4>3
      <3>3. QED
        BY <3>1, <3>2
    <2>5. g = [k \in 0..m+1 |-> g[k]]
      OBVIOUS
    <2> HIDE DEF g
    <2>6. Goes(g, m + 1)
      BY <2>4, <2>5
    <2>7. QED
      BY <2>2, <2>6
  <1>4. n \in G
    <2> HIDE DEF G
    <2>1. \A k \in 0..n : k \in G
      BY <1>1, <1>2, <1>3, UpTo
    <2>2. QED
      BY <1>1, <2>1
  <1>5. LaidBy(tab, sc, chunks, sec, here) = CHOOSE f : Goes(f, n)
    BY DEF LaidBy
  <1> PICK f : f = LaidBy(tab, sc, chunks, sec, here)
    OBVIOUS
  <1>6. Goes(f, n)
    <2>1. \E h : Goes(h, n)
      BY <1>4
    <2> HIDE DEF Goes
    <2>2. QED
      BY <1>5, <2>1
  <1>7. f[0] = base /\ \A k \in 1..n : f[k] = Laid(tab, sc, sec, f[k - 1], chunks[k])
    <2>1. 0 \in 0..n /\ \A k \in 1..n : k \in 0..n /\ k # 0
      BY <1>1
    <2>2. f[0] = base /\ \A k \in 1..n : f[k] = OneGo!Lay(tab, sc, sec, f[k - 1], chunks[k])
      BY <1>6, <2>1
    <2>3. QED
      BY <2>2 DEF Laid
  <1>8. OneGo!LaidOut(tab, sc, chunks, sec, here) = f[n]
    BY DEF LaidBy, OneGo!LaidOut
  <1>9. QED
    BY <1>7, <1>8 DEF NoneLaid

LEMMA LaidOutIs ==
  ASSUME NEW tab, NEW sc, NEW chunks, Len(chunks) \in Nat, NEW sec, NEW here
  PROVE  OneGo!LaidOut(tab, sc, chunks, sec, here) = LaidBy(tab, sc, chunks, sec, here)[Len(chunks)]
  BY LaidByRuns
-----------------------------------------------------------------------------
(* What pass 0 found is what pass 1 reads.                                 *)
KnownAt(b) == WithDollar(Found, b)

LEMMA FoundIs ==
  ASSUME IsTable(consts), Dollar \in DOMAIN consts
  PROVE  /\ IsTable(Found) /\ DOMAIN Found = DOMAIN consts /\ SameBut(consts, Found)
         /\ \A n \in DOMAIN consts : n # Dollar => Found[n].value = consts[n].value
  <1>1. ASSUME NEW n \in DOMAIN consts
        PROVE  /\ Found[n] \in Entry /\ Found[n].type = consts[n].type /\ Found[n].section = consts[n].section
               /\ Found[n].extra = consts[n].extra /\ (n # Dollar => Found[n].value = consts[n].value)
    <2> PICK x : x = consts[n]
      OBVIOUS
    <2> PICK v : v = IF n = Dollar THEN 0 ELSE x.value
      OBVIOUS
    <2>1. x \in Entry
      BY DEF IsTable
    <2>2. Found[n] = [x EXCEPT !.export = FALSE, !.value = v]
      BY DEF Found
    <2>3. v \in Int
      BY <2>1 DEF Entry
    <2>4. QED
      BY <2>1, <2>2, <2>3 DEF Entry
  <1>2. DOMAIN Found = DOMAIN consts /\ Found = [n \in DOMAIN Found |-> Found[n]]
    BY DEF Found
  <1>3. \A n \in DOMAIN consts : n \in Name
    BY DEF IsTable
  <1>4. QED
    BY <1>1, <1>2, <1>3 DEF IsTable, SameBut

(* What OnePass reads of the table stands still where only marks and $     *)
(* change in it.                                                           *)
LEMMA FoundStays ==
  ASSUME IsTable(consts), IsTable(consts'), SameBut(consts, consts')
  PROVE  Found' = Found
  <1>1. ASSUME NEW n \in DOMAIN consts PROVE Found'[n] = Found[n]
    <2> PICK x : x = consts[n]
      OBVIOUS
    <2> PICK y : y = consts'[n]
      OBVIOUS
    <2>1. x \in Entry /\ y \in Entry /\ y.type = x.type /\ y.section = x.section /\ y.extra = x.extra
          /\ (n # Dollar => y.value = x.value) /\ n \in DOMAIN consts'
      BY DEF IsTable, SameBut
    <2> PICK v : v = IF n = Dollar THEN 0 ELSE x.value
      OBVIOUS
    <2>2. Found[n] = [x EXCEPT !.export = FALSE, !.value = v]
      BY DEF Found
    <2>3. Found'[n] = [y EXCEPT !.export = FALSE, !.value = v]
      <3>1. n = Dollar \/ y.value = x.value
        BY <2>1
      <3>2. v = IF n = Dollar THEN 0 ELSE y.value
        BY <3>1
      <3>3. n \in DOMAIN consts'
        BY <2>1
      <3>4. Found' = [k \in DOMAIN consts' |-> [consts'[k] EXCEPT !.export = FALSE, !.value = IF k = Dollar THEN 0 ELSE @]]
        BY SMTT(30) DEF Found
      <3>5. QED
        BY <3>2, <3>3, <3>4
    <2>4. [x EXCEPT !.export = FALSE, !.value = v] = [y EXCEPT !.export = FALSE, !.value = v]
      <3>1. x \in Entry /\ y \in Entry /\ x.type = y.type /\ x.section = y.section /\ x.extra = y.extra
        BY <2>1
      <3>2. QED
        BY <3>1 DEF Entry
    <2>5. QED
      BY <2>2, <2>3, <2>4
  <1>2. DOMAIN Found = DOMAIN consts /\ DOMAIN Found' = DOMAIN consts
    BY DEF Found, SameBut
  <1>3. Found = [n \in DOMAIN consts |-> Found[n]] /\ Found' = [n \in DOMAIN consts |-> Found'[n]]
    BY <1>2 DEF Found
  <1>4. QED
    BY <1>1, <1>3

LEMMA DollarThere ==
  ASSUME NEW tab, IsTable(tab), Dollar \in DOMAIN tab
  PROVE  WithDollar(tab, tab[Dollar].value) = tab
  <1>1. tab[Dollar] \in Entry /\ tab = [n \in DOMAIN tab |-> tab[n]]
    BY DEF IsTable
  <1>2. [tab[Dollar] EXCEPT !.value = tab[Dollar].value] = tab[Dollar]
    BY <1>1 DEF Entry
  <1> PICK x : x = tab[Dollar]
    OBVIOUS
  <1>3. WithDollar(tab, tab[Dollar].value) = [tab EXCEPT ![Dollar] = x]
    BY <1>2 DEF WithDollar
  <1>4. QED
    BY <1>1, <1>3

LEMMA KnownReads ==
  ASSUME IsTable(consts), Dollar \in DOMAIN consts, NEW b \in Int, NEW sc, NEW e \in Expr
  PROVE  /\ GetConst(KnownAt(b), sc, e) = GetConst(WithDollar(consts, b), sc, e)
         /\ SingleRef(KnownAt(b), sc, e) <=> SingleRef(consts, sc, e)
         /\ SegRef(KnownAt(b), e) <=> SegRef(consts, e)
  <1> PICK tab : tab = Found
    OBVIOUS
  <1>1. IsTable(tab) /\ DOMAIN tab = DOMAIN consts /\ SameBut(consts, tab)
    BY FoundIs
  <1>2. /\ GetConst(WithDollar(tab, b), sc, e) = GetConst(WithDollar(consts, b), sc, e)
        /\ SingleRef(tab, sc, e) <=> SingleRef(consts, sc, e)
        /\ SegRef(tab, e) <=> SegRef(consts, e)
    BY <1>1, ValueAlike
  <1> PICK new : new = WithDollar(tab, b)
    OBVIOUS
  <1>3. IsTable(new) /\ SameBut(tab, new)
    BY <1>1, DollarMoves DEF WithDollar
  <1>4. /\ SingleRef(new, sc, e) <=> SingleRef(tab, sc, e)
        /\ SegRef(new, e) <=> SegRef(tab, e)
    BY <1>1, <1>3, ValueAlike
  <1>5. QED
    BY <1>2, <1>4 DEF KnownAt

-----------------------------------------------------------------------------
(* What one chunk is laid out in.                                          *)
FieldAt(sec, o, w, v) == [sec |-> sec, ofs |-> o, width |-> w, value |-> v]
Shown(c)     == FieldAt(c.sec, c.ofs, c.width, c.value)
ShownAll(im) == [i \in DOMAIN im |-> Shown(im[i])]
FieldOf(tab, sc, sec, o, c) ==
  LET v == Value(tab, sc, c.e)
  IN CASE c.form = "byte"  -> FieldAt(sec, o, 1, Cut(v, 1))
       [] c.form = "word"  -> FieldAt(sec, o, 2, IF SegRef(tab, c.e) THEN 0 ELSE Cut(v, 2))
       [] c.form = "long"  -> FieldAt(sec, o, 4, IF SingleRef(tab, sc, c.e) THEN v ELSE OneGo!Digits(c.e))
       [] c.form = "rel8"  -> FieldAt(sec, o, 1, Cut(v - (o + 1), 1))
       [] c.form = "rel16" -> FieldAt(sec, o, 2, Cut(v - (o + 2), 2))
       [] c.form = "far"   -> FieldAt(sec, o, 2, 0)
       [] c.form = "addr"  -> FieldAt(sec, o + 1, 2, Cut(v, 2))
       [] c.form = "based" -> FieldAt(sec, o + 1, IF v < 128 THEN 1 ELSE 2, Cut(v, IF v < 128 THEN 1 ELSE 2))
Grown(sec, end) == IF sec = "BSS" THEN end ELSE end % Word

LEMMA LayIs ==
  ASSUME NEW tab, NEW sc, NEW sec, NEW st, NEW c \in Chunk, st.ofs \in Int
  PROVE  OneGo!Lay(tab, sc, sec, st, c)
           = [ofs    |-> Grown(sec, st.ofs + ChunkLength(tab, sc, c)),
              fields |-> IF c.form = "bytes" THEN st.fields
                         ELSE Append(st.fields, FieldOf(tab, sc, sec, st.ofs, c))]
  <1> PICK v : v = Value(tab, sc, c.e)
    OBVIOUS
  <1> PICK o : o = st.ofs
    OBVIOUS
  <1> PICK size : size = OneGo!FieldSize(c, v)
    OBVIOUS
  <1>1. OneGo!Value(tab, sc, c.e) = v /\ (OneGo!SingleRef(tab, sc, c.e) <=> SingleRef(tab, sc, c.e))
        /\ (OneGo!SegRef(tab, c.e) <=> SegRef(tab, c.e)) /\ OneGo!Word = Word
        /\ \A x, w : OneGo!Cut(x, w) = Cut(x, w)
    BY SameWorth, SameReferences, SameNames DEF Value, OneGo!Value
  <1>2. c.form \in Forms
    BY DEF Chunk
  <1>3. OneGo!ChunkSize(c, v) = ChunkLength(tab, sc, c)
    <2>1. 0 + 1 = 1 /\ 0 + 2 = 2 /\ 0 + 4 = 4 /\ 1 + 1 = 2 /\ 1 + 2 = 3
      OBVIOUS
    <2>2. QED
      BY <1>2, <2>1 DEF OneGo!ChunkSize, OneGo!FieldStart, OneGo!FieldSize, ChunkLength, Forms
  <1>4. o \in Int /\ o + 0 = o
    OBVIOUS
  <1>5. ASSUME c.form # "bytes"
        PROVE  [sec |-> sec, ofs |-> o + OneGo!FieldStart(c), width |-> size,
                value |-> OneGo!Holds(tab, sc, c, v, o + OneGo!FieldStart(c) + size)]
                 = FieldOf(tab, sc, sec, o, c)
    <2>1. CASE c.form \in {"byte", "rel8"}
      <3>1. OneGo!FieldStart(c) = 0 /\ size = 1
        BY <2>1 DEF OneGo!FieldStart, OneGo!FieldSize
      <3>2. QED
        BY <1>1, <1>4, <2>1, <3>1 DEF OneGo!Holds, FieldOf, FieldAt
    <2>2. CASE c.form \in {"word", "rel16", "far"}
      <3>1. OneGo!FieldStart(c) = 0 /\ size = 2
        BY <2>2 DEF OneGo!FieldStart, OneGo!FieldSize
      <3>2. QED
        BY <1>1, <1>4, <2>2, <3>1 DEF OneGo!Holds, FieldOf, FieldAt
    <2>3. CASE c.form = "long"
      <3>1. OneGo!FieldStart(c) = 0 /\ size = 4
        BY <2>3 DEF OneGo!FieldStart, OneGo!FieldSize
      <3>2. QED
        BY <1>1, <1>4, <2>3, <3>1 DEF OneGo!Holds, FieldOf, FieldAt
    <2>4. CASE c.form = "addr"
      <3>1. OneGo!FieldStart(c) = 1 /\ size = 2
        BY <2>4 DEF OneGo!FieldStart, OneGo!FieldSize
      <3>2. QED
        BY <1>1, <1>4, <2>4, <3>1 DEF OneGo!Holds, FieldOf, FieldAt
    <2>5. CASE c.form = "based"
      <3>1. OneGo!FieldStart(c) = 1 /\ size = IF v < 128 THEN 1 ELSE 2
        BY <2>5 DEF OneGo!FieldStart, OneGo!FieldSize
      <3>2. QED
        BY <1>1, <1>4, <2>5, <3>1 DEF OneGo!Holds, FieldOf, FieldAt
    <2>6. QED
      BY <1>2, <1>5, <2>1, <2>2, <2>3, <2>4, <2>5 DEF Forms
  <1>6. QED
    BY <1>1, <1>3, <1>5 DEF OneGo!Lay, Grown

(* What a chunk complained of by nobody puts down.                         *)
AddsField(tab) ==
  /\ OneGo!Certain(tab, scope, Next1)
  /\ Next1.form = "bytes" => image' = image
  /\ Next1.form # "bytes" =>
       \E p : image' = Append(image, p) /\ p.line = at /\ Shown(p) = FieldOf(tab, scope, section, Here, Next1)

LEMMA EmitsField ==
  ASSUME TypeInv, EmitStep, todo # <<>>, pass = 1, errors' \cup warnings' = {}, NEW tab,
         GetConst(tab, scope, Next1.e) = GetConst(consts, scope, Next1.e),
         SingleRef(tab, scope, Next1.e) <=> IsRef, SegRef(tab, Next1.e) <=> SegRef(consts, Next1.e)
  PROVE  AddsField(tab)
  <1>1. /\ IsTable(consts) /\ Here \in Int /\ Next1 \in Chunk /\ Next1.e \in Expr
    <2>1. \A S : \A q \in Seq(S) : q # <<>> => Head(q) \in S
      OBVIOUS
    <2>2. todo \in Seq(Chunk)
      BY DEF TypeInv, PlaceInv
    <2>3. Next1 \in Chunk
      BY <2>1, <2>2 DEF Next1
    <2>4. QED
      BY <2>3, HereOffset DEF Chunk, TypeInv, TableInv
  <1>2. Lookup \in Int /\ Value(tab, scope, Next1.e) = Lookup /\ GetConst(consts, scope, Next1.e).said \in SUBSET SaidKinds
    BY <1>1, ValueType DEF Lookup, Value
  <1>3. /\ OneGo!GetConst(tab, scope, Next1.e) = GetConst(consts, scope, Next1.e)
        /\ OneGo!SingleRef(tab, scope, Next1.e) <=> IsRef
        /\ OneGo!SegRef(tab, Next1.e) <=> SegRef(consts, Next1.e)
    BY SameWorth, SameReferences
  <1>4. ASSUME NEW said, Report(said) PROVE said \cap (ErrorKinds \cup WarningKinds) = {}
    BY <1>4 DEF Report
  <1>5. SaidKinds \subseteq ErrorKinds \cup WarningKinds
    BY DEF SaidKinds, ErrorKinds, WarningKinds
  <1>6. pass # 0 /\ pass > 0
    OBVIOUS
  <1>7. ASSUME NEW said, Report(said), Said \subseteq said PROVE GetConst(consts, scope, Next1.e).said = {}
    <2>1. Said \cap (ErrorKinds \cup WarningKinds) = {}
      BY <1>4, <1>7
    <2>2. Said = GetConst(consts, scope, Next1.e).said \cap (ErrorKinds \cup WarningKinds)
      BY <1>6 DEF Said, Complaints
    <2>3. QED
      BY <1>2, <1>5, <2>1, <2>2
  <1>8. GetConst(consts, scope, Next1.e).said = {} => OneGo!Certain(tab, scope, Next1)
    BY <1>3 DEF OneGo!Certain
  <1>9. ASSUME NEW kind, NEW ofs, NEW width, NEW v, NEW size, Put(kind, ofs, width, v, size)
        PROVE  /\ image' = Append(image, PieceNow(kind, ofs, width, v))
               /\ PieceNow(kind, ofs, width, v).line = at
               /\ Shown(PieceNow(kind, ofs, width, v)) = FieldAt(section, ofs, width, v)
    BY <1>9 DEF Put, PieceNow, Shown
  <1>10. ASSUME NEW kind, NEW ofs, NEW width, NEW v, NEW size, Put(kind, ofs, width, v, size),
                OneGo!Certain(tab, scope, Next1), Next1.form # "bytes",
                FieldAt(section, ofs, width, v) = FieldOf(tab, scope, section, Here, Next1)
         PROVE  AddsField(tab)
    BY <1>9, <1>10 DEF AddsField
  (* A symbol the linker places is worth something, unless .name has no parent. *)
  <1>11. ASSUME IsRef, Report(Qualified)
         PROVE  /\ GetConst(consts, scope, Next1.e).said = {}
                /\ Ref.type = "IMPORT" => Lookup = 0
    <2> PICK e : e = Next1.e
      OBVIOUS
    <2>1. /\ Len(e) = 1 /\ e[1].op = "+" /\ e[1].sym.kind \notin {"number", "none"} /\ IsName(e)
          /\ QName(e[1].sym, scope) \in DOMAIN consts /\ consts[QName(e[1].sym, scope)].type \in Linkable
      BY <1>11 DEF IsRef, SingleRef, IsName, HasType
    <2>2. 1 \in DOMAIN e
      BY <1>1, <2>1 DEF Expr
    <2>3. e[1].sym \in Sym
      BY <1>1, <2>2, ExprSyms
    <2>4. ~Unknown(consts, scope, e[1])
      BY <2>1 DEF Unknown
    <2>5. ~NoParent(e[1].sym, scope)
      <3>1. Qualified \cap (ErrorKinds \cup WarningKinds) = {}
        BY <1>4, <1>11
      <3>2. "parent" \in ErrorKinds \cup WarningKinds
        BY DEF ErrorKinds, WarningKinds
      <3>3. QED
        BY <1>6, <2>1, <3>1, <3>2 DEF Qualified
    <2>6. PICK b : Read(consts, scope, e[1].sym) = SymRead(consts, scope, 0, e[1].sym, b)
      BY <2>3, ReadOne
    <2>7. SymRead(consts, scope, 0, e[1].sym, b).said = {}
      <3>1. e[1].sym.kind # "number" /\ consts[QName(e[1].sym, scope)].type \notin {"number", "unknown", "DEFINE"}
        BY <2>1 DEF Linkable
      <3>2. QED
        BY <2>1, <2>5, <3>1 DEF SymRead, Say
    <2>8. GetConst(consts, scope, e).said = {}
      BY <1>1, <2>1, <2>4, <2>6, <2>7, OneTerm
    <2>9. Ref.type = "IMPORT" => Lookup = 0
      BY <1>1, <1>11, ImportValue DEF IsRef, Ref, Lookup
    <2>10. QED
      BY <2>8, <2>9
  <1>12. CASE EmitBytes
    BY <1>12 DEF EmitBytes, Emitting, AddsField, OneGo!Certain
  <1>13. CASE EmitByte
    <2>1. Next1.form = "byte" /\ Put("abs", Here, 1, Cut(Lookup, 1), 1) /\ Report(Said)
      BY <1>13 DEF EmitByte, Emitting
    <2>2. FieldOf(tab, scope, section, Here, Next1) = FieldAt(section, Here, 1, Cut(Lookup, 1))
      BY <1>2, <2>1 DEF FieldOf
    <2>3. QED
      BY <1>7, <1>8, <1>10, <2>1, <2>2
  <1>14. CASE RejectSeg
    <2>1. Report({"seg"}) /\ "seg" \in ErrorKinds \cup WarningKinds
      BY <1>14 DEF RejectSeg, ErrorKinds, WarningKinds
    <2>2. QED
      BY <1>4, <2>1
  <1>15. CASE EmitSeg
    <2>1. Next1.form = "word" /\ Put("seg", Here, 2, 0, 2) /\ SegRef(consts, Next1.e)
      BY <1>15 DEF EmitSeg, Emitting
    <2>2. FieldOf(tab, scope, section, Here, Next1) = FieldAt(section, Here, 2, 0)
      BY <2>1 DEF FieldOf
    <2>3. OneGo!Certain(tab, scope, Next1)
      BY <1>3, <2>1 DEF OneGo!Certain
    <2>4. QED
      BY <1>10, <2>1, <2>2, <2>3
  <1>16. CASE EmitWord
    <2>1. Next1.form = "word" /\ Put("abs", Here, 2, Cut(Lookup, 2), 2) /\ Report(Said) /\ ~SegRef(consts, Next1.e)
      BY <1>16 DEF EmitWord, Emitting, SegRef
    <2>2. FieldOf(tab, scope, section, Here, Next1) = FieldAt(section, Here, 2, Cut(Lookup, 2))
      BY <1>2, <2>1 DEF FieldOf
    <2>3. QED
      BY <1>7, <1>8, <1>10, <2>1, <2>2
  <1>17. CASE EmitLong
    <2> PICK v : v = IF IsRef THEN Lookup ELSE OneGo!Digits(Next1.e)
      OBVIOUS
    <2>1. Next1.form = "long" /\ Put("abs", Here, 4, v, 4) /\ Report(IF IsRef THEN Said ELSE Qualified)
      BY <1>17 DEF EmitLong, Emitting, OneGo!Digits
    <2>2. FieldOf(tab, scope, section, Here, Next1) = FieldAt(section, Here, 4, v)
      BY <1>2, <2>1 DEF FieldOf
    <2>3. OneGo!Certain(tab, scope, Next1)
      <3>1. CASE IsRef
        BY <1>7, <1>8, <2>1, <3>1
      <3>2. CASE ~IsRef
        BY <1>3, <2>1, <3>2 DEF OneGo!Certain
      <3>3. QED
        BY <3>1, <3>2
    <2>4. QED
      BY <1>10, <2>1, <2>2, <2>3
  <1>18. CASE EmitRel8
    <2> PICK v : v = Cut(Lookup - (Here + 1), 1)
      OBVIOUS
    <2>1. Next1.form = "rel8" /\ Put("rel", Here, 1, v, 1) /\ \E said : Said \subseteq said /\ Report(said)
      BY <1>18 DEF EmitRel8, Emitting
    <2>2. FieldOf(tab, scope, section, Here, Next1) = FieldAt(section, Here, 1, v)
      BY <1>2, <2>1 DEF FieldOf
    <2>3. QED
      BY <1>7, <1>8, <1>10, <2>1, <2>2
  <1>19. CASE ShortToImport
    <2>1. Report(Qualified \cup {"short"}) /\ "short" \in ErrorKinds \cup WarningKinds
      BY <1>6, <1>19 DEF ShortToImport, ErrorKinds, WarningKinds
    <2>2. QED
      BY <1>4, <2>1
  <1>20. CASE EmitRel16
    <2> PICK v : v = Cut(Lookup - (Here + 2), 2)
      OBVIOUS
    <2>1. Next1.form = "rel16" /\ Put("rel", Here, 2, v, 2) /\ Report(Said)
      BY <1>20 DEF EmitRel16, Emitting
    <2>2. FieldOf(tab, scope, section, Here, Next1) = FieldAt(section, Here, 2, v)
      BY <1>2, <2>1 DEF FieldOf
    <2>3. QED
      BY <1>7, <1>8, <1>10, <2>1, <2>2
  <1>21. CASE NearToImport
    <2> PICK v : v = Cut(-(Here + 2), 2)
      OBVIOUS
    <2>1. Next1.form = "rel16" /\ Put("rel", Here, 2, v, 2) /\ Report(Qualified) /\ IsRef /\ Ref.type = "IMPORT"
      BY <1>21 DEF NearToImport, Emitting, ImportRef
    <2>2. Lookup = 0 /\ 0 - (Here + 2) = -(Here + 2)
      BY <1>1, <1>11, <2>1
    <2>3. FieldOf(tab, scope, section, Here, Next1) = FieldAt(section, Here, 2, v)
      BY <1>2, <2>1, <2>2 DEF FieldOf
    <2>4. QED
      BY <1>8, <1>10, <1>11, <2>1, <2>3
  <1>22. CASE FarRejected
    <2>1. (\E said : Report({"far"} \cup said)) /\ "far" \in ErrorKinds \cup WarningKinds
      BY <1>6, <1>22 DEF FarRejected, ErrorKinds, WarningKinds
    <2>2. QED
      BY <1>4, <2>1
  <1>23. CASE EmitFar
    <2>1. Next1.form = "far" /\ Put("far", Here, 2, 0, 4) /\ Report(Qualified) /\ IsRef
      BY <1>23 DEF EmitFar, Emitting
    <2>2. FieldOf(tab, scope, section, Here, Next1) = FieldAt(section, Here, 2, 0)
      BY <2>1 DEF FieldOf
    <2>3. QED
      BY <1>8, <1>10, <1>11, <2>1, <2>2
  <1>24. CASE EmitAddress
    <2>1. Next1.form = "addr" /\ Put("abs", Here + 1, 2, Cut(Lookup, 2), 3) /\ Report(Said)
      BY <1>24 DEF EmitAddress, Emitting
    <2>2. FieldOf(tab, scope, section, Here, Next1) = FieldAt(section, Here + 1, 2, Cut(Lookup, 2))
      BY <1>2, <2>1 DEF FieldOf
    <2>3. QED
      BY <1>7, <1>8, <1>10, <2>1, <2>2
  <1>25. CASE EmitBased
    <2> PICK size : size = IF Lookup < 128 THEN 1 ELSE 2
      OBVIOUS
    <2>1. Next1.form = "based" /\ Put("based", Here + 1, size, Cut(Lookup, size), 1 + size) /\ Report(Said)
      BY <1>25 DEF EmitBased, Emitting
    <2>2. FieldOf(tab, scope, section, Here, Next1) = FieldAt(section, Here + 1, size, Cut(Lookup, size))
      BY <1>2, <2>1 DEF FieldOf
    <2>3. QED
      BY <1>7, <1>8, <1>10, <2>1, <2>2
  <1>26. CASE LineEmitted
    BY <1>26 DEF LineEmitted
  <1>27. QED
    BY <1>12, <1>13, <1>14, <1>15, <1>16, <1>17, <1>18, <1>19, <1>20, <1>21, <1>22, <1>23, <1>24, <1>25, <1>26
       DEF EmitStep
-----------------------------------------------------------------------------
(* While pass 1 is at work: the first m of what it has emitted are the     *)
(* fields of the lines behind it, the others those of the line at hand.    *)
Going == steady /\ Reading /\ errors \cup warnings = {}
CutAt(im, m) ==
  /\ m \in 0..Len(im) /\ \A i \in 1..m : im[i].line < at
  /\ \A i \in (m + 1)..Len(im) : im[i].line = at
RestShown(im, m) == [i \in 1..(Len(im) - m) |-> Shown(im[m + i])]

LEMMA CutIs ==
  ASSUME NEW im \in Seq(Piece), NEW a \in Nat, NEW m \in 0..Len(im),
         \A i \in 1..m : im[i].line < a, \A i \in (m + 1)..Len(im) : im[i].line = a
  PROVE  Max({0} \cup {i \in DOMAIN im : im[i].line < a}) = m
  <1> DEFINE S == {0} \cup {i \in DOMAIN im : im[i].line < a}
  <1>1. m \in Nat /\ m \in S /\ \A y \in S : m >= y /\ y \in Nat
    <2>1. Len(im) \in Nat /\ DOMAIN im = 1..Len(im)
      OBVIOUS
    <2>2. m \in Nat
      BY <2>1
    <2>3. m # 0 => m \in 1..m /\ m \in DOMAIN im
      BY <2>1, <2>2
    <2>4. m \in S
      BY <2>3
    <2>5. ASSUME NEW y \in S PROVE m >= y /\ y \in Nat
      <3>1. CASE y = 0
        BY <2>2, <3>1
      <3>2. CASE y # 0
        <4>1. y \in 1..Len(im) /\ im[y].line < a
          BY <2>1, <2>5, <3>2
        <4>2. y \notin (m + 1)..Len(im)
          <5>1. ~(a < a)
            OBVIOUS
          <5>2. QED
            BY <4>1, <5>1
        <4>3. QED
          BY <2>1, <2>2, <4>1, <4>2
      <3>3. QED
        BY <3>1, <3>2
    <2>6. QED
      BY <2>2, <2>4, <2>5
  <1> HIDE DEF S
  <1>2. \E x \in S : \A y \in S : x >= y
    BY <1>1
  <1> PICK x : x = Max(S)
    OBVIOUS
  <1>3. x \in S /\ \A y \in S : x >= y
    BY <1>2 DEF Max
  <1>4. x >= m /\ m >= x /\ x \in Nat
    BY <1>1, <1>3
  <1>5. x = m
    BY <1>1, <1>4
  <1>6. QED
    BY <1>5 DEF S

LEMMA CompleteIs ==
  ASSUME image \in Seq(Piece), at \in Nat, NEW m, CutAt(image, m)
  PROVE  Complete = SubSeq(image, 1, m) /\ Fields = ShownAll(Complete)
  <1>1. Max({0} \cup {i \in DOMAIN image : image[i].line < at}) = m
    BY CutIs DEF CutAt
  <1>2. QED
    BY <1>1 DEF Complete, Fields, ShownAll, Shown, FieldAt
LEMMA CompleteThen ==
  ASSUME image' \in Seq(Piece), at' \in Nat, NEW m, CutAt(image, m)'
  PROVE  Complete' = SubSeq(image', 1, m) /\ Fields' = ShownAll(Complete')
  <1>1. Max({0} \cup {i \in DOMAIN image' : image'[i].line < at'}) = m
    BY CutIs DEF CutAt
  <1>2. QED
    BY <1>1 DEF Complete, Fields, ShownAll, Shown, FieldAt

(* What is shown of a sequence that grows.                                 *)
LEMMA RestGrows ==
  ASSUME NEW S, NEW im \in Seq(S), NEW m \in 0..Len(im), NEW p
  PROVE  RestShown(Append(im, p), m) = Append(RestShown(im, m), Shown(p))
  <1> DEFINE n == Len(im) - m
             g == RestShown(im, m)
             x == Shown(p)
  <1>1. n \in Nat /\ Len(Append(im, p)) = Len(im) + 1 /\ Len(Append(im, p)) - m = n + 1
        /\ Append(im, p)[Len(im) + 1] = p /\ \A i \in 1..Len(im) : Append(im, p)[i] = im[i]
    OBVIOUS
  <1>2. \A i \in 1..n : m + i \in 1..Len(im)
    OBVIOUS
  <1>3. m + (n + 1) = Len(im) + 1
    OBVIOUS
  <1>4. g = [i \in 1..n |-> Shown(im[m + i])]
    BY DEF RestShown
  <1>5. \A i \in 1..n+1 : i = n + 1 \/ i \in 1..n
    BY <1>1
  <1>6. RestShown(Append(im, p), m) = [i \in 1..n+1 |-> IF i = n + 1 THEN x ELSE g[i]]
    <2> DEFINE q == Append(im, p)
    <2>1. RestShown(q, m) = [i \in 1..n+1 |-> Shown(q[m + i])]
      BY <1>1 DEF RestShown
    <2>2. ASSUME NEW i \in 1..n+1 PROVE Shown(q[m + i]) = IF i = n + 1 THEN x ELSE g[i]
      <3>1. CASE i = n + 1
        BY <1>1, <1>3, <3>1
      <3>2. CASE i # n + 1
        <4>1. i \in 1..n /\ m + i \in 1..Len(im)
          BY <1>2, <1>5, <3>2
        <4> HIDE DEF n, g
        <4>2. g[i] = Shown(im[m + i]) /\ q[m + i] = im[m + i]
          BY <1>1, <1>4, <4>1
        <4> HIDE DEF q
        <4>3. QED
          BY <3>2, <4>2
      <3>3. QED
        BY <3>1, <3>2
    <2> HIDE DEF q, n, g, x
    <2>3. RestShown(q, m) = [i \in 1..n+1 |-> IF i = n + 1 THEN x ELSE g[i]]
      BY <2>1, <2>2
    <2>4. QED
      BY <2>3 DEF q
  <1>7. ASSUME NEW T, NEW h \in Seq(T), NEW e \in T
        PROVE  Append(h, e) = [i \in 1..Len(h)+1 |-> IF i = Len(h) + 1 THEN e ELSE h[i]]
    <2> DEFINE k == Len(h)
               f == Append(h, e)
    <2>1. k \in Nat /\ f \in Seq(T) /\ Len(f) = k + 1 /\ f[k + 1] = e /\ \A i \in 1..k : f[i] = h[i]
      BY AppendProperties, LenProperties
    <2>2. f \in [1..(k + 1) -> T]
      BY <2>1, LenProperties
    <2> HIDE DEF k, f
    <2>3. \A i \in 1..k+1 : i = k + 1 \/ i \in 1..k
      BY <2>1
    <2>4. f = [i \in 1..k+1 |-> f[i]] /\ \A i \in 1..k+1 : f[i] = IF i = k + 1 THEN e ELSE h[i]
      BY <2>1, <2>2, <2>3
    <2>5. f = [i \in 1..k+1 |-> IF i = k + 1 THEN e ELSE h[i]]
      BY <2>4
    <2>6. QED
      BY <2>5 DEF k, f
  <1> HIDE DEF n, x
  <1>8. /\ g \in Seq({g[i] : i \in 1..n} \cup {x}) /\ Len(g) = n
    <2> HIDE DEF g
    <2>1. ASSUME NEW h, h = [i \in 1..n |-> h[i]] PROVE h \in Seq({h[i] : i \in 1..n} \cup {x}) /\ Len(h) = n
      BY <1>1, <2>1
    <2>2. g = [i \in 1..n |-> g[i]]
      BY <1>4
    <2>3. QED
      BY <2>1, <2>2
  <1> HIDE DEF g
  <1>9. Append(g, x) = [i \in 1..n+1 |-> IF i = n + 1 THEN x ELSE g[i]]
    BY <1>7, <1>8
  <1>10. QED
    BY <1>6, <1>9 DEF g, x

(* The parts of a sequence, one after the other.                           *)
LEMMA RestJoins ==
  ASSUME NEW S, NEW im \in Seq(S), NEW m \in 0..Len(im)
  PROVE  /\ ShownAll(SubSeq(im, 1, m)) \o RestShown(im, m) = ShownAll(im)
         /\ RestShown(im, Len(im)) = <<>> /\ SubSeq(im, 1, Len(im)) = im
  <1>1. Len(im) \in Nat /\ DOMAIN im = 1..Len(im) /\ m \in Nat /\ Len(im) - m \in Nat
    OBVIOUS
  <1> DEFINE a == ShownAll(SubSeq(im, 1, m))
             b == RestShown(im, m)
             n == Len(im)
  <1>2. SubSeq(im, 1, m) = [i \in 1..m |-> im[i]] /\ SubSeq(im, 1, n) = im
    OBVIOUS
  <1>3. a = [i \in 1..m |-> Shown(im[i])] /\ b = [i \in 1..(n - m) |-> Shown(im[m + i])]
    BY <1>2 DEF ShownAll, RestShown
  <1>4. ASSUME NEW h, NEW k \in Nat, h = [i \in 1..k |-> h[i]] PROVE h \in Seq({h[i] : i \in 1..k}) /\ Len(h) = k
    BY <1>4
  <1> HIDE DEF a, b, n
  <1>x. a = [i \in 1..m |-> a[i]] /\ b = [i \in 1..(n - m) |-> b[i]] /\ m \in Nat /\ n - m \in Nat
    BY <1>1, <1>3 DEF n
  <1>5. Len(a) = m /\ Len(b) = n - m /\ a \in Seq({a[i] : i \in 1..m}) /\ b \in Seq({b[i] : i \in 1..(n - m)})
    BY <1>4, <1>x
  <1>6. ASSUME NEW T, NEW x \in Seq(T), NEW y \in Seq(T)
        PROVE  x \o y = [i \in 1..(Len(x) + Len(y)) |-> IF i <= Len(x) THEN x[i] ELSE y[i - Len(x)]]
    <2> DEFINE k == Len(x) + Len(y)
               f == x \o y
    <2>1. f \in Seq(T) /\ Len(f) = k /\ \A i \in 1..k : f[i] = IF i <= Len(x) THEN x[i] ELSE y[i - Len(x)]
      BY ConcatProperties
    <2>2. f \in [1..k -> T]
      BY <2>1, LenProperties
    <2> HIDE DEF k, f
    <2>3. f = [i \in 1..k |-> IF i <= Len(x) THEN x[i] ELSE y[i - Len(x)]]
      BY <2>1, <2>2
    <2>4. QED
      BY <2>3 DEF k, f
  <1>7. a \o b = [i \in 1..(m + (n - m)) |-> IF i <= m THEN a[i] ELSE b[i - m]]
    <2> DEFINE T == {a[i] : i \in 1..m} \cup {b[i] : i \in 1..(n - m)}
    <2>1. a \in Seq(T) /\ b \in Seq(T)
      BY <1>5, SeqMonotonic
    <2> HIDE DEF T
    <2>2. a \o b = [i \in 1..(Len(a) + Len(b)) |-> IF i <= Len(a) THEN a[i] ELSE b[i - Len(a)]]
      BY <1>6, <2>1
    <2>3. QED
      BY <1>5, <2>2
  <1>8. m + (n - m) = n
    BY <1>1 DEF n
  <1>9. ASSUME NEW i \in 1..n PROVE (IF i <= m THEN a[i] ELSE b[i - m]) = Shown(im[i])
    <2>1. CASE i <= m
      <3>1. i \in 1..m
        BY <1>1, <1>9, <2>1 DEF n
      <3>2. QED
        BY <1>3, <2>1, <3>1
    <2>2. CASE ~(i <= m)
      <3>1. i - m \in 1..(n - m) /\ m + (i - m) = i
        BY <1>1, <1>9, <2>2 DEF n
      <3>2. QED
        BY <1>3, <2>2, <3>1
    <2>3. QED
      BY <2>1, <2>2
  <1>10. ShownAll(im) = [i \in 1..n |-> Shown(im[i])]
    BY <1>1 DEF ShownAll, n
  <1>11. a \o b = ShownAll(im)
    BY <1>7, <1>8, <1>9, <1>10
  <1>12. RestShown(im, n) = <<>>
    <2>1. n - n = 0 /\ 1..0 = {}
      BY <1>1 DEF n
    <2> DEFINE r == [i \in {} |-> Shown(im[n + i])]
    <2>2. RestShown(im, n) = r
      BY <2>1 DEF RestShown, n
    <2>3. r = <<>>
      OBVIOUS
    <2>4. QED
      BY <2>2, <2>3
  <1>13. QED
    BY <1>2, <1>11, <1>12 DEF a, b, n
-----------------------------------------------------------------------------
(* What pass 1 is about: the fields of the line at hand, how far it has    *)
(* come, and that what it says of its name was known.                      *)
LineAtHand(t, m) ==
  LET here   == Began(t)
      chunks == ChunksIn(at, section)
      f      == LaidBy(KnownAt(here), scope, chunks, section, here)
      n      == Len(t.ptrs) - 1
  IN /\ OneGo!Chunks(prog[at]) = chunks
     /\ OneGo!Foreseen(KnownAt(here), prog[at], t.scope, section, here)
     /\ \A k \in 1..n : OneGo!Certain(KnownAt(here), scope, chunks[k])
     /\ ptr = [t.ptrs[1] EXCEPT ![section] = f[n].ofs]
     /\ f[n].fields = RestShown(image, m)
Over     == at > Len(prog) \/ (at > 1 /\ prog[at - 1].op = "end")
BeginInv == pc = "line" /\ at = 1 => ptr = [TEXT |-> org, DATA |-> 0, BSS |-> 0]
OverInv  == Going /\ (pc = "end" \/ pass = Passes) => Over
ShownBy(m) ==
  /\ CutAt(image, m) /\ (pc # "emit" => m = Len(image))
  /\ pc = "emit" => LineAtHand(trace[1][at], m)
WorkInv  == BeginInv /\ OverInv /\ (Going => \E m : ShownBy(m))

(* What one pass is told of.                                               *)
LEMMA ToldIs ==
  ASSUME FileInv
  PROVE  /\ Told <=> Going
         /\ Promised = IF ~Reading THEN "before" ELSE IF ~Going THEN "silent"
                       ELSE IF Delivered THEN "delivered" ELSE "working"
  <1>1. Delivered => errors \cup warnings = {} /\ pass = Passes
    BY DEF FileInv, OutputOnlyIfClean, Delivered
  <1>2. QED
    BY <1>1 DEF Told, Promised, Going, Reading

(* A line is laid out whole.                                               *)
LaysBy(t) ==
  LET here   == Began(t)
      sc     == ScopeIn(at, t)
      chunks == ChunksIn(at, section)
      laid   == OneGo!LaidOut(KnownAt(here), sc, chunks, section, here)
      stmt   == prog[at]
  IN /\ OneGo!Chunks(stmt) = chunks
     /\ OneGo!Foreseen(KnownAt(here), stmt, t.scope, section, here)
     /\ \A i \in DOMAIN chunks : OneGo!Certain(KnownAt(here), sc, chunks[i])
     /\ Fields' = Fields \o laid.fields
     /\ ptr' = IF stmt.op = "res"
               THEN [t.ptrs[1] EXCEPT !["BSS"] = @ + stmt.n * Value(KnownAt(here), sc, stmt.e)]
               ELSE [t.ptrs[1] EXCEPT ![section] = laid.ofs]
     /\ section' = IF stmt.op = "section" THEN SectionNamed(stmt.names[1].name) ELSE section
     /\ scope' = IF stmt.op = "section" THEN NoScope ELSE sc

LEMMA LaysLine ==
  ASSUME Told, Told', Promised = "working", Promised' = "working", NEW t,
         Begun = t.ptrs[1], section = t.section, t.scope = IF pc = "emit" THEN Last(trace[pass]).scope ELSE scope,
         Labelled(at, t), at <= Len(prog), at > 1 => prog[at - 1].op # "end",
         prog' = prog, Found' = Found, at' = at + 1, pc' # "emit", LaysBy(t)
  PROVE  OneGo!LayLine
  <1> PICK here : here = Began(t)
    OBVIOUS
  <1> PICK sc : sc = ScopeIn(at, t)
    OBVIOUS
  <1> PICK chunks : chunks = ChunksIn(at, section)
    OBVIOUS
  <1> PICK stmt : stmt = prog[at]
    OBVIOUS
  <1> PICK p : p = t.ptrs[1]
    OBVIOUS
  <1> PICK tab : tab = KnownAt(here)
    OBVIOUS
  <1> PICK laid : laid = OneGo!LaidOut(tab, sc, chunks, section, here)
    OBVIOUS
  <1>1. /\ OneGo!Chunks(stmt) = chunks
        /\ OneGo!Foreseen(tab, stmt, t.scope, section, here)
        /\ \A i \in DOMAIN chunks : OneGo!Certain(tab, sc, chunks[i])
        /\ Fields' = Fields \o laid.fields
        /\ ptr' = IF stmt.op = "res" THEN [p EXCEPT !["BSS"] = @ + stmt.n * Value(tab, sc, stmt.e)]
                  ELSE [p EXCEPT ![section] = laid.ofs]
        /\ section' = IF stmt.op = "section" THEN SectionNamed(stmt.names[1].name) ELSE section
        /\ scope' = IF stmt.op = "section" THEN NoScope ELSE sc
    BY DEF LaysBy
  <1>2. here = p[section] /\ tab = [Found EXCEPT ![OneGo!Dollar].value = here]
    BY SameNames DEF Began, KnownAt, WithDollar
  <1>3. OneGo!Value(tab, sc, stmt.e) = Value(tab, sc, stmt.e)
    BY SameWorth DEF Value, OneGo!Value
  <1>4. sc = IF OneGo!Anchors(stmt)
             THEN (IF stmt.label.kind = "none" THEN OneGo!NoScope ELSE OneGo!QName(stmt.label, t.scope))
             ELSE t.scope
    <2>1. t.name = IF stmt.label.kind = "none" THEN OneGo!NoScope ELSE OneGo!QName(stmt.label, t.scope)
      BY SameNames DEF Labelled
    <2>2. OneGo!Anchors(stmt) <=> Anchors(stmt)
      BY SameAnchors
    <2>3. QED
      BY <2>1, <2>2 DEF ScopeIn
  <1>5. Begun' = ptr'
    BY DEF Begun
  <1> DEFINE
     aknown == IF Told THEN Found ELSE EmptyTable
     aptr == IF Told THEN Begun ELSE [s \in Sections |-> 0]
     ascope == IF Told THEN (IF pc = "emit" THEN Last(trace[pass]).scope ELSE scope) ELSE NoScope
     asection == IF Told THEN section ELSE "TEXT"
     aat == IF Told THEN at ELSE 1
     afields == IF Told THEN Fields ELSE <<>>
  <1>6. /\ aknown = Found /\ aptr = p /\ ascope = t.scope /\ asection = section /\ aat = at /\ afields = Fields
    OBVIOUS
  <1>7. /\ aknown' = Found /\ aptr' = ptr' /\ ascope' = scope' /\ asection' = section' /\ aat' = at + 1 /\ afields' = Fields'
    BY <1>5
  <1> DEFINE
     L == /\ Promised = "working" /\ aat <= Len(prog) /\ (aat > 1 => prog[aat - 1].op # "end")
          /\ LET stmt1 == prog[aat]
                 here1 == aptr[asection]
                 tab1  == [aknown EXCEPT ![OneGo!Dollar].value = here1]
                 name1 == IF stmt1.label.kind = "none" THEN OneGo!NoScope ELSE OneGo!QName(stmt1.label, ascope)
                 sc1   == IF OneGo!Anchors(stmt1) THEN name1 ELSE ascope
                 chunks1 == OneGo!Chunks(stmt1)
                 laid1 == OneGo!LaidOut(tab1, sc1, chunks1, asection, here1)
             IN /\ OneGo!Foreseen(tab1, stmt1, ascope, asection, here1)
                /\ \A i \in DOMAIN chunks1 : OneGo!Certain(tab1, sc1, chunks1[i])
                /\ afields' = afields \o laid1.fields
                /\ aptr' = IF stmt1.op = "res"
                           THEN [aptr EXCEPT !["BSS"] = @ + stmt1.n * OneGo!Value(tab1, sc1, stmt1.e)]
                           ELSE [aptr EXCEPT ![asection] = laid1.ofs]
                /\ asection' = IF stmt1.op = "section" THEN OneGo!SectionNamed(stmt1.names[1].name) ELSE asection
                /\ ascope' = IF stmt1.op = "section" THEN OneGo!NoScope ELSE sc1
          /\ aat' = aat + 1
          /\ UNCHANGED <<prog, Promised, aknown>>
  <1>8. L => OneGo!LayLine
    BY ZenonT(40) DEF OneGo!LayLine
  <1>9. L
    <2> HIDE DEF aknown, aptr, ascope, asection, aat, afields
    <2>1. UNCHANGED <<prog, Promised, aknown>>
      BY <1>6, <1>7
    <2>2. at > 1 => prog[at - 1].op # "end"
      OBVIOUS
    <2>3. OneGo!SectionNamed(stmt.names[1].name) = SectionNamed(stmt.names[1].name) /\ OneGo!NoScope = NoScope
      BY SameNames
    <2>4. QED
      BY ZenonT(40), <1>1, <1>2, <1>3, <1>4, <1>6, <1>7, <2>1, <2>2, <2>3
  <1>10. QED
    BY Zenon, <1>8, <1>9
-----------------------------------------------------------------------------
(* Where a line that emits has come to.                                    *)
AtChunk(t, chunks) ==
  /\ t = trace[1][at] /\ chunks = ChunksIn(at, section) /\ chunks \in Seq(Chunk)
  /\ trace[1] \in Seq(TraceLine) /\ Len(trace[1]) = at /\ at \in DOMAIN trace[1] /\ t \in TraceLine
  /\ Len(t.ptrs) \in Nat /\ Len(t.ptrs) > 0 /\ t.ptrs \in Seq([Sections -> Int])
  /\ t.section = section /\ scope = ScopeIn(at, t) /\ Labelled(at, t)
  /\ prog[at].op \in {"db", "dw", "dd", "instr"} /\ (at > 1 => prog[at - 1].op # "end")
  /\ at \in DOMAIN prog /\ at <= Len(prog) /\ at \in Nat
  /\ todo = <<>> <=> Len(t.ptrs) = Len(chunks) + 1
  /\ Len(t.ptrs) <= Len(chunks) + 1
  /\ Len(t.ptrs) <= Len(chunks) => Head(todo) = chunks[Len(t.ptrs)]
  /\ IsTable(consts) /\ Dollar \in DOMAIN consts /\ Began(t) \in Int
  /\ \A e \in Expr : /\ GetConst(KnownAt(Began(t)), scope, e) = GetConst(consts, scope, e)
                     /\ SingleRef(KnownAt(Began(t)), scope, e) <=> SingleRef(consts, scope, e)
                     /\ SegRef(KnownAt(Began(t)), e) <=> SegRef(consts, e)

LEMMA EmitFacts ==
  ASSUME TypeInv, ReachInv, LaidInv, EmitStep, Going'
  PROVE  /\ pass = 1 /\ pass' = 1 /\ Going /\ pc = "emit" /\ errors' \cup warnings' = {}
         /\ UNCHANGED <<prog, target, isOrgDef, consts, scope, section, org, steady>>
         /\ AtChunk(trace[1][at], ChunksIn(at, section))
  <1>1. /\ pc = "emit" /\ UNCHANGED <<prog, pass, target, isOrgDef, consts, scope, section, org>>
        /\ steady' = steady /\ errors \subseteq errors' /\ warnings \subseteq warnings'
    BY EmitGoes, StepsSay
  <1>2. pass = 1 /\ Passes = 2
    <2>1. pass < Passes /\ pass \in 0..Passes /\ Passes = 2
      BY <1>1 DEF TypeInv, PlaceInv, Assembling, Passes
    <2>2. 2 - 1 = 1 /\ pass # Passes
      BY <2>1
    <2>3. QED
      BY <1>1, <2>1, <2>2 DEF Going, Reading
  <1>3. Going /\ Settled /\ errors' \cup warnings' = {}
    <2>1. 2 - 1 = 1
      OBVIOUS
    <2>2. QED
      BY <1>1, <1>2, <2>1 DEF Going, Reading, Settled
  <1>4. Steady(prog) /\ ChainedInv /\ ChunkInv
    BY <1>3 DEF LaidInv, Going
  <1> PICK q : q = trace[1]
    OBVIOUS
  <1> PICK t : t = q[at]
    OBVIOUS
  <1> PICK chunks : chunks = ChunksIn(at, section)
    OBVIOUS
  <1>5. /\ q \in Seq(TraceLine) /\ Len(q) = at /\ Chain(consts, q) /\ Coming(at, t) /\ consts[Dollar].value = Began(t)
    <2>1. 1 \in 0..2-1
      OBVIOUS
    <2>2. QED
      BY <1>1, <1>2, <1>4, <2>1, TraceTyped DEF ChunkInv, ChainedInv
  <1>6. /\ at \in DOMAIN prog /\ prog \in Programs /\ at \in Nat /\ at > 0 /\ Clear(at)
        /\ IsTable(consts) /\ Dollar \in DOMAIN consts
    BY <1>1 DEF TypeInv, PlaceInv, TableInv, ReachInv
  <1>7. at \in DOMAIN q /\ t \in TraceLine
    <2>1. ASSUME NEW S, NEW x \in Seq(S), Len(x) > 0 PROVE Len(x) \in DOMAIN x /\ x[Len(x)] \in S
      BY <2>1
    <2>2. QED
      BY <1>5, <1>6, <2>1
  <1>8. chunks \in Seq(Chunk)
    BY <1>4, <1>6, SteadyChunks
  <1>9. t.ptrs # <<>> /\ Labelled(at, t)
    BY <1>5, <1>7 DEF Chain
  <1>10. Len(t.ptrs) \in Nat /\ Len(t.ptrs) > 0 /\ t.ptrs \in Seq([Sections -> Int])
    <2>1. t.ptrs \in Seq([Sections -> Int])
      BY <1>7 DEF TraceLine
    <2>2. ASSUME NEW S, NEW x \in Seq(S), x # <<>> PROVE Len(x) \in Nat /\ Len(x) > 0
      BY <2>2
    <2>3. QED
      BY <1>9, <2>1, <2>2
  <1>11. /\ t.section = section /\ scope = ScopeIn(at, t) /\ Len(t.ptrs) <= Len(chunks) + 1
         /\ todo = SubSeq(chunks, Len(t.ptrs), Len(chunks)) /\ prog[at].op \in {"db", "dw", "dd", "instr"}
    BY <1>5 DEF Coming
  <1>12. /\ todo = <<>> <=> Len(t.ptrs) = Len(chunks) + 1
         /\ Len(t.ptrs) <= Len(chunks) => Head(todo) = chunks[Len(t.ptrs)]
    <2>1. ASSUME NEW n \in Nat, n > 0, n <= Len(chunks) + 1 PROVE n \in 1..(Len(chunks) + 1)
      BY <1>8, <2>1
    <2>2. Len(t.ptrs) \in 1..(Len(chunks) + 1)
      BY <1>10, <1>11, <2>1
    <2>3. QED
      BY <1>8, <1>11, <2>2, RestOf
  <1>13. at <= Len(prog) /\ (at > 1 => prog[at - 1].op # "end")
    <2>1. prog \in Seq(Statement)
      BY <1>6, ProgramsAssumption DEF ProgramsAssumption
    <2>2. at <= Len(prog)
      BY <1>6, <2>1
    <2>3. at > 1 => at - 1 \in DOMAIN prog /\ at - 1 < at
      BY <1>6, <2>1
    <2>4. QED
      BY <1>6, <2>2, <2>3 DEF Clear, Stops
  <1>14. Began(t) \in Int
    BY <1>7, <1>9, TraceTyped
  <1>15. ASSUME NEW e \in Expr
         PROVE  /\ GetConst(KnownAt(Began(t)), scope, e) = GetConst(consts, scope, e)
                /\ SingleRef(KnownAt(Began(t)), scope, e) <=> SingleRef(consts, scope, e)
                /\ SegRef(KnownAt(Began(t)), e) <=> SegRef(consts, e)
    <2>1. WithDollar(consts, Began(t)) = consts
      BY <1>5, <1>6, DollarThere
    <2>2. QED
      BY <1>6, <1>14, <2>1, KnownReads
  <1>16. AtChunk(t, chunks)
    BY <1>5, <1>6, <1>7, <1>8, <1>9, <1>10, <1>11, <1>12, <1>13, <1>14, <1>15 DEF AtChunk
  <1>17. QED
    BY <1>1, <1>2, <1>3, <1>16

(* One chunk more.                                                         *)
LaidFrom(tab, sc, sec, old, new, c) ==
  /\ new.ofs = Grown(sec, old.ofs + ChunkLength(tab, sc, c))
  /\ new.fields = IF c.form = "bytes" THEN old.fields
                  ELSE Append(old.fields, FieldOf(tab, sc, sec, old.ofs, c))
LEMMA LaidOn ==
  ASSUME NEW tab, NEW sc, NEW sec, NEW here, NEW chunks \in Seq(Chunk), NEW n \in 1..Len(chunks),
         LaidBy(tab, sc, chunks, sec, here)[n - 1].ofs \in Int
  PROVE  LaidFrom(tab, sc, sec, LaidBy(tab, sc, chunks, sec, here)[n - 1], LaidBy(tab, sc, chunks, sec, here)[n],
                  chunks[n])
  <1> DEFINE f == LaidBy(tab, sc, chunks, sec, here)
  <1>1. chunks[n] \in Chunk /\ Len(chunks) \in Nat
    <2>1. ASSUME NEW S, NEW x \in Seq(S), NEW j \in 1..Len(x) PROVE x[j] \in S /\ Len(x) \in Nat
      BY <2>1
    <2>2. QED
      BY <2>1
  <1>2. f[n] = OneGo!Lay(tab, sc, sec, f[n - 1], chunks[n])
    <2>1. f[n] = Laid(tab, sc, sec, f[n - 1], chunks[n])
      BY <1>1, LaidByRuns
    <2>2. QED
      BY <2>1 DEF Laid
  <1>3. \A st, c : c \in Chunk /\ st.ofs \in Int =>
          OneGo!Lay(tab, sc, sec, st, c)
           = [ofs    |-> Grown(sec, st.ofs + ChunkLength(tab, sc, c)),
              fields |-> IF c.form = "bytes" THEN st.fields
                         ELSE Append(st.fields, FieldOf(tab, sc, sec, st.ofs, c))]
    <2>1. ASSUME NEW st, NEW c \in Chunk, st.ofs \in Int
          PROVE OneGo!Lay(tab, sc, sec, st, c)
           = [ofs    |-> Grown(sec, st.ofs + ChunkLength(tab, sc, c)),
              fields |-> IF c.form = "bytes" THEN st.fields
                         ELSE Append(st.fields, FieldOf(tab, sc, sec, st.ofs, c))]
      BY <2>1, LayIs
    <2>2. QED
      BY <2>1
  <1> HIDE DEF f
  <1>4. f[n - 1].ofs \in Int
    BY DEF f
  <1> PICK st : st = f[n - 1]
    OBVIOUS
  <1> PICK g : g = f[n]
    OBVIOUS
  <1> PICK c : c = chunks[n]
    OBVIOUS
  <1>5. g = [ofs    |-> Grown(sec, st.ofs + ChunkLength(tab, sc, c)),
              fields |-> IF c.form = "bytes" THEN st.fields
                         ELSE Append(st.fields, FieldOf(tab, sc, sec, st.ofs, c))]
    BY <1>1, <1>2, <1>3, <1>4, Zenon
  <1>6. g.ofs = Grown(sec, st.ofs + ChunkLength(tab, sc, c)) /\
        g.fields = IF c.form = "bytes" THEN st.fields
                         ELSE Append(st.fields, FieldOf(tab, sc, sec, st.ofs, c))
    BY <1>5
  <1>7. QED
    BY <1>6 DEF f, LaidFrom

(* One chunk more of the line at hand.                                     *)
LEMMA LineAdds ==
  ASSUME TypeInv, ReachInv, LaidInv, ImageInv, EmitStep, Going', todo # <<>>, NEW m, ShownBy(m)
  PROVE  /\ ShownBy(m)' /\ pc' = "emit" /\ at' = at
         /\ Begun' = Begun /\ Last(trace'[pass']).scope = Last(trace[pass]).scope
         /\ SubSeq(image', 1, m) = SubSeq(image, 1, m)
  <1> PICK t : t = trace[1][at]
    OBVIOUS
  <1> PICK chunks : chunks = ChunksIn(at, section)
    OBVIOUS
  <1> PICK here : here = Began(t)
    OBVIOUS
  <1> PICK tab : tab = KnownAt(here)
    OBVIOUS
  <1> PICK n : n = Len(t.ptrs)
    OBVIOUS
  <1>1. /\ pass = 1 /\ pass' = 1 /\ Going /\ pc = "emit" /\ errors' \cup warnings' = {}
        /\ UNCHANGED <<prog, target, isOrgDef, consts, scope, section, org, steady>>
        /\ AtChunk(t, chunks)
    BY EmitFacts
  <1>2. /\ pc' = "emit" /\ at' = at /\ TracedOn
        /\ ptr' = Past(ptr, section, ChunkLength(consts, scope, Next1))
    BY EmitGoes DEF Next1
  <1>3. n \in Nat /\ n > 0 /\ n <= Len(chunks) /\ Next1 = chunks[n] /\ Next1 \in Chunk /\ Next1.e \in Expr
        /\ Len(chunks) \in Nat /\ n \in 1..Len(chunks)
    <2>1. n \in Nat /\ n > 0 /\ n # Len(chunks) + 1 /\ n <= Len(chunks) + 1 /\ chunks \in Seq(Chunk)
      BY <1>1 DEF AtChunk
    <2>2. Len(chunks) \in Nat /\ n <= Len(chunks) /\ n \in 1..Len(chunks)
      BY <2>1
    <2>3. Next1 = chunks[n] /\ chunks[n] \in Chunk
      <3>1. Next1 = chunks[n]
        BY <1>1, <2>2 DEF AtChunk, Next1
      <3>2. ASSUME NEW S, NEW x \in Seq(S), NEW j \in 1..Len(x) PROVE x[j] \in S
        BY <3>2
      <3>3. QED
        BY <2>1, <2>2, <3>1, <3>2
    <2>4. QED
      BY <2>1, <2>2, <2>3 DEF Chunk
  <1> PICK f : f = LaidBy(tab, scope, chunks, section, here)
    OBVIOUS
  <1>4. /\ OneGo!Chunks(prog[at]) = chunks /\ OneGo!Foreseen(tab, prog[at], t.scope, section, here)
        /\ \A k \in 1..(n - 1) : OneGo!Certain(tab, scope, chunks[k])
        /\ ptr = [t.ptrs[1] EXCEPT ![section] = f[n - 1].ofs]
        /\ f[n - 1].fields = RestShown(image, m)
    BY SMTT(30), <1>1 DEF ShownBy, LineAtHand
  <1>6. f[n - 1].ofs = Here /\ Here \in Int /\ section \in Sections /\ t.ptrs[1] \in [Sections -> Int]
    <2>1. ASSUME NEW S, NEW x \in Seq(S), Len(x) > 0 PROVE x[1] \in S
      BY <2>1
    <2>2. t.ptrs[1] \in [Sections -> Int] /\ section \in Sections
      BY <1>1, <1>3, <2>1 DEF AtChunk, TypeInv, LayoutInv
    <2>3. QED
      BY <1>4, <2>2, HereOffset DEF Here
  <1>7. /\ GetConst(tab, scope, Next1.e) = GetConst(consts, scope, Next1.e)
        /\ SingleRef(tab, scope, Next1.e) <=> IsRef
        /\ SegRef(tab, Next1.e) <=> SegRef(consts, Next1.e)
    BY <1>1, <1>3 DEF AtChunk, IsRef
  <1>8. AddsField(tab)
    BY <1>1, <1>7, EmitsField
  <1>9. ChunkLength(tab, scope, Next1) = ChunkLength(consts, scope, Next1)
    BY <1>7 DEF ChunkLength, Value
  <1>10. /\ f[n].ofs = Grown(section, Here + ChunkLength(consts, scope, Next1))
         /\ f[n].fields = IF Next1.form = "bytes" THEN f[n - 1].fields
                          ELSE Append(f[n - 1].fields, FieldOf(tab, scope, section, Here, Next1))
    <2>1. LaidFrom(tab, scope, section, f[n - 1], f[n], chunks[n])
      <3>1. chunks \in Seq(Chunk) /\ n \in 1..Len(chunks) /\ f[n - 1].ofs \in Int
        BY SMTT(30), <1>1, <1>3, <1>6 DEF AtChunk
      <3>2. QED
        BY <3>1, LaidOn
    <2>2. QED
      BY <1>3, <1>6, <1>9, <2>1 DEF LaidFrom
  <1>11. ptr' = [t.ptrs[1] EXCEPT ![section] = f[n].ofs]
    <2> PICK p : p = t.ptrs[1]
      OBVIOUS
    <2> PICK len : len = ChunkLength(consts, scope, Next1)
      OBVIOUS
    <2>1. ptr' = [ptr EXCEPT ![section] = Grown(section, Here + len)]
      BY <1>2 DEF Past, Grown, Here
    <2>2. QED
      BY <1>4, <1>6, <1>10, <2>1
  <1>12. /\ trace'[1] \in Seq(TraceLine) /\ at \in DOMAIN trace'[1] /\ Len(trace'[1]) = at
         /\ trace'[1][at] = [t EXCEPT !.ptrs = Append(t.ptrs, ptr')]
    <2>1. 1 \in DOMAIN trace /\ trace'[1] = [trace[1] EXCEPT ![at] = [t EXCEPT !.ptrs = Append(t.ptrs, ptr')]]
      BY <1>1, <1>2, TraceTyped DEF TracedOn
    <2>2. trace'[1] \in Seq(TraceLine)
      <3>1. TypeInv'
        BY TypeEmit
      <3>2. 1 \in 0..2-1
        OBVIOUS
      <3>3. QED
        BY <3>1, <3>2 DEF TypeInv, RecordInv, Passes
    <2>3. ASSUME NEW S, NEW x \in Seq(S), NEW i \in DOMAIN x, NEW y, [x EXCEPT ![i] = y] \in Seq(S)
          PROVE  Len([x EXCEPT ![i] = y]) = Len(x) /\ [x EXCEPT ![i] = y][i] = y /\ i \in DOMAIN [x EXCEPT ![i] = y]
      BY <2>3
    <2>4. QED
      BY <1>1, <2>1, <2>2, <2>3 DEF AtChunk
  <1> PICK u : u = trace'[1][at]
    OBVIOUS
  <1>13. /\ Len(u.ptrs) = n + 1 /\ u.ptrs[1] = t.ptrs[1] /\ u.scope = t.scope /\ u.section = t.section
         /\ Began(u) = here
    <2>1. t \in TraceLine /\ t.ptrs \in Seq([Sections -> Int]) /\ Len(t.ptrs) = n
      BY <1>1 DEF AtChunk
    <2>2. ASSUME NEW S, NEW x \in Seq(S), Len(x) > 0, NEW y PROVE Append(x, y)[1] = x[1] /\ Len(Append(x, y)) = Len(x) + 1
      BY <2>2
    <2> PICK x : x = Append(t.ptrs, ptr')
      OBVIOUS
    <2>3. u = [t EXCEPT !.ptrs = x]
      BY <1>12
    <2>4. u.ptrs = x /\ u.scope = t.scope /\ u.section = t.section
      BY <2>1, <2>3 DEF TraceLine
    <2>5. x[1] = t.ptrs[1] /\ Len(x) = n + 1
      BY <1>3, <2>1, <2>2
    <2>6. QED
      BY Zenon, <2>4, <2>5 DEF Began
  <1>14. OneGo!Certain(tab, scope, Next1) /\ image \in Seq(Piece)
    BY <1>8 DEF AddsField, ImageInv
  <1>15. \A k \in 1..n : OneGo!Certain(tab, scope, chunks[k])
    <2>1. \A k \in 1..n : k = n \/ k \in 1..(n - 1)
      BY <1>3
    <2>2. QED
      BY <1>3, <1>4, <1>14, <2>1
  <1>16. CutAt(image, m) /\ m \in 0..Len(image)
    BY DEF ShownBy, CutAt
  <1>17. /\ CutAt(image', m) /\ f[n].fields = RestShown(image', m) /\ SubSeq(image', 1, m) = SubSeq(image, 1, m)
    <2>1. CASE Next1.form = "bytes"
      <3>1. image' = image
        BY <1>8, <2>1 DEF AddsField
      <3>2. QED
        BY <1>4, <1>10, <1>16, <2>1, <3>1
    <2>2. CASE Next1.form # "bytes"
      <3>1. PICK p : image' = Append(image, p) /\ p.line = at /\ Shown(p) = FieldOf(tab, scope, section, Here, Next1)
        BY <1>8, <2>2 DEF AddsField
      <3>2. RestShown(image', m) = Append(RestShown(image, m), Shown(p))
        BY <1>14, <1>16, <3>1, RestGrows
      <3>3. ASSUME NEW S, NEW x \in Seq(S), NEW y, NEW l \in 0..Len(x)
            PROVE  /\ l \in 0..Len(Append(x, y)) /\ SubSeq(Append(x, y), 1, l) = SubSeq(x, 1, l)
                   /\ \A i \in 1..l : Append(x, y)[i] = x[i]
                   /\ \A i \in (l + 1)..Len(Append(x, y)) :
                        Append(x, y)[i] = y \/ (i \in (l + 1)..Len(x) /\ Append(x, y)[i] = x[i])
        <4>1. /\ l \in 0..Len(Append(x, y))
              /\ \A i \in 1..l : Append(x, y)[i] = x[i]
              /\ \A i \in (l + 1)..Len(Append(x, y)) :
                   Append(x, y)[i] = y \/ (i \in (l + 1)..Len(x) /\ Append(x, y)[i] = x[i])
          BY <3>3
        <4>2. SubSeq(Append(x, y), 1, l) = [i \in 1..l |-> Append(x, y)[i]] /\ SubSeq(x, 1, l) = [i \in 1..l |-> x[i]]
          BY <3>3
        <4>3. QED
          BY <4>1, <4>2
      <3>4. CutAt(image', m)
        BY <1>14, <1>16, <3>1, <3>3 DEF CutAt
      <3>5. QED
        BY Zenon, <1>4, <1>10, <1>14, <1>16, <2>2, <3>1, <3>2, <3>3, <3>4
    <2>3. QED
      BY <2>1, <2>2
  <1>18. /\ Found' = Found /\ \A i, sec : ChunksIn(i, sec)' = ChunksIn(i, sec)
    BY <1>1 DEF Found, ChunksIn, Stops
  <1>19. LineAtHand(u, m)'
    <2>1. ChunksIn(at', section') = chunks /\ ChunksIn(at, section)' = chunks /\ Began(u)' = here
      BY SMTT(30), <1>1, <1>2, <1>13, <1>18 DEF Began
    <2>2. KnownAt(Began(u))' = tab
      BY <1>13, <1>18 DEF KnownAt, Began
    <2>3. LaidBy(KnownAt(Began(u)), scope, ChunksIn(at, section), section, Began(u))' = f
      BY <1>1, <2>1, <2>2
    <2>4. (Len(u.ptrs) - 1)' = n /\ u'.ptrs[1] = t.ptrs[1] /\ u'.scope = t.scope
      BY SMTT(30), <1>3, <1>13
    <2>5. OneGo!Chunks(prog[at])' = chunks
      BY SMTT(30), <1>1, <1>2, <1>4
    <2>6. OneGo!Foreseen(KnownAt(Began(u)), prog[at], u.scope, section, Began(u))'
      BY <1>1, <1>2, <1>4, <1>13, <2>1, <2>2
    <2>7. (\A k \in 1..(Len(u.ptrs) - 1) : OneGo!Certain(KnownAt(Began(u)), scope, ChunksIn(at, section)[k]))'
      BY <1>1, <1>15, <2>1, <2>2, <2>4
    <2>8. (ptr = [u.ptrs[1] EXCEPT ![section] =
                    LaidBy(KnownAt(Began(u)), scope, ChunksIn(at, section), section, Began(u))[Len(u.ptrs) - 1].ofs])'
      BY <1>1, <1>11, <1>13, <2>3, <2>4
    <2>9. (LaidBy(KnownAt(Began(u)), scope, ChunksIn(at, section), section, Began(u))[Len(u.ptrs) - 1].fields
             = RestShown(image, m))'
      <3>1. RestShown(image, m)' = RestShown(image', m)
        BY DEF RestShown
      <3>2. QED
        BY <1>17, <2>3, <2>4, <3>1
    <2>10. OneGo!Chunks(prog[at])' = ChunksIn(at, section)'
      BY <2>1, <2>5
    <2>11. QED
      BY <2>6, <2>7, <2>8, <2>9, <2>10 DEF LineAtHand
  <1>20. ShownBy(m)'
    <2>1. u = (trace[1][at])' /\ pc' = "emit" /\ CutAt(image, m)'
      BY <1>2, <1>17 DEF CutAt
    <2>2. LineAtHand(trace[1][at], m)'
      BY <1>19, <2>1 DEF LineAtHand
    <2>3. QED
      BY <2>1, <2>2 DEF ShownBy
  <1>21. Begun' = Begun /\ Last(trace'[pass']).scope = Last(trace[pass]).scope
    BY <1>1, <1>2, <1>12, <1>13 DEF Begun, Last, AtChunk
  <1>22. QED
    BY <1>1, <1>2, <1>17, <1>20, <1>21
-----------------------------------------------------------------------------
LEMMA ToldThen ==
  ASSUME FileInv'
  PROVE  /\ Told' <=> Going'
         /\ Promised' = IF ~Reading' THEN "before" ELSE IF ~Going' THEN "silent"
                        ELSE IF Delivered' THEN "delivered" ELSE "working"
  <1>1. Delivered' => errors' \cup warnings' = {} /\ pass' = Passes
    BY DEF FileInv, OutputOnlyIfClean, Delivered
  <1>2. QED
    BY <1>1 DEF Told, Promised, Going, Reading

(* A line that has emitted its chunks has been laid out.                   *)
LEMMA LineWhole ==
  ASSUME TypeInv, FileInv, ReachInv, LaidInv, ImageInv, FileInv', EmitStep, Going', todo = <<>>, NEW m, ShownBy(m)
  PROVE  OneGo!LayLine /\ (\E k : ShownBy(k)') /\ pc' = "line" /\ at' > 1 /\ pass' = 1
  <1> PICK t : t = trace[1][at]
    OBVIOUS
  <1> PICK chunks : chunks = ChunksIn(at, section)
    OBVIOUS
  <1> PICK here : here = Began(t)
    OBVIOUS
  <1> PICK tab : tab = KnownAt(here)
    OBVIOUS
  <1> PICK f : f = LaidBy(tab, scope, chunks, section, here)
    OBVIOUS
  <1>1. /\ pass = 1 /\ pass' = 1 /\ Going /\ pc = "emit"
        /\ UNCHANGED <<prog, target, isOrgDef, consts, scope, section, org, steady>>
        /\ AtChunk(t, chunks)
    BY EmitFacts
  <1>2. /\ pc' = "line" /\ at' = at + 1 /\ UNCHANGED <<ptr, trace>> /\ image' = image
    <2>1. pc' = "line" /\ at' = at + 1 /\ UNCHANGED <<ptr, trace>>
      BY EmitGoes
    <2>2. image' = image
      BY DEF EmitStep, LineEmitted, EmitBytes, EmitByte, RejectSeg, EmitSeg, EmitWord, EmitLong, EmitRel8,
             ShortToImport, EmitRel16, NearToImport, FarRejected, EmitFar, EmitAddress, EmitBased, Emitting
    <2>3. QED
      BY <2>1, <2>2
  <1>3. /\ t.ptrs[1] = Begun /\ Last(trace[pass]).scope = t.scope /\ at \in Nat
        /\ Len(t.ptrs) = Len(chunks) + 1 /\ Len(t.ptrs) - 1 = Len(chunks) /\ Len(chunks) \in Nat
        /\ chunks \in Seq(Chunk) /\ scope = ScopeIn(at, t) /\ section = t.section
    <2>1. Last(trace[pass]) = t
      BY <1>1 DEF Last, AtChunk
    <2>2. chunks \in Seq(Chunk) /\ Len(t.ptrs) = Len(chunks) + 1
      BY <1>1 DEF AtChunk
    <2>3. Len(chunks) \in Nat /\ (Len(chunks) + 1) - 1 = Len(chunks)
      BY SMTT(30), <2>2
    <2>4. QED
      BY <1>1, <2>1, <2>2, <2>3 DEF Begun, AtChunk
  <1>4. /\ OneGo!Chunks(prog[at]) = chunks /\ OneGo!Foreseen(tab, prog[at], t.scope, section, here)
        /\ \A k \in 1..Len(chunks) : OneGo!Certain(tab, scope, chunks[k])
        /\ ptr = [t.ptrs[1] EXCEPT ![section] = f[Len(chunks)].ofs]
        /\ f[Len(chunks)].fields = RestShown(image, m)
    BY <1>1, <1>3 DEF ShownBy, LineAtHand
  <1>5. image \in Seq(Piece) /\ m \in 0..Len(image) /\ CutAt(image, m)
    BY DEF ImageInv, ShownBy, CutAt
  <1> PICK k : k = Len(image)
    OBVIOUS
  <1>6. CutAt(image, k)'
    <2>1. ASSUME NEW i \in 1..Len(image) PROVE image[i].line < at + 1
      <3>1. i \in 1..m \/ i \in (m + 1)..Len(image)
        BY <1>5
      <3>2. image[i].line < at \/ image[i].line = at
        BY <1>5, <3>1 DEF CutAt
      <3>3. image[i].line \in Nat
        <4>1. ASSUME NEW S, NEW x \in Seq(S), NEW j \in 1..Len(x) PROVE x[j] \in S
          BY <4>1
        <4>2. image[i] \in Piece
          BY <1>5, <4>1
        <4>3. QED
          BY <4>2 DEF Piece
      <3>4. QED
        BY <1>3, <3>2, <3>3
    <2>2. Len(image) \in 0..Len(image) /\ (Len(image) + 1)..Len(image) = {}
      BY <1>5
    <2>3. QED
      BY <1>2, <2>1, <2>2 DEF CutAt
  <1>7. ShownBy(k)'
    BY <1>2, <1>6 DEF ShownBy
  <1>8. Fields' = Fields \o f[Len(chunks)].fields
    <2>1. Fields = ShownAll(SubSeq(image, 1, m))
      BY <1>3, <1>5, CompleteIs
    <2>2. Fields' = ShownAll(SubSeq(image, 1, Len(image)))
      <3>1. at' \in Nat /\ image' \in Seq(Piece)
        BY <1>2, <1>3, <1>5
      <3>2. Complete' = SubSeq(image', 1, k) /\ Fields' = ShownAll(Complete')
        BY <1>6, <3>1, CompleteThen
      <3>3. QED
        BY <1>2, <3>2
    <2>3. QED
      BY <1>4, <1>5, <2>1, <2>2, RestJoins
  <1>9. LaysBy(t)
    <2> PICK laid : laid = OneGo!LaidOut(tab, scope, chunks, section, here)
      OBVIOUS
    <2>1. laid = f[Len(chunks)]
      <3>1. OneGo!LaidOut(tab, scope, chunks, section, here) = LaidBy(tab, scope, chunks, section, here)[Len(chunks)]
        BY SMTT(30), <1>3, LaidOutIs
      <3>2. QED
        BY <3>1
    <2>2. \A i \in DOMAIN chunks : OneGo!Certain(tab, scope, chunks[i])
      BY <1>3, <1>4
    <2>3. /\ Fields' = Fields \o laid.fields /\ ptr' = [t.ptrs[1] EXCEPT ![section] = laid.ofs]
          /\ prog[at].op \notin {"res", "section"} /\ section' = section /\ scope' = scope
      BY Zenon, <1>1, <1>2, <1>4, <1>8, <2>1 DEF AtChunk
    <2>4. QED
      BY Zenon, <1>3, <1>4, <2>2, <2>3 DEF LaysBy
  <1>10. Found' = Found
    BY <1>1 DEF Found
  <1>11. Told /\ Told' /\ Promised = "working" /\ Promised' = "working"
    <2>1. Reading /\ Reading'
      BY <1>1 DEF Going
    <2>2. ~Delivered /\ ~Delivered'
      BY <1>1, <1>2 DEF Delivered
    <2>3. QED
      BY <1>1, <2>1, <2>2, ToldIs, ToldThen
  <1>12. OneGo!LayLine
    <2>1. /\ Labelled(at, t) /\ at <= Len(prog) /\ (at > 1 => prog[at - 1].op # "end")
          /\ Begun = t.ptrs[1] /\ section = t.section
          /\ t.scope = IF pc = "emit" THEN Last(trace[pass]).scope ELSE scope
          /\ prog' = prog /\ Found' = Found /\ at' = at + 1 /\ pc' # "emit"
      BY <1>1, <1>2, <1>3, <1>10 DEF AtChunk
    <2>2. QED
      BY <1>9, <1>11, <2>1, LaysLine
  <1>13. QED
    <2>1. at' > 1
      <3>1. at > 0 /\ at \in Nat
        BY <1>3 DEF TypeInv, PlaceInv
      <3>2. QED
        BY <1>2, <3>1
    <2>2. QED
      BY <1>1, <1>2, <1>7, <1>12, <2>1
-----------------------------------------------------------------------------
(* Where a line is that nothing is complained of.                          *)
AtLine ==
  /\ pass = 1 /\ pass' = 1 /\ pc = "line" /\ Going /\ errors' \cup warnings' = {}
  /\ UNCHANGED <<prog, target, isOrgDef, steady>> /\ Found' = Found /\ image' = image
  /\ at \in DOMAIN prog /\ at \in Nat /\ at > 0 /\ at <= Len(prog) /\ (at > 1 => prog[at - 1].op # "end")
  /\ prog \in Programs /\ Steady(prog) /\ Stmt \in Statement /\ Stmt.e \in Expr
  /\ HasLine /\ LineConsts = WithDollar(consts, Here) /\ SameBut(consts, consts') /\ OriginIs(consts, org)
  /\ IsTable(consts) /\ IsTable(consts') /\ Dollar \in DOMAIN consts /\ Here \in Int
  /\ Onward /\ NewLine \in TraceLine /\ Labelled(at, NewLine)
  /\ trace'[1] \in Seq(TraceLine) /\ Len(trace'[1]) = at /\ trace'[1][at] = NewLine

LEMMA LineFacts ==
  ASSUME TypeInv, ReachInv, IdsInv, LaidInv, SeenInv, LineStep, Going', at <= Len(prog)
  PROVE  AtLine
  <1>1. /\ pc = "line" /\ UNCHANGED <<prog, pass, target, isOrgDef>> /\ steady' = steady
        /\ errors \subseteq errors' /\ warnings \subseteq warnings'
        /\ pc' \in {"line", "emit", "end"}
    BY LineWays, StepsSay DEF Moves1, Emits, Halts
  <1>2. pass = 1
    <2>1. pass < Passes /\ pass \in 0..Passes /\ Passes = 2
      BY <1>1 DEF TypeInv, PlaceInv, Assembling, Passes
    <2>2. 2 - 1 = 1 /\ pass # Passes
      BY <2>1
    <2>3. QED
      BY <1>1, <2>1, <2>2 DEF Going, Reading
  <1>3. Going /\ Settled /\ Settled' /\ errors' \cup warnings' = {} /\ steady /\ steady' /\ Underway
    <2>1. 2 - 1 = 1
      OBVIOUS
    <2>2. QED
      BY <1>1, <1>2, <2>1 DEF Going, Reading, Settled, Passes, Underway
  <1>4. /\ Steady(prog) /\ PassesInv /\ ChainedInv /\ LineInv /\ DollarInv /\ Seen(consts, org, trace[0])
        /\ "changed" \notin warnings'
    BY <1>3 DEF LaidInv, SeenInv
  <1>5. HasLine
    BY <1>2, <1>4, LineThere
  <1>6. /\ NewLine \in TraceLine /\ Joins(consts, trace[pass], at, NewLine)
        /\ Len(trace[pass]) = at - 1 /\ at \in DOMAIN prog
    BY <1>4, LineChains
  <1>7. trace' = [trace EXCEPT ![pass] = Append(trace[pass], NewLine)] /\ Onward
    BY <1>4, <1>6, LineGoes
  <1>8. SameBut(consts, consts')
    BY <1>2, <1>3, TableStays
  <1>9. /\ IsTable(consts) /\ Dollar \in DOMAIN consts /\ IsTable(consts') /\ Here \in Int /\ prog \in Programs
        /\ at \in Nat /\ at > 0 /\ Clear(at)
    <2>1. TypeInv'
      BY TypeLine
    <2>2. QED
      BY <1>1, <2>1, HereOffset DEF TypeInv, TableInv, PlaceInv, ReachInv
  <1>10. Found' = Found
    BY <1>8, <1>9, FoundStays
  <1>11. LineConsts = WithDollar(consts, Here)
    BY <1>1, <1>5, LineConstsIs DEF WithDollar
  <1>12. Stmt \in Statement /\ Stmt.e \in Expr
    BY <1>4, <1>6, <1>9, SteadyLine DEF Stmt
  <1>13. at > 1 => prog[at - 1].op # "end"
    <2>1. prog \in Seq(Statement)
      BY <1>9, ProgramsAssumption DEF ProgramsAssumption
    <2>2. at > 1 => at - 1 \in DOMAIN prog /\ at - 1 < at
      BY <1>9, <2>1
    <2>3. QED
      BY <1>9, <2>2 DEF Clear, Stops
  <1>14. trace'[1] \in Seq(TraceLine) /\ Len(trace'[1]) = at /\ trace'[1][at] = NewLine
    <2> PICK q : q = trace[1]
      OBVIOUS
    <2> PICK t : t = NewLine
      OBVIOUS
    <2>1. trace'[1] = Append(q, t) /\ q \in Seq(TraceLine) /\ Len(q) = at - 1 /\ t \in TraceLine
      BY <1>2, <1>6, <1>7, TraceTyped
    <2>2. ASSUME NEW S, NEW x \in Seq(S), NEW y \in S, NEW n \in Nat, Len(x) = n - 1
          PROVE  Append(x, y) \in Seq(S) /\ Len(Append(x, y)) = n /\ Append(x, y)[n] = y
      <3>1. Append(x, y) \in Seq(S) /\ Len(Append(x, y)) = Len(x) + 1 /\ Append(x, y)[Len(x) + 1] = y
        BY <2>2
      <3>2. (n - 1) + 1 = n
        OBVIOUS
      <3>3. QED
        BY <2>2, <3>1, <3>2
    <2>3. QED
      BY <1>9, <2>1, <2>2
  <1>15. Labelled(at, NewLine)
    BY DEF Labelled, NewLine, LineName, Stmt
  <1>16. image' = image
    BY LineImage
  <1>17. OriginIs(consts, org)
    BY <1>4 DEF Seen
  <1>18. pass' = 1 /\ UNCHANGED <<prog, target, isOrgDef, steady>>
    BY <1>1, <1>2
  <1>19. QED
    BY <1>1, <1>2, <1>3, <1>4, <1>5, <1>6, <1>7, <1>8, <1>9, <1>10, <1>11, <1>12, <1>13, <1>14, <1>15, <1>16, <1>17,
       <1>18, Zenon DEF AtLine
-----------------------------------------------------------------------------
(* What was known of a name but $.                                         *)
LEMMA KnownOf ==
  ASSUME IsTable(consts), Dollar \in DOMAIN consts, NEW b \in Int, NEW n \in DOMAIN consts, n # Dollar
  PROVE  /\ n \in DOMAIN KnownAt(b) /\ KnownAt(b)[n].type = consts[n].type
         /\ KnownAt(b)[n].value = consts[n].value /\ KnownAt(b)[n].section = consts[n].section
  <1>1. /\ IsTable(Found) /\ DOMAIN Found = DOMAIN consts /\ SameBut(consts, Found)
        /\ Found[n].value = consts[n].value
    BY FoundIs
  <1>2. Found[n].type = consts[n].type /\ Found[n].section = consts[n].section
    BY <1>1 DEF SameBut
  <1>3. KnownAt(b)[n] = Found[n] /\ n \in DOMAIN KnownAt(b)
    <2>1. KnownAt(b) = [Found EXCEPT ![Dollar].value = b]
      BY DEF KnownAt, WithDollar
    <2>2. QED
      BY <1>1, <2>1
  <1>4. QED
    BY <1>1, <1>2, <1>3

(* Nothing a line may complain of: an EQU that is worth something else, an *)
(* instruction in no table, for no operands, or outside .text, an ORG out  *)
(* of place, no section.                                                   *)
LEMMA LineUnsaid ==
  ASSUME AtLine, LineStep
  PROVE  /\ Stmt.op = "equ" =>
              ~ConstChanged(LineConsts, LineName, "EXPR", Value(LineConsts, scope, Stmt.e), 1)
         /\ Stmt.op = "instr" => section = "TEXT" /\ Taken(Stmt.ins) # {} /\ ~Stops(at)
         /\ Stmt.op = "org" => ~isOrgDef
         /\ Stmt.op = "section" => SectionNamed(Stmt.names[1].name) # "unknown"
  <1> USE DEF AtLine
  <1>1. ASSUME NEW said, Report(said) PROVE said \cap (ErrorKinds \cup WarningKinds) = {}
    BY <1>1 DEF Report
  <1>2. {"syntax", "outside", "org", "section"} \subseteq ErrorKinds /\ "changed" \in WarningKinds
    BY DEF ErrorKinds, WarningKinds
  <1>3. ASSUME NEW said, Report(said), NEW k \in {"syntax", "outside", "org", "section", "changed"}
        PROVE  k \notin said
    BY <1>1, <1>2, <1>3
  <1> HIDE DEF AtLine
  <1>4. pc = "line" /\ at <= Len(prog) /\ pass = 1 /\ ~(at > Len(prog))
    <2>1. at \in Nat /\ Len(prog) \in Nat
      BY ProgramsAssumption DEF AtLine, ProgramsAssumption
    <2>2. QED
      BY <2>1 DEF AtLine
  <1>5. ASSUME Stmt.op = "equ"
        PROVE  ~ConstChanged(LineConsts, LineName, "EXPR", Value(LineConsts, scope, Stmt.e), 1)
    <2>1. Equ
      BY <1>4, <1>5 DEF LineStep, OnLine, LabelAlone, List, Instr, NoRow, OutsideText, Reserve, SectionDirective,
        Export, Import, OrgDirective, OrgRefused, End, Equ, SyntaxError, Define, Undef, Exhausted
    <2>2. Report(Complaints(LineConsts, scope, Stmt.e)
             \cup (IF NoParent(Stmt.label, scope) /\ pass > 0 THEN {"parent"} ELSE {})
             \cup (IF ConstChanged(LineConsts, LineName, "EXPR", Value(LineConsts, scope, Stmt.e), pass)
                   THEN {"changed"} ELSE {}))
      BY <2>1 DEF Equ
    <2>3. QED
      BY <1>3, <1>4, <2>2
  <1>6. ASSUME Stmt.op = "instr" PROVE section = "TEXT" /\ Taken(Stmt.ins) # {} /\ ~Stops(at)
    <2>1. Instr \/ NoRow \/ OutsideText \/ SyntaxError
      BY <1>4, <1>6 DEF LineStep, OnLine, LabelAlone, List, Instr, NoRow, OutsideText, Reserve, SectionDirective,
        Export, Import, OrgDirective, OrgRefused, End, Equ, SyntaxError, Define, Undef, Exhausted
    <2>2. ~NoRow /\ ~OutsideText /\ ~SyntaxError
      BY <1>3 DEF NoRow, OutsideText, SyntaxError, Starts
    <2>3. Lex # "NONE" /\ section = "TEXT" /\ \E row \in Taken(Stmt.ins) : TRUE
      BY <2>1, <2>2 DEF Instr
    <2>4. ~Stops(at)
      BY <1>6, <2>3 DEF Stops, Stmt, Lex
    <2>5. QED
      BY <2>3, <2>4
  <1>7. ASSUME Stmt.op = "org" PROVE ~isOrgDef
    <2>1. OrgDirective \/ OrgRefused
      BY <1>4, <1>7 DEF LineStep, OnLine, LabelAlone, List, Instr, NoRow, OutsideText, Reserve, SectionDirective,
        Export, Import, OrgDirective, OrgRefused, End, Equ, SyntaxError, Define, Undef, Exhausted
    <2>2. ~OrgRefused
      BY <1>3 DEF OrgRefused
    <2>3. QED
      BY <2>1, <2>2 DEF OrgDirective
  <1>8. ASSUME Stmt.op = "section" PROVE SectionNamed(Stmt.names[1].name) # "unknown"
    <2>1. SectionDirective
      BY <1>4, <1>8 DEF LineStep, OnLine, LabelAlone, List, Instr, NoRow, OutsideText, Reserve, SectionDirective,
        Export, Import, OrgDirective, OrgRefused, End, Equ, SyntaxError, Define, Undef, Exhausted
    <2>2. Report(LineSaid \cup (IF SectionNamed(Stmt.names[1].name) = "unknown" THEN {"section"} ELSE {}))
      BY <2>1 DEF SectionDirective
    <2>3. QED
      BY <1>3, <2>2
  <1>9. QED
    BY <1>5, <1>6, <1>7, <1>8

LEMMA LineForeseen ==
  ASSUME TypeInv, AtLine, LineStep
  PROVE  OneGo!Foreseen(KnownAt(Here), Stmt, scope, section, Here)
  <1> PICK tab : tab = KnownAt(Here)
    OBVIOUS
  <1> PICK here : here = Here
    OBVIOUS
  <1>1. CASE Stmt.label.kind = "none"
    BY <1>1 DEF OneGo!Foreseen
  <1>2. CASE Stmt.label.kind # "none"
    <2>1. /\ LineName # Dollar /\ LineName = QName(Stmt.label, scope)
      BY <1>2, LineNameApart DEF AtLine, LineName
    <2>2. OneGo!QName(Stmt.label, scope) = LineName
      BY <2>1, SameNames
    <2>3. /\ IsTable(consts) /\ Dollar \in DOMAIN consts /\ here \in Int /\ Stmt.e \in Expr /\ HasLine
          /\ LineConsts = WithDollar(consts, Here) /\ pass = 1
      BY DEF AtLine
    <2>4. CASE Stmt.op = "equ"
      <3>1. LineName \in DOMAIN consts /\ consts[LineName].type = "EXPR"
        BY <2>3, <2>4 DEF HasLine
      <3>2. /\ LineName \in DOMAIN tab /\ tab[LineName].type = "EXPR"
            /\ tab[LineName].value = consts[LineName].value
        BY <2>1, <2>3, <3>1, KnownOf
      <3>3. LineName \in DOMAIN LineConsts /\ LineConsts[LineName] = consts[LineName]
        <4>1. WithDollar(consts, Here) = [consts EXCEPT ![Dollar].value = here]
          BY DEF WithDollar
        <4>2. QED
          BY <2>1, <2>3, <3>1, <4>1
      <3>4. ~ConstChanged(LineConsts, LineName, "EXPR", Value(LineConsts, scope, Stmt.e), 1)
        BY <2>4, LineUnsaid
      <3>5. consts[LineName].value = Value(LineConsts, scope, Stmt.e)
        <4>1. 1 > 0
          OBVIOUS
        <4>2. QED
          BY <3>3, <3>4, <4>1 DEF ConstChanged
      <3>6. Value(LineConsts, scope, Stmt.e) = OneGo!Value(tab, scope, Stmt.e)
        <4>1. GetConst(tab, scope, Stmt.e) = GetConst(LineConsts, scope, Stmt.e)
          BY <2>3, KnownReads
        <4>2. QED
          BY <4>1, SameWorth DEF Value, OneGo!Value
      <3>7. OneGo!HasType(tab, LineName, {"EXPR"})
        BY <3>2, SameNames DEF HasType
      <3>8. QED
        BY <1>2, <2>2, <2>4, <3>2, <3>5, <3>6, <3>7 DEF OneGo!Foreseen
    <2>5. CASE Stmt.op # "equ"
      <3>1. /\ LineName \in DOMAIN consts /\ consts[LineName].type = LabelType(section)
            /\ consts[LineName].value = Here /\ consts[LineName].section = section
        BY <1>2, <2>3, <2>5 DEF HasLine, HasLabel
      <3>2. /\ LineName \in DOMAIN tab /\ tab[LineName].type = LabelType(section)
            /\ tab[LineName].value = Here /\ tab[LineName].section = section
        BY <2>1, <2>3, <3>1, KnownOf
      <3>3. OneGo!HasType(tab, LineName, {LabelType(section)}) /\ OneGo!LabelType(section) = LabelType(section)
        BY <3>2, SameNames DEF HasType
      <3>4. QED
        BY <1>2, <2>2, <2>5, <3>2, <3>3 DEF OneGo!Foreseen
    <2>6. QED
      BY <2>4, <2>5
  <1>3. QED
    BY <1>1, <1>2

LEMMA LineIsIn ==
  ASSUME AtLine, LineStep
  PROVE  OneGo!Chunks(Stmt) = ChunksIn(at, section)
  <1>1. Stmt = prog[at]
    BY DEF Stmt
  <1>2. CASE Stmt.op \in {"db", "dw", "dd"}
    BY <1>1, <1>2, SameItems DEF OneGo!Chunks, ChunksIn
  <1>3. CASE Stmt.op = "instr"
    <2>1. section = "TEXT" /\ Taken(Stmt.ins) # {} /\ ~Stops(at)
      BY <1>3, LineUnsaid
    <2>2. ChunksIn(at, section) = Lead(Stmt) \o RowChunks(TakenRow(Stmt.ins), Stmt.ins.params)
      BY <1>1, <1>3, <2>1 DEF ChunksIn
    <2>3. OneGo!Chunks(Stmt) = Lead(Stmt) \o RowChunks(TakenRow(Stmt.ins), Stmt.ins.params)
      <3>1. OneGo!Taken(Stmt.ins) = Taken(Stmt.ins) /\ OneGo!Lead(Stmt) = Lead(Stmt)
        BY SameTaken, SameItems
      <3>2. (CHOOSE row \in OneGo!Taken(Stmt.ins) : TRUE) = TakenRow(Stmt.ins)
        BY <3>1 DEF TakenRow
      <3>3. OneGo!Chunks(Stmt) = OneGo!Lead(Stmt) \o OneGo!RowChunks(CHOOSE row \in OneGo!Taken(Stmt.ins) : TRUE, Stmt.ins.params)
        BY <1>3, <2>1, <3>1 DEF OneGo!Chunks
      <3>4. QED
        BY <3>1, <3>2, <3>3, SameChunks
    <2>4. QED
      BY <2>2, <2>3
  <1>4. CASE Stmt.op \notin {"db", "dw", "dd", "instr"}
    BY <1>1, <1>4 DEF OneGo!Chunks, ChunksIn
  <1>5. QED
    BY <1>2, <1>3, <1>4
-----------------------------------------------------------------------------
(* The scope a line is read from the start in.                             *)
ScopeNow == IF pc = "emit" THEN Last(trace[pass]).scope ELSE scope

(* The one pass stands still.                                              *)
LEMMA StandsStill ==
  ASSUME prog' = prog, Promised' = Promised, Told' <=> Told,
         Told => UNCHANGED <<Found, at, section, Begun, ScopeNow, Fields>>
  PROVE  UNCHANGED OneGo!vars
  <1> DEFINE
     aknown == IF Told THEN Found ELSE EmptyTable
     aptr == IF Told THEN Begun ELSE [s \in Sections |-> 0]
     ascope == IF Told THEN (IF pc = "emit" THEN Last(trace[pass]).scope ELSE scope) ELSE NoScope
     asection == IF Told THEN section ELSE "TEXT"
     aat == IF Told THEN at ELSE 1
     afields == IF Told THEN Fields ELSE <<>>
     L == UNCHANGED <<prog, Promised, aknown, aat, asection, aptr, ascope, afields>>
  <1>1. L => UNCHANGED OneGo!vars
    BY DEF OneGo!vars
  <1>2. L
    <2>1. CASE ~Told
      <3>1. aknown' = aknown /\ aptr' = aptr
        BY <2>1
      <3>2. ascope' = ascope /\ asection' = asection /\ aat' = aat /\ afields' = afields
        BY <2>1
      <3>3. QED
        BY <3>1, <3>2
    <2>2. CASE Told
      <3>1. aknown' = aknown /\ aptr' = aptr /\ asection' = asection /\ aat' = aat /\ afields' = afields
        BY <2>2
      <3>2. ascope' = ascope
        BY <2>2 DEF ScopeNow
      <3>3. QED
        BY <3>1, <3>2
    <2>3. QED
      BY <2>1, <2>2
  <1>3. QED
    BY <1>1, <1>2

LEMMA NoFields ==
  ASSUME NEW S, NEW im \in Seq(S)
  PROVE  ShownAll(SubSeq(im, 1, Len(im))) \o <<>> = ShownAll(SubSeq(im, 1, Len(im)))
  <1>1. Len(im) \in 0..Len(im)
    OBVIOUS
  <1>2. QED
    BY <1>1, RestJoins

(* Where a line is that no chunk of has been emitted.                      *)
LEMMA AtStart ==
  ASSUME ImageInv, AtLine, NEW m, ShownBy(m)
  PROVE  /\ m = Len(image) /\ CutAt(image, m) /\ image \in Seq(Piece) /\ RestShown(image, m) = <<>>
         /\ Fields = ShownAll(SubSeq(image, 1, m)) /\ Fields \o <<>> = Fields
         /\ Told /\ Promised = "working" /\ Begun = ptr /\ ScopeNow = scope
         /\ (at' = at => CutAt(image, m)') /\ (at' = at + 1 => CutAt(image, m)')
  <1>1. m = Len(image) /\ CutAt(image, m) /\ image \in Seq(Piece)
    BY DEF AtLine, ShownBy, ImageInv
  <1>2. RestShown(image, m) = <<>>
    <2>1. Len(image) \in 0..Len(image)
      BY <1>1
    <2>2. RestShown(image, Len(image)) = <<>>
      BY <1>1, <2>1, RestJoins
    <2>3. QED
      BY <1>1, <2>2
  <1>3. Fields = ShownAll(SubSeq(image, 1, m))
    BY <1>1, CompleteIs DEF AtLine
  <1>4. Fields \o <<>> = Fields
    BY <1>1, <1>3, NoFields
  <1>5. Told /\ Promised = "working"
    BY DEF AtLine, Going, Told, Promised, Reading, Delivered
  <1>6. Begun = ptr /\ ScopeNow = scope
    BY DEF AtLine, Begun, ScopeNow
  <1>7. CutAt(image, m)' \/ at' \notin {at, at + 1}
    <2>1. image' = image /\ at \in Nat
      BY DEF AtLine
    <2>2. ASSUME NEW i \in 1..m, NEW a \in {at, at + 1} PROVE image[i].line < a
      <3>1. image[i].line < at
        BY <1>1 DEF CutAt
      <3>2. image[i].line \in Nat
        <4>1. ASSUME NEW S, NEW x \in Seq(S), NEW j \in 1..Len(x) PROVE x[j] \in S
          BY <4>1
        <4>2. image[i] \in Piece
          BY <1>1, <4>1
        <4>3. QED
          BY <4>2 DEF Piece
      <3>3. QED
        BY <2>1, <3>1, <3>2
    <2>3. m \in 0..Len(image) /\ (m + 1)..Len(image) = {}
      BY <1>1
    <2>4. QED
      BY <2>1, <2>2, <2>3 DEF CutAt
  <1>8. (at' = at => CutAt(image, m)') /\ (at' = at + 1 => CutAt(image, m)')
    BY <1>7
  <1>9. QED
    BY <1>1, <1>2, <1>3, <1>4, <1>5, <1>6, <1>8

LEMMA FieldsThen ==
  ASSUME ImageInv, AtLine, NEW m, ShownBy(m), at' \in {at, at + 1}
  PROVE  Fields' = Fields /\ CutAt(image, m)'
  <1>1. image' = image /\ at' \in Nat
    BY DEF AtLine
  <1>2. /\ image \in Seq(Piece) /\ Fields = ShownAll(SubSeq(image, 1, m)) /\ CutAt(image, m)'
    BY AtStart
  <1>3. Complete' = SubSeq(image', 1, m) /\ Fields' = ShownAll(Complete')
    BY <1>1, <1>2, CompleteThen
  <1>4. QED
    BY <1>1, <1>2, <1>3
-----------------------------------------------------------------------------
(* A line starts on its chunks: the one pass waits.                        *)
LEMMA LineBegun ==
  ASSUME TypeInv, FileInv, FileInv', ImageInv, AtLine, LineStep, Going', Emits, UNCHANGED <<ptr, section>>,
         scope' = ScopeIn(at, NewLine), NEW m, ShownBy(m)
  PROVE  UNCHANGED OneGo!vars /\ ShownBy(m)'
  <1>1. /\ pass = 1 /\ pass' = 1 /\ pc = "line" /\ pc' = "emit" /\ at' = at /\ image' = image
        /\ prog' = prog /\ Found' = Found
        /\ trace'[1] \in Seq(TraceLine) /\ Len(trace'[1]) = at /\ trace'[1][at] = NewLine
    BY DEF AtLine, Emits
  <1>2. /\ m = Len(image) /\ RestShown(image, m) = <<>> /\ Told /\ Promised = "working"
        /\ Begun = ptr /\ ScopeNow = scope
    BY AtStart
  <1>3. Fields' = Fields /\ CutAt(image, m)'
    BY <1>1, FieldsThen
  <1>4. Last(trace'[pass']) = NewLine
    BY <1>1 DEF Last
  <1>5. NewLine.ptrs = <<ptr>> /\ NewLine.scope = scope /\ NewLine.section = section /\ Began(NewLine) = Here
    BY DEF NewLine, Began, Here
  <1>6. Begun' = ptr /\ ScopeNow' = scope
    BY <1>1, <1>4, <1>5 DEF Begun, ScopeNow
  <1>7. Told' /\ Promised' = "working"
    <2>1. ~Delivered' /\ Reading'
      BY <1>1 DEF Delivered, Going
    <2>2. QED
      BY <2>1, ToldThen
  <1>8. UNCHANGED OneGo!vars
    <2>1. prog' = prog /\ Promised' = Promised /\ (Told' <=> Told)
      BY <1>1, <1>2, <1>7
    <2>2. UNCHANGED <<Found, at, section, Begun, ScopeNow, Fields>>
      BY <1>1, <1>2, <1>3, <1>6
    <2>3. QED
      BY <2>1, <2>2, StandsStill
  <1> PICK t : t = NewLine
    OBVIOUS
  <1> PICK here : here = Here
    OBVIOUS
  <1> PICK chunks : chunks = ChunksIn(at, section)
    OBVIOUS
  <1> PICK tab : tab = KnownAt(here)
    OBVIOUS
  <1> PICK sc : sc = ScopeIn(at, t)
    OBVIOUS
  <1> PICK f : f = LaidBy(tab, sc, chunks, section, here)
    OBVIOUS
  <1>9. /\ OneGo!Chunks(prog[at]) = chunks /\ OneGo!Foreseen(tab, prog[at], scope, section, here)
    <2>1. Stmt = prog[at]
      BY DEF Stmt
    <2>2. QED
      BY <2>1, LineForeseen, LineIsIn
  <1>10. chunks \in Seq(Chunk) /\ Len(chunks) \in Nat
    <2>1. chunks \in Seq(Chunk)
      BY SteadyChunks DEF AtLine
    <2>2. QED
      BY <2>1
  <1>11. f[0] = NoneLaid(here)
    <2>1. LaidBy(tab, sc, chunks, section, here)[0] = NoneLaid(here)
      BY <1>10, LaidByRuns
    <2>2. QED
      BY <2>1
  <1>12. /\ t.ptrs[1] = ptr /\ Len(t.ptrs) - 1 = 0 /\ t.scope = scope /\ Began(t) = here
         /\ ptr = [t.ptrs[1] EXCEPT ![section] = f[0].ofs] /\ f[0].fields = <<>>
    <2>1. f[0].ofs = here /\ f[0].fields = <<>>
      BY <1>11 DEF NoneLaid
    <2>2. ptr \in [Sections -> Int] /\ section \in Sections /\ here = ptr[section]
      BY DEF TypeInv, LayoutInv, Here
    <2>3. [ptr EXCEPT ![section] = here] = ptr
      BY <2>2
    <2>4. QED
      BY <1>5, <2>1, <2>3
  <1>13. LineAtHand(t, m)'
    <2>1. /\ ChunksIn(at, section)' = chunks /\ Began(t)' = here /\ KnownAt(Began(t))' = tab /\ scope' = sc
          /\ section' = section /\ OneGo!Chunks(prog[at])' = chunks
      <3>1. ChunksIn(at, section)' = chunks
        BY <1>1 DEF ChunksIn, Stops
      <3>2. Began(t)' = here
        BY <1>12 DEF Began
      <3>3. KnownAt(Began(t))' = tab
        BY <1>1, <3>2 DEF KnownAt
      <3>4. OneGo!Chunks(prog[at])' = chunks
        BY <1>1, <1>9
      <3>5. QED
        BY <3>1, <3>2, <3>3, <3>4
    <2>2. LaidBy(KnownAt(Began(t)), scope, ChunksIn(at, section), section, Began(t))' = f
      BY <2>1
    <2>3. OneGo!Foreseen(KnownAt(Began(t)), prog[at], t.scope, section, Began(t))'
      BY <1>1, <1>9, <1>12, <2>1
    <2>4. (\A k \in 1..(Len(t.ptrs) - 1) : OneGo!Certain(KnownAt(Began(t)), scope, ChunksIn(at, section)[k]))'
      <3>1. 1..0 = {}
        OBVIOUS
      <3>2. QED
        BY <1>12, <3>1
    <2>5. (ptr = [t.ptrs[1] EXCEPT ![section] =
                    LaidBy(KnownAt(Began(t)), scope, ChunksIn(at, section), section, Began(t))[Len(t.ptrs) - 1].ofs])'
      BY <1>12, <2>1, <2>2
    <2>6. (LaidBy(KnownAt(Began(t)), scope, ChunksIn(at, section), section, Began(t))[Len(t.ptrs) - 1].fields
             = RestShown(image, m))'
      <3>1. RestShown(image, m)' = <<>>
        BY <1>1, <1>2 DEF RestShown
      <3>2. QED
        BY <1>12, <2>2, <3>1
    <2>7. OneGo!Chunks(prog[at])' = ChunksIn(at, section)'
      BY <2>1
    <2>8. QED
      BY <2>3, <2>4, <2>5, <2>6, <2>7 DEF LineAtHand
  <1>14. ShownBy(m)'
    <2>1. t = (trace[1][at])' /\ pc' = "emit"
      BY <1>1
    <2>2. LineAtHand(trace[1][at], m)'
      BY <1>13, <2>1 DEF LineAtHand
    <2>3. QED
      BY <1>3, <2>1, <2>2 DEF ShownBy
  <1>15. QED
    BY <1>8, <1>14
-----------------------------------------------------------------------------
(* Where the next line begins.                                             *)
LineLeaves1 ==
  /\ at' = at + 1 /\ ChunksIn(at, section) = <<>> /\ section' = NextSection(at, NewLine)
  /\ scope' = NextScope(at, NewLine) /\ ptr' = PtrPast(consts', at, NewLine)
LEMMA LineLeft ==
  ASSUME TypeInv, AtLine, LineStep, pc' # "emit"
  PROVE  LineLeaves1 /\ (pc' = "end" => prog[at].op = "end")
  <1>1. Onward /\ pc = "line" /\ at <= Len(prog) /\ ~(at > Len(prog)) /\ Stmt = prog[at]
    <2>1. at \in Nat /\ Len(prog) \in Nat
      BY ProgramsAssumption DEF AtLine, ProgramsAssumption
    <2>2. QED
      BY <2>1 DEF AtLine, Stmt
  <1>2. CASE Moves1 /\ ~Halts
    BY <1>1, <1>2 DEF Onward, Moves1, Emits, LineLeaves1
  <1>3. CASE Halts
    <2>1. at' = at + 1 /\ ChunksIn(at, section) = <<>> /\ Stops(at)
      BY <1>1, <1>3 DEF Onward, Moves1, Emits, Halts
    <2>2. Stmt.op = "end"
      BY <1>1, <2>1, LineUnsaid DEF Stops
    <2>3. End
      BY <1>1, <2>2 DEF LineStep, OnLine, LabelAlone, List, Instr, NoRow, OutsideText, Reserve, SectionDirective,
        Export, Import, OrgDirective, OrgRefused, End, Equ, SyntaxError, Define, Undef, Exhausted
    <2>4. section' = section /\ ptr' = ptr /\ scope' = LineScope
      BY <2>3 DEF End, layout
    <2>5. LineScope = ScopeIn(at, NewLine)
      BY <1>1, <2>2, LineScopes
    <2>6. NextSection(at, NewLine) = section /\ NextScope(at, NewLine) = ScopeIn(at, NewLine)
      BY <1>1, <2>2 DEF NextSection, NextScope, NewLine
    <2>7. PtrPast(consts', at, NewLine) = ptr
      <3>1. NewLine.ptrs[Len(NewLine.ptrs)] = ptr
        BY DEF NewLine
      <3>2. QED
        BY <1>1, <2>2, <3>1 DEF PtrPast
    <2>8. QED
      BY <1>1, <2>1, <2>2, <2>4, <2>5, <2>6, <2>7 DEF LineLeaves1
  <1>4. CASE ~Moves1 /\ ~Halts
    BY <1>1, <1>4 DEF Onward, Emits
  <1>5. Moves1 => pc' # "end"
    BY DEF Moves1
  <1>6. QED
    BY <1>1, <1>2, <1>3, <1>4, <1>5 DEF Moves1

(* How far a line without chunks goes.                                     *)
LEMMA LineReaches ==
  ASSUME TypeInv, BeginInv, AtLine, LineStep, LineLeaves1
  PROVE  ptr' = IF Stmt.op = "res"
                THEN [ptr EXCEPT !["BSS"] = @ + Stmt.n * Value(KnownAt(Here), ScopeIn(at, NewLine), Stmt.e)]
                ELSE ptr
  <1> PICK sc : sc = ScopeIn(at, NewLine)
    OBVIOUS
  <1> PICK here : here = Here
    OBVIOUS
  <1>1. /\ ptr' = PtrPast(consts', at, NewLine) /\ Stmt = prog[at]
        /\ NewLine.ptrs[Len(NewLine.ptrs)] = ptr /\ Began(NewLine) = here
    BY DEF LineLeaves1, NewLine, Began, Here, Stmt
  <1>2. /\ IsTable(consts) /\ IsTable(consts') /\ Dollar \in DOMAIN consts /\ here \in Int /\ Stmt.e \in Expr
        /\ SameBut(consts, consts') /\ HasLine /\ OriginIs(consts, org) /\ LineConsts = WithDollar(consts, here)
        /\ at <= Len(prog) /\ pc = "line" /\ Steady(prog) /\ prog \in Programs /\ at \in DOMAIN prog
    BY DEF AtLine
  <1> PICK v : v = Value(WithDollar(consts, here), sc, Stmt.e)
    OBVIOUS
  <1>3. Value(KnownAt(here), sc, Stmt.e) = v
    BY <1>2, KnownReads DEF Value
  <1>4. Value(TabAt(consts', NewLine), sc, Stmt.e) = v
    <2>1. TabAt(consts', NewLine) = WithDollar(consts', here)
      BY <1>1 DEF TabAt, WithDollar
    <2>2. QED
      BY <1>2, <2>1, ValueAlike
  <1>5. CASE Stmt.op = "res"
    BY <1>1, <1>3, <1>4, <1>5 DEF PtrPast
  <1>6. CASE Stmt.op = "org"
    <2>1. ~isOrgDef
      BY <1>6, LineUnsaid
    <2>2. at = 1
      BY <1>1, <1>2, <1>6, SteadyLine
    <2>3. ptr = [TEXT |-> org, DATA |-> 0, BSS |-> 0]
      BY <1>2, <2>2 DEF BeginInv
    <2>4. consts[Origin].value = org /\ consts[Origin].value = Value(LineConsts, LineScope, Stmt.e) % Word
      BY <1>2, <1>6, <2>1 DEF HasLine, OriginIs
    <2>5. LineScope = sc
      BY <1>2, <1>6, LineScopes
    <2>6. org = v % Word
      BY <1>2, <2>4, <2>5
    <2>7. PtrPast(consts', at, NewLine) = [TEXT |-> v % Word, DATA |-> 0, BSS |-> 0]
      BY <1>1, <1>4, <1>6, <2>1 DEF PtrPast
    <2>8. QED
      BY <1>1, <1>6, <2>3, <2>6, <2>7
  <1>7. CASE Stmt.op \notin {"res", "org"}
    BY <1>1, <1>7 DEF PtrPast
  <1>8. QED
    BY <1>5, <1>6, <1>7

(* A line without chunks is laid out at once.                              *)
LEMMA LinePast ==
  ASSUME TypeInv, FileInv, FileInv', BeginInv, ImageInv, AtLine, LineStep, Going', pc' # "emit", NEW m, ShownBy(m)
  PROVE  OneGo!LayLine /\ ShownBy(m)' /\ at' > 1 /\ (pc' = "end" => prog[at' - 1].op = "end")
  <1>1. LineLeaves1 /\ (pc' = "end" => prog[at].op = "end")
    BY LineLeft
  <1>2. /\ at' = at + 1 /\ ChunksIn(at, section) = <<>> /\ at \in Nat /\ at > 0 /\ Stmt = prog[at]
        /\ prog' = prog /\ Found' = Found /\ pc = "line" /\ pass = 1 /\ pass' = 1 /\ image' = image
        /\ Labelled(at, NewLine) /\ at <= Len(prog) /\ (at > 1 => prog[at - 1].op # "end")
    BY <1>1 DEF LineLeaves1, AtLine, Stmt
  <1>3. /\ m = Len(image) /\ Fields \o <<>> = Fields /\ Told /\ Promised = "working"
        /\ Begun = ptr /\ ScopeNow = scope
    BY AtStart
  <1>4. Fields' = Fields /\ CutAt(image, m)'
    BY <1>2, FieldsThen
  <1>5. ShownBy(m)'
    BY <1>2, <1>3, <1>4 DEF ShownBy
  <1>6. Told' /\ Promised' = "working"
    <2>1. ~Delivered' /\ Reading'
      <3>1. pass' # Passes
        BY <1>2 DEF Passes
      <3>2. QED
        BY <3>1 DEF Delivered, Going, FileInv, OutputOnlyIfClean
    <2>2. QED
      BY <2>1, ToldThen
  <1> PICK t : t = NewLine
    OBVIOUS
  <1> PICK here : here = Here
    OBVIOUS
  <1> PICK sc : sc = ScopeIn(at, t)
    OBVIOUS
  <1> PICK tab : tab = KnownAt(here)
    OBVIOUS
  <1> PICK laid : laid = OneGo!LaidOut(tab, sc, <<>>, section, here)
    OBVIOUS
  <1>7. t.ptrs[1] = ptr /\ t.scope = scope /\ t.section = section /\ Began(t) = here
    BY DEF NewLine, Began, Here
  <1>8. laid.ofs = here /\ laid.fields = <<>>
    <2>1. laid = NoneLaid(here)
      <3>1. Len(<<>>) = 0 /\ 0 \in Nat
        OBVIOUS
      <3>2. /\ OneGo!LaidOut(tab, sc, <<>>, section, here) = LaidBy(tab, sc, <<>>, section, here)[Len(<<>>)]
            /\ LaidBy(tab, sc, <<>>, section, here)[0] = NoneLaid(here)
        BY <3>1, LaidByRuns, LaidOutIs
      <3>3. QED
        BY <3>1, <3>2
    <2>2. QED
      BY <2>1 DEF NoneLaid
  <1>9. LaysBy(t)
    <2>1. OneGo!Chunks(prog[at]) = <<>> /\ OneGo!Foreseen(tab, prog[at], t.scope, section, here)
      BY <1>2, <1>7, LineForeseen, LineIsIn
    <2>2. Fields' = Fields \o laid.fields
      BY <1>3, <1>4, <1>8
    <2>3. ptr' = IF prog[at].op = "res"
                 THEN [t.ptrs[1] EXCEPT !["BSS"] = @ + prog[at].n * Value(tab, sc, prog[at].e)]
                 ELSE [t.ptrs[1] EXCEPT ![section] = laid.ofs]
      <3>1. [ptr EXCEPT ![section] = here] = ptr
        BY DEF TypeInv, LayoutInv, Here
      <3>2. ptr' = IF prog[at].op = "res"
                   THEN [ptr EXCEPT !["BSS"] = @ + prog[at].n * Value(tab, sc, prog[at].e)] ELSE ptr
        BY <1>1, <1>2, LineReaches
      <3>3. QED
        BY <1>7, <1>8, <3>1, <3>2
    <2>4. /\ section' = IF prog[at].op = "section" THEN SectionNamed(prog[at].names[1].name) ELSE section
          /\ scope' = IF prog[at].op = "section" THEN NoScope ELSE sc
      <3>1. section' = NextSection(at, t) /\ scope' = NextScope(at, t)
        BY <1>1 DEF LineLeaves1
      <3>2. prog[at].op = "section" => SectionNamed(prog[at].names[1].name) # "unknown"
        BY <1>2, LineUnsaid
      <3>3. QED
        BY <1>7, <3>1, <3>2 DEF NextSection, NextScope
    <2>5. DOMAIN <<>> = {}
      OBVIOUS
    <2>6. QED
      BY <1>2, <1>7, <2>1, <2>2, <2>3, <2>4, <2>5 DEF LaysBy
  <1>10. OneGo!LayLine
    <2>1. /\ Begun = t.ptrs[1] /\ section = t.section
          /\ t.scope = IF pc = "emit" THEN Last(trace[pass]).scope ELSE scope
          /\ Labelled(at, t)
      BY <1>2, <1>3, <1>7
    <2>2. QED
      BY <1>2, <1>3, <1>6, <1>9, <2>1, LaysLine
  <1>11. at' > 1 /\ (pc' = "end" => prog[at' - 1].op = "end")
    <2>1. at + 1 > 1 /\ (at + 1) - 1 = at
      BY <1>2
    <2>2. QED
      BY <1>1, <1>2, <2>1
  <1>12. QED
    BY <1>5, <1>10, <1>11
-----------------------------------------------------------------------------
(* A program is no longer promised anything.                               *)
LEMMA FallsSilent ==
  ASSUME Promised \in {"before", "working"}, Promised' = "silent", prog' = prog
  PROVE  OneGo!FallSilent
  <1> DEFINE
     aknown == IF Told THEN Found ELSE EmptyTable
     aptr == IF Told THEN Begun ELSE [s \in Sections |-> 0]
     ascope == IF Told THEN (IF pc = "emit" THEN Last(trace[pass]).scope ELSE scope) ELSE NoScope
     asection == IF Told THEN section ELSE "TEXT"
     aat == IF Told THEN at ELSE 1
     afields == IF Told THEN Fields ELSE <<>>
     L == /\ Promised \in {"before", "working"} /\ Promised' = "silent"
          /\ (/\ aknown = OneGo!EmptyTable /\ aat = 1 /\ asection = "TEXT" /\ ascope = OneGo!NoScope /\ afields = <<>>
              /\ aptr = [s \in OneGo!Sections |-> 0])'
          /\ UNCHANGED prog
  <1>1. L => OneGo!FallSilent
    BY DEF OneGo!FallSilent, OneGo!Blank
  <1>2. ~Told'
    BY DEF Told
  <1>3. /\ aknown' = EmptyTable /\ aptr' = [s \in Sections |-> 0] /\ ascope' = NoScope
        /\ asection' = "TEXT" /\ aat' = 1 /\ afields' = <<>>
    <2>1. EmptyTable' = EmptyTable /\ Sections' = Sections /\ NoScope' = NoScope
      BY DEF EmptyTable, Sections, NoScope, Fresh
    <2>2. QED
      BY <1>2, <2>1
  <1>4. /\ OneGo!EmptyTable = EmptyTable /\ OneGo!NoScope = NoScope /\ OneGo!Sections = Sections
    BY SameNames
  <1>5. L
    <2> HIDE DEF aknown, aptr, ascope, asection, aat, afields
    <2>1. aknown' = OneGo!EmptyTable /\ ascope' = OneGo!NoScope /\ aptr' = [s \in OneGo!Sections |-> 0]
      BY <1>3, <1>4
    <2>2. QED
      BY <1>3, <2>1
  <1>6. QED
    BY <1>1, <1>5

LEMMA StaysUntold ==
  ASSUME ~Told, Promised' = Promised, prog' = prog
  PROVE  UNCHANGED OneGo!vars
  <1>1. ~Told'
    BY DEF Told
  <1>2. QED
    BY <1>1, StandsStill

(* What comes of a step after which pass 1 is not, or no longer, at work.  *)
LEMMA NotGoing ==
  ASSUME FileInv, FileInv', ~Going', Reading => Reading' /\ ~Delivered, ~Reading => ~Going, prog' = prog
  PROVE  [OneGo!Next]_OneGo!vars
  <1>1. Promised' = IF Reading' THEN "silent" ELSE "before"
    BY ToldThen
  <1>2. Promised = IF ~Reading THEN "before" ELSE IF Going THEN "working" ELSE "silent"
    BY ToldIs
  <1>3. CASE Promised' = Promised
    <2>1. ~Told
      BY <1>1, <1>3 DEF Told
    <2>2. QED
      BY <1>3, <2>1, StaysUntold
  <1>4. CASE Promised' # Promised
    <2>1. Promised' = "silent" /\ Promised \in {"before", "working"}
      BY <1>1, <1>2, <1>4
    <2>2. OneGo!FallSilent
      BY <2>1, FallsSilent
    <2>3. QED
      BY <2>2 DEF OneGo!Next
  <1>5. QED
    BY <1>3, <1>4

LEMMA WorkLine ==
  ASSUME TypeInv, FileInv, FileInv', ReachInv, IdsInv, LaidInv, SeenInv, ImageInv, WorkInv, LineStep
  PROVE  WorkInv' /\ [OneGo!Next]_OneGo!vars
  <1>1. /\ pc = "line" /\ UNCHANGED <<prog, pass, target, isOrgDef>> /\ steady' = steady
        /\ errors \subseteq errors' /\ warnings \subseteq warnings' /\ pc' \in {"line", "emit", "end"}
        /\ at \in Nat /\ at > 0 /\ pass < Passes /\ pass \in 0..Passes
    <2>1. pc = "line"
      BY LineWays
    <2>2. QED
      BY <2>1, LineWays, StepsSay DEF Moves1, Emits, Halts, TypeInv, PlaceInv, Assembling
  <1>2. BeginInv'
    <2>1. ASSUME pc' = "line" PROVE at' = at + 1
      BY <2>1, LineWays DEF Moves1, Emits, Halts
    <2>2. at + 1 # 1
      BY <1>1
    <2>3. QED
      BY <2>1, <2>2 DEF BeginInv
  <1>3. pass # Passes /\ pass' # Passes
    BY <1>1 DEF Passes
  <1>4. CASE ~Going'
    <2>1. WorkInv'
      BY <1>2, <1>4 DEF WorkInv, OverInv
    <2>2. Reading => Reading' /\ ~Delivered
      BY <1>1 DEF Reading, Delivered
    <2>3. ~Reading => ~Going
      BY DEF Going
    <2>4. QED
      BY <1>1, <1>4, <2>1, <2>2, <2>3, NotGoing
  <1>5. CASE Going' /\ at > Len(prog)
    <2>1. Exhausted
      <3>1. ~(at <= Len(prog))
        <4>1. Len(prog) \in Nat
          BY ProgramsAssumption DEF ProgramsAssumption, TypeInv, PlaceInv
        <4>2. QED
          BY <1>1, <1>5, <4>1
      <3>2. QED
        BY <3>1 DEF LineStep, OnLine, LabelAlone, List, Instr, NoRow, OutsideText, Reserve, SectionDirective, Export,
          Import, OrgDirective, OrgRefused, End, Equ, SyntaxError, Define, Undef
    <2>2. /\ UNCHANGED <<prog, pass, consts, at, section, ptr, scope, image, trace, errors, warnings, steady, exit>>
          /\ pc' = "end"
      BY <2>1 DEF Exhausted, input, output, symbols, verdict, layout
    <2>3. Going /\ Reading /\ Reading' /\ ~Delivered /\ ~Delivered'
      BY <1>1, <1>3, <1>5, <2>2 DEF Going, Reading, Delivered
    <2>4. Told /\ Told' /\ Promised = "working" /\ Promised' = "working"
      BY <1>5, <2>3, ToldIs, ToldThen
    <2>5. UNCHANGED <<Found, at, section, Begun, ScopeNow, Fields>>
      BY <1>1, <2>2 DEF Found, Begun, ScopeNow, Fields, Complete
    <2>6. UNCHANGED OneGo!vars
      BY <1>1, <2>4, <2>5, StandsStill
    <2>7. PICK m : ShownBy(m)
      BY <2>3 DEF WorkInv
    <2>8. ShownBy(m)'
      <3>1. CutAt(image, m) /\ m = Len(image)
        BY <1>1, <2>7 DEF ShownBy
      <3>2. CutAt(image, m)'
        BY <2>2, <3>1 DEF CutAt
      <3>3. QED
        BY <2>2, <3>1, <3>2 DEF ShownBy
    <2>9. OverInv'
      BY <1>5, <2>2 DEF OverInv, Over
    <2>10. QED
      BY <1>2, <2>6, <2>8, <2>9 DEF WorkInv
  <1>6. CASE Going' /\ ~(at > Len(prog))
    <2>1. at <= Len(prog)
      <3>1. Len(prog) \in Nat
        BY ProgramsAssumption DEF ProgramsAssumption, TypeInv, PlaceInv
      <3>2. QED
        BY <1>1, <1>6, <3>1
    <2>2. AtLine
      BY <1>6, <2>1, LineFacts
    <2>3. Going /\ Onward /\ BeginInv
      BY <2>2 DEF AtLine, WorkInv
    <2>4. PICK m : ShownBy(m)
      BY <2>3 DEF WorkInv
    <2>5. CASE pc' = "emit"
      <3>1. Emits /\ UNCHANGED <<ptr, section>> /\ scope' = ScopeIn(at, NewLine)
        BY <2>3, <2>5 DEF Onward, Moves1, Halts
      <3>2. UNCHANGED OneGo!vars /\ ShownBy(m)'
        BY <1>6, <2>2, <2>4, <3>1, LineBegun
      <3>3. OverInv'
        BY <1>3, <2>5 DEF OverInv
      <3>4. QED
        BY <1>2, <3>2, <3>3 DEF WorkInv
    <2>6. CASE pc' # "emit"
      <3>1. OneGo!LayLine /\ ShownBy(m)' /\ at' > 1 /\ (pc' = "end" => prog[at' - 1].op = "end")
        BY <1>6, <2>2, <2>3, <2>4, <2>6, LinePast
      <3>2. OverInv'
        BY <1>1, <1>3, <3>1 DEF OverInv, Over
      <3>3. QED
        BY <1>2, <3>1, <3>2 DEF WorkInv, OneGo!Next
    <2>7. QED
      BY <2>5, <2>6
  <1>7. QED
    BY <1>4, <1>5, <1>6

LEMMA WorkEmit ==
  ASSUME TypeInv, FileInv, FileInv', ReachInv, IdsInv, LaidInv, ImageInv, ImageInv', WorkInv, EmitStep
  PROVE  WorkInv' /\ [OneGo!Next]_OneGo!vars
  <1>1. /\ pc = "emit" /\ UNCHANGED <<prog, pass>> /\ steady' = steady /\ pc' \in {"line", "emit"}
        /\ (pc' = "line" => at' = at + 1) /\ at \in Nat /\ at > 0 /\ pass < Passes /\ pass \in 0..Passes
    BY EmitGoes, StepsSay DEF TypeInv, PlaceInv, Assembling
  <1>2. BeginInv'
    <2>1. at + 1 # 1
      BY <1>1
    <2>2. QED
      BY <1>1, <2>1 DEF BeginInv
  <1>3. OverInv'
    <2>1. pass' # Passes
      BY <1>1 DEF Passes
    <2>2. QED
      BY <1>1, <2>1 DEF OverInv
  <1>4. CASE ~Going'
    <2>1. WorkInv'
      BY <1>2, <1>3, <1>4 DEF WorkInv
    <2>2. Reading => Reading' /\ ~Delivered
      BY <1>1 DEF Reading, Delivered
    <2>3. ~Reading => ~Going
      BY DEF Going
    <2>4. QED
      BY <1>1, <1>4, <2>1, <2>2, <2>3, NotGoing
  <1>5. CASE Going'
    <2>1. Going /\ UNCHANGED <<consts, section>>
      BY <1>5, EmitFacts
    <2>2. PICK m : ShownBy(m)
      BY <2>1 DEF WorkInv
    <2>3. CASE todo = <<>>
      <3>1. OneGo!LayLine /\ (\E k : ShownBy(k)')
        BY <1>5, <2>2, <2>3, LineWhole
      <3>2. QED
        BY <1>2, <1>3, <3>1 DEF WorkInv, OneGo!Next
    <2>4. CASE todo # <<>>
      <3>1. /\ ShownBy(m)' /\ pc' = "emit" /\ at' = at
            /\ Begun' = Begun /\ Last(trace'[pass']).scope = Last(trace[pass]).scope
            /\ SubSeq(image', 1, m) = SubSeq(image, 1, m)
        BY <1>5, <2>2, <2>4, LineAdds
      <3>2. Fields' = Fields
        <4>1. image \in Seq(Piece) /\ image' \in Seq(Piece) /\ CutAt(image, m) /\ CutAt(image, m)' /\ at' \in Nat
          BY <1>1, <2>2, <3>1 DEF ImageInv, ShownBy
        <4>2. Complete = SubSeq(image, 1, m) /\ Fields = ShownAll(Complete)
          BY <1>1, <4>1, CompleteIs
        <4>3. Complete' = SubSeq(image', 1, m) /\ Fields' = ShownAll(Complete')
          BY <4>1, CompleteThen
        <4>4. QED
          BY <3>1, <4>2, <4>3
      <3>3. Found' = Found
        BY <2>1 DEF Found
      <3>4. ScopeNow' = ScopeNow
        BY <1>1, <3>1 DEF ScopeNow
      <3>5. Told /\ Told' /\ Promised = "working" /\ Promised' = "working"
        <4>1. Reading /\ Reading' /\ ~Delivered /\ ~Delivered'
          BY <1>1, <1>5, <2>1, <3>1 DEF Going, Delivered
        <4>2. QED
          BY <1>5, <2>1, <4>1, ToldIs, ToldThen
      <3>6. UNCHANGED OneGo!vars
        BY <1>1, <2>1, <3>1, <3>2, <3>3, <3>4, <3>5, StandsStill
      <3>7. QED
        BY <1>2, <1>3, <3>1, <3>6 DEF WorkInv
    <2>5. QED
      BY <2>3, <2>4
  <1>6. QED
    BY <1>4, <1>5
-----------------------------------------------------------------------------
(* A step that is not of pass 1, or after which it is silent.              *)
LEMMA WorkSilent ==
  ASSUME FileInv, FileInv', ~Going', BeginInv', Reading => Reading' /\ ~Delivered, prog' = prog
  PROVE  WorkInv' /\ [OneGo!Next]_OneGo!vars
  <1>1. ~Reading => ~Going
    BY DEF Going
  <1>2. [OneGo!Next]_OneGo!vars
    BY <1>1, NotGoing
  <1>3. WorkInv'
    BY DEF WorkInv, OverInv
  <1>4. QED
    BY <1>2, <1>3

(* A step of pass 1 that lays nothing out.                                 *)
LEMMA WorkStays ==
  ASSUME FileInv, FileInv', WorkInv, Going', UNCHANGED <<steady, errors, warnings>>, Reading, Delivered' <=> Delivered,
         UNCHANGED <<prog, consts, at, section, ptr, scope, image>>, pc # "emit", pc' \notin {"line", "emit"},
         pc = "end" \/ pass = Passes
  PROVE  WorkInv' /\ UNCHANGED OneGo!vars
  <1>1. Going /\ Reading'
    BY DEF Going
  <1>2. Told /\ Told' /\ Promised' = Promised
    BY <1>1, ToldIs, ToldThen
  <1>3. UNCHANGED <<Found, at, section, Begun, ScopeNow, Fields>>
    BY DEF Found, Begun, ScopeNow, Fields, Complete
  <1>4. UNCHANGED OneGo!vars
    BY <1>2, <1>3, StandsStill
  <1>5. PICK m : ShownBy(m)
    BY <1>1 DEF WorkInv
  <1>6. ShownBy(m)'
    <2>1. CutAt(image, m)'
      BY <1>5 DEF ShownBy, CutAt
    <2>2. QED
      BY <1>5, <2>1 DEF ShownBy
  <1>7. OverInv'
    BY <1>1 DEF WorkInv, OverInv, Over
  <1>8. QED
    BY <1>4, <1>6, <1>7 DEF WorkInv, BeginInv

LEMMA WorkArguments ==
  ASSUME FileInv, FileInv', Arguments
  PROVE  WorkInv' /\ [OneGo!Next]_OneGo!vars
  <1>1. pc = "args" /\ UNCHANGED <<prog, pass>> /\ pc' \in {"args", "main", "exit"}
    BY DEF Arguments, ArgumentStep, TakeFormat, UnknownFormat, SetOutput, SetOrigin, SetLevel,
      Predefine, BadOption, TakeInput, SecondInput, NoOutput, Settle, GiveUp, Skip, Option
  <1>2. pass = 0 /\ pass' = 0
    BY <1>1 DEF FileInv
  <1>3. ~Reading /\ ~Reading'
    BY <1>2 DEF Reading, Passes
  <1>4. ~Going' /\ BeginInv'
    BY <1>1, <1>3 DEF Going, BeginInv
  <1>5. QED
    BY <1>1, <1>3, <1>4, WorkSilent

(* Pass 1 begins: what pass 0 found is known, and $$ is the origin.        *)
LEMMA WorkBegins ==
  ASSUME TypeInv, FileInv, FileInv', SeenInv, StartPass, Going'
  PROVE  WorkInv' /\ OneGo!Begin
  <1> DEFINE
     aknown == IF Told THEN Found ELSE EmptyTable
     aptr == IF Told THEN Begun ELSE [s \in Sections |-> 0]
     ascope == IF Told THEN (IF pc = "emit" THEN Last(trace[pass]).scope ELSE scope) ELSE NoScope
     asection == IF Told THEN section ELSE "TEXT"
     aat == IF Told THEN at ELSE 1
     afields == IF Told THEN Fields ELSE <<>>
     L == /\ Promised = "before" /\ Promised' = "working"
          /\ OneGo!IsTable(aknown') /\ {OneGo!Dollar, OneGo!Origin} \subseteq DOMAIN aknown'
          /\ aat' = 1 /\ asection' = "TEXT" /\ ascope' = OneGo!NoScope /\ afields' = <<>>
          /\ aptr' = [TEXT |-> aknown'[OneGo!Origin].value, DATA |-> 0, BSS |-> 0]
          /\ UNCHANGED prog
  <1>1. L => OneGo!Begin
    BY DEF OneGo!Begin
  <1>2. /\ pc = "main" /\ pass = 1 /\ pass' = 1 /\ pc' = "line" /\ at' = 1 /\ section' = "TEXT" /\ scope' = NoScope
        /\ image' = <<>> /\ ptr' = [TEXT |-> org, DATA |-> 0, BSS |-> 0] /\ org' = org
        /\ UNCHANGED <<prog, steady, consts>> /\ steady
    <2>1. /\ pc = "main" /\ pass' = pass /\ pc' = "line" /\ at' = 1 /\ section' = "TEXT" /\ scope' = NoScope
          /\ image' = <<>> /\ ptr' = [TEXT |-> org, DATA |-> 0, BSS |-> 0] /\ org' = org
          /\ UNCHANGED <<prog, steady, consts>> /\ pass < Passes
      BY DEF StartPass, input
    <2>2. pass' = Passes - 1 /\ steady
      BY <2>1 DEF Going, Reading, Passes, TypeInv, PlaceInv
    <2>3. QED
      BY <2>1, <2>2 DEF Passes
  <1>3. Promised = "before" /\ Promised' = "working" /\ Told'
    <2>1. ~Reading /\ Reading' /\ ~Delivered'
      BY <1>2 DEF Reading, Delivered, Passes
    <2>2. QED
      BY <2>1, ToldIs, ToldThen
  <1>4. /\ IsTable(consts) /\ Dollar \in DOMAIN consts /\ Origin \in DOMAIN consts /\ consts[Origin].value = org
        /\ Origin # Dollar
    <2>1. OriginIs(consts, org)
      <3>1. Settled /\ Underway
        BY <1>2 DEF Settled, Underway
      <3>2. QED
        BY <1>2, <3>1 DEF SeenInv, Seen
    <2>2. QED
      BY <1>2, <2>1 DEF TypeInv, TableInv, OriginIs, Origin, Dollar
  <1>5. /\ IsTable(Found) /\ DOMAIN Found = DOMAIN consts /\ Found[Origin].value = org
    BY <1>4, FoundIs
  <1>6. Found' = Found
    BY <1>2 DEF Found
  <1>7. image' \in Seq(Piece) /\ CutAt(image, 0)' /\ Fields' = <<>>
    <2>1. \A S : <<>> \in Seq(S) /\ Len(<<>>) = 0 /\ 0 \in 0..0
      OBVIOUS
    <2>2. image' \in Seq(Piece) /\ CutAt(image, 0)'
      BY <1>2, <2>1 DEF CutAt
    <2>3. Complete' = SubSeq(image', 1, 0) /\ Fields' = ShownAll(Complete')
      BY <1>2, <2>2, CompleteThen
    <2>4. \A im : im = <<>> => SubSeq(im, 1, 0) = <<>>
      OBVIOUS
    <2>5. ShownAll(<<>>) = <<>>
      BY DEF ShownAll
    <2>6. QED
      BY <1>2, <2>2, <2>3, <2>4, <2>5
  <1>8. /\ aknown' = Found /\ aptr' = [TEXT |-> org, DATA |-> 0, BSS |-> 0] /\ ascope' = NoScope /\ asection' = "TEXT"
        /\ aat' = 1 /\ afields' = <<>>
    BY <1>2, <1>3, <1>6, <1>7 DEF Begun
  <1>9. L
    <2> HIDE DEF aknown, aptr, ascope, asection, aat, afields
    <2>1. OneGo!IsTable(aknown') /\ {OneGo!Dollar, OneGo!Origin} \subseteq DOMAIN aknown'
      BY <1>4, <1>5, <1>8, SameTables, SameNames
    <2>2. aknown'[OneGo!Origin].value = org
      BY <1>5, <1>8, SameNames
    <2>3. ascope' = OneGo!NoScope
      BY <1>8, SameNames
    <2>4. aptr' = [TEXT |-> aknown'[OneGo!Origin].value, DATA |-> 0, BSS |-> 0]
      BY <1>8, <2>2
    <2>5. UNCHANGED prog
      BY <1>2
    <2> HIDE DEF L
    <2>6. QED
      BY <1>3, <1>8, <2>1, <2>3, <2>4, <2>5, Zenon DEF L
  <1>10. ShownBy(0)'
    <2>1. Len(image') = 0 /\ pc' # "emit"
      BY <1>2
    <2>2. QED
      BY <1>7, <2>1 DEF ShownBy
  <1>11. WorkInv'
    <2>1. BeginInv' /\ OverInv'
      BY <1>2 DEF BeginInv, OverInv, Passes
    <2>2. QED
      BY <1>10, <2>1 DEF WorkInv
  <1>12. QED
    BY <1>1, <1>9, <1>11

(* A program that was laid out to its end is delivered.                    *)
LEMMA WorkDelivers ==
  ASSUME FileInv, FileInv', WorkInv, Going', pass = Passes, pass' = pass, pc = "main", pc' = "exit",
         exit' = IF errors # {} THEN 2 ELSE IF warnings # {} THEN 1 ELSE 0,
         UNCHANGED <<prog, consts, at, section, ptr, scope, image, errors, warnings, steady>>
  PROVE  WorkInv' /\ OneGo!Deliver
  <1> DEFINE
     aknown == IF Told THEN Found ELSE EmptyTable
     aptr == IF Told THEN Begun ELSE [s \in Sections |-> 0]
     ascope == IF Told THEN (IF pc = "emit" THEN Last(trace[pass]).scope ELSE scope) ELSE NoScope
     asection == IF Told THEN section ELSE "TEXT"
     aat == IF Told THEN at ELSE 1
     afields == IF Told THEN Fields ELSE <<>>
     L == /\ Promised = "working" /\ Promised' = "delivered"
          /\ aat > Len(prog) \/ (aat > 1 /\ prog[aat - 1].op = "end")
          /\ UNCHANGED <<prog, aknown, aat, asection, aptr, ascope, afields>>
  <1>1. L => OneGo!Deliver
    BY DEF OneGo!Deliver
  <1>2. Going /\ Reading /\ Reading' /\ ~Delivered
    BY DEF Going, Reading, Delivered
  <1>3. Delivered'
    BY DEF Going, Delivered
  <1>4. Told /\ Told' /\ Promised = "working" /\ Promised' = "delivered"
    BY <1>2, <1>3, ToldIs, ToldThen
  <1>5. Over
    BY <1>2 DEF WorkInv, OverInv
  <1>6. /\ aknown = Found /\ aat = at /\ asection = section /\ aptr = Begun /\ ascope = scope /\ afields = Fields
        /\ aknown' = Found' /\ aat' = at' /\ asection' = section' /\ aptr' = Begun' /\ ascope' = scope'
        /\ afields' = Fields'
    BY <1>4
  <1>7. UNCHANGED <<Found, Begun, Fields>>
    BY DEF Found, Begun, Fields, Complete
  <1>8. L
    <2> HIDE DEF aknown, aptr, ascope, asection, aat, afields
    <2>1. aat > Len(prog) \/ (aat > 1 /\ prog[aat - 1].op = "end")
      BY <1>5, <1>6 DEF Over
    <2>2. QED
      BY <1>4, <1>6, <1>7, <2>1
  <1>9. PICK m : ShownBy(m)
    BY <1>2 DEF WorkInv
  <1>10. ShownBy(m)'
    <2>1. CutAt(image, m)'
      BY <1>9 DEF ShownBy, CutAt
    <2>2. QED
      BY <1>9, <2>1 DEF ShownBy
  <1>11. BeginInv' /\ OverInv'
    BY <1>5 DEF BeginInv, OverInv, Over
  <1>12. QED
    BY <1>1, <1>8, <1>10, <1>11 DEF WorkInv

LEMMA WorkMain ==
  ASSUME TypeInv, FileInv, FileInv', SeenInv, WorkInv, MainStep
  PROVE  WorkInv' /\ [OneGo!Next]_OneGo!vars
  <1>1. /\ UNCHANGED <<prog, steady>> /\ pass \in 0..Passes
        /\ pc = "main" /\ pass < Passes => ~Reading
    <2>1. prog' = prog /\ steady' = steady
      BY DEF MainStep, StartPass, CannotOpen, NoSource, EndPass, Exit, input
    <2>2. QED
      BY <2>1 DEF TypeInv, PlaceInv, Reading, Passes
  <1>2. CASE StartPass
    <2>1. CASE Going'
      BY <1>2, <2>1, WorkBegins DEF OneGo!Next
    <2>2. CASE ~Going'
      <3>1. ~Reading /\ BeginInv'
        BY <1>1, <1>2 DEF StartPass, BeginInv
      <3>2. QED
        BY <1>1, <2>2, <3>1, WorkSilent
    <2>3. QED
      BY <2>1, <2>2
  <1>3. CASE CannotOpen \/ NoSource
    <2>1. ~Reading /\ BeginInv'
      BY <1>1, <1>3 DEF CannotOpen, NoSource, BeginInv
    <2>2. ~Going'
      BY <1>3 DEF CannotOpen, NoSource, Report, Going, ErrorKinds
    <2>3. QED
      BY <1>1, <2>1, <2>2, WorkSilent
  <1>4. CASE EndPass
    <2>1. /\ pc = "end" /\ pc' = "main" /\ pass' = pass + 1
          /\ UNCHANGED <<prog, consts, at, section, ptr, scope, image, errors, warnings, steady>>
      BY <1>4 DEF EndPass, input, symbols, verdict, layout
    <2>2. BeginInv' /\ ~Delivered /\ ~Delivered'
      BY <2>1 DEF BeginInv, Delivered
    <2>3. Reading => Reading' /\ pass # Passes
      BY <1>1, <2>1 DEF Reading, Passes, TypeInv, PlaceInv, Assembling
    <2>4. CASE Going'
      <3>1. Reading
        BY <1>1, <2>1, <2>4 DEF Going, Reading, Passes
      <3>2. QED
        BY <2>1, <2>2, <2>4, <3>1, WorkStays
    <2>5. CASE ~Going'
      BY <2>1, <2>2, <2>3, <2>5, WorkSilent
    <2>6. QED
      BY <2>4, <2>5
  <1>5. CASE Exit
    <2>1. /\ pc = "main" /\ pc' = "exit" /\ pass' = pass /\ pass = Passes
          /\ exit' = IF errors # {} THEN 2 ELSE IF warnings # {} THEN 1 ELSE 0
          /\ UNCHANGED <<prog, consts, at, section, ptr, scope, image, errors, warnings, steady>>
      BY <1>5 DEF Exit, input, symbols, verdict, layout
    <2>2. BeginInv' /\ ~Delivered /\ Reading /\ Reading'
      BY <2>1 DEF BeginInv, Delivered, Reading
    <2>3. CASE ~Going'
      BY <2>1, <2>2, <2>3, WorkSilent
    <2>4. CASE Going'
      BY <2>1, <2>2, <2>4, WorkDelivers DEF OneGo!Next
    <2>5. QED
      BY <2>3, <2>4
  <1>6. QED
    BY <1>2, <1>3, <1>4, <1>5 DEF MainStep

LEMMA WorkKept ==
  ASSUME TypeInv, FileInv, FileInv', ReachInv, IdsInv, LaidInv, SeenInv, ImageInv, ImageInv', WorkInv, [Next]_vars
  PROVE  WorkInv' /\ [OneGo!Next]_OneGo!vars
  <1>1. CASE UNCHANGED vars
    <2>1. /\ UNCHANGED <<prog, steady, consts, scope, errors, warnings, section, ptr, org, pass, pc, at, image, trace, exit>>
      BY <1>1 DEF vars, input, output, symbols, verdict, layout
    <2>2. UNCHANGED OneGo!vars
      <3>1. Promised' = Promised /\ (Told' <=> Told)
        BY <2>1 DEF Promised, Told, Reading, Delivered
      <3>2. UNCHANGED <<Found, at, section, Begun, ScopeNow, Fields>>
        BY <2>1 DEF Found, Begun, ScopeNow, Fields, Complete
      <3>3. QED
        BY <2>1, <3>1, <3>2, StandsStill
    <2>3. (Going' <=> Going) /\ BeginInv' /\ OverInv'
      BY <2>1 DEF WorkInv, BeginInv, OverInv, Over, Going, Reading
    <2>4. ASSUME Going' PROVE \E m : ShownBy(m)'
      <3>1. PICK m : ShownBy(m)
        BY <2>3, <2>4 DEF WorkInv
      <3>2. CutAt(image, m)'
        BY <2>1, <3>1 DEF ShownBy, CutAt
      <3>3. ASSUME pc = "emit" PROVE LineAtHand(trace[1][at], m)'
        <4>1. LineAtHand(trace[1][at], m)
          BY <3>1, <3>3 DEF ShownBy
        <4>2. /\ Found' = Found /\ ChunksIn(at, section)' = ChunksIn(at, section)
              /\ Began(trace[1][at])' = Began(trace[1][at]) /\ trace'[1][at'] = trace[1][at]
              /\ RestShown(image, m)' = RestShown(image, m)
          BY <2>1 DEF Found, ChunksIn, Stops, Began, RestShown
        <4>3. KnownAt(Began(trace[1][at]))' = KnownAt(Began(trace[1][at]))
          BY <4>2 DEF KnownAt
        <4>4. QED
          BY <2>1, <4>1, <4>2, <4>3 DEF LineAtHand
      <3>4. ShownBy(m)'
        BY <2>1, <3>1, <3>2, <3>3 DEF ShownBy
      <3>5. QED
        BY <3>4
    <2>5. QED
      BY <2>2, <2>3, <2>4 DEF WorkInv
  <1>2. QED
    BY <1>1, WorkArguments, WorkLine, WorkEmit, WorkMain DEF Next

LEMMA WorkInit == Init => WorkInv /\ OneGo!Init
  <1> SUFFICES ASSUME Init PROVE WorkInv /\ OneGo!Init
    OBVIOUS
  <1>1. pc = "args" /\ pass = 0
    BY DEF Init, ArgumentsInit
  <1>2. ~Reading /\ ~Going
    BY <1>1 DEF Reading, Going, Passes
  <1>3. WorkInv
    BY <1>1, <1>2 DEF WorkInv, BeginInv, OverInv
  <1>4. Promised = "before" /\ ~Told
    BY <1>2 DEF Promised, Told
  <1>5. OneGo!Init
    <2> DEFINE
       aknown == IF Told THEN Found ELSE EmptyTable
       aptr == IF Told THEN Begun ELSE [s \in Sections |-> 0]
       ascope == IF Told THEN (IF pc = "emit" THEN Last(trace[pass]).scope ELSE scope) ELSE NoScope
       asection == IF Told THEN section ELSE "TEXT"
       aat == IF Told THEN at ELSE 1
       afields == IF Told THEN Fields ELSE <<>>
       L == /\ Promised = "before"
            /\ aknown = OneGo!EmptyTable /\ aat = 1 /\ asection = "TEXT" /\ ascope = OneGo!NoScope /\ afields = <<>>
            /\ aptr = [s \in OneGo!Sections |-> 0]
    <2>1. L => OneGo!Init
      BY DEF OneGo!Init, OneGo!Blank
    <2>2. L
      BY <1>4, SameNames
    <2>3. QED
      BY <2>1, <2>2
  <1>6. QED
    BY <1>3, <1>5

(* Assembler implements OnePass: whatever the program, the options and the *)
(* expressions, pass 1 lays a line out exactly as one pass that knew every *)
(* symbol from the start would, delivers only what that pass has laid out  *)
(* to its end, and does anything else only for a program it complains of   *)
(* or whose sizes depend on what comes later (MSA.C:322-346,               *)
(* ASSEMBLR.C:454-925).                                                    *)
THEOREM Implements == Spec => ActsAsOnePass
  <1> DEFINE Inv == TypeInv /\ FileInv /\ ReachInv /\ IdsInv /\ LaidInv /\ SeenInv /\ ImageInv /\ WorkInv
  <1>1. Init => Inv
    BY TypeInit, FileInit, ReachInit, IdsInit, LaidInit, SeenInit, ImageInit, WorkInit
  <1>2. ASSUME Inv, [Next]_vars PROVE Inv' /\ [OneGo!Next]_OneGo!vars
    <2>1. TypeInv' /\ FileInv' /\ ReachInv' /\ IdsInv' /\ LaidInv' /\ SeenInv' /\ ImageInv'
      BY <1>2, TypesKept, FileKept, ReachKept, IdsKept, LaidKept, SeenKept, ImageKept
    <2>2. QED
      BY <1>2, <2>1, WorkKept
  <1>3. Inv /\ [Next]_vars => Inv'
    BY <1>2
  <1>4. Init => OneGo!Init
    BY WorkInit
  <1>5. Inv /\ Inv' /\ [Next]_vars => [OneGo!Next]_OneGo!vars
    BY <1>2
  <1> HIDE DEF Inv
  <1>6. QED
    BY <1>1, <1>3, <1>4, <1>5, PTL DEF Spec, ActsAsOnePass, OneGo!Spec
=============================================================================
