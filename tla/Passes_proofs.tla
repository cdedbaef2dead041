--------------------------- MODULE Passes_proofs ---------------------------
(***************************************************************************)
(* Proofs about the two passes together: that both lay the program out     *)
(* alike, and that what they export is in the object.                      *)
(*                                                                         *)
(* The lines of a pass are a chain: where a line begins, and how far each  *)
(* of its chunks takes it, follows from where the line before it has come  *)
(* to and from the table.  Both passes are chains with the symbols of now, *)
(* whatever symbols they were laid out with, and there is one such chain.  *)
(***************************************************************************)
EXTENDS Assembler_proofs, SequenceTheorems

(* What a line begins with and what it leaves for the next.                *)
ScopeIn(i, t)     == IF Anchors(prog[i]) THEN t.name ELSE t.scope
NextScope(i, t)   == IF prog[i].op = "section" THEN NoScope ELSE ScopeIn(i, t)
NextSection(i, t) ==
  IF prog[i].op = "section" /\ SectionNamed(prog[i].names[1].name) # "unknown"
  THEN SectionNamed(prog[i].names[1].name) ELSE t.section

(* The table as line t reads it: $ is where t begins.                      *)
TabAt(tab, t) == [tab EXCEPT ![Dollar].value = Began(t)]

(* What a line is laid out in, and how long a chunk is.                    *)
TakenRow(ins) == CHOOSE row \in Taken(ins) : TRUE
ChunksIn(i, sec) ==
  CASE prog[i].op \in {"db", "dw", "dd"} -> Items(prog[i])
    [] prog[i].op = "instr" /\ ~Stops(i) ->
         IF sec = "TEXT" /\ Taken(prog[i].ins) # {}
         THEN Lead(prog[i]) \o RowChunks(TakenRow(prog[i].ins), prog[i].ins.params)
         ELSE Lead(prog[i])
    [] OTHER -> <<>>
ChunkLength(tab, sc, c) ==
  CASE c.form = "bytes" -> c.n
    [] c.form \in {"byte", "rel8"} -> 1
    [] c.form \in {"word", "rel16"} -> 2
    [] c.form = "addr" -> 3
    [] c.form \in {"long", "far"} -> 4
    [] c.form = "based" -> IF Value(tab, sc, c.e) < 128 THEN 2 ELSE 3

(* Where the pointers are once line t is done.                             *)
PtrPast(tab, i, t) ==
  LET p == t.ptrs[Len(t.ptrs)]
      v == Value(TabAt(tab, t), ScopeIn(i, t), prog[i].e)
  IN CASE prog[i].op = "res" -> [p EXCEPT !["BSS"] = @ + prog[i].n * v]
       [] prog[i].op = "org" /\ ~isOrgDef -> [TEXT |-> v % Word, DATA |-> 0, BSS |-> 0]
       [] OTHER -> p

(* No ORG moves the origin, and a pass begins at org.                      *)
OrgStays == isOrgDef \/ \A i \in DOMAIN prog : prog[i].op # "org"
Opens(t) ==
  /\ t.section = "TEXT" /\ t.scope = NoScope
  /\ t.ptrs[1]["DATA"] = 0 /\ t.ptrs[1]["BSS"] = 0 /\ (OrgStays => t.ptrs[1]["TEXT"] = org)

(* The chunks of line t run on from where it begins; all of them are there;*)
(* u begins where t ends.                                                  *)
RunsOn(tab, i, t) ==
  /\ Len(t.ptrs) <= Len(ChunksIn(i, t.section)) + 1
  /\ \A k \in 1..Len(t.ptrs)-1 :
       t.ptrs[k + 1] = Past(t.ptrs[k], t.section,
                            ChunkLength(TabAt(tab, t), ScopeIn(i, t), ChunksIn(i, t.section)[k]))
AllThere(i, t) == Len(t.ptrs) = Len(ChunksIn(i, t.section)) + 1
Follows(tab, i, t, u) ==
  /\ AllThere(i, t)
  /\ u.section = NextSection(i, t) /\ u.scope = NextScope(i, t) /\ u.ptrs[1] = PtrPast(tab, i, t)
Joins(tab, q, i, t) == IF i = 1 THEN Opens(t) ELSE Follows(tab, i - 1, q[i - 1], t)
Labelled(i, t) ==
  /\ t.name = IF prog[i].label.kind = "none" THEN NoScope ELSE QName(prog[i].label, t.scope)
  /\ t.equ <=> prog[i].op = "equ"
Chain(tab, q) ==
  \A i \in DOMAIN q :
    /\ i \in DOMAIN prog /\ q[i].ptrs # <<>>
    /\ Labelled(i, q[i]) /\ Joins(tab, q, i, q[i]) /\ RunsOn(tab, i, q[i])
-----------------------------------------------------------------------------
(* Two tables say the same of the labels of lines q, and of $ but where it *)
(* is.                                                                     *)
SameEntry(t1, t2, n) ==
  /\ n \in DOMAIN t1 /\ n \in DOMAIN t2 /\ t1[n].type = t2[n].type /\ t1[n].type # "DEFINE"
  /\ n = Dollar \/ t1[n].value = t2[n].value
SameOn(q, t1, t2) ==
  /\ SameEntry(t1, t2, Dollar)
  /\ \A j \in DOMAIN q : prog[j].label.kind # "none" => SameEntry(t1, t2, q[j].name)

LEMMA TabAtType ==
  ASSUME NEW tab, IsTable(tab), Dollar \in DOMAIN tab, NEW t \in TraceLine, t.ptrs # <<>>
  PROVE  /\ IsTable(TabAt(tab, t)) /\ DOMAIN TabAt(tab, t) = DOMAIN tab /\ Began(t) \in Int
         /\ TabAt(tab, t)[Dollar].value = Began(t)
         /\ \A n \in DOMAIN tab : /\ TabAt(tab, t)[n].type = tab[n].type
                                  /\ n # Dollar => TabAt(tab, t)[n] = tab[n]
  <1>1. t.ptrs[1] \in [Sections -> Int] /\ t.section \in Sections
    BY DEF TraceLine
  <1>2. Began(t) \in Int
    BY <1>1 DEF Began
  <1>3. tab[Dollar] \in Entry
    BY DEF IsTable
  <1>4. QED
    <2> DEFINE b == Began(t)
    <2> HIDE DEF b
    <2>1. IsTable([tab EXCEPT ![Dollar].value = b]) /\ DOMAIN [tab EXCEPT ![Dollar].value = b] = DOMAIN tab
      BY <1>2, <1>3 DEF b, IsTable, Entry
    <2>2. [tab EXCEPT ![Dollar].value = b][Dollar].value = b
      BY <1>3 DEF Entry
    <2>3. \A n \in DOMAIN tab : /\ [tab EXCEPT ![Dollar].value = b][n].type = tab[n].type
                                /\ n # Dollar => [tab EXCEPT ![Dollar].value = b][n] = tab[n]
      BY <1>3 DEF Entry
    <2>4. QED
      BY <1>2, <2>1, <2>2, <2>3 DEF TabAt, b

LEMMA ExprSyms == \A e \in Expr : \A k \in DOMAIN e : e[k].sym \in Sym
  <1>1. \A e \in Seq(Term) : \A k \in DOMAIN e : e[k] \in Term
    OBVIOUS
  <1>2. \A t \in Term : t.sym \in Sym
    BY DEF Term
  <1>3. QED
    BY <1>1, <1>2 DEF Expr

(* A size pass 0 knows is the same with both.                              *)
LEMMA KnownAlike ==
  ASSUME prog \in Seq(Statement), NEW q, NEW t1, NEW t2, IsTable(t1), IsTable(t2), SameOn(q, t1, t2),
         \A j \in DOMAIN q : Labelled(j, q[j]),
         NEW i \in Nat, \A j \in 1..i-1 : j \in DOMAIN q,
         NEW e \in Expr, KnownBefore(prog, e, i), NEW t \in TraceLine, t.ptrs # <<>>, NEW sc
  PROVE  Value(TabAt(t1, t), sc, e) = Value(TabAt(t2, t), sc, e)
  <1> DEFINE a == TabAt(t1, t)
             b == TabAt(t2, t)
             Q == {e[k].sym : k \in DOMAIN e}
  <1>1. Dollar \in DOMAIN t1 /\ Dollar \in DOMAIN t2 /\ t1[Dollar].type = t2[Dollar].type
        /\ t1[Dollar].type # "DEFINE"
    BY DEF SameOn, SameEntry
  <1>2. /\ IsTable(a) /\ IsTable(b) /\ DOMAIN a = DOMAIN t1 /\ DOMAIN b = DOMAIN t2
        /\ a[Dollar].value = b[Dollar].value /\ a[Dollar].type = t1[Dollar].type
        /\ b[Dollar].type = t2[Dollar].type
        /\ \A n \in DOMAIN t1 \ {Dollar} : a[n] = t1[n]
        /\ \A n \in DOMAIN t2 \ {Dollar} : b[n] = t2[n]
    BY <1>1, TabAtType
  <1> HIDE DEF a, b
  <1>3. Q \in SUBSET Sym
    BY ExprSyms
  <1>4. ASSUME NEW s \in Q, s.kind # "number"
        PROVE  LET n == QName(s, sc)
               IN /\ n \in DOMAIN a /\ n \in DOMAIN b /\ a[n].type = b[n].type /\ a[n].value = b[n].value
                  /\ a[n].type # "DEFINE"
    <2>1. PICK k \in DOMAIN e : s = e[k].sym
      OBVIOUS
    <2>2. e[k] \in Range(e)
      BY DEF Range
    <2>3. s.kind = "global" /\ (s.name = "$" \/ \E j \in 1..i-1 : prog[j].label = s)
      BY <1>4, <2>1, <2>2 DEF KnownBefore
    <2>4. QName(s, sc) = [inv |-> 0, path |-> <<s.name>>]
      BY <2>3 DEF QName
    <2>5. CASE s.name = "$"
      <3>1. QName(s, sc) = Dollar
        BY <2>4, <2>5 DEF Dollar
      <3>2. QED
        BY <1>1, <1>2, <3>1
    <2>6. CASE \E j \in 1..i-1 : prog[j].label = s
      <3>1. PICK j \in 1..i-1 : prog[j].label = s
        BY <2>6
      <3>2. j \in DOMAIN q /\ q[j].name = QName(s, q[j].scope)
        BY <2>3, <3>1 DEF Labelled
      <3>3. q[j].name = QName(s, sc)
        BY <2>3, <2>4, <3>2 DEF QName
      <3>4. SameEntry(t1, t2, QName(s, sc))
        BY <2>3, <3>1, <3>2, <3>3 DEF SameOn
      <3>5. CASE QName(s, sc) = Dollar
        BY <1>1, <1>2, <3>5
      <3>6. CASE QName(s, sc) # Dollar
        BY <1>2, <3>4, <3>6 DEF SameEntry
      <3>7. QED
        BY <3>5, <3>6
    <2>7. QED
      BY <2>3, <2>5, <2>6
  <1>5. AlikeOn(Q, a, b, sc)
    BY <1>4 DEF AlikeOn
  <1>6. \A k \in DOMAIN e : e[k].sym \in Q
    OBVIOUS
  <1> HIDE DEF Q
  <1>7. GetConst(a, sc, e) = GetConst(b, sc, e)
    BY <1>2, <1>3, <1>5, <1>6, GetConstAlike
  <1>8. QED
    BY <1>7 DEF Value, a, b

(* Numbers are what they are.                                              *)
LEMMA NumeralAlike ==
  ASSUME NEW t1, NEW t2, IsTable(t1), IsTable(t2), NEW e \in Expr, Numeral(e), NEW sc
  PROVE  Value(t1, sc, e) = Value(t2, sc, e)
  <1> DEFINE Q == {e[k].sym : k \in DOMAIN e}
  <1>1. \A k \in DOMAIN e : e[k].sym.kind = "number" /\ e[k].sym \in Sym
    BY ExprSyms DEF Numeral, Range
  <1>2. AlikeOn(Q, t1, t2, sc)
    BY <1>1 DEF AlikeOn
  <1>3. Q \in SUBSET Sym /\ \A k \in DOMAIN e : e[k].sym \in Q
    BY <1>1
  <1> HIDE DEF Q
  <1>4. QED
    BY <1>2, <1>3, GetConstAlike DEF Value
-----------------------------------------------------------------------------
(* What the shape of a steady program settles of line i.                   *)
LEMMA SteadyLine ==
  ASSUME prog \in Programs, Steady(prog), NEW i \in DOMAIN prog
  PROVE  /\ prog[i] \in Statement /\ prog[i].e \in Expr
         /\ prog[i].op = "res" => KnownBefore(prog, prog[i].e, i)
         /\ prog[i].op = "org" => i = 1 /\ Numeral(prog[i].e) /\ prog[i].label = NoSym
         /\ prog[i].op # "%undef"
  <1>1. prog \in Seq(Statement)
    BY ProgramsAssumption DEF ProgramsAssumption
  <1>2. prog[i] \in Statement
    BY <1>1
  <1>3. prog[i].e \in Expr
    BY <1>2 DEF Statement
  <1>4. QED
    BY <1>2, <1>3 DEF Steady, With

LEMMA SteadyChunks ==
  ASSUME prog \in Programs, Steady(prog), NEW i \in DOMAIN prog, NEW sec
  PROVE  /\ ChunksIn(i, sec) \in Seq(Chunk)
         /\ \A k \in DOMAIN ChunksIn(i, sec) :
              ChunksIn(i, sec)[k].form = "based" => KnownBefore(prog, ChunksIn(i, sec)[k].e, i)
  <1> DEFINE l == prog[i]
             row == TakenRow(l.ins)
             chunks == RowChunks(row, l.ins.params)
             Fine(q) == q \in Seq(Chunk) /\ \A k \in DOMAIN q : q[k].form = "based" => KnownBefore(prog, q[k].e, i)
  <1>1. l \in Statement
    BY SteadyLine
  <1>2. l.ins.cmd # "SAL"
    BY ProgramsAssumption DEF ProgramsAssumption
  <1>3. Fine(Items(l))
    <2>1. l.steps \in Seq(Item)
      BY <1>1 DEF Statement
    <2>2. ASSUME NEW S, NEW q \in Seq(S) PROVE (q # <<>> => <<q[1]>> \in Seq(S)) /\ \A k \in DOMAIN q : q[k] \in S
      BY <2>2
    <2>3. Items(l) \in Seq(Item)
      BY <2>1, <2>2 DEF Items
    <2>4. \A k \in DOMAIN Items(l) : Items(l)[k].form # "based"
      <3>1. \A c \in Item : c.form # "based"
        BY DEF Item
      <3> HIDE DEF Item
      <3>2. QED
        BY <2>2, <2>3, <3>1
    <2>5. Items(l) \in Seq(Chunk)
      BY <1>1, StatementChunks
    <2>6. QED
      BY <2>4, <2>5
  <1>4. Fine(Lead(l)) /\ \A k \in DOMAIN Lead(l) : Lead(l)[k].form = "bytes"
    <2>1. Lead(l) \in Seq(Chunk)
      BY <1>1, StatementChunks
    <2>2. \A k \in DOMAIN Lead(l) : Lead(l)[k].form = "bytes"
      BY DEF Lead, Fixed
    <2>3. QED
      BY <2>1, <2>2
  <1>5. ASSUME l.op = "instr", Taken(l.ins) # {} PROVE Fine(Lead(l) \o chunks)
    <2>1. row \in Taken(l.ins)
      BY <1>5 DEF TakenRow
    <2>2. \A c \in Range(chunks) : c.form = "based" => KnownBefore(prog, c.e, i)
      BY <1>5, <2>1 DEF Steady, With
    <2>3. Lead(l) \o chunks \in Seq(Chunk)
      BY <1>1, <1>2, <2>1, TakenChunks
    <2>4. ASSUME NEW a, NEW b, a \o b \in Seq(Chunk), NEW k \in DOMAIN (a \o b), a \in Seq(Chunk)
          PROVE  (k \in DOMAIN a /\ (a \o b)[k] = a[k]) \/ (a \o b)[k] \in Range(b)
      <3>1. CASE k <= Len(a)
        BY <2>4, <3>1
      <3>2. CASE k > Len(a)
        <4>1. k \in 1..Len(a)+Len(b) /\ k - Len(a) \in 1..Len(b) /\ (a \o b)[k] = b[k - Len(a)]
          BY <2>4, <3>2
        <4>2. QED
          BY <4>1 DEF Range
      <3>3. QED
        BY <3>1, <3>2
    <2> HIDE DEF chunks
    <2>5. QED
      BY <1>4, <2>2, <2>3, <2>4
  <1>6. Fine(<<>>)
    OBVIOUS
  <1>7. Fine(ChunksIn(i, sec))
    <2> HIDE DEF Fine
    <2> QED BY <1>3, <1>4, <1>5, <1>6 DEF ChunksIn
  <1>8. QED
    BY <1>7

(* A line is laid out alike with tables that say the same of the labels of *)
(* the lines before it.                                                    *)
LEMMA LineAlike ==
  ASSUME prog \in Programs, Steady(prog), NEW q, NEW t1, NEW t2, IsTable(t1), IsTable(t2), SameOn(q, t1, t2),
         \A j \in DOMAIN q : Labelled(j, q[j]),
         NEW i \in DOMAIN prog, \A j \in 1..i-1 : j \in DOMAIN q, NEW t \in TraceLine, t.ptrs # <<>>
  PROVE  /\ PtrPast(t1, i, t) = PtrPast(t2, i, t)
         /\ \A sec : \A k \in DOMAIN ChunksIn(i, sec) :
              ChunkLength(TabAt(t1, t), ScopeIn(i, t), ChunksIn(i, sec)[k])
                = ChunkLength(TabAt(t2, t), ScopeIn(i, t), ChunksIn(i, sec)[k])
  <1>1. prog \in Seq(Statement) /\ i \in Nat
    BY ProgramsAssumption DEF ProgramsAssumption
  <1>2. \A sc : \A e \in Expr : KnownBefore(prog, e, i) => Value(TabAt(t1, t), sc, e) = Value(TabAt(t2, t), sc, e)
    BY <1>1, KnownAlike
  <1>3. PtrPast(t1, i, t) = PtrPast(t2, i, t)
    <2>1. CASE prog[i].op = "res"
      BY <1>2, <2>1, SteadyLine DEF PtrPast
    <2>2. CASE prog[i].op = "org"
      <3>1. IsTable(TabAt(t1, t)) /\ IsTable(TabAt(t2, t))
        BY TabAtType DEF SameOn, SameEntry
      <3>2. Value(TabAt(t1, t), ScopeIn(i, t), prog[i].e) = Value(TabAt(t2, t), ScopeIn(i, t), prog[i].e)
        BY <2>2, <3>1, SteadyLine, NumeralAlike
      <3>3. QED
        BY <2>2, <3>2 DEF PtrPast
    <2>3. CASE prog[i].op \notin {"res", "org"}
      BY <2>3 DEF PtrPast
    <2>4. QED
      BY <2>1, <2>2, <2>3
  <1>4. ASSUME NEW sec, NEW k \in DOMAIN ChunksIn(i, sec)
        PROVE  ChunkLength(TabAt(t1, t), ScopeIn(i, t), ChunksIn(i, sec)[k])
                 = ChunkLength(TabAt(t2, t), ScopeIn(i, t), ChunksIn(i, sec)[k])
    <2> DEFINE c == ChunksIn(i, sec)[k]
    <2>1. c \in Chunk /\ (c.form = "based" => KnownBefore(prog, c.e, i))
      <3>1. ASSUME NEW S, NEW s \in Seq(S), NEW m \in DOMAIN s PROVE s[m] \in S
        BY <3>1
      <3>2. QED
        BY <1>4, <3>1, SteadyChunks
    <2> HIDE DEF c
    <2>2. c.e \in Expr
      BY <2>1 DEF Chunk
    <2>3. QED
      BY <1>2, <2>1, <2>2 DEF ChunkLength, c
  <1>5. QED
    BY <1>3, <1>4

(* So a chain with one is a chain with the other.                          *)
LEMMA ChainAlike ==
  ASSUME prog \in Programs, Steady(prog), NEW q \in Seq(TraceLine), NEW t1, NEW t2, IsTable(t1), IsTable(t2),
         SameOn(q, t1, t2), \A j \in DOMAIN q : Labelled(j, q[j]),
         NEW c \in Seq(TraceLine), Len(c) <= Len(q) + 1, Chain(t1, c)
  PROVE  Chain(t2, c)
  <1>1. /\ DOMAIN c = 1..Len(c) /\ DOMAIN q = 1..Len(q) /\ Len(c) \in Nat /\ Len(q) \in Nat
        /\ \A i \in DOMAIN c : c[i] \in TraceLine
    OBVIOUS
  <1>2. ASSUME NEW i \in DOMAIN c
        PROVE  /\ PtrPast(t1, i, c[i]) = PtrPast(t2, i, c[i])
               /\ \A k \in DOMAIN ChunksIn(i, c[i].section) :
                    ChunkLength(TabAt(t1, c[i]), ScopeIn(i, c[i]), ChunksIn(i, c[i].section)[k])
                      = ChunkLength(TabAt(t2, c[i]), ScopeIn(i, c[i]), ChunksIn(i, c[i].section)[k])
    <2>1. i \in DOMAIN prog /\ c[i].ptrs # <<>> /\ c[i] \in TraceLine
      BY <1>1, <1>2 DEF Chain
    <2>2. \A j \in 1..i-1 : j \in DOMAIN q
      BY <1>1, <1>2
    <2> DEFINE t == c[i]
    <2>3. t \in TraceLine /\ t.ptrs # <<>>
      BY <2>1
    <2> HIDE DEF t
    <2>4. /\ PtrPast(t1, i, t) = PtrPast(t2, i, t)
          /\ \A sec : \A k \in DOMAIN ChunksIn(i, sec) :
               ChunkLength(TabAt(t1, t), ScopeIn(i, t), ChunksIn(i, sec)[k])
                 = ChunkLength(TabAt(t2, t), ScopeIn(i, t), ChunksIn(i, sec)[k])
      BY <2>1, <2>2, <2>3, LineAlike
    <2>5. QED
      BY <2>4 DEF t
  <1>3. ASSUME NEW i \in DOMAIN c PROVE RunsOn(t2, i, c[i])
    <2>1. RunsOn(t1, i, c[i]) /\ i \in DOMAIN prog
      BY <1>3 DEF Chain
    <2>2. ChunksIn(i, c[i].section) \in Seq(Chunk)
      BY <2>1, SteadyChunks
    <2>3. Len(c[i].ptrs) \in Nat
      BY <1>1 DEF TraceLine
    <2>4. \A k \in 1..Len(c[i].ptrs)-1 : k \in DOMAIN ChunksIn(i, c[i].section)
      <3> DEFINE m == Len(ChunksIn(i, c[i].section))
                 n == Len(c[i].ptrs)
      <3>1. m \in Nat /\ DOMAIN ChunksIn(i, c[i].section) = 1..m /\ n \in Nat /\ n <= m + 1
        BY <2>1, <2>2, <2>3 DEF RunsOn
      <3> HIDE DEF m, n
      <3>2. \A k \in 1..n-1 : k \in 1..m
        BY <3>1
      <3>3. QED
        BY <3>1, <3>2 DEF n
    <2>5. QED
      BY <1>2, <2>1, <2>4 DEF RunsOn
  <1>4. ASSUME NEW i \in DOMAIN c PROVE Joins(t2, c, i, c[i])
    <2>1. Joins(t1, c, i, c[i])
      BY DEF Chain
    <2>2. CASE i = 1
      BY <2>1, <2>2 DEF Joins
    <2>3. CASE i # 1
      <3>1. i - 1 \in DOMAIN c
        BY <1>1, <2>3
      <3>2. QED
        BY <1>2, <2>1, <2>3, <3>1 DEF Joins, Follows
    <2>4. QED
      BY <2>2, <2>3
  <1>5. QED
    BY <1>3, <1>4 DEF Chain
-----------------------------------------------------------------------------
(* There is one chain: two lines that begin alike go on alike.             *)
BeginAlike(i, s, t) ==
  /\ s.section = t.section /\ s.scope = t.scope /\ s.name = t.name /\ s.equ = t.equ
  /\ s.ptrs[1] = t.ptrs[1] \/ (~isOrgDef /\ prog[i].op = "org")

LEMMA RunsAlike ==
  ASSUME NEW tab, NEW i, NEW s \in TraceLine, NEW t \in TraceLine, s.ptrs # <<>>, t.ptrs # <<>>,
         RunsOn(tab, i, s), RunsOn(tab, i, t),
         s.section = t.section, s.scope = t.scope, s.name = t.name, s.ptrs[1] = t.ptrs[1]
  PROVE  \A k \in 1..Len(s.ptrs) : k <= Len(t.ptrs) => s.ptrs[k] = t.ptrs[k]
  <1> DEFINE m == Len(s.ptrs)
             n == Len(t.ptrs)
             G == {k \in 0..m-1 : k + 1 <= n => s.ptrs[k + 1] = t.ptrs[k + 1]}
  <1>1. m \in Nat /\ n \in Nat /\ m > 0
    BY DEF TraceLine
  <1>2. TabAt(tab, s) = TabAt(tab, t) /\ ScopeIn(i, s) = ScopeIn(i, t)
    BY DEF TabAt, Began, ScopeIn
  <1>3. ASSUME NEW k \in 1..m-1, k <= n - 1, s.ptrs[k] = t.ptrs[k] PROVE s.ptrs[k + 1] = t.ptrs[k + 1]
    <2>1. k \in 1..n-1
      BY <1>1, <1>3
    <2>2. QED
      BY <1>2, <1>3, <2>1 DEF RunsOn
  <1> HIDE DEF m, n
  <1>4. 0 \in G
    BY <1>1
  <1>5. ASSUME NEW k \in 0..(m-1)-1, k \in G PROVE k + 1 \in G
    <2>1. k + 1 \in 1..m-1 /\ k + 1 \in 0..m-1 /\ (k + 1) + 1 \in Nat
      BY <1>1, <1>5
    <2>2. ASSUME (k + 1) + 1 <= n PROVE s.ptrs[(k + 1) + 1] = t.ptrs[(k + 1) + 1]
      <3>1. k + 1 <= n /\ k + 1 <= n - 1
        BY <1>1, <2>1, <2>2
      <3>2. s.ptrs[k + 1] = t.ptrs[k + 1]
        BY <1>5, <3>1
      <3>3. QED
        BY <1>3, <2>1, <3>1, <3>2
    <2>3. QED
      BY <2>1, <2>2
  <1>6. \A k \in 0..m-1 : k \in G
    <2>1. m - 1 \in Nat
      BY <1>1
    <2> HIDE DEF G
    <2> QED BY <1>4, <1>5, <2>1, UpTo
  <1>7. ASSUME NEW k \in 1..m, k <= n PROVE s.ptrs[k] = t.ptrs[k]
    <2>1. k - 1 \in 0..m-1 /\ (k - 1) + 1 = k
      BY <1>1, <1>7
    <2>2. QED
      BY <1>6, <1>7, <2>1
  <1>8. QED
    BY <1>7 DEF m, n

LEMMA NextAlike ==
  ASSUME prog \in Programs, Steady(prog), NEW tab, IsTable(tab), Dollar \in DOMAIN tab,
         NEW i \in DOMAIN prog, NEW s \in TraceLine, NEW t \in TraceLine, s.ptrs # <<>>, t.ptrs # <<>>,
         RunsOn(tab, i, s), RunsOn(tab, i, t), AllThere(i, s), AllThere(i, t), BeginAlike(i, s, t)
  PROVE  /\ PtrPast(tab, i, s) = PtrPast(tab, i, t)
         /\ NextSection(i, s) = NextSection(i, t) /\ NextScope(i, s) = NextScope(i, t)
         /\ s = t \/ (~isOrgDef /\ prog[i].op = "org")
  <1>1. NextSection(i, s) = NextSection(i, t) /\ NextScope(i, s) = NextScope(i, t)
    BY DEF BeginAlike, NextSection, NextScope, ScopeIn
  <1>2. CASE s.ptrs[1] = t.ptrs[1]
    <2>1. \A k \in 1..Len(s.ptrs) : k <= Len(t.ptrs) => s.ptrs[k] = t.ptrs[k]
      BY <1>2, RunsAlike DEF BeginAlike
    <2>2. Len(s.ptrs) = Len(t.ptrs)
      BY DEF AllThere, BeginAlike
    <2>3. s.ptrs \in Seq([Sections -> Int]) /\ t.ptrs \in Seq([Sections -> Int])
      BY DEF TraceLine
    <2>4. s.ptrs = t.ptrs
      <3>1. \A k \in 1..Len(s.ptrs) : k <= Len(t.ptrs)
        BY <2>2, <2>3
      <3>2. ASSUME NEW S, NEW a \in Seq(S), NEW b \in Seq(S), Len(a) = Len(b), \A k \in 1..Len(a) : a[k] = b[k]
            PROVE  a = b
        BY <3>2
      <3>3. QED
        BY <2>1, <2>2, <2>3, <3>1, <3>2
    <2>5. s = t
      <3>1. s.name = t.name /\ s.scope = t.scope /\ s.section = t.section /\ s.equ = t.equ
        BY DEF BeginAlike
      <3>2. \A x \in TraceLine :
              x = [name |-> x.name, scope |-> x.scope, section |-> x.section, ptrs |-> x.ptrs, equ |-> x.equ]
        BY DEF TraceLine
      <3>3. QED
        BY <2>4, <3>1, <3>2, Zenon
    <2>6. QED
      BY <2>5
  <1>3. CASE ~isOrgDef /\ prog[i].op = "org"
    <2>1. IsTable(TabAt(tab, s)) /\ IsTable(TabAt(tab, t))
      BY TabAtType
    <2>2. ScopeIn(i, s) = ScopeIn(i, t)
      BY DEF BeginAlike, ScopeIn
    <2>3. Value(TabAt(tab, s), ScopeIn(i, s), prog[i].e) = Value(TabAt(tab, t), ScopeIn(i, t), prog[i].e)
      BY <1>3, <2>1, <2>2, SteadyLine, NumeralAlike
    <2>4. QED
      BY <1>1, <1>3, <2>3 DEF PtrPast
  <1>4. QED
    BY <1>1, <1>2, <1>3 DEF BeginAlike

LEMMA OneLayout ==
  ASSUME prog \in Programs, Steady(prog), NEW tab, IsTable(tab), Dollar \in DOMAIN tab,
         NEW a \in Seq(TraceLine), NEW b \in Seq(TraceLine), Chain(tab, a), Chain(tab, b)
  PROVE  \A i \in DOMAIN a \cap DOMAIN b : BeginAlike(i, a[i], b[i])
  <1> DEFINE n == Len(a)
             G == {k \in 0..n-1 : k + 1 \in DOMAIN b => BeginAlike(k + 1, a[k + 1], b[k + 1])}
  <1>1. /\ n \in Nat /\ Len(b) \in Nat /\ DOMAIN a = 1..n /\ DOMAIN b = 1..Len(b)
        /\ \A i \in DOMAIN a : a[i] \in TraceLine
        /\ \A i \in DOMAIN b : b[i] \in TraceLine
    OBVIOUS
  <1> HIDE DEF n
  <1>2. ASSUME NEW i \in DOMAIN a \cap DOMAIN b, a[i].section = b[i].section, a[i].scope = b[i].scope
        PROVE  a[i].name = b[i].name /\ a[i].equ = b[i].equ
    <2>1. a[i] \in TraceLine /\ b[i] \in TraceLine
      BY <1>1, <1>2
    <2>2. a[i].equ \in BOOLEAN /\ b[i].equ \in BOOLEAN
      BY <2>1 DEF TraceLine
    <2>3. QED
      BY <1>2, <2>2 DEF Chain, Labelled
  <1>3. 1 \in DOMAIN a \cap DOMAIN b => BeginAlike(1, a[1], b[1])
    <2> SUFFICES ASSUME 1 \in DOMAIN a \cap DOMAIN b PROVE BeginAlike(1, a[1], b[1])
      OBVIOUS
    <2>1. Opens(a[1]) /\ Opens(b[1]) /\ 1 \in DOMAIN prog
      BY DEF Chain, Joins
    <2>2. a[1].ptrs[1] \in [Sections -> Int] /\ b[1].ptrs[1] \in [Sections -> Int]
      <3>1. /\ a[1] \in TraceLine /\ a[1].ptrs # <<>>
            /\ b[1] \in TraceLine /\ b[1].ptrs # <<>>
        BY <1>1 DEF Chain
      <3>2. \A x \in TraceLine : x.ptrs \in Seq([Sections -> Int])
        BY DEF TraceLine
      <3>3. \A q \in Seq([Sections -> Int]) : q # <<>> => q[1] \in [Sections -> Int]
        OBVIOUS
      <3>4. QED
        BY <3>1, <3>2, <3>3
    <2>3. CASE OrgStays
      <3>1. \A s \in Sections : a[1].ptrs[1][s] = b[1].ptrs[1][s]
        BY <2>1, <2>3 DEF Opens, Sections
      <3>2. a[1].ptrs[1] = b[1].ptrs[1]
        BY <2>2, <3>1
      <3>3. QED
        BY <1>2, <2>1, <3>2 DEF BeginAlike, Opens
    <2>4. CASE ~OrgStays
      <3>1. ~isOrgDef /\ prog[1].op = "org"
        BY <2>4, SteadyLine DEF OrgStays
      <3>2. QED
        BY <1>2, <2>1, <3>1 DEF BeginAlike, Opens
    <2>5. QED
      BY <2>3, <2>4
  <1>4. ASSUME NEW i \in DOMAIN a \cap DOMAIN b, i + 1 \in DOMAIN a \cap DOMAIN b, BeginAlike(i, a[i], b[i])
        PROVE  BeginAlike(i + 1, a[i + 1], b[i + 1])
    <2>1. i + 1 # 1 /\ (i + 1) - 1 = i
      BY <1>1, <1>4
    <2>2. Follows(tab, i, a[i], a[i + 1]) /\ Follows(tab, i, b[i], b[i + 1])
      BY <1>4, <2>1 DEF Chain, Joins
    <2>3. /\ i \in DOMAIN prog /\ a[i].ptrs # <<>> /\ b[i].ptrs # <<>>
          /\ RunsOn(tab, i, a[i]) /\ RunsOn(tab, i, b[i]) /\ AllThere(i, a[i]) /\ AllThere(i, b[i])
      BY <1>4, <2>2 DEF Chain, Follows
    <2>4. a[i] \in TraceLine /\ b[i] \in TraceLine
      BY <1>1, <1>4
    <2>5. /\ PtrPast(tab, i, a[i]) = PtrPast(tab, i, b[i])
          /\ NextSection(i, a[i]) = NextSection(i, b[i]) /\ NextScope(i, a[i]) = NextScope(i, b[i])
      BY <1>4, <2>3, <2>4, NextAlike
    <2>6. QED
      BY <1>2, <1>4, <2>2, <2>5 DEF BeginAlike, Follows
  <1>5. 0 \in G \/ n = 0
    BY <1>1, <1>3
  <1>6. ASSUME NEW k \in 0..(n-1)-1, k \in G PROVE k + 1 \in G
    <2>1. k + 1 \in 0..n-1 /\ k + 1 \in DOMAIN a /\ (k + 1) + 1 \in DOMAIN a
          /\ ((k + 1) + 1 \in DOMAIN b => k + 1 \in DOMAIN b)
      BY <1>1, <1>6
    <2>2. QED
      BY <1>4, <1>6, <2>1
  <1>7. ASSUME NEW i \in DOMAIN a \cap DOMAIN b PROVE BeginAlike(i, a[i], b[i])
    <2>1. n # 0 /\ n - 1 \in Nat /\ i - 1 \in 0..n-1 /\ (i - 1) + 1 = i
      BY <1>1, <1>7
    <2>2. \A k \in 0..n-1 : k \in G
      <3> HIDE DEF G
      <3> QED BY <1>5, <1>6, <2>1, UpTo
    <2>3. QED
      BY <1>7, <2>1, <2>2
  <1>8. QED
    BY <1>7
-----------------------------------------------------------------------------
(* NamesOf goes over the lines one by one, as the passes do.               *)
NamesRead(f, p) ==
  f = [s \in SUBSET DOMAIN p |->
         IF s = {} THEN [names |-> <<>>, scope |-> NoScope] ELSE NameLine(f[s \ {Max(s)}], p[Max(s)])]
LEMMA NameFoldIs ==
  ASSUME NEW p
  PROVE  NamesOf(p) = (CHOOSE f : NamesRead(f, p))[DOMAIN p].names
  BY DEF NamesOf, FoldLeft, MapThenFoldSet, NamesRead

NameStates == [names : Seq(Name), scope : Name]
LEMMA NameLineType ==
  ASSUME NEW st \in NameStates, NEW l \in Statement
  PROVE  /\ NameLine(st, l) \in NameStates
         /\ Len(NameLine(st, l).names) = Len(st.names) + 1
         /\ \A k \in 1..Len(st.names) : NameLine(st, l).names[k] = st.names[k]
  <1> DEFINE name == IF l.label.kind = "none" THEN NoScope ELSE QName(l.label, st.scope)
             new  == Append(st.names, name)
             to   == IF l.op = "section" THEN NoScope ELSE IF Anchors(l) THEN name ELSE st.scope
  <1>1. st.names \in Seq(Name) /\ st.scope \in Name /\ l.label \in Sym /\ NoScope \in Name
    BY DEF NameStates, Statement, NoScope, Name
  <1>2. name \in Name
    BY <1>1, QNameType
  <1>3. to \in Name
    BY <1>1, <1>2
  <1>4. NameLine(st, l) = [names |-> new, scope |-> to]
    BY DEF NameLine
  <1> HIDE DEF name, to
  <1>5. /\ new \in Seq(Name) /\ Len(new) = Len(st.names) + 1
        /\ \A k \in 1..Len(st.names) : new[k] = st.names[k]
    BY <1>1, <1>2
  <1> HIDE DEF new
  <1>6. QED
    BY <1>3, <1>4, <1>5 DEF NameStates

LEMMA NamesRun ==
  ASSUME NEW p \in Seq(Statement)
  PROVE  \E g \in [0..Len(p) -> NameStates] :
           /\ g[0] = [names |-> <<>>, scope |-> NoScope] /\ NamesOf(p) = g[Len(p)].names
           /\ \A k \in 0..Len(p)-1 : g[k + 1] = NameLine(g[k], p[k + 1])
  <1> DEFINE n == Len(p)
             st == [names |-> <<>>, scope |-> NoScope]
             F == [x \in NameStates \X Statement |-> NameLine(x[1], x[2])]
             f == CHOOSE f : NamesRead(f, p)
             G == {k \in 0..n : f[1..k] \in NameStates}
  <1>1. n \in Nat /\ DOMAIN p = 1..n /\ p \in [1..n -> Statement]
    OBVIOUS
  <1>2. st \in NameStates
    BY DEF NameStates, NoScope, Name
  <1>3. F \in [NameStates \X Statement -> NameStates]
    BY NameLineType
  <1>4. \A x \in NameStates, l \in Statement : F[<<x, l>>] = NameLine(x, l)
    OBVIOUS
  <1>5. NamesOf(p) = f[DOMAIN p].names
    BY NameFoldIs
  <1> HIDE DEF n, F
  <1>6. \E h : NamesRead(h, p)
    <2> HIDE DEF st
    <2>1. PICK h \in [SUBSET (1..n) -> NameStates] : Iterates(h, F, st, p, n)
      BY <1>1, <1>2, <1>3, IterationExists
    <2>2. ASSUME NEW s \in SUBSET (1..n), s # {}
          PROVE  F[<<h[s \ {Max(s)}], p[Max(s)]>>] = NameLine(h[s \ {Max(s)}], p[Max(s)])
      <3>1. Max(s) \in 1..n /\ s \ {Max(s)} \in SUBSET (1..n)
        BY <1>1, <2>2, MaxOfPart
      <3>2. QED
        BY <1>1, <1>4, <3>1
    <2>3. NamesRead(h, p)
      BY <1>1, <2>1, <2>2 DEF Iterates, NamesRead, st
    <2>4. QED
      BY <2>3
  <1>7. NamesRead(f, p)
    BY <1>6
  <1> HIDE DEF f
  <1>8. f[1..0] = st /\ 0 \in 0..n
    <2>1. 1..0 = {} /\ 0 \in 0..n
      BY <1>1
    <2>2. f[{}] = st
      BY <1>7 DEF NamesRead
    <2>3. QED
      BY <2>1, <2>2
  <1>9. ASSUME NEW k \in 0..n-1
        PROVE  f[1..k+1] = NameLine(f[1..k], p[k + 1])
    <2>1. /\ 1..k+1 \in SUBSET (1..n) /\ 1..k+1 # {} /\ Max(1..k+1) = k + 1
          /\ (1..k+1) \ {k + 1} = 1..k
      BY <1>1, PrefixMax
    <2>2. QED
      BY <1>1, <1>7, <2>1 DEF NamesRead
  <1> HIDE DEF st
  <1>10. 0 \in G
    BY <1>2, <1>8
  <1>11. ASSUME NEW k \in 0..n-1, k \in G PROVE k + 1 \in G
    <2>1. k + 1 \in 0..n /\ p[k + 1] \in Statement
      BY <1>1
    <2>2. QED
      BY <1>9, <1>11, <2>1, NameLineType
  <1>12. \A k \in 0..n : f[1..k] \in NameStates
    <2>1. \A k \in 0..n : k \in G
      <3> HIDE DEF G
      <3> QED BY <1>1, <1>10, <1>11, UpTo
    <2>2. QED
      BY <2>1
  <1> DEFINE g == [k \in 0..n |-> f[1..k]]
  <1>13. g \in [0..n -> NameStates]
    BY <1>12
  <1>14. n \in 0..n /\ \A k \in 0..n-1 : k \in 0..n /\ k + 1 \in 0..n
    BY <1>1
  <1>15. g[0] = st /\ g[n] = f[1..n]
    BY <1>8, <1>14
  <1>16. \A k \in 0..n-1 : g[k + 1] = NameLine(g[k], p[k + 1])
    BY <1>9, <1>14
  <1> HIDE DEF g
  <1>17. QED
    BY <1>1, <1>5, <1>13, <1>15, <1>16 DEF n, st

(* The name of line i is settled by the time it is read, and so is the     *)
(* scope it is read in.                                                    *)
LEMMA NamesAre ==
  ASSUME NEW p \in Seq(Statement)
  PROVE  \E g \in [0..Len(p) -> Name] :
           /\ g[0] = NoScope /\ DOMAIN NamesOf(p) = DOMAIN p
           /\ \A i \in DOMAIN p :
                LET name == IF p[i].label.kind = "none" THEN NoScope ELSE QName(p[i].label, g[i - 1])
                IN /\ NamesOf(p)[i] = name
                   /\ g[i] = IF p[i].op = "section" THEN NoScope
                             ELSE IF Anchors(p[i]) THEN name ELSE g[i - 1]
  <1> DEFINE n == Len(p)
             NameAt(sc, i) == IF p[i].label.kind = "none" THEN NoScope ELSE QName(p[i].label, sc)
             ScopeAt(sc, i) == IF p[i].op = "section" THEN NoScope
                               ELSE IF Anchors(p[i]) THEN NameAt(sc, i) ELSE sc
  <1>1. n \in Nat /\ DOMAIN p = 1..n /\ \A i \in DOMAIN p : p[i] \in Statement
    OBVIOUS
  <1>2. PICK h \in [0..n -> NameStates] :
           /\ h[0] = [names |-> <<>>, scope |-> NoScope] /\ NamesOf(p) = h[n].names
           /\ \A k \in 0..n-1 : h[k + 1] = NameLine(h[k], p[k + 1])
    BY NamesRun
  <1> HIDE DEF n
  <1>3. ASSUME NEW k \in 0..n-1
        PROVE  /\ h[k].names \in Seq(Name) /\ h[k] \in NameStates /\ p[k + 1] \in Statement
               /\ h[k + 1].names = Append(h[k].names, NameAt(h[k].scope, k + 1))
               /\ h[k + 1].scope = ScopeAt(h[k].scope, k + 1)
    <2>1. k \in 0..n /\ k + 1 \in 1..n /\ h[k + 1] = NameLine(h[k], p[k + 1])
      BY <1>1, <1>2
    <2>2. h[k] \in NameStates /\ p[k + 1] \in Statement
      BY <1>1, <1>2, <2>1
    <2>3. QED
      BY <2>1, <2>2 DEF NameLine, NameStates
  <1> DEFINE Long == {k \in 0..n : Len(h[k].names) = k}
             Stay(i) == {k \in 0..n : i <= k => h[k].names[i] = h[i].names[i]}
  <1>4. \A k \in 0..n : Len(h[k].names) = k
    <2>1. 0 \in Long
      BY <1>1, <1>2
    <2>2. ASSUME NEW k \in 0..n-1, k \in Long PROVE k + 1 \in Long
      <3>1. k + 1 \in 0..n /\ Len(h[k].names) = k
        BY <1>1, <2>2
      <3> DEFINE a == h[k].names
                 b == NameAt(h[k].scope, k + 1)
      <3>2. a \in Seq(Name) /\ h[k + 1].names = Append(a, b)
        BY <1>3, <2>2
      <3> HIDE DEF a, b
      <3>3. Len(h[k + 1].names) = Len(a) + 1
        BY <3>2
      <3>4. QED
        BY <3>1, <3>3 DEF a
    <2>3. \A k \in 0..n : k \in Long
      <3> HIDE DEF Long
      <3> QED BY <1>1, <2>1, <2>2, UpTo
    <2>4. QED
      BY <2>3
  <1>5. ASSUME NEW i \in 1..n, NEW k \in 0..n, i <= k PROVE h[k].names[i] = h[i].names[i]
    <2>1. 0 \in Stay(i)
      BY <1>1
    <2>2. ASSUME NEW m \in 0..n-1, m \in Stay(i) PROVE m + 1 \in Stay(i)
      <3>1. m + 1 \in 0..n /\ m \in 0..n
        BY <1>1, <2>2
      <3>2. CASE i <= m
        <4> DEFINE a == h[m].names
                   b == NameAt(h[m].scope, m + 1)
        <4>1. a \in Seq(Name) /\ h[m + 1].names = Append(a, b) /\ Len(a) = m
          BY <1>3, <1>4, <2>2, <3>1
        <4> HIDE DEF a, b
        <4>2. i \in 1..Len(a)
          BY <1>1, <3>2, <4>1
        <4>3. h[m + 1].names[i] = a[i]
          BY <4>1, <4>2
        <4>4. QED
          BY <2>2, <3>1, <3>2, <4>3 DEF a
      <3>3. CASE ~(i <= m)
        <4>1. i <= m + 1 => i = m + 1
          BY <1>1, <3>1, <3>3
        <4>2. QED
          BY <3>1, <4>1
      <3>4. QED
        BY <3>2, <3>3
    <2>3. \A m \in 0..n : m \in Stay(i)
      <3> HIDE DEF Stay
      <3> QED BY <1>1, <2>1, <2>2, UpTo
    <2>4. QED
      BY <1>5, <2>3
  <1> DEFINE g == [k \in 0..n |-> h[k].scope]
  <1>6. g \in [0..n -> Name] /\ g[0] = NoScope
    <2>1. 0 \in 0..n
      BY <1>1
    <2>2. QED
      BY <1>2, <2>1 DEF NameStates
  <1>7. DOMAIN NamesOf(p) = DOMAIN p
    <2>1. n \in 0..n
      BY <1>1
    <2>2. Len(NamesOf(p)) = n /\ NamesOf(p) \in Seq(Name)
      BY <1>2, <1>4, <2>1 DEF NameStates
    <2>3. QED
      BY <1>1, <2>2
  <1>8. ASSUME NEW i \in DOMAIN p
        PROVE  NamesOf(p)[i] = NameAt(g[i - 1], i) /\ g[i] = ScopeAt(g[i - 1], i)
    <2> DEFINE k == i - 1
    <2>1. k \in 0..n-1 /\ k \in 0..n /\ i \in 1..n /\ i \in 0..n /\ k + 1 = i /\ n \in 0..n /\ i <= n
      BY <1>1, <1>8
    <2> HIDE DEF k
    <2>2. g[k] = h[k].scope /\ g[i] = h[i].scope
      BY <2>1
    <2>3. /\ h[k].names \in Seq(Name) /\ Len(h[k].names) = k
          /\ h[i].names = Append(h[k].names, NameAt(h[k].scope, i)) /\ h[i].scope = ScopeAt(h[k].scope, i)
      BY <1>3, <1>4, <2>1
    <2>4. h[i].names[i] = NameAt(h[k].scope, i)
      <3>1. ASSUME NEW q \in Seq(Name), NEW x PROVE Append(q, x)[Len(q) + 1] = x
        OBVIOUS
      <3> HIDE DEF NameAt
      <3>2. QED
        BY <2>1, <2>3, <3>1
    <2>5. NamesOf(p)[i] = h[i].names[i]
      BY <1>2, <1>5, <2>1
    <2> HIDE DEF NameAt, ScopeAt, g
    <2>6. QED
      BY <2>2, <2>3, <2>4, <2>5 DEF k
  <1> HIDE DEF g
  <1>9. QED
    BY <1>6, <1>7, <1>8 DEF n

LEMMA ChainNames ==
  ASSUME prog \in Programs, NEW tab, NEW q \in Seq(TraceLine), Chain(tab, q)
  PROVE  \A i \in DOMAIN q : i \in DOMAIN NamesOf(prog) /\ q[i].name = NamesOf(prog)[i]
  <1>1. prog \in Seq(Statement)
    BY ProgramsAssumption DEF ProgramsAssumption
  <1>2. PICK g \in [0..Len(prog) -> Name] :
           /\ g[0] = NoScope /\ DOMAIN NamesOf(prog) = DOMAIN prog
           /\ \A i \in DOMAIN prog :
                LET name == IF prog[i].label.kind = "none" THEN NoScope ELSE QName(prog[i].label, g[i - 1])
                IN /\ NamesOf(prog)[i] = name
                   /\ g[i] = IF prog[i].op = "section" THEN NoScope
                             ELSE IF Anchors(prog[i]) THEN name ELSE g[i - 1]
    BY <1>1, NamesAre
  <1> DEFINE n == Len(q)
             G == {k \in 0..n : k = 0 \/ q[k].scope = g[k - 1]}
  <1>3. n \in Nat /\ DOMAIN q = 1..n /\ \A i \in DOMAIN q : i \in DOMAIN prog
    BY DEF Chain
  <1> HIDE DEF n
  <1>4. ASSUME NEW i \in DOMAIN q, q[i].scope = g[i - 1] PROVE q[i].name = NamesOf(prog)[i]
    BY <1>2, <1>3, <1>4 DEF Chain, Labelled
  <1>5. 0 \in G
    BY <1>3
  <1>6. ASSUME NEW k \in 0..n-1, k \in G PROVE k + 1 \in G
    <2>1. k + 1 \in 0..n /\ k + 1 \in DOMAIN q /\ (k + 1) - 1 = k
      BY <1>3, <1>6
    <2>2. CASE k = 0
      <3>1. 1 \in DOMAIN q /\ 1 - 1 = 0 /\ 0 + 1 = 1
        BY <2>1, <2>2
      <3>2. q[1].scope = NoScope
        BY <3>1 DEF Chain, Joins, Opens
      <3>3. QED
        BY <1>2, <2>1, <2>2, <3>1, <3>2
    <2>3. CASE k # 0
      <3>1. k \in DOMAIN q /\ k + 1 # 1 /\ q[k].scope = g[k - 1]
        BY <1>3, <1>6, <2>3
      <3>2. q[k].name = NamesOf(prog)[k] /\ q[k + 1].scope = NextScope(k, q[k])
        BY <1>4, <2>1, <3>1 DEF Chain, Joins, Follows
      <3>3. k \in DOMAIN prog
        BY <1>3, <3>1
      <3>4. q[k + 1].scope = g[k]
        BY <1>2, <3>1, <3>2, <3>3 DEF NextScope, ScopeIn
      <3>5. QED
        BY <2>1, <3>4
    <2>4. QED
      BY <2>2, <2>3
  <1>7. \A k \in 0..n : k \in G
    <2> HIDE DEF G
    <2> QED BY <1>3, <1>5, <1>6, UpTo
  <1>8. QED
    <2>1. ASSUME NEW i \in DOMAIN q PROVE i \in DOMAIN prog /\ q[i].scope = g[i - 1]
      <3>1. i \in 0..n /\ i # 0 /\ i \in DOMAIN prog
        BY <1>3, <2>1
      <3>2. QED
        BY <1>7, <3>1
    <2>2. QED
      BY <1>2, <1>4, <2>1
-----------------------------------------------------------------------------
(* What a line leaves.                                                     *)

(* A label is named apart from $ and $$.                                   *)
LEMMA QNameApart ==
  ASSUME NEW s \in Sym, s.name \notin {"$", "$$"}, NEW sc \in Name
  PROVE  QName(s, sc) \notin {Dollar, Origin, NoScope}
  <1> DEFINE name == QName(s, sc)
  <1>1. s.name \in STRING /\ sc.path \in Seq(STRING)
    BY DEF Sym, Name
  <1>2. name.path # <<>> /\ name.path[Len(name.path)] = s.name
    <2>1. CASE s.kind = "local"
      <3>1. name.path = Append(sc.path, s.name)
        BY <2>1 DEF QName, Name
      <3>2. ASSUME NEW q \in Seq(STRING), NEW x PROVE Append(q, x) # <<>> /\ Append(q, x)[Len(Append(q, x))] = x
        BY <3>2
      <3>3. QED
        BY <1>1, <3>1, <3>2
    <2>2. CASE s.kind # "local"
      <3>1. name.path = <<s.name>>
        BY <2>2 DEF QName
      <3>2. \A x : <<x>> # <<>> /\ <<x>>[Len(<<x>>)] = x
        OBVIOUS
      <3>3. QED
        BY <3>1, <3>2
    <2>3. QED
      BY <2>1, <2>2
  <1>3. Dollar.path[Len(Dollar.path)] = "$" /\ Origin.path[Len(Origin.path)] = "$$" /\ NoScope.path = <<>>
    BY DEF Dollar, Origin, NoScope
  <1>4. QED
    BY <1>2, <1>3

LEMMA LineNameApart ==
  ASSUME TypeInv, pc = "line", at <= Len(prog), Stmt.label.kind # "none"
  PROVE  LineName \in Name /\ LineName # Dollar /\ LineName # Origin /\ LineName # NoScope
  <1>1. LineName \in Name /\ scope \in Name
    BY LineTable DEF TypeInv, TableInv
  <1>2. Stmt \in Statement /\ Stmt.label.name \notin {"$", "$$"}
    BY LineTypes DEF TypeInv, PlaceInv
  <1>3. Stmt.label \in Sym
    BY <1>2 DEF Statement
  <1>4. QED
    BY <1>1, <1>2, <1>3, QNameApart DEF LineName

(* While a line is handled $ is where it began.                            *)
LEMMA LineDollar ==
  ASSUME TypeInv, pc = "line", at <= Len(prog)
  PROVE  /\ Dollar \in DOMAIN LineConsts /\ LineConsts[Dollar].value = Here
         /\ LineConsts[Dollar].type = consts[Dollar].type
         /\ Began(NewLine) = Here /\ TabAt(LineConsts, NewLine) = LineConsts
  <1> DEFINE tab == [consts EXCEPT ![Dollar].value = Here]
             new == SetSection(AddConst(tab, LineName, LabelType(section), Here), LineName, section)
  <1>1. Dollar \in DOMAIN consts /\ consts[Dollar] \in Entry /\ IsTable(consts)
    BY DEF TypeInv, TableInv, IsTable
  <1>2. tab[Dollar].value = Here /\ tab[Dollar].type = consts[Dollar].type /\ Dollar \in DOMAIN tab
    BY <1>1 DEF Entry
  <1> HIDE DEF tab
  <1>3. ASSUME HasLabel
        PROVE  Dollar \in DOMAIN new /\ new[Dollar] = tab[Dollar]
    <2>1. LineName # Dollar
      BY <1>3, LineNameApart DEF HasLabel
    <2>2. QED
      BY <1>2, <2>1 DEF SetSection, AddConst
  <1>4. /\ Dollar \in DOMAIN LineConsts /\ LineConsts[Dollar].value = Here
        /\ LineConsts[Dollar].type = consts[Dollar].type
    BY <1>2, <1>3 DEF LineConsts, tab
  <1>5. Began(NewLine) = Here
    BY DEF Began, NewLine, Here
  <1>6. IsTable(LineConsts)
    BY LineTable DEF GoodTable
  <1> HIDE DEF new
  <1>7. TabAt(LineConsts, NewLine) = LineConsts
    <2> DEFINE t == LineConsts
               h == Here
    <2>1. t[Dollar] \in Entry /\ t[Dollar].value = h /\ t = [n \in DOMAIN t |-> t[n]]
      BY <1>4, <1>6 DEF IsTable
    <2> HIDE DEF t, h
    <2>2. [t[Dollar] EXCEPT !.value = h] = t[Dollar]
      BY <2>1 DEF Entry
    <2>3. [t EXCEPT ![Dollar].value = h] = t
      BY <2>1, <2>2
    <2>4. QED
      BY <1>5, <2>3 DEF TabAt, t, h
  <1>8. QED
    BY <1>4, <1>5, <1>7

LEMMA LineScopes ==
  ASSUME TypeInv, pc = "line", at <= Len(prog)
  PROVE  /\ LabelScope = ScopeIn(at, NewLine)
         /\ Stmt.op # "equ" => LineScope = ScopeIn(at, NewLine)
         /\ Stmt.op \in {"%define", "%undef"} => ScopeIn(at, NewLine) = scope /\ LineName = NoScope
  <1>1. prog[at].op \in {"%define", "%undef"} => prog[at].label = NoSym
    BY LineTypes, ProgramsAssumption DEF ProgramsAssumption, TypeInv, PlaceInv
  <1>2. NoSym.kind = "none"
    BY DEF NoSym
  <1>3. QED
    BY <1>1, <1>2 DEF ScopeIn, NewLine, LabelScope, LineScope, HasLabel, Stmt, LineName, Anchors

LEMMA TextOnly ==
  ASSUME NEW f \in [Sections -> Int], f["DATA"] = 0, f["BSS"] = 0, NEW v
  PROVE  [f EXCEPT !["TEXT"] = v] = [TEXT |-> v, DATA |-> 0, BSS |-> 0]
  <1> DEFINE a == [f EXCEPT !["TEXT"] = v]
             b == [TEXT |-> v, DATA |-> 0, BSS |-> 0]
  <1>1. DOMAIN f = {"TEXT", "DATA", "BSS"}
    BY DEF Sections
  <1>2. DOMAIN a = {"TEXT", "DATA", "BSS"} /\ a = [s \in DOMAIN a |-> a[s]]
    BY <1>1
  <1>3. DOMAIN b = {"TEXT", "DATA", "BSS"} /\ b = [s \in DOMAIN b |-> b[s]]
    OBVIOUS
  <1>4. a["TEXT"] = b["TEXT"] /\ a["DATA"] = b["DATA"] /\ a["BSS"] = b["BSS"]
    BY <1>1
  <1> HIDE DEF a, b
  <1>5. QED
    <2>1. a = b
      BY <1>2, <1>3, <1>4
    <2>2. QED
      BY <2>1 DEF a, b

(* A line goes on to its chunks, to the next line or out of the loop.      *)
Onward ==
  \/ /\ Emits /\ UNCHANGED <<ptr, section>> /\ scope' = ScopeIn(at, NewLine)
     /\ todo' = ChunksIn(at, section) /\ consts' = LineConsts /\ Stmt.op \in {"db", "dw", "dd", "instr"}
  \/ /\ Moves1 /\ ChunksIn(at, section) = <<>>
     /\ section' = NextSection(at, NewLine) /\ scope' = NextScope(at, NewLine)
     /\ ptr' = PtrPast(consts', at, NewLine)
  \/ Halts /\ at' = at + 1 /\ ChunksIn(at, section) = <<>>
LEMMA LineGoes ==
  ASSUME TypeInv, Steady(prog), LineStep, at <= Len(prog), Joins(consts, trace[pass], at, NewLine)
  PROVE  /\ pc = "line" /\ UNCHANGED <<prog, pass, target, isOrgDef>>
         /\ trace' = [trace EXCEPT ![pass] = Append(trace[pass], NewLine)]
         /\ (OrgStays => org' = org) /\ Onward
  <1>1. pc = "line" /\ UNCHANGED <<prog, pass, target, isOrgDef>> /\ at \in DOMAIN prog /\ (Moves1 \/ Emits \/ Halts)
    <2>1. at \in Nat
      BY DEF TypeInv, PlaceInv
    <2>2. pc = "line" /\ at \in DOMAIN prog
      BY <2>1, LineWays, LineTypes DEF TypeInv, PlaceInv
    <2>3. ~(at > Len(prog))
      BY <2>2, ProgramsAssumption DEF ProgramsAssumption, TypeInv, PlaceInv
    <2>4. QED
      BY <2>2, <2>3, LineWays
  <1>x. ~Exhausted
    <2>1. at \in Nat /\ Len(prog) \in Nat
      BY ProgramsAssumption DEF ProgramsAssumption, TypeInv, PlaceInv
    <2>2. QED
      BY <2>1 DEF Exhausted
  <1>2. trace' = [trace EXCEPT ![pass] = Append(trace[pass], NewLine)]
    <2>1. (\E chunks, said : Starts(chunks, said)) \/ Done \/ Directive
      <3>1. CASE List \/ Instr \/ NoRow \/ OutsideText
        BY <3>1 DEF List, Instr, NoRow, OutsideText
      <3>2. CASE Define \/ Undef
        BY <3>2 DEF Define, Undef
      <3>3. CASE LabelAlone \/ Reserve \/ SectionDirective \/ Export \/ Import \/ OrgDirective
                 \/ OrgRefused \/ End \/ Equ \/ SyntaxError
        BY <3>3 DEF LabelAlone, Reserve, SectionDirective, Export, Import, OrgDirective, OrgRefused,
                    End, Equ, SyntaxError
      <3>4. QED
        BY <1>x, <3>1, <3>2, <3>3 DEF LineStep
    <2>2. Traced
      BY <2>1 DEF Starts, Done, Directive
    <2>3. QED
      BY <2>2 DEF Traced, NewLine
  <1> DEFINE t == NewLine
  <1>3. /\ t.section = section /\ t.scope = scope /\ t.ptrs[Len(t.ptrs)] = ptr /\ t.ptrs[1] = ptr
        /\ prog[at] = Stmt /\ Stmt \in Statement
    <2>1. Len(<<ptr>>) = 1 /\ <<ptr>>[1] = ptr
      OBVIOUS
    <2>2. QED
      BY <1>1, <2>1, LineTypes DEF NewLine, Stmt, TypeInv, PlaceInv
  <1>4. /\ LabelScope = ScopeIn(at, t) /\ (Stmt.op # "equ" => LineScope = ScopeIn(at, t))
        /\ Stmt.op \in {"%define", "%undef"} => ScopeIn(at, t) = scope
    BY <1>1, LineScopes
  <1> HIDE DEF t
  <1>5. Stmt.op \notin {"section", "res", "org", "instr", "db", "dw", "dd"}
          => /\ ChunksIn(at, section) = <<>> /\ NextSection(at, t) = section /\ NextScope(at, t) = ScopeIn(at, t)
             /\ \A tab : PtrPast(tab, at, t) = ptr
    BY <1>3 DEF ChunksIn, NextSection, NextScope, PtrPast
  <1>6. Stops(at) => ChunksIn(at, section) = <<>>
    BY DEF Stops, ChunksIn
  <1>o. CASE OrgDirective
    <2>1. /\ Stmt.op = "org" /\ ~isOrgDef /\ pc' = "line" /\ UNCHANGED section /\ scope' = LineScope
          /\ ptr' = [ptr EXCEPT !["TEXT"] = Value(LineConsts, LineScope, Stmt.e) % Word]
          /\ consts' = [LineConsts EXCEPT ![Origin].value = Value(LineConsts, LineScope, Stmt.e) % Word]
      BY <1>o DEF OrgDirective, OnLine, Done
    <2>2. Moves1 /\ ChunksIn(at, section) = <<>> /\ NextSection(at, t) = section /\ NextScope(at, t) = scope'
      BY <1>1, <1>3, <1>4, <2>1 DEF ChunksIn, NextSection, NextScope, Moves1, Emits, Halts
    <2>3. at = 1 /\ Numeral(Stmt.e) /\ Stmt.e \in Expr
      BY <1>1, <1>3, <2>1, SteadyLine DEF TypeInv, PlaceInv
    <2>4. ptr["DATA"] = 0 /\ ptr["BSS"] = 0 /\ ptr \in [Sections -> Int]
      BY <1>3, <2>3 DEF Joins, Opens, t, TypeInv, LayoutInv
    <2>5. Value(TabAt(consts', t), ScopeIn(at, t), Stmt.e) = Value(LineConsts, LineScope, Stmt.e)
      <3>1. IsTable(LineConsts) /\ Dollar \in DOMAIN LineConsts
        BY <1>1, LineTable, LineDollar DEF GoodTable
      <3>2. IsTable(consts')
        BY LinesTable DEF TableInv
      <3>3. DOMAIN consts' = DOMAIN LineConsts
        BY <2>1
      <3>4. t \in TraceLine /\ t.ptrs # <<>>
        <4>1. LineName \in Name /\ scope \in Name /\ section \in Sections
          BY <1>1, LineTable DEF TypeInv, LayoutInv, TableInv
        <4>2. <<ptr>> \in Seq([Sections -> Int]) /\ <<ptr>> # <<>> /\ (Stmt.op = "equ") \in BOOLEAN
          BY <2>4
        <4> HIDE DEF LineName, Stmt
        <4>3. QED
          BY <4>1, <4>2 DEF t, NewLine, TraceLine
      <3>5. IsTable(TabAt(consts', t))
        BY <3>1, <3>2, <3>3, <3>4, TabAtType
      <3>6. LineScope = ScopeIn(at, t)
        BY <1>4, <2>1
      <3>7. QED
        BY <2>3, <3>1, <3>5, <3>6, NumeralAlike
    <2>6. PtrPast(consts', at, t)
            = [TEXT |-> Value(LineConsts, LineScope, Stmt.e) % Word, DATA |-> 0, BSS |-> 0]
      BY <1>3, <2>1, <2>5 DEF PtrPast
    <2>7. ptr' = PtrPast(consts', at, t)
      <3> DEFINE v == Value(LineConsts, LineScope, Stmt.e) % Word
      <3>1. ptr' = [ptr EXCEPT !["TEXT"] = v] /\ PtrPast(consts', at, t) = [TEXT |-> v, DATA |-> 0, BSS |-> 0]
        BY <2>1, <2>6
      <3> HIDE DEF v
      <3>2. [ptr EXCEPT !["TEXT"] = v] = [TEXT |-> v, DATA |-> 0, BSS |-> 0]
        BY <2>4, TextOnly
      <3>3. QED
        BY <3>1, <3>2
    <2>8. ~OrgStays
      BY <1>1, <1>3, <2>1 DEF OrgStays
    <2>9. QED
      BY <1>1, <1>2, <2>1, <2>2, <2>7, <2>8 DEF Onward, t
  <1>r. CASE Reserve
    <2> DEFINE v == Value(LineConsts, LineScope, Stmt.e)
    <2>1. /\ Stmt.op = "res" /\ pc' = "line" /\ UNCHANGED <<section, org>> /\ scope' = LineScope
          /\ consts' = LineConsts /\ ptr' = Bump("BSS", Stmt.n * v)
      BY <1>r DEF Reserve, OnLine, Done
    <2>2. Moves1 /\ ChunksIn(at, section) = <<>> /\ NextSection(at, t) = section /\ NextScope(at, t) = scope'
      BY <1>1, <1>3, <1>4, <2>1 DEF ChunksIn, NextSection, NextScope, Moves1, Emits, Halts
    <2>3. Value(TabAt(consts', t), ScopeIn(at, t), Stmt.e) = v
      BY <1>1, <1>4, <2>1, LineDollar DEF t
    <2> HIDE DEF v
    <2>4. ptr' = [ptr EXCEPT !["BSS"] = @ + Stmt.n * v]
      BY <2>1 DEF Bump, Past
    <2>5. PtrPast(consts', at, t) = [ptr EXCEPT !["BSS"] = @ + Stmt.n * v]
      BY <1>3, <2>1, <2>3 DEF PtrPast
    <2>6. QED
      BY <1>1, <1>2, <2>1, <2>2, <2>4, <2>5 DEF Onward, t
  <1>s. CASE SectionDirective
    <2>1. /\ Stmt.op = "section" /\ pc' = "line" /\ UNCHANGED <<ptr, org>> /\ scope' = NoScope
          /\ section' = IF SectionNamed(Stmt.names[1].name) = "unknown" THEN section
                        ELSE SectionNamed(Stmt.names[1].name)
      BY <1>s DEF SectionDirective, OnLine, Done
    <2>2. /\ Moves1 /\ ChunksIn(at, section) = <<>> /\ NextSection(at, t) = section'
          /\ NextScope(at, t) = scope' /\ PtrPast(consts', at, t) = ptr'
      BY <1>1, <1>3, <2>1 DEF ChunksIn, NextSection, NextScope, PtrPast, Moves1, Emits, Halts
    <2>3. QED
      BY <1>1, <1>2, <2>1, <2>2 DEF Onward, t
  <1>f. CASE OrgRefused
    <2>1. Stmt.op = "org" /\ isOrgDef /\ pc' = "line" /\ UNCHANGED <<ptr, section, org>> /\ scope' = LineScope
      BY <1>f DEF OrgRefused, OnLine, Done, layout
    <2>2. /\ Moves1 /\ ChunksIn(at, section) = <<>> /\ NextSection(at, t) = section'
          /\ NextScope(at, t) = scope' /\ PtrPast(consts', at, t) = ptr'
      BY <1>1, <1>3, <1>4, <2>1 DEF ChunksIn, NextSection, NextScope, PtrPast, Moves1, Emits, Halts
    <2>3. QED
      BY <1>1, <1>2, <2>1, <2>2 DEF Onward, t
  <1>p. CASE LabelAlone \/ Export \/ Import \/ Equ \/ Define \/ Undef
    <2>1. /\ Stmt.op \notin {"section", "res", "org", "instr", "db", "dw", "dd", "end"}
          /\ pc' = "line" /\ UNCHANGED <<ptr, section, org>>
          /\ \/ Stmt.op # "equ" /\ scope' = LineScope
             \/ scope' = LabelScope
             \/ Stmt.op \in {"%define", "%undef"} /\ scope' = scope
      BY <1>p DEF LabelAlone, Export, Import, Equ, Define, Undef, Directive, OnLine, Done, layout
    <2>2. scope' = ScopeIn(at, t)
      BY <1>4, <2>1
    <2>3. Moves1
      BY <1>1, <2>1 DEF Emits, Halts
    <2>4. QED
      BY <1>1, <1>2, <1>5, <2>1, <2>2, <2>3 DEF Onward, t
  <1>h. CASE End \/ SyntaxError
    <2>1. pc' = "end" /\ at' = at + 1 /\ UNCHANGED org
      BY <1>h DEF End, SyntaxError, Done
    <2>2. Halts
      BY <1>1, <2>1 DEF Moves1, Emits
    <2>3. QED
      BY <1>1, <1>2, <1>6, <2>1, <2>2 DEF Onward, Halts
  <1>e. CASE List \/ Instr \/ NoRow \/ OutsideText
    <2>1. PICK chunks, said : Starts(chunks, said) /\ chunks = ChunksIn(at, section)
                                   /\ Stmt.op \in {"db", "dw", "dd", "instr"}
      <3>1. CASE List
        <4>1. Stmt.op \in {"db", "dw", "dd"} /\ Starts(Items(Stmt), {})
          BY <1>e, <3>1 DEF List, OnLine
        <4>2. QED
          BY <1>3, <4>1 DEF ChunksIn
      <3>2. CASE Instr
        <4>1. PICK row \in Taken(Stmt.ins) : Starts(Lead(Stmt) \o RowChunks(row, Stmt.ins.params), {})
          BY <3>2 DEF Instr
        <4>2. \A x, y \in Taken(Stmt.ins) : x = y
          BY DEF Taken
        <4>3. TakenRow(Stmt.ins) = row /\ Taken(Stmt.ins) # {}
          BY <4>1, <4>2 DEF TakenRow
        <4>4. Stmt.op = "instr" /\ Lex # "NONE" /\ section = "TEXT"
          BY <3>2 DEF Instr, OnLine
        <4>5. QED
          BY <1>3, <4>1, <4>3, <4>4 DEF ChunksIn, Stops, Lex
      <3>3. CASE NoRow
        <4>1. Stmt.op = "instr" /\ Lex # "NONE" /\ Taken(Stmt.ins) = {} /\ Starts(Lead(Stmt), {"syntax"})
          BY <3>3 DEF NoRow, OnLine
        <4>2. QED
          BY <1>3, <4>1 DEF ChunksIn, Stops, Lex
      <3>4. CASE OutsideText
        <4>1. Stmt.op = "instr" /\ Lex # "NONE" /\ section # "TEXT" /\ Starts(Lead(Stmt), {"outside"})
          BY <3>4 DEF OutsideText, OnLine
        <4>2. QED
          BY <1>3, <4>1 DEF ChunksIn, Stops, Lex
      <3>5. QED
        BY <1>e, <3>1, <3>2, <3>3, <3>4
    <2>2. /\ todo' = ChunksIn(at, section) /\ consts' = LineConsts /\ scope' = LineScope /\ pc' = "emit"
          /\ UNCHANGED <<ptr, section, org>>
      BY <2>1 DEF Starts, layout
    <2>3. Emits
      BY <1>1, <2>2 DEF Moves1, Halts
    <2>4. QED
      BY <1>1, <1>2, <1>4, <2>1, <2>2, <2>3 DEF Onward, t
  <1>q. QED
    BY <1>o, <1>r, <1>s, <1>f, <1>p, <1>h, <1>e, <1>x DEF LineStep

(* A chunk is emitted, or the line is done.                                *)
LEMMA EmitGoes ==
  ASSUME EmitStep
  PROVE  /\ pc = "emit" /\ UNCHANGED <<prog, pass, target, isOrgDef, consts, scope, section, org>>
         /\ errors \subseteq errors' /\ warnings \subseteq warnings'
         /\ \/ /\ pc' = "line" /\ at' = at + 1 /\ todo = <<>> /\ UNCHANGED <<ptr, trace>>
            \/ /\ pc' = "emit" /\ at' = at /\ todo # <<>> /\ todo' = Tail(todo) /\ TracedOn
               /\ ptr' = Past(ptr, section, ChunkLength(consts, scope, Head(todo)))
  <1>1. pc = "emit" /\ UNCHANGED <<prog, pass, target, isOrgDef, consts, scope, org>>
    BY EmitWays
  <1>2. errors \subseteq errors' /\ warnings \subseteq warnings' /\ section' = section
    <2>1. ASSUME NEW said, Report(said) PROVE errors \subseteq errors' /\ warnings \subseteq warnings'
      BY <2>1 DEF Report
    <2>2. CASE LineEmitted \/ EmitBytes
      BY <2>2 DEF LineEmitted, EmitBytes, verdict, layout
    <2>3. CASE EmitSeg
      BY <2>3 DEF EmitSeg, verdict, Put
    <2>4. CASE EmitByte \/ RejectSeg \/ EmitWord \/ EmitLong \/ EmitRel8 \/ ShortToImport
      \/ EmitRel16 \/ NearToImport \/ FarRejected \/ EmitFar \/ EmitAddress \/ EmitBased
      <3>1. (\E said : Report(said)) /\ \E kind, ofs, width, v, size : Put(kind, ofs, width, v, size)
        BY <2>4 DEF EmitByte, RejectSeg, EmitWord, EmitLong, EmitRel8,
          ShortToImport, EmitRel16, NearToImport, FarRejected, EmitFar, EmitAddress, EmitBased
      <3>2. QED
        BY <2>1, <3>1 DEF Put
    <2>5. QED
      BY <2>2, <2>3, <2>4 DEF EmitStep
  <1> DEFINE Emitted(n) == /\ pc' = "emit" /\ at' = at /\ todo # <<>> /\ todo' = Tail(todo) /\ TracedOn
                           /\ ptr' = Past(ptr, section, n)
             m == ChunkLength(consts, scope, Head(todo))
  <1>3. ASSUME NEW kind, NEW ofs, NEW width, NEW v, NEW size, Put(kind, ofs, width, v, size), todo # <<>>
        PROVE  Emitted(size)
    BY <1>1, <1>3 DEF Put, Bump
  <1>4. CASE LineEmitted
    BY <1>1, <1>2, <1>4 DEF LineEmitted, layout
  <1>5. CASE EmitBytes
    <2>1. m = Next1.n
      BY <1>5 DEF EmitBytes, Emitting, Next1, ChunkLength
    <2>2. Emitted(Next1.n)
      BY <1>1, <1>5 DEF EmitBytes, Emitting, Bump
    <2>3. QED
      BY <1>1, <1>2, <2>1, <2>2
  <1>6. CASE EmitByte \/ EmitRel8 \/ ShortToImport
    <2>1. m = 1 /\ todo # <<>>
      BY <1>6 DEF EmitByte, EmitRel8, ShortToImport, Emitting, Next1, ChunkLength
    <2>2. \E kind, ofs, width, v : Put(kind, ofs, width, v, 1)
      BY <1>6 DEF EmitByte, EmitRel8, ShortToImport
    <2>3. Emitted(1)
      BY <1>3, <2>1, <2>2
    <2>4. QED
      BY <1>1, <1>2, <2>1, <2>3
  <1>7. CASE RejectSeg \/ EmitSeg \/ EmitWord \/ EmitRel16 \/ NearToImport
    <2>1. m = 2 /\ todo # <<>>
      BY <1>7 DEF RejectSeg, EmitSeg, EmitWord, EmitRel16, NearToImport, Emitting, Next1, ChunkLength
    <2>2. \E kind, ofs, width, v : Put(kind, ofs, width, v, 2)
      BY <1>7 DEF RejectSeg, EmitSeg, EmitWord, EmitRel16, NearToImport
    <2>3. Emitted(2)
      BY <1>3, <2>1, <2>2
    <2>4. QED
      BY <1>1, <1>2, <2>1, <2>3
  <1>8. CASE EmitAddress
    <2>1. m = 3 /\ todo # <<>>
      BY <1>8 DEF EmitAddress, Emitting, Next1, ChunkLength
    <2>2. \E kind, ofs, width, v : Put(kind, ofs, width, v, 3)
      BY <1>8 DEF EmitAddress
    <2>3. Emitted(3)
      BY <1>3, <2>1, <2>2
    <2>4. QED
      BY <1>1, <1>2, <2>1, <2>3
  <1>9. CASE EmitLong \/ FarRejected \/ EmitFar
    <2>1. m = 4 /\ todo # <<>>
      BY <1>9 DEF EmitLong, FarRejected, EmitFar, Emitting, Next1, ChunkLength
    <2>2. \E kind, ofs, width, v : Put(kind, ofs, width, v, 4)
      BY <1>9 DEF EmitLong, FarRejected, EmitFar
    <2>3. Emitted(4)
      BY <1>3, <2>1, <2>2
    <2>4. QED
      BY <1>1, <1>2, <2>1, <2>3
  <1>10. CASE EmitBased
    <2>1. /\ todo # <<>> /\ m = 1 + (IF Lookup < 128 THEN 1 ELSE 2)
      BY <1>10 DEF EmitBased, Emitting, Next1, ChunkLength, Lookup
    <2> DEFINE size == IF Lookup < 128 THEN 1 ELSE 2
    <2>2. Put("based", Here + 1, size, Cut(Lookup, size), 1 + size)
      BY <1>10 DEF EmitBased
    <2> HIDE DEF size
    <2>3. Emitted(1 + size)
      BY <1>3, <2>1, <2>2
    <2>4. QED
      BY <1>1, <1>2, <2>1, <2>3 DEF size
  <1>11. QED
    BY <1>4, <1>5, <1>6, <1>7, <1>8, <1>9, <1>10 DEF EmitStep
-----------------------------------------------------------------------------
(* What a line does to the table: it defines its label, moves $, and       *)
(* leaves what the other lines define.                                     *)
Stays(t1, t2, n) ==
  n \in DOMAIN t1 => n \in DOMAIN t2 /\ t2[n].type = t1[n].type /\ t2[n].value = t1[n].value

LEMMA LineDefines ==
  ASSUME TypeInv, pc = "line", at <= Len(prog)
  PROVE  /\ \A n \in DOMAIN consts \ {Dollar, LineName} : n \in DOMAIN LineConsts /\ LineConsts[n] = consts[n]
         /\ ~HasLabel => \A n \in DOMAIN consts \ {Dollar} : n \in DOMAIN LineConsts /\ LineConsts[n] = consts[n]
         /\ HasLabel => /\ LineName \in DOMAIN LineConsts /\ LineConsts[LineName].type = LabelType(section)
                        /\ LineConsts[LineName].value = Here
  <1> DEFINE tab == [consts EXCEPT ![Dollar].value = Here]
             add == AddConst(tab, LineName, LabelType(section), Here)
             new == SetSection(add, LineName, section)
  <1>1. \A n \in DOMAIN consts \ {Dollar} : n \in DOMAIN tab /\ tab[n] = consts[n]
    OBVIOUS
  <1>2. IsTable(tab) /\ IsTable(consts) /\ LineName \in Name /\ section \in Sections /\ Here \in Int
    <2>1. Dollar \in DOMAIN consts /\ consts[Dollar] \in Entry /\ IsTable(consts) /\ Here \in Int /\ section \in Sections
      BY DEF TypeInv, TableInv, IsTable, LayoutInv, Here
    <2>2. [consts[Dollar] EXCEPT !.value = Here] \in Entry
      BY <2>1 DEF Entry
    <2>3. IsTable(tab)
      <3> DEFINE h == Here
      <3>1. [consts[Dollar] EXCEPT !.value = h] \in Entry /\ tab = [consts EXCEPT ![Dollar].value = h]
        BY <2>2
      <3> HIDE DEF h
      <3>2. QED
        BY <2>1, <3>1 DEF IsTable
    <2>4. QED
      BY <2>1, <2>3, LineTable
  <1>3. LineConsts = IF HasLabel THEN new ELSE tab
    BY DEF LineConsts
  <1> HIDE DEF tab
  <1>4. /\ DOMAIN new = DOMAIN tab \cup {LineName} /\ \A n \in DOMAIN tab \ {LineName} : new[n] = tab[n]
        /\ new[LineName].type = LabelType(section) /\ new[LineName].value = Here
    <2> DEFINE name == LineName
               type == LabelType(section)
               h == Here
               base == IF name \in DOMAIN tab THEN tab[name] ELSE Fresh
    <2>1. base \in Entry
      BY <1>2, FreshType DEF IsTable
    <2>2. add = [n \in DOMAIN tab \cup {name} |->
                   IF n # name THEN tab[n] ELSE [base EXCEPT !.type = type, !.value = h]]
      BY DEF AddConst
    <2>3. new = [add EXCEPT ![name].section = section]
      BY DEF SetSection
    <2> HIDE DEF name, type, h, base, add, new
    <2>4. add[name].type = type /\ add[name].value = h /\ add[name] = [base EXCEPT !.type = type, !.value = h]
      BY <2>1, <2>2 DEF Entry
    <2>5. new[name].type = type /\ new[name].value = h
      <3>1. new[name] = [add[name] EXCEPT !.section = section]
        BY <2>2, <2>3
      <3>2. QED
        BY <2>1, <2>4, <3>1 DEF Entry
    <2>6. DOMAIN new = DOMAIN tab \cup {name} /\ \A n \in DOMAIN tab \ {name} : new[n] = tab[n]
      BY <2>2, <2>3
    <2>7. QED
      BY <2>5, <2>6 DEF name, type, h
  <1> HIDE DEF new
  <1>5. QED
    BY <1>1, <1>3, <1>4

LEMMA LineLeaves ==
  ASSUME TypeInv, LineStep, ~Undef, at <= Len(prog)
  PROVE  /\ \A n : (n # Origin \/ ~OrgDirective) /\ Stmt.op \notin {"equ", "%define"} => Stays(LineConsts, consts', n)
         /\ \A n : Stmt.op = "equ" /\ n # LineName => Stays(LineConsts, consts', n)
         /\ Stmt.op = "%define" =>
              \A n : n # Spelled(Stmt.names[1]) => Stays(consts, consts', n)
         /\ Stmt.op = "equ" =>
              /\ LineName \in DOMAIN consts' /\ consts'[LineName].type = "EXPR"
              /\ pass > 0 /\ LineName \in DOMAIN LineConsts /\ "changed" \notin warnings' =>
                   consts'[LineName].value = LineConsts[LineName].value
  <1>p. at \in DOMAIN prog /\ pc = "line"
    <2>1. pc = "line"
      BY LineWays
    <2>2. QED
      BY <2>1, LineTypes DEF TypeInv, PlaceInv
  <1>t. IsTable(LineConsts) /\ LineName \in Name
    BY <1>p, LineTable DEF GoodTable
  <1>x. ~Exhausted
    <2>1. at \in Nat /\ Len(prog) \in Nat
      BY ProgramsAssumption DEF ProgramsAssumption, TypeInv, PlaceInv
    <2>2. QED
      BY <2>1 DEF Exhausted
  <1>1. CASE LabelAlone \/ List \/ Instr \/ NoRow \/ OutsideText \/ Reserve \/ SectionDirective \/ OrgRefused
             \/ End \/ SyntaxError
    <2>1. consts' = LineConsts /\ Stmt.op \notin {"equ", "%define"}
      BY <1>1 DEF LabelAlone, List, Instr, NoRow, OutsideText, Reserve, SectionDirective, OrgRefused, End,
                  SyntaxError, Starts, OnLine
    <2>2. QED
      BY <2>1 DEF Stays
  <1>2. CASE Export
    <2> DEFINE name == [inv |-> 0, path |-> <<Stmt.names[1].name>>]
    <2>1. /\ Stmt.op = "export"
          /\ consts' = LineConsts \/ (name \in DOMAIN LineConsts /\ consts' = [LineConsts EXCEPT ![name].export = TRUE])
      BY <1>2 DEF Export, OnLine
    <2> HIDE DEF name
    <2> DEFINE t == LineConsts
    <2>2. name \in DOMAIN t => t[name] \in Entry
      BY <1>t DEF IsTable
    <2> HIDE DEF t
    <2>3. name \in DOMAIN t =>
            /\ [t EXCEPT ![name].export = TRUE][name].type = t[name].type
            /\ [t EXCEPT ![name].export = TRUE][name].value = t[name].value
      BY <2>2 DEF Entry
    <2>4. name \in DOMAIN t => \A n : Stays(t, [t EXCEPT ![name].export = TRUE], n)
      BY <2>3 DEF Stays
    <2>5. \A n : Stays(t, consts', n)
      <3>1. \A n : Stays(t, t, n)
        BY DEF Stays
      <3>2. QED
        BY <2>1, <2>4, <3>1 DEF t
    <2>6. QED
      BY <2>1, <2>5 DEF t
  <1>3. CASE Import
    <2>1. Stmt.op = "import"
      BY <1>3 DEF Import, OnLine
    <2>2. \A n : Stays(LineConsts, consts', n)
      <3>1. CASE target # "rdf"
        <4>1. consts' = LineConsts
          BY <1>3, <3>1, ImportEffect
        <4>2. QED
          BY <4>1 DEF Stays
      <3>2. CASE target = "rdf"
        <4>1. PICK to \in ImportStates : Adds(LineState, to) /\ consts' = to.tab
          BY <1>3, <3>2, ImportEffect
        <4>2. LineState.tab = LineConsts
          BY DEF LineState
        <4> HIDE DEF LineState, LineConsts
        <4>3. QED
          BY <4>1, <4>2 DEF Adds, Stays
      <3>3. QED
        BY <3>1, <3>2
    <2>3. QED
      BY <2>1, <2>2
  <1>4. CASE OrgDirective
    <2>1. Stmt.op = "org" /\ \E v : consts' = [LineConsts EXCEPT ![Origin].value = v]
      BY <1>4 DEF OrgDirective, OnLine
    <2> DEFINE t == LineConsts
    <2>2. PICK v : consts' = [t EXCEPT ![Origin].value = v]
      BY <2>1
    <2> HIDE DEF t
    <2>3. \A n : n # Origin => Stays(t, consts', n)
      BY <2>2 DEF Stays
    <2>4. QED
      BY <1>4, <2>1, <2>3 DEF t
  <1>5. CASE Equ
    <2> DEFINE t == LineConsts
               v == Value(LineConsts, scope, Stmt.e)
               name == LineName
    <2>1. /\ Stmt.op = "equ" /\ consts' = AddConst(t, name, "EXPR", v)
          /\ ConstChanged(t, name, "EXPR", v, pass) => "changed" \in warnings'
      <3>1. Stmt.op = "equ" /\ consts' = AddConst(t, name, "EXPR", v)
        BY <1>5 DEF Equ, OnLine
      <3>2. ASSUME ConstChanged(t, name, "EXPR", v, pass) PROVE "changed" \in warnings'
        <4>1. PICK said : Report(said) /\ "changed" \in said
          BY <1>5, <3>2 DEF Equ
        <4>2. "changed" \in WarningKinds
          BY DEF WarningKinds
        <4>3. QED
          BY <4>1, <4>2 DEF Report
      <3>3. QED
        BY <3>1, <3>2
    <2>2. IsTable(t)
      BY <1>t
    <2> HIDE DEF t, v, name
    <2>3. name \in DOMAIN t => t[name] \in Entry
      BY <2>2 DEF IsTable
    <2> DEFINE base == IF name \in DOMAIN t THEN t[name] ELSE Fresh
    <2>4. base \in Entry
      BY <2>3, FreshType
    <2>5. consts' = [n \in DOMAIN t \cup {name} |->
                      IF n # name THEN t[n] ELSE [base EXCEPT !.type = "EXPR", !.value = v]]
      BY <2>1 DEF AddConst
    <2> HIDE DEF base
    <2>6. name \in DOMAIN consts' /\ consts'[name].type = "EXPR" /\ consts'[name].value = v
      BY <2>4, <2>5 DEF Entry
    <2>7. \A n : n # name => Stays(t, consts', n)
      BY <2>5 DEF Stays
    <2>8. pass > 0 /\ name \in DOMAIN t /\ "changed" \notin warnings' => consts'[name].value = t[name].value
      BY <2>1, <2>6 DEF ConstChanged
    <2>9. QED
      BY <2>1, <2>6, <2>7, <2>8 DEF t, name
  <1>6. CASE Define
    <2> DEFINE name == [inv |-> 0, path |-> <<Stmt.names[1].name>>]
               body == DefineBody(Stmt.names[2])
    <2>1. /\ Stmt.op = "%define"
          /\ consts' = consts \/ consts' = SetExtra(AddConst(consts, name, "DEFINE", 0), name, body)
      BY <1>6 DEF Define, OnLine
    <2>2. name = Spelled(Stmt.names[1])
      BY DEF Spelled
    <2> HIDE DEF name, body
    <2>3. \A n : n # name => Stays(consts, consts', n)
      BY <2>1 DEF Stays, SetExtra, AddConst
    <2>4. QED
      BY <2>1, <2>2, <2>3
  <1>7. QED
    BY <1>x, <1>1, <1>2, <1>3, <1>4, <1>5, <1>6 DEF LineStep

(* What the table has of line t, which is line i.                          *)
EntryOf(tab, i, t) ==
  prog[i].label.kind # "none" =>
    /\ t.name \in DOMAIN tab
    /\ tab[t.name].type = IF t.equ THEN "EXPR" ELSE LabelType(t.section)
    /\ t.equ \/ tab[t.name].value = Began(t)

LEMMA NamesApart ==
  ASSUME prog \in Programs
  PROVE  /\ DOMAIN NamesOf(prog) = DOMAIN prog
         /\ \A i \in DOMAIN prog : prog[i].label.kind # "none" => NamesOf(prog)[i] \notin {Dollar, Origin, NoScope}
  <1>1. prog \in Seq(Statement)
    BY ProgramsAssumption DEF ProgramsAssumption
  <1>2. PICK g \in [0..Len(prog) -> Name] :
           /\ DOMAIN NamesOf(prog) = DOMAIN prog
           /\ \A i \in DOMAIN prog : prog[i].label.kind # "none" => NamesOf(prog)[i] = QName(prog[i].label, g[i - 1])
    BY <1>1, NamesAre
  <1>3. ASSUME NEW i \in DOMAIN prog, prog[i].label.kind # "none"
        PROVE  NamesOf(prog)[i] \notin {Dollar, Origin, NoScope}
    <2>1. g[i - 1] \in Name /\ prog[i].label \in Sym /\ prog[i].label.name \notin {"$", "$$"}
      <3>1. i - 1 \in 0..Len(prog) /\ prog[i] \in Statement
        BY <1>1
      <3>2. QED
        BY <1>2, <3>1, ProgramsAssumption DEF ProgramsAssumption, Statement
    <2>2. QED
      BY <1>2, <1>3, <2>1, QNameApart
  <1>4. QED
    BY <1>2, <1>3

LEMMA LineTables ==
  ASSUME TypeInv, Steady(prog), LineStep, at <= Len(prog), LineName = NamesOf(prog)[at]
  PROVE  /\ Dollar \in DOMAIN consts' /\ consts'[Dollar].type = consts[Dollar].type
         /\ EntryOf(consts', at, NewLine)
         /\ \A i \in DOMAIN prog \ {at} :
              prog[i].label.kind # "none" => Stays(consts, consts', NamesOf(prog)[i])
         /\ pass > 0 /\ "changed" \notin warnings' /\ Stmt.op = "equ" /\ Stmt.label.kind # "none"
              /\ LineName \in DOMAIN consts => consts'[LineName].value = consts[LineName].value
  <1> DEFINE names == NamesOf(prog)
  <1>1. pc = "line" /\ at \in DOMAIN prog /\ Stmt = prog[at] /\ prog \in Programs
    <2>1. pc = "line"
      BY LineWays
    <2>2. QED
      BY <2>1, LineTypes DEF TypeInv, PlaceInv, Stmt
  <1>2. /\ DOMAIN names = DOMAIN prog
        /\ \A i \in DOMAIN prog : prog[i].label.kind # "none" => names[i] \notin {Dollar, Origin, NoScope}
    BY <1>1, NamesApart
  <1>3. ~Undef /\ DistinctNames(prog)
    <2>1. Stmt.op # "%undef"
      BY <1>1, SteadyLine
    <2>2. QED
      BY <2>1 DEF Undef, OnLine, Steady
  <1>4. Stmt.op = "%define" =>
          /\ Spelled(Stmt.names[1]) # Dollar
          /\ \A i \in DOMAIN prog : prog[i].label.kind # "none" => names[i] # Spelled(Stmt.names[1])
    <2> SUFFICES ASSUME Stmt.op = "%define"
                 PROVE  /\ Spelled(Stmt.names[1]) # Dollar
                        /\ \A i \in DOMAIN prog : prog[i].label.kind # "none" => names[i] # Spelled(Stmt.names[1])
      OBVIOUS
    <2>1. /\ Stmt \in Statement /\ Len(Stmt.names) = 2
          /\ \A k \in DOMAIN Stmt.names : Stmt.names[k].name \notin {"$", "$$"}
      BY <1>1, LineTypes DEF TypeInv, PlaceInv
    <2>2. Stmt.names \in Seq(Sym)
      BY <2>1 DEF Statement
    <2>3. 1 \in DOMAIN Stmt.names /\ Stmt.names[1] \in Sym /\ Stmt.names[1].name \notin {"$", "$$"}
      BY <2>1, <2>2
    <2>4. Spelled(Stmt.names[1]) # Dollar
      BY <2>3, SymTypes DEF Spelled
    <2>5. Spelled(Stmt.names[1]) \in {Spelled(s) : s \in UNION {Range(prog[i].names) : i \in With(prog, "%define")}}
      <3>1. at \in With(prog, "%define") /\ Stmt.names[1] \in Range(prog[at].names)
        BY <1>1, <2>3 DEF With, Range
      <3>2. QED
        BY <3>1
    <2>6. Range(names) \cap {Spelled(s) : s \in UNION {Range(prog[i].names) : i \in With(prog, "%define")}}
            \subseteq {NoScope}
      BY <1>3 DEF DistinctNames
    <2>7. \A i \in DOMAIN prog : names[i] \in Range(names)
      BY <1>2 DEF Range
    <2> HIDE DEF names
    <2>8. QED
      BY <1>2, <2>4, <2>5, <2>6, <2>7
  <1>5. \A i \in DOMAIN prog \ {at} : prog[i].label.kind # "none" => names[i] # LineName
    <2>1. \A i, j \in DOMAIN names : names[i] = names[j] => i = j \/ names[i] = NoScope
      BY <1>3 DEF DistinctNames
    <2> HIDE DEF names
    <2>2. LineName = names[at]
      BY DEF names
    <2>3. QED
      BY <1>1, <1>2, <2>1, <2>2
  <1> HIDE DEF names
  <1>6. /\ Dollar \in DOMAIN LineConsts /\ LineConsts[Dollar].type = consts[Dollar].type /\ Dollar \in DOMAIN consts
        /\ Began(NewLine) = Here /\ Dollar # Origin
    <2>1. Dollar \in DOMAIN consts
      BY <1>1 DEF TypeInv, TableInv
    <2>2. Dollar # Origin
      <3>1. Dollar.path[1] = "$" /\ Origin.path[1] = "$$"
        BY DEF Dollar, Origin
      <3>2. QED
        BY <3>1
    <2>3. QED
      BY <1>1, <2>1, <2>2, LineDollar
  <1>7. Stmt.label.kind # "none" => LineName # Dollar /\ LineName # Origin
    BY <1>1, LineNameApart
  <1>8. Stmt.label.kind = "none" => LineName = NoScope /\ NoScope # Dollar
    <2>1. Len(NoScope.path) = 0 /\ Len(Dollar.path) = 1
      BY DEF NoScope, Dollar
    <2>2. NoScope # Dollar
      BY <2>1
    <2>3. QED
      BY <2>2 DEF LineName
  <1>9. Stmt.op = "%define" => Stmt.label.kind = "none"
    <2>1. Stmt.op = "%define" => Stmt.label = NoSym
      BY <1>1, ProgramsAssumption DEF ProgramsAssumption
    <2>2. QED
      BY <2>1, NoSymType
  <1>10. Dollar \in DOMAIN consts' /\ consts'[Dollar].type = consts[Dollar].type
    <2>1. CASE Stmt.op = "%define"
      BY <1>3, <1>4, <1>6, <2>1, LineLeaves DEF Stays
    <2>2. CASE Stmt.op = "equ"
      BY <1>3, <1>6, <1>7, <1>8, <2>2, LineLeaves DEF Stays
    <2>3. CASE Stmt.op \notin {"equ", "%define"}
      BY <1>3, <1>6, <2>3, LineLeaves DEF Stays
    <2>4. QED
      BY <2>1, <2>2, <2>3
  <1>11. ASSUME Stmt.label.kind # "none"
         PROVE  /\ LineName \in DOMAIN consts'
                /\ consts'[LineName].type = IF Stmt.op = "equ" THEN "EXPR" ELSE LabelType(section)
                /\ Stmt.op = "equ" \/ consts'[LineName].value = Here
    <2>1. CASE Stmt.op = "equ"
      BY <1>3, <2>1, LineLeaves
    <2>2. CASE Stmt.op # "equ"
      <3>1. Stays(LineConsts, consts', LineName)
        BY <1>3, <1>7, <1>9, <1>11, <2>2, LineLeaves
      <3>2. HasLabel
        BY <1>11, <2>2 DEF HasLabel
      <3>3. LineName \in DOMAIN LineConsts /\ LineConsts[LineName].type = LabelType(section)
            /\ LineConsts[LineName].value = Here
        BY <1>1, <3>2, LineDefines
      <3>4. QED
        BY <2>2, <3>1, <3>3 DEF Stays
    <2>3. QED
      BY <2>1, <2>2
  <1>12. EntryOf(consts', at, NewLine)
    <2>1. NewLine.name = LineName /\ NewLine.section = section /\ (NewLine.equ <=> Stmt.op = "equ")
      BY DEF NewLine
    <2>2. QED
      BY <1>1, <1>6, <1>11, <2>1 DEF EntryOf
  <1>13. ASSUME NEW i \in DOMAIN prog \ {at}, prog[i].label.kind # "none" PROVE Stays(consts, consts', names[i])
    <2> DEFINE n == names[i]
    <2>1. n # Dollar /\ n # Origin /\ n # LineName
      BY <1>2, <1>5, <1>13
    <2>2. n \in DOMAIN consts => n \in DOMAIN LineConsts /\ LineConsts[n] = consts[n]
      BY <1>1, <2>1, LineDefines
    <2>3. CASE Stmt.op = "%define"
      BY <1>3, <1>4, <1>13, <2>3, LineLeaves
    <2>4. CASE Stmt.op # "%define"
      <3>1. Stays(LineConsts, consts', n)
        BY <1>3, <2>1, <2>4, LineLeaves
      <3> HIDE DEF n
      <3>2. Stays(consts, consts', n)
        BY <2>2, <3>1 DEF Stays
      <3>3. QED
        BY <3>2 DEF n
    <2>5. QED
      BY <2>3, <2>4
  <1>14. ASSUME pass > 0, "changed" \notin warnings', Stmt.op = "equ", Stmt.label.kind # "none", LineName \in DOMAIN consts
         PROVE  consts'[LineName].value = consts[LineName].value
    <2>1. LineName \in DOMAIN LineConsts /\ LineConsts[LineName] = consts[LineName]
      BY <1>1, <1>7, <1>14, LineDefines DEF HasLabel
    <2>2. QED
      BY <1>3, <1>14, <2>1, LineLeaves
  <1>15. QED
    BY <1>10, <1>12, <1>13, <1>14 DEF names
-----------------------------------------------------------------------------
(* The invariant.  A pass is settled as long as nothing has been complained*)
(* of; pass 0 may complain of what pass 1 does not.                        *)
Settled == pass = 0 \/ (pass = 1 /\ pc = "main") \/ errors \cup warnings = {}
(* Where the next line begins.                                             *)
Now == [name |-> NoScope, scope |-> scope, section |-> section, ptrs |-> <<ptr>>, equ |-> FALSE]

(* A pass is over at the end of the source or at a line that ends it.      *)
RanOut(q) ==
  /\ Len(q) <= Len(prog) /\ Clear(Len(q))
  /\ Len(q) = Len(prog) \/ (Len(q) \in DOMAIN prog /\ Stops(Len(q)))
  /\ Len(q) > 0 => AllThere(Len(q), q[Len(q)])
PassesInv ==
  \A p \in 0..Passes-1 :
    /\ p > pass \/ (p = pass /\ pc \in {"args", "main"}) => trace[p] = <<>>
    /\ p < pass \/ (p = pass /\ pc = "end") => RanOut(trace[p])
EntriesOf(tab, q) == \A i \in DOMAIN q : EntryOf(tab, i, q[i])
ChainedInv == \A p \in 0..Passes-1 : Chain(consts, trace[p]) /\ EntriesOf(consts, trace[p])
LineInv == pc = "line" => Len(trace[pass]) = at - 1 /\ Joins(consts, trace[pass], at, Now)
Coming(i, t) ==
  /\ t.section = section /\ scope = ScopeIn(i, t) /\ ptr = t.ptrs[Len(t.ptrs)]
  /\ Len(t.ptrs) <= Len(ChunksIn(i, section)) + 1
  /\ todo = SubSeq(ChunksIn(i, section), Len(t.ptrs), Len(ChunksIn(i, section)))
  /\ prog[i].op \in {"db", "dw", "dd", "instr"}
ChunkInv ==
  pc = "emit" => /\ Len(trace[pass]) = at /\ Coming(at, trace[pass][at])
                 /\ consts[Dollar].value = Began(trace[pass][at])
DollarInv ==
  pc \notin {"args", "exit"} \/ pass > 0 => Dollar \in DOMAIN consts /\ consts[Dollar].type = "EXPR"
LaidInv ==
  /\ steady = Steady(prog)
  /\ steady /\ Settled => PassesInv /\ ChainedInv /\ LineInv /\ ChunkInv /\ DollarInv

(* A chain is one whatever else changes.                                   *)
LEMMA ChainStays ==
  ASSUME UNCHANGED <<prog, target, isOrgDef>>, OrgStays => org' = org, NEW tab, NEW q
  PROVE  /\ Chain(tab, q) => Chain(tab, q)'
         /\ EntriesOf(tab, q) => EntriesOf(tab, q)'
         /\ RanOut(q) => RanOut(q)'
         /\ \A i, t : Joins(tab, q, i, t) => Joins(tab, q, i, t)'
         /\ \A i, sec : ChunksIn(i, sec) = ChunksIn(i, sec)'
         /\ \A i, t : ScopeIn(i, t) = ScopeIn(i, t)'
  <1>1. \A i, sec : ChunksIn(i, sec) = ChunksIn(i, sec)'
    BY DEF ChunksIn, Stops
  <1>2. \A i, t, u : PtrPast(u, i, t) = PtrPast(u, i, t)'
    BY DEF PtrPast, ScopeIn, TabAt, Began
  <1>3. \A i, t : Opens(t) => Opens(t)'
    BY DEF Opens, OrgStays
  <1>4. \A i, t : AllThere(i, t) => AllThere(i, t)'
    BY <1>1 DEF AllThere
  <1>5. \A i, t, u : RunsOn(u, i, t) => RunsOn(u, i, t)'
    <2>1. \A i, t : ScopeIn(i, t) = ScopeIn(i, t)'
      BY DEF ScopeIn
    <2> DEFINE Step(u, t, sc, chunks) ==
                 /\ Len(t.ptrs) <= Len(chunks) + 1
                 /\ \A k \in 1..Len(t.ptrs)-1 :
                      t.ptrs[k + 1] = Past(t.ptrs[k], t.section, ChunkLength(TabAt(u, t), sc, chunks[k]))
    <2>2. \A i, t, u : RunsOn(u, i, t) <=> Step(u, t, ScopeIn(i, t), ChunksIn(i, t.section))
      BY DEF RunsOn
    <2>3. \A i, t, u : RunsOn(u, i, t)' <=> Step(u, t, ScopeIn(i, t)', ChunksIn(i, t.section)')
      BY DEF RunsOn
    <2> HIDE DEF Step
    <2>4. QED
      BY <1>1, <2>1, <2>2, <2>3
  <1>6. \A i, t, u, x : Follows(u, i, t, x) => Follows(u, i, t, x)'
    <2>1. \A i, t : NextSection(i, t) = NextSection(i, t)' /\ NextScope(i, t) = NextScope(i, t)'
      BY DEF NextSection, NextScope, ScopeIn
    <2>2. QED
      BY <1>2, <1>4, <2>1 DEF Follows
  <1>7. \A i, t : Labelled(i, t) => Labelled(i, t)'
    BY DEF Labelled
  <1>8. Chain(tab, q) => Chain(tab, q)'
    BY <1>3, <1>5, <1>6, <1>7 DEF Chain, Joins
  <1>9. EntriesOf(tab, q) => EntriesOf(tab, q)'
    BY DEF EntriesOf, EntryOf, Began
  <1>10. RanOut(q) => RanOut(q)'
    BY <1>4 DEF RanOut, Clear, Stops
  <1>11. \A i, t : Joins(tab, q, i, t) => Joins(tab, q, i, t)'
    BY <1>3, <1>6 DEF Joins
  <1>12. \A i, t : ScopeIn(i, t) = ScopeIn(i, t)'
    BY DEF ScopeIn
  <1>13. QED
    BY <1>1, <1>8, <1>9, <1>10, <1>11, <1>12

(* A chain grows by a line that joins it.                                  *)
LEMMA ChainGrows ==
  ASSUME prog \in Programs, Steady(prog), NEW tab, NEW q \in Seq(TraceLine), NEW i \in DOMAIN prog,
         Len(q) = i - 1, Chain(tab, q), NEW t \in TraceLine, Len(t.ptrs) = 1, Labelled(i, t), Joins(tab, q, i, t)
  PROVE  /\ Append(q, t) \in Seq(TraceLine) /\ Len(Append(q, t)) = i /\ Append(q, t)[i] = t
         /\ DOMAIN Append(q, t) = DOMAIN q \cup {i} /\ i \notin DOMAIN q /\ \A j \in DOMAIN q : Append(q, t)[j] = q[j]
         /\ Chain(tab, Append(q, t))
  <1> DEFINE c == Append(q, t)
  <1>1. i \in Nat /\ i > 0 /\ DOMAIN q = 1..i-1
    <2>1. prog \in Seq(Statement)
      BY ProgramsAssumption DEF ProgramsAssumption
    <2>2. QED
      BY <2>1
  <1>2. c \in Seq(TraceLine) /\ Len(c) = i /\ DOMAIN c = 1..i /\ c[i] = t /\ \A j \in 1..i-1 : c[j] = q[j]
    BY <1>1
  <1> HIDE DEF c
  <1>3. RunsOn(tab, i, t)
    <2>1. Len(ChunksIn(i, t.section)) \in Nat
      <3>1. ChunksIn(i, t.section) \in Seq(Chunk)
        BY SteadyChunks
      <3>2. QED
        BY <3>1
    <2>2. 1..(1-1) = {} /\ 1 <= Len(ChunksIn(i, t.section)) + 1
      BY <2>1
    <2>3. QED
      BY <2>2 DEF RunsOn
  <1>4. ASSUME NEW j \in DOMAIN c
        PROVE  /\ j \in DOMAIN prog /\ c[j].ptrs # <<>>
               /\ Labelled(j, c[j]) /\ Joins(tab, c, j, c[j]) /\ RunsOn(tab, j, c[j])
    <2>1. \A x : \A u \in DOMAIN c : Joins(tab, q, u, x) => Joins(tab, c, u, x)
      <3>1. \A u \in DOMAIN c : u # 1 => u - 1 \in 1..i-1
        BY <1>1, <1>2
      <3>2. QED
        BY <1>2, <3>1 DEF Joins
    <2>2. CASE j = i
      <3> DEFINE p == t.ptrs
      <3>1. Len(<<>>) = 0 /\ 1 # 0 /\ Len(p) = 1
        OBVIOUS
      <3> HIDE DEF p
      <3>2. p # <<>>
        BY <3>1, Zenon
      <3> USE DEF p
      <3>3. QED
        BY <1>2, <1>3, <2>1, <2>2, <3>2
    <2>3. CASE j # i
      <3>1. j \in DOMAIN q /\ c[j] = q[j]
        BY <1>1, <1>2, <2>3
      <3>2. QED
        BY <2>1, <3>1 DEF Chain
    <2>4. QED
      BY <2>2, <2>3
  <1>5. Chain(tab, c)
    BY <1>4 DEF Chain
  <1>6. i \notin DOMAIN q /\ DOMAIN c = DOMAIN q \cup {i}
    BY <1>1, <1>2
  <1>7. QED
    BY <1>1, <1>2, <1>5, <1>6 DEF c

(* The n-th chunk of line i, the last of q, takes it to x: the line is t.  *)
OneMore(tab, q, i, n, x, t) ==
  /\ prog \in Programs /\ q \in Seq(TraceLine) /\ i \in DOMAIN q /\ Len(q) = i /\ Chain(tab, q)
  /\ x \in [Sections -> Int] /\ n \in Nat /\ n = Len(q[i].ptrs) /\ n <= Len(ChunksIn(i, q[i].section))
  /\ x = Past(q[i].ptrs[n], q[i].section,
              ChunkLength(TabAt(tab, q[i]), ScopeIn(i, q[i]), ChunksIn(i, q[i].section)[n]))
  /\ t \in TraceLine /\ t = [q[i] EXCEPT !.ptrs = Append(q[i].ptrs, x)]
RunOn(tab, q, i, n, x, t) ==
  /\ Chain(tab, [q EXCEPT ![i] = t])
  /\ Len(t.ptrs) = n + 1 /\ t.ptrs[n + 1] = x /\ Began(t) = Began(q[i]) /\ t.section = q[i].section
  /\ t.scope = q[i].scope /\ t.name = q[i].name /\ t.equ = q[i].equ

(* A chain goes on by a chunk of its last line.                            *)
LEMMA ChainRunsOn ==
  ASSUME NEW tab, NEW q, NEW i, NEW n, NEW x, NEW t, OneMore(tab, q, i, n, x, t)
  PROVE  RunOn(tab, q, i, n, x, t)
  <1> USE DEF OneMore
  <1> DEFINE s == q[i]
             c == [q EXCEPT ![i] = t]
  <1>1. /\ i \in Nat /\ DOMAIN q = 1..i /\ DOMAIN c = 1..i /\ c[i] = t /\ \A j \in 1..i-1 : c[j] = q[j]
        /\ s \in TraceLine
    <2>1. ASSUME NEW S, NEW a \in Seq(S), NEW j \in DOMAIN a PROVE a[j] \in S /\ j \in Nat /\ DOMAIN a = 1..Len(a)
      BY <2>1
    <2>2. s \in TraceLine /\ i \in Nat /\ DOMAIN q = 1..i
      BY <2>1
    <2>3. QED
      BY <2>2
  <1>2. /\ i \in DOMAIN prog /\ s.ptrs # <<>> /\ Labelled(i, s) /\ Joins(tab, q, i, s) /\ RunsOn(tab, i, s)
    BY DEF Chain
  <1> HIDE DEF c
  <1>3. /\ t.section = s.section /\ t.scope = s.scope /\ t.name = s.name /\ t.equ = s.equ
        /\ t.ptrs = Append(s.ptrs, x)
    BY <1>1 DEF TraceLine
  <1>4. n > 0 /\ Len(t.ptrs) = n + 1 /\ t.ptrs[n + 1] = x /\ \A k \in 1..n : t.ptrs[k] = s.ptrs[k]
    <2>1. s.ptrs \in Seq([Sections -> Int])
      BY <1>1 DEF TraceLine
    <2>2. ASSUME NEW S, NEW a \in Seq(S), a # <<>>, NEW y
          PROVE  /\ Len(a) > 0 /\ Len(Append(a, y)) = Len(a) + 1 /\ Append(a, y)[Len(a) + 1] = y
                 /\ \A k \in 1..Len(a) : Append(a, y)[k] = a[k]
      BY <2>2
    <2>3. QED
      BY <1>2, <1>3, <2>1, <2>2
  <1> HIDE DEF s
  <1>5. t.ptrs[1] = s.ptrs[1] /\ t.ptrs # <<>> /\ Began(t) = Began(s)
    <2>1. 1 \in 1..n
      BY <1>4
    <2>2. Len(<<>>) = 0 /\ n + 1 # 0
      OBVIOUS
    <2>3. QED
      BY <1>3, <1>4, <2>1, <2>2 DEF Began
  <1>6. TabAt(tab, t) = TabAt(tab, s) /\ ScopeIn(i, t) = ScopeIn(i, s)
    BY <1>3, <1>5 DEF TabAt, ScopeIn
  <1>7. RunsOn(tab, i, t)
    <2> DEFINE Runs(k) == t.ptrs[k + 1] = Past(t.ptrs[k], t.section,
                            ChunkLength(TabAt(tab, t), ScopeIn(i, t), ChunksIn(i, t.section)[k]))
    <2>1. Runs(n)
      <3>1. n \in 1..n
        BY <1>4
      <3>2. QED
        BY <1>3, <1>4, <1>6, <3>1 DEF s
    <2>2. ASSUME NEW k \in 1..n-1 PROVE Runs(k)
      <3>1. k \in 1..n /\ k + 1 \in 1..n
        BY <2>2
      <3>2. QED
        BY <1>2, <1>3, <1>4, <1>6, <3>1 DEF RunsOn, s
    <2>3. \A k \in 1..(n+1)-1 : k = n \/ k \in 1..n-1
      OBVIOUS
    <2>4. n + 1 <= Len(ChunksIn(i, t.section)) + 1
      <3>1. n <= Len(ChunksIn(i, t.section))
        BY <1>3 DEF s
      <3>2. Len(s.ptrs) <= Len(ChunksIn(i, s.section)) + 1
        BY <1>2 DEF RunsOn
      <3>3. QED
        BY <3>1
    <2> HIDE DEF Runs
    <2>5. \A k \in 1..(n+1)-1 : Runs(k)
      BY <2>1, <2>2, <2>3
    <2>6. QED
      BY <1>4, <2>4, <2>5 DEF RunsOn, Runs
  <1>8. ASSUME NEW j \in DOMAIN c
        PROVE  /\ j \in DOMAIN prog /\ c[j].ptrs # <<>>
               /\ Labelled(j, c[j]) /\ Joins(tab, c, j, c[j]) /\ RunsOn(tab, j, c[j])
    <2>1. \A y : Joins(tab, q, j, y) => Joins(tab, c, j, y)
      <3>1. j # 1 => j - 1 \in 1..i-1
        BY <1>1
      <3>2. QED
        BY <1>1, <3>1 DEF Joins
    <2>2. CASE j = i
      <3>1. Labelled(i, t) /\ Joins(tab, q, i, t)
        BY <1>2, <1>3, <1>5 DEF Labelled, Joins, Opens, Follows
      <3>2. QED
        BY <1>1, <1>2, <1>5, <1>7, <2>1, <2>2, <3>1
    <2>3. CASE j # i
      <3>1. j \in DOMAIN q /\ c[j] = q[j]
        BY <1>1, <2>3
      <3>2. QED
        BY <2>1, <3>1 DEF Chain
    <2>4. QED
      BY <2>2, <2>3
  <1>9. Chain(tab, c)
    BY <1>8 DEF Chain
  <1>10. QED
    BY <1>3, <1>4, <1>5, <1>9 DEF c, s, RunOn

LEMMA StepsSay ==
  ASSUME LineStep \/ EmitStep
  PROVE  steady' = steady /\ errors \subseteq errors' /\ warnings \subseteq warnings'
  <1>1. ASSUME NEW said, Report(said) PROVE errors \subseteq errors' /\ warnings \subseteq warnings'
    BY <1>1 DEF Report
  <1>2. CASE EmitStep
    <2>1. steady' = steady
      <3>1. CASE LineEmitted \/ EmitBytes
        BY <3>1 DEF LineEmitted, EmitBytes, input
      <3>2. CASE ~(LineEmitted \/ EmitBytes)
        <4>1. \E kind, ofs, width, v, size : Put(kind, ofs, width, v, size)
          BY <1>2, <3>2 DEF EmitStep, EmitByte, RejectSeg, EmitSeg, EmitWord, EmitLong, EmitRel8, ShortToImport,
            EmitRel16, NearToImport, FarRejected, EmitFar, EmitAddress, EmitBased
        <4>2. QED
          BY <4>1 DEF Put, input
      <3>3. QED
        BY <3>1, <3>2
    <2>2. QED
      BY <1>2, <2>1, EmitGoes
  <1>3. CASE LineStep
    <2>1. CASE Exhausted
      BY <2>1 DEF Exhausted, input, verdict
    <2>2. CASE Define \/ Undef
      <3>1. Directive
        BY <2>2 DEF Define, Undef
      <3>2. QED
        BY <3>1 DEF Directive, input, verdict
    <2>3. CASE List \/ Instr \/ NoRow \/ OutsideText
      <3>1. \E chunks, said : Starts(chunks, said)
        BY <2>3 DEF List, Instr, NoRow, OutsideText
      <3>2. steady' = steady /\ \E said : Report(said)
        BY <3>1 DEF Starts, input
      <3>3. QED
        BY <1>1, <3>2
    <2>4. CASE LabelAlone \/ Reserve \/ SectionDirective \/ Export \/ Import \/ OrgDirective
               \/ OrgRefused \/ End \/ Equ \/ SyntaxError
      <3>1. Done /\ \E said : Report(said)
        BY <2>4 DEF LabelAlone, Reserve, SectionDirective, Export, Import, OrgDirective, OrgRefused,
                    End, Equ, SyntaxError
      <3>2. QED
        BY <1>1, <3>1 DEF Done, input
    <2>5. QED
      BY <1>3, <2>1, <2>2, <2>3, <2>4 DEF LineStep
  <1>4. QED
    BY <1>2, <1>3

(* What the tables say alike of the lines of q.                            *)
LEMMA Transfer ==
  ASSUME NEW t1, NEW t2, NEW q \in Seq(TraceLine), EntriesOf(t1, q),
         Dollar \in DOMAIN t1, Dollar \in DOMAIN t2, t1[Dollar].type = "EXPR", t2[Dollar].type = "EXPR",
         \A j \in DOMAIN q : prog[j].label.kind # "none" => q[j].name # Dollar /\ Stays(t1, t2, q[j].name)
  PROVE  SameOn(q, t1, t2) /\ EntriesOf(t2, q)
  <1>1. SameEntry(t1, t2, Dollar)
    BY DEF SameEntry
  <1>2. ASSUME NEW j \in DOMAIN q, prog[j].label.kind # "none"
        PROVE  SameEntry(t1, t2, q[j].name) /\ EntryOf(t2, j, q[j])
    <2>1. q[j] \in TraceLine
      OBVIOUS
    <2>2. LabelType(q[j].section) # "DEFINE"
      BY <2>1 DEF TraceLine, Sections, LabelType
    <2>3. EntryOf(t1, j, q[j])
      BY <1>2 DEF EntriesOf
    <2>4. QED
      BY <1>2, <2>2, <2>3 DEF EntryOf, SameEntry, Stays
  <1>3. QED
    BY <1>1, <1>2 DEF SameOn, EntriesOf, EntryOf

LEMMA JoinsAlike ==
  ASSUME NEW tab, NEW q, NEW i, NEW s, NEW t, s.section = t.section, s.scope = t.scope, s.ptrs = t.ptrs
  PROVE  Joins(tab, q, i, s) <=> Joins(tab, q, i, t)
  BY DEF Joins, Opens, Follows

(* What is left of a sequence from its n-th member on.                     *)
LEMMA RestOf ==
  ASSUME NEW S, NEW q \in Seq(S), NEW n \in 1..(Len(q) + 1)
  PROVE  /\ SubSeq(q, n, Len(q)) = <<>> <=> n = Len(q) + 1
         /\ n <= Len(q) => /\ Head(SubSeq(q, n, Len(q))) = q[n]
                           /\ Tail(SubSeq(q, n, Len(q))) = SubSeq(q, n + 1, Len(q))
PROOF
  <1>1. n \in Int /\ Len(q) \in Nat
    OBVIOUS
  <1>2. CASE n = Len(q) + 1
    <2>1. SubSeq(q, n, Len(q)) = <<>>
      BY <1>1, <1>2, SubSeqEmpty
    <2>2. QED
      BY <1>1, <1>2, <2>1
  <1>3. CASE n <= Len(q)
    <2>1. \A i \in n..Len(q) : q[i] \in S
      BY <1>1
    <2>2. Len(SubSeq(q, n, Len(q))) = Len(q) - n + 1
      BY <1>1, <1>3, <2>1, SubSeqProperties
    <2>3. SubSeq(q, n, Len(q)) # <<>>
      BY <1>1, <1>3, <2>2
    <2>4. n \in 1..Len(q) /\ Len(q) \in n..Len(q)
      BY <1>1, <1>3
    <2>5. /\ Head(SubSeq(q, n, Len(q))) = q[n]
          /\ Tail(SubSeq(q, n, Len(q))) = SubSeq(q, n + 1, Len(q))
      BY <2>4, HeadTailOfSubSeq
    <2>6. QED
      BY <1>1, <1>3, <2>3, <2>5
  <1>4. QED
    BY <1>1, <1>2, <1>3

(* A line leaves both passes chains with the table it leaves, though it    *)
(* redefines its label: pass 1 has it where pass 0 had it.                 *)
LEMMA LineChains ==
  ASSUME TypeInv, ReachInv, PassesInv, ChainedInv, LineInv, DollarInv, Steady(prog), LineStep, at <= Len(prog),
         pass > 0 => "changed" \notin warnings'
  PROVE  /\ NewLine \in TraceLine /\ Joins(consts, trace[pass], at, NewLine)
         /\ Len(trace[pass]) = at - 1 /\ at \in DOMAIN prog /\ pass \in 0..Passes-1
         /\ \A p \in 0..Passes-1 : Chain(consts', trace'[p]) /\ EntriesOf(consts', trace'[p])
         /\ consts'[Dollar].type = "EXPR"
  <1>1. pc = "line" /\ at \in DOMAIN prog /\ prog \in Programs /\ pass \in {0, 1} /\ 0..Passes-1 = {0, 1}
    <2>1. pc = "line"
      BY LineWays
    <2>2. pass \in 0..2 /\ pass < 2 /\ at \in DOMAIN prog /\ prog \in Programs
      BY <2>1, LineTypes DEF TypeInv, PlaceInv, Passes, Assembling
    <2>3. 0..Passes-1 = {0, 1}
      BY DEF Passes
    <2>4. QED
      BY <2>1, <2>2, <2>3
  <1> DEFINE nl == NewLine
             q == trace[pass]
             c == Append(q, nl)
             names == NamesOf(prog)
  <1>2. nl \in TraceLine /\ nl.name = LineName /\ nl.section = section /\ nl.scope = scope /\ nl.ptrs = <<ptr>>
        /\ (nl.equ <=> Stmt.op = "equ")
    <2>1. LineName \in Name /\ scope \in Name /\ section \in Sections /\ ptr \in [Sections -> Int]
      BY <1>1, LineTable DEF TypeInv, LayoutInv, TableInv
    <2>2. <<ptr>> \in Seq([Sections -> Int]) /\ (Stmt.op = "equ") \in BOOLEAN
      BY <2>1
    <2> HIDE DEF LineName, Stmt
    <2>3. QED
      BY <2>1, <2>2 DEF NewLine, TraceLine
  <1>3. q \in Seq(TraceLine) /\ trace[0] \in Seq(TraceLine) /\ trace[1] \in Seq(TraceLine)
        /\ DOMAIN trace = {0, 1}
    BY <1>1 DEF TypeInv, RecordInv
  <1>4. Len(q) = at - 1 /\ Joins(consts, q, at, nl)
    <2>1. Len(q) = at - 1 /\ Joins(consts, q, at, Now)
      BY <1>1 DEF LineInv
    <2>2. Now.section = section /\ Now.scope = scope /\ Now.ptrs = <<ptr>>
      BY DEF Now
    <2>3. QED
      BY <1>2, <2>1, <2>2, JoinsAlike
  <1>5. /\ UNCHANGED <<prog, pass, target, isOrgDef>> /\ trace' = [trace EXCEPT ![pass] = c]
    BY <1>4, LineGoes
  <1>6. Labelled(at, nl)
    BY <1>2 DEF Labelled, LineName, Stmt
  <1>7. Chain(consts, q) /\ EntriesOf(consts, q)
    BY <1>1 DEF ChainedInv
  <1>8. /\ c \in Seq(TraceLine) /\ Len(c) = at /\ c[at] = nl /\ DOMAIN c = DOMAIN q \cup {at} /\ at \notin DOMAIN q
        /\ \A j \in DOMAIN q : c[j] = q[j]
        /\ Chain(consts, c)
    <2>1. Len(nl.ptrs) = 1
      BY <1>2
    <2> HIDE DEF nl, q
    <2>2. /\ prog \in Programs /\ Steady(prog) /\ q \in Seq(TraceLine) /\ at \in DOMAIN prog
          /\ Len(q) = at - 1 /\ Chain(consts, q) /\ nl \in TraceLine /\ Len(nl.ptrs) = 1
          /\ Labelled(at, nl) /\ Joins(consts, q, at, nl)
      BY <1>1, <1>2, <1>3, <1>4, <1>6, <1>7, <2>1
    <2> DEFINE Grown(x, i, y) ==
          /\ Append(x, y) \in Seq(TraceLine) /\ Len(Append(x, y)) = i /\ Append(x, y)[i] = y
          /\ DOMAIN Append(x, y) = DOMAIN x \cup {i} /\ i \notin DOMAIN x
          /\ \A j \in DOMAIN x : Append(x, y)[j] = x[j]
          /\ Chain(consts, Append(x, y))
    <2>3. ASSUME NEW x \in Seq(TraceLine), NEW i \in DOMAIN prog, NEW y \in TraceLine, Len(x) = i - 1,
                 Chain(consts, x), Len(y.ptrs) = 1, Labelled(i, y), Joins(consts, x, i, y)
          PROVE  Grown(x, i, y)
      BY <2>2, <2>3, ChainGrows
    <2> HIDE DEF Grown
    <2>4. Grown(q, at, nl)
      BY <2>2, <2>3
    <2>5. QED
      BY <2>4 DEF Grown
  <1> HIDE DEF c, q, nl
  <1>9. IsTable(consts) /\ IsTable(consts') /\ Dollar \in DOMAIN consts /\ consts[Dollar].type = "EXPR"
    BY <1>1, LinesTable DEF TypeInv, TableInv, DollarInv
  <1>10. nl.name = names[at]
    <2>1. at \in DOMAIN c
      BY <1>8
    <2>2. c[at].name = names[at]
      BY <1>1, <1>8, <2>1, ChainNames
    <2>3. QED
      BY <1>8, <2>2
  <1>11. /\ Dollar \in DOMAIN consts' /\ consts'[Dollar].type = "EXPR"
         /\ EntryOf(consts', at, nl)
         /\ \A i \in DOMAIN prog \ {at} :
              prog[i].label.kind # "none" => Stays(consts, consts', names[i])
         /\ pass > 0 /\ nl.equ /\ prog[at].label.kind # "none"
              /\ nl.name \in DOMAIN consts => consts'[nl.name].value = consts[nl.name].value
    <2>1. LineName = NamesOf(prog)[at]
      BY <1>2, <1>10
    <2>2. Stmt = prog[at]
      BY DEF Stmt
    <2>3. QED
      BY <1>1, <1>2, <1>9, <2>1, <2>2, LineTables DEF nl
  <1>12. \A i \in DOMAIN prog : prog[i].label.kind # "none" => names[i] # Dollar
    BY <1>1, NamesApart
  <1> DEFINE Named(x) == \A j \in DOMAIN x : j \in DOMAIN prog /\ x[j].name = names[j]
  <1>13. \A x \in Seq(TraceLine) : Chain(consts, x) => Named(x) /\ \A j \in DOMAIN x : Labelled(j, x[j])
    <2>1. ASSUME NEW x \in Seq(TraceLine), Chain(consts, x) PROVE Named(x) /\ \A j \in DOMAIN x : Labelled(j, x[j])
      <3>1. \A j \in DOMAIN x : j \in DOMAIN prog /\ Labelled(j, x[j])
        BY <2>1 DEF Chain
      <3>2. \A j \in DOMAIN x : x[j].name = NamesOf(prog)[j]
        BY <1>1, <2>1, ChainNames
      <3>3. QED
        BY <3>1, <3>2
    <2>2. QED
      BY <2>1
  <1> HIDE DEF names
  <1>14. SameOn(q, consts, consts') /\ EntriesOf(consts', q)
    <2>1. \A j \in DOMAIN q : prog[j].label.kind # "none" => q[j].name # Dollar /\ Stays(consts, consts', q[j].name)
      BY <1>3, <1>7, <1>8, <1>11, <1>12, <1>13
    <2>2. QED
      BY <1>3, <1>7, <1>9, <1>11, <2>1, Transfer
  <1>15. EntriesOf(consts', c)
    BY <1>8, <1>11, <1>14 DEF EntriesOf
  <1>16. CASE pass = 0
    <2>1. Chain(consts', c)
      <3>1. Len(c) <= Len(q) + 1
        <4>1. at \in Nat
          BY DEF TypeInv, PlaceInv
        <4>2. QED
          BY <1>4, <1>8, <4>1
      <3>2. QED
        BY <1>1, <1>3, <1>7, <1>8, <1>9, <1>13, <1>14, <3>1, ChainAlike
    <2>2. trace'[0] = c /\ trace'[1] = <<>>
      BY <1>1, <1>3, <1>5, <1>16 DEF PassesInv
    <2>3. \A tab : Chain(tab, <<>>) /\ EntriesOf(tab, <<>>)
      BY DEF Chain, EntriesOf
    <2>4. QED
      BY <1>1, <1>2, <1>4, <1>11, <1>15, <2>1, <2>2, <2>3 DEF nl, q
  <1>17. CASE pass = 1
    <2> DEFINE r == trace[0]
    <2>1. RanOut(r) /\ Chain(consts, r) /\ EntriesOf(consts, r) /\ r \in Seq(TraceLine)
      BY <1>1, <1>3, <1>17 DEF PassesInv, ChainedInv
    <2>2. trace'[0] = r /\ trace'[1] = c
      BY <1>3, <1>5, <1>17
    <2> HIDE DEF r
    <2>3. at <= Len(r) + 1
      <3>1. at \in Nat /\ Len(r) \in Nat /\ Len(prog) \in Nat
        BY <1>1, <2>1 DEF TypeInv, PlaceInv
      <3>2. CASE Len(r) = Len(prog)
        BY <3>1, <3>2
      <3>3. CASE Len(r) \in DOMAIN prog /\ Stops(Len(r))
        <4>1. ~(Len(r) < at)
          BY <1>1, <3>3 DEF ReachInv, Clear
        <4>2. QED
          BY <3>1, <4>1
      <3>4. QED
        BY <2>1, <3>2, <3>3 DEF RanOut
    <2>4. ASSUME at \in DOMAIN r, prog[at].label.kind # "none" PROVE Stays(consts, consts', r[at].name)
      <3> DEFINE s == r[at]
      <3>1. BeginAlike(at, s, nl) /\ s \in TraceLine
        <4>1. at \in DOMAIN r \cap DOMAIN c
          BY <1>8, <2>4
        <4>2. BeginAlike(at, r[at], c[at])
          BY <1>1, <1>8, <1>9, <2>1, <4>1, OneLayout
        <4>3. QED
          BY <1>8, <2>1, <2>4, <4>2
      <3>2. EntryOf(consts, at, s)
        BY <2>1, <2>4 DEF EntriesOf
      <3> HIDE DEF s
      <3>3. prog[at].op # "org"
        <4>1. prog[at].op = "org" => prog[at].label = NoSym
          BY <1>1, SteadyLine
        <4>2. QED
          BY <2>4, <4>1, NoSymType
      <3>4. s.name = nl.name /\ s.section = nl.section /\ s.equ = nl.equ /\ Began(s) = Began(nl)
        BY <3>1, <3>3 DEF BeginAlike, Began
      <3>5. nl.name \in DOMAIN consts' /\ consts'[nl.name].type = consts[nl.name].type /\ nl.name \in DOMAIN consts
        BY <1>11, <2>4, <3>2, <3>4 DEF EntryOf
      <3>6. consts'[nl.name].value = consts[nl.name].value
        <4>1. CASE nl.equ
          BY <1>11, <1>17, <2>4, <3>5, <4>1
        <4>2. CASE ~nl.equ
          BY <1>11, <2>4, <3>2, <3>4, <4>2 DEF EntryOf
        <4>3. QED
          BY <4>1, <4>2
      <3>7. QED
        BY <3>4, <3>5, <3>6 DEF Stays, s
    <2>5. SameOn(r, consts, consts') /\ EntriesOf(consts', r)
      <3>1. \A j \in DOMAIN r : prog[j].label.kind # "none" => r[j].name # Dollar /\ Stays(consts, consts', r[j].name)
        BY <1>11, <1>12, <1>13, <2>1, <2>4
      <3>2. QED
        BY <1>9, <1>11, <2>1, <3>1, Transfer
    <2>6. Chain(consts', c) /\ Chain(consts', r)
      <3>1. \A j \in DOMAIN r : Labelled(j, r[j])
        BY <1>13, <2>1
      <3>2. Len(r) <= Len(r) + 1 /\ Len(c) <= Len(r) + 1
        BY <1>8, <2>1, <2>3
      <3>3. QED
        BY <1>1, <1>8, <1>9, <2>1, <2>5, <3>1, <3>2, ChainAlike
    <2>7. QED
      BY <1>1, <1>2, <1>4, <1>11, <1>15, <2>2, <2>5, <2>6 DEF nl, q
  <1>18. QED
    BY <1>1, <1>16, <1>17

LEMMA LineLaid == TypeInv /\ ReachInv /\ LaidInv /\ LineStep => LaidInv'
  <1> SUFFICES ASSUME TypeInv, ReachInv, LaidInv, LineStep PROVE LaidInv'
    OBVIOUS
  <1>1. /\ pc = "line" /\ UNCHANGED <<prog, pass, target, isOrgDef>> /\ pc' \in {"line", "emit", "end"}
        /\ steady' = steady /\ errors \subseteq errors' /\ warnings \subseteq warnings'
    BY LineWays, StepsSay DEF Moves1, Emits, Halts
  <1>2. /\ steady' = Steady(prog)' /\ pass \in {0, 1} /\ 0..Passes-1 = {0, 1} /\ prog \in Programs
        /\ DOMAIN trace = {0, 1} /\ \A p \in {0, 1} : trace[p] \in Seq(TraceLine)
        /\ at \in Nat /\ Len(prog) \in Nat /\ at > 0 /\ DOMAIN prog = 1..Len(prog) /\ IsTable(consts)
    <2>1. 0..2 = {0, 1, 2} /\ 0..2-1 = {0, 1}
      OBVIOUS
    <2>2. prog \in Seq(Statement) /\ prog \in Programs
      BY ProgramsAssumption DEF ProgramsAssumption, TypeInv, PlaceInv
    <2>3. pass \in {0, 1} /\ 0..Passes-1 = {0, 1} /\ at \in Nat /\ at > 0
      BY <1>1, <2>1 DEF TypeInv, PlaceInv, Passes, Assembling
    <2>4. QED
      BY <1>1, <2>2, <2>3 DEF LaidInv, TypeInv, RecordInv, TableInv
  <1> SUFFICES ASSUME steady', Settled'
               PROVE  (PassesInv /\ ChainedInv /\ LineInv /\ ChunkInv /\ DollarInv)'
    BY <1>2 DEF LaidInv
  <1>3. Settled /\ (pass > 0 => "changed" \notin warnings')
    BY <1>1, <1>2 DEF Settled
  <1>4. Steady(prog) /\ PassesInv /\ ChainedInv /\ LineInv /\ ChunkInv /\ DollarInv
    BY <1>1, <1>3 DEF LaidInv
  <1> DEFINE q == trace[pass]
  <1>5. CASE at > Len(prog)
    <2>1. pc' = "end" /\ UNCHANGED <<consts, trace, org>>
      <3>1. ~(at <= Len(prog))
        BY <1>2, <1>5
      <3>2. Exhausted
        BY <3>1 DEF LineStep, OnLine, LabelAlone, List, Instr, NoRow, OutsideText, Reserve, SectionDirective, Export,
          Import, OrgDirective, OrgRefused, End, Equ, SyntaxError, Define, Undef
      <3>3. QED
        BY <3>2 DEF Exhausted, symbols, layout
    <2>2. Len(q) = at - 1 /\ Joins(consts, q, at, Now) /\ Chain(consts, q) /\ q \in Seq(TraceLine)
      BY <1>1, <1>2, <1>4 DEF LineInv, ChainedInv
    <2>3. RanOut(q)
      <3>1. Len(q) <= Len(prog)
        <4>1. Len(q) = 0 \/ Len(q) \in DOMAIN q
          <5>1. ASSUME NEW S, NEW x \in Seq(S) PROVE Len(x) = 0 \/ Len(x) \in DOMAIN x
            BY <5>1
          <5>2. QED
            BY <2>2, <5>1
        <4>2. QED
          BY <1>2, <2>2, <4>1 DEF Chain
      <3>2. Len(q) = Len(prog) /\ at = Len(q) + 1
        BY <1>2, <1>5, <2>2, <3>1
      <3>3. Clear(Len(q))
        <4>1. Clear(at)
          BY <1>1 DEF ReachInv
        <4>2. \A j \in DOMAIN prog : j < Len(q) => j < at
          BY <1>2, <3>2
        <4>3. QED
          BY <4>1, <4>2 DEF Clear
      <3>4. Len(q) > 0 => AllThere(Len(q), q[Len(q)])
        <4>1. at # 1 => Follows(consts, at - 1, q[at - 1], Now)
          BY <2>2 DEF Joins
        <4>2. QED
          BY <1>2, <2>2, <4>1 DEF Follows
      <3> HIDE DEF q
      <3>5. QED
        BY <3>1, <3>2, <3>3, <3>4 DEF RanOut
    <2>4. \A x : RanOut(x) => RanOut(x)'
      BY <1>1, <2>1, ChainStays
    <2>5. \A tab, x : (Chain(tab, x) => Chain(tab, x)') /\ (EntriesOf(tab, x) => EntriesOf(tab, x)')
      BY <1>1, <2>1, ChainStays
    <2>6. PassesInv'
      BY <1>1, <1>2, <1>4, <2>1, <2>3, <2>4 DEF PassesInv
    <2>7. ChainedInv'
      BY <1>4, <2>1, <2>5 DEF ChainedInv
    <2>8. QED
      BY <1>1, <1>4, <2>1, <2>6, <2>7 DEF LineInv, ChunkInv, DollarInv
  <1>6. CASE at <= Len(prog)
    <2> PICK nl : nl = NewLine
      OBVIOUS
    <2> PICK c : c = Append(q, nl)
      OBVIOUS
    <2>1. /\ nl \in TraceLine /\ Joins(consts, q, at, nl) /\ Len(q) = at - 1 /\ at \in DOMAIN prog
          /\ \A p \in 0..Passes-1 : Chain(consts', trace'[p]) /\ EntriesOf(consts', trace'[p])
          /\ consts'[Dollar].type = "EXPR"
      BY <1>3, <1>4, <1>6, LineChains
    <2>2. /\ trace' = [trace EXCEPT ![pass] = c] /\ (OrgStays => org' = org) /\ Onward
      BY <1>4, <1>6, <2>1, LineGoes
    <2>3. nl.section = section /\ nl.scope = scope /\ nl.ptrs = <<ptr>> /\ Began(nl) = Here
      BY DEF NewLine, Began, Here
    <2>4. Len(c) = at /\ c[at] = nl /\ trace'[pass] = c /\ \A p \in {0, 1} : p # pass => trace'[p] = trace[p]
      <3>1. q \in Seq(TraceLine)
        BY <1>2
      <3>2. ASSUME NEW S, NEW x \in Seq(S), NEW y PROVE Len(Append(x, y)) = Len(x) + 1 /\ Append(x, y)[Len(x) + 1] = y
        BY <3>2
      <3>3. Len(c) = Len(q) + 1 /\ c[Len(q) + 1] = nl
        BY <3>1, <3>2
      <3>4. Len(q) + 1 = at
        BY <1>2, <2>1
      <3> HIDE DEF q
      <3>5. QED
        BY <1>2, <2>2, <3>3, <3>4
    <2> HIDE DEF q
    <2>5. \A tab, x : /\ Chain(tab, x) => Chain(tab, x)'
                      /\ EntriesOf(tab, x) => EntriesOf(tab, x)'
                      /\ RanOut(x) => RanOut(x)'
                      /\ \A i, t : Joins(tab, x, i, t) => Joins(tab, x, i, t)'
                      /\ \A i, sec : ChunksIn(i, sec) = ChunksIn(i, sec)'
                      /\ \A i, t : ScopeIn(i, t) = ScopeIn(i, t)'
      BY <1>1, <2>2, ChainStays
    <2>6. ChainedInv'
      BY <2>1, <2>5 DEF ChainedInv
    <2>7. DollarInv'
      <3>1. TypeInv' /\ pc' \notin {"args", "exit"}
        BY TypeLine, LineWays DEF Moves1, Emits, Halts
      <3>2. QED
        BY <2>1, <3>1 DEF DollarInv, TypeInv, TableInv
    <2>8. \A p \in {0, 1} : p # pass => trace'[p] = trace[p]
      BY <2>4
    <2>9. ASSUME pc' = "end" => RanOut(c) PROVE PassesInv'
      <3>1. ASSUME NEW p \in {0, 1}
            PROVE  /\ p > pass => trace'[p] = <<>>
                   /\ p < pass \/ (p = pass /\ pc' = "end") => RanOut(trace[p])'
        <4>1. p > pass => p # pass /\ trace[p] = <<>>
          BY <1>2, <1>4 DEF PassesInv
        <4>2. p < pass => p # pass /\ RanOut(trace[p])
          BY <1>2, <1>4 DEF PassesInv
        <4>3. p < pass => RanOut(trace[p])'
          BY <2>5, <2>8, <4>2
        <4>4. p = pass /\ pc' = "end" => RanOut(trace[p])'
          BY <2>4, <2>5, <2>9
        <4>5. QED
          BY <2>8, <4>1, <4>3, <4>4
      <3>2. QED
        BY <1>1, <1>2, <3>1 DEF PassesInv
    <2>10. Len(nl.ptrs) = 1 /\ nl.ptrs[1] = ptr
      BY <2>3
    <2>11. CASE Emits /\ UNCHANGED <<ptr, section>> /\ scope' = ScopeIn(at, NewLine)
                /\ todo' = ChunksIn(at, section) /\ consts' = LineConsts /\ Stmt.op \in {"db", "dw", "dd", "instr"}
      <3>1. pc' = "emit" /\ at' = at
        BY <2>11 DEF Emits
      <3> PICK chunks : chunks = ChunksIn(at, section)
        OBVIOUS
      <3>2. chunks \in Seq(Chunk)
        BY <1>2, <1>4, <2>1, SteadyChunks
      <3>3. chunks = SubSeq(chunks, 1, Len(chunks)) /\ 1 <= Len(chunks) + 1
        BY <3>2
      <3>4. ChunksIn(at, section)' = chunks
        BY <2>5, <2>11, <3>1
      <3>5. scope' = ScopeIn(at, nl)'
        BY <2>5, <2>11, <3>1
      <3>6. Coming(at, nl)'
        <4>1. prog[at].op \in {"db", "dw", "dd", "instr"}
          BY <2>11 DEF Stmt
        <4>2. todo' = chunks
          BY <2>11
        <4>3. section' = section /\ ptr' = ptr /\ (prog[at].op)' = prog[at].op
          BY <1>1, <2>11, <3>1
        <4>4. nl.section = section' /\ ptr' = nl.ptrs[1]
          BY <2>3, <2>10, <4>3
        <4>5. todo' = SubSeq(chunks, 1, Len(chunks)) /\ 1 <= Len(chunks) + 1
          BY <3>3, <4>2
        <4>6. QED
          BY <1>1, <2>10, <3>1, <3>4, <3>5, <4>1, <4>3, <4>4, <4>5 DEF Coming
      <3>7. consts'[Dollar].value = Began(nl)
        BY <1>1, <1>6, <2>3, <2>11, LineDollar
      <3>8. ChunkInv'
        BY <1>1, <2>4, <3>1, <3>6, <3>7 DEF ChunkInv
      <3>9. QED
        BY <2>6, <2>7, <2>9, <3>1, <3>8 DEF LineInv
    <2>12. CASE Moves1 /\ ChunksIn(at, section) = <<>>
                /\ section' = NextSection(at, NewLine) /\ scope' = NextScope(at, NewLine)
                /\ ptr' = PtrPast(consts', at, NewLine)
      <3>1. pc' = "line" /\ at' = at + 1
        BY <2>12 DEF Moves1
      <3>2. AllThere(at, nl)
        BY <2>3, <2>10, <2>12 DEF AllThere
      <3> PICK now : now = Now'
        OBVIOUS
      <3>3. now.section = section' /\ now.scope = scope' /\ now.ptrs[1] = ptr'
        BY DEF Now
      <3>4. Follows(consts', at, nl, now)
        BY <2>12, <3>2, <3>3 DEF Follows
      <3>5. Joins(consts', c, at + 1, now)
        <4>1. at + 1 # 1 /\ (at + 1) - 1 = at
          BY <1>2
        <4>2. QED
          BY <2>4, <3>4, <4>1 DEF Joins
      <3>6. LineInv'
        <4>1. Joins(consts, c, at, now)'
          BY <2>5, <3>1, <3>5
        <4>2. Len(c) = at' - 1
          BY <1>2, <2>4, <3>1
        <4>3. QED
          BY <1>1, <2>4, <4>1, <4>2 DEF LineInv
      <3>7. QED
        BY <2>6, <2>7, <2>9, <3>1, <3>6 DEF ChunkInv
    <2>13. CASE Halts /\ at' = at + 1 /\ ChunksIn(at, section) = <<>>
      <3>1. pc' = "end" /\ Stops(at)
        BY <2>13 DEF Halts
      <3>2. AllThere(at, nl)
        BY <2>3, <2>10, <2>13 DEF AllThere
      <3>3. Clear(at)
        BY <1>1 DEF ReachInv
      <3>4. RanOut(c)
        BY <1>6, <2>1, <2>4, <3>1, <3>2, <3>3 DEF RanOut
      <3>5. QED
        BY <2>6, <2>7, <2>9, <3>1, <3>4 DEF LineInv, ChunkInv
    <2>14. QED
      BY <2>2, <2>11, <2>12, <2>13 DEF Onward
  <1>7. QED
    BY <1>2, <1>5, <1>6

LEMMA EmitLaid == TypeInv /\ LaidInv /\ EmitStep => LaidInv'
  <1> SUFFICES ASSUME TypeInv, LaidInv, EmitStep PROVE LaidInv'
    OBVIOUS
  <1>1. /\ pc = "emit" /\ UNCHANGED <<prog, pass, target, isOrgDef, consts, scope, section, org>>
        /\ steady' = steady /\ errors \subseteq errors' /\ warnings \subseteq warnings'
        /\ \/ /\ pc' = "line" /\ at' = at + 1 /\ todo = <<>> /\ UNCHANGED <<ptr, trace>>
           \/ /\ pc' = "emit" /\ at' = at /\ todo # <<>> /\ todo' = Tail(todo) /\ TracedOn
              /\ ptr' = Past(ptr, section, ChunkLength(consts, scope, Head(todo)))
    BY EmitGoes, StepsSay
  <1>2. /\ steady' = Steady(prog)' /\ pass \in {0, 1} /\ 0..Passes-1 = {0, 1} /\ prog \in Programs
        /\ DOMAIN trace = {0, 1} /\ \A p \in {0, 1} : trace[p] \in Seq(TraceLine)
        /\ at \in Nat /\ at > 0 /\ IsTable(consts) /\ Dollar \in DOMAIN consts
    <2>1. 0..2 = {0, 1, 2} /\ 0..2-1 = {0, 1}
      OBVIOUS
    <2>2. pass \in {0, 1} /\ 0..Passes-1 = {0, 1} /\ at \in Nat /\ at > 0 /\ prog \in Programs
      BY <1>1, <2>1 DEF TypeInv, PlaceInv, Passes, Assembling
    <2>3. QED
      BY <1>1, <2>2 DEF LaidInv, TypeInv, RecordInv, TableInv
  <1> SUFFICES ASSUME steady', Settled'
               PROVE  (PassesInv /\ ChainedInv /\ LineInv /\ ChunkInv /\ DollarInv)'
    BY <1>2 DEF LaidInv
  <1>3. Settled
    BY <1>1, <1>2 DEF Settled
  <1>4. Steady(prog) /\ PassesInv /\ ChainedInv /\ LineInv /\ ChunkInv /\ DollarInv
    BY <1>1, <1>3 DEF LaidInv
  <1> PICK q : q = trace[pass]
    OBVIOUS
  <1> PICK t : t = q[at]
    OBVIOUS
  <1> PICK chunks : chunks = ChunksIn(at, section)
    OBVIOUS
  <1>5. /\ Len(q) = at /\ consts[Dollar].value = Began(t) /\ q \in Seq(TraceLine) /\ Chain(consts, q)
        /\ EntriesOf(consts, q) /\ consts[Dollar].type = "EXPR"
        /\ t.section = section /\ scope = ScopeIn(at, t) /\ ptr = t.ptrs[Len(t.ptrs)]
        /\ Len(t.ptrs) <= Len(chunks) + 1 /\ todo = SubSeq(chunks, Len(t.ptrs), Len(chunks))
        /\ prog[at].op \in {"db", "dw", "dd", "instr"}
    BY <1>1, <1>2, <1>4 DEF ChunkInv, Coming, ChainedInv, DollarInv
  <1>6. at \in DOMAIN q /\ at \in DOMAIN prog /\ t \in TraceLine /\ t.ptrs # <<>>
    <2>1. ASSUME NEW S, NEW x \in Seq(S), Len(x) \in Nat, Len(x) > 0
          PROVE  Len(x) \in DOMAIN x /\ x[Len(x)] \in S
      BY <2>1
    <2>2. at \in DOMAIN q /\ t \in TraceLine
      BY <1>2, <1>5, <2>1
    <2>3. QED
      BY <1>5, <2>2 DEF Chain
  <1>7. chunks \in Seq(Chunk)
    BY <1>2, <1>4, <1>6, SteadyChunks
  <1> PICK n : n = Len(t.ptrs)
    OBVIOUS
  <1>8. n \in Nat /\ n > 0 /\ n <= Len(chunks) + 1 /\ Len(chunks) \in Nat
    <2>1. t.ptrs \in Seq([Sections -> Int])
      BY <1>6 DEF TraceLine
    <2>2. ASSUME NEW S, NEW x \in Seq(S), x # <<>> PROVE Len(x) \in Nat /\ Len(x) > 0
      BY <2>2
    <2>3. QED
      BY <1>5, <1>6, <1>7, <2>1, <2>2
  <1>15. /\ todo = <<>> <=> n = Len(chunks) + 1
         /\ n <= Len(chunks) => Head(todo) = chunks[n] /\ Tail(todo) = SubSeq(chunks, n + 1, Len(chunks))
    <2>1. n \in 1..(Len(chunks) + 1)
      BY <1>8
    <2>2. todo = SubSeq(chunks, n, Len(chunks))
      BY <1>5
    <2>3. QED
      BY <1>7, <2>1, <2>2, RestOf
  <1>9. \A tab, x : /\ Chain(tab, x) => Chain(tab, x)'
                    /\ EntriesOf(tab, x) => EntriesOf(tab, x)'
                    /\ RanOut(x) => RanOut(x)'
                    /\ \A i, u : Joins(tab, x, i, u) => Joins(tab, x, i, u)'
                    /\ \A i, sec : ChunksIn(i, sec) = ChunksIn(i, sec)'
                    /\ \A i, u : ScopeIn(i, u) = ScopeIn(i, u)'
    BY <1>1, ChainStays
  <1>10. DollarInv'
    BY <1>1, <1>2, <1>5 DEF DollarInv
  <1>11. ASSUME \A p \in {0, 1} : p # pass => trace'[p] = trace[p] PROVE PassesInv'
    <2>1. ASSUME NEW p \in {0, 1}
          PROVE  /\ p > pass => trace'[p] = <<>>
                 /\ p < pass => RanOut(trace[p])'
      <3>1. p > pass => p # pass /\ trace[p] = <<>>
        BY <1>2, <1>4 DEF PassesInv
      <3>2. p < pass => p # pass /\ RanOut(trace[p])
        BY <1>2, <1>4 DEF PassesInv
      <3>3. p < pass => RanOut(trace[p])'
        BY <1>9, <1>11, <3>2
      <3>4. QED
        BY <1>11, <3>1, <3>3
    <2>2. QED
      BY <1>1, <1>2, <2>1 DEF PassesInv
  <1>12. CASE pc' = "line" /\ at' = at + 1 /\ todo = <<>> /\ UNCHANGED <<ptr, trace>>
    <2>1. ChainedInv'
      BY <1>1, <1>4, <1>9, <1>12 DEF ChainedInv
    <2>2. PassesInv'
      BY <1>11, <1>12
    <2>3. AllThere(at, t)
      <3>1. n = Len(chunks) + 1
        BY <1>12, <1>15
      <3>2. QED
        BY <1>5, <3>1 DEF AllThere
    <2> PICK now : now = Now'
      OBVIOUS
    <2>4. now.section = section' /\ now.scope = scope' /\ now.ptrs[1] = ptr'
      BY DEF Now
    <2>5. Joins(consts, q, at + 1, now)
      <3>1. at + 1 # 1 /\ (at + 1) - 1 = at
        BY <1>2
      <3>2. NextSection(at, t) = t.section /\ NextScope(at, t) = ScopeIn(at, t)
            /\ PtrPast(consts, at, t) = t.ptrs[Len(t.ptrs)]
        BY <1>5 DEF NextSection, NextScope, PtrPast
      <3>3. Follows(consts, at, t, now)
        BY <1>1, <1>5, <1>12, <2>3, <2>4, <3>2 DEF Follows
      <3>4. QED
        BY <3>1, <3>3 DEF Joins
    <2>6. LineInv'
      <3>1. Joins(consts, q, at, now)'
        BY <1>1, <1>9, <1>12, <2>5
      <3>2. Len(q) = at' - 1
        BY <1>2, <1>5, <1>12
      <3>3. QED
        BY <1>1, <1>12, <3>1, <3>2 DEF LineInv
    <2>7. QED
      BY <1>10, <1>12, <2>1, <2>2, <2>6 DEF ChunkInv
  <1>13. CASE /\ pc' = "emit" /\ at' = at /\ todo # <<>> /\ todo' = Tail(todo) /\ TracedOn
              /\ ptr' = Past(ptr, section, ChunkLength(consts, scope, Head(todo)))
    <2> PICK u : u = [t EXCEPT !.ptrs = Append(t.ptrs, ptr')]
      OBVIOUS
    <2> PICK c : c = [q EXCEPT ![at] = u]
      OBVIOUS
    <2>1. n <= Len(chunks) /\ Head(todo) = chunks[n] /\ todo' = SubSeq(chunks, n + 1, Len(chunks))
      <3>1. n <= Len(chunks)
        BY <1>8, <1>13, <1>15
      <3>2. QED
        BY <1>13, <1>15, <3>1
    <2>2. trace' = [trace EXCEPT ![pass] = c]
      <3>1. trace' = [trace EXCEPT ![pass][at].ptrs = Append(trace[pass][at].ptrs, ptr')]
        BY <1>13 DEF TracedOn
      <3>2. trace' = [trace EXCEPT ![pass] = [trace[pass] EXCEPT ![at] = [trace[pass][at] EXCEPT !.ptrs = Append(trace[pass][at].ptrs, ptr')]]]
        BY <3>1
      <3>3. QED
        BY <3>2
    <2>3. ptr' \in [Sections -> Int] /\ u \in TraceLine
      <3>1. ptr' \in [Sections -> Int]
        BY <1>1, <1>13, TypeEmit DEF TypeInv, LayoutInv
      <3>2. t.ptrs \in Seq([Sections -> Int]) /\ t = [name |-> t.name, scope |-> t.scope, section |-> t.section,
                                                      ptrs |-> t.ptrs, equ |-> t.equ]
        BY <1>6 DEF TraceLine
      <3>3. Append(t.ptrs, ptr') \in Seq([Sections -> Int])
        BY <3>1, <3>2
      <3> PICK x : x = Append(t.ptrs, ptr')
        OBVIOUS
      <3>4. [t EXCEPT !.ptrs = x] \in TraceLine
        BY <1>6, <3>3 DEF TraceLine
      <3>5. QED
        BY <3>1, <3>4
    <2>4. TabAt(consts, t) = consts
      <3>1. consts[Dollar] \in Entry /\ consts = [k \in DOMAIN consts |-> consts[k]]
        BY <1>2 DEF IsTable
      <3> PICK b : b = Began(t)
        OBVIOUS
      <3>2. consts[Dollar] = [consts[Dollar] EXCEPT !.value = b]
        BY <1>5, <3>1 DEF Entry
      <3>3. [consts EXCEPT ![Dollar].value = b] = consts
        BY <3>1, <3>2
      <3>4. QED
        BY <3>3 DEF TabAt
    <2>5. ptr' = Past(t.ptrs[n], t.section, ChunkLength(TabAt(consts, t), ScopeIn(at, t), ChunksIn(at, t.section)[n]))
      BY <1>5, <1>13, <2>1, <2>4
    <2>6. /\ Chain(consts, c)
          /\ Len(u.ptrs) = n + 1 /\ u.ptrs[n + 1] = ptr' /\ Began(u) = Began(t) /\ u.section = t.section
          /\ u.scope = t.scope /\ u.name = t.name /\ u.equ = t.equ
      <3> PICK x : x = ptr'
        OBVIOUS
      <3>1. /\ x \in [Sections -> Int] /\ n \in Nat /\ n = Len(q[at].ptrs) /\ n <= Len(ChunksIn(at, q[at].section))
            /\ x = Past(q[at].ptrs[n], q[at].section,
                        ChunkLength(TabAt(consts, q[at]), ScopeIn(at, q[at]), ChunksIn(at, q[at].section)[n]))
            /\ u \in TraceLine /\ u = [q[at] EXCEPT !.ptrs = Append(q[at].ptrs, x)]
        BY Zenon, <1>5, <1>8, <2>1, <2>3, <2>5
      <3>2. /\ Chain(consts, [q EXCEPT ![at] = u])
            /\ Len(u.ptrs) = n + 1 /\ u.ptrs[n + 1] = x /\ Began(u) = Began(q[at]) /\ u.section = q[at].section
            /\ u.scope = q[at].scope /\ u.name = q[at].name /\ u.equ = q[at].equ
        <4>1. OneMore(consts, q, at, n, x, u)
          BY Zenon, <1>2, <1>5, <1>6, <3>1 DEF OneMore
        <4>2. RunOn(consts, q, at, n, x, u)
          BY <4>1, ChainRunsOn
        <4>3. QED
          BY <4>2 DEF RunOn
      <3>3. QED
        BY <3>2
    <2>7. /\ DOMAIN c = DOMAIN q /\ c[at] = u /\ Len(c) = at /\ \A j \in DOMAIN q : j # at => c[j] = q[j]
          /\ trace'[pass] = c /\ \A p \in {0, 1} : p # pass => trace'[p] = trace[p]
      <3>1. /\ DOMAIN c = DOMAIN q /\ c[at] = u /\ \A j \in DOMAIN q : j # at => c[j] = q[j]
            /\ trace'[pass] = c /\ \A p \in {0, 1} : p # pass => trace'[p] = trace[p]
        BY <1>2, <1>6, <2>2
      <3>2. ASSUME NEW S, NEW x \in Seq(S), NEW i, NEW y \in S PROVE Len([x EXCEPT ![i] = y]) = Len(x)
        BY <3>2
      <3>3. QED
        BY <1>5, <2>3, <3>1, <3>2
    <2>8. EntriesOf(consts, c)
      <3>1. EntryOf(consts, at, u)
        BY <1>5, <1>6, <2>6 DEF EntriesOf, EntryOf
      <3>2. QED
        BY SMTT(30), <1>5, <2>7, <3>1 DEF EntriesOf
    <2>9. ChainedInv'
      <3>1. \A p \in {0, 1} : Chain(consts, trace'[p]) /\ EntriesOf(consts, trace'[p])
        BY <1>2, <1>4, <2>6, <2>7, <2>8 DEF ChainedInv
      <3>2. QED
        BY <1>1, <1>2, <1>9, <3>1 DEF ChainedInv
    <2>10. PassesInv'
      BY <1>11, <2>7
    <2>11. Coming(at, u)'
      <3>1. ScopeIn(at, u) = ScopeIn(at, t)
        BY SMTT(30), <2>6 DEF ScopeIn
      <3>2. scope' = ScopeIn(at, u)' /\ ChunksIn(at, section)' = chunks
        <4>1. ScopeIn(at, u)' = ScopeIn(at, u)
          BY <1>1, <1>9, <1>13
        <4>2. ChunksIn(at, section)' = ChunksIn(at, section)
          BY <1>1, <1>9, <1>13
        <4>3. QED
          BY <1>1, <1>5, <3>1, <4>1, <4>2
      <3>3. n + 1 <= Len(chunks) + 1
        BY <1>8, <2>1
      <3>4. (prog[at].op)' = prog[at].op
        BY <1>1, <1>13
      <3>5. QED
        BY Zenon, <1>1, <1>5, <1>13, <2>1, <2>6, <3>2, <3>3, <3>4 DEF Coming
    <2>12. ChunkInv'
      <3>1. consts'[Dollar].value = Began(u)
        BY <1>1, <1>5, <2>6
      <3>2. pc' = "emit" /\ at' = at /\ trace'[pass] = c /\ Len(c) = at /\ c[at] = u
        BY <1>13, <2>7
      <3>3. QED
        BY SMTT(30), <1>1, <2>11, <3>1, <3>2 DEF ChunkInv
    <2>13. QED
      BY <1>10, <1>13, <2>9, <2>10, <2>12 DEF LineInv
  <1>14. QED
    BY <1>1, <1>12, <1>13
(* The pass loop: a pass starts where a chain opens, and ends at its end.  *)
LEMMA MainLaid == TypeInv /\ LaidInv /\ MainStep => LaidInv'
  <1> SUFFICES ASSUME TypeInv, LaidInv, MainStep PROVE LaidInv'
    OBVIOUS
  <1>1. UNCHANGED <<prog, target, isOrgDef, consts, org, trace>> /\ steady' = steady
    BY DEF MainStep, StartPass, CannotOpen, NoSource, EndPass, Exit, input, symbols, layout
  <1>2. /\ steady' = Steady(prog)' /\ pass \in {0, 1, 2} /\ 0..Passes-1 = {0, 1} /\ Passes = 2
        /\ pc \in {"args", "main"} \cup Assembling
    <2>1. 0..2 = {0, 1, 2} /\ 0..2-1 = {0, 1}
      OBVIOUS
    <2>2. pass \in {0, 1, 2} /\ 0..Passes-1 = {0, 1} /\ Passes = 2
      BY <2>1 DEF TypeInv, PlaceInv, Passes
    <2>3. pc \in {"args", "main"} \cup Assembling
      BY DEF MainStep, StartPass, CannotOpen, NoSource, EndPass, Exit, Assembling
    <2>4. QED
      BY <1>1, <2>2, <2>3 DEF LaidInv
  <1>3. \A tab, x : /\ Chain(tab, x) => Chain(tab, x)'
                    /\ EntriesOf(tab, x) => EntriesOf(tab, x)'
                    /\ RanOut(x) => RanOut(x)'
    BY <1>1, ChainStays
  <1> SUFFICES ASSUME steady', Settled'
               PROVE  (PassesInv /\ ChainedInv /\ LineInv /\ ChunkInv /\ DollarInv)'
    BY <1>2 DEF LaidInv
  <1>4. ASSUME Settled PROVE ChainedInv' /\ DollarInv' /\ PassesInv
    <2>1. PassesInv /\ ChainedInv /\ DollarInv
      BY <1>1, <1>4 DEF LaidInv
    <2>2. ChainedInv'
      BY <1>1, <1>3, <2>1 DEF ChainedInv
    <2>3. pc \notin {"args", "exit"}
      BY DEF MainStep, StartPass, CannotOpen, NoSource, EndPass, Exit
    <2>4. DollarInv'
      BY <1>1, <2>1, <2>3 DEF DollarInv
    <2>5. QED
      BY <2>1, <2>2, <2>4
  <1>5. CASE StartPass
    <2>1. /\ pc = "main" /\ pass' = pass /\ pass \in {0, 1} /\ pc' = "line" /\ at' = 1
          /\ ptr' = [TEXT |-> org, DATA |-> 0, BSS |-> 0] /\ section' = "TEXT" /\ scope' = NoScope
      <3>1. pass < 2
        BY <1>2, <1>5 DEF StartPass
      <3>2. pass \in {0, 1}
        BY <1>2, <3>1
      <3>3. QED
        BY <1>5, <3>2 DEF StartPass
    <2>2. Settled
      BY <2>1 DEF Settled
    <2>3. trace[pass] = <<>> /\ PassesInv
      BY <1>2, <1>4, <2>1, <2>2 DEF PassesInv
    <2>4. PassesInv'
      <3>1. ASSUME NEW p \in {0, 1}
            PROVE  /\ p > pass => trace[p] = <<>>
                   /\ p < pass => RanOut(trace[p])'
        <4>1. p > pass => trace[p] = <<>>
          BY <1>2, <2>3 DEF PassesInv
        <4>2. p < pass => RanOut(trace[p])
          BY <1>2, <2>3 DEF PassesInv
        <4>3. p < pass => RanOut(trace[p])'
          BY <1>1, <1>3, <4>2
        <4>4. QED
          BY <4>1, <4>3
      <3>2. QED
        BY <1>1, <1>2, <2>1, <3>1 DEF PassesInv
    <2> PICK now : now = Now'
      OBVIOUS
    <2>5. /\ now.section = "TEXT" /\ now.scope = NoScope /\ now.ptrs[1]["DATA"] = 0
          /\ now.ptrs[1]["BSS"] = 0 /\ now.ptrs[1]["TEXT"] = org
      BY <2>1 DEF Now
    <2>6. Opens(now)'
      BY <1>1, <2>5 DEF Opens, OrgStays
    <2>7. LineInv'
      <3>1. Joins(consts, trace[pass], 1, now)'
        BY <2>6 DEF Joins
      <3>2. Len(trace'[pass]) = 1 - 1
        BY <1>1, <2>3
      <3>3. QED
        BY <2>1, <3>1, <3>2 DEF LineInv
    <2>8. QED
      BY <1>4, <2>1, <2>2, <2>4, <2>7 DEF ChunkInv
  <1>6. CASE CannotOpen
    <2>1. pc = "main" /\ pass' = pass /\ pass \in {0, 1} /\ pc' = "exit" /\ errors' # {}
      <3>1. pass < 2
        BY <1>2, <1>6 DEF CannotOpen
      <3>2. pass \in {0, 1}
        BY <1>2, <3>1
      <3>3. "open" \in errors'
        BY <1>6 DEF CannotOpen, Report, ErrorKinds
      <3>4. QED
        BY <1>6, <3>2, <3>3 DEF CannotOpen
    <2>2. pass = 0 /\ Settled
      BY <2>1 DEF Settled
    <2>3. PassesInv'
      <3>1. ASSUME NEW p \in {0, 1} PROVE p > pass => trace[p] = <<>>
        BY <1>2, <1>4, <2>2 DEF PassesInv
      <3>2. QED
        BY <1>1, <1>2, <2>1, <2>2, <3>1 DEF PassesInv
    <2>4. QED
      BY <1>4, <2>1, <2>2, <2>3 DEF LineInv, ChunkInv
  <1>7. CASE NoSource
    <2>1. pass' = 2 /\ errors' # {} /\ pc' = "main"
      <3>1. "source" \in errors'
        BY <1>7 DEF NoSource, Report, ErrorKinds
      <3>2. QED
        BY <1>2, <1>7, <3>1 DEF NoSource
    <2>2. ~Settled'
      BY <2>1 DEF Settled
    <2>3. QED
      BY <2>2
  <1>8. CASE EndPass
    <2>1. /\ pc = "end" /\ pass' = pass + 1 /\ pc' = "main" /\ UNCHANGED <<errors, warnings>>
          /\ pass \in {0, 1}
      BY <1>2, <1>8 DEF EndPass, verdict, TypeInv, PlaceInv, Assembling
    <2>2. Settled
      BY <2>1 DEF Settled
    <2>3. PassesInv'
      <3>1. ASSUME NEW p \in {0, 1}
            PROVE  /\ p >= pass + 1 => trace[p] = <<>>
                   /\ p < pass + 1 => RanOut(trace[p])'
        <4>1. p >= pass + 1 => trace[p] = <<>>
          BY <1>2, <1>4, <2>1, <2>2 DEF PassesInv
        <4>2. p < pass + 1 => RanOut(trace[p])
          BY <1>2, <1>4, <2>1, <2>2 DEF PassesInv
        <4> PICK x : x = trace[p]
          OBVIOUS
        <4>3. p < pass + 1 => RanOut(x)'
          BY <1>3, <4>2
        <4>4. trace'[p] = x
          BY <1>1
        <4>5. QED
          BY <4>1, <4>3, <4>4
      <3>2. \A p \in {0, 1} : p > pass + 1 \/ p = pass + 1 => p >= pass + 1
        BY <2>1
      <3>3. QED
        BY <1>1, <1>2, <2>1, <3>1, <3>2 DEF PassesInv
    <2>4. QED
      BY <1>4, <2>1, <2>2, <2>3 DEF LineInv, ChunkInv
  <1>9. CASE Exit
    <2>1. pc = "main" /\ pass' = pass /\ pass = 2 /\ pc' = "exit" /\ UNCHANGED <<errors, warnings>>
      BY <1>2, <1>9 DEF Exit, verdict
    <2>2. Settled
      BY <2>1 DEF Settled
    <2>3. PassesInv'
      <3>1. ASSUME NEW p \in {0, 1} PROVE RanOut(trace[p])'
        <4>1. RanOut(trace[p])
          BY <1>2, <1>4, <2>1, <2>2 DEF PassesInv
        <4> PICK x : x = trace[p]
          OBVIOUS
        <4>2. RanOut(x)' /\ trace'[p] = x
          BY <1>1, <1>3, <4>1
        <4>3. QED
          BY <4>2
      <3>2. \A p \in {0, 1} : ~(p > 2) /\ p # 2
        OBVIOUS
      <3>3. QED
        BY <1>1, <1>2, <2>1, <3>1, <3>2 DEF PassesInv
    <2>4. QED
      BY <1>4, <2>1, <2>2, <2>3 DEF LineInv, ChunkInv
  <1>10. QED
    BY <1>5, <1>6, <1>7, <1>8, <1>9 DEF MainStep

(* A constant or a %define is added to the table.                          *)
LEMMA AddedConst ==
  ASSUME NEW tab, IsTable(tab), NEW n \in Name, NEW v \in Int
  PROVE  /\ n \in DOMAIN AddConst(tab, n, "EXPR", v) /\ AddConst(tab, n, "EXPR", v)[n].type = "EXPR"
         /\ IsTable(AddConst(tab, n, "DEFINE", v)) /\ n \in DOMAIN AddConst(tab, n, "DEFINE", v)
  <1>1. "EXPR" \in ConstTypes /\ "DEFINE" \in ConstTypes
    BY DEF ConstTypes
  <1>2. \A t \in ConstTypes : /\ IsTable(AddConst(tab, n, t, v))
                              /\ DOMAIN AddConst(tab, n, t, v) = DOMAIN tab \cup {n}
                              /\ AddConst(tab, n, t, v)[n].type = t
    BY AddConstTable
  <1>3. QED
    BY <1>1, <1>2, Zenon

(* Before the passes there is no line; $ is there when they start.         *)
LEMMA ArgumentLaid == TypeInv /\ FileInv /\ LaidInv /\ Arguments => LaidInv'
  <1> SUFFICES ASSUME TypeInv, FileInv, LaidInv, Arguments PROVE LaidInv'
    OBVIOUS
  <1>1. /\ pc = "args" /\ UNCHANGED <<prog, steady, pass, trace>> /\ pass = 0
        /\ pc' \in {"args", "exit"} \/ (Settle /\ pc' = "main")
    BY DEF Arguments, ArgumentStep, TakeFormat, UnknownFormat, SetOutput, SetOrigin, SetLevel,
      Predefine, BadOption, TakeInput, SecondInput, NoOutput, Settle, GiveUp, Skip, Option, FileInv
  <1>2. steady' = Steady(prog)' /\ 0..Passes-1 = {0, 1} /\ Settled
    <2>1. 0..2-1 = {0, 1}
      OBVIOUS
    <2>2. QED
      BY <1>1, <2>1 DEF LaidInv, Passes, Settled
  <1> SUFFICES ASSUME steady PROVE (PassesInv /\ ChainedInv /\ LineInv /\ ChunkInv /\ DollarInv)'
    BY <1>1, <1>2 DEF LaidInv
  <1>3. \A p \in {0, 1} : trace[p] = <<>>
    <2>1. PassesInv
      BY <1>2 DEF LaidInv
    <2>2. 1 > 0
      OBVIOUS
    <2>3. QED
      BY <1>1, <1>2, <2>1, <2>2 DEF PassesInv
  <1>4. PassesInv'
    <2>1. \A p \in {0, 1} : ~(p < 0)
      OBVIOUS
    <2>2. pc' # "end"
      BY <1>1
    <2>3. QED
      BY <1>1, <1>2, <1>3, <2>1, <2>2 DEF PassesInv
  <1>5. ChainedInv'
    <2>1. \A tab : Chain(tab, <<>>)' /\ EntriesOf(tab, <<>>)'
      BY DEF Chain, EntriesOf
    <2>2. QED
      BY <1>1, <1>2, <1>3, <2>1 DEF ChainedInv
  <1>6. DollarInv'
    <2>1. CASE Settle
      <3> PICK v : v = entry'.value
        OBVIOUS
      <3> DEFINE mid == AddConst(consts, Dollar, "EXPR", v)
      <3>1. consts' = AddConst(mid, Origin, "EXPR", org')
        BY <2>1 DEF Settle
      <3>2. Dollar # Origin
        BY DEF Dollar, Origin
      <3>3. Dollar \in Name /\ "EXPR" \in ConstTypes /\ IsTable(consts) /\ v \in Int
        <4>1. entry' \in [value : 0..Word-1, def : BOOLEAN]
          <5>1. TypeInv'
            BY TypeArguments
          <5>2. QED
            BY <5>1 DEF TypeInv, LayoutInv
        <4>2. entry'.value \in Int
          BY <4>1, WordInt
        <4>3. QED
          <5>1. Dollar \in Name
            BY DollarAssumption DEF DollarAssumption, Dollar, Name
          <5>2. QED
            BY <4>2, <5>1 DEF TypeInv, TableInv, ConstTypes
      <3>4. Dollar \in DOMAIN mid /\ mid[Dollar].type = "EXPR"
        BY <3>3, AddedConst
      <3> HIDE DEF mid
      <3>5. consts'[Dollar] = mid[Dollar]
        BY <3>1, <3>2, <3>4, AddConstOthers
      <3>6. Dollar \in DOMAIN consts'
        BY <3>1, <3>4 DEF AddConst
      <3>7. QED
        BY <3>4, <3>5, <3>6 DEF DollarInv
    <2>2. CASE pc' \in {"args", "exit"}
      <3>1. pass' = 0
        BY <1>1
      <3>2. ~(0 > 0)
        OBVIOUS
      <3>3. QED
        BY <2>2, <3>1, <3>2 DEF DollarInv
    <2>3. QED
      BY <1>1, <2>1, <2>2
  <1>7. LineInv' /\ ChunkInv'
    BY <1>1 DEF LineInv, ChunkInv
  <1>8. QED
    BY <1>4, <1>5, <1>6, <1>7

LEMMA LaidInit == Init => LaidInv
  <1> SUFFICES ASSUME Init PROVE LaidInv
    OBVIOUS
  <1>1. /\ steady = Steady(prog) /\ pc = "args" /\ pass = 0 /\ trace = [p \in 0..Passes-1 |-> <<>>]
    BY DEF Init, ArgumentsInit
  <1>2. PassesInv
    <2>1. \A p \in 0..Passes-1 : trace[p] = <<>> /\ ~(p < 0)
      BY <1>1 DEF Passes
    <2>2. QED
      BY <1>1, <2>1 DEF PassesInv
  <1>3. ChainedInv
    <2>1. \A p \in 0..Passes-1 : trace[p] = <<>>
      BY <1>1
    <2>2. \A tab : Chain(tab, <<>>) /\ EntriesOf(tab, <<>>)
      BY DEF Chain, EntriesOf
    <2>3. QED
      BY <2>1, <2>2 DEF ChainedInv
  <1>4. QED
    BY <1>1, <1>2, <1>3 DEF LaidInv, LineInv, ChunkInv, DollarInv

LEMMA LaidKept == TypeInv /\ FileInv /\ ReachInv /\ LaidInv /\ [Next]_vars => LaidInv'
  <1> SUFFICES ASSUME TypeInv, FileInv, ReachInv, LaidInv, [Next]_vars PROVE LaidInv'
    OBVIOUS
  <1>1. CASE Next
    BY <1>1, LineLaid, EmitLaid, MainLaid, ArgumentLaid DEF Next
  <1>2. CASE UNCHANGED vars
    <2>1. /\ UNCHANGED <<prog, steady, target, isOrgDef, errors, warnings, scope, consts, section, ptr, org>>
          /\ UNCHANGED <<pass, pc, at, todo, trace>>
      BY <1>2 DEF vars, input, symbols, verdict, layout
    <2>2. \A tab, x : /\ Chain(tab, x) => Chain(tab, x)'
                      /\ EntriesOf(tab, x) => EntriesOf(tab, x)'
                      /\ RanOut(x) => RanOut(x)'
                      /\ \A i, u : Joins(tab, x, i, u) => Joins(tab, x, i, u)'
                      /\ \A i, sec : ChunksIn(i, sec) = ChunksIn(i, sec)'
                      /\ \A i, u : ScopeIn(i, u) = ScopeIn(i, u)'
      BY <2>1, ChainStays
    <2>3. steady' = Steady(prog)' /\ Settled' = Settled
      BY <2>1 DEF LaidInv, Settled
    <2>4. PassesInv => PassesInv'
      BY <2>1, <2>2 DEF PassesInv
    <2>5. ChainedInv => ChainedInv'
      BY <2>1, <2>2 DEF ChainedInv
    <2>6. LineInv => LineInv'
      <3>1. Now' = Now
        BY <2>1 DEF Now
      <3> PICK now : now = Now
        OBVIOUS
      <3>2. Joins(consts, trace[pass], at, now) => Joins(consts, trace[pass], at, now)'
        BY <2>1, <2>2
      <3>3. QED
        BY <2>1, <3>1, <3>2 DEF LineInv
    <2>7. ChunkInv => ChunkInv'
      <3> PICK t : t = trace[pass][at]
        OBVIOUS
      <3>1. ScopeIn(at, t)' = ScopeIn(at, t) /\ ChunksIn(at, section)' = ChunksIn(at, section)
        BY <2>1, <2>2
      <3>2. Coming(at, t) => Coming(at, t)'
        BY <2>1, <3>1 DEF Coming
      <3>3. Began(t)' = Began(t)
        BY DEF Began
      <3>4. QED
        BY <2>1, <3>2, <3>3 DEF ChunkInv
    <2>8. DollarInv => DollarInv'
      BY <2>1 DEF DollarInv
    <2>9. QED
      BY <2>1, <2>3, <2>4, <2>5, <2>6, <2>7, <2>8 DEF LaidInv
  <1>3. QED
    BY <1>1, <1>2
-----------------------------------------------------------------------------
(* Two passes that have run out are as long as each other.                 *)
LEMMA OneEnd ==
  ASSUME prog \in Programs, NEW a \in Seq(TraceLine), NEW b \in Seq(TraceLine), RanOut(a), RanOut(b)
  PROVE  Len(a) = Len(b)
  <1>1. Len(a) \in Nat /\ Len(b) \in Nat /\ Len(prog) \in Nat /\ DOMAIN prog = 1..Len(prog)
    <2>1. prog \in Seq(Statement)
      BY ProgramsAssumption DEF ProgramsAssumption
    <2>2. QED
      BY <2>1
  <1>2. ASSUME NEW x \in Nat, NEW y \in Nat, x < y, y <= Len(prog), Clear(y), x \in DOMAIN prog, Stops(x)
        PROVE  FALSE
    BY <1>2 DEF Clear
  <1>3. ASSUME Len(a) < Len(b) PROVE FALSE
    BY <1>1, <1>2, <1>3 DEF RanOut
  <1>4. ASSUME Len(b) < Len(a) PROVE FALSE
    BY <1>1, <1>2, <1>4 DEF RanOut
  <1>5. QED
    BY <1>1, <1>3, <1>4

(* Both passes of a steady program that is assembled without complaint lay *)
(* every line and every chunk out alike, ORG itself aside: what pass 1     *)
(* reads of a label further down is where it puts it (MSA.C:328-331,       *)
(* ASSEMBLR.C:480).                                                        *)
THEOREM PassesAlike == Spec => []PassesLayOutAlike
  <1>1. TypeInv /\ FileInv /\ ReachInv /\ LaidInv /\ [Next]_vars =>
          TypeInv' /\ FileInv' /\ ReachInv' /\ LaidInv'
    BY TypesKept, FileKept, ReachKept, LaidKept
  <1>2. ASSUME TypeInv, FileInv, LaidInv PROVE PassesLayOutAlike
    <2> SUFFICES ASSUME Delivered, steady
                 PROVE  /\ Len(trace[0]) = Len(trace[1])
                        /\ \A i \in DOMAIN trace[0] : prog[i].op = "org" \/ trace[0][i] = trace[1][i]
      BY DEF PassesLayOutAlike
    <2>1. /\ 0..Passes-1 = {0, 1} /\ pass = 2 /\ errors \cup warnings = {} /\ prog \in Programs
          /\ DOMAIN trace = {0, 1}
      <3>1. 0..2-1 = {0, 1}
        OBVIOUS
      <3>2. QED
        BY <1>2, <3>1 DEF FileInv, OutputOnlyIfClean, Delivered, Passes, TypeInv, PlaceInv, RecordInv
    <2>2. Steady(prog) /\ PassesInv /\ ChainedInv
      BY <1>2, <2>1 DEF LaidInv, Settled
    <2> PICK a : a = trace[0]
      OBVIOUS
    <2> PICK b : b = trace[1]
      OBVIOUS
    <2>3. /\ a \in Seq(TraceLine) /\ b \in Seq(TraceLine) /\ RanOut(a) /\ RanOut(b)
          /\ Chain(consts, a) /\ Chain(consts, b)
      BY <1>2, <2>1, <2>2 DEF TypeInv, RecordInv, PassesInv, ChainedInv
    <2>4. IsTable(consts) /\ Dollar \in DOMAIN consts
      BY <1>2, <2>1, <2>2 DEF TypeInv, TableInv, LaidInv, Settled, DollarInv
    <2>5. Len(a) = Len(b) /\ DOMAIN a = DOMAIN b
      <3>1. Len(a) = Len(b)
        BY <2>1, <2>3, OneEnd
      <3>2. \A x, y \in Seq(TraceLine) : Len(x) = Len(y) => DOMAIN x = DOMAIN y
        OBVIOUS
      <3>3. QED
        BY <2>3, <3>1, <3>2
    <2>6. ASSUME NEW i \in DOMAIN a PROVE prog[i].op = "org" \/ a[i] = b[i]
      <3>1. BeginAlike(i, a[i], b[i])
        BY <2>1, <2>2, <2>3, <2>4, <2>5, OneLayout
      <3>2. /\ i \in DOMAIN prog /\ a[i].ptrs # <<>> /\ b[i].ptrs # <<>>
            /\ RunsOn(consts, i, a[i]) /\ RunsOn(consts, i, b[i])
        BY <2>3, <2>5 DEF Chain
      <3>3. ASSUME NEW x \in Seq(TraceLine), Chain(consts, x), RanOut(x), i \in DOMAIN x
            PROVE  AllThere(i, x[i]) /\ x[i] \in TraceLine
        <4>1. i \in 1..Len(x) /\ x[i] \in TraceLine /\ Len(x) \in Nat
          BY <3>3
        <4>2. CASE i = Len(x)
          BY <3>3, <4>1, <4>2 DEF RanOut
        <4>3. CASE i # Len(x)
          <5>1. i + 1 \in DOMAIN x /\ i + 1 # 1 /\ (i + 1) - 1 = i
            BY <3>3, <4>1, <4>3
          <5>2. Follows(consts, i, x[i], x[i + 1])
            BY <3>3, <5>1 DEF Chain, Joins
          <5>3. QED
            BY <4>1, <5>2 DEF Follows
        <4>4. QED
          BY <4>2, <4>3
      <3>4. AllThere(i, a[i]) /\ AllThere(i, b[i]) /\ a[i] \in TraceLine /\ b[i] \in TraceLine
        BY <2>3, <2>5, <3>3
      <3>5. a[i] = b[i] \/ (~isOrgDef /\ prog[i].op = "org")
        BY <2>1, <2>2, <2>4, <3>1, <3>2, <3>4, NextAlike
      <3>6. QED
        BY <3>5
    <2>7. QED
      BY <2>5, <2>6
  <1>3. Init => TypeInv /\ FileInv /\ ReachInv /\ LaidInv
    BY TypeInit, FileInit, ReachInit, LaidInit
  <1>4. QED
    BY <1>1, <1>2, <1>3, PTL DEF Spec
-----------------------------------------------------------------------------
(* What a line does to the sections and the export marks of the table: it  *)
(* sets its own label's, and takes no mark away.                           *)
Marked(t1, t2, n) ==
  n \in DOMAIN t1 => n \in DOMAIN t2 /\ t2[n].section = t1[n].section /\ (t1[n].export => t2[n].export)

LEMMA LineMarks ==
  ASSUME TypeInv, LineStep, ~Undef, at <= Len(prog)
  PROVE  /\ Stmt.op # "%define" => \A n : Marked(LineConsts, consts', n)
         /\ Stmt.op = "%define" => \A n : Marked(consts, consts', n)
         /\ Stmt.op = "export" /\ "local" \notin errors' =>
              /\ Stmt.names[1].kind # "local"
              /\ Spelled(Stmt.names[1]) \in DOMAIN LineConsts => consts'[Spelled(Stmt.names[1])].export
  <1>p. at \in DOMAIN prog /\ pc = "line"
    <2>1. pc = "line"
      BY LineWays
    <2>2. QED
      BY <2>1, LineTypes DEF TypeInv, PlaceInv
  <1>t. IsTable(LineConsts) /\ LineName \in Name /\ IsTable(consts) /\ Origin \in DOMAIN LineConsts
    BY <1>p, LineTable DEF GoodTable, TypeInv, TableInv
  <1>x. ~Exhausted
    <2>1. at \in Nat /\ Len(prog) \in Nat
      BY ProgramsAssumption DEF ProgramsAssumption, TypeInv, PlaceInv
    <2>2. QED
      BY <2>1 DEF Exhausted
  <1>a. ASSUME NEW tab, IsTable(tab), NEW name, NEW type, NEW v
        PROVE  \A n : Marked(tab, AddConst(tab, name, type, v), n)
    <2>1. name \in DOMAIN tab => tab[name] \in Entry
      BY <1>a DEF IsTable
    <2>2. name \in DOMAIN tab =>
            /\ [tab[name] EXCEPT !.type = type, !.value = v].section = tab[name].section
            /\ [tab[name] EXCEPT !.type = type, !.value = v].export = tab[name].export
      BY <2>1 DEF Entry
    <2> DEFINE e == [tab[name] EXCEPT !.type = type, !.value = v]
               new == AddConst(tab, name, type, v)
    <2>3. /\ name \in DOMAIN tab => name \in DOMAIN new /\ new[name] = e
          /\ \A n \in DOMAIN tab \ {name} : n \in DOMAIN new /\ new[n] = tab[n]
      BY DEF AddConst
    <2> HIDE DEF e, new
    <2>4. \A n : Marked(tab, new, n)
      BY <2>2, <2>3 DEF Marked, e
    <2>5. QED
      BY <2>4 DEF new
  <1>1. CASE LabelAlone \/ List \/ Instr \/ NoRow \/ OutsideText \/ Reserve \/ SectionDirective \/ OrgRefused
             \/ End \/ SyntaxError
    <2>1. consts' = LineConsts /\ Stmt.op \notin {"equ", "%define", "export"}
      BY <1>1 DEF LabelAlone, List, Instr, NoRow, OutsideText, Reserve, SectionDirective, OrgRefused, End,
                  SyntaxError, Starts, OnLine
    <2>2. QED
      BY <2>1 DEF Marked
  <1>2. CASE Export
    <2> DEFINE name == [inv |-> 0, path |-> <<Stmt.names[1].name>>]
    <2>1. /\ Stmt.op = "export"
          /\ Stmt.names[1].kind = "local" => consts' = LineConsts /\ "local" \in errors'
          /\ Stmt.names[1].kind # "local" =>
               consts' = IF name \in DOMAIN LineConsts THEN [LineConsts EXCEPT ![name].export = TRUE] ELSE LineConsts
      BY <1>2 DEF Export, OnLine, Report, ErrorKinds
    <2>2. name = Spelled(Stmt.names[1])
      BY DEF Spelled
    <2> HIDE DEF name
    <2> DEFINE t == LineConsts
    <2>3. name \in DOMAIN t => t[name] \in Entry
      BY <1>t DEF IsTable
    <2> HIDE DEF t
    <2>4. name \in DOMAIN t =>
            /\ [t EXCEPT ![name].export = TRUE][name].section = t[name].section
            /\ [t EXCEPT ![name].export = TRUE][name].export = TRUE
            /\ \A n \in DOMAIN t \ {name} : [t EXCEPT ![name].export = TRUE][n] = t[n]
            /\ DOMAIN [t EXCEPT ![name].export = TRUE] = DOMAIN t
      BY <2>3 DEF Entry
    <2>5. name \in DOMAIN t => \A n : Marked(t, [t EXCEPT ![name].export = TRUE], n)
      BY <2>4 DEF Marked
    <2>6. \A n : Marked(t, t, n)
      BY DEF Marked
    <2>7. \A n : Marked(t, consts', n)
      BY <2>1, <2>5, <2>6 DEF t
    <2>8. Stmt.names[1].kind # "local" /\ name \in DOMAIN t => consts'[name].export
      BY <2>1, <2>4 DEF t
    <2>9. QED
      BY <2>1, <2>2, <2>7, <2>8 DEF t
  <1>3. CASE Import
    <2>1. Stmt.op = "import"
      BY <1>3 DEF Import, OnLine
    <2>2. \A n : Marked(LineConsts, consts', n)
      <3>1. CASE target # "rdf"
        <4>1. consts' = LineConsts
          BY <1>3, <3>1, ImportEffect
        <4>2. QED
          BY <4>1 DEF Marked
      <3>2. CASE target = "rdf"
        <4>1. PICK to \in ImportStates : Adds(LineState, to) /\ consts' = to.tab
          BY <1>3, <3>2, ImportEffect
        <4>2. LineState.tab = LineConsts
          BY DEF LineState
        <4> HIDE DEF LineState, LineConsts
        <4>3. QED
          BY <4>1, <4>2 DEF Adds, Marked
      <3>3. QED
        BY <3>1, <3>2
    <2>3. QED
      BY <2>1, <2>2
  <1>4. CASE OrgDirective
    <2>1. Stmt.op = "org" /\ \E v : consts' = [LineConsts EXCEPT ![Origin].value = v]
      BY <1>4 DEF OrgDirective, OnLine
    <2> DEFINE t == LineConsts
    <2>2. PICK v : consts' = [t EXCEPT ![Origin].value = v]
      BY <2>1
    <2>3. t[Origin] \in Entry /\ Origin \in DOMAIN t
      BY <1>t DEF IsTable
    <2> HIDE DEF t
    <2>4. /\ [t EXCEPT ![Origin].value = v][Origin].section = t[Origin].section
          /\ [t EXCEPT ![Origin].value = v][Origin].export = t[Origin].export
          /\ \A n \in DOMAIN t \ {Origin} : [t EXCEPT ![Origin].value = v][n] = t[n]
          /\ DOMAIN [t EXCEPT ![Origin].value = v] = DOMAIN t
      BY <2>3 DEF Entry
    <2>5. \A n : Marked(t, consts', n)
      BY <2>2, <2>4 DEF Marked
    <2>6. QED
      BY <2>1, <2>5 DEF t
  <1>5. CASE Equ
    <2>1. Stmt.op = "equ" /\ \E v : consts' = AddConst(LineConsts, LineName, "EXPR", v)
      BY <1>5 DEF Equ, OnLine
    <2>2. \A n : Marked(LineConsts, consts', n)
      BY <1>a, <1>t, <2>1
    <2>3. QED
      BY <2>1, <2>2
  <1>6. CASE Define
    <2> DEFINE name == [inv |-> 0, path |-> <<Stmt.names[1].name>>]
               body == DefineBody(Stmt.names[2])
               mid  == AddConst(consts, name, "DEFINE", 0)
    <2>1. /\ Stmt.op = "%define"
          /\ consts' = consts \/ consts' = SetExtra(mid, name, body)
      BY <1>6 DEF Define, OnLine
    <2>2. \A n : Marked(consts, mid, n)
      BY <1>a, <1>t
    <2>3. IsTable(mid) /\ name \in DOMAIN mid
      <3>1. name \in Name
        <4>1. Stmt \in Statement /\ Len(Stmt.names) = 2
          BY <1>p, <2>1, LineTypes DEF TypeInv, PlaceInv
        <4>2. Stmt.names[1] \in Sym
          BY <4>1 DEF Statement
        <4>3. QED
          BY <4>2, SymTypes
      <3> HIDE DEF name
      <3>2. 0 \in Int
        OBVIOUS
      <3>3. QED
        BY <1>t, <3>1, <3>2, AddedConst
    <2>4. mid[name] \in Entry
      BY <2>3 DEF IsTable
    <2> HIDE DEF name, body, mid
    <2>5. /\ SetExtra(mid, name, body)[name].section = mid[name].section
          /\ SetExtra(mid, name, body)[name].export = mid[name].export
          /\ \A n \in DOMAIN mid \ {name} : SetExtra(mid, name, body)[n] = mid[n]
          /\ DOMAIN SetExtra(mid, name, body) = DOMAIN mid
      BY <2>3, <2>4 DEF SetExtra, Entry
    <2>6. \A n : Marked(mid, SetExtra(mid, name, body), n)
      BY <2>5 DEF Marked
    <2>7. \A n : Marked(consts, consts', n)
      BY <2>1, <2>2, <2>6 DEF Marked
    <2>8. QED
      BY <2>1, <2>7
  <1>7. QED
    BY <1>x, <1>1, <1>2, <1>3, <1>4, <1>5, <1>6 DEF LineStep

(* The line's label is given the section; the others keep theirs.          *)
LEMMA LineSections ==
  ASSUME TypeInv, pc = "line", at <= Len(prog)
  PROVE  /\ \A n \in DOMAIN consts : n \in DOMAIN LineConsts /\ (consts[n].export => LineConsts[n].export)
         /\ \A n \in DOMAIN consts : ~HasLabel \/ n # LineName => LineConsts[n].section = consts[n].section
         /\ HasLabel => LineName \in DOMAIN LineConsts /\ LineConsts[LineName].section = section
  <1> DEFINE h   == Here
             tab == [consts EXCEPT ![Dollar].value = h]
             add == AddConst(tab, LineName, LabelType(section), h)
             new == SetSection(add, LineName, section)
  <1>1. /\ Dollar \in DOMAIN consts /\ IsTable(consts) /\ LineName \in Name /\ section \in Sections /\ h \in Int
    BY LineTable DEF TypeInv, TableInv, LayoutInv, Here
  <1>2. LineConsts = IF HasLabel THEN new ELSE tab
    BY DEF LineConsts
  <1> HIDE DEF h
  <1>3. \A n \in DOMAIN consts : consts[n] \in Entry
    BY <1>1 DEF IsTable
  <1>4. /\ DOMAIN tab = DOMAIN consts
        /\ \A n \in DOMAIN consts : /\ tab[n] \in Entry /\ tab[n].section = consts[n].section
                                    /\ tab[n].export = consts[n].export
    <2>1. [consts[Dollar] EXCEPT !.value = h] \in Entry
          /\ [consts[Dollar] EXCEPT !.value = h].section = consts[Dollar].section
          /\ [consts[Dollar] EXCEPT !.value = h].export = consts[Dollar].export
      BY <1>1, <1>3 DEF Entry
    <2>2. tab[Dollar] = [consts[Dollar] EXCEPT !.value = h] /\ \A n \in DOMAIN consts \ {Dollar} : tab[n] = consts[n]
      BY <1>1
    <2>3. QED
      BY <1>3, <2>1, <2>2
  <1> HIDE DEF tab
  <1>5. /\ LineName \in DOMAIN new /\ new[LineName].section = section
        /\ \A n \in DOMAIN tab : /\ n \in DOMAIN new /\ (tab[n].export => new[n].export)
                                 /\ n # LineName => new[n] = tab[n]
    <2> DEFINE name == LineName
               type == LabelType(section)
               base == IF name \in DOMAIN tab THEN tab[name] ELSE Fresh
    <2>1. base \in Entry
      BY <1>4, FreshType
    <2>2. add = [n \in DOMAIN tab \cup {name} |->
                   IF n # name THEN tab[n] ELSE [base EXCEPT !.type = type, !.value = h]]
      BY DEF AddConst
    <2>3. new = [add EXCEPT ![name].section = section]
      BY DEF SetSection
    <2> HIDE DEF name, type, base, add, new
    <2>4. add[name] = [base EXCEPT !.type = type, !.value = h] /\ name \in DOMAIN add
      BY <2>2
    <2>5. new[name] = [[base EXCEPT !.type = type, !.value = h] EXCEPT !.section = section]
      BY <2>3, <2>4
    <2>6. new[name].section = section /\ new[name].export = base.export
      BY <2>1, <2>5 DEF Entry
    <2>7. name \in DOMAIN new /\ \A n \in DOMAIN tab \ {name} : n \in DOMAIN new /\ new[n] = tab[n]
      BY <2>2, <2>3
    <2>8. name \in DOMAIN tab => base = tab[name]
      BY DEF base
    <2>9. QED
      BY <2>6, <2>7, <2>8 DEF name
  <1> HIDE DEF new
  <1>6. QED
    BY <1>2, <1>4, <1>5
-----------------------------------------------------------------------------
(* What pass 1 has of the labels and the EXPORTs behind it: the section of *)
(* each label, and the mark of each name exported; and what it writes of   *)
(* them.                                                                   *)
PlacedInv ==
  \A j \in DOMAIN trace[1] :
    prog[j].label.kind # "none" /\ ~trace[1][j].equ =>
      consts[trace[1][j].name].section = trace[1][j].section
HandledInv ==
  \A i \in DOMAIN trace[1] :
    /\ prog[i].op = "instr" => lookupLex(prog[i].ins.cmd) # "NONE"
    /\ prog[i].op = "export" =>
         \A k \in DOMAIN trace[0] :
           prog[k].label.kind # "none" /\ trace[0][k].name = Spelled(prog[i].names[1]) =>
             consts[trace[0][k].name].export
Global(n) == [name |-> n, seg |-> SectionId(consts[n].section), ofs |-> consts[n].value]
WrittenInv ==
  pass = Passes /\ target = "rdf" =>
    \A n \in DOMAIN consts : consts[n].export /\ consts[n].type # "IMPORT" => Global(n) \in object.globals
GlobalsInv == steady /\ Settled => PlacedInv /\ HandledInv /\ WrittenInv

(* Before pass 1 has begun there is nothing of it.                         *)
LEMMA NoneBefore ==
  ASSUME PassesInv', pass' = 0 \/ (pass' = 1 /\ pc' \in {"args", "main"})
  PROVE  PlacedInv' /\ HandledInv' /\ WrittenInv'
  <1>1. 1 \in 0..Passes-1 /\ pass' # Passes
    <2>1. 1 \in 0..2-1
      OBVIOUS
    <2>2. QED
      BY <2>1 DEF Passes
  <1>2. trace'[1] = <<>>
    <2>1. 0 # 1 /\ 1 > 0
      OBVIOUS
    <2>2. QED
      BY <1>1, <2>1 DEF PassesInv
  <1>3. QED
    BY <1>1, <1>2 DEF PlacedInv, HandledInv, WrittenInv

(* Where the lines of the passes and the table stay, so does what pass 1   *)
(* has of them.                                                            *)
SameLines ==
  \A p \in {0, 1} :
    /\ DOMAIN trace'[p] = DOMAIN trace[p]
    /\ \A j \in DOMAIN trace[p] : /\ trace'[p][j].name = trace[p][j].name /\ trace'[p][j].equ = trace[p][j].equ
                                  /\ trace'[p][j].section = trace[p][j].section
LEMMA GlobalsStay ==
  ASSUME UNCHANGED <<prog, consts>>, SameLines, PlacedInv, HandledInv
  PROVE  PlacedInv' /\ HandledInv'
  <1>1. PlacedInv'
    BY DEF PlacedInv, SameLines
  <1>2. HandledInv'
    BY DEF HandledInv, SameLines
  <1>3. QED
    BY <1>1, <1>2

LEMMA GlobalsEmit ==
  ASSUME TypeInv, EmitStep, at \in DOMAIN trace[pass], pass \in {0, 1}
  PROVE  UNCHANGED <<prog, consts, pass>> /\ SameLines
  <1>1. UNCHANGED <<prog, consts, pass>> /\ (trace' = trace \/ TracedOn)
    BY EmitGoes
  <1>2. DOMAIN trace = {0, 1} /\ \A p \in {0, 1} : trace[p] \in Seq(TraceLine)
    <2>1. 0..2-1 = {0, 1}
      OBVIOUS
    <2>2. QED
      BY <2>1 DEF TypeInv, RecordInv, Passes
  <1>3. CASE trace' = trace
    BY <1>1, <1>3 DEF SameLines
  <1>4. CASE TracedOn
    <2> PICK q : q = trace[pass]
      OBVIOUS
    <2> PICK x : x = Append(q[at].ptrs, ptr')
      OBVIOUS
    <2>1. trace' = [trace EXCEPT ![pass] = [q EXCEPT ![at] = [q[at] EXCEPT !.ptrs = x]]]
      BY <1>4 DEF TracedOn
    <2>2. q \in Seq(TraceLine) /\ q[at] \in TraceLine
      <3>1. ASSUME NEW S, NEW a \in Seq(S), NEW j \in DOMAIN a PROVE a[j] \in S
        BY <3>1
      <3>2. QED
        BY <1>2, <3>1
    <2> PICK u : u = [q[at] EXCEPT !.ptrs = x]
      OBVIOUS
    <2>3. u.name = q[at].name /\ u.equ = q[at].equ /\ u.section = q[at].section
      BY <2>2 DEF TraceLine
    <2>4. trace'[pass] = [q EXCEPT ![at] = u] /\ \A p \in {0, 1} : p # pass => trace'[p] = trace[p]
      BY <1>2, <2>1
    <2>5. QED
      BY <1>1, <2>3, <2>4 DEF SameLines
  <1>5. QED
    BY <1>1, <1>3, <1>4

(* A line of pass 1 gives its label the section it is in, keeps the others'*)
(* and their marks, and marks what it exports.                             *)
LEMMA GlobalsLine ==
  ASSUME TypeInv, ReachInv, PassesInv, ChainedInv, LineInv, DollarInv, Steady(prog), LineStep, at <= Len(prog),
         pass = 1, errors' \cup warnings' = {}, PlacedInv, HandledInv
  PROVE  PlacedInv' /\ HandledInv'
  <1>1. pc = "line" /\ at \in DOMAIN prog /\ prog \in Programs /\ 0..Passes-1 = {0, 1} /\ DOMAIN trace = {0, 1}
        /\ \A p \in {0, 1} : trace[p] \in Seq(TraceLine)
    <2>1. pc = "line"
      BY LineWays
    <2>2. 0..2-1 = {0, 1}
      OBVIOUS
    <2>3. QED
      BY <2>1, <2>2, LineTypes DEF TypeInv, PlaceInv, RecordInv, Passes
  <1>2. Stmt = prog[at] /\ Stmt.op # "%undef" /\ (Stmt.op = "%define" => Stmt.label.kind = "none")
    <2>1. NoSym.kind = "none"
      BY DEF NoSym
    <2>2. QED
      BY <1>1, <2>1, SteadyLine, ProgramsAssumption DEF ProgramsAssumption, Stmt
  <1>3. ~Undef
    BY <1>2 DEF Undef, OnLine
  <1>4. /\ NewLine \in TraceLine /\ Joins(consts, trace[pass], at, NewLine) /\ Len(trace[1]) = at - 1
        /\ Chain(consts', trace'[1])
    BY <1>1, LineChains
  <1>5. UNCHANGED <<prog, pass>> /\ trace' = [trace EXCEPT ![pass] = Append(trace[pass], NewLine)]
    BY <1>4, LineGoes
  <1> PICK nl : nl = NewLine
    OBVIOUS
  <1> PICK q : q = trace[1]
    OBVIOUS
  <1> PICK c : c = Append(q, nl)
    OBVIOUS
  <1> PICK r : r = trace[0]
    OBVIOUS
  <1>6. trace'[0] = r /\ trace'[1] = c
    BY <1>1, <1>5
  <1>7. /\ c \in Seq(TraceLine) /\ c[at] = nl /\ at \in DOMAIN c
        /\ \A j \in DOMAIN c : j # at => j \in DOMAIN q /\ c[j] = q[j]
    <2>1. ASSUME NEW S, NEW a \in Seq(S), NEW y \in S, NEW n, n = Len(a) + 1
          PROVE  /\ Append(a, y) \in Seq(S) /\ Append(a, y)[n] = y /\ n \in DOMAIN Append(a, y)
                 /\ \A j \in DOMAIN Append(a, y) : j # n => j \in DOMAIN a /\ Append(a, y)[j] = a[j]
      BY <2>1
    <2>2. at = Len(q) + 1
      <3>1. at \in Nat
        BY DEF TypeInv, PlaceInv
      <3>2. QED
        BY <1>4, <3>1
    <2>3. QED
      BY <1>1, <1>4, <2>1, <2>2
  <1>8. \A j \in DOMAIN c : j \in DOMAIN prog /\ c[j].name = NamesOf(prog)[j]
    <2>1. Chain(consts, c)
      <3>1. /\ prog \in Programs /\ Steady(prog) /\ q \in Seq(TraceLine) /\ at \in DOMAIN prog
            /\ Len(q) = at - 1 /\ Chain(consts, q) /\ nl \in TraceLine /\ Joins(consts, q, at, nl)
        BY <1>1, <1>4 DEF ChainedInv
      <3>2. Len(nl.ptrs) = 1 /\ Labelled(at, nl)
        <4>1. nl.ptrs = <<ptr>> /\ Labelled(at, NewLine)
          BY <1>2 DEF NewLine, Labelled, LineName
        <4>2. QED
          BY <4>1
      <3>3. ASSUME NEW x \in Seq(TraceLine), NEW i \in DOMAIN prog, NEW y \in TraceLine, Len(x) = i - 1,
                   Chain(consts, x), Len(y.ptrs) = 1, Labelled(i, y), Joins(consts, x, i, y)
            PROVE  Chain(consts, Append(x, y))
        BY <3>1, <3>3, ChainGrows
      <3>4. QED
        BY <3>1, <3>2, <3>3
    <2>2. \A j \in DOMAIN c : j \in DOMAIN prog
      BY <2>1 DEF Chain
    <2>3. QED
      BY <1>1, <1>7, <2>1, <2>2, ChainNames
  <1> PICK names : names = NamesOf(prog)
    OBVIOUS
  <1>9. /\ DOMAIN names = DOMAIN prog
        /\ \A i \in DOMAIN prog : prog[i].label.kind # "none" => names[i] # NoScope
        /\ \A i, j \in DOMAIN names : names[i] = names[j] => i = j \/ names[i] = NoScope
    <2>1. DistinctNames(prog)
      BY DEF Steady
    <2>2. QED
      BY <1>1, <2>1, NamesApart DEF DistinctNames
  <1>10. nl.name = LineName /\ nl.section = section /\ (nl.equ <=> Stmt.op = "equ") /\ LineName = names[at]
    <2>1. nl.name = LineName /\ nl.section = section /\ (nl.equ <=> Stmt.op = "equ")
      BY DEF NewLine
    <2>2. QED
      BY <1>7, <1>8, <2>1
  <1>11. \A n : /\ n \in DOMAIN consts => n \in DOMAIN consts' /\ (consts[n].export => consts'[n].export)
                /\ n \in DOMAIN consts /\ (~HasLabel \/ n # LineName) => consts'[n].section = consts[n].section
                /\ HasLabel /\ n = LineName => consts'[n].section = section
    <2>1. CASE Stmt.op = "%define"
      <3>1. ~HasLabel /\ \A n : Marked(consts, consts', n)
        BY <1>2, <1>3, <2>1, LineMarks DEF HasLabel
      <3>2. QED
        BY <3>1 DEF Marked
    <2>2. CASE Stmt.op # "%define"
      <3>1. \A n : Marked(LineConsts, consts', n)
        BY <1>3, <2>2, LineMarks
      <3> PICK tab : tab = LineConsts
        OBVIOUS
      <3> PICK name : name = LineName
        OBVIOUS
      <3>2. /\ \A n \in DOMAIN consts : n \in DOMAIN tab /\ (consts[n].export => tab[n].export)
            /\ \A n \in DOMAIN consts : ~HasLabel \/ n # name => tab[n].section = consts[n].section
            /\ HasLabel => name \in DOMAIN tab /\ tab[name].section = section
        BY <1>1, LineSections
      <3>3. \A n : Marked(tab, consts', n)
        BY <3>1
      <3>4. QED
        BY <3>2, <3>3 DEF Marked
    <2>3. QED
      BY <2>1, <2>2
  <1>12. EntriesOf(consts, q) /\ EntriesOf(consts, r)
    BY <1>1 DEF ChainedInv
  <1>13. PlacedInv'
    <2>1. ASSUME NEW j \in DOMAIN c, prog[j].label.kind # "none", ~c[j].equ
          PROVE  consts'[c[j].name].section = c[j].section
      <3>1. CASE j = at
        <4>1. HasLabel
          BY <1>2, <1>7, <1>10, <2>1, <3>1 DEF HasLabel
        <4>2. QED
          BY <1>7, <1>10, <1>11, <3>1, <4>1
      <3>2. CASE j # at
        <4>1. j \in DOMAIN q /\ c[j] = q[j] /\ j \in DOMAIN prog
          BY <1>7, <1>8, <3>2
        <4>2. q[j].name \in DOMAIN consts /\ consts[q[j].name].section = q[j].section
          BY <1>12, <2>1, <4>1 DEF EntriesOf, EntryOf, PlacedInv
        <4>3. q[j].name # LineName
          <5>1. q[j].name = names[j] /\ names[j] # NoScope
            BY <1>8, <1>9, <2>1, <4>1
          <5>2. QED
            BY <1>1, <1>9, <1>10, <3>2, <4>1, <5>1
        <4>4. QED
          BY <1>11, <4>1, <4>2, <4>3
      <3>3. QED
        BY <3>1, <3>2
    <2>2. QED
      BY <1>5, <1>6, <2>1 DEF PlacedInv
  <1>14. HandledInv'
    <2>1. ASSUME NEW i \in DOMAIN c
          PROVE  /\ prog[i].op = "instr" => lookupLex(prog[i].ins.cmd) # "NONE"
                 /\ prog[i].op = "export" =>
                      \A k \in DOMAIN r :
                        prog[k].label.kind # "none" /\ r[k].name = Spelled(prog[i].names[1]) =>
                          consts'[r[k].name].export
      <3>1. CASE i # at
        <4>1. i \in DOMAIN q
          BY <1>7, <3>1
        <4>2. \A k \in DOMAIN r : prog[k].label.kind # "none" => r[k].name \in DOMAIN consts
          BY <1>12 DEF EntriesOf, EntryOf
        <4>3. QED
          BY <1>11, <4>1, <4>2 DEF HandledInv
      <3>2. CASE i = at
        <4>1. ASSUME prog[at].op = "instr", lookupLex(prog[at].ins.cmd) = "NONE" PROVE FALSE
          <5>1. SyntaxError
            <6>1. ~Exhausted
              <7>1. at \in Nat /\ Len(prog) \in Nat
                BY ProgramsAssumption DEF ProgramsAssumption, TypeInv, PlaceInv
              <7>2. QED
                BY <7>1 DEF Exhausted
            <6>2. Stmt.op = "instr" /\ Lex = "NONE"
              BY <1>2, <4>1 DEF Lex
            <6>3. ~Instr /\ ~NoRow /\ ~OutsideText
              BY <6>2 DEF Instr, NoRow, OutsideText
            <6>4. ~OnLine("") /\ ~OnLine("db") /\ ~OnLine("dw") /\ ~OnLine("dd") /\ ~OnLine("res") /\ ~OnLine("section")
                  /\ ~OnLine("export") /\ ~OnLine("import") /\ ~OnLine("org") /\ ~OnLine("end") /\ ~OnLine("equ")
                  /\ ~OnLine("%define")
              BY <6>2 DEF OnLine
            <6>5. QED
              BY <1>3, <6>1, <6>3, <6>4 DEF LineStep, LabelAlone, List, Reserve, SectionDirective,
                Export, Import, OrgDirective, OrgRefused, End, Equ, Define
          <5>2. "syntax" \in errors'
            BY <5>1 DEF SyntaxError, Report, ErrorKinds
          <5>3. QED
            BY <5>2
        <4>2. ASSUME prog[at].op = "export", NEW k \in DOMAIN r, prog[k].label.kind # "none",
                     r[k].name = Spelled(prog[at].names[1])
              PROVE  consts'[r[k].name].export
          <5>1. "local" \notin errors'
            OBVIOUS
          <5>2. r[k].name \in DOMAIN consts
            BY <1>12, <4>2 DEF EntriesOf, EntryOf
          <5>3. r[k].name \in DOMAIN LineConsts
            BY <1>1, <5>2, LineSections
          <5>4. QED
            BY <1>2, <1>3, <4>2, <5>1, <5>3, LineMarks
        <4>3. QED
          BY <3>2, <4>1, <4>2
      <3>3. QED
        BY <3>1, <3>2
    <2>2. QED
      BY <1>5, <1>6, <2>1 DEF HandledInv
  <1>15. QED
    BY <1>13, <1>14

LEMMA GlobalsInit == Init => GlobalsInv
  <1> SUFFICES ASSUME Init PROVE GlobalsInv
    OBVIOUS
  <1>1. pass = 0 /\ trace = [p \in 0..Passes-1 |-> <<>>]
    BY DEF Init
  <1>2. 1 \in 0..Passes-1 /\ 0 # Passes
    <2>1. 1 \in 0..2-1
      OBVIOUS
    <2>2. QED
      BY <2>1 DEF Passes
  <1>3. trace[1] = <<>> /\ pass # Passes
    BY <1>1, <1>2
  <1>4. QED
    BY <1>3 DEF GlobalsInv, PlacedInv, HandledInv, WrittenInv

LEMMA GlobalsLines ==
  ASSUME TypeInv, ReachInv, LaidInv, GlobalsInv, LineStep, PassesInv', steady', Settled'
  PROVE  PlacedInv' /\ HandledInv' /\ WrittenInv'
  <1>1. /\ pc = "line" /\ UNCHANGED <<prog, pass, target, isOrgDef>> /\ pc' \in {"line", "emit", "end"}
        /\ steady' = steady /\ errors \subseteq errors' /\ warnings \subseteq warnings'
    BY LineWays, StepsSay DEF Moves1, Emits, Halts
  <1>2. pass \in {0, 1} /\ Passes = 2
    BY <1>1 DEF TypeInv, PlaceInv, Passes, Assembling
  <1>3. CASE pass = 0
    BY <1>1, <1>3, NoneBefore
  <1>4. CASE pass = 1
    <2>1. errors' \cup warnings' = {} /\ Settled /\ Steady(prog)
      BY <1>1, <1>4 DEF Settled, LaidInv
    <2>2. PassesInv /\ ChainedInv /\ LineInv /\ DollarInv /\ PlacedInv /\ HandledInv
      BY <1>1, <2>1 DEF LaidInv, GlobalsInv
    <2>3. WrittenInv'
      BY <1>1, <1>2, <1>4 DEF WrittenInv
    <2>4. CASE at <= Len(prog)
      BY <1>4, <2>1, <2>2, <2>3, <2>4, GlobalsLine
    <2>5. CASE ~(at <= Len(prog))
      <3>1. Exhausted
        BY <2>5 DEF LineStep, OnLine, LabelAlone, List, Instr, NoRow, OutsideText, Reserve, SectionDirective, Export,
          Import, OrgDirective, OrgRefused, End, Equ, SyntaxError, Define, Undef
      <3>2. UNCHANGED <<prog, consts, trace>>
        BY <1>1, <3>1 DEF Exhausted, symbols
      <3>3. SameLines
        BY <3>2 DEF SameLines
      <3>4. QED
        BY <2>2, <2>3, <3>2, <3>3, GlobalsStay
    <2>6. QED
      BY <2>4, <2>5
  <1>5. QED
    BY <1>2, <1>3, <1>4

LEMMA GlobalsEmits ==
  ASSUME TypeInv, LaidInv, GlobalsInv, EmitStep, PassesInv', steady', Settled'
  PROVE  PlacedInv' /\ HandledInv' /\ WrittenInv'
  <1>1. /\ pc = "emit" /\ UNCHANGED <<prog, pass, target, isOrgDef, consts>> /\ pc' \in {"line", "emit"}
        /\ steady' = steady /\ errors \subseteq errors' /\ warnings \subseteq warnings'
    BY EmitGoes, StepsSay
  <1>2. pass \in {0, 1} /\ Passes = 2 /\ at \in Nat /\ at > 0
    BY <1>1 DEF TypeInv, PlaceInv, Passes, Assembling
  <1>3. CASE pass = 0
    BY <1>1, <1>3, NoneBefore
  <1>4. CASE pass = 1
    <2>1. Settled
      BY <1>1, <1>4 DEF Settled
    <2>2. ChunkInv /\ PlacedInv /\ HandledInv
      BY <1>1, <2>1 DEF LaidInv, GlobalsInv
    <2>3. WrittenInv'
      BY <1>1, <1>2, <1>4 DEF WrittenInv
    <2>4. at \in DOMAIN trace[pass]
      <3>1. Len(trace[pass]) = at
        BY <1>1, <2>2 DEF ChunkInv
      <3>2. trace[pass] \in Seq(TraceLine)
        <4>1. 0..2-1 = {0, 1}
          OBVIOUS
        <4>2. QED
          BY <1>2, <4>1 DEF TypeInv, RecordInv, Passes
      <3>3. QED
        BY <1>2, <3>1, <3>2
    <2>5. UNCHANGED <<prog, consts>> /\ SameLines
      BY <1>2, <2>4, GlobalsEmit
    <2>6. QED
      BY <2>2, <2>3, <2>5, GlobalsStay
  <1>5. QED
    BY <1>2, <1>3, <1>4

(* What pass 1 has written when it ends is in the object.                  *)
LEMMA GlobalsMain ==
  ASSUME TypeInv, LaidInv, GlobalsInv, MainStep, PassesInv', steady', Settled'
  PROVE  PlacedInv' /\ HandledInv' /\ WrittenInv'
  <1>1. UNCHANGED <<prog, target, isOrgDef, consts, trace>> /\ steady' = steady
    BY DEF MainStep, StartPass, CannotOpen, NoSource, EndPass, Exit, input, symbols
  <1>2. pass \in {0, 1, 2} /\ Passes = 2
    BY DEF TypeInv, PlaceInv, Passes
  <1>3. SameLines
    BY <1>1 DEF SameLines
  <1>4. ASSUME pass' = pass, pass = 0 PROVE PlacedInv' /\ HandledInv' /\ WrittenInv'
    BY <1>4, NoneBefore
  <1>5. CASE StartPass
    <2>1. pass' = pass /\ pc = "main" /\ pass \in {0, 1}
      <3>1. pass < 2
        BY <1>2, <1>5 DEF StartPass
      <3>2. pass \in {0, 1}
        BY <1>2, <3>1
      <3>3. QED
        BY <1>5, <3>2 DEF StartPass
    <2>2. CASE pass = 1
      <3>1. PlacedInv /\ HandledInv
        BY <1>1, <2>1, <2>2 DEF GlobalsInv, Settled
      <3>2. WrittenInv'
        BY <1>2, <2>1, <2>2 DEF WrittenInv
      <3>3. QED
        BY <1>1, <1>3, <3>1, <3>2, GlobalsStay
    <2>3. QED
      BY <1>4, <2>1, <2>2
  <1>6. CASE CannotOpen
    <2>1. pass' = pass /\ pc' = "exit" /\ pass \in {0, 1} /\ "open" \in errors'
      BY <1>2, <1>6 DEF CannotOpen, Report, ErrorKinds
    <2>2. pass = 0
      BY <2>1 DEF Settled
    <2>3. QED
      BY <1>4, <2>1, <2>2
  <1>7. CASE NoSource
    <2>1. pass' = 2 /\ "source" \in errors'
      BY <1>2, <1>7 DEF NoSource, Report, ErrorKinds
    <2>2. QED
      BY <2>1 DEF Settled
  <1>8. CASE EndPass
    <2>1. pass' = pass + 1 /\ pc' = "main" /\ pass \in {0, 1} /\ UNCHANGED <<errors, warnings>>
          /\ object' = (IF target = "rdf" THEN Object ELSE Flat(Bytes("TEXT", org, CodeSize)))
      BY <1>2, <1>8 DEF EndPass, verdict, TypeInv, PlaceInv, Assembling
    <2>2. CASE pass = 0
      BY <2>1, <2>2, NoneBefore
    <2>3. CASE pass = 1
      <3>1. Settled
        BY <2>1, <2>3 DEF Settled
      <3>2. PlacedInv /\ HandledInv
        BY <1>1, <3>1 DEF GlobalsInv
      <3>3. WrittenInv'
        <4> SUFFICES ASSUME target = "rdf", NEW n \in DOMAIN consts, consts[n].export, consts[n].type # "IMPORT"
                     PROVE  Global(n) \in object'.globals
          BY <1>1 DEF WrittenInv, Global
        <4>1. Global(n) \in Object.globals
          BY DEF Object, Global
        <4>2. QED
          BY <2>1, <4>1
      <3>4. QED
        BY <1>1, <1>3, <3>2, <3>3, GlobalsStay
    <2>4. QED
      BY <2>1, <2>2, <2>3
  <1>9. CASE Exit
    <2>1. pass' = pass /\ pass = 2 /\ UNCHANGED <<errors, warnings, object>>
      BY <1>2, <1>9 DEF Exit, verdict
    <2>2. Settled
      BY <2>1 DEF Settled
    <2>3. PlacedInv /\ HandledInv /\ WrittenInv
      BY <1>1, <2>2 DEF GlobalsInv
    <2>4. WrittenInv'
      BY <1>1, <2>1, <2>3 DEF WrittenInv, Global
    <2>5. QED
      BY <1>1, <1>3, <2>3, <2>4, GlobalsStay
  <1>10. QED
    BY <1>5, <1>6, <1>7, <1>8, <1>9 DEF MainStep

LEMMA GlobalsKept == TypeInv /\ FileInv /\ ReachInv /\ LaidInv /\ GlobalsInv /\ [Next]_vars => GlobalsInv'
  <1> SUFFICES ASSUME TypeInv, FileInv, ReachInv, LaidInv, GlobalsInv, [Next]_vars, steady', Settled'
               PROVE  PlacedInv' /\ HandledInv' /\ WrittenInv'
    BY DEF GlobalsInv
  <1>1. PassesInv'
    BY LaidKept DEF LaidInv
  <1>2. CASE Arguments
    <2>1. pass' = 0
      BY <1>2 DEF Arguments, ArgumentStep, TakeFormat, UnknownFormat, SetOutput, SetOrigin, SetLevel,
        Predefine, BadOption, TakeInput, SecondInput, NoOutput, Settle, GiveUp, Skip, Option, FileInv
    <2>2. QED
      BY <1>1, <2>1, NoneBefore
  <1>3. CASE UNCHANGED vars
    <2>1. UNCHANGED <<prog, steady, target, isOrgDef, errors, warnings, consts, pass, pc, trace, object>>
      BY <1>3 DEF vars, input, output, symbols, verdict
    <2>2. PlacedInv /\ HandledInv /\ WrittenInv
      BY <2>1 DEF GlobalsInv, Settled
    <2>3. SameLines
      BY <2>1 DEF SameLines
    <2>4. WrittenInv'
      BY <2>1, <2>2 DEF WrittenInv, Global
    <2>5. QED
      BY <2>1, <2>2, <2>3, <2>4, GlobalsStay
  <1>4. QED
    BY <1>1, <1>2, <1>3, GlobalsLines, GlobalsEmits, GlobalsMain DEF Next

(* Every label EXPORTed before the program ends is a global of the object, *)
(* in the section and at the offset the object has it at: pass 1 finds it  *)
(* where pass 0 put it, with the mark either pass gave it (ASSEMBLR.C:848, *)
(* RDF.C:164).                                                             *)
THEOREM ExportsAll == Spec => []ExportsComplete
  <1>1. TypeInv /\ FileInv /\ ReachInv /\ LaidInv /\ GlobalsInv /\ [Next]_vars =>
          TypeInv' /\ FileInv' /\ ReachInv' /\ LaidInv' /\ GlobalsInv'
    BY TypesKept, FileKept, ReachKept, LaidKept, GlobalsKept
  <1>2. ASSUME TypeInv, FileInv, LaidInv, GlobalsInv PROVE ExportsComplete
    <2> SUFFICES ASSUME Delivered, steady, target = "rdf", NEW i \in DOMAIN prog, NEW k \in DOMAIN trace[1],
                        prog[i].op = "export", Spelled(prog[i].names[1]) = trace[1][k].name, ~trace[1][k].equ,
                        \A j \in 1..i : prog[j].op # "end"
                 PROVE  [name |-> trace[1][k].name, seg |-> SectionId(trace[1][k].section),
                         ofs |-> Began(trace[1][k])] \in object.globals
      BY DEF ExportsComplete
    <2>1. /\ 0..Passes-1 = {0, 1} /\ pass = Passes /\ errors \cup warnings = {} /\ prog \in Programs
          /\ DOMAIN trace = {0, 1} /\ DOMAIN prog = 1..Len(prog) /\ Len(prog) \in Nat /\ pass = 2
      <3>1. 0..2-1 = {0, 1}
        OBVIOUS
      <3>2. prog \in Seq(Statement) /\ prog \in Programs
        BY <1>2, ProgramsAssumption DEF ProgramsAssumption, TypeInv, PlaceInv
      <3>3. QED
        BY <1>2, <3>1, <3>2 DEF FileInv, OutputOnlyIfClean, Delivered, Passes, TypeInv, RecordInv
    <2>2. PassesInv /\ ChainedInv /\ PlacedInv /\ HandledInv /\ WrittenInv
      BY <1>2, <2>1 DEF LaidInv, GlobalsInv, Settled
    <2> PICK a : a = trace[0]
      OBVIOUS
    <2> PICK b : b = trace[1]
      OBVIOUS
    <2>3. /\ a \in Seq(TraceLine) /\ b \in Seq(TraceLine) /\ RanOut(a) /\ RanOut(b)
          /\ Chain(consts, a) /\ Chain(consts, b) /\ EntriesOf(consts, b)
      BY <1>2, <2>1, <2>2 DEF TypeInv, RecordInv, PassesInv, ChainedInv
    <2>4. k \in DOMAIN a /\ DOMAIN b = 1..Len(b) /\ Len(b) \in Nat
      <3>1. Len(a) = Len(b)
        BY <2>1, <2>3, OneEnd
      <3>2. \A x, y \in Seq(TraceLine) : Len(x) = Len(y) => DOMAIN x = DOMAIN y /\ DOMAIN y = 1..Len(y) /\ Len(y) \in Nat
        OBVIOUS
      <3>3. QED
        BY <2>3, <3>1, <3>2
    <2>5. i \in DOMAIN b
      <3>1. CASE Len(b) = Len(prog)
        BY <2>1, <2>4, <3>1
      <3>2. CASE Len(b) # Len(prog)
        <4>1. Len(b) \in DOMAIN prog /\ Stops(Len(b)) /\ Len(b) \in DOMAIN b
          BY <2>1, <2>3, <2>4, <3>2 DEF RanOut
        <4>2. prog[Len(b)].op = "end"
          BY <2>2, <4>1 DEF Stops, HandledInv
        <4>3. ~(Len(b) \in 1..i)
          BY <4>2
        <4>4. QED
          BY <2>1, <2>4, <4>1, <4>3
      <3>3. QED
        BY <3>1, <3>2
    <2> PICK name : name = b[k].name
      OBVIOUS
    <2>6. a[k].name = name /\ k \in DOMAIN prog
      BY ZenonT(40), <2>1, <2>3, <2>4, ChainNames DEF Chain
    <2>7. prog[k].label.kind # "none"
      <3>1. name # NoScope
        <4>1. \A x : <<x>> # <<>>
          OBVIOUS
        <4>2. name.path = <<prog[i].names[1].name>> /\ NoScope.path = <<>>
          BY DEF Spelled, NoScope
        <4>3. QED
          BY <4>1, <4>2
      <3>2. QED
        BY <2>3, <3>1 DEF Chain, Labelled
    <2>8. /\ name \in DOMAIN consts /\ consts[name].type = LabelType(b[k].section) /\ consts[name].value = Began(b[k])
      BY <2>3, <2>7 DEF EntriesOf, EntryOf
    <2>9. consts[name].type # "IMPORT"
      <3>1. b[k] \in TraceLine
        BY <2>3
      <3>2. QED
        BY <2>8, <3>1 DEF TraceLine, Sections, LabelType
    <2>10. consts[name].section = b[k].section
      BY <2>2, <2>7 DEF PlacedInv
    <2>11. consts[name].export
      BY <2>2, <2>4, <2>5, <2>6, <2>7 DEF HandledInv
    <2>12. Global(name) \in object.globals
      BY <2>1, <2>2, <2>8, <2>9, <2>11 DEF WrittenInv
    <2>13. QED
      BY <2>8, <2>10, <2>12 DEF Global
  <1>3. Init => TypeInv /\ FileInv /\ ReachInv /\ LaidInv /\ GlobalsInv
    BY TypeInit, FileInit, ReachInit, LaidInit, GlobalsInit
  <1>4. QED
    BY <1>1, <1>2, <1>3, PTL DEF Spec
=============================================================================
