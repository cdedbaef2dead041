--------------------------- MODULE Opcodes_proofs ---------------------------
(* What an expression is worth is a number, whatever the table, and what   *)
(* a row of the instruction table is laid out in is chunks.                *)
EXTENDS Opcodes, SymbolTable_proofs

SaidKinds == {"parent", "undefined", "deep", "zero"}
Readings  == [value : Int, said : SUBSET SaidKinds]

LEMMA SayType ==
  ASSUME NEW v \in Int, NEW said \in SUBSET SaidKinds
  PROVE  Say(v, said) \in Readings
  BY DEF Say, Readings

(* One name is read as a number, if the text it stands for is.             *)
LEMMA SymReadType ==
  ASSUME NEW tab, IsTable(tab), NEW sc, NEW d, NEW s \in Sym, NEW body,
         d = GetConstMaxDepth \/ ~HasType(tab, QName(s, sc), {"DEFINE"}) \/ body \in Readings
  PROVE  SymRead(tab, sc, d, s, body) \in Readings
  <1> DEFINE name   == QName(s, sc)
             orphan == IF NoParent(s, sc) THEN {"parent"} ELSE {}
             what   == IF s.kind = "number" THEN "number"
                       ELSE IF name \notin DOMAIN tab THEN "unknown" ELSE tab[name].type
  <1>1. /\ orphan \in SUBSET SaidKinds /\ orphan \cup {"undefined"} \in SUBSET SaidKinds
        /\ orphan \cup {"deep"} \in SUBSET SaidKinds /\ {} \in SUBSET SaidKinds
    BY DEF SaidKinds
  <1>2. 0 \in Int /\ s.n \in Int
    BY DEF Sym
  <1>3. name \in DOMAIN tab => tab[name].value \in Int /\ tab[name].type \in ConstTypes
    BY DEF IsTable, Entry
  <1>4. body \in Readings => body.value \in Int /\ orphan \cup body.said \in SUBSET SaidKinds
    BY <1>1 DEF Readings
  <1>5. SymRead(tab, sc, d, s, body) =
          CASE what = "number"  -> Say(s.n, {})
            [] what = "unknown" -> Say(0, orphan \cup {"undefined"})
            [] what = "IMPORT"  -> Say(0, orphan)
            [] what = "DEFINE"  -> IF d = GetConstMaxDepth THEN Say(0, orphan \cup {"deep"})
                                   ELSE Say(body.value, orphan \cup body.said)
            [] OTHER -> Say(tab[name].value, orphan)
    BY DEF SymRead
  <1>6. what \notin {"number", "unknown"} => name \in DOMAIN tab /\ what = tab[name].type
    OBVIOUS
  <1>7. what = "DEFINE" => HasType(tab, name, {"DEFINE"})
    BY <1>6 DEF HasType
  <1> HIDE DEF name, what, orphan
  <1>8. CASE what = "number"
    BY <1>1, <1>2, <1>5, <1>8, SayType
  <1>9. CASE what = "unknown"
    BY <1>1, <1>2, <1>5, <1>9, SayType
  <1>10. CASE what = "IMPORT"
    BY <1>1, <1>2, <1>5, <1>10, SayType
  <1>11. CASE what = "DEFINE"
    <2>1. d = GetConstMaxDepth \/ body \in Readings
      BY <1>7, <1>11 DEF name
    <2>2. QED
      BY <1>1, <1>2, <1>4, <1>5, <1>11, <2>1, SayType
  <1>12. CASE what \notin {"number", "unknown", "IMPORT", "DEFINE"}
    BY <1>1, <1>3, <1>5, <1>6, <1>12, SayType
  <1>13. QED
    BY <1>8, <1>9, <1>10, <1>11, <1>12

(* At the last level the text is not looked at.                            *)
LEMMA SymReadDeep ==
  ASSUME NEW tab, NEW sc, NEW s, NEW b, NEW c
  PROVE  SymRead(tab, sc, GetConstMaxDepth, s, b) = SymRead(tab, sc, GetConstMaxDepth, s, c)
  BY DEF SymRead

LevelRead(f, tab, sc, d) ==
  [s \in Sym |-> SymRead(tab, sc, d, s, f[d + 1][tab[QName(s, sc)].extra.text])]
Reads(f, tab, sc) == f = [d \in 0..GetConstMaxDepth |-> LevelRead(f, tab, sc, d)]

LEMMA ReadIs ==
  ASSUME NEW tab, NEW sc, NEW sym
  PROVE  Read(tab, sc, sym) = (CHOOSE f : Reads(f, tab, sc))[0][sym]
  BY DEF Read, Reads, LevelRead

(* The levels are defined from the last one up.                            *)
LEMMA ReadsExists ==
  ASSUME NEW tab, NEW sc
  PROVE  \E f : Reads(f, tab, sc)
  <1> DEFINE D == GetConstMaxDepth
             From(f, m) == f = [d \in (D - m)..D |-> LevelRead(f, tab, sc, d)]
             G == {m \in 0..D : \E f : From(f, m)}
  <1> D \in Nat
    BY DepthAssumption DEF DepthAssumption
  <1>a. \A f, g : LevelRead(f, tab, sc, D) = LevelRead(g, tab, sc, D)
    BY SymReadDeep DEF LevelRead
  <1>b. ASSUME NEW f, NEW g, NEW d, f[d + 1] = g[d + 1]
        PROVE  LevelRead(f, tab, sc, d) = LevelRead(g, tab, sc, d)
    BY <1>b DEF LevelRead
  <1>1. 0 \in G
    <2> DEFINE f == [d \in (D - 0)..D |-> LevelRead(<<>>, tab, sc, d)]
    <2>1. \A d \in (D - 0)..D : d = D
      OBVIOUS
    <2>2. \A d \in (D - 0)..D : LevelRead(<<>>, tab, sc, d) = LevelRead(f, tab, sc, d)
      <3> HIDE DEF f
      <3> QED BY <1>a, <2>1
    <2>3. From(f, 0)
      <3>1. f = [d \in (D - 0)..D |-> LevelRead(<<>>, tab, sc, d)]
        OBVIOUS
      <3> HIDE DEF f
      <3>2. QED
        BY <2>2, <3>1
    <2> HIDE DEF From
    <2>4. 0 \in 0..D
      OBVIOUS
    <2>5. QED
      BY <2>3, <2>4
  <1>2. ASSUME NEW m \in 0..D-1, m \in G PROVE m + 1 \in G
    <2>1. PICK old : From(old, m)
      BY <1>2
    <2> DEFINE now == D - (m + 1)
               f   == [d \in now..D |-> IF d = now THEN LevelRead(old, tab, sc, d) ELSE old[d]]
    <2>2. now \in Int /\ now + 1 = D - m /\ now < D
      OBVIOUS
    <2>3. \A d \in (D - m)..D : f[d] = old[d] /\ old[d] = LevelRead(old, tab, sc, d)
      BY <2>1, <2>2, SMTT(30)
    <2>4. f[now] = LevelRead(old, tab, sc, now) /\ f[now + 1] = old[now + 1]
      BY <2>2, <2>3
    <2>5. ASSUME NEW d \in now..D PROVE f[d] = LevelRead(f, tab, sc, d)
      <3>1. CASE d = now
        <4> HIDE DEF f, now
        <4>1. LevelRead(f, tab, sc, now) = LevelRead(old, tab, sc, now)
          BY <1>b, <2>4
        <4>2. QED
          BY <2>4, <3>1, <4>1
      <3>2. CASE d # now
        <4>1. d \in (D - m)..D
          BY <2>2, <3>2
        <4>2. LevelRead(f, tab, sc, d) = LevelRead(old, tab, sc, d)
          <5>1. CASE d = D
            <6> HIDE DEF f
            <6> QED BY <1>a, <5>1
          <5>2. CASE d # D
            <6>1. d + 1 \in (D - m)..D
              BY <4>1, <5>2
            <6>2. f[d + 1] = old[d + 1]
              BY <2>3, <6>1
            <6> HIDE DEF f
            <6>3. QED
              BY <1>b, <6>2
          <5>3. QED
            BY <5>1, <5>2
        <4> HIDE DEF f
        <4>3. QED
          BY <2>3, <4>1, <4>2
      <3>3. QED
        BY <3>1, <3>2
    <2>6. From(f, m + 1)
      <3>1. f = [d \in now..D |-> f[d]]
        OBVIOUS
      <3> HIDE DEF f
      <3>2. QED
        BY <2>5, <3>1
    <2> HIDE DEF From
    <2>7. m + 1 \in 0..D
      OBVIOUS
    <2>8. QED
      BY <2>6, <2>7
  <1>3. D \in 0..D
    OBVIOUS
  <1> HIDE DEF G
  <1>4. D \in G
    BY <1>1, <1>2, <1>3, UpTo
  <1>5. PICK f : From(f, D)
    BY <1>4 DEF G
  <1>6. (D - D)..D = 0..D
    OBVIOUS
  <1>7. QED
    BY <1>5, <1>6 DEF Reads

(* The value of a name is a number.                                        *)
LEMMA ReadType ==
  ASSUME NEW tab, IsTable(tab), NEW sc, NEW sym \in Sym
  PROVE  Read(tab, sc, sym) \in Readings
  <1> DEFINE D == GetConstMaxDepth
             f == CHOOSE f : Reads(f, tab, sc)
             G == {m \in 0..D : \A s \in Sym : f[D - m][s] \in Readings}
  <1> D \in Nat
    BY DepthAssumption DEF DepthAssumption
  <1>1. Reads(f, tab, sc)
    BY ReadsExists
  <1>2. Read(tab, sc, sym) = f[0][sym]
    BY ReadIs
  <1> HIDE DEF f
  <1>3. ASSUME NEW d \in 0..D, NEW s \in Sym
        PROVE  f[d][s] = SymRead(tab, sc, d, s, f[d + 1][tab[QName(s, sc)].extra.text])
    <2>1. f[d] = LevelRead(f, tab, sc, d)
      BY <1>1 DEF Reads
    <2>2. QED
      BY <2>1 DEF LevelRead
  <1>4. 0 \in G
    <2>1. \A s \in Sym : f[D][s] \in Readings
      <3> SUFFICES ASSUME NEW s \in Sym PROVE f[D][s] \in Readings
        OBVIOUS
      <3>1. D \in 0..D
        OBVIOUS
      <3>2. f[D][s] = SymRead(tab, sc, D, s, f[D + 1][tab[QName(s, sc)].extra.text])
        BY <1>3, <3>1
      <3>3. QED
        BY <3>2, SymReadType
    <2>2. D - 0 = D
      OBVIOUS
    <2>3. QED
      BY <2>1, <2>2
  <1>5. ASSUME NEW m \in 0..D-1, m \in G PROVE m + 1 \in G
    <2> DEFINE d == D - (m + 1)
    <2>1. d \in 0..D /\ d + 1 = D - m
      OBVIOUS
    <2>2. \A s \in Sym : f[d][s] \in Readings
      <3> SUFFICES ASSUME NEW s \in Sym PROVE f[d][s] \in Readings
        OBVIOUS
      <3>1. HasType(tab, QName(s, sc), {"DEFINE"}) => tab[QName(s, sc)].extra.text \in Sym
        BY DEF HasType, IsTable, Entry, Extra
      <3>2. HasType(tab, QName(s, sc), {"DEFINE"}) =>
              f[d + 1][tab[QName(s, sc)].extra.text] \in Readings
        BY <1>5, <2>1, <3>1
      <3> HIDE DEF d
      <3>3. QED
        BY <1>3, <2>1, <3>2, SymReadType
    <2>3. QED
      BY <2>2
  <1>6. D \in 0..D /\ D - D = 0
    OBVIOUS
  <1>7. D \in G
    <2> HIDE DEF G
    <2> QED BY <1>4, <1>5, <1>6, UpTo
  <1>8. QED
    BY <1>2, <1>6, <1>7
-----------------------------------------------------------------------------
LEMMA QuotType ==
  ASSUME NEW v \in Int, NEW x \in Int, x # 0
  PROVE  Quot(v, x) \in Int
  <1>1. Abs(v) \in Int /\ Abs(x) \in Int /\ Abs(x) > 0
    BY DEF Abs
  <1>2. Abs(v) \div Abs(x) \in Int
    BY <1>1
  <1>3. QED
    BY <1>2 DEF Quot

LEMMA ApplyType ==
  ASSUME NEW op \in Operations, NEW v \in Int, NEW x \in Int, op \in {"/", "%"} => x # 0
  PROVE  Apply(op, v, x) \in Int
  <1>1. CASE op = "+"
    BY <1>1 DEF Apply
  <1>2. CASE op = "-"
    BY <1>2 DEF Apply
  <1>3. CASE op = "*"
    BY <1>3 DEF Apply
  <1>4. CASE op = "/"
    BY <1>4, QuotType DEF Apply
  <1>5. CASE op = "%"
    <2>1. \A q \in Int : v - x * q \in Int
      OBVIOUS
    <2>2. QED
      BY <1>5, <2>1, QuotType DEF Apply
  <1>6. QED
    BY <1>1, <1>2, <1>3, <1>4, <1>5 DEF Operations

(* Evaluation is at a number after every term.                             *)
Evaluations == [value : Int, said : SUBSET SaidKinds, ended : BOOLEAN]

LEMMA UnreadType == Unread \in Evaluations
  BY DEF Unread, Evaluations

LEMMA TermReadType ==
  ASSUME NEW tab, IsTable(tab), NEW sc, NEW st \in Evaluations, NEW t \in Term
  PROVE  TermRead(tab, sc, st, t) \in Evaluations
  <1> DEFINE x == Read(tab, sc, t.sym)
  <1>1. x \in Readings /\ t.op \in Operations
    BY ReadType DEF Term
  <1>2. /\ st.value \in Int /\ st.said \in SUBSET SaidKinds /\ st.ended \in BOOLEAN
        /\ x.value \in Int /\ x.said \in SUBSET SaidKinds
    BY <1>1 DEF Evaluations, Readings
  <1>3. /\ st.said \cup x.said \in SUBSET SaidKinds
        /\ st.said \cup x.said \cup {"zero"} \in SUBSET SaidKinds
    BY <1>2 DEF SaidKinds
  <1> HIDE DEF x
  <1>4. CASE st.ended
    BY <1>4 DEF TermRead
  <1>5. CASE ~st.ended /\ Unknown(tab, sc, t)
    <2>1. TermRead(tab, sc, st, t) = [value |-> 0, said |-> st.said \cup x.said, ended |-> TRUE]
      BY <1>5 DEF TermRead, x
    <2>2. QED
      BY <1>3, <2>1 DEF Evaluations
  <1>6. CASE ~st.ended /\ ~Unknown(tab, sc, t) /\ t.op \in {"/", "%"} /\ x.value = 0
    <2>1. TermRead(tab, sc, st, t) = [st EXCEPT !.said = @ \cup x.said \cup {"zero"}]
      BY <1>6 DEF TermRead, x
    <2>2. QED
      BY <1>3, <2>1 DEF Evaluations
  <1>7. CASE ~st.ended /\ ~Unknown(tab, sc, t) /\ ~(t.op \in {"/", "%"} /\ x.value = 0)
    <2>1. TermRead(tab, sc, st, t) = [st EXCEPT !.value = Apply(t.op, @, x.value),
                                                !.said = @ \cup x.said]
      BY <1>7 DEF TermRead, x
    <2>2. Apply(t.op, st.value, x.value) \in Int
      BY <1>1, <1>2, <1>7, ApplyType
    <2>3. QED
      BY <1>3, <2>1, <2>2 DEF Evaluations
  <1>8. QED
    BY <1>2, <1>4, <1>5, <1>6, <1>7

TermsRead(f, tab, sc, e) ==
  f = [s \in SUBSET DOMAIN e |->
         IF s = {} THEN Unread ELSE TermRead(tab, sc, f[s \ {Max(s)}], e[Max(s)])]

LEMMA GetConstIs ==
  ASSUME NEW tab, NEW sc, NEW e
  PROVE  GetConst(tab, sc, e) = (CHOOSE f : TermsRead(f, tab, sc, e))[DOMAIN e]
  BY DEF GetConst, FoldLeft, MapThenFoldSet, TermsRead

(* get_const goes over the terms one by one, and is at a number after each.*)
Reckons(r, tab, sc, e) ==
  /\ r \in [0..Len(e) -> Evaluations] /\ r[0] = Unread
  /\ \A k \in 0..Len(e)-1 : r[k + 1] = TermRead(tab, sc, r[k], e[k + 1])
LEMMA GetConstRuns ==
  ASSUME NEW tab, IsTable(tab), NEW sc, NEW e \in Expr
  PROVE  \E r : Reckons(r, tab, sc, e) /\ GetConst(tab, sc, e) = r[Len(e)]
  <1> DEFINE n == Len(e)
             F == [p \in Evaluations \X Term |-> TermRead(tab, sc, p[1], p[2])]
             f == CHOOSE f : TermsRead(f, tab, sc, e)
             r == [k \in 0..n |-> f[1..k]]
             G == {k \in 0..n : f[1..k] \in Evaluations}
  <1>1. n \in Nat /\ DOMAIN e = 1..n /\ e \in [1..n -> Term]
    BY DEF Expr
  <1>2. F \in [Evaluations \X Term -> Evaluations]
    BY TermReadType
  <1>3. \A st \in Evaluations, t \in Term : F[<<st, t>>] = TermRead(tab, sc, st, t)
    OBVIOUS
  <1>4. GetConst(tab, sc, e) = f[DOMAIN e]
    BY GetConstIs
  <1> HIDE DEF n, F
  <1>5. \E g : TermsRead(g, tab, sc, e)
    <2>1. PICK g \in [SUBSET (1..n) -> Evaluations] : Iterates(g, F, Unread, e, n)
      BY <1>1, <1>2, UnreadType, IterationExists
    <2>2. ASSUME NEW s \in SUBSET (1..n), s # {}
          PROVE  F[<<g[s \ {Max(s)}], e[Max(s)]>>] = TermRead(tab, sc, g[s \ {Max(s)}], e[Max(s)])
      <3>1. Max(s) \in 1..n /\ s \ {Max(s)} \in SUBSET (1..n)
        BY <1>1, <2>2, MaxOfPart
      <3>2. QED
        BY <1>1, <1>3, <3>1
    <2>3. TermsRead(g, tab, sc, e)
      BY <1>1, <2>1, <2>2 DEF Iterates, TermsRead
    <2>4. QED
      BY <2>3
  <1>6. TermsRead(f, tab, sc, e)
    BY <1>5
  <1> HIDE DEF f
  <1>7. f[1..0] = Unread /\ 0 \in G
    <2>1. f[{}] = Unread
      BY <1>6 DEF TermsRead
    <2>2. 1..0 = {} /\ 0 \in 0..n
      BY <1>1
    <2>3. QED
      BY <2>1, <2>2, UnreadType
  <1>8. ASSUME NEW k \in 0..n-1
        PROVE  f[1..k+1] = TermRead(tab, sc, f[1..k], e[k + 1]) /\ k + 1 \in 0..n /\ e[k + 1] \in Term
    <2>1. /\ 1..k+1 \in SUBSET (1..n) /\ 1..k+1 # {} /\ Max(1..k+1) = k + 1
          /\ (1..k+1) \ {k + 1} = 1..k
      BY <1>1, PrefixMax
    <2>2. f[1..k+1] = TermRead(tab, sc, f[1..k], e[k + 1])
      BY <1>1, <1>6, <2>1 DEF TermsRead
    <2>3. QED
      BY <1>1, <2>2
  <1>9. \A k \in 0..n-1 : k \in G => k + 1 \in G
    BY <1>8, TermReadType
  <1>10. \A k \in 0..n : k \in G
    <2> HIDE DEF G
    <2> QED BY <1>1, <1>7, <1>9, UpTo
  <1>11. r \in [0..n -> Evaluations]
    BY <1>10
  <1>12. 0 \in 0..n /\ n \in 0..n /\ \A k \in 0..n-1 : k \in 0..n /\ k + 1 \in 0..n
    BY <1>1
  <1>13. \A k \in 0..n : r[k] = f[1..k]
    OBVIOUS
  <1> HIDE DEF r, G
  <1>14. Reckons(r, tab, sc, e) /\ GetConst(tab, sc, e) = r[n]
    BY <1>1, <1>4, <1>7, <1>8, <1>11, <1>12, <1>13 DEF Reckons, n
  <1>15. QED
    BY <1>14 DEF n

(* Whatever an operand is and whatever is in the table, get_const ends     *)
(* with a number and complaints of the kinds it has.                       *)
LEMMA GetConstType ==
  ASSUME NEW tab, IsTable(tab), NEW sc, NEW e \in Expr
  PROVE  GetConst(tab, sc, e) \in Evaluations
  <1>1. Len(e) \in 0..Len(e)
    BY DEF Expr
  <1>2. QED
    BY <1>1, GetConstRuns DEF Reckons

LEMMA ValueType ==
  ASSUME NEW tab, IsTable(tab), NEW sc, NEW e \in Expr
  PROVE  Value(tab, sc, e) \in Int /\ GetConst(tab, sc, e).said \in SUBSET SaidKinds
  BY GetConstType DEF Value, Evaluations

(* Two tables give the symbols of Q the same meaning: each is a number, is *)
(* in neither table, or has the same type and value in both; and the text  *)
(* of a %define among them is again one of Q.                              *)
AlikeOn(Q, t1, t2, sc) ==
  \A s \in Q :
    LET n == QName(s, sc)
    IN s.kind # "number" =>
         /\ n \in DOMAIN t1 <=> n \in DOMAIN t2
         /\ n \in DOMAIN t1 =>
              /\ t1[n].type = t2[n].type /\ t1[n].value = t2[n].value
              /\ t1[n].type = "DEFINE" => t1[n].extra.text = t2[n].extra.text /\ t1[n].extra.text \in Q

LEMMA LevelAlike ==
  ASSUME NEW Q, NEW t1, NEW t2, NEW sc, AlikeOn(Q, t1, t2, sc), NEW s \in Q, NEW d, NEW b, NEW c,
         d = GetConstMaxDepth \/ \A x \in Q : b[x] = c[x]
  PROVE  SymRead(t1, sc, d, s, b[t1[QName(s, sc)].extra.text])
           = SymRead(t2, sc, d, s, c[t2[QName(s, sc)].extra.text])
  <1> DEFINE n == QName(s, sc)
  <1>1. CASE s.kind = "number"
    BY <1>1 DEF SymRead
  <1>2. CASE s.kind # "number" /\ n \notin DOMAIN t1
    <2>1. n \notin DOMAIN t2
      BY <1>2 DEF AlikeOn
    <2>2. QED
      BY <1>2, <2>1 DEF SymRead
  <1>3. CASE s.kind # "number" /\ n \in DOMAIN t1
    <2>1. /\ n \in DOMAIN t2 /\ t1[n].type = t2[n].type /\ t1[n].value = t2[n].value
          /\ t1[n].type = "DEFINE" => t1[n].extra.text = t2[n].extra.text /\ t1[n].extra.text \in Q
      BY <1>3 DEF AlikeOn
    <2>2. CASE t1[n].type = "DEFINE"
      <3>1. d = GetConstMaxDepth \/ b[t1[n].extra.text] = c[t2[n].extra.text]
        BY <2>1, <2>2
      <3>2. QED
        BY <1>3, <2>1, <2>2, <3>1 DEF SymRead
    <2>3. CASE t1[n].type # "DEFINE"
      BY <1>3, <2>1, <2>3 DEF SymRead
    <2>4. QED
      BY <2>2, <2>3
  <1>4. QED
    BY <1>1, <1>2, <1>3

LEMMA ReadAlike ==
  ASSUME NEW Q \in SUBSET Sym, NEW t1, NEW t2, NEW sc, AlikeOn(Q, t1, t2, sc), NEW sym \in Q
  PROVE  Read(t1, sc, sym) = Read(t2, sc, sym)
  <1> DEFINE D == GetConstMaxDepth
             f == CHOOSE f : Reads(f, t1, sc)
             g == CHOOSE g : Reads(g, t2, sc)
             G == {m \in 0..D : \A s \in Q : f[D - m][s] = g[D - m][s]}
  <1> D \in Nat
    BY DepthAssumption DEF DepthAssumption
  <1>1. Reads(f, t1, sc) /\ Reads(g, t2, sc)
    BY ReadsExists
  <1>2. Read(t1, sc, sym) = f[0][sym] /\ Read(t2, sc, sym) = g[0][sym]
    BY ReadIs
  <1> HIDE DEF f, g
  <1>3. ASSUME NEW d \in 0..D, NEW s \in Q
        PROVE  /\ f[d][s] = SymRead(t1, sc, d, s, f[d + 1][t1[QName(s, sc)].extra.text])
               /\ g[d][s] = SymRead(t2, sc, d, s, g[d + 1][t2[QName(s, sc)].extra.text])
    <2>1. f[d] = LevelRead(f, t1, sc, d) /\ g[d] = LevelRead(g, t2, sc, d)
      BY <1>1 DEF Reads
    <2>2. QED
      BY <2>1 DEF LevelRead
  <1>4. 0 \in G
    <2>1. D \in 0..D /\ D - 0 = D
      OBVIOUS
    <2>2. \A s \in Q : f[D][s] = g[D][s]
      <3> SUFFICES ASSUME NEW s \in Q PROVE f[D][s] = g[D][s]
        OBVIOUS
      <3> DEFINE d == D
      <3>1. d = GetConstMaxDepth /\ d \in 0..D
        BY <2>1
      <3> HIDE DEF d
      <3>2. SymRead(t1, sc, d, s, f[d + 1][t1[QName(s, sc)].extra.text])
              = SymRead(t2, sc, d, s, g[d + 1][t2[QName(s, sc)].extra.text])
        BY <3>1, LevelAlike
      <3>3. f[d][s] = g[d][s]
        BY <1>3, <3>1, <3>2
      <3>4. QED
        BY <3>3 DEF d
    <2>3. QED
      BY <2>1, <2>2
  <1>5. ASSUME NEW m \in 0..D-1, m \in G PROVE m + 1 \in G
    <2> DEFINE d == D - (m + 1)
    <2>1. d \in 0..D /\ d + 1 = D - m /\ m + 1 \in 0..D
      OBVIOUS
    <2>2. \A s \in Q : f[d + 1][s] = g[d + 1][s]
      BY <1>5, <2>1
    <2> HIDE DEF d
    <2>3. \A s \in Q : f[d][s] = g[d][s]
      <3> SUFFICES ASSUME NEW s \in Q PROVE f[d][s] = g[d][s]
        OBVIOUS
      <3>1. SymRead(t1, sc, d, s, f[d + 1][t1[QName(s, sc)].extra.text])
              = SymRead(t2, sc, d, s, g[d + 1][t2[QName(s, sc)].extra.text])
        BY <2>2, LevelAlike
      <3>2. QED
        BY <1>3, <2>1, <3>1
    <2>4. QED
      BY <2>1, <2>3 DEF d
  <1>6. D \in 0..D /\ D - D = 0
    OBVIOUS
  <1>7. D \in G
    <2> HIDE DEF G
    <2> QED BY <1>4, <1>5, <1>6, UpTo
  <1>8. QED
    BY <1>2, <1>6, <1>7

(* An expression all of whose symbols mean the same is worth the same.     *)
LEMMA GetConstAlike ==
  ASSUME NEW Q \in SUBSET Sym, NEW t1, NEW t2, NEW sc, IsTable(t1), IsTable(t2), AlikeOn(Q, t1, t2, sc),
         NEW e \in Expr, \A i \in DOMAIN e : e[i].sym \in Q
  PROVE  GetConst(t1, sc, e) = GetConst(t2, sc, e)
  <1> DEFINE n == Len(e)
  <1>1. n \in Nat /\ DOMAIN e = 1..n
    BY DEF Expr
  <1>2. PICK r1 : Reckons(r1, t1, sc, e) /\ GetConst(t1, sc, e) = r1[n]
    BY GetConstRuns
  <1>3. PICK r2 : Reckons(r2, t2, sc, e) /\ GetConst(t2, sc, e) = r2[n]
    BY GetConstRuns
  <1> DEFINE G == {k \in 0..n : r1[k] = r2[k]}
  <1>4. 0 \in G
    BY <1>1, <1>2, <1>3 DEF Reckons
  <1>5. ASSUME NEW k \in 0..n-1, k \in G PROVE k + 1 \in G
    <2> DEFINE t == e[k + 1]
    <2>1. k + 1 \in DOMAIN e /\ k + 1 \in 0..n
      BY <1>1
    <2>2. t.sym \in Q
      BY <2>1
    <2>3. Read(t1, sc, t.sym) = Read(t2, sc, t.sym)
      BY <2>2, ReadAlike
    <2>4. Unknown(t1, sc, t) <=> Unknown(t2, sc, t)
      BY <2>2 DEF Unknown, AlikeOn
    <2>5. r1[k] = r2[k] /\ r1[k + 1] = TermRead(t1, sc, r1[k], t) /\ r2[k + 1] = TermRead(t2, sc, r2[k], t)
      BY <1>2, <1>3, <1>5 DEF Reckons
    <2> HIDE DEF t
    <2>6. TermRead(t1, sc, r1[k], t) = TermRead(t2, sc, r1[k], t)
      BY <2>3, <2>4, Zenon DEF TermRead
    <2>7. QED
      BY <2>1, <2>5, <2>6
  <1>6. n \in 0..n
    BY <1>1
  <1>7. n \in G
    <2> HIDE DEF G, n
    <2> QED BY <1>1, <1>4, <1>5, <1>6, UpTo
  <1>8. QED
    BY <1>2, <1>3, <1>7

-----------------------------------------------------------------------------
(* An opcode; one with room for the next after it, for the next three, and *)
(* for the number of a register; the field an opcode has in a modrm byte.  *)
OpByte == 0..255
OpPair == 0..254
OpFour == 0..252
OpReg  == 1..248
Field  == 0..7

(* The parts a row is made of, and the entries that are safe in a row of n *)
(* operands: one that is about an operand is about one of the n, and what  *)
(* is given of a byte leaves room for what is added to it.                 *)
Commands  == {"OP", "IMM8", "IMM16", "REL8", "REL16", "FAR_PTR", "PLUSREG", "RM"}
RegLists  == {<<>>, Reg8, Reg16, SegReg}
TableEntry == [cmd : Commands, n : (-1)..255, a : Nat, r : Nat, regs : RegLists, wide : BOOLEAN]
SafeEntry(n) ==
  {e \in TableEntry :
     /\ e.cmd = "OP" => e.n \in OpByte
     /\ e.cmd # "OP" => e.a < n
     /\ e.cmd = "PLUSREG" => e.n \in OpReg
     /\ e.cmd = "RM" => e.n \in Field \/ (e.n = -1 /\ e.r < n)}
PlainEntry(n) == {e \in SafeEntry(n) : e.cmd # "RM"}
AtEntry(n, k) == {e \in SafeEntry(n) : e.cmd = "RM" /\ e.a = k}

(* An operand is addressed after the one byte of the opcode, and where it  *)
(* is not an expression.                                                   *)
Types    == {"AL", "AX", "CL", "DX", "CS", "DS", "ES", "SS", "IMM", "MEM_16", "RM_8", "RM_16",
             "REG_8", "REG_16", "REG_SEG"}
Dists    == {"", "SHORT", "NEAR", "FAR"}
RowOf(n) == [dist : Dists, types : {t \in Seq(Types) : Len(t) = n},
             ops : Seq(SafeEntry(n))]
Addressable == Types \ {"IMM"}
Addressing(row) ==
  \A i \in DOMAIN row.ops : row.ops[i].cmd = "RM" =>
    i = 2 /\ row.ops[1].cmd = "OP" /\ row.types[row.ops[i].a + 1] \in Addressable
ShapedRow == UNION {RowOf(n) : n \in 0..2}
SafeRow   == {row \in ShapedRow : Addressing(row)}
SafeRows == Seq(SafeRow)

-----------------------------------------------------------------------------
(* Entries.                                                                *)

LEMMA Lists == Reg8 \in RegLists /\ Reg16 \in RegLists /\ SegReg \in RegLists
  BY DEF RegLists

LEMMA FirstEntry == Entry0 \in TableEntry
  <1>1. <<>> \in RegLists
    BY DEF RegLists
  <1>2. \A regs \in RegLists :
          [cmd |-> "OP", n |-> 0, a |-> 0, r |-> 0, regs |-> regs, wide |-> FALSE] \in TableEntry
    BY DEF TableEntry, Commands
  <1>3. QED
    BY <1>1, <1>2, Zenon DEF Entry0

LEMMA OpEntry ==
  ASSUME NEW k \in Nat, NEW b \in OpByte
  PROVE  Op(b) \in PlainEntry(k) /\ Op(b).cmd = "OP"
  <1>1. Op(b) = [Entry0 EXCEPT !.n = b] /\ Entry0 \in TableEntry /\ Entry0.cmd = "OP"
    BY FirstEntry DEF Op, Entry0
  <1>2. QED
    BY <1>1 DEF PlainEntry, SafeEntry, TableEntry, OpByte

LEMMA Entries ==
  ASSUME NEW k \in Nat, NEW p \in Nat, NEW q \in Nat, p < k, q < k, NEW regs \in RegLists,
         NEW wide \in BOOLEAN
  PROVE  /\ Imm8(p) \in PlainEntry(k) /\ Imm16(p) \in PlainEntry(k)
         /\ Rel8 \in PlainEntry(k) /\ Rel16 \in PlainEntry(k) /\ FarPtr \in PlainEntry(k)
         /\ \A b \in OpReg : PlusReg(b, p, regs) \in PlainEntry(k)
         /\ \A b \in Field : RmLine(b, p, wide) \in AtEntry(k, p)
         /\ Rm(p, q, regs, wide) \in AtEntry(k, p)
  <1> USE FirstEntry DEF SafeEntry, TableEntry, Commands, PlainEntry, AtEntry
  <1>1. Imm8(p) \in PlainEntry(k) /\ Imm16(p) \in PlainEntry(k)
    <2>1. PICK e : e = Entry0
      OBVIOUS
    <2>2. [e EXCEPT !.cmd = "IMM8", !.a = p] \in PlainEntry(k)
      BY <2>1, ZenonT(60)
    <2>3. [e EXCEPT !.cmd = "IMM16", !.a = p] \in PlainEntry(k)
      BY <2>1, ZenonT(60)
    <2>4. QED
      BY <2>1, <2>2, <2>3, Zenon DEF Imm8, Imm16
  <1>2. Rel8 \in PlainEntry(k) /\ Rel16 \in PlainEntry(k) /\ FarPtr \in PlainEntry(k)
    <2>1. Entry0.a = 0
      BY DEF Entry0
    <2>2. QED
      BY <2>1 DEF Rel8, Rel16, FarPtr
  <1>3. ASSUME NEW b \in OpReg PROVE PlusReg(b, p, regs) \in PlainEntry(k)
    <2>1. b \in (-1)..255
      BY DEF OpReg
    <2>2. PICK e : e = Entry0
      OBVIOUS
    <2>3. [e EXCEPT !.cmd = "PLUSREG", !.n = b, !.a = p, !.regs = regs] \in PlainEntry(k)
      BY <2>1, <2>2, ZenonT(60)
    <2>4. QED
      BY <2>2, <2>3, Zenon DEF PlusReg
  <1>4. ASSUME NEW m \in Field \cup {-1}
        PROVE  RmLine(m, p, wide) \in TableEntry /\ RmLine(m, p, wide).cmd = "RM"
               /\ RmLine(m, p, wide).a = p /\ RmLine(m, p, wide).n = m
    <2>1. m \in (-1)..255
      BY DEF Field
    <2>2. PICK e : e = Entry0
      OBVIOUS
    <2>3. PICK f : f = [e EXCEPT !.cmd = "RM", !.n = m, !.a = p, !.wide = wide]
      OBVIOUS
    <2>4. f \in TableEntry /\ f.cmd = "RM" /\ f.a = p /\ f.n = m
      BY <2>1, <2>2, <2>3
    <2>5. QED
      BY <2>2, <2>3, <2>4, Zenon DEF RmLine
  <1>5. ASSUME NEW b \in Field PROVE RmLine(b, p, wide) \in AtEntry(k, p)
    <2>1. b \in Field \cup {-1}
      OBVIOUS
    <2>2. PICK e : e = RmLine(b, p, wide)
      OBVIOUS
    <2>3. e \in TableEntry /\ e.cmd = "RM" /\ e.a = p /\ e.n \in Field
      BY <1>4, <2>1, <2>2
    <2>4. e \in AtEntry(k, p)
      <3> HIDE DEF TableEntry, Commands
      <3>1. e.cmd # "OP" /\ e.cmd # "PLUSREG" /\ e.a < k /\ e.a = p
        BY <2>3
      <3>2. QED
        BY <2>3, <3>1
    <2>5. QED
      BY <2>2, <2>4
  <1>6. Rm(p, q, regs, wide) \in AtEntry(k, p)
    <2>1. -1 \in Field \cup {-1}
      OBVIOUS
    <2>2. PICK e : e = RmLine(-1, p, wide)
      OBVIOUS
    <2>3. e \in TableEntry /\ e.cmd = "RM" /\ e.a = p /\ e.n = -1
      BY <1>4, <2>1, <2>2
    <2>4. [e EXCEPT !.r = q, !.regs = regs] \in AtEntry(k, p)
      BY <2>3
    <2>5. QED
      BY <2>2, <2>4, Zenon DEF Rm
  <1>7. QED
    BY <1>1, <1>2, <1>3, <1>5, <1>6, ZenonT(60)

-----------------------------------------------------------------------------
(* Rows.                                                                   *)

LEMMA KnownDists == "" \in Dists /\ "SHORT" \in Dists /\ "NEAR" \in Dists /\ "FAR" \in Dists
  BY DEF Dists
LEMMA Tuples ==
  ASSUME NEW S, NEW x \in S, NEW y \in S, NEW z \in S
  PROVE  /\ <<>> \in Seq(S) /\ Len(<<>>) = 0
         /\ <<x>> \in Seq(S) /\ Len(<<x>>) = 1
         /\ <<x, y>> \in Seq(S) /\ Len(<<x, y>>) = 2
         /\ <<x, y, z>> \in Seq(S) /\ Len(<<x, y, z>>) = 3
  OBVIOUS
LEMMA Joined ==
  ASSUME NEW S, NEW s \in Seq(S), NEW t \in Seq(S)
  PROVE  s \o t \in Seq(S)
  OBVIOUS

LEMMA RowShaped ==
  ASSUME NEW n \in 0..2, NEW types \in Seq(Types), Len(types) = n, NEW ops \in Seq(SafeEntry(n)),
         NEW d \in Dists
  PROVE  Row(types, ops) \in ShapedRow /\ DistRow(d, types, ops) \in ShapedRow
  <1>2. Row(types, ops) \in RowOf(n)
    BY KnownDists DEF Row, RowOf
  <1>3. DistRow(d, types, ops) \in RowOf(n)
    BY <1>2 DEF DistRow, RowOf
  <1>4. QED
    BY <1>2, <1>3 DEF ShapedRow
LEMMA RowSafe ==
  ASSUME NEW n \in 0..2, NEW types \in Seq(Types), Len(types) = n, NEW ops \in Seq(SafeEntry(n)),
         NEW d \in Dists,
         \A i \in DOMAIN ops : ops[i].cmd = "RM" =>
           i = 2 /\ ops[1].cmd = "OP" /\ types[ops[i].a + 1] \in Addressable
  PROVE  Row(types, ops) \in SafeRow /\ DistRow(d, types, ops) \in SafeRow
  <1>1. /\ Row(types, ops).types = types /\ Row(types, ops).ops = ops
        /\ DistRow(d, types, ops).types = types /\ DistRow(d, types, ops).ops = ops
    BY DEF Row, DistRow
  <1>2. Addressing(Row(types, ops)) /\ Addressing(DistRow(d, types, ops))
    BY <1>1, Zenon DEF Addressing
  <1>3. QED
    BY <1>2, RowShaped DEF SafeRow

LEMMA Counts == 0 \in 0..2 /\ 1 \in 0..2 /\ 2 \in 0..2
  OBVIOUS

LEMMA InLarger ==
  ASSUME NEW S, NEW T, S \subseteq T, NEW q \in Seq(S)
  PROVE  q \in Seq(T) /\ \A i \in DOMAIN q : q[i] \in S
  OBVIOUS

(* Rows that address nothing.                                              *)
LEMMA PlainRow ==
  ASSUME NEW n \in 0..2, NEW types \in Seq(Types), Len(types) = n, NEW ops \in Seq(PlainEntry(n)),
         NEW d \in Dists
  PROVE  Row(types, ops) \in SafeRow /\ DistRow(d, types, ops) \in SafeRow
  <1>1. PlainEntry(n) \subseteq SafeEntry(n) /\ \A e \in PlainEntry(n) : e.cmd # "RM"
    BY Zenon DEF PlainEntry
  <1>2. ops \in Seq(SafeEntry(n)) /\ \A i \in DOMAIN ops : ops[i] \in PlainEntry(n)
    BY <1>1, InLarger, Zenon
  <1>3. \A i \in DOMAIN ops : ops[i].cmd # "RM"
    BY <1>1, <1>2, Zenon
  <1>4. QED
    BY <1>2, <1>3, RowSafe, Zenon
LEMMA NoOperands ==
  ASSUME NEW e \in PlainEntry(0), NEW f \in PlainEntry(0)
  PROVE  Row(<<>>, <<e>>) \in SafeRow /\ Row(<<>>, <<e, f>>) \in SafeRow
  <1>1. <<>> \in Seq(Types) /\ Len(<<>>) = 0
    OBVIOUS
  <1>2. <<e>> \in Seq(PlainEntry(0)) /\ <<e, f>> \in Seq(PlainEntry(0))
    BY Tuples
  <1>3. QED
    BY <1>1, <1>2, Counts, PlainRow, KnownDists

LEMMA OneOperand ==
  ASSUME NEW t \in Types, NEW e \in PlainEntry(1), NEW f \in PlainEntry(1),
         NEW d \in Dists
  PROVE  /\ Row(<<t>>, <<e>>) \in SafeRow /\ Row(<<t>>, <<e, f>>) \in SafeRow
         /\ DistRow(d, <<t>>, <<e, f>>) \in SafeRow
  <1>1. <<t>> \in Seq(Types) /\ Len(<<t>>) = 1
    BY Tuples
  <1>2. <<e>> \in Seq(PlainEntry(1)) /\ <<e, f>> \in Seq(PlainEntry(1))
    BY Tuples
  <1>3. QED
    BY <1>1, <1>2, Counts, PlainRow, KnownDists

LEMMA TwoOperands ==
  ASSUME NEW t \in Types, NEW u \in Types, NEW e \in PlainEntry(2), NEW f \in PlainEntry(2),
         NEW g \in PlainEntry(2)
  PROVE  /\ Row(<<t, u>>, <<e>>) \in SafeRow /\ Row(<<t, u>>, <<e, f>>) \in SafeRow
         /\ Row(<<t, u>>, <<e, f, g>>) \in SafeRow
  <1>1. <<t, u>> \in Seq(Types) /\ Len(<<t, u>>) = 2
    BY Tuples
  <1>2. /\ <<e>> \in Seq(PlainEntry(2)) /\ <<e, f>> \in Seq(PlainEntry(2))
        /\ <<e, f, g>> \in Seq(PlainEntry(2))
    BY Tuples
  <1>3. QED
    BY <1>1, <1>2, Counts, PlainRow, KnownDists

(* Rows that address an operand.                                           *)
LEMMA RmSecond ==
  ASSUME NEW n \in 0..2, NEW types \in Seq(Types), Len(types) = n, NEW b \in OpByte,
         NEW k \in 0..n-1, types[k + 1] \in Addressable, NEW f \in AtEntry(n, k),
         NEW g \in PlainEntry(n), NEW d \in Dists
  PROVE  /\ Row(types, <<Op(b), f>>) \in SafeRow /\ DistRow(d, types, <<Op(b), f>>) \in SafeRow
         /\ Row(types, <<Op(b), f, g>>) \in SafeRow
  <1>1. /\ f \in SafeEntry(n) /\ f.a = k /\ g \in SafeEntry(n) /\ g.cmd # "RM"
        /\ PlainEntry(n) \subseteq SafeEntry(n)
    BY Zenon DEF AtEntry, PlainEntry
  <1>n. n \in Nat
    OBVIOUS
  <1>2. PICK e : e = Op(b)
    OBVIOUS
  <1>3. e \in SafeEntry(n) /\ e.cmd = "OP"
    BY <1>1, <1>n, <1>2, OpEntry, Zenon
  <1>4. <<e, f>> \in Seq(SafeEntry(n)) /\ <<e, f, g>> \in Seq(SafeEntry(n))
    BY <1>1, <1>3, Tuples
  <1>5. ASSUME NEW ops, ops = <<e, f>> \/ ops = <<e, f, g>>
        PROVE  \A i \in DOMAIN ops : ops[i].cmd = "RM" =>
                 i = 2 /\ ops[1].cmd = "OP" /\ types[ops[i].a + 1] \in Addressable
    <2>1. e.cmd = "OP" /\ e.cmd # "RM" /\ g.cmd # "RM" /\ types[f.a + 1] \in Addressable
      BY <1>1, <1>3
    <2>2. DOMAIN ops \subseteq {1, 2, 3} /\ ops[1] = e /\ ops[2] = f
      BY <1>5
    <2>3. 3 \in DOMAIN ops => ops[3] = g
      BY <1>5
    <2>4. QED
      BY <2>1, <2>2, <2>3
  <1>6. Row(types, <<e, f>>) \in SafeRow /\ DistRow(d, types, <<e, f>>) \in SafeRow
    BY <1>4, <1>5, RowSafe
  <1>7. Row(types, <<e, f, g>>) \in SafeRow
    BY <1>4, <1>5, RowSafe
  <1>8. QED
    BY <1>2, <1>6, <1>7
LEMMA OneAddressed ==
  ASSUME NEW t \in Addressable, NEW b \in OpByte, NEW f \in AtEntry(1, 0),
         NEW d \in Dists
  PROVE  Row(<<t>>, <<Op(b), f>>) \in SafeRow /\ DistRow(d, <<t>>, <<Op(b), f>>) \in SafeRow
  <1>1. <<t>> \in Seq(Types) /\ Len(<<t>>) = 1 /\ <<t>>[1] = t
    <2>1. t \in Types
      BY Zenon DEF Addressable
    <2>2. QED
      BY <2>1, Tuples
  <1>2. 0 \in 0..1-1 /\ 0 + 1 = 1 /\ 1 \in Nat
    BY SMT
  <1>3. PICK g : g \in PlainEntry(1)
    BY <1>2, OpEntry
  <1>4. QED
    BY <1>1, <1>2, <1>3, Counts, RmSecond
LEMMA TwoAddressed ==
  ASSUME NEW t \in Types, NEW u \in Types, NEW b \in OpByte, NEW g \in PlainEntry(2),
         NEW k \in {0, 1}, NEW f \in AtEntry(2, k), (IF k = 0 THEN t ELSE u) \in Addressable
  PROVE  /\ Row(<<t, u>>, <<Op(b), f>>) \in SafeRow
         /\ Row(<<t, u>>, <<Op(b), f, g>>) \in SafeRow
  <1>1. <<t, u>> \in Seq(Types) /\ Len(<<t, u>>) = 2
    OBVIOUS
  <1>2. k \in 0..2-1 /\ <<t, u>>[k + 1] \in Addressable
    OBVIOUS
  <1>3. "" \in Dists
    BY KnownDists
  <1>4. QED
    BY <1>1, <1>2, <1>3, Counts, RmSecond
(* With nothing of the row but the opcode and what addresses.              *)
LEMMA PairAddressed ==
  ASSUME NEW t \in Types, NEW u \in Types, NEW b \in OpByte
  PROVE  /\ \A f \in AtEntry(2, 0) : t \in Addressable => Row(<<t, u>>, <<Op(b), f>>) \in SafeRow
         /\ \A f \in AtEntry(2, 1) : u \in Addressable => Row(<<t, u>>, <<Op(b), f>>) \in SafeRow
         /\ \A f \in AtEntry(2, 0), g \in PlainEntry(2) :
               t \in Addressable => Row(<<t, u>>, <<Op(b), f, g>>) \in SafeRow
  <1>1. 2 \in Nat
    OBVIOUS
  <1>2. PICK h : h \in PlainEntry(2)
    BY <1>1, OpEntry
  <1>3. 0 \in {0, 1} /\ 1 \in {0, 1} /\ 1 # 0
    OBVIOUS
  <1>4. \A f \in AtEntry(2, 0), g \in PlainEntry(2) : t \in Addressable =>
          Row(<<t, u>>, <<Op(b), f>>) \in SafeRow /\ Row(<<t, u>>, <<Op(b), f, g>>) \in SafeRow
    <2>1. (IF 0 = 0 THEN t ELSE u) = t
      OBVIOUS
    <2>2. QED
      BY <1>3, <2>1, TwoAddressed, Zenon
  <1>5. \A f \in AtEntry(2, 1), g \in PlainEntry(2) :
          u \in Addressable => Row(<<t, u>>, <<Op(b), f>>) \in SafeRow
    <2>1. (IF 1 = 0 THEN t ELSE u) = u
      OBVIOUS
    <2>2. QED
      BY <1>3, <2>1, TwoAddressed, Zenon
  <1>6. QED
    BY <1>2, <1>4, <1>5, Zenon

-----------------------------------------------------------------------------
(* Groups of rows.                                                         *)

LEMMA InBytes == \A b \in OpPair : b \in OpByte /\ b + 1 \in OpByte
  BY DEF OpPair, OpByte

(* The entries a row of two, of one and of no operands may have.           *)
LEMMA OfTwo ==
  ASSUME NEW wide \in BOOLEAN, NEW regs \in RegLists
  PROVE  /\ \A b \in OpByte : Op(b) \in PlainEntry(2)
         /\ \A b \in OpReg : PlusReg(b, 0, regs) \in PlainEntry(2) /\ PlusReg(b, 1, regs) \in PlainEntry(2)
         /\ Imm8(0) \in PlainEntry(2) /\ Imm8(1) \in PlainEntry(2)
         /\ Imm16(0) \in PlainEntry(2) /\ Imm16(1) \in PlainEntry(2)
         /\ Rm(1, 0, regs, wide) \in AtEntry(2, 1) /\ Rm(0, 1, regs, wide) \in AtEntry(2, 0)
         /\ \A n \in Field : RmLine(n, 0, wide) \in AtEntry(2, 0)
  <1>1. 0 \in Nat /\ 1 \in Nat /\ 2 \in Nat /\ 0 < 2 /\ 1 < 2
    OBVIOUS
  <1>2. QED
    BY <1>1, Entries, OpEntry
LEMMA OfOne ==
  ASSUME NEW wide \in BOOLEAN, NEW regs \in RegLists
  PROVE  /\ \A b \in OpByte : Op(b) \in PlainEntry(1)
         /\ \A b \in OpReg : PlusReg(b, 0, regs) \in PlainEntry(1)
         /\ Imm8(0) \in PlainEntry(1) /\ Imm16(0) \in PlainEntry(1)
         /\ Rel8 \in PlainEntry(1) /\ Rel16 \in PlainEntry(1) /\ FarPtr \in PlainEntry(1)
         /\ \A n \in Field : RmLine(n, 0, wide) \in AtEntry(1, 0)
  <1>1. 0 \in Nat /\ 1 \in Nat /\ 0 < 1
    OBVIOUS
  <1>2. QED
    BY <1>1, Entries, OpEntry
LEMMA OfNone == ASSUME NEW b \in OpByte PROVE Op(b) \in PlainEntry(0)
  <1>1. 0 \in Nat
    OBVIOUS
  <1>2. QED
    BY <1>1, OpEntry

LEMMA KnownTypes ==
     {"AL", "AX", "CL", "DX", "CS", "DS", "ES", "SS", "IMM", "MEM_16", "RM_8", "RM_16", "REG_8",
      "REG_16", "REG_SEG"} \subseteq Types
  BY DEF Types
LEMMA KnownAddressable ==
  {"RM_8", "RM_16", "MEM_16", "REG_16"} \subseteq Addressable
  BY DEF Types, Addressable

LEMMA MovingGroups ==
  ASSUME NEW b \in OpPair
  PROVE  FromRm(b) \in SafeRows /\ ToRm(b) \in SafeRows /\ AccImm(b) \in SafeRows
  <1> USE TwoOperands, PairAddressed, Tuples DEF SafeRows
  <1>1. /\ Op(b) \in PlainEntry(2) /\ Op(b + 1) \in PlainEntry(2)
        /\ Imm8(1) \in PlainEntry(2) /\ Imm16(1) \in PlainEntry(2)
        /\ \A wide \in BOOLEAN, regs \in RegLists :
             Rm(1, 0, regs, wide) \in AtEntry(2, 1) /\ Rm(0, 1, regs, wide) \in AtEntry(2, 0)
    BY OfTwo, Lists, InBytes
  <1>2. {"REG_8", "REG_16", "RM_8", "RM_16"} \subseteq Types
    BY KnownTypes
  <1>3. {"AL", "AX", "IMM"} \subseteq Types
    BY KnownTypes
  <1>at. {"RM_8", "RM_16"} \subseteq Addressable
    BY KnownAddressable
  <1>4. FromRm(b) \in SafeRows
    BY <1>1, <1>2, <1>at, Lists, InBytes, Zenon DEF FromRm
  <1>5. ToRm(b) \in SafeRows
    BY <1>1, <1>2, <1>at, Lists, InBytes, Zenon DEF ToRm
  <1>6. AccImm(b) \in SafeRows
    BY <1>1, <1>3, Zenon DEF AccImm
  <1>7. QED
    BY <1>4, <1>5, <1>6

LEMMA ImmediateGroups ==
  ASSUME NEW b \in OpPair, NEW n \in Field
  PROVE  RmImm(b, n) \in SafeRows /\ ShiftImm(n) \in SafeRows /\ ByCL(n) \in SafeRows
  <1>1. "RM_8" \in Types /\ "RM_16" \in Types /\ "IMM" \in Types /\ "CL" \in Types
    BY KnownTypes
  <1>2. ASSUME NEW x \in OpByte
        PROVE  /\ Row(<<"RM_8", "IMM">>, <<Op(x), RmLine(n, 0, FALSE), Imm8(1)>>) \in SafeRow
               /\ Row(<<"RM_16", "IMM">>, <<Op(x), RmLine(n, 0, TRUE), Imm8(1)>>) \in SafeRow
               /\ Row(<<"RM_16", "IMM">>, <<Op(x), RmLine(n, 0, TRUE), Imm16(1)>>) \in SafeRow
               /\ Row(<<"RM_8", "CL">>, <<Op(x), RmLine(n, 0, FALSE)>>) \in SafeRow
               /\ Row(<<"RM_16", "CL">>, <<Op(x), RmLine(n, 0, TRUE)>>) \in SafeRow
    <2>1. /\ Op(x) \in PlainEntry(2) /\ Imm8(1) \in PlainEntry(2) /\ Imm16(1) \in PlainEntry(2)
          /\ RmLine(n, 0, TRUE) \in AtEntry(2, 0) /\ RmLine(n, 0, FALSE) \in AtEntry(2, 0)
      BY OfTwo, Lists
    <2>at. "RM_8" \in Addressable /\ "RM_16" \in Addressable
      BY KnownAddressable
    <2>2. QED
      BY <1>1, <2>1, <2>at, PairAddressed, Zenon
  <1>3. b \in OpByte /\ b + 1 \in OpByte /\ 192 \in OpByte /\ 193 \in OpByte /\ 210 \in OpByte
        /\ 211 \in OpByte
    BY InBytes DEF OpByte
  <1>4. RmImm(b, n) \in SafeRows
    <2>1. /\ Row(<<"RM_8", "IMM">>, <<Op(b), RmLine(n, 0, FALSE), Imm8(1)>>) \in SafeRow
          /\ Row(<<"RM_16", "IMM">>, <<Op(b + 1), RmLine(n, 0, TRUE), Imm16(1)>>) \in SafeRow
      BY <1>2, <1>3
    <2>2. QED
      BY <2>1, Tuples, Zenon DEF RmImm, SafeRows
  <1>5. ShiftImm(n) \in SafeRows
    <2>1. /\ Row(<<"RM_8", "IMM">>, <<Op(192), RmLine(n, 0, FALSE), Imm8(1)>>) \in SafeRow
          /\ Row(<<"RM_16", "IMM">>, <<Op(193), RmLine(n, 0, TRUE), Imm8(1)>>) \in SafeRow
      BY <1>2, <1>3
    <2>2. QED
      BY <2>1, Tuples, Zenon DEF ShiftImm, SafeRows
  <1>6. ByCL(n) \in SafeRows
    <2>1. /\ Row(<<"RM_8", "CL">>, <<Op(210), RmLine(n, 0, FALSE)>>) \in SafeRow
          /\ Row(<<"RM_16", "CL">>, <<Op(211), RmLine(n, 0, TRUE)>>) \in SafeRow
      BY <1>2, <1>3, ZenonT(60)
    <2>2. QED
      BY <2>1, Tuples, ZenonT(60) DEF ByCL, SafeRows
  <1>7. QED
    BY <1>4, <1>5, <1>6

LEMMA OperandGroups ==
  ASSUME NEW n \in Field, NEW t \in Types
  PROVE  /\ \A b \in OpPair : OneRm(b, n) \in SafeRows /\ NarrowRm(b, n) \in SafeRows
         /\ \A b \in OpReg : PlusRow(b) \in SafeRows
         /\ \A b \in OpByte : Jump8(b) \in SafeRows /\ Stack(t, b) \in SafeRows
  <1> USE OneOperand, OneAddressed, Tuples DEF SafeRows
  <1>1. /\ \A b \in OpByte : Op(b) \in PlainEntry(1)
        /\ \A b \in OpReg : PlusReg(b, 0, Reg16) \in PlainEntry(1)
        /\ RmLine(n, 0, TRUE) \in AtEntry(1, 0) /\ RmLine(n, 0, FALSE) \in AtEntry(1, 0)
        /\ Rel8 \in PlainEntry(1)
    BY OfOne, Lists
  <1>2. {"RM_8", "RM_16", "IMM", "REG_16"} \subseteq Types
    BY KnownTypes
  <1>at. {"RM_8", "RM_16"} \subseteq Addressable /\ "" \in Dists
    BY KnownAddressable, KnownDists
  <1>3. \A b \in OpPair : OneRm(b, n) \in SafeRows
    BY <1>1, <1>2, <1>at, InBytes, Zenon DEF OneRm
  <1>4. \A b \in OpPair : NarrowRm(b, n) \in SafeRows
    BY <1>1, <1>2, <1>at, InBytes, Zenon DEF NarrowRm
  <1>5. \A b \in OpReg : PlusRow(b) \in SafeRows
    BY <1>1, <1>2, <1>at, Zenon DEF PlusRow
  <1>6. \A b \in OpByte : Jump8(b) \in SafeRows
    BY <1>1, <1>2, <1>at, Zenon DEF Jump8
  <1>7. \A b \in OpByte : Stack(t, b) \in SafeRows
    BY <1>1, <1>at, Zenon DEF Stack
  <1>8. QED
    BY <1>3, <1>4, <1>5, <1>6, <1>7

LEMMA OtherGroups ==
  ASSUME NEW b \in OpByte
  PROVE  Pointer(b) \in SafeRows /\ Alone(<<Op(b)>>) \in SafeRows
  <1>1. Op(b) \in PlainEntry(2) /\ Rm(1, 0, Reg16, TRUE) \in AtEntry(2, 1)
    BY OfTwo, Lists
  <1>2. {"REG_16", "MEM_16"} \subseteq Types
    BY KnownTypes
  <1>at. "MEM_16" \in Addressable
    BY KnownAddressable
  <1>3. Pointer(b) \in SafeRows
    BY <1>1, <1>2, <1>at, TwoOperands, PairAddressed, Tuples, Zenon DEF Pointer, SafeRows
  <1>4. Alone(<<Op(b)>>) \in SafeRows
    BY OfNone, NoOperands, Tuples, Zenon DEF Alone, SafeRows
  <1>5. QED
    BY <1>3, <1>4

LEMMA ArithmeticGroups ==
  ASSUME NEW acc \in OpPair, NEW b \in OpFour, NEW n \in Field
  PROVE  FromFirst(acc, b, n) \in SafeRows /\ ToFirst(acc, b, n) \in SafeRows
  <1>1. b \in OpPair /\ b + 2 \in OpPair /\ 128 \in OpPair
    BY DEF OpFour, OpPair
  <1>2. /\ AccImm(acc) \in SafeRows /\ FromRm(b) \in SafeRows /\ FromRm(b + 2) \in SafeRows
        /\ ToRm(b) \in SafeRows /\ ToRm(b + 2) \in SafeRows /\ RmImm(128, n) \in SafeRows
    BY <1>1, MovingGroups, ImmediateGroups, Zenon
  <1>3. QED
    BY <1>2, Joined, Zenon DEF FromFirst, ToFirst, SafeRows

-----------------------------------------------------------------------------
(* The table.                                                              *)

LEMMA ArithmeticSafe == \A m \in DOMAIN Arithmetic : Arithmetic[m] \in SafeRows
  <1>1. \A acc \in OpPair, b \in OpFour, n \in Field :
          FromFirst(acc, b, n) \in SafeRows /\ ToFirst(acc, b, n) \in SafeRows
    BY ArithmeticGroups
  <1>2. \A b \in OpPair, n \in Field : OneRm(b, n) \in SafeRows /\ NarrowRm(b, n) \in SafeRows
    BY OperandGroups, KnownTypes
  <1>3. Alone(<<Op(55)>>) \o FromFirst(4, 0, 0) \in SafeRows
    <2>1. \A c \in OpByte, acc \in OpPair, b \in OpFour, n \in Field :
            Alone(<<Op(c)>>) \o FromFirst(acc, b, n) \in SafeRows
      BY <1>1, OtherGroups, Joined DEF SafeRows
    <2>2. 55 \in OpByte /\ 4 \in OpPair /\ 0 \in OpFour /\ 0 \in Field
      BY DEF OpByte, OpPair, OpFour, Field
    <2>3. QED
      BY <2>1, <2>2, Zenon
  <1>4. ToRm(132) \o RmImm(246, 0) \in SafeRows
    <2>1. \A b, c \in OpPair, n \in Field : ToRm(b) \o RmImm(c, n) \in SafeRows
      BY MovingGroups, ImmediateGroups, Joined DEF SafeRows
    <2>2. 132 \in OpPair /\ 246 \in OpPair /\ 0 \in Field
      BY DEF OpPair, Field
    <2>3. QED
      BY <2>1, <2>2, ZenonT(60)
  <1>5. \A b \in OpReg, n \in Field : PlusRow(b) \o OneRm(254, n) \in SafeRows
    <2>1. \A b \in OpReg, c \in OpPair, n \in Field : PlusRow(b) \o OneRm(c, n) \in SafeRows
      BY OperandGroups, KnownTypes, Joined DEF SafeRows
    <2>2. 254 \in OpPair
      BY DEF OpPair
    <2>3. QED
      BY <2>1, <2>2, Zenon
  <1>6. DOMAIN Arithmetic = {"ADC", "ADD", "AND", "SBB", "CMP", "OR", "SUB", "XOR", "TEST", "INC",
                             "DEC", "MUL", "IMUL", "DIV", "IDIV", "NEG", "NOT"}
    BY DEF Arithmetic
  <1>7. /\ Arithmetic["ADC"] \in SafeRows /\ Arithmetic["ADD"] \in SafeRows
        /\ Arithmetic["AND"] \in SafeRows /\ Arithmetic["SBB"] \in SafeRows
        /\ Arithmetic["CMP"] \in SafeRows /\ Arithmetic["OR"] \in SafeRows
        /\ Arithmetic["SUB"] \in SafeRows /\ Arithmetic["XOR"] \in SafeRows
        /\ Arithmetic["TEST"] \in SafeRows
    <2>1. /\ 20 \in OpPair /\ 36 \in OpPair /\ 28 \in OpPair /\ 60 \in OpPair /\ 10 \in OpPair
          /\ 44 \in OpPair /\ 52 \in OpPair
          /\ 16 \in OpFour /\ 32 \in OpFour /\ 24 \in OpFour /\ 56 \in OpFour /\ 8 \in OpFour
          /\ 40 \in OpFour /\ 48 \in OpFour
          /\ 1 \in Field /\ 2 \in Field /\ 3 \in Field /\ 4 \in Field /\ 5 \in Field /\ 6 \in Field
          /\ 7 \in Field
      BY DEF OpPair, OpFour, Field
    <2>2. /\ FromFirst(20, 16, 2) \in SafeRows /\ FromFirst(36, 32, 4) \in SafeRows
          /\ FromFirst(28, 24, 3) \in SafeRows /\ ToFirst(60, 56, 7) \in SafeRows
          /\ ToFirst(10, 8, 1) \in SafeRows /\ ToFirst(44, 40, 5) \in SafeRows
          /\ ToFirst(52, 48, 6) \in SafeRows
      BY <1>1, <2>1, Zenon
    <2>3. QED
      BY <1>3, <1>4, <2>2 DEF Arithmetic
  <1>8. /\ Arithmetic["INC"] \in SafeRows /\ Arithmetic["DEC"] \in SafeRows
        /\ Arithmetic["MUL"] \in SafeRows /\ Arithmetic["IMUL"] \in SafeRows
        /\ Arithmetic["DIV"] \in SafeRows /\ Arithmetic["IDIV"] \in SafeRows
        /\ Arithmetic["NEG"] \in SafeRows /\ Arithmetic["NOT"] \in SafeRows
    BY <1>2, <1>5, SMTT(20) DEF Arithmetic, OpPair, OpReg, Field
  <1>9. QED
    BY <1>6, <1>7, <1>8

LEMMA ShiftsSafe == \A m \in DOMAIN Shifts \ {"SAL"} : Shifts[m] \in SafeRows
  <1>1. \A b \in OpPair, n \in Field : OneRm(b, n) \in SafeRows
    BY OperandGroups, KnownTypes
  <1>2. \A n \in Field : ByCL(n) \o ShiftImm(n) \in SafeRows
    <2>1. 0 \in OpPair
      BY DEF OpPair
    <2>2. QED
      BY <2>1, ImmediateGroups, Joined DEF SafeRows
  <1>3. DOMAIN Shifts = {"RCL1", "RCL", "RCR1", "RCR", "ROL1", "ROL", "ROR1", "ROR", "SAL1", "SAL",
                         "SAR1", "SAR", "SHL1", "SHL", "SHR1", "SHR"}
    BY DEF Shifts
  <1>4. /\ Shifts["RCL1"] \in SafeRows /\ Shifts["RCL"] \in SafeRows /\ Shifts["RCR1"] \in SafeRows
        /\ Shifts["RCR"] \in SafeRows /\ Shifts["ROL1"] \in SafeRows /\ Shifts["ROL"] \in SafeRows
        /\ Shifts["ROR1"] \in SafeRows /\ Shifts["ROR"] \in SafeRows /\ Shifts["SAL1"] \in SafeRows
    BY <1>1, <1>2 DEF Shifts, OpPair, Field
  <1>5. /\ Shifts["SAR1"] \in SafeRows /\ Shifts["SAR"] \in SafeRows /\ Shifts["SHL1"] \in SafeRows
        /\ Shifts["SHL"] \in SafeRows /\ Shifts["SHR1"] \in SafeRows /\ Shifts["SHR"] \in SafeRows
    BY <1>1, <1>2 DEF Shifts, OpPair, Field
  <1>6. QED
    BY <1>3, <1>4, <1>5

(* The rows that stand alone in the table: of two operands, of one.        *)
LEMMA PairRows ==
  ASSUME NEW b \in OpByte
  PROVE  /\ Row(<<"IMM", "AL">>, <<Op(b), Imm8(1)>>) \in SafeRow
         /\ Row(<<"IMM", "AX">>, <<Op(b), Imm16(1)>>) \in SafeRow
         /\ b \in OpReg =>
              /\ Row(<<"REG_8", "IMM">>,  <<PlusReg(b, 0, Reg8), Imm8(1)>>) \in SafeRow
              /\ Row(<<"REG_16", "IMM">>, <<PlusReg(b, 0, Reg16), Imm16(1)>>) \in SafeRow
              /\ Row(<<"AX", "REG_16">>, <<PlusReg(b, 1, Reg16)>>) \in SafeRow
         /\ Row(<<"RM_16", "REG_SEG">>, <<Op(b), Rm(0, 1, SegReg, TRUE)>>) \in SafeRow
         /\ Row(<<"REG_SEG", "RM_16">>, <<Op(b), Rm(1, 0, SegReg, TRUE)>>) \in SafeRow
         /\ Row(<<"REG_16", "MEM_16">>, <<Op(b), Rm(0, 1, Reg16, TRUE)>>) \in SafeRow
         /\ Row(<<"IMM", "IMM">>, <<Op(b), Imm16(0), Imm8(1)>>) \in SafeRow
  <1>1. /\ "IMM" \in Types /\ "AL" \in Types /\ "AX" \in Types /\ "REG_8" \in Types
        /\ "REG_16" \in Types /\ "REG_SEG" \in Types /\ "RM_16" \in Types /\ "MEM_16" \in Types
    BY KnownTypes
  <1>2. /\ Op(b) \in PlainEntry(2) /\ Imm8(1) \in PlainEntry(2) /\ Imm16(0) \in PlainEntry(2)
        /\ Imm16(1) \in PlainEntry(2)
        /\ b \in OpReg => /\ PlusReg(b, 0, Reg8) \in PlainEntry(2) /\ PlusReg(b, 0, Reg16) \in PlainEntry(2)
                          /\ PlusReg(b, 1, Reg16) \in PlainEntry(2)
    BY OfTwo, Lists
  <1>3. /\ Rm(0, 1, SegReg, TRUE) \in AtEntry(2, 0) /\ Rm(1, 0, SegReg, TRUE) \in AtEntry(2, 1)
        /\ Rm(0, 1, Reg16, TRUE) \in AtEntry(2, 0)
    BY OfTwo, Lists
  <1>at. "RM_16" \in Addressable /\ "REG_16" \in Addressable
    BY KnownAddressable
  <1>4. QED
    BY <1>1, <1>2, <1>3, <1>at, TwoOperands, PairAddressed
LEMMA PortRows ==
  ASSUME NEW b \in OpByte
  PROVE  /\ Row(<<"IMM", "AL">>, <<Op(b), Imm8(0)>>) \in SafeRow
         /\ Row(<<"IMM", "AX">>, <<Op(b), Imm8(0)>>) \in SafeRow
         /\ Row(<<"DX", "AL">>, <<Op(b)>>) \in SafeRow /\ Row(<<"DX", "AX">>, <<Op(b)>>) \in SafeRow
         /\ Row(<<"AL", "IMM">>, <<Op(b), Imm8(1)>>) \in SafeRow
         /\ Row(<<"AX", "IMM">>, <<Op(b), Imm8(1)>>) \in SafeRow
         /\ Row(<<"AL", "DX">>, <<Op(b)>>) \in SafeRow /\ Row(<<"AX", "DX">>, <<Op(b)>>) \in SafeRow
  <1>1. "IMM" \in Types /\ "AL" \in Types /\ "AX" \in Types /\ "DX" \in Types
    BY KnownTypes
  <1>2. Op(b) \in PlainEntry(2) /\ Imm8(0) \in PlainEntry(2) /\ Imm8(1) \in PlainEntry(2)
    BY OfTwo, Lists
  <1>3. QED
    BY <1>1, <1>2, TwoOperands, PairAddressed
LEMMA SingleRows ==
  ASSUME NEW b \in OpByte
  PROVE  /\ \A n \in Field :
              /\ Row(<<"RM_16">>, <<Op(b), RmLine(n, 0, TRUE)>>) \in SafeRow
              /\ DistRow("FAR", <<"MEM_16">>, <<Op(b), RmLine(n, 0, TRUE)>>) \in SafeRow
         /\ DistRow("FAR", <<"IMM">>, <<Op(b), FarPtr>>) \in SafeRow
         /\ DistRow("SHORT", <<"IMM">>, <<Op(b), Rel8>>) \in SafeRow
         /\ DistRow("NEAR", <<"IMM">>, <<Op(b), Rel16>>) \in SafeRow
         /\ Row(<<"IMM">>, <<Op(b), Rel16>>) \in SafeRow
         /\ Row(<<"IMM">>, <<Op(b), Imm8(0)>>) \in SafeRow
         /\ Row(<<"IMM">>, <<Op(b), Imm16(0)>>) \in SafeRow
  <1>1. "RM_16" \in Types /\ "MEM_16" \in Types /\ "IMM" \in Types
    BY KnownTypes
  <1>2. /\ Op(b) \in PlainEntry(1) /\ \A n \in Field : RmLine(n, 0, TRUE) \in AtEntry(1, 0)
        /\ Rel8 \in PlainEntry(1) /\ Rel16 \in PlainEntry(1) /\ FarPtr \in PlainEntry(1)
        /\ Imm8(0) \in PlainEntry(1) /\ Imm16(0) \in PlainEntry(1)
    BY OfOne, Lists
  <1>at. "RM_16" \in Addressable /\ "MEM_16" \in Addressable
    BY KnownAddressable
  <1>3. QED
    BY <1>1, <1>2, <1>at, OneOperand, OneAddressed, KnownDists

LEMMA FourOf ==
  ASSUME NEW S, NEW w \in S, NEW x \in S, NEW y \in S, NEW z \in S
  PROVE  <<w, x, y, z>> \in Seq(S)
  OBVIOUS

LEMMA MovesSafe == \A m \in DOMAIN Moves : Moves[m] \in SafeRows
  <1>1. DOMAIN Moves = {"MOV", "XCHG", "LDS", "LES", "LEA", "BOUND", "OUT", "POP", "PUSH"}
    BY DEF Moves
  <1>2. /\ \A b \in OpPair, n \in Field :
             ToRm(b) \in SafeRows /\ FromRm(b) \in SafeRows /\ RmImm(b, n) \in SafeRows
        /\ \A b \in OpByte : Pointer(b) \in SafeRows
    BY MovingGroups, ImmediateGroups, OtherGroups
  <1>plus. \A b \in OpReg : PlusRow(b) \in SafeRows
    <2>1. 0 \in Field
      BY DEF Field
    <2>2. QED
      BY <2>1, OperandGroups, KnownTypes
  <1>3. \A b \in OpByte, t \in {"CS", "DS", "ES", "SS"} : Stack(t, b) \in SafeRows
    <2>1. 0 \in Field
      BY DEF Field
    <2>2. QED
      BY <2>1, OperandGroups, KnownTypes
  <1>4. Moves["MOV"] \in SafeRows
    <2>num1. 162 \in OpByte /\ 163 \in OpByte
      BY DEF OpByte
    <2>1. /\ Row(<<"IMM", "AL">>, <<Op(162), Imm8(1)>>) \in SafeRow
          /\ Row(<<"IMM", "AX">>, <<Op(163), Imm16(1)>>) \in SafeRow
      <3>1. \A b \in OpByte : /\ Row(<<"IMM", "AL">>, <<Op(b), Imm8(1)>>) \in SafeRow
                           /\ Row(<<"IMM", "AX">>, <<Op(b), Imm16(1)>>) \in SafeRow
        BY PairRows
      <3>2. QED
        BY <2>num1, <3>1, Zenon
    <2>num2. 140 \in OpByte /\ 142 \in OpByte /\ 176 \in OpByte /\ 176 \in OpReg /\ 184 \in OpByte /\ 184 \in OpReg
      BY DEF OpByte, OpReg
    <2>2. /\ Row(<<"REG_8", "IMM">>,  <<PlusReg(176, 0, Reg8), Imm8(1)>>) \in SafeRow
          /\ Row(<<"REG_16", "IMM">>, <<PlusReg(184, 0, Reg16), Imm16(1)>>) \in SafeRow
          /\ Row(<<"RM_16", "REG_SEG">>, <<Op(140), Rm(0, 1, SegReg, TRUE)>>) \in SafeRow
          /\ Row(<<"REG_SEG", "RM_16">>, <<Op(142), Rm(1, 0, SegReg, TRUE)>>) \in SafeRow
      <3>1. \A b \in OpByte : /\ b \in OpReg =>
                                /\ Row(<<"REG_8", "IMM">>, <<PlusReg(b, 0, Reg8), Imm8(1)>>) \in SafeRow
                                /\ Row(<<"REG_16", "IMM">>, <<PlusReg(b, 0, Reg16), Imm16(1)>>) \in SafeRow
                           /\ Row(<<"RM_16", "REG_SEG">>, <<Op(b), Rm(0, 1, SegReg, TRUE)>>) \in SafeRow
                           /\ Row(<<"REG_SEG", "RM_16">>, <<Op(b), Rm(1, 0, SegReg, TRUE)>>) \in SafeRow
        BY PairRows
      <3>2. QED
        BY <2>num2, <3>1, ZenonT(60)
    <2>3. << Row(<<"IMM", "AL">>, <<Op(162), Imm8(1)>>), Row(<<"IMM", "AX">>, <<Op(163), Imm16(1)>>),
             Row(<<"REG_8", "IMM">>,  <<PlusReg(176, 0, Reg8), Imm8(1)>>),
             Row(<<"REG_16", "IMM">>, <<PlusReg(184, 0, Reg16), Imm16(1)>>) >> \in SafeRows
      BY <2>1, <2>2, FourOf, ZenonT(60) DEF SafeRows
    <2>4. << Row(<<"RM_16", "REG_SEG">>, <<Op(140), Rm(0, 1, SegReg, TRUE)>>),
             Row(<<"REG_SEG", "RM_16">>, <<Op(142), Rm(1, 0, SegReg, TRUE)>>) >> \in SafeRows
      BY <2>2, Tuples, Zenon DEF SafeRows
    <2>5. ToRm(136) \in SafeRows /\ FromRm(138) \in SafeRows /\ RmImm(198, 0) \in SafeRows
      <3>1. 136 \in OpPair /\ 138 \in OpPair /\ 198 \in OpPair /\ 0 \in Field
        BY DEF OpPair, Field
      <3>2. QED
        BY <1>2, <3>1, Zenon
    <2>6. QED
      BY <2>3, <2>4, <2>5, Joined DEF Moves, SafeRows
  <1>5. Moves["XCHG"] \in SafeRows
    <2>num1. 144 \in OpByte /\ 144 \in OpReg
      BY DEF OpByte, OpReg
    <2>1. << Row(<<"AX", "REG_16">>, <<PlusReg(144, 1, Reg16)>>) >> \in SafeRows
      <3>1. \A b \in OpByte :
              b \in OpReg => << Row(<<"AX", "REG_16">>, <<PlusReg(b, 1, Reg16)>>) >> \in SafeRows
        BY PairRows, Tuples DEF SafeRows
      <3>2. QED
        BY <2>num1, <3>1, Zenon
    <2>2. ToRm(134) \in SafeRows /\ FromRm(134) \in SafeRows
      <3>1. 134 \in OpPair /\ 0 \in Field
        BY DEF OpPair, Field
      <3>2. QED
        BY <1>2, <3>1, Zenon
    <2>3. QED
      BY <2>1, <2>2, Joined DEF Moves, SafeRows
  <1>6. Moves["LDS"] \in SafeRows /\ Moves["LES"] \in SafeRows /\ Moves["LEA"] \in SafeRows
    BY <1>2 DEF Moves, OpByte
  <1>7. Moves["BOUND"] \in SafeRows
    <2>num1. 98 \in OpByte
      BY DEF OpByte
    <2>1. << Row(<<"REG_16", "MEM_16">>, <<Op(98), Rm(0, 1, Reg16, TRUE)>>) >> \in SafeRows
      <3>1. \A b \in OpByte : << Row(<<"REG_16", "MEM_16">>, <<Op(b), Rm(0, 1, Reg16, TRUE)>>) >> \in SafeRows
        BY PairRows, Tuples DEF SafeRows
      <3>2. QED
        BY <2>num1, <3>1, Zenon
    <2>2. QED
      BY <2>1 DEF Moves
  <1>8. Moves["OUT"] \in SafeRows
    <2>num1. 230 \in OpByte /\ 231 \in OpByte /\ 238 \in OpByte /\ 239 \in OpByte
      BY DEF OpByte
    <2>1. /\ Row(<<"IMM", "AL">>, <<Op(230), Imm8(0)>>) \in SafeRow
          /\ Row(<<"IMM", "AX">>, <<Op(231), Imm8(0)>>) \in SafeRow
          /\ Row(<<"DX", "AL">>, <<Op(238)>>) \in SafeRow /\ Row(<<"DX", "AX">>, <<Op(239)>>) \in SafeRow
      <3>1. \A b \in OpByte : /\ Row(<<"IMM", "AL">>, <<Op(b), Imm8(0)>>) \in SafeRow
                           /\ Row(<<"IMM", "AX">>, <<Op(b), Imm8(0)>>) \in SafeRow
                           /\ Row(<<"DX", "AL">>, <<Op(b)>>) \in SafeRow
                           /\ Row(<<"DX", "AX">>, <<Op(b)>>) \in SafeRow
        BY PortRows
      <3>2. QED
        BY <2>num1, <3>1, ZenonT(60)
    <2>2. QED
      BY <2>1, FourOf DEF Moves, SafeRows
  <1>9. Moves["POP"] \in SafeRows
    <2>num1. 0 \in Field /\ 143 \in OpByte
      BY DEF OpByte, Field
    <2>1. << Row(<<"RM_16">>, <<Op(143), RmLine(0, 0, TRUE)>>) >> \in SafeRows
      <3>1. \A b \in OpByte, n \in Field : << Row(<<"RM_16">>, <<Op(b), RmLine(n, 0, TRUE)>>) >> \in SafeRows
        BY SingleRows, Tuples DEF SafeRows
      <3>2. QED
        BY <2>num1, <3>1, Zenon
    <2>2. /\ PlusRow(88) \in SafeRows /\ Stack("DS", 31) \in SafeRows /\ Stack("ES", 7) \in SafeRows
          /\ Stack("SS", 23) \in SafeRows
      <3>1. 88 \in OpReg /\ 31 \in OpByte /\ 7 \in OpByte /\ 23 \in OpByte
        BY DEF OpReg, OpByte
      <3>2. QED
        BY <1>plus, <1>3, <3>1, Zenon
    <2>3. QED
      BY <2>1, <2>2, Joined DEF Moves, SafeRows
  <1>10. Moves["PUSH"] \in SafeRows
    <2>num1. 6 \in Field /\ 255 \in OpByte
      BY DEF OpByte, Field
    <2>1. << Row(<<"RM_16">>, <<Op(255), RmLine(6, 0, TRUE)>>) >> \in SafeRows
      <3>1. \A b \in OpByte, n \in Field : Row(<<"RM_16">>, <<Op(b), RmLine(n, 0, TRUE)>>) \in SafeRow
        BY SingleRows
      <3>2. Row(<<"RM_16">>, <<Op(255), RmLine(6, 0, TRUE)>>) \in SafeRow
        BY <2>num1, <3>1, Zenon
      <3>3. QED
        BY <3>2, Tuples, ZenonT(60) DEF SafeRows
    <2>num2. 106 \in OpByte
      BY DEF OpByte
    <2>2. << Row(<<"IMM">>, <<Op(106), Imm16(0)>>) >> \in SafeRows
      <3>1. \A b \in OpByte : << Row(<<"IMM">>, <<Op(b), Imm16(0)>>) >> \in SafeRows
        BY SingleRows, Tuples DEF SafeRows
      <3>2. QED
        BY <2>num2, <3>1, Zenon
    <2>3. /\ PlusRow(80) \in SafeRows /\ Stack("CS", 14) \in SafeRows /\ Stack("DS", 30) \in SafeRows
          /\ Stack("ES", 6) \in SafeRows /\ Stack("SS", 22) \in SafeRows
      <3>1. 80 \in OpReg /\ 14 \in OpByte /\ 30 \in OpByte /\ 6 \in OpByte /\ 22 \in OpByte
        BY DEF OpReg, OpByte
      <3>2. QED
        BY <1>plus, <1>3, <3>1, Zenon
    <2>4. QED
      BY <2>1, <2>2, <2>3, Joined DEF Moves, SafeRows
  <1>11. QED
    BY <1>1, <1>4, <1>5, <1>6, <1>7, <1>8, <1>9, <1>10

LEMMA TransfersSafe == \A m \in DOMAIN Transfers : Transfers[m] \in SafeRows
  <1>1. DOMAIN Transfers = {"CALL", "JMP", "RET", "RETF", "INT", "ENTER", "AAD", "AAM", "CLTS"}
    BY DEF Transfers
  <1>2. Transfers["CALL"] \in SafeRows
    <2>1. 232 \in OpByte /\ 255 \in OpByte /\ 154 \in OpByte /\ 3 \in Field /\ 2 \in Field
      BY DEF OpByte, Field
    <2>2. \A b \in OpByte, n \in Field : /\ Row(<<"RM_16">>, <<Op(b), RmLine(n, 0, TRUE)>>) \in SafeRow
                            /\ DistRow("FAR", <<"MEM_16">>, <<Op(b), RmLine(n, 0, TRUE)>>) \in SafeRow
      BY SingleRows
    <2>3. /\ DistRow("FAR", <<"MEM_16">>, <<Op(255), RmLine(3, 0, TRUE)>>) \in SafeRow
          /\ Row(<<"RM_16">>, <<Op(255), RmLine(2, 0, TRUE)>>) \in SafeRow
      BY <2>1, <2>2, ZenonT(60)
    <2>4. /\ DistRow("NEAR", <<"IMM">>, <<Op(232), Rel16>>) \in SafeRow
          /\ DistRow("FAR", <<"IMM">>, <<Op(154), FarPtr>>) \in SafeRow
          /\ Row(<<"IMM">>, <<Op(232), Rel16>>) \in SafeRow
      <3>1. \A b \in OpByte : /\ DistRow("NEAR", <<"IMM">>, <<Op(b), Rel16>>) \in SafeRow
                           /\ DistRow("FAR", <<"IMM">>, <<Op(b), FarPtr>>) \in SafeRow
                           /\ Row(<<"IMM">>, <<Op(b), Rel16>>) \in SafeRow
        BY SingleRows
      <3>2. QED
        BY <2>1, <3>1, Zenon
    <2>5. QED
      BY <2>3, <2>4 DEF Transfers, SafeRows
  <1>3. Transfers["JMP"] \in SafeRows
    <2>1. /\ 255 \in OpByte /\ 234 \in OpByte /\ 235 \in OpByte /\ 233 \in OpByte /\ 5 \in Field /\ 4 \in Field
      BY DEF OpByte, Field
    <2>2. \A b \in OpByte, n \in Field : /\ Row(<<"RM_16">>, <<Op(b), RmLine(n, 0, TRUE)>>) \in SafeRow
                            /\ DistRow("FAR", <<"MEM_16">>, <<Op(b), RmLine(n, 0, TRUE)>>) \in SafeRow
      BY SingleRows
    <2>3. /\ DistRow("FAR", <<"MEM_16">>, <<Op(255), RmLine(5, 0, TRUE)>>) \in SafeRow
          /\ Row(<<"RM_16">>, <<Op(255), RmLine(4, 0, TRUE)>>) \in SafeRow
      BY <2>1, <2>2, ZenonT(60)
    <2>4. /\ DistRow("FAR", <<"IMM">>, <<Op(234), FarPtr>>) \in SafeRow
          /\ DistRow("SHORT", <<"IMM">>, <<Op(235), Rel8>>) \in SafeRow
          /\ Row(<<"IMM">>, <<Op(233), Rel16>>) \in SafeRow
          /\ DistRow("NEAR", <<"IMM">>, <<Op(233), Rel16>>) \in SafeRow
      <3>1. \A b \in OpByte : /\ DistRow("FAR", <<"IMM">>, <<Op(b), FarPtr>>) \in SafeRow
                           /\ DistRow("SHORT", <<"IMM">>, <<Op(b), Rel8>>) \in SafeRow
                           /\ Row(<<"IMM">>, <<Op(b), Rel16>>) \in SafeRow
                           /\ DistRow("NEAR", <<"IMM">>, <<Op(b), Rel16>>) \in SafeRow
        BY SingleRows
      <3>2. QED
        BY <2>1, <3>1, ZenonT(60)
    <2>5. QED
      BY <2>3, <2>4 DEF Transfers, SafeRows
  <1>4. /\ << Row(<<"IMM">>, <<Op(194), Imm16(0)>>) >> \in SafeRows
        /\ << Row(<<"IMM">>, <<Op(202), Imm16(0)>>) >> \in SafeRows
        /\ << Row(<<"IMM">>, <<Op(205), Imm8(0)>>) >> \in SafeRows
        /\ << Row(<<"IMM">>, <<Op(213), Imm8(0)>>) >> \in SafeRows
        /\ << Row(<<"IMM">>, <<Op(212), Imm8(0)>>) >> \in SafeRows
    <2>1. 194 \in OpByte /\ 202 \in OpByte /\ 205 \in OpByte /\ 213 \in OpByte /\ 212 \in OpByte /\ 0 \in Field
      BY DEF OpByte, Field
    <2>2. \A b \in OpByte : /\ << Row(<<"IMM">>, <<Op(b), Imm16(0)>>) >> \in SafeRows
                         /\ << Row(<<"IMM">>, <<Op(b), Imm8(0)>>) >> \in SafeRows
      BY SingleRows, Tuples DEF SafeRows
    <2>3. QED
      BY <2>1, <2>2, ZenonT(60)
  <1>5. Transfers["RET"] \in SafeRows /\ Transfers["RETF"] \in SafeRows
    <2>1. Alone(<<Op(195)>>) \in SafeRows /\ Alone(<<Op(203)>>) \in SafeRows
      <3>1. 195 \in OpByte /\ 203 \in OpByte
        BY DEF OpByte
      <3>2. QED
        BY <3>1, OtherGroups, Zenon
    <2>2. QED
      BY <1>4, <2>1, Joined DEF Transfers, SafeRows
  <1>6. Transfers["INT"] \in SafeRows
    BY <1>4 DEF Transfers
  <1>7. Transfers["ENTER"] \in SafeRows
    <2>1. 200 \in OpByte
      BY DEF OpByte
    <2>2. \A b \in OpByte : << Row(<<"IMM", "IMM">>, <<Op(b), Imm16(0), Imm8(1)>>) >> \in SafeRows
      BY PairRows, Tuples DEF SafeRows
    <2>3. << Row(<<"IMM", "IMM">>, <<Op(200), Imm16(0), Imm8(1)>>) >> \in SafeRows
      BY <2>1, <2>2, Zenon
    <2>4. QED
      BY <2>3 DEF Transfers
  <1>8. \A b, c \in OpByte : Alone(<<Op(b), Op(c)>>) \in SafeRows
    BY OfNone, NoOperands, Tuples, Zenon DEF Alone, SafeRows
  <1>9. Transfers["AAD"] \in SafeRows /\ Transfers["AAM"] \in SafeRows
    <2>1. Alone(<<Op(213), Op(10)>>) \in SafeRows /\ Alone(<<Op(212), Op(10)>>) \in SafeRows
      <3>1. 213 \in OpByte /\ 212 \in OpByte /\ 10 \in OpByte
        BY DEF OpByte
      <3>2. QED
        BY <1>8, <3>1, Zenon
    <2>2. QED
      BY <1>4, <2>1, Joined DEF Transfers, SafeRows
  <1>10. Transfers["CLTS"] \in SafeRows
    <2>1. Alone(<<Op(15), Op(6)>>) \in SafeRows
      <3>1. 15 \in OpByte /\ 6 \in OpByte
        BY DEF OpByte
      <3>2. QED
        BY <1>8, <3>1, Zenon
    <2>2. QED
      BY <2>1 DEF Transfers
  <1>11. QED
    BY <1>1, <1>2, <1>3, <1>5, <1>6, <1>7, <1>9, <1>10

LEMMA InSafe == InRows \in SafeRows
  <1>1. 228 \in OpByte /\ 229 \in OpByte /\ 236 \in OpByte /\ 237 \in OpByte
    BY DEF OpByte
  <1>2. /\ Row(<<"AL", "IMM">>, <<Op(228), Imm8(1)>>) \in SafeRow
        /\ Row(<<"AX", "IMM">>, <<Op(229), Imm8(1)>>) \in SafeRow
        /\ Row(<<"AL", "DX">>, <<Op(236)>>) \in SafeRow /\ Row(<<"AX", "DX">>, <<Op(237)>>) \in SafeRow
    <2>1. \A b \in OpByte : /\ Row(<<"AL", "IMM">>, <<Op(b), Imm8(1)>>) \in SafeRow
                         /\ Row(<<"AX", "IMM">>, <<Op(b), Imm8(1)>>) \in SafeRow
                         /\ Row(<<"AL", "DX">>, <<Op(b)>>) \in SafeRow
                         /\ Row(<<"AX", "DX">>, <<Op(b)>>) \in SafeRow
      BY PortRows
    <2>2. QED
      BY <1>1, <2>1, ZenonT(60)
  <1>3. QED
    BY <1>2, FourOf, ZenonT(60) DEF InRows, SafeRows

LEMMA SimpleSafe == \A m \in DOMAIN Simple : Alone(<<Op(Simple[m])>>) \in SafeRows
  <1>1. \A m \in DOMAIN Simple : Simple[m] \in OpByte
    BY DEF Simple, OpByte
  <1>2. QED
    BY <1>1, OtherGroups
LEMMA BranchSafe == \A m \in DOMAIN Branch : Jump8(Branch[m]) \in SafeRows
  <1>1. \A m \in DOMAIN Branch : Branch[m] \in OpByte
    BY DEF Branch, OpByte
  <1>2. 0 \in Field
    BY DEF Field
  <1>3. QED
    BY <1>1, <1>2, OperandGroups, KnownTypes

(* Every mnemonic but SAL has safe rows only.                              *)
LEMMA TableSafe == \A m \in DOMAIN instr86 \ {"SAL"} : instr86[m] \in SafeRows
  <1> DEFINE Rows(m) ==
        CASE m \in DOMAIN Simple     -> Alone(<<Op(Simple[m])>>)
          [] m \in DOMAIN Branch     -> Jump8(Branch[m])
          [] m \in DOMAIN Arithmetic -> Arithmetic[m]
          [] m \in DOMAIN Shifts     -> Shifts[m]
          [] m \in DOMAIN Moves      -> Moves[m]
          [] m \in DOMAIN Transfers  -> Transfers[m]
          [] m = "IN"                -> InRows
  <1>1. SUFFICES ASSUME NEW m \in DOMAIN instr86, m # "SAL"
                 PROVE  instr86[m] \in SafeRows
    OBVIOUS
  <1>2. instr86[m] = Rows(m)
    BY DEF instr86
  <1>3. m \in DOMAIN Simple \cup DOMAIN Branch \cup DOMAIN Arithmetic \cup DOMAIN Shifts
              \cup DOMAIN Moves \cup DOMAIN Transfers \cup {"IN"}
    BY DEF instr86
  <1>4. Rows(m) \in SafeRows
    BY <1>1, <1>3, SimpleSafe, BranchSafe, ArithmeticSafe, ShiftsSafe, MovesSafe, TransfersSafe, InSafe
  <1>5. QED
    BY <1>2, <1>4

-----------------------------------------------------------------------------
(* Where a row is taken, and what is emitted of it.                        *)

LEMMA SalByName == \A w : lookupLex(w) = "SAL" => w = "SAL"
  <1>1. \A w \in DOMAIN Aliases : Aliases[w] # "SAL"
    BY DEF Aliases
  <1>2. QED
    BY <1>1 DEF lookupLex

LEMMA SafeRowsOf == \A m : m # "SAL" => RowsOf(m) \in SafeRows
  <1>1. <<>> \in SafeRows
    BY Tuples DEF SafeRows
  <1>2. QED
    BY <1>1, TableSafe DEF RowsOf

(* The row an instruction is assembled with is one of its mnemonic's that  *)
(* takes the operands.                                                     *)
LEMMA RowFound ==
  ASSUME NEW m, Len(RowsOf(m)) \in Nat, NEW dist, NEW params, RowFor(m, dist, params) # 0
  PROVE  /\ RowFor(m, dist, params) \in 1..Len(RowsOf(m))
         /\ Matches(RowsOf(m)[RowFor(m, dist, params)], dist, params)
  <1> DEFINE I == {i \in 1..Len(RowsOf(m)) : Matches(RowsOf(m)[i], dist, params)}
  <1>1. RowFor(m, dist, params) = IF I # {} THEN CHOOSE i \in I : \A j \in I : i <= j ELSE 0
    BY DEF RowFor, SelectInSeq, Min
  <1>2. RowFor(m, dist, params) \in I
    BY <1>1, MinOfNaturals DEF Min
  <1>3. QED
    BY <1>2

(* It has an element for every operand.                                    *)
LEMMA RowTaken ==
  ASSUME NEW m, RowsOf(m) \in SafeRows, NEW dist, NEW params, RowFor(m, dist, params) # 0
  PROVE  /\ RowsOf(m)[RowFor(m, dist, params)] \in SafeRow
         /\ Len(RowsOf(m)[RowFor(m, dist, params)].types) = Len(params)
         /\ \A k \in DOMAIN params :
              Fits(Type(params[k]), RowsOf(m)[RowFor(m, dist, params)].types[k])
  <1>1. Len(RowsOf(m)) \in Nat
    BY DEF SafeRows
  <1>2. QED
    BY <1>1, RowFound DEF SafeRows, Matches

LEMMA OfItsOperands ==
  ASSUME NEW row \in SafeRow
  PROVE  Len(row.types) \in Nat /\ row.ops \in Seq(SafeEntry(Len(row.types)))
  <1>1. PICK n \in 0..2 : row \in RowOf(n)
    BY Zenon DEF SafeRow, ShapedRow
  <1>2. Len(row.types) = n
    BY <1>1 DEF RowOf
  <1>3. row.ops \in Seq(SafeEntry(n))
    BY <1>1 DEF RowOf
  <1>4. QED
    <2>1. n \in Nat
      OBVIOUS
    <2>2. QED
      BY <1>2, <1>3, <2>1, Zenon
(* What an addressed operand's type fits is not an expression.             *)
LEMMA FitsAddressed ==
  ASSUME NEW o \in Operand, NEW want \in Addressable, Fits(Type(o), want)
  PROVE  o.kind \in {"reg", "mem"}
  <1>1. SUFFICES ASSUME o.kind = "imm" PROVE FALSE
    BY DEF Operand
  <1>2. Type(o) = "IMM"
    BY <1>1 DEF Type
  <1>3. "IMM" \notin Range(Reg8) /\ "IMM" \notin Range(Reg16) /\ "IMM" \notin Range(SegReg)
    BY DEF Range, Reg8, Reg16, SegReg
  <1>4. want # "IMM"
    BY DEF Addressable
  <1>5. QED
    BY <1>2, <1>3, <1>4 DEF Fits

-----------------------------------------------------------------------------
(* The chunks a row is laid out in.                                        *)

LEMMA ChunkParts ==
  /\ \A n \in Nat : Fixed(n) \in Chunk
  /\ \A form \in Forms, e \in Expr : Part(form, e) \in Chunk
  <1>1. "bytes" \in Forms /\ <<>> \in Expr
    BY DEF Forms, Expr
  <1>2. \A n \in Nat : Fixed(n) \in Chunk
    BY <1>1 DEF Fixed, Chunk
  <1>3. \A form \in Forms, e \in Expr : Part(form, e) \in Chunk
    BY DEF Part, Chunk
  <1>4. QED
    BY <1>2, <1>3

LEMMA TextType == ASSUME NEW o \in Operand PROVE Text(o) \in Expr
  <1>1. o.reg \in STRING /\ o.e \in Expr
    BY DEF Operand
  <1>2. [kind |-> "global", name |-> o.reg, n |-> 0] \in Sym
    BY <1>1 DEF Sym, SymKinds
  <1>3. [op |-> "+", sym |-> [kind |-> "global", name |-> o.reg, n |-> 0]] \in Term
    BY <1>2 DEF Term, Operations
  <1>4. QED
    BY <1>1, <1>3 DEF Text, Expr

(* What the registers leave of an address is an expression.                *)
LEMMA RestType ==
  ASSUME NEW e \in Expr, NEW m \in Nat \ {0}
  PROVE  SubSeq(e, m, Len(e)) \in Expr
  <1>1. e \in Seq(Term)
    BY DEF Expr
  <1>2. \A i \in m..Len(e) : e[i] \in Term
    BY <1>1
  <1>3. QED
    BY <1>1, <1>2 DEF Expr

LEMMA BasedType == ASSUME NEW e \in Expr PROVE Based(e).disp \in Expr
  <1> DEFINE used == IF Paired(e) THEN 2 ELSE 1
  <1>1. used \in Nat /\ used + 1 \in Nat \ {0}
    OBVIOUS
  <1>2. <<>> \in Expr
    BY DEF Expr
  <1> HIDE DEF used
  <1>3. Based(e).disp = IF Whole(e, used) THEN SubSeq(e, used + 1, Len(e)) ELSE <<>>
    BY DEF Based, used
  <1>4. QED
    BY <1>1, <1>2, <1>3, RestType

LEMMA RmChunkType ==
  ASSUME NEW o \in Operand, NEW wide \in BOOLEAN
  PROVE  RmChunk(o, wide) \in Chunk
  <1>1. o.e \in Expr /\ Based(o.e).disp \in Expr
    BY BasedType DEF Operand
  <1>2. 1 \in Nat /\ 2 \in Nat /\ "addr" \in Forms /\ "based" \in Forms
    BY DEF Forms
  <1>3. CASE o.kind = "reg"
    BY <1>2, <1>3, ChunkParts DEF RmChunk
  <1>4. CASE o.kind = "mem" /\ Like(o.e, 1) = ""
    <2>1. RmChunk(o, wide) = [Part("addr", o.e) EXCEPT !.wide = wide]
      BY <1>4 DEF RmChunk
    <2>2. Part("addr", o.e) \in Chunk
      BY <1>1, <1>2, ChunkParts
    <2>3. QED
      BY <2>1, <2>2 DEF Chunk
  <1>5. CASE o.kind # "reg" /\ ~(o.kind = "mem" /\ Like(o.e, 1) = "")
    <2>1. RmChunk(o, wide) = IF Based(o.e).disp # <<>> THEN Part("based", Based(o.e).disp)
                             ELSE Fixed(IF Based(o.e).rm = 6 THEN 2 ELSE 1)
      BY <1>5 DEF RmChunk
    <2>2. QED
      BY <1>1, <1>2, <2>1, ChunkParts
  <1>6. QED
    BY <1>3, <1>4, <1>5

LEMMA EntryChunksType ==
  ASSUME NEW params \in Seq(Operand), NEW entry \in SafeEntry(Len(params))
  PROVE  EntryChunks(entry, params) \in Seq(Chunk)
  <1> DEFINE o == params[entry.a + 1]
  <1>1. entry.cmd \in Commands /\ entry.a \in Nat /\ entry.wide \in BOOLEAN
    BY DEF SafeEntry, TableEntry
  <1>2. entry.cmd \in {"OP", "PLUSREG"} => EntryChunks(entry, params) = <<Fixed(1)>>
    BY DEF EntryChunks
  <1>3. CASE entry.cmd \in {"OP", "PLUSREG"}
    <2>1. 1 \in Nat
      OBVIOUS
    <2>2. Fixed(1) \in Chunk
      BY <2>1, ChunkParts
    <2> HIDE DEF o
    <2>3. <<Fixed(1)>> \in Seq(Chunk)
      BY <2>2
    <2>4. EntryChunks(entry, params) = <<Fixed(1)>>
      BY <1>2, <1>3
    <2>5. QED
      BY <2>3, <2>4, Zenon
  <1>4. CASE entry.cmd \notin {"OP", "PLUSREG"}
    <2>1. entry.a + 1 \in 1..Len(params)
      BY <1>1, <1>4 DEF SafeEntry
    <2>2. o \in Operand
      BY <2>1
    <2>3. Text(o) \in Expr /\ RmChunk(o, entry.wide) \in Chunk
      BY <1>1, <2>2, TextType, RmChunkType
    <2>4. \A form \in {"byte", "word", "rel8", "rel16", "far"} : <<Part(form, Text(o))>> \in Seq(Chunk)
      BY <2>3, ChunkParts DEF Forms
    <2>5. (IF Override(o) THEN <<Fixed(1)>> ELSE <<>>) \o <<RmChunk(o, entry.wide)>> \in Seq(Chunk)
      <3>1. (IF Override(o) THEN <<Fixed(1)>> ELSE <<>>) \in Seq(Chunk)
        BY ChunkParts
      <3>2. <<RmChunk(o, entry.wide)>> \in Seq(Chunk)
        BY <2>3
      <3>3. QED
        BY <3>1, <3>2
    <2>6. /\ entry.cmd = "IMM8"    => EntryChunks(entry, params) = <<Part("byte", Text(o))>>
          /\ entry.cmd = "IMM16"   => EntryChunks(entry, params) = <<Part("word", Text(o))>>
          /\ entry.cmd = "REL8"    => EntryChunks(entry, params) = <<Part("rel8", Text(o))>>
          /\ entry.cmd = "REL16"   => EntryChunks(entry, params) = <<Part("rel16", Text(o))>>
          /\ entry.cmd = "FAR_PTR" => EntryChunks(entry, params) = <<Part("far", Text(o))>>
          /\ entry.cmd = "RM" => EntryChunks(entry, params) =
               (IF Override(o) THEN <<Fixed(1)>> ELSE <<>>) \o <<RmChunk(o, entry.wide)>>
      BY DEF EntryChunks
    <2> HIDE DEF o
    <2>7. QED
      BY <1>1, <1>4, <2>4, <2>5, <2>6 DEF Commands
  <1>5. QED
    BY <1>3, <1>4

LEMMA RowChunksType ==
  ASSUME NEW row \in SafeRow, NEW params \in Seq(Operand), Len(row.types) = Len(params)
  PROVE  RowChunks(row, params) \in Seq(Chunk)
  <1> DEFINE q == [i \in DOMAIN row.ops |-> EntryChunks(row.ops[i], params)]
  <1>1. row.ops \in Seq(SafeEntry(Len(params)))
    BY OfItsOperands
  <1>2. Len(row.ops) \in Nat /\ DOMAIN row.ops = 1..Len(row.ops)
    BY <1>1
  <1>3. \A i \in DOMAIN row.ops : q[i] \in Seq(Chunk)
    BY <1>1, EntryChunksType
  <1>4. q \in Seq(Seq(Chunk))
    <2> DEFINE n == Len(row.ops)
               S == Seq(Chunk)
    <2>1. q \in [1..n -> S] /\ n \in Nat
      BY <1>2, <1>3
    <2> HIDE DEF n, q, S
    <2>2. q \in Seq(S)
      BY <2>1
    <2>3. QED
      BY <2>2 DEF S
  <1>5. QED
    BY <1>4, FlattenType DEF RowChunks
-----------------------------------------------------------------------------
(* The modrm byte.                                                         *)

LEMMA NumberRange ==
  ASSUME NEW regs, Len(regs) \in Nat, NEW r
  PROVE  /\ Number(r, regs) \in (-1)..Len(regs)-1
         /\ (\E i \in 1..Len(regs) : regs[i] = r) => Number(r, regs) \in 0..Len(regs)-1
  <1> DEFINE I == {i \in 1..Len(regs) : regs[i] = r}
             c == SelectInSeq(regs, LAMBDA x : x = r)
  <1>1. c = IF I # {} THEN CHOOSE i \in I : \A j \in I : i <= j ELSE 0
    BY DEF SelectInSeq, Min
  <1>2. I \in SUBSET Nat /\ \A i \in I : i \in 1..Len(regs)
    OBVIOUS
  <1> HIDE DEF I
  <1>3. I # {} => c \in I
    BY <1>1, <1>2, MinOfNaturals
  <1>4. Number(r, regs) = c - 1
    BY DEF Number
  <1> HIDE DEF c
  <1>5. I = {} => c = 0
    BY <1>1
  <1>6. (\E i \in 1..Len(regs) : regs[i] = r) => I # {}
    BY DEF I
  <1>7. c \in 0..Len(regs) /\ (I # {} => c \in 1..Len(regs))
    <2>1. CASE I = {}
      BY <1>5, <2>1
    <2>2. CASE I # {}
      <3>1. c \in 1..Len(regs)
        BY <1>2, <1>3, <2>2
      <3>2. QED
        BY <2>2, <3>1
    <2>3. QED
      BY <2>1, <2>2
  <1>8. QED
    BY <1>4, <1>6, <1>7

LEMMA RegListLengths == \A regs \in RegLists : Len(regs) \in 0..8
  BY DEF RegLists, Reg8, Reg16, SegReg

RmBases == << <<"BX", "SI">>, <<"BX", "DI">>, <<"BP", "SI">>, <<"BP", "DI">>,
              <<"SI">>, <<"DI">>, <<"BP">>, <<"BX">> >>

LEMMA PairNumber ==
  \A x \in {"BX", "BP"}, y \in {"SI", "DI"} : Number(<<x, y>>, RmBases) \in 0..7
  <1>1. /\ RmBases[1] = <<"BX", "SI">> /\ RmBases[2] = <<"BX", "DI">>
        /\ RmBases[3] = <<"BP", "SI">> /\ RmBases[4] = <<"BP", "DI">> /\ Len(RmBases) = 8
    BY DEF RmBases
  <1>2. 1 \in 1..8 /\ 2 \in 1..8 /\ 3 \in 1..8 /\ 4 \in 1..8 /\ 8 \in Nat /\ 8 - 1 = 7
    OBVIOUS
  <1>3. \A x \in {"BX", "BP"}, y \in {"SI", "DI"} : \E i \in 1..8 : RmBases[i] = <<x, y>>
    BY <1>1, <1>2, Zenon
  <1>4. \A r : (\E i \in 1..8 : RmBases[i] = r) => Number(r, RmBases) \in 0..7
    BY <1>1, <1>2, NumberRange
  <1>5. QED
    BY <1>3, <1>4
LEMMA SingleNumber ==
  \A x \in {"BX", "BP", "SI", "DI"} : Number(<<x>>, RmBases) \in 0..7
  <1>1. /\ RmBases[5] = <<"SI">> /\ RmBases[6] = <<"DI">> /\ RmBases[7] = <<"BP">> /\ RmBases[8] = <<"BX">>
        /\ Len(RmBases) = 8
    BY DEF RmBases
  <1>2. 5 \in 1..8 /\ 6 \in 1..8 /\ 7 \in 1..8 /\ 8 \in 1..8 /\ 8 \in Nat /\ 8 - 1 = 7
    OBVIOUS
  <1>3. \A x \in {"BX", "BP", "SI", "DI"} : \E i \in 1..8 : RmBases[i] = <<x>>
    BY <1>1, <1>2, Zenon
  <1>4. \A r : (\E i \in 1..8 : RmBases[i] = r) => Number(r, RmBases) \in 0..7
    BY <1>1, <1>2, NumberRange
  <1>5. QED
    BY <1>3, <1>4
LEMMA FirstTerms ==
  /\ \A e : [i \in 1..2 |-> Like(e, i)] = <<Like(e, 1), Like(e, 2)>>
  /\ \A e : [i \in 1..1 |-> Like(e, i)] = <<Like(e, 1)>>
  OBVIOUS

(* The registers an address begins with are those of one of the eight.     *)
LEMMA BasedRm == ASSUME NEW e, Like(e, 1) # "" PROVE Based(e).rm \in 0..7
  <1>1. Based(e).rm = Number([i \in 1..(IF Paired(e) THEN 2 ELSE 1) |-> Like(e, i)], RmBases)
    BY DEF Based, RmOf, RmBases
  <1>2. Like(e, 1) \in {"BX", "BP", "SI", "DI"}
    BY RegLikeAssumption DEF RegLikeAssumption, Like
  <1>3. CASE Paired(e)
    <2>1. Based(e).rm = Number(<<Like(e, 1), Like(e, 2)>>, RmBases)
      BY <1>1, <1>3, FirstTerms, Zenon
    <2>2. Like(e, 1) \in {"BX", "BP"} /\ Like(e, 2) \in {"SI", "DI"}
      BY <1>3 DEF Paired
    <2>3. QED
      BY <2>1, <2>2, PairNumber, Zenon
  <1>4. CASE ~Paired(e)
    <2>1. Based(e).rm = Number(<<Like(e, 1)>>, RmBases)
      BY <1>1, <1>4, FirstTerms, Zenon
    <2>2. QED
      BY <1>2, <2>1, SingleNumber, Zenon
  <1>5. QED
    BY <1>3, <1>4

(* The four shapes of an address.                                          *)
LEMMA AddressIs ==
  ASSUME NEW tab, NEW sc, NEW o \in Operand, o.kind \in {"reg", "mem"}
  PROVE  LET ad == Address(tab, sc, o)
             b  == Based(o.e)
         IN /\ o.kind = "reg" => /\ ad.mod = 3 /\ ad.disp = <<>> /\ ad.src = <<>>
                                 /\ ad.rm \in {Number(o.reg, Reg8), Number(o.reg, Reg16)}
            /\ o.kind = "mem" /\ Like(o.e, 1) = "" =>
                 ad.mod = 0 /\ ad.rm = 6 /\ ad.disp = o.e /\ ad.src = o.e
            /\ o.kind = "mem" /\ Like(o.e, 1) # "" =>
                 /\ ad.disp = b.disp /\ ad.src = <<>> /\ ad.rm = b.rm
                 /\ b.disp # <<>> => ad.mod = IF Value(tab, sc, b.disp) < 128 THEN 1 ELSE 2
                 /\ b.disp = <<>> => ad.mod = IF b.rm = 6 THEN 1 ELSE 0
  <1>1. CASE o.kind = "reg"
    BY <1>1 DEF Address
  <1>2. CASE o.kind = "mem" /\ Like(o.e, 1) = ""
    BY <1>2 DEF Address
  <1>3. CASE o.kind = "mem" /\ Like(o.e, 1) # ""
    <2>1. CASE Based(o.e).disp # <<>>
      BY <1>3, <2>1 DEF Address
    <2>2. CASE Based(o.e).disp = <<>>
      <3>1. Based(o.e).disp = <<>>
        BY <2>2
      <3>2. QED
        BY <1>3, <3>1 DEF Address
    <2>3. QED
      BY <2>1, <2>2
  <1>4. QED
    BY <1>1, <1>2, <1>3

(* With a field between them the mode and the register make a byte.        *)
AddressOk(ad) ==
  /\ ad.disp \in Expr /\ ad.src \in Expr /\ ad.mod \in 0..3 /\ ad.rm \in (-1)..7
  /\ ad.mod = 3 \/ ad.rm # -1
LEMMA RegNumber == \A r : Number(r, Reg8) \in (-1)..7 /\ Number(r, Reg16) \in (-1)..7
  <1>1. Len(Reg8) = 8 /\ Len(Reg16) = 8 /\ 8 \in Nat /\ 8 - 1 = 7
    BY DEF Reg8, Reg16
  <1>2. QED
    BY <1>1, NumberRange
LEMMA AddressOfReg ==
  ASSUME NEW ad, ad.mod = 3, ad.disp \in Expr, ad.src \in Expr, ad.rm \in (-1)..7
  PROVE  AddressOk(ad)
  BY DEF AddressOk
LEMMA AddressOfMem ==
  ASSUME NEW ad, ad.mod = 0 \/ ad.mod = 1 \/ ad.mod = 2, ad.disp \in Expr, ad.src \in Expr,
         ad.rm \in 0..7 \/ ad.rm = 6
  PROVE  AddressOk(ad)
  BY DEF AddressOk
LEMMA AddressFields ==
  ASSUME NEW tab, NEW sc, NEW o \in Operand, o.kind \in {"reg", "mem"}
  PROVE  AddressOk(Address(tab, sc, o))
  <1>1. <<>> \in Expr
    BY DEF Expr
  <1>2. o.e \in Expr
    BY DEF Operand
  <1>3. Based(o.e).disp \in Expr
    BY <1>2, BasedType, Zenon
  <1> DEFINE ad == Address(tab, sc, o)
  <1>4. CASE o.kind = "reg"
    <2>1. ad.mod = 3 /\ ad.disp = <<>> /\ ad.src = <<>>
          /\ (ad.rm = Number(o.reg, Reg8) \/ ad.rm = Number(o.reg, Reg16))
      BY <1>4, AddressIs, ZenonT(60)
    <2>2. ad.rm \in (-1)..7
      BY <2>1, RegNumber, Zenon
    <2> HIDE DEF ad
    <2>3. AddressOk(ad)
      BY <1>1, <2>1, <2>2, AddressOfReg, Zenon
    <2>4. QED
      BY <2>3 DEF ad
  <1>5. CASE o.kind = "mem" /\ Like(o.e, 1) = ""
    <2>1. ad.mod = 0 /\ ad.rm = 6 /\ ad.disp = o.e /\ ad.src = o.e
      BY <1>5, AddressIs
    <2> HIDE DEF ad
    <2>2. AddressOk(ad)
      BY <1>2, <2>1, AddressOfMem, Zenon
    <2>3. QED
      BY <2>2 DEF ad
  <1>6. CASE o.kind = "mem" /\ Like(o.e, 1) # ""
    <2>1. Based(o.e).rm \in 0..7
      BY <1>6, BasedRm
    <2>2. /\ ad.disp = Based(o.e).disp /\ ad.src = <<>> /\ ad.rm = Based(o.e).rm
          /\ ad.mod = 0 \/ ad.mod = 1 \/ ad.mod = 2
      BY <1>6, AddressIs, ZenonT(60)
    <2> HIDE DEF ad
    <2>3. AddressOk(ad)
      BY <1>1, <1>3, <2>1, <2>2, AddressOfMem, Zenon
    <2>4. QED
      BY <2>3 DEF ad
  <1>7. QED
    BY <1>4, <1>5, <1>6
LEMMA AddressByte ==
  ASSUME NEW ad, AddressOk(ad)
  PROVE  DispSize(ad) \in 0..2 /\ \A f \in Field : ad.mod * 64 + f * 8 + ad.rm \in OpByte
  <1>1. \A m \in 0..3, f \in Field, r \in (-1)..7 :
          (m = 3 \/ r # -1) => m * 64 + f * 8 + r \in OpByte
    BY DEF Field, OpByte
  <1>2. DispSize(ad) \in 0..2
    BY DEF AddressOk, DispSize
  <1>3. \A f \in Field : ad.mod * 64 + f * 8 + ad.rm \in OpByte
    BY <1>1 DEF AddressOk
  <1>4. QED
    BY <1>2, <1>3
=============================================================================
