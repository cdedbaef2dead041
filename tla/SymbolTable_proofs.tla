------------------------- MODULE SymbolTable_proofs -------------------------
(* Lemmas every proof of the other modules draws on: the operations of the *)
(* constant table, and what Min, Max and the folds of the community        *)
(* modules are, where they are defined.                                    *)
EXTENDS SymbolTable, SequencesExt, WellFoundedInduction, TLAPS

LEMMA QNameType ==
  ASSUME NEW s \in Sym, NEW scope \in Name
  PROVE  QName(s, scope) \in Name
  <1>1. s.name \in STRING /\ s.n \in Nat /\ scope.path \in Seq(STRING) /\ scope.inv \in Nat
    BY DEF Sym, Name
  <1>2. CASE s.kind = "local"
    <2>1. QName(s, scope) = [inv |-> scope.inv, path |-> Append(scope.path, s.name)]
      BY <1>2 DEF QName, Name
    <2>2. Append(scope.path, s.name) \in Seq(STRING)
      BY <1>1
    <2>3. QED
      BY <1>1, <2>1, <2>2 DEF Name
  <1>3. CASE s.kind # "local"
    <2>1. QName(s, scope).inv = IF s.kind = "unique" THEN s.n ELSE 0
      BY <1>3 DEF QName
    <2>2. <<s.name>> \in Seq(STRING)
      BY <1>1
    <2>3. QED
      BY <1>1, <1>3, <2>1, <2>2 DEF QName, Name
  <1>4. QED
    BY <1>2, <1>3

LEMMA NoSymType == NoSym \in Sym /\ NoSym.kind = "none"
  <1>1. "" \in STRING
    BY NoTextAssumption DEF NoTextAssumption
  <1>2. \A s \in STRING : [kind |-> "none", name |-> s, n |-> 0] \in Sym
    BY DEF Sym, SymKinds
  <1>3. NoSym \in Sym
    BY <1>1, <1>2, Zenon DEF NoSym
  <1>4. QED
    BY <1>3 DEF NoSym

LEMMA FreshType == NoExtra \in Extra /\ Fresh \in Entry
  <1>1. NoExtra \in Extra
    BY NoSymType DEF NoExtra, Extra
  <1>2. QED
    BY <1>1 DEF Fresh, Entry, ConstTypes, Sections

LEMMA EmptyTableType == IsTable(EmptyTable)
  BY DEF IsTable, EmptyTable

(* add_const() returns a table whose entry for the name has the new type.  *)
LEMMA AddConstTable ==
  ASSUME NEW tab, IsTable(tab), NEW name \in Name, NEW type \in ConstTypes, NEW value \in Int
  PROVE  LET new == AddConst(tab, name, type, value)
         IN  /\ IsTable(new)
             /\ DOMAIN new = DOMAIN tab \cup {name}
             /\ new[name].type = type
  <1> DEFINE new  == AddConst(tab, name, type, value)
             base == IF name \in DOMAIN tab THEN tab[name] ELSE Fresh
  <1>1. base \in Entry
    BY FreshType DEF IsTable
  <1>2. new = [n \in DOMAIN tab \cup {name} |->
                 IF n # name THEN tab[n] ELSE [base EXCEPT !.type = type, !.value = value]]
    BY DEF AddConst
  <1> HIDE DEF base, new
  <1>3. /\ [base EXCEPT !.type = type, !.value = value] \in Entry
        /\ [base EXCEPT !.type = type, !.value = value].type = type
    BY <1>1 DEF Entry
  <1>4. DOMAIN new = DOMAIN tab \cup {name}
    BY <1>2
  <1>5. \A n \in DOMAIN new : n \in Name /\ new[n] \in Entry
    BY <1>2, <1>3 DEF IsTable
  <1>6. IsTable(new)
    BY <1>2, <1>4, <1>5 DEF IsTable
  <1>7. new[name].type = type
    BY <1>2, <1>3
  <1>8. QED
    BY <1>4, <1>6, <1>7 DEF new

(* It leaves every other entry alone.                                      *)
LEMMA AddConstOthers ==
  ASSUME NEW tab, NEW name, NEW type, NEW value, NEW n \in DOMAIN tab, n # name
  PROVE  AddConst(tab, name, type, value)[n] = tab[n]
  BY DEF AddConst

(* Hanging a payload off an entry changes nothing else of the table.       *)
LEMMA SetExtraTable ==
  ASSUME NEW tab, IsTable(tab), NEW name \in DOMAIN tab, NEW x \in Extra
  PROVE  LET new == SetExtra(tab, name, x)
         IN  /\ IsTable(new)
             /\ DOMAIN new = DOMAIN tab
             /\ new[name].extra = x /\ new[name].type = tab[name].type
             /\ \A n \in DOMAIN tab \ {name} : new[n] = tab[n]
  BY DEF IsTable, SetExtra, Entry

(* What %macro and %define make of the table: add_const(), then a payload. *)
LEMMA RegisterTable ==
  ASSUME NEW tab, IsTable(tab), NEW name \in Name, NEW type \in ConstTypes,
         NEW value \in Int, NEW x \in Extra
  PROVE  LET new == SetExtra(AddConst(tab, name, type, value), name, x)
         IN  /\ IsTable(new)
             /\ DOMAIN new = DOMAIN tab \cup {name}
             /\ new[name].type = type /\ new[name].extra = x
             /\ \A n \in DOMAIN tab \ {name} : new[n] = tab[n]
  <1> DEFINE mid == AddConst(tab, name, type, value)
             new == SetExtra(mid, name, x)
  <1>1. IsTable(mid) /\ DOMAIN mid = DOMAIN tab \cup {name} /\ mid[name].type = type
    BY AddConstTable
  <1>2. \A n \in DOMAIN tab \ {name} : mid[n] = tab[n]
    BY AddConstOthers
  <1> HIDE DEF mid
  <1>3. name \in DOMAIN mid
    BY <1>1
  <1>4. /\ IsTable(new) /\ DOMAIN new = DOMAIN mid
        /\ new[name].extra = x /\ new[name].type = mid[name].type
        /\ \A n \in DOMAIN mid \ {name} : new[n] = mid[n]
    BY <1>1, <1>3, SetExtraTable
  <1> HIDE DEF new
  <1>5. /\ IsTable(new) /\ DOMAIN new = DOMAIN tab \cup {name}
        /\ new[name].type = type /\ new[name].extra = x
        /\ \A n \in DOMAIN tab \ {name} : new[n] = tab[n]
    BY <1>1, <1>2, <1>4
  <1>6. QED
    BY <1>5 DEF new, mid

(* Every macro and every %define has a payload of its kind.                *)
PayloadsOf(tab) ==
  \A n \in DOMAIN tab : /\ tab[n].type = "MACRO"  => tab[n].extra.tag = "macro"
                        /\ tab[n].type = "DEFINE" => tab[n].extra.tag = "text"

LEMMA RegisterPayload ==
  ASSUME NEW tab, IsTable(tab), PayloadsOf(tab), NEW name \in Name, NEW type \in ConstTypes,
         NEW value \in Int, NEW x \in Extra,
         type = "MACRO" => x.tag = "macro", type = "DEFINE" => x.tag = "text"
  PROVE  PayloadsOf(SetExtra(AddConst(tab, name, type, value), name, x))
  <1> DEFINE new == SetExtra(AddConst(tab, name, type, value), name, x)
  <1>1. /\ IsTable(new)
        /\ DOMAIN new = DOMAIN tab \cup {name}
        /\ new[name].type = type /\ new[name].extra = x
        /\ \A n \in DOMAIN tab \ {name} : new[n] = tab[n]
    BY RegisterTable
  <1> HIDE DEF new
  <1>2. PayloadsOf(new)
    BY <1>1 DEF PayloadsOf
  <1>3. QED
    BY <1>2 DEF new

LEMMA AddConstPayload ==
  ASSUME NEW tab, IsTable(tab), NEW name \in Name, NEW type \in ConstTypes, NEW value \in Int
  PROVE  PayloadsOf(tab) /\ type \notin {"MACRO", "DEFINE"}
           => PayloadsOf(AddConst(tab, name, type, value))
  <1> DEFINE new == AddConst(tab, name, type, value)
  <1>1. IsTable(new) /\ DOMAIN new = DOMAIN tab \cup {name} /\ new[name].type = type
    BY AddConstTable
  <1>2. \A n \in DOMAIN tab : n # name => new[n] = tab[n]
    BY AddConstOthers
  <1> HIDE DEF new
  <1>3. PayloadsOf(tab) /\ type \notin {"MACRO", "DEFINE"} => PayloadsOf(new)
    BY <1>1, <1>2 DEF PayloadsOf
  <1>4. QED
    BY <1>3 DEF new

LEMMA RemoveConstTable ==
  ASSUME NEW tab, IsTable(tab), NEW name
  PROVE  LET new == RemoveConst(tab, name)
         IN  /\ IsTable(new)
             /\ \A n \in DOMAIN new : n \in DOMAIN tab /\ new[n] = tab[n]
  BY DEF IsTable, RemoveConst
-----------------------------------------------------------------------------
(* The library's induction theorems take the property as an operator; here *)
(* it is a set of numbers, and a step is a function.                       *)

LEMMA MinOfNaturals ==
  ASSUME NEW S \in SUBSET Nat, S # {}
  PROVE  Min(S) \in S /\ \A x \in S : Min(S) <= x
  <1>1. PICK x \in S : \A y \in S : ~ (<<y, x>> \in OpToRel(<, Nat))
    BY NatLessThanWellFounded, WFMin
  <1>2. ASSUME NEW y \in S PROVE x <= y
    <2>1. <<y, x>> \notin {ss \in Nat \X Nat : ss[1] < ss[2]}
      BY <1>1 DEF OpToRel
    <2>2. QED
      BY <2>1
  <1>3. QED
    BY <1>2 DEF Min

LEMMA MaxIs ==
  ASSUME NEW S \in SUBSET Int, NEW m \in S, \A x \in S : x <= m
  PROVE  Max(S) = m
  <1> DEFINE P(x) == x \in S /\ \A y \in S : x >= y
  <1>1. \A x \in S : x \in Int
    OBVIOUS
  <1>2. P(m)
    BY <1>1
  <1>3. \A x : P(x) => x = m
    BY <1>1
  <1>4. Max(S) = CHOOSE x : P(x)
    BY DEF Max
  <1>5. QED
    BY <1>2, <1>3, <1>4

(* Induction up to n: what holds of 0 and passes from k to k + 1 holds up  *)
(* to n, the numbers it holds of given as a set.                           *)
LEMMA UpTo ==
  ASSUME NEW n \in Nat, NEW G, 0 \in G, \A k \in 0..n-1 : k \in G => k + 1 \in G
  PROVE  \A k \in 0..n : k \in G
  <1> DEFINE Bad == {k \in 0..n : k \notin G}
  <1> SUFFICES ASSUME Bad # {} PROVE FALSE
    OBVIOUS
  <1>1. Bad \in SUBSET Nat
    OBVIOUS
  <1>2. PICK m \in Bad : \A x \in Bad : m <= x
    BY <1>1, MinOfNaturals
  <1>3. m \in 0..n /\ m # 0
    OBVIOUS
  <1>4. m - 1 \in 0..n-1 /\ m - 1 \notin Bad
    BY <1>2, <1>3
  <1>5. m - 1 \in G
    BY <1>4
  <1>6. (m - 1) + 1 \in G
    BY <1>4, <1>5
  <1>7. QED
    BY <1>3, <1>6

(* The function a fold over q iterates exists, and stays in A, if its      *)
(* step F does.                                                            *)
Iterates(it, F, base, q, n) ==
  it = [s \in SUBSET (1..n) |->
          IF s = {} THEN base ELSE F[<<it[s \ {Max(s)}], q[Max(s)]>>]]

LEMMA PrefixMax ==
  ASSUME NEW n \in Nat, NEW k \in 0..n-1
  PROVE  /\ 1..k+1 \in SUBSET (1..n) /\ 1..k+1 # {}
         /\ Max(1..k+1) = k + 1 /\ (1..k+1) \ {k + 1} = 1..k
  <1>1. k + 1 \in 1..k+1 /\ 1..k+1 \in SUBSET Int /\ \A x \in 1..k+1 : x <= k + 1
    OBVIOUS
  <1>2. Max(1..k+1) = k + 1
    BY <1>1, MaxIs
  <1>3. 1..k+1 \in SUBSET (1..n) /\ 1..k+1 # {}
    BY <1>1
  <1>4. (1..k+1) \ {k + 1} = 1..k
    OBVIOUS
  <1>5. QED
    BY <1>2, <1>3, <1>4

(* A part of 1..n that is not empty has a maximum.                         *)
LEMMA MaxOfPart ==
  ASSUME NEW n \in Nat, NEW s \in SUBSET (1..n), s # {}
  PROVE  Max(s) \in s /\ Max(s) \in 1..n /\ s \ {Max(s)} \in SUBSET (1..n)
  <1> DEFINE Over == {m \in Nat : \A x \in s : x <= m}
  <1>1. Over \in SUBSET Nat /\ n \in Over
    OBVIOUS
  <1>2. PICK m \in Over : \A y \in Over : m <= y
    BY <1>1, MinOfNaturals
  <1>3. m \in s
    <2> SUFFICES ASSUME m \notin s PROVE FALSE
      OBVIOUS
    <2>1. \A x \in s : x <= m - 1
      BY <1>2
    <2>2. m - 1 \in Nat
      <3>1. PICK x \in s : TRUE
        OBVIOUS
      <3>2. x \in 1..n /\ x <= m - 1
        BY <2>1, <3>1
      <3>3. QED
        BY <1>2, <3>2
    <2>3. m - 1 \in Over
      BY <2>1, <2>2
    <2>4. QED
      BY <1>2, <2>3
  <1>4. s \in SUBSET Int /\ \A x \in s : x <= m
    BY <1>2
  <1>5. Max(s) = m
    BY <1>3, <1>4, MaxIs
  <1>6. QED
    BY <1>3, <1>5

LEMMA MaxWithin ==
  ASSUME NEW n \in Nat, NEW s \in SUBSET (1..n+1), n + 1 \in s
  PROVE  Max(s) = n + 1 /\ s \ {Max(s)} \in SUBSET (1..n)
  <1>1. s \in SUBSET Int /\ \A x \in s : x <= n + 1
    OBVIOUS
  <1>2. Max(s) = n + 1
    BY <1>1, MaxIs
  <1>3. QED
    BY <1>2

LEMMA IterationExists ==
  ASSUME NEW A, NEW S, NEW F \in [A \X S -> A], NEW base \in A, NEW n \in Nat,
         NEW q \in [1..n -> S]
  PROVE  \E it \in [SUBSET (1..n) -> A] : Iterates(it, F, base, q, n)
  <1> DEFINE G == {m \in 0..n : \E it \in [SUBSET (1..m) -> A] : Iterates(it, F, base, q, m)}
  <1>1. 0 \in G
    <2> DEFINE it == [s \in SUBSET (1..0) |-> base]
    <2>1. it \in [SUBSET (1..0) -> A]
      OBVIOUS
    <2>2. \A s \in SUBSET (1..0) : s = {}
      OBVIOUS
    <2>3. Iterates(it, F, base, q, 0)
      BY <2>2 DEF Iterates
    <2>4. QED
      BY <2>1, <2>3
  <1>2. ASSUME NEW m \in 0..n-1, m \in G PROVE m + 1 \in G
    <2>1. PICK old \in [SUBSET (1..m) -> A] : Iterates(old, F, base, q, m)
      BY <1>2
    <2> DEFINE it == [s \in SUBSET (1..m+1) |->
                        IF m + 1 \in s THEN F[<<old[s \ {m + 1}], q[m + 1]>>] ELSE old[s]]
    <2>2. \A s \in SUBSET (1..m+1) : m + 1 \notin s => s \in SUBSET (1..m)
      OBVIOUS
    <2>3. \A s \in SUBSET (1..m+1) : s \ {m + 1} \in SUBSET (1..m)
      OBVIOUS
    <2>4. q[m + 1] \in S
      OBVIOUS
    <2>5. it \in [SUBSET (1..m+1) -> A]
      BY <2>2, <2>3, <2>4
    <2>6. \A s \in SUBSET (1..m) : it[s] = old[s]
      OBVIOUS
    <2>7. ASSUME NEW s \in SUBSET (1..m+1)
          PROVE  it[s] = IF s = {} THEN base ELSE F[<<it[s \ {Max(s)}], q[Max(s)]>>]
      <3>1. CASE m + 1 \in s
        <4>1. Max(s) = m + 1
          BY <3>1, MaxWithin
        <4>2. it[s \ {m + 1}] = old[s \ {m + 1}]
          BY <2>3, <2>6
        <4>3. it[s] = F[<<old[s \ {m + 1}], q[m + 1]>>]
          BY <3>1
        <4> HIDE DEF it
        <4>4. QED
          BY <3>1, <4>1, <4>2, <4>3
      <3>2. CASE m + 1 \notin s
        <4>1. s \in SUBSET (1..m) /\ s \ {Max(s)} \in SUBSET (1..m)
          BY <2>2, <3>2
        <4>2. it[s] = old[s] /\ it[s \ {Max(s)}] = old[s \ {Max(s)}]
          BY <2>6, <4>1
        <4>3. old[s] = IF s = {} THEN base ELSE F[<<old[s \ {Max(s)}], q[Max(s)]>>]
          BY <2>1, <4>1 DEF Iterates
        <4> HIDE DEF it
        <4>4. QED
          BY <4>2, <4>3
      <3>3. QED
        BY <3>1, <3>2
    <2>8. Iterates(it, F, base, q, m + 1)
      <3>1. it = [s \in SUBSET (1..m+1) |-> it[s]]
        BY <2>5
      <3> HIDE DEF it
      <3>2. QED
        BY <2>7, <3>1 DEF Iterates
    <2> HIDE DEF it
    <2>9. m + 1 \in 0..n
      OBVIOUS
    <2>10. QED
      BY <2>5, <2>8, <2>9
  <1> HIDE DEF G
  <1>3. \A k \in 0..n : k \in G
    BY <1>1, <1>2, UpTo
  <1>4. n \in 0..n
    OBVIOUS
  <1>5. n \in G
    BY <1>3, <1>4
  <1>6. QED
    BY <1>5 DEF G
-----------------------------------------------------------------------------
(* Joining sequences over S gives a sequence over S.                       *)
Flattens(f, q) == f = [i \in 1..Len(q) |-> IF i = 1 THEN q[i] ELSE f[i-1] \o q[i]]

LEMMA FlattenIs ==
  ASSUME NEW q, Len(q) # 0
  PROVE  FlattenSeq(q) = (CHOOSE f : Flattens(f, q))[Len(q)]
  BY DEF FlattenSeq, Flattens

LEMMA FlattenExists ==
  ASSUME NEW q, Len(q) \in Nat
  PROVE  \E f : Flattens(f, q)
  <1> DEFINE n == Len(q)
             Part(f, m) == f = [i \in 1..m |-> IF i = 1 THEN q[i] ELSE f[i-1] \o q[i]]
             G == {m \in 0..n : \E f : Part(f, m)}
  <1>1. 0 \in G
    <2> DEFINE none == [i \in 1..0 |-> 0]
    <2>1. Part(none, 0)
      OBVIOUS
    <2>2. 0 \in 0..n
      OBVIOUS
    <2> HIDE DEF none, Part
    <2>3. QED
      BY <2>1, <2>2
  <1>2. ASSUME NEW m \in 0..n-1, m \in G PROVE m + 1 \in G
    <2>1. PICK old : Part(old, m)
      BY <1>2
    <2> DEFINE f == [i \in 1..m+1 |-> IF i = m + 1 /\ i # 1 THEN old[m] \o q[i]
                                      ELSE IF i = 1 THEN q[i] ELSE old[i]]
    <2>2. \A i \in 1..m : f[i] = old[i]
      BY <2>1
    <2>3. ASSUME NEW i \in 1..m+1 PROVE f[i] = IF i = 1 THEN q[i] ELSE f[i-1] \o q[i]
      <3>1. CASE i = 1
        BY <3>1
      <3>2. CASE i # 1 /\ i = m + 1
        <4>1. m \in 1..m /\ i - 1 = m
          BY <3>2
        <4>2. f[m] = old[m]
          BY <2>2, <4>1
        <4>3. f[i] = old[m] \o q[i]
          BY <3>2
        <4> HIDE DEF f
        <4>4. QED
          BY <3>2, <4>1, <4>2, <4>3
      <3>3. CASE i # 1 /\ i # m + 1
        <4>1. i \in 1..m /\ i - 1 \in 1..m
          BY <3>3
        <4>2. f[i] = old[i] /\ f[i - 1] = old[i - 1]
          BY <2>2, <4>1
        <4>3. old[i] = old[i - 1] \o q[i]
          BY <2>1, <3>3, <4>1
        <4> HIDE DEF f
        <4>4. QED
          BY <3>3, <4>2, <4>3
      <3>4. QED
        BY <3>1, <3>2, <3>3
    <2>4. Part(f, m + 1)
      <3>1. f = [i \in 1..m+1 |-> f[i]]
        OBVIOUS
      <3> HIDE DEF f
      <3>2. QED
        BY <2>3, <3>1
    <2> HIDE DEF f, Part
    <2>5. m + 1 \in 0..n
      OBVIOUS
    <2>6. QED
      BY <2>4, <2>5
  <1>3. n \in Nat /\ n \in 0..n
    OBVIOUS
  <1> HIDE DEF G, n
  <1>4. n \in G
    BY <1>1, <1>2, <1>3, UpTo
  <1>5. QED
    BY <1>4 DEF G, n, Flattens

LEMMA FlattenType ==
  ASSUME NEW S, NEW q \in Seq(Seq(S))
  PROVE  FlattenSeq(q) \in Seq(S)
  <1>1. CASE Len(q) = 0
    <2>1. q = <<>>
      BY <1>1
    <2>2. QED
      BY <1>1, <2>1 DEF FlattenSeq
  <1>2. CASE Len(q) # 0
    <2> DEFINE n == Len(q)
               f == CHOOSE f : Flattens(f, q)
               G == {m \in 0..n : m = 0 \/ f[m] \in Seq(S)}
    <2>1. n \in Nat /\ n # 0 /\ n \in 0..n /\ \A i \in 1..n : q[i] \in Seq(S)
      BY <1>2
    <2>2. Flattens(f, q)
      BY <2>1, FlattenExists
    <2> HIDE DEF f
    <2>3. \A i \in 1..n : f[i] = IF i = 1 THEN q[i] ELSE f[i-1] \o q[i]
      BY <2>2 DEF Flattens
    <2>4. 0 \in G
      OBVIOUS
    <2>5. ASSUME NEW m \in 0..n-1, m \in G PROVE m + 1 \in G
      <3>1. m + 1 \in 1..n /\ m + 1 \in 0..n /\ (m + 1) - 1 = m
        BY <2>1
      <3>2. q[m + 1] \in Seq(S)
        BY <2>1, <3>1
      <3>3. f[m + 1] \in Seq(S)
        <4>1. CASE m = 0
          <5>1. f[1] = q[1] /\ m + 1 = 1
            BY <2>3, <3>1, <4>1
          <5>2. QED
            BY <3>2, <5>1
        <4>2. CASE m # 0
          <5>1. f[m + 1] = f[m] \o q[m + 1]
            <6>1. m + 1 # 1
              BY <4>2
            <6> HIDE DEF n
            <6>2. f[m + 1] = IF m + 1 = 1 THEN q[m + 1] ELSE f[(m + 1) - 1] \o q[m + 1]
              BY <2>3, <3>1
            <6>3. QED
              BY <3>1, <6>1, <6>2
          <5>2. f[m] \in Seq(S)
            BY <2>5, <4>2
          <5>3. QED
            BY <3>2, <5>1, <5>2
        <4>3. QED
          BY <4>1, <4>2
      <3>4. QED
        BY <3>1, <3>3
    <2> HIDE DEF G
    <2>6. n \in G
      BY <2>1, <2>4, <2>5, UpTo
    <2>7. f[n] \in Seq(S)
      BY <2>1, <2>6 DEF G
    <2>8. QED
      BY <1>2, <2>7, FlattenIs DEF f
  <1>3. QED
    BY <1>1, <1>2
=============================================================================
