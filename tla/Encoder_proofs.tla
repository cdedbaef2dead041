--------------------------- MODULE Encoder_proofs ---------------------------
(* No row of the table reads past the operands it matched, but for the two *)
(* of SAL that are an element short; every other one puts out bytes only,  *)
(* as many as the chunks it is laid out in, whatever the line and symbols. *)
EXTENDS Encoder, Opcodes_proofs

Bytes == 0..255
-----------------------------------------------------------------------------
(* The size of chunks is the sum of theirs.                                *)
Measured == {c \in Chunk : ChunkSize(c) \in Nat}

LongerRead(f, chunks) ==
  f = [s \in SUBSET DOMAIN chunks |->
         IF s = {} THEN 0 ELSE Longer(f[s \ {Max(s)}], chunks[Max(s)])]
LEMMA SizeIs ==
  ASSUME NEW chunks
  PROVE  Size(chunks) = (CHOOSE f : LongerRead(f, chunks))[DOMAIN chunks]
  BY DEF Size, FoldLeft, MapThenFoldSet, LongerRead

Sums(g, chunks) ==
  /\ g \in [0..Len(chunks) -> Nat] /\ g[0] = 0
  /\ \A k \in 0..Len(chunks)-1 : g[k + 1] = g[k] + ChunkSize(chunks[k + 1])
LEMMA SizeRuns ==
  ASSUME NEW chunks \in Seq(Measured)
  PROVE  \E g : Sums(g, chunks) /\ Size(chunks) = g[Len(chunks)]
  <1> DEFINE n == Len(chunks)
             F == [p \in Nat \X Measured |-> Longer(p[1], p[2])]
             f == CHOOSE f : LongerRead(f, chunks)
             G == {k \in 0..n : f[1..k] \in Nat}
  <1>1. n \in Nat /\ DOMAIN chunks = 1..n /\ chunks \in [1..n -> Measured]
    OBVIOUS
  <1>l. \A x \in Nat, c \in Measured : Longer(x, c) = x + ChunkSize(c) /\ Longer(x, c) \in Nat
    BY DEF Longer, Measured
  <1>2. F \in [Nat \X Measured -> Nat]
    BY <1>l
  <1>3. \A x \in Nat, c \in Measured : F[<<x, c>>] = Longer(x, c)
    OBVIOUS
  <1>4. Size(chunks) = f[DOMAIN chunks]
    BY SizeIs
  <1> HIDE DEF n, F
  <1>5. \E h : LongerRead(h, chunks)
    <2>1. PICK h \in [SUBSET (1..n) -> Nat] : Iterates(h, F, 0, chunks, n)
      <3>1. 0 \in Nat
        OBVIOUS
      <3>2. QED
        BY <1>1, <1>2, <3>1, IterationExists
    <2>2. ASSUME NEW s \in SUBSET (1..n), s # {}
          PROVE  F[<<h[s \ {Max(s)}], chunks[Max(s)]>>] = Longer(h[s \ {Max(s)}], chunks[Max(s)])
      <3>1. Max(s) \in 1..n /\ s \ {Max(s)} \in SUBSET (1..n)
        BY <1>1, <2>2, MaxOfPart
      <3>2. QED
        BY <1>1, <1>3, <3>1
    <2>3. LongerRead(h, chunks)
      BY <1>1, <2>1, <2>2 DEF Iterates, LongerRead
    <2>4. QED
      BY <2>3
  <1>6. LongerRead(f, chunks)
    BY <1>5
  <1> HIDE DEF f
  <1>7. f[1..0] = 0 /\ 0 \in 0..n
    <2>1. 1..0 = {} /\ 0 \in 0..n
      BY <1>1
    <2>2. f[{}] = 0
      BY <1>6 DEF LongerRead
    <2>3. QED
      BY <2>1, <2>2
  <1>8. ASSUME NEW k \in 0..n-1
        PROVE  f[1..k+1] = Longer(f[1..k], chunks[k + 1])
    <2>1. /\ 1..k+1 \in SUBSET (1..n) /\ 1..k+1 # {} /\ Max(1..k+1) = k + 1
          /\ (1..k+1) \ {k + 1} = 1..k
      BY <1>1, PrefixMax
    <2>2. QED
      BY <1>1, <1>6, <2>1 DEF LongerRead
  <1>9. 0 \in G
    BY <1>7
  <1>10. ASSUME NEW k \in 0..n-1, k \in G PROVE k + 1 \in G
    <2>1. k + 1 \in 0..n /\ chunks[k + 1] \in Measured
      BY <1>1
    <2>2. QED
      BY <1>l, <1>8, <1>10, <2>1
  <1>11. \A k \in 0..n : f[1..k] \in Nat
    <2>1. \A k \in 0..n : k \in G
      <3> HIDE DEF G
      <3> QED BY <1>1, <1>9, <1>10, UpTo
    <2>2. QED
      BY <2>1
  <1> DEFINE g == [k \in 0..n |-> f[1..k]]
  <1>12. g \in [0..n -> Nat]
    BY <1>11
  <1>13. n \in 0..n /\ \A k \in 0..n-1 : k \in 0..n /\ k + 1 \in 0..n /\ chunks[k + 1] \in Measured
    BY <1>1
  <1>14. g[0] = 0 /\ g[n] = f[1..n]
    BY <1>7, <1>13
  <1>15. \A k \in 0..n-1 : g[k + 1] = g[k] + ChunkSize(chunks[k + 1])
    BY <1>l, <1>8, <1>11, <1>13
  <1> HIDE DEF g
  <1>16. Sums(g, chunks)
    BY <1>12, <1>14, <1>15 DEF Sums, n
  <1>17. QED
    BY <1>1, <1>4, <1>14, <1>16 DEF n

LEMMA SumsAgree ==
  ASSUME NEW s \in Seq(Measured), NEW t \in Seq(Measured), NEW f, Sums(f, s), NEW g, Sums(g, t),
         NEW h, Sums(h, s \o t)
  PROVE  h[Len(s) + Len(t)] = f[Len(s)] + g[Len(t)]
  <1> DEFINE a == Len(s)
             b == Len(t)
             F == {k \in 0..a : h[k] = f[k]}
             G == {k \in 0..b : h[a + k] = f[a] + g[k]}
  <1>1. /\ a \in Nat /\ b \in Nat /\ Len(s \o t) = a + b
        /\ \A k \in 0..a-1 : (s \o t)[k + 1] = s[k + 1]
        /\ \A k \in 0..b-1 : (s \o t)[(a + k) + 1] = t[k + 1]
    OBVIOUS
  <1>2. /\ f \in [0..a -> Nat] /\ f[0] = 0 /\ \A k \in 0..a-1 : f[k + 1] = f[k] + ChunkSize(s[k + 1])
        /\ g \in [0..b -> Nat] /\ g[0] = 0 /\ \A k \in 0..b-1 : g[k + 1] = g[k] + ChunkSize(t[k + 1])
        /\ h \in [0..a+b -> Nat] /\ h[0] = 0
        /\ \A k \in 0..(a+b)-1 : h[k + 1] = h[k] + ChunkSize((s \o t)[k + 1])
    BY <1>1 DEF Sums
  <1>m. \A k \in 0..b-1 : ChunkSize(t[k + 1]) \in Nat
    <2>1. \A k \in 0..b-1 : t[k + 1] \in Measured
      OBVIOUS
    <2>2. QED
      BY <2>1 DEF Measured
  <1> HIDE DEF a, b
  <1>3. 0 \in F
    BY <1>1, <1>2
  <1>4. ASSUME NEW k \in 0..a-1, k \in F PROVE k + 1 \in F
    <2>1. k \in 0..(a+b)-1 /\ k + 1 \in 0..a
      BY <1>1
    <2>2. h[k + 1] = h[k] + ChunkSize(s[k + 1]) /\ f[k + 1] = f[k] + ChunkSize(s[k + 1])
      BY <1>1, <1>2, <2>1
    <2>3. QED
      BY <1>4, <2>1, <2>2
  <1>5. a \in F
    <2> HIDE DEF F
    <2>1. \A k \in 0..a : k \in F
      BY <1>1, <1>3, <1>4, UpTo
    <2>2. QED
      BY <1>1, <2>1
  <1>6. 0 \in G
    BY <1>1, <1>2, <1>5
  <1>7. ASSUME NEW k \in 0..b-1, k \in G PROVE k + 1 \in G
    <2>1. a + k \in 0..(a+b)-1 /\ k + 1 \in 0..b /\ k \in 0..b /\ a + (k + 1) = (a + k) + 1 /\ a \in 0..a
      BY <1>1
    <2>2. h[(a + k) + 1] = h[a + k] + ChunkSize(t[k + 1]) /\ g[k + 1] = g[k] + ChunkSize(t[k + 1])
      BY <1>1, <1>2, <2>1
    <2>3. h[a + k] = f[a] + g[k] /\ g[k] \in Nat /\ f[a] \in Nat
      BY <1>2, <1>7, <2>1
    <2>4. h[a + (k + 1)] = f[a] + g[k + 1]
      BY <1>m, <2>1, <2>2, <2>3
    <2>5. QED
      BY <2>1, <2>4
  <1>8. b \in G
    <2> HIDE DEF G
    <2>1. \A k \in 0..b : k \in G
      BY <1>1, <1>6, <1>7, UpTo
    <2>2. QED
      BY <1>1, <2>1
  <1>9. QED
    BY <1>8 DEF a, b

LEMMA SizeJoined ==
  ASSUME NEW s \in Seq(Measured), NEW t \in Seq(Measured)
  PROVE  Size(s \o t) = Size(s) + Size(t) /\ Size(s) \in Nat
  <1>1. s \o t \in Seq(Measured) /\ Len(s \o t) = Len(s) + Len(t) /\ Len(s) \in 0..Len(s)
    OBVIOUS
  <1>2. PICK f : Sums(f, s) /\ Size(s) = f[Len(s)]
    BY SizeRuns
  <1>3. PICK g : Sums(g, t) /\ Size(t) = g[Len(t)]
    BY SizeRuns
  <1>4. PICK h : Sums(h, s \o t) /\ Size(s \o t) = h[Len(s \o t)]
    BY <1>1, SizeRuns
  <1>5. f[Len(s)] \in Nat
    BY <1>1, <1>2 DEF Sums
  <1>6. QED
    BY <1>1, <1>2, <1>3, <1>4, <1>5, SumsAgree

LEMMA SizeFew ==
  /\ Size(<<>>) = 0
  /\ \A c \in Measured : Size(<<c>>) = ChunkSize(c)
  /\ \A c, d \in Measured : Size(<<c, d>>) = ChunkSize(c) + ChunkSize(d)
  <1>1. Size(<<>>) = 0
    <2>1. <<>> \in Seq(Measured) /\ Len(<<>>) = 0
      OBVIOUS
    <2>2. PICK g : Sums(g, <<>>) /\ Size(<<>>) = g[Len(<<>>)]
      BY <2>1, SizeRuns
    <2>3. QED
      BY <2>1, <2>2 DEF Sums
  <1>2. ASSUME NEW c \in Measured PROVE Size(<<c>>) = ChunkSize(c)
    <2>1. <<c>> \in Seq(Measured) /\ Len(<<c>>) = 1 /\ <<c>>[0 + 1] = c /\ 0 \in 0..1-1
      OBVIOUS
    <2>2. PICK g : Sums(g, <<c>>) /\ Size(<<c>>) = g[Len(<<c>>)]
      BY <2>1, SizeRuns
    <2>3. g[0 + 1] = g[0] + ChunkSize(<<c>>[0 + 1]) /\ g[0] = 0
      BY <2>1, <2>2 DEF Sums
    <2>4. ChunkSize(c) \in Nat
      BY DEF Measured
    <2>5. QED
      BY <2>1, <2>2, <2>3, <2>4
  <1>3. ASSUME NEW c \in Measured, NEW d \in Measured PROVE Size(<<c, d>>) = ChunkSize(c) + ChunkSize(d)
    <2>1. /\ <<c, d>> \in Seq(Measured) /\ Len(<<c, d>>) = 2
          /\ <<c, d>>[0 + 1] = c /\ <<c, d>>[1 + 1] = d /\ 0 \in 0..2-1 /\ 1 \in 0..2-1 /\ 0 + 1 = 1
      OBVIOUS
    <2>2. PICK g : Sums(g, <<c, d>>) /\ Size(<<c, d>>) = g[Len(<<c, d>>)]
      BY <2>1, SizeRuns
    <2>3. g[0 + 1] = g[0] + ChunkSize(c) /\ g[0] = 0 /\ g[1 + 1] = g[1] + ChunkSize(d)
      BY <2>1, <2>2 DEF Sums
    <2>4. ChunkSize(c) \in Nat /\ ChunkSize(d) \in Nat
      BY DEF Measured
    <2>5. QED
      BY <2>1, <2>2, <2>3, <2>4
  <1>4. QED
    BY <1>1, <1>2, <1>3
-----------------------------------------------------------------------------
(* An entry puts out as many bytes as its chunks have.                     *)

EntrySize(entry, params) ==
  LET o == params[entry.a + 1]
  IN CASE entry.cmd \in {"OP", "PLUSREG", "IMM8", "REL8"} -> 1
       [] entry.cmd \in {"IMM16", "REL16"} -> 2
       [] entry.cmd = "FAR_PTR" -> 4
       [] entry.cmd = "RM" ->
            (IF Override(o) THEN 1 ELSE 0) + 1 + DispSize(Address(Symbols, NoScope, o))

LEMMA ChunkSizes ==
  /\ \A n \in Nat : Fixed(n) \in Measured /\ ChunkSize(Fixed(n)) = n
  /\ \A e \in Expr : /\ Part("byte", e) \in Measured /\ ChunkSize(Part("byte", e)) = 1
                     /\ Part("rel8", e) \in Measured /\ ChunkSize(Part("rel8", e)) = 1
                     /\ Part("word", e) \in Measured /\ ChunkSize(Part("word", e)) = 2
                     /\ Part("rel16", e) \in Measured /\ ChunkSize(Part("rel16", e)) = 2
                     /\ Part("far", e) \in Measured /\ ChunkSize(Part("far", e)) = 4
                     /\ Part("based", e) \in Measured
                     /\ ChunkSize(Part("based", e)) = IF Value(Symbols, NoScope, e) < 128 THEN 2 ELSE 3
  <1>1. ASSUME NEW n \in Nat PROVE Fixed(n) \in Measured /\ ChunkSize(Fixed(n)) = n
    <2>1. Fixed(n) \in Chunk
      BY ChunkParts
    <2>2. Fixed(n).form = "bytes" /\ Fixed(n).n = n
      BY DEF Fixed
    <2>3. ChunkSize(Fixed(n)) = n
      BY <2>2 DEF ChunkSize
    <2>4. QED
      BY <2>1, <2>3 DEF Measured
  <1>2. ASSUME NEW e \in Expr, NEW form \in {"byte", "rel8", "word", "rel16", "far", "based"}
        PROVE  /\ Part(form, e) \in Chunk
               /\ form \in {"byte", "rel8"} => ChunkSize(Part(form, e)) = 1
               /\ form \in {"word", "rel16"} => ChunkSize(Part(form, e)) = 2
               /\ form = "far" => ChunkSize(Part(form, e)) = 4
               /\ form = "based" =>
                    ChunkSize(Part(form, e)) = IF Value(Symbols, NoScope, e) < 128 THEN 2 ELSE 3
    <2>1. Part(form, e) \in Chunk
      BY ChunkParts DEF Forms
    <2>2. Part(form, e).form = form /\ Part(form, e).e = e
      BY DEF Part
    <2>3. QED
      BY <2>1, <2>2 DEF ChunkSize
  <1>3. 1 \in Nat /\ 2 \in Nat /\ 3 \in Nat /\ 4 \in Nat
    OBVIOUS
  <1>4. QED
    BY <1>1, <1>2, <1>3 DEF Measured

LEMMA AddrSize ==
  ASSUME NEW e \in Expr, NEW wide \in BOOLEAN
  PROVE  LET c == [Part("addr", e) EXCEPT !.wide = wide] IN c \in Measured /\ ChunkSize(c) = 3
  <1> DEFINE c == [Part("addr", e) EXCEPT !.wide = wide]
  <1>1. Part("addr", e) \in Chunk
    BY ChunkParts DEF Forms
  <1>2. c \in Chunk
    BY <1>1 DEF Chunk
  <1>3. c.form = "addr"
    BY DEF Part
  <1> HIDE DEF c
  <1>4. ChunkSize(c) = 3
    BY <1>3 DEF ChunkSize
  <1>5. c \in Measured
    BY <1>2, <1>4 DEF Measured
  <1>6. QED
    BY <1>4, <1>5 DEF c

(* What addresses an operand is as long as build_address makes it.         *)
LEMMA RmSize ==
  ASSUME NEW o \in Operand, o.kind \in {"reg", "mem"}, NEW wide \in BOOLEAN
  PROVE  /\ RmChunk(o, wide) \in Measured
         /\ ChunkSize(RmChunk(o, wide)) = 1 + DispSize(Address(Symbols, NoScope, o))
  <1> DEFINE ad == Address(Symbols, NoScope, o)
             b  == Based(o.e)
  <1>1. b.disp \in Expr
    BY BasedType DEF Operand
  <1>2. o.e \in Expr
    BY DEF Operand
  <1>3. CASE o.kind = "reg"
    <2>1. RmChunk(o, wide) = Fixed(1)
      BY <1>3 DEF RmChunk
    <2>2. ad.mod = 3
      BY <1>3, AddressIs, ZenonT(60)
    <2> HIDE DEF ad
    <2>3. DispSize(ad) = 0 /\ 1 \in Nat /\ 1 + 0 = 1
      BY <2>2 DEF DispSize
    <2>4. QED
      BY <2>1, <2>3, ChunkSizes DEF ad
  <1>4. CASE o.kind = "mem" /\ Like(o.e, 1) = ""
    <2>1. RmChunk(o, wide) = [Part("addr", o.e) EXCEPT !.wide = wide]
      BY <1>4 DEF RmChunk
    <2>2. ad.mod = 0 /\ ad.rm = 6
      BY <1>4, AddressIs, ZenonT(60)
    <2> HIDE DEF ad
    <2>3. DispSize(ad) = 2 /\ 1 + 2 = 3
      BY <2>2 DEF DispSize
    <2>4. QED
      BY <1>2, <2>1, <2>3, AddrSize, Zenon DEF ad
  <1>5. CASE o.kind = "mem" /\ Like(o.e, 1) # ""
    <2>1. RmChunk(o, wide) = IF b.disp # <<>> THEN Part("based", b.disp)
                             ELSE Fixed(IF b.rm = 6 THEN 2 ELSE 1)
      BY <1>5 DEF RmChunk
    <2>2. CASE b.disp # <<>>
      <3>1. ad.mod = IF Value(Symbols, NoScope, b.disp) < 128 THEN 1 ELSE 2
        BY <1>5, <2>2, AddressIs
      <3>2. RmChunk(o, wide) = Part("based", b.disp)
        BY <2>1, <2>2
      <3> HIDE DEF ad, b
      <3>3. DispSize(ad) = IF Value(Symbols, NoScope, b.disp) < 128 THEN 1 ELSE 2
        BY <3>1 DEF DispSize
      <3>4. ChunkSize(Part("based", b.disp)) = 1 + DispSize(ad)
        BY <1>1, <3>3, ChunkSizes
      <3>5. QED
        BY <1>1, <3>2, <3>4, ChunkSizes DEF ad
    <2>3. CASE b.disp = <<>>
      <3>1. ad.rm = b.rm /\ ad.mod = IF b.rm = 6 THEN 1 ELSE 0
        BY <1>5, <2>3, AddressIs, ZenonT(60)
      <3>2. RmChunk(o, wide) = Fixed(IF b.rm = 6 THEN 2 ELSE 1)
        BY <2>1, <2>3
      <3> HIDE DEF ad, b
      <3>3. DispSize(ad) = IF b.rm = 6 THEN 1 ELSE 0
        BY <3>1 DEF DispSize
      <3>4. 1 \in Nat /\ 2 \in Nat /\ 1 + 0 = 1 /\ 1 + 1 = 2
        OBVIOUS
      <3>5. QED
        BY <3>2, <3>3, <3>4, ChunkSizes DEF ad
    <2>4. QED
      BY <2>2, <2>3
  <1>6. QED
    BY <1>3, <1>4, <1>5

Ready(entry, params) ==
  /\ entry \in SafeEntry(Len(params))
  /\ entry.cmd = "RM" => params[entry.a + 1].kind \in {"reg", "mem"}
LEMMA EntryMeasured ==
  ASSUME NEW params \in Seq(Operand), NEW entry, Ready(entry, params)
  PROVE  /\ EntryChunks(entry, params) \in Seq(Measured)
         /\ Size(EntryChunks(entry, params)) = EntrySize(entry, params)
         /\ entry.cmd = "OP" => EntrySize(entry, params) = 1
  <1> DEFINE o == params[entry.a + 1]
  <1>1. entry.cmd \in Commands /\ entry.a \in Nat /\ entry.wide \in BOOLEAN
    BY DEF Ready, SafeEntry, TableEntry
  <1>2. CASE entry.cmd \in {"OP", "PLUSREG"}
    <2>1. EntryChunks(entry, params) = <<Fixed(1)>> /\ EntrySize(entry, params) = 1
      BY <1>2 DEF EntryChunks, EntrySize
    <2>2. 1 \in Nat
      OBVIOUS
    <2>3. Fixed(1) \in Measured /\ ChunkSize(Fixed(1)) = 1
      BY <2>2, ChunkSizes, Zenon
    <2>4. <<Fixed(1)>> \in Seq(Measured) /\ Size(<<Fixed(1)>>) = 1
      BY <2>3, SizeFew, Tuples
    <2>5. QED
      BY <2>1, <2>4, Zenon
  <1>3. ASSUME entry.cmd \notin {"OP", "PLUSREG"} PROVE o \in Operand
    <2>1. entry.a + 1 \in 1..Len(params)
      BY <1>1, <1>3 DEF Ready, SafeEntry
    <2>2. QED
      BY <2>1
  <1>4. CASE entry.cmd \in {"IMM8", "IMM16", "REL8", "REL16", "FAR_PTR"}
    <2>1. Text(o) \in Expr
      BY <1>3, <1>4, TextType
    <2>2. /\ entry.cmd = "IMM8"    => EntryChunks(entry, params) = <<Part("byte", Text(o))>>
          /\ entry.cmd = "IMM16"   => EntryChunks(entry, params) = <<Part("word", Text(o))>>
          /\ entry.cmd = "REL8"    => EntryChunks(entry, params) = <<Part("rel8", Text(o))>>
          /\ entry.cmd = "REL16"   => EntryChunks(entry, params) = <<Part("rel16", Text(o))>>
          /\ entry.cmd = "FAR_PTR" => EntryChunks(entry, params) = <<Part("far", Text(o))>>
      BY DEF EntryChunks
    <2>3. /\ entry.cmd \in {"IMM8", "REL8"} => EntrySize(entry, params) = 1
          /\ entry.cmd \in {"IMM16", "REL16"} => EntrySize(entry, params) = 2
          /\ entry.cmd = "FAR_PTR" => EntrySize(entry, params) = 4
      BY DEF EntrySize
    <2> HIDE DEF o
    <2>4. QED
      BY <1>4, <2>1, <2>2, <2>3, ChunkSizes, SizeFew, Tuples, ZenonT(60)
  <1>5. CASE entry.cmd = "RM"
    <2>1. o \in Operand /\ o.kind \in {"reg", "mem"}
      BY <1>3, <1>5 DEF Ready
    <2>2. EntryChunks(entry, params) =
            (IF Override(o) THEN <<Fixed(1)>> ELSE <<>>) \o <<RmChunk(o, entry.wide)>>
      BY <1>5 DEF EntryChunks
    <2>3. EntrySize(entry, params) =
            (IF Override(o) THEN 1 ELSE 0) + 1 + DispSize(Address(Symbols, NoScope, o))
      BY <1>5 DEF EntrySize
    <2> DEFINE first == IF Override(o) THEN <<Fixed(1)>> ELSE <<>>
               rm    == RmChunk(o, entry.wide)
    <2>4. /\ rm \in Measured
          /\ ChunkSize(rm) = 1 + DispSize(Address(Symbols, NoScope, o))
      BY <1>1, <2>1, RmSize
    <2>5. DispSize(Address(Symbols, NoScope, o)) \in 0..2
      BY <2>1, AddressFields, AddressByte, Zenon
    <2> HIDE DEF o
    <2>6. first \in Seq(Measured) /\ Size(first) = IF Override(o) THEN 1 ELSE 0
      <3>1. 1 \in Nat
        OBVIOUS
      <3>2. QED
        BY <3>1, ChunkSizes, SizeFew, Tuples
    <2> HIDE DEF first, rm
    <2>7. <<rm>> \in Seq(Measured) /\ Size(<<rm>>) = ChunkSize(rm)
      BY <2>4, SizeFew, Tuples
    <2>8. first \o <<rm>> \in Seq(Measured) /\ Size(first \o <<rm>>) = Size(first) + Size(<<rm>>)
      BY <2>6, <2>7, SizeJoined, Joined
    <2>9. EntryChunks(entry, params) = first \o <<rm>>
      BY <2>2 DEF first, rm
    <2>10. Size(first) + Size(<<rm>>) = EntrySize(entry, params)
      <3> HIDE <1>5, <2>1
      <3> QED BY <2>3, <2>4, <2>5, <2>6, <2>7
    <2>11. QED
      BY <1>5, <2>8, <2>9, <2>10
  <1>6. QED
    BY <1>1, <1>2, <1>4, <1>5 DEF Commands
-----------------------------------------------------------------------------
(* The entries of a row one after the other: how far it is after each.     *)
Far(s, row, params) ==
  /\ s \in [0..Len(row.ops) -> Nat] /\ s[0] = 0
  /\ \A k \in 0..Len(row.ops)-1 : s[k + 1] = s[k] + EntrySize(row.ops[k + 1], params)

LEMMA RowSize ==
  ASSUME NEW params \in Seq(Operand), NEW row, Len(row.ops) \in Nat,
         DOMAIN row.ops = 1..Len(row.ops), \A i \in DOMAIN row.ops : Ready(row.ops[i], params)
  PROVE  \E s : Far(s, row, params) /\ Size(RowChunks(row, params)) = s[Len(row.ops)]
  <1> DEFINE n == Len(row.ops)
             q == [i \in DOMAIN row.ops |-> EntryChunks(row.ops[i], params)]
             f == CHOOSE f : Flattens(f, q)
             size(i) == EntrySize(row.ops[i], params)
             G == {k \in 0..n : k = 0 \/ f[k] \in Seq(Measured)}
             s == [k \in 0..n |-> IF k = 0 THEN 0 ELSE Size(f[k])]
  <1>1. /\ n \in Nat /\ DOMAIN row.ops = 1..n
        /\ \A i \in 1..n : q[i] \in Seq(Measured) /\ Size(q[i]) = size(i)
    BY EntryMeasured
  <1>2. Len(q) = n
    BY <1>1
  <1>3. RowChunks(row, params) = FlattenSeq(q)
    BY DEF RowChunks
  <1>4. Flattens(f, q)
    BY <1>1, <1>2, FlattenExists
  <1> HIDE DEF f, q, n, size
  <1>5. \A i \in 1..n : f[i] = IF i = 1 THEN q[i] ELSE f[i-1] \o q[i]
    BY <1>1, <1>2, <1>4 DEF Flattens
  <1>6. ASSUME NEW k \in 0..n-1, k # 0 PROVE f[k + 1] = f[k] \o q[k + 1]
    <2>1. k + 1 \in 1..n /\ k + 1 # 1 /\ (k + 1) - 1 = k
      BY <1>1, <1>6
    <2>2. QED
      BY <1>5, <2>1
  <1>7. n # 0 => f[1] = q[1]
    BY <1>1, <1>5
  <1>8. ASSUME NEW k \in 0..n-1, k \in G PROVE k + 1 \in G
    <2>1. k + 1 \in 1..n /\ k + 1 \in 0..n /\ q[k + 1] \in Seq(Measured)
      BY <1>1
    <2>2. CASE k = 0
      BY <1>1, <1>7, <2>1, <2>2
    <2>3. CASE k # 0
      <3>1. f[k] \in Seq(Measured)
        BY <1>8, <2>3
      <3>2. f[k] \o q[k + 1] \in Seq(Measured)
        BY <2>1, <3>1, Joined
      <3>3. QED
        BY <1>6, <2>1, <2>3, <3>2
    <2>4. QED
      BY <2>2, <2>3
  <1>9. \A k \in 1..n : f[k] \in Seq(Measured)
    <2>1. 0 \in G
      BY <1>1
    <2>2. \A k \in 0..n : k \in G
      <3> HIDE DEF G
      <3> QED BY <1>1, <1>8, <2>1, UpTo
    <2>3. QED
      BY <2>2
  <1>10. \A k \in 1..n : Size(f[k]) \in Nat
    BY <1>9, SizeJoined
  <1>11. s \in [0..n -> Nat] /\ s[0] = 0
    BY <1>1, <1>10
  <1>12. ASSUME NEW k \in 0..n-1 PROVE s[k + 1] = s[k] + size(k + 1)
    <2>1. k + 1 \in 1..n /\ k + 1 \in 0..n /\ k + 1 # 0 /\ k \in 0..n
      BY <1>1
    <2>2. s[k + 1] = Size(f[k + 1]) /\ Size(q[k + 1]) = size(k + 1) /\ Size(q[k + 1]) \in Nat
      BY <1>1, <2>1, SizeJoined
    <2>3. CASE k = 0
      BY <1>1, <1>7, <1>11, <2>1, <2>2, <2>3
    <2>4. CASE k # 0
      <3>1. Size(f[k] \o q[k + 1]) = Size(f[k]) + Size(q[k + 1]) /\ k \in 1..n
        BY <1>1, <1>9, <2>1, <2>4, SizeJoined
      <3>2. s[k] = Size(f[k])
        BY <2>1, <2>4
      <3>3. QED
        BY <1>6, <2>2, <2>4, <3>1, <3>2
    <2>5. QED
      BY <2>3, <2>4
  <1>13. Size(FlattenSeq(q)) = s[n]
    <2>1. CASE n = 0
      <3>1. q = <<>>
        BY <1>1, <1>2, <2>1 DEF q
      <3>2. FlattenSeq(q) = <<>>
        BY <3>1 DEF FlattenSeq
      <3>3. QED
        BY <1>11, <2>1, <3>2, SizeFew
    <2>2. CASE n # 0
      <3>1. FlattenSeq(q) = f[n]
        BY <1>2, <2>2, FlattenIs DEF f
      <3>2. QED
        BY <1>1, <2>2, <3>1
    <2>3. QED
      BY <2>1, <2>2
  <1> HIDE DEF s
  <1>14. Far(s, row, params)
    BY <1>11, <1>12 DEF Far, n, size
  <1>15. QED
    BY <1>3, <1>13, <1>14 DEF n
-----------------------------------------------------------------------------
(* The bytes an entry puts out.                                            *)
LEMMA LowBytes ==
  ASSUME NEW v \in Int, NEW size \in 0..2
  PROVE  Low(v, size) \in Seq(Bytes) /\ Len(Low(v, size)) = size
  <1>1. v % 256 \in Bytes /\ (v \div 256) % 256 \in Bytes
    BY DEF Bytes
  <1> DEFINE a == v % 256
             b == (v \div 256) % 256
  <1> HIDE DEF a, b
  <1>2. Low(v, size) = IF size = 0 THEN <<>> ELSE IF size = 1 THEN <<a>> ELSE <<a, b>>
    BY DEF Low, a, b
  <1>3. /\ <<>> \in Seq(Bytes) /\ Len(<<>>) = 0
        /\ <<a>> \in Seq(Bytes) /\ Len(<<a>>) = 1
        /\ <<a, b>> \in Seq(Bytes) /\ Len(<<a, b>>) = 2
    BY <1>1, Tuples DEF a, b
  <1>4. size = 0 \/ size = 1 \/ size = 2
    OBVIOUS
  <1>5. QED
    BY <1>2, <1>3, <1>4

LEMMA Appended ==
  ASSUME NEW s \in Seq(Bytes), NEW t \in Seq(Bytes)
  PROVE  s \o t \in Seq(Bytes) /\ Len(s \o t) = Len(s) + Len(t)
  OBVIOUS
LEMMA FewBytes ==
  /\ \A b \in Bytes : <<b>> \in Seq(Bytes) /\ Len(<<b>>) = 1
  /\ <<0>> \in Seq(Bytes) /\ Len(<<0>>) = 1
  /\ <<0, 0>> \in Seq(Bytes) /\ Len(<<0, 0>>) = 2
  /\ <<0, 0, 0, 0>> \in Seq(Bytes) /\ Len(<<0, 0, 0, 0>>) = 4
  BY DEF Bytes

(* The opcode byte is all there is of the instruction when its address     *)
(* gets a prefix.                                                          *)
LEMMA PrefixedBytes ==
  ASSUME NEW o, out \in Seq(Bytes), old \in Nat, Len(out) = old + 1
  PROVE  /\ Prefixed(o) \in Seq(Bytes)
         /\ Len(Prefixed(o)) = Len(out) + (IF Override(o) THEN 1 ELSE 0)
  <1> DEFINE b == IF o.seg \in DOMAIN SegPrefix THEN SegPrefix[o.seg] ELSE 144
             p == [k \in 1..Len(out) + 1 |-> IF k = old + 1 THEN b
                                             ELSE IF k \in old + 2..old + 5 THEN out[k - 1] ELSE out[k]]
  <1>1. b \in Bytes
    <2>1. /\ DOMAIN SegPrefix = {"ES", "CS", "SS", "DS"}
          /\ SegPrefix["ES"] = 38 /\ SegPrefix["CS"] = 46 /\ SegPrefix["SS"] = 54 /\ SegPrefix["DS"] = 62
      BY DEF SegPrefix
    <2>2. 38 \in Bytes /\ 46 \in Bytes /\ 54 \in Bytes /\ 62 \in Bytes /\ 144 \in Bytes
      BY DEF Bytes
    <2>3. \A x \in DOMAIN SegPrefix : SegPrefix[x] \in Bytes
      BY <2>1, <2>2
    <2>4. QED
      BY <2>2, <2>3
  <1>2. Prefixed(o) = IF ~Override(o) THEN out ELSE p
    BY DEF Prefixed
  <1> HIDE DEF b
  <1>3. p \in [1..Len(out) + 1 -> Bytes]
    <2>1. SUFFICES ASSUME NEW k \in 1..Len(out) + 1
                   PROVE  (IF k = old + 1 THEN b ELSE IF k \in old + 2..old + 5 THEN out[k - 1] ELSE out[k])
                            \in Bytes
      OBVIOUS
    <2>2. \A i \in 1..Len(out) : out[i] \in Bytes
      OBVIOUS
    <2>3. k \in old + 2..old + 5 => k - 1 \in 1..Len(out)
      OBVIOUS
    <2>4. k # old + 1 /\ k \notin old + 2..old + 5 => k \in 1..Len(out)
      OBVIOUS
    <2> HIDE DEF Bytes
    <2>5. QED
      BY <1>1, <2>2, <2>3, <2>4
  <1> HIDE DEF p
  <1>4. p \in Seq(Bytes) /\ Len(p) = Len(out) + 1
    <2>1. Len(out) + 1 \in Nat
      OBVIOUS
    <2>2. QED
      BY <1>3, <2>1
  <1>5. QED
    BY <1>2, <1>4
Complaints == {"syntax", "undefined", "deep", "parent", "zero", "range", "short", "far", "reg",
               "segment"}
LEMMA SizeOfEntry ==
  ASSUME NEW e, NEW params
  PROVE  /\ e.cmd \in {"OP", "PLUSREG", "IMM8", "REL8"} => EntrySize(e, params) = 1
         /\ e.cmd \in {"IMM16", "REL16"} => EntrySize(e, params) = 2
         /\ e.cmd = "FAR_PTR" => EntrySize(e, params) = 4
  BY DEF EntrySize

LEMMA OperandOf ==
  ASSUME cur.params \in Seq(Operand), Ready(Entry1, cur.params), Entry1.cmd # "OP"
  PROVE  Param(Entry1.a) \in Operand
  <1>1. Entry1.a \in Nat /\ Entry1.a < Len(cur.params)
    BY DEF Ready, SafeEntry, TableEntry
  <1>2. Entry1.a + 1 \in 1..Len(cur.params)
    <2> HIDE DEF Entry1
    <2> QED BY <1>1
  <1>3. QED
    BY <1>2 DEF Param

LEMMA LookupOk ==
  ASSUME Param(Entry1.a) \in Operand
  PROVE  Lookup.value \in Int /\ Lookup.said \subseteq Complaints
  <1>1. Operand1 \in Expr
    BY TextType DEF Operand1
  <1>2. Lookup \in Evaluations
    BY <1>1, SymbolsAssumption, GetConstType DEF Lookup
  <1>3. QED
    BY <1>2 DEF Evaluations, SaidKinds, Complaints

LEMMA PutOk ==
  ASSUME out \in Seq(Bytes), NEW x \in Seq(Bytes), out' = out \o x
  PROVE  out' \in Seq(Bytes) /\ Len(out') = Len(out) + Len(x)
  OBVIOUS

EmitPlain == EmitOp \/ EmitPlusReg \/ EmitImm8 \/ EmitImm16 \/ EmitSeg
EmitJump  == EmitRel8 \/ ShortToImport \/ EmitRel16 \/ NearToImport \/ EmitFar \/ FarRejected
LEMMA PlainBytes ==
  ASSUME cur.params \in Seq(Operand), out \in Seq(Bytes), Ready(Entry1, cur.params),
         said \subseteq Complaints, EmitPlain
  PROVE  /\ out' \in Seq(Bytes) /\ Len(out') = Len(out) + EntrySize(Entry1, cur.params)
         /\ said' \subseteq Complaints
  <1>1. CASE EmitOp
    <2>1. Entry1.cmd = "OP" /\ out' = out \o <<Entry1.n>> /\ said' = said
      BY <1>1, Zenon DEF EmitOp, Doing, Put, Same0
    <2>2. Entry1.n \in Bytes
      BY <2>1 DEF Ready, SafeEntry, OpByte, Bytes
    <2>3. <<Entry1.n>> \in Seq(Bytes) /\ Len(<<Entry1.n>>) = 1
      BY <2>2, FewBytes
    <2>4. EntrySize(Entry1, cur.params) = 1
      BY <2>1, SizeOfEntry
    <2>5. QED
      BY <2>1, <2>3, <2>4, PutOk
  <1>2. CASE EmitPlusReg
    <2> DEFINE r == Number(Type(Param(Entry1.a)), Entry1.regs)
    <2>1. Entry1.cmd = "PLUSREG" /\ out' = out \o <<Entry1.n + r>> /\ said' = said
      BY <1>2, Zenon DEF EmitPlusReg, Doing, Put, Same0
    <2>2. Entry1.n \in OpReg /\ Entry1.regs \in RegLists
      BY <2>1 DEF Ready, SafeEntry, TableEntry
    <2>3. Len(Entry1.regs) \in 0..8
      BY <2>2, RegListLengths
    <2>4. r \in (-1)..Len(Entry1.regs)-1
      <3>1. Len(Entry1.regs) \in Nat
        BY <2>3
      <3>2. QED
        BY <3>1, NumberRange
    <2> HIDE DEF r
    <2>5. Entry1.n + r \in Bytes
      <3>1. \A n \in OpReg, l \in 0..8 : \A x \in (-1)..l-1 : n + x \in Bytes
        BY DEF OpReg, Bytes
      <3>2. QED
        BY <2>2, <2>3, <2>4, <3>1, Zenon
    <2>6. <<Entry1.n + r>> \in Seq(Bytes) /\ Len(<<Entry1.n + r>>) = 1
      BY <2>5, FewBytes
    <2>7. EntrySize(Entry1, cur.params) = 1
      BY <2>1, SizeOfEntry
    <2>8. QED
      BY <2>1, <2>6, <2>7, PutOk
  <1>3. CASE EmitImm8
    <2>1. /\ Entry1.cmd = "IMM8" /\ out' = out \o Low(Lookup.value, 1)
          /\ said' = said \cup Lookup.said
      BY <1>3, Zenon DEF EmitImm8, Doing, Put
    <2>2. Lookup.value \in Int /\ Lookup.said \subseteq Complaints
      BY <2>1, OperandOf, LookupOk
    <2>3. Low(Lookup.value, 1) \in Seq(Bytes) /\ Len(Low(Lookup.value, 1)) = 1
      BY <2>2, LowBytes
    <2>4. EntrySize(Entry1, cur.params) = 1
      BY <2>1, SizeOfEntry
    <2>5. QED
      BY <2>1, <2>2, <2>3, <2>4, PutOk
  <1>4. CASE EmitImm16
    <2>1. /\ Entry1.cmd = "IMM16" /\ out' = out \o Low(Lookup.value, 2)
          /\ said' = said \cup Lookup.said
      BY <1>4, Zenon DEF EmitImm16, Doing, Put
    <2>2. Lookup.value \in Int /\ Lookup.said \subseteq Complaints
      BY <2>1, OperandOf, LookupOk
    <2>3. Low(Lookup.value, 2) \in Seq(Bytes) /\ Len(Low(Lookup.value, 2)) = 2
      BY <2>2, LowBytes
    <2>4. EntrySize(Entry1, cur.params) = 2
      BY <2>1, SizeOfEntry
    <2>5. QED
      BY <2>1, <2>2, <2>3, <2>4, PutOk
  <1>5. CASE EmitSeg
    <2>1. Entry1.cmd = "IMM16" /\ out' = out \o <<0, 0>> /\ said' = said
      BY <1>5, Zenon DEF EmitSeg, Doing, Put
    <2>2. EntrySize(Entry1, cur.params) = 2
      BY <2>1, SizeOfEntry
    <2>3. QED
      BY <2>1, <2>2, FewBytes, PutOk
  <1>6. QED
    BY <1>1, <1>2, <1>3, <1>4, <1>5, Zenon DEF EmitPlain
LEMMA JumpBytes ==
  ASSUME cur.params \in Seq(Operand), out \in Seq(Bytes), Ready(Entry1, cur.params),
         said \subseteq Complaints, EmitJump
  PROVE  /\ out' \in Seq(Bytes) /\ Len(out') = Len(out) + EntrySize(Entry1, cur.params)
         /\ said' \subseteq Complaints
  <1>a. Len(out) \in Nat
    OBVIOUS
  <1>1. CASE EmitRel8
    <2> DEFINE disp == Lookup.value - (Here + 1)
    <2>1. /\ Entry1.cmd = "REL8" /\ out' = out \o Low(disp, 1)
          /\ said' = said \cup Lookup.said \cup (IF disp \in -128..127 THEN {} ELSE {"range"})
      BY <1>1, Zenon DEF EmitRel8, Doing, Put
    <2>2. Lookup.value \in Int /\ Lookup.said \subseteq Complaints
      BY <2>1, OperandOf, LookupOk
    <2>3. disp \in Int
      BY <1>a, <2>2 DEF Here
    <2> HIDE DEF disp
    <2>4. Low(disp, 1) \in Seq(Bytes) /\ Len(Low(disp, 1)) = 1
      BY <2>3, LowBytes
    <2>5. EntrySize(Entry1, cur.params) = 1
      BY <2>1, SizeOfEntry
    <2>6. said' \subseteq Complaints
      BY <2>1, <2>2 DEF Complaints
    <2>7. QED
      BY <2>1, <2>4, <2>5, <2>6, PutOk
  <1>2. CASE ShortToImport
    <2>1. Entry1.cmd = "REL8" /\ out' = out \o <<0>> /\ said' = said \cup {"short"}
      BY <1>2, Zenon DEF ShortToImport, Doing, Put
    <2>2. EntrySize(Entry1, cur.params) = 1
      BY <2>1, SizeOfEntry
    <2>3. said' \subseteq Complaints
      BY <2>1 DEF Complaints
    <2>4. QED
      BY <2>1, <2>2, <2>3, FewBytes, PutOk
  <1>3. CASE EmitRel16
    <2> DEFINE disp == Lookup.value - (Here + 2)
    <2>1. /\ Entry1.cmd = "REL16" /\ out' = out \o Low(disp, 2) /\ said' = said \cup Lookup.said
      BY <1>3, Zenon DEF EmitRel16, Doing, Put
    <2>2. Lookup.value \in Int /\ Lookup.said \subseteq Complaints
      BY <2>1, OperandOf, LookupOk
    <2>3. disp \in Int
      BY <1>a, <2>2 DEF Here
    <2> HIDE DEF disp
    <2>4. Low(disp, 2) \in Seq(Bytes) /\ Len(Low(disp, 2)) = 2
      BY <2>3, LowBytes
    <2>5. EntrySize(Entry1, cur.params) = 2
      BY <2>1, SizeOfEntry
    <2>6. QED
      BY <2>1, <2>2, <2>4, <2>5, PutOk
  <1>4. CASE NearToImport
    <2> DEFINE disp == -(Here + 2)
    <2>1. Entry1.cmd = "REL16" /\ out' = out \o Low(disp, 2) /\ said' = said
      BY <1>4, Zenon DEF NearToImport, Doing, Put
    <2>2. disp \in Int
      BY <1>a DEF Here
    <2> HIDE DEF disp
    <2>3. Low(disp, 2) \in Seq(Bytes) /\ Len(Low(disp, 2)) = 2
      BY <2>2, LowBytes
    <2>4. EntrySize(Entry1, cur.params) = 2
      BY <2>1, SizeOfEntry
    <2>5. QED
      BY <2>1, <2>3, <2>4, PutOk
  <1>5. CASE EmitFar \/ FarRejected
    <2>1. /\ Entry1.cmd = "FAR_PTR" /\ out' = out \o <<0, 0, 0, 0>>
          /\ said' = said \/ said' = said \cup {"far"}
      BY <1>5, Zenon DEF EmitFar, FarRejected, Doing, Put
    <2>2. EntrySize(Entry1, cur.params) = 4
      BY <2>1, SizeOfEntry
    <2>3. said' \subseteq Complaints
      BY <2>1 DEF Complaints
    <2>4. QED
      BY <2>1, <2>2, <2>3, FewBytes, PutOk
  <1>6. QED
    BY <1>1, <1>2, <1>3, <1>4, <1>5, Zenon DEF EmitJump

(* The reg field is a number given, or the one of a register.              *)
LEMMA RegFieldRange ==
  ASSUME NEW e \in TableEntry, e.n \in Field \/ e.n = -1
  PROVE  RegField(e) \in Field
  <1> DEFINE t == Type(Param(e.r))
  <1>1. Len(e.regs) \in 0..8
    BY RegListLengths DEF TableEntry
  <1>2. ASSUME t \in Range(e.regs) PROVE Number(t, e.regs) \in Field
    <2>1. e.regs \in RegLists
      BY DEF TableEntry
    <2>2. \E i \in 1..Len(e.regs) : e.regs[i] = t
      <3>1. DOMAIN e.regs = 1..Len(e.regs)
        BY <2>1 DEF RegLists, Reg8, Reg16, SegReg
      <3>2. QED
        BY <1>2, <3>1 DEF Range
    <2>3. Number(t, e.regs) \in 0..Len(e.regs)-1
      <3>1. Len(e.regs) \in Nat
        BY <1>1
      <3>2. QED
        BY <2>2, <3>1, NumberRange, Zenon
    <2>4. \A l \in 0..8 : \A x \in 0..l-1 : x \in Field
      BY DEF Field
    <2>5. QED
      BY <1>1, <2>3, <2>4, Zenon
  <1>3. RegField(e) = IF e.n >= 0 THEN e.n ELSE IF t \in Range(e.regs) THEN Number(t, e.regs) ELSE 0
    BY DEF RegField
  <1> HIDE DEF t
  <1>4. 0 \in Field /\ (e.n >= 0 => e.n \in Field)
    BY DEF Field
  <1>5. QED
    BY <1>2, <1>3, <1>4

LEMMA RmBytes ==
  ASSUME cur.params \in Seq(Operand), out \in Seq(Bytes), Ready(Entry1, cur.params), old \in Nat,
         Len(out) = old + 1, said \subseteq Complaints, EmitRm
  PROVE  /\ out' \in Seq(Bytes) /\ Len(out') = Len(out) + EntrySize(Entry1, cur.params)
         /\ said' \subseteq Complaints
  <1> DEFINE o    == Param(Entry1.a)
             ad   == Address(Symbols, NoScope, o)
             disp == GetConst(Symbols, NoScope, ad.disp)
             b    == ad.mod * 64 + RegField(Entry1) * 8 + ad.rm
             n    == DispSize(ad)
             over == IF Override(o) THEN 1 ELSE 0
  <1>1. /\ Entry1.cmd = "RM" /\ out' = Prefixed(o) \o <<b>> \o Low(disp.value, n)
        /\ said' = said \cup disp.said \cup (IF RegWrong(Entry1) THEN {"reg"} ELSE {})
             \cup (IF Override(o) /\ o.seg \notin DOMAIN SegPrefix THEN {"segment"} ELSE {})
    BY Zenon DEF EmitRm, Doing
  <1>2. o \in Operand /\ o.kind \in {"reg", "mem"}
    BY Zenon, <1>1, OperandOf DEF Ready, Param
  <1>3. AddressOk(ad)
    BY <1>2, AddressFields
  <1>4. RegField(Entry1) \in Field
    <2>1. Entry1 \in TableEntry /\ (Entry1.n \in Field \/ Entry1.n = -1)
      BY <1>1 DEF Ready, SafeEntry
    <2>2. QED
      BY <2>1, RegFieldRange
  <1>5. n \in 0..2 /\ b \in Bytes
    <2>1. n \in 0..2 /\ \A f \in Field : ad.mod * 64 + f * 8 + ad.rm \in OpByte
      <3> HIDE DEF ad
      <3> QED BY <1>3, AddressByte
    <2>2. QED
      BY <1>4, <2>1, Zenon DEF OpByte, Bytes
  <1>6. disp \in Evaluations
    <2>1. ad.disp \in Expr
      BY <1>3 DEF AddressOk
    <2>2. QED
      BY <2>1, SymbolsAssumption, GetConstType
  <1>7. /\ Prefixed(o) \in Seq(Bytes) /\ Len(Prefixed(o)) = Len(out) + over
    BY PrefixedBytes
  <1>8. EntrySize(Entry1, cur.params) = over + 1 + n
    BY Zenon, <1>1 DEF EntrySize, Param
  <1>9. said' \subseteq Complaints
    <2>1. disp.said \subseteq Complaints
      BY <1>6 DEF Evaluations, SaidKinds, Complaints
    <2> HIDE DEF disp, o
    <2>2. "reg" \in Complaints /\ "segment" \in Complaints
      BY DEF Complaints
    <2>3. QED
      BY <1>1, <2>1, <2>2
  <1>10. disp.value \in Int /\ over \in Nat
    BY <1>6 DEF Evaluations
  <1>11. out' = Prefixed(o) \o <<b>> \o Low(disp.value, n)
    BY <1>1
  <1> HIDE DEF o, ad, disp, b, n, over
  <1> HIDE <1>1
  <1>12. Low(disp.value, n) \in Seq(Bytes) /\ Len(Low(disp.value, n)) = n
    BY <1>5, <1>10, LowBytes
  <1>13. <<b>> \in Seq(Bytes) /\ Len(<<b>>) = 1
    BY <1>5, FewBytes
  <1>14. /\ Prefixed(o) \o <<b>> \in Seq(Bytes)
         /\ Len(Prefixed(o) \o <<b>>) = Len(Prefixed(o)) + 1
    BY <1>7, <1>13, Appended
  <1>15. out' \in Seq(Bytes) /\ Len(out') = Len(Prefixed(o)) + 1 + n
    BY <1>11, <1>12, <1>14, Appended
  <1>16. Len(out') = Len(out) + (over + 1 + n)
    <2>1. Len(out) \in Nat
      OBVIOUS
    <2>2. QED
      BY <1>5, <1>7, <1>10, <1>15, <2>1
  <1>17. QED
    BY <1>8, <1>9, <1>15, <1>16
-----------------------------------------------------------------------------
(* The row that is emitted.                                                *)
TakenRow == RowsOf(lex)[RowFor(lex, cur.dist, cur.params)]
ReadyRow(row, params) ==
  /\ Len(row.ops) \in Nat /\ row.ops \in Seq(SafeEntry(Len(params)))
  /\ \A i \in DOMAIN row.ops : /\ Ready(row.ops[i], params)
                               /\ row.ops[i].cmd = "RM" => i = 2 /\ row.ops[1].cmd = "OP"

LEMMA RowReady ==
  ASSUME NEW params \in Seq(Operand), NEW row \in SafeRow, Len(row.types) = Len(params),
         \A k \in DOMAIN params : Fits(Type(params[k]), row.types[k])
  PROVE  ReadyRow(row, params)
  <1>1. row.ops \in Seq(SafeEntry(Len(params)))
    BY OfItsOperands
  <1>2. Len(row.ops) \in Nat /\ Addressing(row)
    BY <1>1 DEF SafeRow
  <1>3. ASSUME NEW i \in DOMAIN row.ops
        PROVE  /\ Ready(row.ops[i], params)
               /\ row.ops[i].cmd = "RM" => i = 2 /\ row.ops[1].cmd = "OP"
    <2> DEFINE e == row.ops[i]
    <2>1. e \in SafeEntry(Len(params))
      BY <1>1
    <2>2. ASSUME e.cmd = "RM"
          PROVE  i = 2 /\ row.ops[1].cmd = "OP" /\ row.types[e.a + 1] \in Addressable
      BY <1>2, <2>2 DEF Addressing
    <2>3. ASSUME e.cmd = "RM" PROVE params[e.a + 1].kind \in {"reg", "mem"}
      <3>1. e.a \in Nat /\ e.a < Len(params)
        BY <2>1, <2>3 DEF SafeEntry, TableEntry
      <3>2. e.a + 1 \in DOMAIN params
        <4> HIDE DEF e
        <4> QED BY <3>1
      <3>3. params[e.a + 1] \in Operand
        BY <3>2
      <3>4. QED
        BY <2>2, <2>3, <3>2, <3>3, FitsAddressed, Zenon
    <2>4. QED
      BY <2>1, <2>2, <2>3 DEF Ready
  <1>4. QED
    BY <1>1, <1>2, <1>3 DEF ReadyRow

(* SAL by a number: the second of the three entries is the wrong one.      *)
SalOps == {SalImm[1].ops, SalImm[2].ops}
SalLeft(entries, n) ==
  /\ n = 2
  /\ \/ entries \in SalOps
     \/ \E ops \in SalOps : entries = Tail(ops)

LEMMA SalRows ==
  ASSUME NEW dist, NEW params \in Seq(Operand), RowFor("SAL", dist, params) # 0
  PROVE  LET row == RowsOf("SAL")[RowFor("SAL", dist, params)]
         IN ReadyRow(row, params) \/ SalLeft(row.ops, Len(params))
  <1> DEFINE rows == RowsOf("SAL")
             i    == RowFor("SAL", dist, params)
  <1>1. rows = ByCL(4) \o SalImm
    <2>1. "SAL" \in DOMAIN Shifts /\ Shifts["SAL"] = ByCL(4) \o SalImm
      BY DEF Shifts
    <2>2. "SAL" \notin DOMAIN Simple /\ "SAL" \notin DOMAIN Branch /\ "SAL" \notin DOMAIN Arithmetic
      BY DEF Simple, Branch, Arithmetic
    <2>3. PICK m : m = "SAL"
      OBVIOUS
    <2>4. m \in DOMAIN instr86
      BY <2>1, <2>3 DEF instr86
    <2>5. instr86[m] = CASE m \in DOMAIN Simple     -> Alone(<<Op(Simple[m])>>)
                         [] m \in DOMAIN Branch     -> Jump8(Branch[m])
                         [] m \in DOMAIN Arithmetic -> Arithmetic[m]
                         [] m \in DOMAIN Shifts     -> Shifts[m]
                         [] m \in DOMAIN Moves      -> Moves[m]
                         [] m \in DOMAIN Transfers  -> Transfers[m]
                         [] m = "IN"                -> InRows
      BY <2>4 DEF instr86
    <2>6. "SAL" \notin DOMAIN Moves /\ "SAL" \notin DOMAIN Transfers
      BY DEF Moves, Transfers
    <2>7. instr86[m] = Shifts[m]
      BY <2>1, <2>2, <2>3, <2>5, <2>6
    <2>8. QED
      BY <2>1, <2>3, <2>4, <2>7 DEF RowsOf
  <1>2. ByCL(4) \in SafeRows
    BY ImmediateGroups DEF Field, OpPair
  <1>3. Len(ByCL(4)) = 2 /\ Len(SalImm) = 2
    BY DEF ByCL, SalImm
  <1>4. Len(rows) = 4
    <2>1. \A a, b, c, d : Len(<<a, b>> \o <<c, d>>) = 4
      OBVIOUS
    <2>2. PICK a, b : ByCL(4) = <<a, b>>
      BY Zenon DEF ByCL
    <2>3. PICK c, d : SalImm = <<c, d>>
      BY Zenon DEF SalImm
    <2>4. QED
      BY <1>1, <2>1, <2>2, <2>3, Zenon
  <1>5. i \in 1..4 /\ Matches(rows[i], dist, params)
    <2>1. Len(rows) \in Nat
      BY <1>4
    <2>2. QED
      BY <1>4, <2>1, RowFound
  <1> HIDE DEF i, rows
  <1>6. CASE i \in 1..2
    <2>1. rows[i] = ByCL(4)[i]
      BY <1>1, <1>2, <1>3, <1>6 DEF SafeRows
    <2>2. ByCL(4)[i] \in SafeRow
      BY <1>2, <1>3, <1>6 DEF SafeRows
    <2>3. QED
      BY <1>5, <2>1, <2>2, RowReady DEF Matches, rows, i
  <1>7. CASE i \in 3..4
    <2>1. rows[i] = SalImm[i - 2] /\ i - 2 \in 1..2
      BY <1>1, <1>3, <1>7 DEF ByCL, SalImm
    <2>2. rows[i].ops \in SalOps
      BY <2>1 DEF SalOps
    <2>3. Len(rows[i].types) = 2
      <3>1. Len(SalImm[1].types) = 2 /\ Len(SalImm[2].types) = 2
        BY DEF SalImm, Row
      <3>2. i - 2 = 1 \/ i - 2 = 2
        BY <2>1
      <3>3. QED
        BY <2>1, <3>1, <3>2, Zenon
    <2>4. Len(params) = 2
      BY <1>5, <2>3 DEF Matches
    <2>5. QED
      BY <2>2, <2>4 DEF SalLeft, rows, i
  <1>8. QED
    BY <1>5, <1>6, <1>7

LEMMA NoWord == lookupLex("") = "NONE" /\ RowsOf("NONE") = <<>>
  <1>1. \A w \in {"", "NONE"} :
          /\ w \notin DOMAIN Simple /\ w \notin DOMAIN Branch /\ w \notin DOMAIN Arithmetic
          /\ w \notin DOMAIN Shifts /\ w \notin DOMAIN Moves /\ w \notin DOMAIN Transfers
    <2>1. "" \notin DOMAIN Simple /\ "NONE" \notin DOMAIN Simple
      BY DEF Simple
    <2>2. "" \notin DOMAIN Branch /\ "NONE" \notin DOMAIN Branch
      BY DEF Branch
    <2>3. /\ "" \notin DOMAIN Arithmetic /\ "NONE" \notin DOMAIN Arithmetic
          /\ "" \notin DOMAIN Shifts /\ "NONE" \notin DOMAIN Shifts
      BY DEF Arithmetic, Shifts
    <2>4. /\ "" \notin DOMAIN Moves /\ "NONE" \notin DOMAIN Moves
          /\ "" \notin DOMAIN Transfers /\ "NONE" \notin DOMAIN Transfers
      BY DEF Moves, Transfers
    <2>5. QED
      BY <2>1, <2>2, <2>3, <2>4
  <1>2. \A w \in {"", "NONE"} : w \notin DOMAIN instr86
    <2>1. DOMAIN instr86 = DOMAIN Simple \cup DOMAIN Branch \cup DOMAIN Arithmetic \cup DOMAIN Shifts
                             \cup DOMAIN Moves \cup DOMAIN Transfers \cup {"IN"}
      BY DEF instr86
    <2>2. QED
      BY <1>1, <2>1
  <1>3. "" \notin Directives /\ "" \notin RowLess /\ "" \notin DOMAIN Aliases
    BY DEF Directives, RowLess, Aliases
  <1>4. QED
    BY <1>2, <1>3 DEF lookupLex, ByTheirName, Lexemes, RowsOf
LEMMA NoWordNoRow == cur.cmd = "" => RowFor(lex, cur.dist, cur.params) = 0
  <1>1. SUFFICES ASSUME cur.cmd = "", RowFor(lex, cur.dist, cur.params) # 0 PROVE FALSE
    OBVIOUS
  <1>2. RowsOf(lex) = <<>>
    BY <1>1, NoWord DEF lex
  <1>3. Len(RowsOf(lex)) = 0 /\ 0 \in Nat
    BY <1>2
  <1>4. RowFor(lex, cur.dist, cur.params) \in 1..0
    BY <1>1, <1>3, RowFound
  <1>5. QED
    BY <1>4

(* An instruction is emitted as far as its first k entries, with the bytes *)
(* of these; or it is SAL, about to read the operand that is not there.    *)
Emitting(k, s) ==
  /\ ReadyRow(TakenRow, cur.params) /\ Far(s, TakenRow, cur.params)
  /\ Size(RowChunks(TakenRow, cur.params)) = s[Len(TakenRow.ops)]
  /\ k \in 0..Len(TakenRow.ops) /\ Len(out) - old = s[k]
  /\ todo \in Seq(SafeEntry(Len(cur.params))) /\ Len(todo) = Len(TakenRow.ops) - k
  /\ \A i \in 1..Len(todo) : todo[i] = TakenRow.ops[k + i]
EmitInv ==
  /\ line \in Lines /\ cur \in Split /\ out \in Seq(Bytes) /\ old \in 0..Len(out)
  /\ pc \in {"split", "prefix", "match", "emit", "done", "crash"} /\ said \subseteq Complaints
  /\ pc = "emit" => \/ cur.cmd = "SAL" /\ SalLeft(todo, Len(cur.params))
                    \/ \E k, s : Emitting(k, s)
  /\ pc = "crash" => cur.cmd = "SAL"
  /\ ChunksMeasure

LEMMA NextEntry ==
  ASSUME NEW k, NEW s, Emitting(k, s), todo # <<>>, out \in Seq(Bytes), old \in 0..Len(out)
  PROVE  /\ k + 1 \in 1..Len(TakenRow.ops) /\ k \in 0..Len(TakenRow.ops)-1
         /\ Entry1 = TakenRow.ops[k + 1] /\ Ready(Entry1, cur.params)
         /\ Entry1.cmd = "RM" => Len(out) = old + 1
         /\ Entry1.cmd = "RM" => Entry1.a < Len(cur.params)
  <1> DEFINE row == TakenRow
             n   == Len(row.ops)
             m   == Len(todo)
  <1>1. /\ n \in Nat /\ k \in 0..n /\ m = n - k /\ m \in Nat
        /\ \A i \in 1..m : todo[i] = row.ops[k + i]
        /\ row.ops \in Seq(SafeEntry(Len(cur.params)))
    BY DEF Emitting, ReadyRow
  <1>2. m # 0 /\ Entry1 = todo[1]
    BY DEF Emitting, Entry1
  <1>3. DOMAIN row.ops = 1..n
    BY <1>1
  <1>4. \A i \in DOMAIN row.ops : /\ Ready(row.ops[i], cur.params)
                                  /\ row.ops[i].cmd = "RM" => i = 2 /\ row.ops[1].cmd = "OP"
    BY DEF Emitting, ReadyRow
  <1>5. /\ s \in [0..n -> Nat] /\ s[0] = 0 /\ Len(out) - old = s[k]
        /\ \A i \in 0..n-1 : s[i + 1] = s[i] + EntrySize(row.ops[i + 1], cur.params)
    BY DEF Emitting, Far
  <1> HIDE DEF row, n, m
  <1>6. k + 1 \in 1..n /\ k \in 0..n-1 /\ 1 \in 1..m /\ 1 \in 1..n
    BY <1>1, <1>2
  <1>7. Entry1 = row.ops[k + 1] /\ Ready(Entry1, cur.params)
    BY <1>1, <1>2, <1>3, <1>4, <1>6
  <1>8. ASSUME Entry1.cmd = "RM" PROVE k = 1 /\ row.ops[1].cmd = "OP"
    <2>1. k + 1 = 2 /\ row.ops[1].cmd = "OP"
      BY <1>3, <1>4, <1>6, <1>7, <1>8
    <2>2. QED
      BY <1>1, <2>1
  <1>9. Entry1.cmd = "RM" => s[k] = 1
    <2>1. SUFFICES ASSUME Entry1.cmd = "RM" PROVE s[k] = 1
      OBVIOUS
    <2>2. EntrySize(row.ops[1], cur.params) = 1
      BY <1>8, <2>1, SizeOfEntry
    <2>3. k = 1
      BY <1>8, <2>1
    <2> HIDE <2>1
    <2>4. 0 \in 0..n-1 /\ 0 + 1 = 1
      BY <1>1, <1>6
    <2>5. s[1] = 1
      BY <1>5, <2>2, <2>4
    <2>6. QED
      BY <2>3, <2>5
  <1>10. s[k] = 1 => Len(out) = old + 1
    BY <1>5
  <1>11. Entry1.cmd = "RM" => Entry1.a < Len(cur.params)
    BY <1>7 DEF Ready, SafeEntry
  <1>12. QED
    BY <1>6, <1>7, <1>9, <1>10, <1>11 DEF row, n

LEMMA EntryDone ==
  ASSUME NEW k, NEW s, Emitting(k, s), todo # <<>>, out \in Seq(Bytes), old \in 0..Len(out),
         todo' = Tail(todo), cur' = cur, old' = old, out' \in Seq(Bytes), cur.params \in Seq(Operand),
         Len(out') = Len(out) + EntrySize(Entry1, cur.params)
  PROVE  Emitting(k + 1, s)' /\ old' \in 0..Len(out')
  <1> DEFINE n == Len(TakenRow.ops)
  <1>1. TakenRow' = TakenRow
    BY DEF TakenRow, lex
  <1>2. /\ k + 1 \in 1..n /\ k \in 0..n-1 /\ Entry1 = TakenRow.ops[k + 1]
        /\ Ready(Entry1, cur.params)
    BY NextEntry
  <1>3. /\ n \in Nat /\ s \in [0..n -> Nat] /\ Len(out) - old = s[k]
        /\ s[k + 1] = s[k] + EntrySize(TakenRow.ops[k + 1], cur.params)
    BY <1>2 DEF Emitting, Far, ReadyRow
  <1>4. /\ todo \in Seq(SafeEntry(Len(cur.params))) /\ Len(todo) = n - k
        /\ \A i \in 1..Len(todo) : todo[i] = TakenRow.ops[k + i]
    BY DEF Emitting
  <1> HIDE DEF n
  <1>5. Len(out') - old' = s[k + 1] /\ s[k + 1] \in Nat /\ k + 1 \in 0..n
    <2> DEFINE z == EntrySize(TakenRow.ops[k + 1], cur.params)
    <2>1. Len(out') = Len(out) + z /\ s[k + 1] = s[k] + z
      BY <1>2, <1>3
    <2>2. k \in 0..n /\ k + 1 \in 0..n
      BY <1>2, <1>3
    <2>3. s[k] \in Nat /\ s[k + 1] \in Nat
      BY <1>3, <2>2
    <2>4. Len(out') \in Nat /\ Len(out) \in Nat
      OBVIOUS
    <2>z. z \in Nat
      BY <1>2, EntryMeasured, SizeJoined
    <2> HIDE DEF z
    <2>5. Len(out') - old = s[k + 1]
      <3>1. old \in Nat /\ Len(out) - old = s[k]
        BY <1>3, <2>4
      <3> DEFINE l == Len(out)
                 h == Len(out')
                 a == s[k]
                 b == s[k + 1]
      <3>2. h = l + z /\ b = a + z /\ l - old = a
        BY <2>1, <3>1
      <3>3. l \in Nat /\ h \in Nat /\ a \in Nat /\ b \in Nat
        BY <2>3, <2>4
      <3> HIDE DEF l, h, a, b
      <3>4. h - old = b
        BY <2>z, <3>1, <3>2, <3>3
      <3>5. QED
        BY <3>4 DEF h, b
    <2>6. QED
      BY <2>2, <2>3, <2>5
  <1>6. /\ todo' \in Seq(SafeEntry(Len(cur.params))) /\ Len(todo') = n - (k + 1)
        /\ \A i \in 1..Len(todo') : i + 1 \in 1..Len(todo) /\ todo'[i] = todo[i + 1]
    BY <1>2, <1>3, <1>4
  <1>7. \A i \in 1..Len(todo') : todo'[i] = TakenRow.ops[(k + 1) + i]
    <2>1. \A i \in 1..Len(todo') : k + (i + 1) = (k + 1) + i
      BY <1>2, <1>6
    <2>2. QED
      BY <1>4, <1>6, <2>1
  <1>8. old' \in 0..Len(out')
    BY <1>5
  <1>9. QED
    BY <1>1, <1>5, <1>6, <1>7, <1>8 DEF Emitting, Far, n

-----------------------------------------------------------------------------
(* split_line makes a line of what it reads.                               *)
LEMMA SeqParts ==
  ASSUME NEW S, NEW s \in Seq(S)
  PROVE  /\ s # <<>> => Head(s) \in S /\ Tail(s) \in Seq(S)
         /\ Len(s) > 1 => s[2] \in S
  OBVIOUS
LEMMA CutType ==
  ASSUME NEW words \in Seq(STRING), NEW params \in Seq(Operand), NEW lock \in BOOLEAN,
         NEW rep \in {"", "REP", "REPNZ"}
  PROVE  Cut(words, params, lock, rep) \in Split
  <1>1. "" \in STRING
    BY NoTextAssumption
  <1>2. words # <<>> => Head(words) \in STRING
    BY SeqParts, Zenon
  <1>3. Len(words) > 1 => words[2] \in STRING
    BY SeqParts, Zenon
  <1> DEFINE cmd  == IF words = <<>> THEN "" ELSE Head(words)
             dist == IF Len(words) > 1 /\ words[2] \in {"SHORT", "NEAR", "FAR"} THEN words[2] ELSE ""
  <1>4. cmd \in STRING /\ dist \in STRING
    BY <1>1, <1>2, <1>3
  <1>5. Cut(words, params, lock, rep) = [lock |-> lock, rep |-> rep, cmd |-> cmd, dist |-> dist,
                                         params |-> params]
    BY DEF Cut
  <1> HIDE DEF cmd, dist
  <1>6. ASSUME NEW A, lock \in A, NEW B, rep \in B, NEW C, cmd \in C, dist \in C, NEW D, params \in D
        PROVE  [lock |-> lock, rep |-> rep, cmd |-> cmd, dist |-> dist, params |-> params]
                 \in [lock : A, rep : B, cmd : C, dist : C, params : D]
    BY <1>6
  <1>7. QED
    BY <1>4, <1>5, <1>6, Zenon DEF Split

LEMMA RepType ==
  ASSUME NEW words
  PROVE  Rep(words) \in {"", "REP", "REPNZ"} /\ (Rep(words) # "" => words # <<>>)
  BY DEF Rep

LEMMA SplitType ==
  ASSUME line \in Lines, SplitLine
  PROVE  cur' \in Split
  <1>1. line.words \in Seq(STRING) /\ line.params \in Seq(Operand) /\ line.words # <<>>
    BY LinesAssumption DEF SourceLine
  <1>2. AfterLock \in Seq(STRING) /\ Locked \in BOOLEAN
    <2>1. Locked \in BOOLEAN
      BY DEF Locked
    <2>2. QED
      BY <1>1, <2>1, SeqParts, Zenon DEF AfterLock
  <1>3. PICK rep : rep = Rep(AfterLock)
    OBVIOUS
  <1>4. rep \in {"", "REP", "REPNZ"} /\ (rep # "" => AfterLock # <<>>)
    BY <1>3, RepType
  <1> DEFINE ws == IF rep = "" THEN AfterLock ELSE Tail(AfterLock)
  <1>5. ws \in Seq(STRING)
    BY <1>2, <1>4, SeqParts, Zenon
  <1>6. \/ \E s \in Stale : cur' = Cut(s.words, s.params, Locked, rep)
        \/ cur' = Cut(ws, line.params, Locked, rep)
    BY <1>3, Zenon DEF SplitLine
  <1> HIDE DEF ws
  <1>7. \A s \in Stale : s.words \in Seq(STRING) /\ s.params \in Seq(Operand)
    BY StaleAssumption DEF SourceLine
  <1>8. QED
    BY <1>1, <1>2, <1>4, <1>5, <1>6, <1>7, CutType

(* A prefix is a byte or none.                                             *)
LEMMA PrefixBytes ==
  ASSUME out \in Seq(Bytes), EmitPrefixes
  PROVE  out' \in Seq(Bytes) /\ Len(out) <= Len(out')
  <1> DEFINE lock == IF cur.lock THEN <<240>> ELSE <<>>
             rep  == CASE cur.rep = "REP" -> <<243>> [] cur.rep = "REPNZ" -> <<242>>
                       [] OTHER -> <<>>
  <1>1. 240 \in Bytes /\ 242 \in Bytes /\ 243 \in Bytes
    BY DEF Bytes
  <1>2. <<>> \in Seq(Bytes) /\ <<240>> \in Seq(Bytes) /\ <<242>> \in Seq(Bytes) /\ <<243>> \in Seq(Bytes)
    BY <1>1, FewBytes, Tuples
  <1>3. lock \in Seq(Bytes) /\ rep \in Seq(Bytes)
    BY <1>2
  <1>4. out' = out \o lock \o rep
    BY DEF EmitPrefixes
  <1> HIDE DEF lock, rep
  <1>5. out \o lock \in Seq(Bytes) /\ Len(out \o lock) = Len(out) + Len(lock)
    BY <1>3, Appended
  <1>6. out' \in Seq(Bytes) /\ Len(out') = Len(out) + Len(lock) + Len(rep)
    BY <1>3, <1>4, <1>5, Appended
  <1>7. Len(out) \in Nat /\ Len(lock) \in Nat /\ Len(rep) \in Nat
    BY <1>3
  <1>8. QED
    BY <1>6, <1>7

(* A row is taken: its operands are there, or it is one of SAL's two.      *)
LEMMA RowReadyOrSal ==
  ASSUME cur \in Split, RowFor(lex, cur.dist, cur.params) # 0
  PROVE  \/ ReadyRow(TakenRow, cur.params)
         \/ cur.cmd = "SAL" /\ SalLeft(TakenRow.ops, Len(cur.params))
  <1>1. cur.params \in Seq(Operand)
    BY DEF Split
  <1>2. CASE lex # "SAL"
    <2>1. RowsOf(lex) \in SafeRows
      BY <1>2, SafeRowsOf
    <2>2. /\ TakenRow \in SafeRow /\ Len(TakenRow.types) = Len(cur.params)
          /\ \A k \in DOMAIN cur.params : Fits(Type(cur.params[k]), TakenRow.types[k])
      BY <2>1, RowTaken DEF TakenRow
    <2>3. QED
      BY <1>1, <2>2, RowReady
  <1>3. CASE lex = "SAL"
    <2>1. cur.cmd = "SAL"
      BY <1>3, SalByName DEF lex
    <2>2. QED
      BY <1>1, <1>3, <2>1, SalRows DEF TakenRow
  <1>4. QED
    BY <1>2, <1>3

LEMMA TakeRowEmits ==
  ASSUME cur \in Split, out \in Seq(Bytes), TakeRow
  PROVE  (\/ cur.cmd = "SAL" /\ SalLeft(todo, Len(cur.params))
          \/ \E k, s : Emitting(k, s))'
  <1>1. /\ cur' = cur /\ out' = out /\ todo' = TakenRow.ops /\ old' = Len(out)
        /\ RowFor(lex, cur.dist, cur.params) # 0
    BY DEF TakeRow, TakenRow
  <1>2. TakenRow' = TakenRow /\ cur.params \in Seq(Operand)
    BY <1>1 DEF TakenRow, lex, Split
  <1>3. CASE cur.cmd = "SAL" /\ SalLeft(TakenRow.ops, Len(cur.params))
    BY <1>1, <1>3 DEF SalLeft
  <1>4. CASE ReadyRow(TakenRow, cur.params)
    <2>1. /\ Len(TakenRow.ops) \in Nat /\ TakenRow.ops \in Seq(SafeEntry(Len(cur.params)))
          /\ \A i \in DOMAIN TakenRow.ops : Ready(TakenRow.ops[i], cur.params)
      BY <1>4 DEF ReadyRow
    <2>2. DOMAIN TakenRow.ops = 1..Len(TakenRow.ops)
      BY <2>1
    <2>3. PICK s : /\ Far(s, TakenRow, cur.params)
                   /\ Size(RowChunks(TakenRow, cur.params)) = s[Len(TakenRow.ops)]
      BY <1>2, <2>1, <2>2, RowSize
    <2>4. s[0] = 0
      BY <2>3 DEF Far
    <2>5. /\ 0 \in 0..Len(TakenRow.ops) /\ Len(out) - Len(out) = 0
          /\ Len(TakenRow.ops) - 0 = Len(TakenRow.ops)
          /\ \A i \in 1..Len(TakenRow.ops) : 0 + i = i
      BY <2>1
    <2>6. Emitting(0, s)'
      BY <1>1, <1>2, <1>4, <2>1, <2>3, <2>4, <2>5 DEF Emitting
    <2>7. QED
      BY <2>6
  <1>5. QED
    BY <1>1, <1>3, <1>4, RowReadyOrSal

(* One entry is emitted, of an instruction that is not SAL's or of SAL's   *)
(* that begins with its opcode.                                            *)
EmitEntry == EmitPlain \/ EmitJump \/ EmitRm
LEMMA EntryTaken ==
  ASSUME EmitEntry
  PROVE  /\ pc = "emit" /\ todo # <<>> /\ todo' = Tail(todo)
         /\ line' = line /\ cur' = cur /\ pc' = pc /\ old' = old
  BY Zenon DEF EmitEntry, EmitPlain, EmitJump, EmitOp, EmitPlusReg, EmitImm8, EmitImm16, EmitSeg, EmitRel8,
     ShortToImport, EmitRel16, NearToImport, EmitFar, FarRejected, EmitRm, Doing, Same0

LEMMA EntryBytes ==
  ASSUME cur.params \in Seq(Operand), out \in Seq(Bytes), Ready(Entry1, cur.params), old \in Nat,
         Entry1.cmd = "RM" => Len(out) = old + 1, said \subseteq Complaints, EmitEntry
  PROVE  /\ out' \in Seq(Bytes) /\ Len(out') = Len(out) + EntrySize(Entry1, cur.params)
         /\ said' \subseteq Complaints
  <1>1. EmitRm => Entry1.cmd = "RM"
    BY DEF EmitRm, Doing
  <1>2. QED
    BY <1>1, PlainBytes, JumpBytes, RmBytes, Zenon DEF EmitEntry

LEMMA SalEntries ==
  \A ops \in SalOps : /\ ops # <<>> /\ Head(ops).cmd = "OP" /\ Head(ops).n \in Bytes
                      /\ Tail(ops) # <<>> /\ Head(Tail(ops)).cmd = "RM" /\ Head(Tail(ops)).a = 2
  <1>1. ASSUME NEW ops \in SalOps
        PROVE  \E b \in {192, 193}, w \in BOOLEAN : ops = <<Op(b), RmLine(4, 2, w), Op(0)>>
    BY DEF SalOps, SalImm, Row
  <1>2. SUFFICES ASSUME NEW ops \in SalOps
                 PROVE  /\ ops # <<>> /\ Head(ops).cmd = "OP" /\ Head(ops).n \in Bytes
                        /\ Tail(ops) # <<>> /\ Head(Tail(ops)).cmd = "RM" /\ Head(Tail(ops)).a = 2
    OBVIOUS
  <1>3. \A b : Op(b).cmd = "OP" /\ Op(b).n = b
    BY DEF Op, Entry0
  <1>4. \A w : RmLine(4, 2, w).cmd = "RM" /\ RmLine(4, 2, w).a = 2
    BY DEF RmLine, Entry0
  <1>5. 192 \in Bytes /\ 193 \in Bytes
    BY DEF Bytes
  <1>6. \A x, y, z : /\ <<x, y, z>> # <<>> /\ Head(<<x, y, z>>) = x /\ Tail(<<x, y, z>>) # <<>>
                     /\ Head(Tail(<<x, y, z>>)) = y
    OBVIOUS
  <1>7. PICK b \in {192, 193}, w \in BOOLEAN : ops = <<Op(b), RmLine(4, 2, w), Op(0)>>
    BY <1>1
  <1>8. b \in Bytes
    BY <1>5
  <1>9. /\ ops # <<>> /\ Head(ops) = Op(b)
        /\ Tail(ops) # <<>> /\ Head(Tail(ops)) = RmLine(4, 2, w)
    BY <1>6, <1>7
  <1>10. Head(ops).cmd = "OP" /\ Head(ops).n = b
    BY <1>3, <1>9
  <1>11. Head(Tail(ops)).cmd = "RM" /\ Head(Tail(ops)).a = 2
    BY <1>4, <1>9
  <1>12. QED
    BY <1>8, <1>9, <1>10, <1>11

LEMMA SalBytes ==
  ASSUME SalLeft(todo, Len(cur.params)), EmitEntry, out \in Seq(Bytes), said \subseteq Complaints
  PROVE  /\ SalLeft(todo', Len(cur.params)) /\ said' \subseteq Complaints
         /\ out' \in Seq(Bytes) /\ Len(out) <= Len(out')
  <1>1. CASE EmitOp
    <2>1. /\ Entry1.cmd = "OP" /\ out' = out \o <<Entry1.n>> /\ said' = said /\ todo' = Tail(todo)
      BY <1>1, Zenon DEF EmitOp, Doing, Put, Same0
    <2>2. todo \in SalOps
      <3>1. ASSUME NEW ops \in SalOps, todo = Tail(ops) PROVE FALSE
        BY <2>1, <3>1, SalEntries DEF Entry1
      <3>2. QED
        BY <3>1 DEF SalLeft
    <2>3. Entry1.n \in Bytes /\ Len(cur.params) = 2
      BY <2>2, SalEntries DEF Entry1, SalLeft
    <2>4. <<Entry1.n>> \in Seq(Bytes) /\ Len(<<Entry1.n>>) = 1
      BY <2>3, FewBytes
    <2>5. out' \in Seq(Bytes) /\ Len(out') = Len(out) + 1
      BY <2>1, <2>4, Appended
    <2>6. Len(out) <= Len(out')
      BY <2>5
    <2>7. QED
      BY <2>1, <2>2, <2>3, <2>5, <2>6 DEF SalLeft
  <1>2. CASE ~EmitOp
    <2>1. Entry1.cmd # "OP" /\ (Entry1.cmd = "RM" => Entry1.a < Len(cur.params))
      BY Zenon, <1>2 DEF EmitEntry, EmitPlain, EmitJump, EmitPlusReg, EmitImm8, EmitImm16, EmitSeg, EmitRel8,
         ShortToImport, EmitRel16, NearToImport, EmitFar, FarRejected, EmitRm, Doing
    <2>2. FALSE
      <3>1. Entry1.cmd = "OP" \/ (Entry1.cmd = "RM" /\ Entry1.a = 2 /\ Len(cur.params) = 2)
        BY SalEntries DEF SalLeft, Entry1
      <3>2. ~(2 < 2)
        OBVIOUS
      <3>3. QED
        BY <2>1, <3>1, <3>2, Zenon
    <2>3. QED
      BY <2>2
  <1>3. QED
    BY <1>1, <1>2

LEMMA SplitParams == cur \in Split => cur.params \in Seq(Operand)
  BY DEF Split
LEMMA Starts == \A s \in Seq(Bytes) : Len(s) \in Nat /\ Len(s) \in 0..Len(s)
  OBVIOUS
LEMMA EmitInit == Init => EmitInv
  <1> SUFFICES ASSUME Init PROVE EmitInv
    OBVIOUS
  <1>1. /\ line \in Lines /\ cur = Cut(<<>>, <<>>, FALSE, "") /\ pc = "split" /\ out = Before
        /\ old = Len(Before) /\ said = {}
    BY DEF Init
  <1>2. cur \in Split
    <2>1. <<>> \in Seq(STRING) /\ <<>> \in Seq(Operand) /\ FALSE \in BOOLEAN /\ "" \in {"", "REP", "REPNZ"}
      OBVIOUS
    <2>2. QED
      BY <1>1, <2>1, CutType, Zenon
  <1>3. out \in Seq(Bytes) /\ old \in 0..Len(out)
    <2>1. Before \in Seq(Bytes)
      BY BeforeAssumption DEF Bytes
    <2>2. QED
      BY <1>1, <2>1, Starts, Zenon
  <1>4. QED
    BY <1>1, <1>2, <1>3 DEF EmitInv, ChunksMeasure

LEMMA EmitStep == EmitInv /\ [Next]_vars => EmitInv'
  <1> SUFFICES ASSUME EmitInv, [Next]_vars PROVE EmitInv'
    OBVIOUS
  <1> DEFINE AtWork == \/ cur.cmd = "SAL" /\ SalLeft(todo, Len(cur.params))
                       \/ \E k, s : Emitting(k, s)
  <1>1. /\ line \in Lines /\ cur \in Split /\ out \in Seq(Bytes) /\ old \in 0..Len(out)
        /\ pc \in {"split", "prefix", "match", "emit", "done", "crash"} /\ said \subseteq Complaints
        /\ pc = "emit" => AtWork
        /\ pc = "crash" => cur.cmd = "SAL"
        /\ ChunksMeasure
    BY DEF EmitInv
  <1>2. cur.params \in Seq(Operand) /\ old \in Nat /\ Len(out) \in Nat
    <2>1. out \in Seq(Bytes) /\ old \in 0..Len(out)
      BY <1>1
    <2>2. Len(out) \in Nat
      BY <2>1, Starts
    <2>3. old \in Nat
      BY <2>1, <2>2
    <2>4. QED
      BY <1>1, <2>2, <2>3, SplitParams
  <1> HIDE DEF AtWork
  <1>3. CASE SplitLine
    <2>1. cur' \in Split
      BY <1>1, <1>3, SplitType
    <2>2. pc' = "prefix" /\ line' = line /\ out' = out /\ old' = old /\ said' = said
      BY <1>3 DEF SplitLine
    <2>3. QED
      BY <1>1, <2>1, <2>2 DEF EmitInv, ChunksMeasure
  <1>4. CASE EmitPrefixes
    <2>1. out' \in Seq(Bytes) /\ Len(out) <= Len(out')
      BY <1>1, <1>4, PrefixBytes
    <2>2. /\ pc' = IF cur.cmd = "" THEN "done" ELSE "match"
          /\ line' = line /\ cur' = cur /\ old' = old /\ said' = said
      BY <1>4 DEF EmitPrefixes
    <2>3. old' \in 0..Len(out')
      <3>1. Len(out') \in Nat
        BY <2>1
      <3>2. old \in 0..Len(out) /\ old' = old
        BY <1>1, <2>2
      <3>3. QED
        BY <1>2, <2>1, <3>1, <3>2
    <2>4. ChunksMeasure'
      <3>1. pc' = "done" => RowFor(lex, cur.dist, cur.params) = 0
        BY <2>2, NoWordNoRow
      <3>2. QED
        BY <2>2, <3>1 DEF ChunksMeasure, lex
    <2>5. pc' \in {"done", "match"}
      BY <2>2
    <2>6. QED
      BY <1>1, <2>1, <2>2, <2>3, <2>4, <2>5 DEF EmitInv
  <1>5. CASE NoMatch
    <2>1. /\ pc' = "done" /\ line' = line /\ cur' = cur /\ out' = out /\ old' = old
          /\ said' = said \cup {"syntax"} /\ RowFor(lex, cur.dist, cur.params) = 0
      BY <1>5 DEF NoMatch
    <2>2. said' \subseteq Complaints
      BY <1>1, <2>1 DEF Complaints
    <2>3. ChunksMeasure'
      BY <2>1 DEF ChunksMeasure, lex
    <2>4. QED
      BY <1>1, <2>1, <2>2, <2>3 DEF EmitInv
  <1>6. CASE TakeRow
    <2>1. AtWork'
      BY <1>1, <1>6, TakeRowEmits DEF AtWork
    <2>2. /\ pc' = "emit" /\ line' = line /\ cur' = cur /\ out' = out /\ old' = Len(out)
          /\ said' = said
      BY <1>6 DEF TakeRow
    <2>3. old' \in 0..Len(out')
      BY <1>2, <2>2
    <2>4. QED
      BY <1>1, <2>1, <2>2, <2>3 DEF EmitInv, AtWork, ChunksMeasure
  <1>7. CASE EmitEntry
    <2>1. /\ pc = "emit" /\ todo # <<>> /\ todo' = Tail(todo)
          /\ line' = line /\ cur' = cur /\ pc' = pc /\ old' = old
      BY <1>7, EntryTaken
    <2>2. CASE cur.cmd = "SAL" /\ SalLeft(todo, Len(cur.params))
      <3>1. /\ SalLeft(todo', Len(cur.params)) /\ said' \subseteq Complaints
            /\ out' \in Seq(Bytes) /\ Len(out) <= Len(out')
        BY <1>1, <1>7, <2>2, SalBytes
      <3>2. AtWork'
        BY <2>1, <2>2, <3>1 DEF AtWork, SalLeft
      <3>3. old' \in 0..Len(out')
        <4>1. Len(out') \in Nat
          BY <3>1
        <4>2. QED
          BY <1>1, <1>2, <2>1, <3>1, <4>1
      <3>4. QED
        BY <1>1, <2>1, <3>1, <3>2, <3>3 DEF EmitInv, AtWork, ChunksMeasure
    <2>3. ASSUME NEW k, NEW s, Emitting(k, s) PROVE EmitInv'
      <3>1. /\ Ready(Entry1, cur.params)
            /\ Entry1.cmd = "RM" => Len(out) = old + 1
        BY <1>1, <2>1, <2>3, NextEntry
      <3>2. /\ out' \in Seq(Bytes) /\ Len(out') = Len(out) + EntrySize(Entry1, cur.params)
            /\ said' \subseteq Complaints
        BY <1>1, <1>2, <1>7, <3>1, EntryBytes
      <3>3. Emitting(k + 1, s)' /\ old' \in 0..Len(out')
        BY <1>1, <1>2, <2>1, <2>3, <3>2, EntryDone
      <3>4. AtWork'
        BY <3>3 DEF AtWork
      <3>5. QED
        BY <1>1, <2>1, <3>2, <3>3, <3>4 DEF EmitInv, AtWork, ChunksMeasure
    <2>4. QED
      BY <1>1, <2>1, <2>2, <2>3 DEF AtWork
  <1>8. CASE Crash
    <2>1. /\ pc = "emit" /\ todo # <<>> /\ Entry1.cmd = "RM" /\ Entry1.a >= Len(cur.params)
          /\ pc' = "crash" /\ line' = line /\ cur' = cur /\ out' = out /\ old' = old /\ said' = said
      BY <1>8 DEF Crash
    <2>2. cur.cmd = "SAL"
      <3>1. ASSUME NEW k, NEW s, Emitting(k, s) PROVE FALSE
        <4>1. Entry1.a < Len(cur.params) /\ Entry1.a \in Nat
          BY <1>1, <2>1, <3>1, NextEntry DEF Ready, SafeEntry, TableEntry
        <4>2. Len(cur.params) \in Nat
          BY <1>2
        <4>3. QED
          BY <2>1, <4>1, <4>2
      <3>2. QED
        BY <1>1, <2>1, <3>1 DEF AtWork
    <2>3. QED
      BY <1>1, <2>1, <2>2 DEF EmitInv, ChunksMeasure
  <1>9. CASE Finish
    <2>1. /\ pc = "emit" /\ todo = <<>> /\ pc' = "done"
          /\ line' = line /\ cur' = cur /\ out' = out /\ old' = old /\ said' = said
      BY <1>9 DEF Finish
    <2>2. Len(out) - old = Size(RowChunks(TakenRow, cur.params))
      <3>1. ~SalLeft(todo, Len(cur.params))
        BY <2>1, SalEntries DEF SalLeft
      <3>2. PICK k, s : Emitting(k, s)
        BY <1>1, <2>1, <3>1 DEF AtWork
      <3>3. /\ Len(TakenRow.ops) \in Nat /\ k \in 0..Len(TakenRow.ops) /\ Len(out) - old = s[k]
            /\ Len(todo) = Len(TakenRow.ops) - k
            /\ Size(RowChunks(TakenRow, cur.params)) = s[Len(TakenRow.ops)]
        BY <3>2 DEF Emitting, ReadyRow
      <3>4. Len(todo) = 0
        BY <2>1
      <3>5. k = Len(TakenRow.ops)
        BY <3>3, <3>4
      <3>6. QED
        BY <3>3, <3>5
    <2>3. ChunksMeasure'
      BY <2>1, <2>2 DEF ChunksMeasure, TakenRow, lex
    <2>4. QED
      BY <1>1, <2>1, <2>3 DEF EmitInv
  <1>10. CASE UNCHANGED vars
    <2>1. /\ line' = line /\ cur' = cur /\ pc' = pc /\ todo' = todo /\ out' = out /\ old' = old
          /\ said' = said
      BY <1>10 DEF vars
    <2>2. AtWork => AtWork'
      <3>1. ASSUME NEW k, NEW s, Emitting(k, s) PROVE Emitting(k, s)'
        BY <2>1, <3>1 DEF Emitting, TakenRow, lex
      <3>2. SalLeft(todo, Len(cur.params)) => SalLeft(todo, Len(cur.params))'
        BY <2>1 DEF SalLeft
      <3>3. QED
        BY <2>1, <3>1, <3>2 DEF AtWork
    <2>3. ChunksMeasure'
      BY <1>1, <2>1 DEF ChunksMeasure, lex
    <2>4. QED
      BY <1>1, <2>1, <2>2, <2>3 DEF EmitInv, AtWork
  <1>11. Emit => EmitEntry \/ Crash \/ Finish
    BY DEF Emit, EmitEntry, EmitPlain, EmitJump
  <1>12. QED
    BY <1>3, <1>4, <1>5, <1>6, <1>7, <1>8, <1>9, <1>10, <1>11 DEF Next

LEMMA EmitAlways == Spec => []EmitInv
  BY EmitInit, EmitStep, PTL DEF Spec

(* split_line, the match and do_instruction make a t_line of every line    *)
(* and put out bytes, never taking back what was there (ASSEMBLR.C:312).   *)
THEOREM LineTypes == Spec => []TypeOK
  <1>1. EmitInv => TypeOK
    BY LinesAssumption DEF EmitInv, TypeOK, Bytes, Complaints
  <1>2. QED
    BY <1>1, EmitAlways, PTL

(* No line and no symbols make an instruction but SAL read an operand it   *)
(* does not have: do_rm_op is called for operands that match_params saw,   *)
(* for every row of instr86 (ASSEMBLR.C:312, TABLES.C).                    *)
THEOREM RowsInBounds == Spec => []OnlySalCrashes
  <1>1. EmitInv => OnlySalCrashes
    BY DEF EmitInv, OnlySalCrashes
  <1>2. QED
    BY <1>1, EmitAlways, PTL

(* Whatever the row, the operands, the symbols and the prefix get_address  *)
(* inserts, do_instruction leaves outptr where the chunks of the row say   *)
(* (ASSEMBLR.C:312, MISC.C).                                               *)
THEOREM ChunksHold == Spec => []ChunksMeasure
  <1>1. EmitInv => ChunksMeasure
    BY DEF EmitInv
  <1>2. QED
    BY <1>1, EmitAlways, PTL
=============================================================================
