-------------------------------- MODULE Rdoff --------------------------------
(***************************************************************************)
(* The RDOFF2 file of RDF.C, byte by byte, and the reader and the linker   *)
(* of doc/rdoff2-spec.md it is written for.                                *)
(*                                                                         *)
(* What is written is an object: the imports and globals of the constant   *)
(* table, bss_amount, relocs, and the bytes of outprog and dataprog.  The  *)
(* order of the records of a kind is the order of a list and left open.    *)
(***************************************************************************)
EXTENDS SymbolTable, SequencesExt

CONSTANT Spelling  (* the characters of each part of a name                 *)

Low(v, n) == [i \in 1..n |-> (v \div 256^(i - 1)) % 256]
Asciiz(name) == FlattenSeq([i \in DOMAIN name.path |-> Spelling[name.path[i]]]) \o <<0>>
NameLen(name) == FoldLeft(LAMBDA n, part : n + Len(Spelling[part]), 0, name.path)

(* write_import_record and the like: the length is reckoned beside what it *)
(* is the length of, and kept in a byte.                                   *)
Record(type, payload, bytes) == <<type, payload % 256>> \o bytes
ImportRecord(i) == Record(2, 1 + 2 + NameLen(i.name) + 1, <<0>> \o Low(i.id, 2) \o Asciiz(i.name))
GlobalRecord(g) == Record(3, 1 + 1 + 4 + NameLen(g.name) + 1,
                          <<1, g.seg>> \o Low(g.ofs, 4) \o Asciiz(g.name))
BssRecord(n)    == Record(5, 4, Low(n, 4))
Segment(sec)    == CASE sec = "TEXT" -> 0 [] sec = "DATA" -> 1 [] sec = "BSS" -> 2
RelocRecord(r)  ==
  Record(IF r.para THEN 6 ELSE 1, 8,
         <<Segment(r.sec) + (IF r.rel /\ ~r.para THEN 64 ELSE 0)>>
           \o Low(r.ofs, 4) \o <<r.width>> \o Low(r.seg, 2))

Records(o) ==
  FlattenSeq(SetToSeq({ImportRecord(i) : i \in o.imports} \cup {GlobalRecord(g) : g \in o.globals}))
    \o (IF o.bss # 0 THEN BssRecord(o.bss) ELSE <<>>)
    \o FlattenSeq([k \in DOMAIN o.relocs |-> RelocRecord(o.relocs[k])])

(* Defect: the zero after a name is not counted.                           *)
HeaderSizeNoZero(o) ==
  LET Sum2(S) == FoldSet(LAMBDA x, n : n + NameLen(x.name), 0, S)
  IN (2 + 1 + 2) * Cardinality(o.imports) + Sum2(o.imports)
       + (2 + 1 + 1 + 4) * Cardinality(o.globals) + Sum2(o.globals)
       + (IF o.bss # 0 THEN 2 + 4 ELSE 0) + (2 + 8) * Len(o.relocs)

(* compute_header_size; bss_amount has no sign.                            *)
HeaderSize(o) ==
  LET Names(S) == FoldSet(LAMBDA x, n : n + NameLen(x.name), 0, S)
  IN (2 + 1 + 2 + 1) * Cardinality(o.imports) + Names(o.imports)
       + (2 + 1 + 1 + 4 + 1) * Cardinality(o.globals) + Names(o.globals)
       + (IF o.bss # 0 THEN 2 + 4 ELSE 0) + (2 + 8) * Len(o.relocs)

SegmentBlock(type, number, bytes) ==
  IF bytes = <<>> THEN <<>>
  ELSE Low(type, 2) \o Low(number, 2) \o Low(0, 2) \o Low(Len(bytes), 4) \o bytes
Signature == <<82, 68, 79, 70, 70, 50>>
(* write_rdf: the module's size is patched in when all of it is written.   *)
WriteRdf(o) ==
  LET rest == Low(HeaderSize(o), 4) \o Records(o) \o SegmentBlock(1, 0, o.code)
                \o SegmentBlock(2, 1, o.data) \o [i \in 1..10 |-> 0]
  IN Signature \o Low(Len(Signature) + 4 + Len(rest), 4) \o rest
-----------------------------------------------------------------------------
(* Reading a file b, by the specification of the format.  Positions are    *)
(* counted from 0, as there.                                               *)

At(b, p) == IF p + 1 \in DOMAIN b THEN b[p + 1] ELSE 0
Number2(b, p) == At(b, p) + 256 * At(b, p + 1)
Number4(b, p) ==  (* 32 bits, signed *)
  LET high == Number2(b, p + 2)
  IN Number2(b, p) + 65536 * (IF high < 32768 THEN high ELSE high - 65536)

(* The starts of the records between p and the end of the header: each is  *)
(* two bytes and the length in the second of them on.                      *)
RecordStarts(b) ==
  LET end == 14 + Number4(b, 10)
      from[p \in 14..end + 257] == IF p >= end THEN {p} ELSE {p} \cup from[p + 2 + At(b, p + 1)]
  IN from[14]
(* The starts of the segments: after the last one's header nothing follows.*)
SegmentStarts(b) ==
  LET from[p \in 0..Len(b)] ==
        IF Number2(b, p) = 0 \/ p + 10 + Number4(b, p + 6) > Len(b) THEN {p}
        ELSE {p} \cup from[p + 10 + Number4(b, p + 6)]
  IN from[14 + Number4(b, 10)]

(* The bytes before the zero at or after p.                                *)
ReadName(b, p) ==
  LET zero == CHOOSE q \in p..Len(b) : At(b, q) = 0 /\ \A x \in p..q - 1 : At(b, x) # 0
  IN SubSeq(b, p + 1, zero)
ReadReloc(b, p) ==
  [segment |-> At(b, p + 2) % 64, ofs |-> Number4(b, p + 3), width |-> At(b, p + 7),
   seg |-> Number2(b, p + 8), rel |-> At(b, p) = 1 /\ At(b, p + 2) >= 64, para |-> At(b, p) = 6]
ReadSegment(b, type) ==
  LET P == {p \in SegmentStarts(b) : Number2(b, p) = type}
  IN IF P = {} THEN <<>>
     ELSE LET p == CHOOSE x \in P : TRUE IN SubSeq(b, p + 11, p + 10 + Number4(b, p + 6))

ReadRdf(b) ==
  LET end == 14 + Number4(b, 10)
      Starts(types) == {p \in RecordStarts(b) : p < end /\ At(b, p) \in types}
      (* each record is as long as it says and the header as they are       *)
      whole == /\ end \in RecordStarts(b) /\ end <= Len(b)
               /\ Number4(b, 6) = Len(b)
               /\ \A p \in Starts(0..255) : At(b, p) \in {1, 2, 3, 5, 6}
               /\ \E p \in SegmentStarts(b) : Number2(b, p) = 0 /\ p + 10 = Len(b)
               /\ \A p \in Starts({2}) : Len(ReadName(b, p + 5)) = At(b, p + 1) - 4
               /\ \A p \in Starts({3}) : Len(ReadName(b, p + 8)) = At(b, p + 1) - 7
  IN [whole   |-> whole,
      imports |-> {[id |-> Number2(b, p + 3), name |-> ReadName(b, p + 5)] : p \in Starts({2})},
      globals |-> {[seg |-> At(b, p + 3), ofs |-> Number4(b, p + 4), name |-> ReadName(b, p + 8)] :
                     p \in Starts({3})},
      bss     |-> FoldSet(LAMBDA p, n : n + Number4(b, p + 2), 0, Starts({5})),
      relocs  |-> {ReadReloc(b, p) : p \in Starts({1, 6})},
      fixups  |-> Cardinality(Starts({1, 6})),
      code    |-> ReadSegment(b, 1),
      data    |-> ReadSegment(b, 2)]
-----------------------------------------------------------------------------
(* Linking a module m that has been read: its code and data are placed at  *)
(* the bases of place, an import at its id's place.                        *)

Base(m, place, seg) ==
  CASE seg = 0 -> place.code
    [] seg = 1 -> place.data
    [] seg = 2 -> place.data + Len(m.data)
    [] seg > 2 -> place.import + 256 * seg
(* The paragraph a segment relocation is given.                            *)
Paragraph(place, seg) ==
  CASE seg = 0 -> place.code \div 16 [] seg \in {1, 2} -> place.data \div 16
    [] seg > 2 -> place.import \div 16 + seg

(* What the linker leaves in the width bytes at ofs of a segment.          *)
LinkedField(m, place, segment, ofs, width) ==
  LET bytes == IF segment = 0 THEN m.code ELSE m.data
      plain == IF width = 1 THEN At(bytes, ofs)
               ELSE IF width = 2 THEN Number2(bytes, ofs) ELSE Number4(bytes, ofs)
      Fixup(r, v) ==
        IF r.para THEN Paragraph(place, r.seg)
        ELSE v + Base(m, place, r.seg) - (IF r.rel THEN Base(m, place, r.segment) ELSE 0)
      here == {r \in m.relocs : r.segment = segment /\ r.ofs = ofs /\ r.width = width}
  IN FoldSet(Fixup, plain, here)
==============================================================================
